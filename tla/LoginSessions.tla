---------------------------- MODULE LoginSessions ----------------------------
(***************************************************************************)
(* Login by signed launch data, sessions and logout (src/app/auth), with   *)
(* the staff bot creating users on its own path (src/app/bot/identity.py). *)
(* A launch is verified by its age, reserved in Redis and exchanged in one *)
(* PostgreSQL transaction.  Redis keeps nothing over a restart; time goes  *)
(* in fractions of a second while the code verifies in whole seconds.      *)
(***************************************************************************)
EXTENDS Naturals, Sequences, FiniteSets

CONSTANTS
    Accounts,      \* MAX users
    Launches,      \* signed launch data, each with its own signature
    AccountOf,     \* the user a launch was signed for
    AuthDate,      \* the second it was signed in
    PerSecond,     \* ticks of the clock in a second
    LaunchTTL,     \* max_init_data_ttl_seconds
    Skew,          \* max_init_data_future_skew_seconds
    SessionTTL,    \* session_ttl_seconds
    Calls,         \* API requests and bot webhooks served at the same time
    MaxTime        \* bound: the last tick

ASSUME LaunchesAssumption ==
    /\ AccountOf \in [Launches -> Accounts] /\ AuthDate \in [Launches -> Nat]
    /\ Launches # {} /\ Accounts # {}

ASSUME TimeAssumption ==
    /\ PerSecond \in Nat \ {0} /\ LaunchTTL \in Nat /\ Skew \in Nat
    /\ SessionTTL \in Nat /\ MaxTime \in Nat

VARIABLES
    now,
    keys,       \* auth:launch keys: the tick their time ends at; 0: none
    reserved,   \* launches accepted by Redis at some time
    forgotten,  \* launches whose key Redis has lost
    listed,     \* max_owner_ids and max_employee_ids of the running API
    user,       \* users rows: absent, active or inactive
    created,    \* "user.created" rows of the audit log, by user
    sessions,   \* auth_sessions rows, with their "auth.logout" rows
    call        \* local state of each request

vars == <<now, keys, reserved, forgotten, listed, user, created, sessions, call>>

Phases == {"idle", "verified", "entering", "present", "locked", "signed", "authenticated",
           "revoking"}

\* made: this transaction has inserted the users row; session: the session to
\* log out of; expires: of the session this transaction has inserted.
CallStates ==
    [pc : Phases, kind : {"login", "bot", "logout"}, account : Accounts, launch : Launches,
     made : BOOLEAN, session : Nat, expires : Nat]

SessionRows == [launch : Launches, expires : Nat, revoked : BOOLEAN, logouts : Nat]

TypeOK ==
    /\ now \in 0..MaxTime
    /\ keys \in [Launches -> Nat]
    /\ reserved \in SUBSET Launches /\ forgotten \in SUBSET Launches
    /\ listed \in SUBSET Accounts
    /\ user \in [Accounts -> {"absent", "active", "inactive"}]
    /\ created \in [Accounts -> Nat]
    /\ sessions \in Seq(SessionRows)
    /\ call \in [Calls -> CallStates]

Idle ==
    [pc |-> "idle", kind |-> "bot", account |-> CHOOSE u \in Accounts : TRUE,
     launch |-> CHOOSE l \in Launches : TRUE, made |-> FALSE, session |-> 0, expires |-> 0]

Init ==
    /\ now = 0
    /\ keys = [l \in Launches |-> 0]
    /\ reserved = {} /\ forgotten = {}
    /\ listed \in SUBSET Accounts
    /\ user = [u \in Accounts |-> "absent"]
    /\ created = [u \in Accounts |-> 0]
    /\ sessions = <<>>
    /\ call = [c \in Calls |-> Idle]

-----------------------------------------------------------------------------
(* The surroundings.                                                       *)

Tick ==
    /\ now < MaxTime
    /\ now' = now + 1
    /\ UNCHANGED <<keys, reserved, forgotten, listed, user, created, sessions, call>>

KeyLive(l) == now < keys[l]

\* Redis restarts: no snapshots, no append-only file.
LoseKeys ==
    /\ keys' = [l \in Launches |-> 0]
    /\ forgotten' = forgotten \cup {l \in Launches : KeyLive(l)}
    /\ UNCHANGED <<now, reserved, listed, user, created, sessions, call>>

\* The API restarts with other lists of MAX ids: all open calls end.
Redeploy ==
    /\ listed' \in SUBSET Accounts
    /\ call' = [c \in Calls |-> Idle]
    /\ UNCHANGED <<now, keys, reserved, forgotten, user, created, sessions>>

\* Mutant: the row of the user is read without FOR UPDATE.
UserUnlocked(c, u) == FALSE

\* Call c has inserted the users row of u, or read it FOR UPDATE.
HasUser(c, u) ==
    /\ call[c].account = u
    /\ \/ call[c].made
       \/ call[c].pc \in {"locked", "signed"} /\ call[c].kind = "login"

\* Somebody disables the account in the database, or enables it again.
SetActive(u) ==
    /\ user[u] # "absent"
    /\ \A c \in Calls : ~HasUser(c, u)
    /\ user' = [user EXCEPT ![u] = IF @ = "active" THEN "inactive" ELSE "active"]
    /\ UNCHANGED <<now, keys, reserved, forgotten, listed, created, sessions, call>>

-----------------------------------------------------------------------------
(* Login.                                                                  *)

\* The age verify_max_init_data accepts, in the seconds of int(time.time()).
Acceptable(l) ==
    LET second == now \div PerSecond IN
    AuthDate[l] <= second + Skew /\ second <= AuthDate[l] + LaunchTTL

\* The launch is verified and its user listed; the budgets let it pass.
BeginLogin(c, l) ==
    /\ call[c].pc = "idle"
    /\ Acceptable(l)
    /\ AccountOf[l] \in listed
    /\ call' = [call EXCEPT ![c] = [Idle EXCEPT !.pc = "verified", !.kind = "login",
                                                !.account = AccountOf[l], !.launch = l]]
    /\ UNCHANGED <<now, keys, reserved, forgotten, listed, user, created, sessions>>

\* Mutant: the key is kept for the two tolerances, without the second lost in
\* rounding the time down.
KeyLifeShort == (LaunchTTL + Skew) * PerSecond

\* How long a reserved launch stays reserved.
KeyLife == (LaunchTTL + Skew + 1) * PerSecond

\* SET NX EX.
Consume(c) ==
    LET l == call[c].launch IN
    /\ call[c].pc = "verified"
    /\ ~KeyLive(l)
    /\ keys' = [keys EXCEPT ![l] = now + KeyLife]
    /\ reserved' = reserved \cup {l}
    /\ forgotten' = forgotten \ {l}
    /\ call' = [call EXCEPT ![c].pc = "entering"]
    /\ UNCHANGED <<now, listed, user, created, sessions>>

\* A webhook of a listed user reaches native_actor.
BeginBot(c, u) ==
    /\ call[c].pc = "idle"
    /\ u \in listed
    /\ call' = [call EXCEPT ![c] = [Idle EXCEPT !.pc = "entering", !.account = u]]
    /\ UNCHANGED <<now, keys, reserved, forgotten, listed, user, created, sessions>>

\* Mutant: the creation is recorded whether or not the row was new.
RecordAlways(c) == TRUE

\* INSERT ... ON CONFLICT DO NOTHING returned a row: the user was unknown.
Inserts(c) == user[call[c].account] = "absent"

\* It waits for another transaction that has inserted the same user.
UpsertUser(c) ==
    /\ call[c].pc = "entering"
    /\ \A d \in Calls \ {c} : call[d].made => call[d].account # call[c].account
    /\ call' = [call EXCEPT ![c].pc = "present", ![c].made = Inserts(c)]
    /\ UNCHANGED <<now, keys, reserved, forgotten, listed, user, created, sessions>>

\* The row is read, by a login FOR UPDATE; a row this transaction made is active.
LockUser(c) ==
    LET u == call[c].account IN
    /\ call[c].pc = "present"
    /\ call[c].kind = "login" => \A d \in Calls \ {c} : ~HasUser(d, u)
    /\ call[c].made \/ user[u] = "active"
    /\ call' = [call EXCEPT ![c].pc = IF call[c].kind = "login" THEN "locked" ELSE "signed"]
    /\ UNCHANGED <<now, keys, reserved, forgotten, listed, user, created, sessions>>

\* Mutant: the fingerprint of the launch has no unique key.
NeverUsed(l) == FALSE

\* A committed session holds the fingerprint.  One of an open transaction would
\* be this user's, whose row is locked.
Used(l) == \E i \in DOMAIN sessions : sessions[i].launch = l

InsertSession(c) ==
    /\ call[c].pc = "locked"
    /\ ~Used(call[c].launch)
    /\ call' = [call EXCEPT ![c].pc = "signed", ![c].expires = now + SessionTTL * PerSecond]
    /\ UNCHANGED <<now, keys, reserved, forgotten, listed, user, created, sessions>>

\* The commit: the new user with its audit row, and the session of a login.
Commit(c) ==
    LET u == call[c].account IN
    /\ call[c].pc = "signed"
    /\ user' = [user EXCEPT ![u] = IF call[c].made THEN "active" ELSE @]
    /\ created' = [created EXCEPT ![u] = IF call[c].made THEN @ + 1 ELSE @]
    /\ sessions' = IF call[c].kind # "login" THEN sessions
                   ELSE Append(sessions, [launch |-> call[c].launch,
                                          expires |-> call[c].expires,
                                          revoked |-> FALSE, logouts |-> 0])
    /\ call' = [call EXCEPT ![c] = Idle]
    /\ UNCHANGED <<now, keys, reserved, forgotten, listed>>

-----------------------------------------------------------------------------
(* Sessions.                                                               *)

Holder(i) == AccountOf[sessions[i].launch]

\* authenticate: the session is neither revoked nor expired, its user active
\* and listed.
Opens(i) ==
    /\ ~sessions[i].revoked
    /\ now < sessions[i].expires
    /\ user[Holder(i)] = "active" /\ Holder(i) \in listed

BeginLogout(c, i) ==
    /\ call[c].pc = "idle"
    /\ Opens(i)
    /\ call' = [call EXCEPT ![c] = [Idle EXCEPT !.pc = "authenticated", !.kind = "logout",
                                                !.account = Holder(i), !.session = i]]
    /\ UNCHANGED <<now, keys, reserved, forgotten, listed, user, created, sessions>>

\* UPDATE ... WHERE revoked_at IS NULL RETURNING: it waits for another logout
\* of this session and then sees whether that one has revoked it.
Revokes(c) == ~sessions[call[c].session].revoked

Revoke(c) ==
    /\ call[c].pc = "authenticated"
    /\ \A d \in Calls \ {c} : call[d].pc = "revoking" => call[d].session # call[c].session
    /\ call' = [call EXCEPT ![c] = IF Revokes(c) THEN [@ EXCEPT !.pc = "revoking"] ELSE Idle]
    /\ UNCHANGED <<now, keys, reserved, forgotten, listed, user, created, sessions>>

CommitLogout(c) ==
    LET i == call[c].session IN
    /\ call[c].pc = "revoking"
    /\ sessions' = [sessions EXCEPT ![i].revoked = TRUE, ![i].logouts = @ + 1]
    /\ call' = [call EXCEPT ![c] = Idle]
    /\ UNCHANGED <<now, keys, reserved, forgotten, listed, user, created>>

\* 401: the launch is reserved or used, or the user is disabled.
Refuse(c) ==
    /\ \/ call[c].pc = "verified" /\ KeyLive(call[c].launch)
       \/ call[c].pc = "present" /\ ~call[c].made /\ user[call[c].account] = "inactive"
       \/ call[c].pc = "locked" /\ Used(call[c].launch)
    /\ call' = [call EXCEPT ![c] = Idle]
    /\ UNCHANGED <<now, keys, reserved, forgotten, listed, user, created, sessions>>

\* A database or Redis error, a failing webhook or a dead process.
Abort(c) ==
    /\ call[c].pc # "idle"
    /\ call' = [call EXCEPT ![c] = Idle]
    /\ UNCHANGED <<now, keys, reserved, forgotten, listed, user, created, sessions>>

-----------------------------------------------------------------------------
Step(c) ==
    Consume(c) \/ UpsertUser(c) \/ LockUser(c) \/ InsertSession(c) \/ Commit(c)
      \/ Revoke(c) \/ CommitLogout(c) \/ Refuse(c)

Next ==
    \/ Tick \/ LoseKeys \/ Redeploy
    \/ \E u \in Accounts : SetActive(u)
    \/ \E c \in Calls :
           \/ \E l \in Launches : BeginLogin(c, l)
           \/ \E u \in Accounts : BeginBot(c, u)
           \/ \E i \in DOMAIN sessions : BeginLogout(c, i)
           \/ Step(c) \/ Abort(c)

Spec == Init /\ [][Next]_vars

-----------------------------------------------------------------------------
(* Properties.                                                             *)

\* One launch buys one session, for ever: also when Redis has lost the key, and
\* when a call was verified in time and reserved the launch after the key had
\* ended (docs/authentication.md: the unique fingerprint "protects from a
\* repeated login after a restart of Redis").
OneSessionPerLaunch ==
    \A i, j \in DOMAIN sessions : sessions[i].launch = sessions[j].launch => i = j

\* While its age is still acceptable a reserved launch stays reserved, unless
\* Redis loses the key.  The key's life starts as early as the skew allows and
\* has to cover the second that int(time.time()) leaves open (routes.py:122-128).
KeyOutlastsLaunch ==
    \A l \in reserved \ forgotten : Acceptable(l) => KeyLive(l)

\* "Parallel first launches create one identity and one creation audit event"
\* (service.py:43), and so do a launch and a webhook (identity.py:22-30); the audit
\* log has one logout of a revoked session, however many calls with its token log
\* out at the same time (service.py:114-128).
RecordsMatch ==
    /\ \A u \in Accounts : created[u] = IF user[u] = "absent" THEN 0 ELSE 1
    /\ \A i \in DOMAIN sessions : sessions[i].logouts = IF sessions[i].revoked THEN 1 ELSE 0

\* Why they hold: the row of a user being created or logged in has one holder, and
\* what that one found in it is still so.
UsersHeld ==
    \A c \in Calls :
        LET u == call[c].account IN
        /\ call[c].made => user[u] = "absent"
        /\ HasUser(c, u) => \A d \in Calls \ {c} : ~HasUser(d, u)
        /\ HasUser(c, u) /\ ~call[c].made => user[u] = "active"

\* A launch about to become a session is not one yet, and a session's user exists.
LaunchesHeld ==
    /\ \A c \in Calls : call[c].kind = "login" =>
           /\ call[c].account = AccountOf[call[c].launch]
           /\ call[c].pc = "signed" => ~Used(call[c].launch)
    /\ \A i \in DOMAIN sessions : user[Holder(i)] # "absent"

\* A session being revoked is not, and nobody else revokes it.
LogoutsHeld ==
    \A c \in Calls :
        LET i == call[c].session IN
        /\ call[c].pc \in {"authenticated", "revoking"} => i \in DOMAIN sessions
        /\ call[c].pc = "revoking" =>
               /\ ~sessions[i].revoked
               /\ \A d \in Calls \ {c} : call[d].pc = "revoking" => call[d].session # i

\* The tick from which the age of a launch is no longer acceptable.
TooOld(l) == (AuthDate[l] + LaunchTTL + 1) * PerSecond

\* What a verified launch's date tells of the time, and what a key covers.
KeysHeld ==
    /\ \A c \in Calls : call[c].pc = "verified" =>
           AuthDate[call[c].launch] * PerSecond <= now + Skew * PerSecond
    /\ \A l \in reserved \ forgotten : keys[l] >= TooOld(l) \/ now >= TooOld(l)

\* No session starts for a user who is disabled at that moment: the row stays
\* locked from the look at is_active to the commit (service.py:52-56).
SessionsOfActiveUsers ==
    [][Len(sessions') > Len(sessions) => user'[AccountOf[sessions'[Len(sessions')].launch]] = "active"]_vars
=============================================================================
