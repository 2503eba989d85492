---------------------------- MODULE LoginProofs -----------------------------
(***************************************************************************)
(* What logins, sessions and logouts promise, for any number of users,     *)
(* launches and calls and any lengths of time, and what a key of the login *)
(* budget does for any limit and any window.                               *)
(***************************************************************************)
EXTENDS LoginSessions, LoginBudget, SequenceTheorems, FiniteSetTheorems, TLAPS

\* A number of seconds in ticks.
LEMMA TicksType == \A n \in Nat : n * PerSecond \in Nat
<1> TAKE n \in Nat
<1>1. PerSecond \in Nat
    BY TimeAssumption
<1> QED
    BY <1>1

\* The states of a call.
LEMMA CallTypes ==
    ASSUME TypeOK
    PROVE  \A c \in Calls : call[c] \in CallStates /\ call[c].account \in Accounts
                            /\ call[c].launch \in Launches
    BY DEF TypeOK, CallStates

\* A call that serves nothing has a well-typed state.
LEMMA IdleType == Idle \in CallStates
    BY LaunchesAssumption DEF Idle, CallStates, Phases

\* What the steps of a call make of its state.
LEMMA CallExcepts ==
    ASSUME NEW r \in CallStates, NEW p \in Phases, NEW m \in BOOLEAN, NEW e \in Nat
    PROVE  /\ [r EXCEPT !.pc = p] \in CallStates
           /\ [r EXCEPT !.pc = p, !.made = m] \in CallStates
           /\ [r EXCEPT !.pc = p, !.expires = e] \in CallStates
    BY DEF CallStates

\* A call that goes on keeps what it is about, and the others stay as they are.
LEMMA GoesOn ==
    ASSUME TypeOK, NEW c \in Calls, NEW p, call' = [call EXCEPT ![c].pc = p]
    PROVE  /\ \A d \in Calls \ {c} : call'[d] = call[d]
           /\ call'[c].pc = p
           /\ call'[c].kind = call[c].kind /\ call'[c].account = call[c].account
           /\ call'[c].launch = call[c].launch /\ call'[c].made = call[c].made
           /\ call'[c].session = call[c].session
    BY CallTypes DEF TypeOK, CallStates

\* The rows of the sessions.
LEMMA SessionTypes ==
    ASSUME TypeOK, NEW i \in DOMAIN sessions
    PROVE  /\ i \in 1..Len(sessions) /\ i \in Nat
           /\ sessions[i] \in SessionRows /\ sessions[i].launch \in Launches
           /\ Holder(i) \in Accounts
<1>1. i \in 1..Len(sessions) /\ i \in Nat
    BY LenProperties DEF TypeOK
<1>2. sessions[i] \in SessionRows
    BY <1>1, ElementOfSeq DEF TypeOK
<1> QED
    BY <1>1, <1>2, LaunchesAssumption DEF SessionRows, Holder

\* A commit of a login adds the session its call has prepared, another one none.
LEMMA CommitEffect ==
    ASSUME TypeOK, NEW c \in Calls, Commit(c)
    PROVE  /\ sessions' \in Seq(SessionRows)
           /\ call[c].kind # "login" => sessions' = sessions
           /\ call[c].kind = "login" =>
                  /\ Len(sessions') = Len(sessions) + 1
                  /\ \A i \in 1..Len(sessions) : sessions'[i] = sessions[i]
                  /\ sessions'[Len(sessions) + 1] =
                        [launch |-> call[c].launch, expires |-> call[c].expires,
                         revoked |-> FALSE, logouts |-> 0]
<1> DEFINE row == [launch |-> call[c].launch, expires |-> call[c].expires,
                   revoked |-> FALSE, logouts |-> 0]
<1>1. row \in SessionRows
    BY DEF TypeOK, CallStates, SessionRows
<1>2. sessions \in Seq(SessionRows)
    BY DEF TypeOK
<1>3. sessions' = IF call[c].kind # "login" THEN sessions ELSE Append(sessions, row)
    BY DEF Commit
<1> HIDE DEF row
<1>4. CASE call[c].kind = "login"
    <2>1. sessions' = Append(sessions, row)
        BY <1>3, <1>4
    <2> QED
        BY <1>1, <1>2, <1>4, <2>1, AppendProperties DEF row
<1>5. CASE call[c].kind # "login"
    BY <1>2, <1>3, <1>5
<1> QED
    BY <1>4, <1>5

\* A logout revokes its session and leaves the others alone.
LEMMA LogoutEffect ==
    ASSUME TypeOK, LogoutsHeld, NEW c \in Calls, CommitLogout(c)
    PROVE  LET i == call[c].session IN
           /\ i \in DOMAIN sessions
           /\ sessions' \in Seq(SessionRows)
           /\ Len(sessions') = Len(sessions) /\ DOMAIN sessions' = DOMAIN sessions
           /\ \A j \in DOMAIN sessions \ {i} : sessions'[j] = sessions[j]
           /\ sessions'[i] = [sessions[i] EXCEPT !.revoked = TRUE, !.logouts = @ + 1]
<1> DEFINE i == call[c].session
           row == [sessions[i] EXCEPT !.revoked = TRUE, !.logouts = @ + 1]
<1>1. i \in DOMAIN sessions
    BY DEF CommitLogout, LogoutsHeld
<1>2. row \in SessionRows
    <2>1. sessions[i] \in SessionRows
        BY <1>1, SessionTypes
    <2>2. sessions[i].logouts + 1 \in Nat
        BY <2>1 DEF SessionRows
    <2>3. \A r \in SessionRows, n \in Nat :
              [r EXCEPT !.revoked = TRUE, !.logouts = n] \in SessionRows
        BY DEF SessionRows
    <2> QED
        BY <2>1, <2>2, <2>3
<1>3. sessions' = [sessions EXCEPT ![i] = row]
    BY DEF CommitLogout
<1>4. sessions \in Seq(SessionRows) /\ i \in 1..Len(sessions)
    BY <1>1, SessionTypes DEF TypeOK
<1> HIDE DEF row, i
<1>5. /\ sessions' \in Seq(SessionRows)
      /\ Len(sessions') = Len(sessions)
      /\ \A j \in 1..Len(sessions) : sessions'[j] = IF j = i THEN row ELSE sessions[j]
    BY <1>2, <1>3, <1>4, ExceptSeq
<1>6. DOMAIN sessions' = DOMAIN sessions /\ DOMAIN sessions = 1..Len(sessions)
    BY <1>4, <1>5, LenProperties
<1> QED
    BY <1>1, <1>4, <1>5, <1>6 DEF row, i

\* Every action keeps every variable in its type.
LEMMA TypeStep == TypeOK /\ LogoutsHeld /\ [Next]_vars => TypeOK'
<1> SUFFICES ASSUME TypeOK, LogoutsHeld, [Next]_vars PROVE TypeOK'
    OBVIOUS
<1>0. \A c \in Calls : call[c] \in CallStates /\ call[c].account \in Accounts
                       /\ call[c].launch \in Launches
    BY CallTypes
<1> USE IdleType, LaunchesAssumption, TimeAssumption
<1>1. CASE Tick
    BY <1>1 DEF Tick, TypeOK
<1>2. CASE LoseKeys
    BY <1>2 DEF LoseKeys, TypeOK
<1>3. CASE Redeploy
    BY <1>3 DEF Redeploy, TypeOK
<1>4. ASSUME NEW u \in Accounts, SetActive(u) PROVE TypeOK'
    BY <1>4 DEF SetActive, TypeOK
<1>5. ASSUME NEW c \in Calls, NEW l \in Launches, BeginLogin(c, l) PROVE TypeOK'
    <2>1. AccountOf[l] \in Accounts
        OBVIOUS
    <2> QED
        BY <1>5, <2>1 DEF BeginLogin, TypeOK, CallStates, Phases
<1>6. ASSUME NEW c \in Calls, NEW u \in Accounts, BeginBot(c, u) PROVE TypeOK'
    BY <1>6 DEF BeginBot, TypeOK, CallStates, Phases
<1>7. ASSUME NEW c \in Calls, NEW i \in DOMAIN sessions, BeginLogout(c, i) PROVE TypeOK'
    <2>1. Holder(i) \in Accounts /\ i \in Nat
        BY SessionTypes
    <2>2. [Idle EXCEPT !.pc = "authenticated", !.kind = "logout", !.account = Holder(i),
                       !.session = i] \in CallStates
        BY <2>1 DEF CallStates, Phases
    <2> QED
        BY <1>7, <2>2 DEF BeginLogout, TypeOK
<1>8. ASSUME NEW c \in Calls, Consume(c) PROVE TypeOK'
    <2>1. now + KeyLife \in Nat
        <3>1. now \in Nat
            BY DEF TypeOK
        <3>2. KeyLife \in Nat
            BY TicksType DEF KeyLife
        <3> QED
            BY <3>1, <3>2
    <2>2. [call[c] EXCEPT !.pc = "entering"] \in CallStates
        BY <1>0, CallExcepts DEF Phases
    <2> QED
        BY <1>0, <1>8, <2>1, <2>2 DEF Consume, TypeOK
<1>9. ASSUME NEW c \in Calls, UpsertUser(c) PROVE TypeOK'
    <2>1. [call[c] EXCEPT !.pc = "present", !.made = Inserts(c)] \in CallStates
        BY <1>0, CallExcepts DEF Phases, Inserts
    <2> QED
        BY <1>9, <2>1 DEF UpsertUser, TypeOK
<1>10. ASSUME NEW c \in Calls, LockUser(c) PROVE TypeOK'
    <2>1. \A p \in {"locked", "signed"} : [call[c] EXCEPT !.pc = p] \in CallStates
        BY <1>0, CallExcepts DEF Phases
    <2> QED
        BY <1>10, <2>1 DEF LockUser, TypeOK
<1>11. ASSUME NEW c \in Calls, InsertSession(c) PROVE TypeOK'
    <2>1. now + SessionTTL * PerSecond \in Nat
        <3>1. now \in Nat
            BY DEF TypeOK
        <3>2. SessionTTL * PerSecond \in Nat
            BY TicksType
        <3> QED
            BY <3>1, <3>2
    <2>2. [call[c] EXCEPT !.pc = "signed", !.expires = now + SessionTTL * PerSecond]
            \in CallStates
        BY <1>0, <2>1, CallExcepts DEF Phases
    <2> QED
        BY <1>11, <2>2 DEF InsertSession, TypeOK
<1>12. ASSUME NEW c \in Calls, Commit(c) PROVE TypeOK'
    <2>1. sessions' \in Seq(SessionRows)
        BY <1>12, CommitEffect
    <2>2. /\ user' \in [Accounts -> {"absent", "active", "inactive"}]
          /\ created' \in [Accounts -> Nat]
        BY <1>0, <1>12 DEF Commit, TypeOK
    <2> QED
        BY <1>12, <2>1, <2>2 DEF Commit, TypeOK
<1>13. ASSUME NEW c \in Calls, Revoke(c) PROVE TypeOK'
    <2>1. [call[c] EXCEPT !.pc = "revoking"] \in CallStates
        BY <1>0, CallExcepts DEF Phases
    <2> QED
        BY <1>13, <2>1 DEF Revoke, TypeOK
<1>14. ASSUME NEW c \in Calls, CommitLogout(c) PROVE TypeOK'
    <2>1. sessions' \in Seq(SessionRows)
        BY <1>14, LogoutEffect
    <2> QED
        BY <1>14, <2>1 DEF CommitLogout, TypeOK
<1>15. ASSUME NEW c \in Calls, Refuse(c) PROVE TypeOK'
    BY <1>15 DEF Refuse, TypeOK
<1>16. ASSUME NEW c \in Calls, Abort(c) PROVE TypeOK'
    BY <1>16 DEF Abort, TypeOK
<1>17. CASE UNCHANGED vars
    BY <1>17 DEF vars, TypeOK
<1> QED
    BY <1>1, <1>2, <1>3, <1>4, <1>5, <1>6, <1>7, <1>8, <1>9, <1>10, <1>11, <1>12, <1>13,
       <1>14, <1>15, <1>16, <1>17 DEF Next, Step

-----------------------------------------------------------------------------
(* The row of a user has one holder.                                       *)

\* Calls that keep what they hold, or hold nothing, disturb nobody.
LEMMA UsersKept ==
    ASSUME TypeOK, TypeOK', UsersHeld, user' = user,
           \A c \in Calls :
               \/ /\ call'[c].made = call[c].made /\ call'[c].account = call[c].account
                  /\ \A u \in Accounts : HasUser(c, u)' <=> HasUser(c, u)
               \/ ~call'[c].made /\ \A u \in Accounts : ~HasUser(c, u)'
    PROVE  UsersHeld'
<1>1. ASSUME NEW c \in Calls, NEW u \in Accounts, u = call'[c].account
      PROVE  /\ call'[c].made => user'[u] = "absent"
             /\ HasUser(c, u)' => \A d \in Calls \ {c} : ~HasUser(d, u)'
             /\ HasUser(c, u)' /\ ~call'[c].made => user'[u] = "active"
    <2>1. call[c].account \in Accounts
        BY DEF TypeOK, CallStates
    <2>2. CASE call'[c].made = call[c].made /\ call'[c].account = call[c].account
               /\ \A x \in Accounts : HasUser(c, x)' <=> HasUser(c, x)
        <3>1. \A d \in Calls : HasUser(d, u)' => HasUser(d, u)
            OBVIOUS
        <3> QED
            BY <1>1, <2>1, <2>2, <3>1 DEF UsersHeld
    <2>3. CASE ~call'[c].made /\ \A x \in Accounts : ~HasUser(c, x)'
        BY <1>1, <2>3
    <2> QED
        BY <2>2, <2>3
<1>2. \A c \in Calls : call'[c].account \in Accounts
    BY DEF TypeOK, CallStates
<1> QED
    BY <1>1, <1>2 DEF UsersHeld

\* Every action keeps the holders apart.
LEMMA UsersStep == TypeOK /\ TypeOK' /\ UsersHeld /\ [Next]_vars => UsersHeld'
<1> SUFFICES ASSUME TypeOK, TypeOK', UsersHeld, [Next]_vars PROVE UsersHeld'
    OBVIOUS
<1>0. \A c \in Calls : call[c] \in CallStates /\ call[c].account \in Accounts
                       /\ call[c].launch \in Launches
    BY CallTypes
<1>a. ~Idle.made /\ Idle.pc = "idle"
    BY DEF Idle
<1>1. CASE Tick \/ LoseKeys
    BY <1>1 DEF Tick, LoseKeys, UsersHeld, HasUser
<1>3. CASE Redeploy
    BY <1>3, <1>a DEF Redeploy, UsersHeld, HasUser
<1>4. ASSUME NEW u \in Accounts, SetActive(u) PROVE UsersHeld'
    BY <1>0, <1>4 DEF SetActive, UsersHeld, HasUser, TypeOK
<1>5. ASSUME NEW c \in Calls, NEW l \in Launches, BeginLogin(c, l) PROVE UsersHeld'
    BY <1>5, <1>a, UsersKept DEF BeginLogin, HasUser, TypeOK, CallStates, Idle
<1>6. ASSUME NEW c \in Calls, NEW u \in Accounts, BeginBot(c, u) PROVE UsersHeld'
    BY <1>6, UsersKept DEF BeginBot, HasUser, TypeOK, CallStates, Idle
<1>7. ASSUME NEW c \in Calls, NEW i \in DOMAIN sessions, BeginLogout(c, i) PROVE UsersHeld'
    BY <1>7, UsersKept DEF BeginLogout, HasUser, TypeOK, CallStates, Idle
<1>8. ASSUME NEW c \in Calls, Consume(c) PROVE UsersHeld'
    BY <1>8, UsersKept DEF Consume, HasUser, TypeOK, CallStates
<1>9. ASSUME NEW c \in Calls, UpsertUser(c) PROVE UsersHeld'
    <2> DEFINE v == call[c].account
    <2>1. /\ \A d \in Calls \ {c} : call'[d] = call[d]
          /\ call[c].pc = "entering" /\ call'[c].pc = "present"
          /\ call'[c].account = v
          /\ call'[c].made <=> (user[v] = "absent")
          /\ user' = user
          /\ \A d \in Calls \ {c} : call[d].made => call[d].account # v
        BY <1>0, <1>9 DEF UpsertUser, Inserts, TypeOK, CallStates
    <2>2. /\ \A d \in Calls \ {c}, u \in Accounts : HasUser(d, u)' <=> HasUser(d, u)
          /\ \A u \in Accounts : HasUser(c, u)' <=> (u = v /\ user[v] = "absent")
        BY <2>1 DEF HasUser
    <2>3. \A d \in Calls \ {c} : ~HasUser(d, v) \/ user[v] # "absent"
        <3> SUFFICES ASSUME NEW d \in Calls \ {c}, HasUser(d, v) PROVE user[v] # "absent"
            OBVIOUS
        <3>1. call[d].account = v /\ ~call[d].made
            BY <2>1 DEF HasUser
        <3>2. user[v] = "active"
            BY <3>1 DEF UsersHeld
        <3> QED
            BY <3>2
    <2>4. v \in Accounts
        BY <1>0
    <2> QED
        BY <1>0, <2>1, <2>2, <2>3, <2>4 DEF UsersHeld
<1>10. ASSUME NEW c \in Calls, LockUser(c) PROVE UsersHeld'
    BY <1>0, <1>10 DEF LockUser, UsersHeld, HasUser, TypeOK, CallStates
<1>11. ASSUME NEW c \in Calls, InsertSession(c) PROVE UsersHeld'
    <2>1. \A d \in Calls \ {c} : call'[d] = call[d]
        BY <1>11 DEF InsertSession, TypeOK
    <2>2. /\ call[c].pc = "locked" /\ call'[c].pc = "signed"
          /\ call'[c].kind = call[c].kind /\ call'[c].account = call[c].account
          /\ call'[c].made = call[c].made
        BY <1>0, <1>11 DEF InsertSession, TypeOK, CallStates
    <2>3. \A d \in Calls, u \in Accounts : HasUser(d, u)' <=> HasUser(d, u)
        BY <2>1, <2>2 DEF HasUser
    <2> QED
        BY <1>11, <2>1, <2>2, <2>3, UsersKept DEF InsertSession
<1>12. ASSUME NEW c \in Calls, Commit(c) PROVE UsersHeld'
    BY <1>0, <1>12, <1>a DEF Commit, UsersHeld, HasUser, TypeOK
<1>13. ASSUME NEW c \in Calls, Revoke(c) PROVE UsersHeld'
    <2>1. \A d \in Calls \ {c} : call'[d] = call[d]
        BY <1>13 DEF Revoke, TypeOK
    <2>2. CASE Revokes(c)
        <3>1. /\ call[c].pc = "authenticated" /\ call'[c].pc = "revoking"
              /\ call'[c].kind = call[c].kind /\ call'[c].account = call[c].account
              /\ call'[c].made = call[c].made
            BY <1>0, <1>13, <2>2 DEF Revoke, TypeOK, CallStates
        <3>2. \A d \in Calls, u \in Accounts : HasUser(d, u)' <=> HasUser(d, u)
            BY <2>1, <3>1 DEF HasUser
        <3> QED
            BY <1>13, <2>1, <3>1, <3>2, UsersKept DEF Revoke
    <2>3. CASE ~Revokes(c)
        <3>1. call'[c] = Idle
            BY <1>13, <2>3 DEF Revoke, TypeOK
        <3>2. ~call'[c].made /\ \A u \in Accounts : ~HasUser(c, u)'
            BY <1>a, <3>1 DEF HasUser
        <3>3. \A d \in Calls \ {c}, u \in Accounts : HasUser(d, u)' <=> HasUser(d, u)
            BY <2>1 DEF HasUser
        <3> QED
            BY <1>13, <2>1, <3>2, <3>3, UsersKept DEF Revoke
    <2> QED
        BY <2>2, <2>3
<1>14. ASSUME NEW c \in Calls, CommitLogout(c) PROVE UsersHeld'
    BY <1>14, <1>a, UsersKept DEF CommitLogout, HasUser, TypeOK, CallStates
<1>15. ASSUME NEW c \in Calls, Refuse(c) PROVE UsersHeld'
    BY <1>15, <1>a, UsersKept DEF Refuse, HasUser, TypeOK, CallStates
<1>16. ASSUME NEW c \in Calls, Abort(c) PROVE UsersHeld'
    BY <1>16, <1>a, UsersKept DEF Abort, HasUser, TypeOK, CallStates
<1>17. CASE UNCHANGED vars
    BY <1>17 DEF vars, UsersHeld, HasUser
<1> QED
    BY <1>1, <1>3, <1>4, <1>5, <1>6, <1>7, <1>8, <1>9, <1>10, <1>11, <1>12, <1>13,
       <1>14, <1>15, <1>16, <1>17 DEF Next, Step

-----------------------------------------------------------------------------
(* A launch becomes a session once, and a session has a user.              *)

\* Calls that keep their launches, while sessions and users stay.
LEMMA LaunchesKept ==
    ASSUME TypeOK, TypeOK', LaunchesHeld, DOMAIN sessions' = DOMAIN sessions,
           \A i \in DOMAIN sessions : sessions'[i].launch = sessions[i].launch,
           \A u \in Accounts : user[u] # "absent" => user'[u] # "absent",
           \A c \in Calls : call'[c].kind = "login" =>
               /\ call'[c].account = AccountOf[call'[c].launch]
               /\ call'[c].pc = "signed" =>
                      \/ ~Used(call'[c].launch)
                      \/ /\ call[c].kind = "login" /\ call[c].pc = "signed"
                         /\ call'[c].launch = call[c].launch
    PROVE  LaunchesHeld'
<1>1. \A l : Used(l)' <=> Used(l)
    BY DEF Used
<1>2. ASSUME NEW c \in Calls, NEW l, l = call'[c].launch, call'[c].kind = "login"
      PROVE  /\ call'[c].account = AccountOf[l]
             /\ call'[c].pc = "signed" => ~Used(l)'
    BY <1>1, <1>2 DEF LaunchesHeld
<1>3. ASSUME NEW i \in DOMAIN sessions
      PROVE  user'[AccountOf[sessions'[i].launch]] # "absent"
    BY <1>3, SessionTypes DEF LaunchesHeld, Holder
<1> QED
    BY <1>2, <1>3 DEF LaunchesHeld, Holder

\* What a login that is about to commit knows: its user is there, and no other login
\* with its launch has got as far.
LEMMA LoginAlone ==
    ASSUME TypeOK, UsersHeld, LaunchesHeld, NEW c \in Calls, Commit(c),
           call[c].kind = "login"
    PROVE  LET u == AccountOf[call[c].launch] IN
           /\ u \in Accounts /\ call[c].account = u
           /\ user'[u] = "active"
           /\ ~Used(call[c].launch)
           /\ \A d \in Calls \ {c} :
                  call[d].kind = "login" /\ call[d].pc = "signed"
                      => call[d].launch # call[c].launch
<1> DEFINE u == AccountOf[call[c].launch]
<1>1. u \in Accounts /\ call[c].account = u /\ call[c].pc = "signed" /\ ~Used(call[c].launch)
    BY CallTypes, LaunchesAssumption DEF LaunchesHeld, Commit
<1>2. HasUser(c, u)
    BY <1>1 DEF HasUser
<1>3. ~call[c].made => user[u] = "active"
    BY <1>1, <1>2 DEF UsersHeld
<1>4. user'[u] = "active"
    BY <1>1, <1>3 DEF Commit, TypeOK
<1>5. ASSUME NEW d \in Calls \ {c}, call[d].kind = "login", call[d].pc = "signed",
             call[d].launch = call[c].launch
      PROVE  FALSE
    <2>1. HasUser(d, u)
        BY <1>5 DEF HasUser, LaunchesHeld
    <2> QED
        BY <1>1, <1>2, <2>1 DEF UsersHeld
<1> QED
    BY <1>1, <1>4, <1>5

\* Every action keeps launches and sessions together.
LEMMA LaunchesStep ==
    TypeOK /\ TypeOK' /\ UsersHeld /\ LaunchesHeld /\ LogoutsHeld /\ [Next]_vars => LaunchesHeld'
<1> SUFFICES ASSUME TypeOK, TypeOK', UsersHeld, LaunchesHeld, LogoutsHeld, [Next]_vars
             PROVE  LaunchesHeld'
    OBVIOUS
<1>0. \A c \in Calls : call[c] \in CallStates /\ call[c].account \in Accounts
                       /\ call[c].launch \in Launches
    BY CallTypes
<1>a. Idle.kind = "bot"
    BY DEF Idle
<1>b. \A c \in Calls : call[c].kind = "login" => call[c].account = AccountOf[call[c].launch]
    BY DEF LaunchesHeld
<1>1. CASE Tick \/ LoseKeys
    BY <1>1, <1>b, LaunchesKept DEF Tick, LoseKeys
<1>3. CASE Redeploy
    BY <1>3, <1>a, LaunchesKept DEF Redeploy
<1>4. ASSUME NEW u \in Accounts, SetActive(u) PROVE LaunchesHeld'
    BY <1>4, <1>b, LaunchesKept DEF SetActive, TypeOK
<1>5. ASSUME NEW c \in Calls, NEW l \in Launches, BeginLogin(c, l) PROVE LaunchesHeld'
    BY <1>5, <1>b, LaunchesKept DEF BeginLogin, Idle, TypeOK
<1>6. ASSUME NEW c \in Calls, NEW u \in Accounts, BeginBot(c, u) PROVE LaunchesHeld'
    BY <1>6, <1>b, LaunchesKept DEF BeginBot, Idle, TypeOK
<1>7. ASSUME NEW c \in Calls, NEW i \in DOMAIN sessions, BeginLogout(c, i)
      PROVE  LaunchesHeld'
    BY <1>7, <1>b, LaunchesKept DEF BeginLogout, Idle, TypeOK
<1>8. ASSUME NEW c \in Calls, Consume(c) PROVE LaunchesHeld'
    BY <1>8, <1>b, GoesOn, LaunchesKept DEF Consume
<1>9. ASSUME NEW c \in Calls, UpsertUser(c) PROVE LaunchesHeld'
    BY <1>0, <1>9, <1>b, LaunchesKept DEF UpsertUser, TypeOK, CallStates
<1>10. ASSUME NEW c \in Calls, LockUser(c) PROVE LaunchesHeld'
    BY <1>10, <1>b, GoesOn, LaunchesKept DEF LockUser
<1>11. ASSUME NEW c \in Calls, InsertSession(c) PROVE LaunchesHeld'
    BY <1>0, <1>11, <1>b, LaunchesKept DEF InsertSession, TypeOK, CallStates
<1>12. ASSUME NEW c \in Calls, Commit(c) PROVE LaunchesHeld'
    <2>1. \A u \in Accounts : user[u] # "absent" => user'[u] # "absent"
        BY <1>12 DEF Commit, TypeOK
    <2>2. call'[c] = Idle /\ \A d \in Calls \ {c} : call'[d] = call[d]
        BY <1>12 DEF Commit, TypeOK
    <2>3. CASE call[c].kind # "login"
        <3>1. sessions' = sessions
            BY <1>12, <2>3, CommitEffect
        <3> QED
            BY <1>a, <1>b, <2>1, <2>2, <3>1, LaunchesKept
    <2>4. CASE call[c].kind = "login"
        <3> DEFINE l == call[c].launch
        <3>1. /\ DOMAIN sessions = 1..Len(sessions) /\ Len(sessions) \in Nat
              /\ DOMAIN sessions' = 1..(Len(sessions) + 1)
              /\ \A i \in DOMAIN sessions : sessions'[i] = sessions[i]
              /\ sessions'[Len(sessions) + 1].launch = l
            <4>1. sessions \in Seq(SessionRows) /\ sessions' \in Seq(SessionRows)
                BY DEF TypeOK
            <4>2. DOMAIN sessions = 1..Len(sessions) /\ Len(sessions) \in Nat
                  /\ DOMAIN sessions' = 1..Len(sessions')
                BY <4>1, LenProperties
            <4>3. /\ Len(sessions') = Len(sessions) + 1
                  /\ \A i \in 1..Len(sessions) : sessions'[i] = sessions[i]
                  /\ sessions'[Len(sessions) + 1] =
                        [launch |-> call[c].launch, expires |-> call[c].expires,
                         revoked |-> FALSE, logouts |-> 0]
                BY <1>12, <2>4, CommitEffect
            <4>4. sessions'[Len(sessions) + 1].launch = l
                BY <4>3
            <4> QED
                BY <4>2, <4>3, <4>4
        <3>2. ASSUME NEW d \in Calls, NEW k, k = call'[d].launch, call'[d].kind = "login"
              PROVE  /\ call'[d].account = AccountOf[k]
                     /\ call'[d].pc = "signed" => ~Used(k)'
            <4>1. d # c /\ call'[d] = call[d]
                BY <1>a, <2>2, <3>2
            <4>2. ASSUME call[d].pc = "signed", NEW i \in DOMAIN sessions', sessions'[i].launch = k
                  PROVE  FALSE
                <5>1. ~Used(k) /\ k # l
                    BY <1>12, <2>4, <3>2, <4>1, <4>2, LoginAlone DEF LaunchesHeld
                <5>2. i \in DOMAIN sessions
                    BY <3>1, <4>2, <5>1
                <5> QED
                    BY <3>1, <4>2, <5>1, <5>2 DEF Used
            <4> QED
                BY <1>b, <3>2, <4>1, <4>2 DEF Used
        <3>3. ASSUME NEW i \in DOMAIN sessions'
              PROVE  user'[AccountOf[sessions'[i].launch]] # "absent"
            <4>1. CASE i \in DOMAIN sessions
                BY <2>1, <3>1, <4>1, SessionTypes DEF LaunchesHeld, Holder
            <4>2. CASE i \notin DOMAIN sessions
                BY <1>12, <2>4, <3>1, <3>3, <4>2, LoginAlone
            <4> QED
                BY <4>1, <4>2
        <3> QED
            BY <3>2, <3>3 DEF LaunchesHeld, Holder
    <2> QED
        BY <2>3, <2>4
<1>13. ASSUME NEW c \in Calls, Revoke(c) PROVE LaunchesHeld'
    <2>1. CASE Revokes(c)
        BY <1>13, <1>b, <2>1, GoesOn, LaunchesKept DEF Revoke
    <2>2. CASE ~Revokes(c)
        BY <1>13, <1>a, <1>b, <2>2, LaunchesKept DEF Revoke, TypeOK
    <2> QED
        BY <2>1, <2>2
<1>14. ASSUME NEW c \in Calls, CommitLogout(c) PROVE LaunchesHeld'
    <2>1. DOMAIN sessions' = DOMAIN sessions
        BY <1>14, LogoutEffect
    <2>2. ASSUME NEW i \in DOMAIN sessions
          PROVE  sessions'[i].launch = sessions[i].launch
        BY <1>14, <2>2, LogoutEffect, SessionTypes DEF SessionRows
    <2> QED
        BY <1>14, <1>a, <1>b, <2>1, <2>2, LaunchesKept DEF CommitLogout, TypeOK
<1>15. ASSUME NEW c \in Calls, Refuse(c) PROVE LaunchesHeld'
    BY <1>15, <1>a, <1>b, LaunchesKept DEF Refuse, TypeOK
<1>16. ASSUME NEW c \in Calls, Abort(c) PROVE LaunchesHeld'
    BY <1>16, <1>a, <1>b, LaunchesKept DEF Abort, TypeOK
<1>17. CASE UNCHANGED vars
    BY <1>17, <1>b, LaunchesKept DEF vars
<1> QED
    BY <1>1, <1>3, <1>4, <1>5, <1>6, <1>7, <1>8, <1>9, <1>10, <1>11, <1>12, <1>13,
       <1>14, <1>15, <1>16, <1>17 DEF Next, Step

-----------------------------------------------------------------------------
(* A session is revoked once.                                              *)

\* Calls that keep their sessions, while the rows there stay.
LEMMA LogoutsKept ==
    ASSUME TypeOK, LogoutsHeld,
           \A i \in DOMAIN sessions : i \in DOMAIN sessions' /\ sessions'[i] = sessions[i],
           \A c \in Calls :
               /\ call'[c].pc \in {"authenticated", "revoking"}
                      => call'[c].session \in DOMAIN sessions
               /\ call'[c].pc = "revoking"
                      => call[c].pc = "revoking" /\ call'[c].session = call[c].session
    PROVE  LogoutsHeld'
<1>1. ASSUME NEW c \in Calls, NEW i, i = call'[c].session
      PROVE  /\ call'[c].pc \in {"authenticated", "revoking"} => i \in DOMAIN sessions'
             /\ call'[c].pc = "revoking" =>
                    /\ ~sessions'[i].revoked
                    /\ \A d \in Calls \ {c} : call'[d].pc = "revoking" => call'[d].session # i
    BY <1>1 DEF LogoutsHeld
<1> QED
    BY <1>1 DEF LogoutsHeld

\* Every action keeps the logouts apart.
LEMMA LogoutsStep == TypeOK /\ TypeOK' /\ LogoutsHeld /\ [Next]_vars => LogoutsHeld'
<1> SUFFICES ASSUME TypeOK, TypeOK', LogoutsHeld, [Next]_vars PROVE LogoutsHeld'
    OBVIOUS
<1>a. Idle.pc = "idle"
    BY DEF Idle
<1>b. \A c \in Calls : call[c].pc \in {"authenticated", "revoking"}
                           => call[c].session \in DOMAIN sessions
    BY DEF LogoutsHeld
<1>1. CASE Tick \/ LoseKeys
    BY <1>1, <1>b, LogoutsKept DEF Tick, LoseKeys
<1>3. CASE Redeploy
    BY <1>3, <1>a, LogoutsKept DEF Redeploy
<1>4. ASSUME NEW u \in Accounts, SetActive(u) PROVE LogoutsHeld'
    BY <1>4, <1>b, LogoutsKept DEF SetActive
<1>5. ASSUME NEW c \in Calls, NEW l \in Launches, BeginLogin(c, l) PROVE LogoutsHeld'
    BY <1>5, <1>b, LogoutsKept DEF BeginLogin, Idle, TypeOK
<1>6. ASSUME NEW c \in Calls, NEW u \in Accounts, BeginBot(c, u) PROVE LogoutsHeld'
    BY <1>6, <1>b, LogoutsKept DEF BeginBot, Idle, TypeOK
<1>7. ASSUME NEW c \in Calls, NEW i \in DOMAIN sessions, BeginLogout(c, i)
      PROVE  LogoutsHeld'
    BY <1>7, <1>b, LogoutsKept DEF BeginLogout, Idle, TypeOK
<1>8. ASSUME NEW c \in Calls, Consume(c) PROVE LogoutsHeld'
    BY <1>8, <1>b, GoesOn, LogoutsKept DEF Consume
<1>9. ASSUME NEW c \in Calls, UpsertUser(c) PROVE LogoutsHeld'
    BY <1>9, <1>b, LogoutsKept DEF UpsertUser, TypeOK, CallStates
<1>10. ASSUME NEW c \in Calls, LockUser(c) PROVE LogoutsHeld'
    BY <1>10, <1>b, GoesOn, LogoutsKept DEF LockUser
<1>11. ASSUME NEW c \in Calls, InsertSession(c) PROVE LogoutsHeld'
    BY <1>11, <1>b, LogoutsKept DEF InsertSession, TypeOK, CallStates
<1>12. ASSUME NEW c \in Calls, Commit(c) PROVE LogoutsHeld'
    <2>1. call'[c] = Idle /\ \A d \in Calls \ {c} : call'[d] = call[d]
        BY <1>12 DEF Commit, TypeOK
    <2>2. \A i \in DOMAIN sessions : i \in DOMAIN sessions' /\ sessions'[i] = sessions[i]
        <3>1. /\ DOMAIN sessions = 1..Len(sessions) /\ Len(sessions) \in Nat
              /\ DOMAIN sessions' = 1..Len(sessions')
            BY LenProperties DEF TypeOK
        <3>2. CASE call[c].kind = "login"
            <4>1. /\ Len(sessions') = Len(sessions) + 1
                  /\ \A i \in 1..Len(sessions) : sessions'[i] = sessions[i]
                BY <1>12, <3>2, CommitEffect
            <4> QED
                BY <3>1, <4>1
        <3>3. CASE call[c].kind # "login"
            BY <1>12, <3>3, CommitEffect
        <3> QED
            BY <3>2, <3>3
    <2> QED
        BY <1>a, <1>b, <2>1, <2>2, LogoutsKept
<1>13. ASSUME NEW c \in Calls, Revoke(c) PROVE LogoutsHeld'
    <2>1. CASE Revokes(c)
        <3>1. /\ \A d \in Calls \ {c} : call'[d] = call[d]
              /\ call'[c].pc = "revoking" /\ call'[c].session = call[c].session
              /\ sessions' = sessions
            BY <1>13, <2>1, GoesOn DEF Revoke
        <3>2. call[c].session \in DOMAIN sessions /\ ~sessions[call[c].session].revoked
            BY <1>13, <1>b, <2>1 DEF Revoke, Revokes
        <3>3. \A d \in Calls \ {c} : call[d].pc = "revoking" => call[d].session # call[c].session
            BY <1>13 DEF Revoke
        <3> QED
            BY <3>1, <3>2, <3>3 DEF LogoutsHeld
    <2>2. CASE ~Revokes(c)
        BY <1>13, <1>a, <1>b, <2>2, LogoutsKept DEF Revoke, TypeOK
    <2> QED
        BY <2>1, <2>2
<1>14. ASSUME NEW c \in Calls, CommitLogout(c) PROVE LogoutsHeld'
    <2>1. call'[c] = Idle /\ \A d \in Calls \ {c} : call'[d] = call[d]
        BY <1>14 DEF CommitLogout, TypeOK
    <2>2. \A d \in Calls \ {c} : call[d].pc = "revoking" => call[d].session # call[c].session
        BY <1>14 DEF CommitLogout, LogoutsHeld
    <2>3. /\ DOMAIN sessions' = DOMAIN sessions
          /\ \A j \in DOMAIN sessions \ {call[c].session} : sessions'[j] = sessions[j]
        BY <1>14, LogoutEffect
    <2> QED
        BY <1>a, <2>1, <2>2, <2>3 DEF LogoutsHeld
<1>15. ASSUME NEW c \in Calls, Refuse(c) PROVE LogoutsHeld'
    BY <1>15, <1>a, <1>b, LogoutsKept DEF Refuse, TypeOK
<1>16. ASSUME NEW c \in Calls, Abort(c) PROVE LogoutsHeld'
    BY <1>16, <1>a, <1>b, LogoutsKept DEF Abort, TypeOK
<1>17. CASE UNCHANGED vars
    BY <1>17, <1>b, LogoutsKept DEF vars
<1> QED
    BY <1>1, <1>3, <1>4, <1>5, <1>6, <1>7, <1>8, <1>9, <1>10, <1>11, <1>12, <1>13,
       <1>14, <1>15, <1>16, <1>17 DEF Next, Step

-----------------------------------------------------------------------------
(* What is recorded.                                                       *)

\* What a step leaves on record, unless it is a commit.
RecordsStay ==
    /\ sessions' = sessions /\ created' = created
    /\ \A u \in Accounts : user'[u] = "absent" <=> user[u] = "absent"

\* Only commits record something.
LEMMA WhoRecords ==
    ASSUME TypeOK, [Next]_vars
    PROVE  RecordsStay \/ (\E c \in Calls : Commit(c) \/ CommitLogout(c))
<1>1. ASSUME NEW u \in Accounts, SetActive(u) PROVE RecordsStay
    BY <1>1 DEF SetActive, RecordsStay, TypeOK
<1>2. CASE Tick \/ LoseKeys \/ Redeploy \/ UNCHANGED vars
    BY <1>2 DEF Tick, LoseKeys, Redeploy, vars, RecordsStay
<1>3. ASSUME NEW c \in Calls,
             \/ \E l \in Launches : BeginLogin(c, l)
             \/ \E u \in Accounts : BeginBot(c, u)
             \/ \E i \in DOMAIN sessions : BeginLogout(c, i)
             \/ Consume(c) \/ UpsertUser(c) \/ LockUser(c) \/ InsertSession(c)
             \/ Revoke(c) \/ Refuse(c) \/ Abort(c)
      PROVE  RecordsStay
    BY <1>3 DEF BeginLogin, BeginBot, BeginLogout, Consume, UpsertUser, LockUser, InsertSession,
                Revoke, Refuse, Abort, RecordsStay
<1> QED
    BY <1>1, <1>2, <1>3 DEF Next, Step

\* A commit of a login adds a session of a launch that had none.
LEMMA OneSessionStep ==
    /\ TypeOK /\ TypeOK' /\ UsersHeld /\ LaunchesHeld /\ LogoutsHeld
    /\ OneSessionPerLaunch /\ [Next]_vars
    => OneSessionPerLaunch'
<1> SUFFICES ASSUME TypeOK, TypeOK', UsersHeld, LaunchesHeld, LogoutsHeld,
                    OneSessionPerLaunch, [Next]_vars
             PROVE  OneSessionPerLaunch'
    OBVIOUS
<1>0. /\ DOMAIN sessions = 1..Len(sessions) /\ Len(sessions) \in Nat
      /\ DOMAIN sessions' = 1..Len(sessions')
    BY LenProperties DEF TypeOK
<1>1. CASE RecordsStay
    BY <1>1 DEF RecordsStay, OneSessionPerLaunch
<1>2. ASSUME NEW c \in Calls, Commit(c) PROVE OneSessionPerLaunch'
    <2>1. CASE call[c].kind = "login"
        <3>1. /\ Len(sessions') = Len(sessions) + 1
              /\ \A i \in 1..Len(sessions) : sessions'[i] = sessions[i]
              /\ sessions'[Len(sessions) + 1] =
                    [launch |-> call[c].launch, expires |-> call[c].expires,
                     revoked |-> FALSE, logouts |-> 0]
            BY <1>2, <2>1, CommitEffect
        <3>2. \A i \in DOMAIN sessions : sessions[i].launch # call[c].launch
            BY <1>2, <2>1, LoginAlone DEF Used
        <3>3. sessions'[Len(sessions) + 1].launch = call[c].launch
            BY <3>1
        <3> QED
            BY <1>0, <3>1, <3>2, <3>3 DEF OneSessionPerLaunch
    <2>2. CASE call[c].kind # "login"
        BY <1>2, <2>2, CommitEffect DEF OneSessionPerLaunch
    <2> QED
        BY <2>1, <2>2
<1>3. ASSUME NEW c \in Calls, CommitLogout(c) PROVE OneSessionPerLaunch'
    <2>1. DOMAIN sessions' = DOMAIN sessions
        BY <1>3, LogoutEffect
    <2>2. ASSUME NEW i \in DOMAIN sessions
          PROVE  sessions'[i].launch = sessions[i].launch
        BY <1>3, <2>2, LogoutEffect, SessionTypes DEF SessionRows
    <2> QED
        BY <2>1, <2>2 DEF OneSessionPerLaunch
<1> QED
    BY <1>1, <1>2, <1>3, WhoRecords

\* A commit records what it makes.
LEMMA RecordsStep ==
    /\ TypeOK /\ TypeOK' /\ UsersHeld /\ LaunchesHeld /\ LogoutsHeld
    /\ RecordsMatch /\ [Next]_vars
    => RecordsMatch'
<1> SUFFICES ASSUME TypeOK, TypeOK', UsersHeld, LaunchesHeld, LogoutsHeld, RecordsMatch,
                    [Next]_vars
             PROVE  RecordsMatch'
    OBVIOUS
<1>0. /\ DOMAIN sessions = 1..Len(sessions) /\ Len(sessions) \in Nat
      /\ DOMAIN sessions' = 1..Len(sessions')
    BY LenProperties DEF TypeOK
<1>1. CASE RecordsStay
    BY <1>1 DEF RecordsStay, RecordsMatch
<1>2. ASSUME NEW c \in Calls, Commit(c) PROVE RecordsMatch'
    <2>1. \A u \in Accounts : created'[u] = IF user'[u] = "absent" THEN 0 ELSE 1
        <3>1. call[c].account \in Accounts
            BY CallTypes
        <3>2. CASE call[c].made
            <4>1. user[call[c].account] = "absent" /\ created[call[c].account] = 0
                BY <3>1, <3>2 DEF UsersHeld, RecordsMatch
            <4> QED
                BY <1>2, <3>1, <3>2, <4>1 DEF Commit, RecordsMatch, TypeOK
        <3>3. CASE ~call[c].made
            <4>1. user' = user /\ created' = created
                BY <1>2, <3>3 DEF Commit, TypeOK
            <4> QED
                BY <4>1 DEF RecordsMatch
        <3> QED
            BY <3>2, <3>3
    <2>2. \A i \in DOMAIN sessions' :
              sessions'[i].logouts = IF sessions'[i].revoked THEN 1 ELSE 0
        <3>1. CASE call[c].kind = "login"
            <4>1. /\ Len(sessions') = Len(sessions) + 1
                  /\ \A i \in 1..Len(sessions) : sessions'[i] = sessions[i]
                  /\ sessions'[Len(sessions) + 1] =
                        [launch |-> call[c].launch, expires |-> call[c].expires,
                         revoked |-> FALSE, logouts |-> 0]
                BY <1>2, <3>1, CommitEffect
            <4> QED
                BY <1>0, <4>1 DEF RecordsMatch
        <3>2. CASE call[c].kind # "login"
            BY <1>2, <3>2, CommitEffect DEF RecordsMatch
        <3> QED
            BY <3>1, <3>2
    <2> QED
        BY <2>1, <2>2 DEF RecordsMatch
<1>3. ASSUME NEW c \in Calls, CommitLogout(c) PROVE RecordsMatch'
    <2> DEFINE i == call[c].session
    <2>1. i \in DOMAIN sessions /\ ~sessions[i].revoked
        BY <1>3 DEF LogoutsHeld, CommitLogout
    <2>2. sessions[i] \in SessionRows /\ sessions[i].logouts = 0
        BY <2>1, SessionTypes DEF RecordsMatch
    <2>3. sessions'[i].revoked /\ sessions'[i].logouts = 1
        <3>1. sessions'[i] = [sessions[i] EXCEPT !.revoked = TRUE, !.logouts = @ + 1]
            BY <1>3, LogoutEffect
        <3> QED
            BY <2>2, <3>1 DEF SessionRows
    <2>4. /\ DOMAIN sessions' = DOMAIN sessions
          /\ \A j \in DOMAIN sessions \ {i} : sessions'[j] = sessions[j]
        BY <1>3, LogoutEffect
    <2>5. user' = user /\ created' = created
        BY <1>3 DEF CommitLogout
    <2> QED
        BY <2>3, <2>4, <2>5 DEF RecordsMatch
<1> QED
    BY <1>1, <1>2, <1>3, WhoRecords

-----------------------------------------------------------------------------
(* What a key covers: the only place where seconds and ticks meet.         *)

\* Rounding down loses less than one second.
LEMMA RoundedDown ==
    ASSUME NEW a \in Nat, NEW b \in Nat \ {0}
    PROVE  a \div b \in Nat /\ b * (a \div b) <= a /\ a < b * (a \div b) + b
OBVIOUS

\* An acceptable launch is at most the skew ahead of the clock, and its time has
\* not passed.
LEMMA AcceptableTime ==
    ASSUME TypeOK, NEW l \in Launches, Acceptable(l)
    PROVE  AuthDate[l] * PerSecond <= now + Skew * PerSecond /\ now < TooOld(l)
<1> DEFINE q == now \div PerSecond
           d == AuthDate[l]
<1>1. /\ now \in Nat /\ d \in Nat /\ PerSecond \in Nat \ {0} /\ Skew \in Nat
      /\ LaunchTTL \in Nat
    BY LaunchesAssumption, TimeAssumption DEF TypeOK
<1>2. q \in Nat /\ PerSecond * q <= now /\ now < PerSecond * q + PerSecond
    BY <1>1, RoundedDown
<1>3. d <= q + Skew /\ q <= d + LaunchTTL
    BY DEF Acceptable
<1> HIDE DEF q, d
<1>4. d * PerSecond <= now + Skew * PerSecond
    BY <1>1, <1>2, <1>3
<1>5. now < (d + LaunchTTL + 1) * PerSecond
    <2>1. \A n \in Nat : q <= n => PerSecond * q + PerSecond <= (n + 1) * PerSecond
        BY <1>1, <1>2
    <2>2. d + LaunchTTL \in Nat
        BY <1>1
    <2>3. PerSecond * q + PerSecond <= (d + LaunchTTL + 1) * PerSecond
        BY <1>3, <2>1, <2>2
    <2>4. (d + LaunchTTL + 1) * PerSecond \in Nat /\ PerSecond * q + PerSecond \in Nat
        BY <1>1, <1>2
    <2> QED
        BY <1>1, <1>2, <2>3, <2>4
<1> QED
    BY <1>4, <1>5 DEF d, TooOld

\* A key set at the moment a verified launch is reserved lives until it is too old.
LEMMA KeyCovers ==
    ASSUME TypeOK, NEW l \in Launches, AuthDate[l] * PerSecond <= now + Skew * PerSecond
    PROVE  now + KeyLife >= TooOld(l) /\ now + KeyLife \in Nat /\ TooOld(l) \in Nat
<1> DEFINE d == AuthDate[l]
<1>1. /\ now \in Nat /\ d \in Nat /\ PerSecond \in Nat /\ Skew \in Nat /\ LaunchTTL \in Nat
    BY LaunchesAssumption, TimeAssumption DEF TypeOK
<1>2. \A a, n, p, t, k \in Nat : a * p <= n + k * p => n + (t + k + 1) * p >= (a + t + 1) * p
    OBVIOUS
<1> QED
    BY <1>1, <1>2 DEF KeyLife, TooOld

\* The first tick at which a launch is too old is a number and does not move.
LEMMA TooOldType ==
    \A l \in Launches : /\ AuthDate[l] * PerSecond \in Nat
                        /\ TooOld(l) \in Nat /\ TooOld(l)' = TooOld(l)
<1> TAKE l \in Launches
<1>1. PerSecond \in Nat /\ LaunchTTL \in Nat /\ AuthDate[l] \in Nat
    BY TimeAssumption, LaunchesAssumption
<1>2. \A a, b, p \in Nat : a * p \in Nat /\ (a + b + 1) * p \in Nat
    OBVIOUS
<1>3. AuthDate[l] * PerSecond \in Nat /\ (AuthDate[l] + LaunchTTL + 1) * PerSecond \in Nat
    BY <1>1, <1>2
<1> QED
    BY <1>3 DEF TooOld

\* Nothing but a reservation and a loss changes the keys, and nothing but a new
\* call has a launch verified.
LEMMA KeysKept ==
    ASSUME TypeOK, TypeOK', KeysHeld, keys' = keys, reserved' = reserved,
           forgotten' = forgotten, now' >= now,
           \A c \in Calls : call'[c].pc = "verified" =>
               \/ call[c].pc = "verified" /\ call'[c].launch = call[c].launch
               \/ now' = now /\ Acceptable(call'[c].launch)
    PROVE  KeysHeld'
<1>0. /\ now \in Nat /\ now' \in Nat /\ Skew * PerSecond \in Nat
      /\ \A l \in Launches : AuthDate[l] * PerSecond \in Nat /\ TooOld(l) \in Nat
      /\ \A l \in Launches : TooOld(l)' = TooOld(l)
    <2>1. \A k, p \in Nat : k * p \in Nat
        OBVIOUS
    <2>2. Skew * PerSecond \in Nat
        BY <2>1, TimeAssumption
    <2> QED
        BY <2>2, TooOldType DEF TypeOK
<1>1. ASSUME NEW c \in Calls, call'[c].pc = "verified"
      PROVE  AuthDate[call'[c].launch] * PerSecond <= now' + Skew * PerSecond
    <2>0. call'[c].launch \in Launches
        BY DEF TypeOK, CallStates
    <2>1. CASE call[c].pc = "verified" /\ call'[c].launch = call[c].launch
        BY <1>0, <2>0, <2>1 DEF KeysHeld
    <2>2. CASE now' = now /\ Acceptable(call'[c].launch)
        BY <2>0, <2>2, AcceptableTime
    <2> QED
        BY <1>1, <2>1, <2>2
<1>2. ASSUME NEW l \in reserved' \ forgotten'
      PROVE  keys'[l] >= TooOld(l) \/ now' >= TooOld(l)
    <2>1. l \in Launches
        BY DEF TypeOK
    <2> QED
        BY <1>0, <2>1 DEF KeysHeld
<1> QED
    BY <1>0, <1>1, <1>2 DEF KeysHeld, TooOld

\* Every step keeps it.
LEMMA KeysStep == TypeOK /\ TypeOK' /\ KeysHeld /\ [Next]_vars => KeysHeld'
<1> SUFFICES ASSUME TypeOK, TypeOK', KeysHeld, [Next]_vars PROVE KeysHeld'
    OBVIOUS
<1>a. Idle.pc = "idle"
    BY DEF Idle
<1>b. /\ now \in Nat /\ now' \in Nat
      /\ \A l \in Launches : TooOld(l) \in Nat /\ TooOld(l)' = TooOld(l) /\ keys[l] \in Nat
    BY TooOldType DEF TypeOK
<1>1. CASE Tick
    BY <1>1, <1>b, KeysKept DEF Tick
<1>2. CASE LoseKeys
    <2>1. ASSUME NEW l \in reserved' \ forgotten' PROVE now' >= TooOld(l)
        <3>1. l \in Launches /\ l \in reserved \ forgotten /\ ~KeyLive(l)
            BY <1>2 DEF LoseKeys, TypeOK
        <3>2. keys[l] <= now
            BY <1>b, <3>1 DEF KeyLive
        <3> QED
            BY <1>2, <1>b, <3>1, <3>2 DEF LoseKeys, KeysHeld
    <2>2. \A l \in reserved' \ forgotten' : now' >= TooOld(l)'
        BY <2>1 DEF TooOld
    <2> QED
        BY <1>2, <2>2 DEF LoseKeys, KeysHeld
<1>3. CASE Redeploy
    BY <1>3, <1>a, <1>b, KeysKept DEF Redeploy
<1>4. ASSUME NEW u \in Accounts, SetActive(u) PROVE KeysHeld'
    BY <1>4, <1>b, KeysKept DEF SetActive
<1>5. ASSUME NEW c \in Calls, NEW l \in Launches, BeginLogin(c, l) PROVE KeysHeld'
    <2>1. \A d \in Calls \ {c} : call'[d] = call[d]
        BY <1>5 DEF BeginLogin, TypeOK
    <2>2. call'[c].launch = l
        BY <1>5 DEF BeginLogin, TypeOK, Idle
    <2> QED
        BY <1>5, <1>b, <2>1, <2>2, KeysKept DEF BeginLogin
<1>6. ASSUME NEW c \in Calls, Consume(c) PROVE KeysHeld'
    <2> DEFINE l == call[c].launch
    <2>1. l \in Launches /\ call[c].pc = "verified"
        BY <1>6, CallTypes DEF Consume
    <2>2. now + KeyLife >= TooOld(l)
        BY <2>1, KeyCovers DEF KeysHeld
    <2>3. ASSUME NEW k \in reserved' \ forgotten'
          PROVE  keys'[k] >= TooOld(k) \/ now' >= TooOld(k)
        <3>1. CASE k = l
            BY <1>6, <2>1, <2>2, <3>1 DEF Consume, TypeOK
        <3>2. CASE k # l
            <4>1. k \in reserved \ forgotten /\ keys'[k] = keys[k] /\ now' = now
                BY <1>6, <2>1, <3>2 DEF Consume, TypeOK
            <4> QED
                BY <4>1 DEF KeysHeld
        <3> QED
            BY <3>1, <3>2
    <2>4. ASSUME NEW d \in Calls, call'[d].pc = "verified"
          PROVE  AuthDate[call'[d].launch] * PerSecond <= now' + Skew * PerSecond
        <3>1. call'[c].pc = "entering" /\ \A e \in Calls \ {c} : call'[e] = call[e]
            BY <1>6, GoesOn DEF Consume
        <3>2. d # c /\ call'[d] = call[d]
            BY <2>4, <3>1
        <3> QED
            BY <1>6, <2>4, <3>2 DEF Consume, KeysHeld
    <2> QED
        BY <2>3, <2>4 DEF KeysHeld, TooOld
<1>7. ASSUME NEW c \in Calls, NEW u \in Accounts, BeginBot(c, u) PROVE KeysHeld'
    BY <1>7, <1>a, <1>b, KeysKept DEF BeginBot, TypeOK, Idle
<1>8. ASSUME NEW c \in Calls, UpsertUser(c) PROVE KeysHeld'
    <2>1. \A d \in Calls : call'[d].pc = "verified" => d # c /\ call'[d] = call[d]
        BY <1>8, CallTypes DEF UpsertUser, TypeOK, CallStates
    <2>2. keys' = keys /\ reserved' = reserved /\ forgotten' = forgotten /\ now' = now
        BY <1>8 DEF UpsertUser
    <2> QED
        BY <1>b, <2>1, <2>2, KeysKept
<1>9. ASSUME NEW c \in Calls, LockUser(c) PROVE KeysHeld'
    <2>1. \A d \in Calls : call'[d].pc = "verified" => d # c /\ call'[d] = call[d]
        BY <1>9, GoesOn DEF LockUser
    <2> QED
        BY <1>9, <1>b, <2>1, KeysKept DEF LockUser
<1>10. ASSUME NEW c \in Calls, InsertSession(c) PROVE KeysHeld'
    <2>1. \A d \in Calls : call'[d].pc = "verified" => d # c /\ call'[d] = call[d]
        BY <1>10, CallTypes DEF InsertSession, TypeOK, CallStates
    <2>2. keys' = keys /\ reserved' = reserved /\ forgotten' = forgotten /\ now' = now
        BY <1>10 DEF InsertSession
    <2> QED
        BY <1>b, <2>1, <2>2, KeysKept
<1>11. ASSUME NEW c \in Calls, Commit(c) PROVE KeysHeld'
    BY <1>11, <1>a, <1>b, KeysKept DEF Commit, TypeOK
<1>12. ASSUME NEW c \in Calls, NEW i \in DOMAIN sessions, BeginLogout(c, i) PROVE KeysHeld'
    BY <1>12, <1>a, <1>b, KeysKept DEF BeginLogout, TypeOK, Idle
<1>13. ASSUME NEW c \in Calls, Revoke(c) PROVE KeysHeld'
    <2>1. \A d \in Calls : call'[d].pc = "verified" => d # c /\ call'[d] = call[d]
        BY <1>13, <1>a, CallTypes DEF Revoke, TypeOK, CallStates
    <2> QED
        BY <1>13, <1>b, <2>1, KeysKept DEF Revoke
<1>14. ASSUME NEW c \in Calls, CommitLogout(c) PROVE KeysHeld'
    BY <1>14, <1>a, <1>b, KeysKept DEF CommitLogout, TypeOK
<1>15. ASSUME NEW c \in Calls, Refuse(c) PROVE KeysHeld'
    BY <1>15, <1>a, <1>b, KeysKept DEF Refuse, TypeOK
<1>16. ASSUME NEW c \in Calls, Abort(c) PROVE KeysHeld'
    BY <1>16, <1>a, <1>b, KeysKept DEF Abort, TypeOK
<1>17. CASE UNCHANGED vars
    BY <1>17, <1>b, KeysKept DEF vars
<1> QED
    BY <1>1, <1>2, <1>3, <1>4, <1>5, <1>6, <1>7, <1>8, <1>9, <1>10, <1>11, <1>12, <1>13,
       <1>14, <1>15, <1>16, <1>17 DEF Next, Step

-----------------------------------------------------------------------------
(* The inductive invariant and what follows from it.                       *)

\* Everything together is inductive.
LoginInv ==
    TypeOK /\ UsersHeld /\ LaunchesHeld /\ LogoutsHeld /\ KeysHeld
      /\ OneSessionPerLaunch /\ RecordsMatch

\* It holds before the first call.
LEMMA LoginStart == Init => LoginInv
<1> SUFFICES ASSUME Init PROVE LoginInv
    OBVIOUS
<1>1. TypeOK
    BY IdleType, EmptySeq, TimeAssumption DEF Init, TypeOK
<1>2. DOMAIN sessions = {} /\ Idle.pc = "idle" /\ Idle.made = FALSE /\ Idle.kind = "bot"
    BY DEF Init, Idle
<1>3. UsersHeld
    BY <1>2 DEF Init, UsersHeld, HasUser
<1>4. LaunchesHeld /\ LogoutsHeld
    BY <1>2 DEF Init, LaunchesHeld, LogoutsHeld
<1>5. KeysHeld
    BY <1>2 DEF Init, KeysHeld
<1>6. OneSessionPerLaunch /\ RecordsMatch
    BY <1>2 DEF Init, OneSessionPerLaunch, RecordsMatch
<1> QED
    BY <1>1, <1>3, <1>4, <1>5, <1>6 DEF LoginInv

\* Every step keeps it.
LEMMA LoginStep == LoginInv /\ [Next]_vars => LoginInv'
    BY TypeStep, UsersStep, LaunchesStep, LogoutsStep, KeysStep, OneSessionStep, RecordsStep
       DEF LoginInv

\* It always holds.
THEOREM LoginInvariant == Spec => []LoginInv
    BY LoginStart, LoginStep, PTL DEF Spec

\* Every variable keeps its type.
THEOREM TypeCorrect == Spec => []TypeOK
<1>1. LoginInv => TypeOK
    BY DEF LoginInv
<1> QED
    BY LoginInvariant, <1>1, PTL

\* A launch buys one session, whatever Redis forgets (service.py:64-74).
THEOREM OneSession == Spec => []OneSessionPerLaunch
<1>1. LoginInv => OneSessionPerLaunch
    BY DEF LoginInv
<1> QED
    BY LoginInvariant, <1>1, PTL

\* Users' creations and logouts are recorded as they happened, once each
\* (service.py:38-51, 107-128).
THEOREM RecordedAsMade == Spec => []RecordsMatch
<1>1. LoginInv => RecordsMatch
    BY DEF LoginInv
<1> QED
    BY LoginInvariant, <1>1, PTL

\* A reserved launch stays reserved while its age is acceptable (routes.py:122-128).
THEOREM ReservedWhileAcceptable == Spec => []KeyOutlastsLaunch
<1>1. LoginInv => KeyOutlastsLaunch
    <2> SUFFICES ASSUME LoginInv, NEW l \in reserved \ forgotten, Acceptable(l)
                 PROVE  KeyLive(l)
        BY DEF KeyOutlastsLaunch
    <2>1. TypeOK /\ KeysHeld /\ l \in Launches
        BY DEF LoginInv, TypeOK
    <2>2. now < TooOld(l) /\ now \in Nat /\ keys[l] \in Nat /\ TooOld(l) \in Nat
        <3>1. AuthDate[l] * PerSecond <= now + Skew * PerSecond /\ now < TooOld(l)
            BY <2>1, AcceptableTime
        <3>2. TooOld(l) \in Nat
            BY <2>1, <3>1, KeyCovers
        <3> QED
            BY <2>1, <3>1, <3>2 DEF TypeOK
    <2>3. keys[l] >= TooOld(l)
        BY <2>1, <2>2 DEF KeysHeld
    <2> QED
        BY <2>2, <2>3 DEF KeyLive
<1> QED
    BY LoginInvariant, <1>1, PTL

\* No session starts for a disabled user (service.py:52-56).
THEOREM ActiveUsersOnly == Spec => SessionsOfActiveUsers
<1>1. LoginInv /\ [Next]_vars
          => [Len(sessions') > Len(sessions)
                => user'[AccountOf[sessions'[Len(sessions')].launch]] = "active"]_vars
    <2> SUFFICES ASSUME LoginInv, [Next]_vars, Len(sessions') > Len(sessions)
                 PROVE  user'[AccountOf[sessions'[Len(sessions')].launch]] = "active"
        OBVIOUS
    <2>0. TypeOK /\ UsersHeld /\ LaunchesHeld /\ LogoutsHeld /\ Len(sessions) \in Nat
        BY LenProperties DEF LoginInv, TypeOK
    <2>1. ~RecordsStay
        BY <2>0 DEF RecordsStay
    <2>2. ASSUME NEW c \in Calls, CommitLogout(c) PROVE FALSE
        <3>1. Len(sessions') = Len(sessions)
            BY <2>0, <2>2, LogoutEffect
        <3> QED
            BY <2>0, <3>1
    <2>3. PICK c \in Calls : Commit(c)
        BY <2>0, <2>1, <2>2, WhoRecords
    <2>4. call[c].kind = "login"
        <3> SUFFICES ASSUME call[c].kind # "login" PROVE FALSE
            OBVIOUS
        <3>1. sessions' = sessions
            BY <2>0, <2>3, CommitEffect
        <3> QED
            BY <2>0, <3>1
    <2>5. sessions'[Len(sessions')].launch = call[c].launch
        <3>1. /\ Len(sessions') = Len(sessions) + 1
              /\ sessions'[Len(sessions) + 1] =
                    [launch |-> call[c].launch, expires |-> call[c].expires,
                     revoked |-> FALSE, logouts |-> 0]
            BY <2>0, <2>3, <2>4, CommitEffect
        <3> QED
            BY <3>1
    <2> QED
        BY <2>0, <2>3, <2>4, <2>5, LoginAlone
<1> QED
    BY LoginInvariant, <1>1, PTL DEF Spec, SessionsOfActiveUsers

-----------------------------------------------------------------------------
(* The login budget.                                                       *)

BudgetInv == BudgetTypeOK /\ WindowHeld /\ RateBounded /\ RefusalsEnd

\* The window in ticks.
LEMMA LengthType ==
    /\ Limit \in Nat \ {0} /\ Length \in Nat \ {0}
    /\ TicksPerSecond \in Nat \ {0} /\ LastTick \in Nat
<1>1. PICK n \in 1..500 : TicksPerSecond = 2 * n
    BY TicksAssumption
<1>2. TicksPerSecond \in Nat \ {0}
    BY <1>1
<1>3. \A w \in Nat \ {0}, k \in Nat \ {0} : w * k \in Nat \ {0}
    OBVIOUS
<1> QED
    BY <1>2, <1>3, LimitsAssumption, TicksAssumption DEF Length

\* Waiting as told and half a second more takes one to the end of the window.
LEMMA WaitIsLongEnough ==
    ASSUME NEW e \in Nat, tick \in Nat, tick < e
    PROVE  /\ RetryAfter(e) \in Nat
           /\ tick + RetryAfter(e) * TicksPerSecond + TicksPerSecond \div 2 >= e
<1>1. PICK n \in 1..500 : TicksPerSecond = 2 * n
    BY TicksAssumption
<1>2. TicksPerSecond \div 2 = n
    <2>1. /\ TicksPerSecond \div 2 \in Nat /\ 2 * (TicksPerSecond \div 2) <= TicksPerSecond
          /\ TicksPerSecond < 2 * (TicksPerSecond \div 2) + 2
        BY <1>1, RoundedDown
    <2> QED
        BY <1>1, <2>1
<1> DEFINE a == e - tick + n
           q == a \div TicksPerSecond
           w == RetryAfter(e)
<1>3. a \in Nat /\ TicksPerSecond \in Nat \ {0}
    BY <1>1
<1>4. q \in Nat /\ TicksPerSecond * q <= a /\ a < TicksPerSecond * q + TicksPerSecond
    BY <1>3, RoundedDown
<1>5. w = IF q = 0 THEN 1 ELSE q
    BY <1>2 DEF RetryAfter
<1> HIDE DEF q, w
<1>6. w \in Nat /\ w * TicksPerSecond = TicksPerSecond * w
    BY <1>3, <1>4, <1>5
<1>7. a < w * TicksPerSecond + 2 * n
    <2>1. CASE q = 0
        <3>1. w = 1 /\ TicksPerSecond * q = 0 /\ w * TicksPerSecond = TicksPerSecond
            BY <1>3, <1>5, <2>1
        <3> QED
            BY <1>1, <1>3, <1>4, <3>1
    <2>2. CASE q # 0
        <3>1. w = q
            BY <1>5, <2>2
        <3>2. a < TicksPerSecond * w + TicksPerSecond
            BY <1>4, <3>1
        <3>3. w * TicksPerSecond = TicksPerSecond * w
            BY <1>6
        <3> QED
            BY <1>1, <3>2, <3>3
    <2> QED
        BY <2>1, <2>2
<1>8. w * TicksPerSecond \in Nat
    BY <1>3, <1>6
<1>9. tick + w * TicksPerSecond + n >= e
    <2> DEFINE z == w * TicksPerSecond
    <2>1. z \in Nat /\ a < z + 2 * n /\ n \in Nat
        BY <1>7, <1>8
    <2> HIDE DEF z
    <2>2. tick + z + n >= e
        BY <2>1
    <2> QED
        BY <2>2 DEF z
<1>10. /\ w \in Nat
       /\ tick + w * TicksPerSecond + TicksPerSecond \div 2 >= e
    BY <1>2, <1>6, <1>9
<1> QED
    BY <1>10 DEF w

\* The checks that passed while a refused attempt's window was open.
PassedWithin(r) == {j \in DOMAIN passes : r.window <= passes[j] /\ passes[j] <= r.at}

RefusalEnds(r) ==
    /\ r.at < r.window + Length
    /\ Limit <= Cardinality(PassedWithin(r))
    /\ r.at + r.wait * TicksPerSecond + TicksPerSecond \div 2 >= r.window + Length

\* More checks that pass do not take back what a refusal said.
LEMMA RefusalsStay ==
    ASSUME BudgetTypeOK, NEW r, RefusalEnds(r), Len(passes') \in Nat,
           DOMAIN passes' = 1..Len(passes'), Len(passes) <= Len(passes'),
           \A i \in 1..Len(passes) : passes'[i] = passes[i]
    PROVE  RefusalEnds(r)'
<1>1. DOMAIN passes = 1..Len(passes) /\ Len(passes) \in Nat
    BY DEF BudgetTypeOK
<1>2. PassedWithin(r) \subseteq PassedWithin(r)'
    BY <1>1 DEF PassedWithin
<1>3. IsFiniteSet(1..Len(passes'))
    BY FS_Interval
<1>4. PassedWithin(r)' \subseteq 1..Len(passes')
    BY DEF PassedWithin
<1>5. /\ IsFiniteSet(PassedWithin(r)') /\ Cardinality(PassedWithin(r)) \in Nat
      /\ Cardinality(PassedWithin(r)') \in Nat
      /\ Cardinality(PassedWithin(r)) <= Cardinality(PassedWithin(r)')
    BY <1>2, <1>3, <1>4, FS_Subset, FS_CardinalityType
<1> QED
    BY <1>5, LengthType DEF RefusalEnds, Length

\* What a check does.
LEMMA CheckCases ==
    ASSUME BudgetTypeOK, WindowHeld, Check
    PROVE  /\ \/ /\ ~Live /\ count' = 1 /\ ends' = tick + Length /\ opened' = tick
                 /\ passes' = Append(passes, tick) /\ refusals' = refusals
              \/ /\ Live /\ count # 0 /\ count + 1 <= Limit
                 /\ count' = count + 1 /\ ends' = ends /\ opened' = opened
                 /\ passes' = Append(passes, tick) /\ refusals' = refusals
              \/ /\ Live /\ count # 0 /\ count + 1 > Limit
                 /\ count' = count + 1 /\ ends' = ends /\ opened' = opened
                 /\ passes' = passes
                 /\ refusals' = Append(refusals, [at |-> tick, wait |-> RetryAfter(ends),
                                                  window |-> opened])
           /\ tick' = tick
<1>1. Live => count # 0
    BY DEF WindowHeld, Live, BudgetTypeOK
<1>2. CASE ~Live
    BY <1>2, LengthType DEF Check, Counted, End
<1>3. CASE Live
    <2>1. Counted = count + 1 /\ End = ends /\ opened' = opened
        BY <1>3 DEF Check, Counted, End
    <2>2. count \in Nat /\ Limit \in Nat
        BY LengthType DEF BudgetTypeOK
    <2> QED
        BY <1>1, <1>3, <2>1, <2>2 DEF Check
<1> QED
    BY <1>2, <1>3 DEF Check

\* A check that passes is one of the last window's, whichever window that is.
LEMMA PassKeepsBudget ==
    ASSUME BudgetInv, tick' = tick, passes' = Append(passes, tick), refusals' = refusals,
           \/ ~Live /\ count' = 1 /\ ends' = tick + Length /\ opened' = tick
           \/ /\ Live /\ count # 0 /\ count + 1 <= Limit
              /\ count' = count + 1 /\ ends' = ends /\ opened' = opened
    PROVE  BudgetInv'
<1> DEFINE n == Len(passes)
<1> USE DEF BudgetInv
<1>0. /\ Limit \in Nat \ {0} /\ Length \in Nat \ {0} /\ tick \in Nat /\ count \in Nat
      /\ ends \in Nat /\ opened \in Nat /\ passes \in Seq(Nat) /\ Length' = Length
    BY LengthType DEF BudgetTypeOK, Length
<1>1. /\ n \in Nat /\ DOMAIN passes = 1..n /\ \A i \in 1..n : passes[i] \in Nat
      /\ passes' \in Seq(Nat) /\ Len(passes') = n + 1 /\ DOMAIN passes' = 1..(n + 1)
      /\ passes'[n + 1] = tick /\ \A i \in 1..n : passes'[i] = passes[i]
    BY <1>0, AppendProperties, LenProperties, ElementOfSeq
<1> HIDE DEF n
<1> DEFINE k == InLast
<1>2. /\ k \in 0..Limit /\ k <= n /\ opened <= tick
      /\ count = 0 => (ends = 0 /\ n = 0)
      /\ count # 0 => ends = opened + Length
      /\ \A i \in 1..n :
             /\ passes[i] <= tick
             /\ i > n - k => passes[i] >= opened
             /\ i <= n - k => passes[i] <= opened
             /\ i + Limit <= n - k => passes[i] + Length <= opened
    <2>1. k \in 0..Limit
        BY <1>0 DEF InLast
    <2>2. k <= n /\ opened <= tick
        BY DEF WindowHeld, n
    <2>3. /\ count = 0 => (ends = 0 /\ passes = <<>>)
          /\ count # 0 => ends = opened + Length
        BY DEF WindowHeld
    <2>4. passes = <<>> => n = 0
        BY DEF n
    <2>5. \A i \in 1..n :
             /\ passes[i] <= tick
             /\ i > n - k => passes[i] >= opened
             /\ i <= n - k => passes[i] <= opened
             /\ i + Limit <= n - k => passes[i] + Length <= opened
        BY <1>1 DEF WindowHeld, n
    <2> QED
        BY <2>1, <2>2, <2>3, <2>4, <2>5
<1>3. BudgetTypeOK'
    BY <1>0, <1>1 DEF BudgetTypeOK
<1>4. ASSUME ~Live
      PROVE  /\ WindowHeld'
             /\ \A i \in 1..n : i + 2 * Limit = n + 1 => tick - passes[i] >= Length
    <2>1. count' = 1 /\ ends' = tick + Length /\ opened' = tick
        BY <1>4
    <2>5. InLast' = 1
        BY <1>0, <2>1 DEF InLast
    <2>6. n # 0 => opened + Length <= tick
        BY <1>0, <1>2, <1>4 DEF Live
    <2>2. ASSUME NEW i \in 1..(n + 1)
          PROVE  /\ passes'[i] <= tick'
                 /\ i > Len(passes') - InLast' => passes'[i] >= opened'
                 /\ i <= Len(passes') - InLast' => passes'[i] <= opened'
                 /\ i + Limit <= Len(passes') - InLast' => passes'[i] + Length <= opened'
        <3>1. CASE i = n + 1
            BY <1>0, <1>1, <2>1, <2>5, <3>1
        <3>2. CASE i \in 1..n
            <4>1. passes'[i] = passes[i] /\ passes[i] \in Nat /\ passes[i] <= tick
                BY <1>1, <1>2, <3>2
            <4>2. i + Limit <= n => passes[i] <= opened
                BY <1>0, <1>1, <1>2, <3>2
            <4> QED
                BY <1>0, <1>1, <2>1, <2>5, <2>6, <3>2, <4>1, <4>2
        <3> QED
            BY <1>1, <3>1, <3>2
    <2>3. WindowHeld'
        <3>1. opened' <= tick' /\ InLast' <= Len(passes')
            BY <1>0, <1>1, <2>1, <2>5
        <3>2. IF count' = 0 THEN ends' = 0 /\ passes' = <<>> /\ refusals' = <<>>
              ELSE ends' = opened' + Length
            BY <2>1
        <3> QED
            BY <1>0, <1>1, <2>2, <3>1, <3>2 DEF WindowHeld
    <2>4. ASSUME NEW i \in 1..n, i + 2 * Limit = n + 1 PROVE tick - passes[i] >= Length
        <3>1. i <= n - k /\ n # 0
            BY <1>0, <1>1, <1>2, <2>4
        <3>2. passes[i] <= opened /\ opened + Length <= tick /\ passes[i] \in Nat
            BY <1>1, <1>2, <2>6, <3>1
        <3> QED
            BY <1>0, <3>2
    <2> QED
        BY <2>3, <2>4
<1>5. ASSUME Live
      PROVE  /\ WindowHeld'
             /\ \A i \in 1..n : i + 2 * Limit = n + 1 => tick - passes[i] >= Length
    <2>0. /\ count # 0 /\ count + 1 <= Limit /\ opened' = opened /\ ends' = ends
          /\ count' = count + 1
        BY <1>5
    <2>1. /\ count # 0 /\ count + 1 <= Limit /\ opened' = opened /\ ends' = ends
          /\ count' = count + 1 /\ k = count /\ InLast' = k + 1
        BY <1>0, <2>0 DEF InLast
    <2> HIDE DEF k
    <2>2. ASSUME NEW i \in 1..(n + 1)
          PROVE  /\ passes'[i] <= tick'
                 /\ i > Len(passes') - InLast' => passes'[i] >= opened'
                 /\ i <= Len(passes') - InLast' => passes'[i] <= opened'
                 /\ i + Limit <= Len(passes') - InLast' => passes'[i] + Length <= opened'
        BY <1>0, <1>1, <1>2, <2>1
    <2>3. WindowHeld'
        <3>1. opened' <= tick' /\ InLast' <= Len(passes')
            BY <1>0, <1>1, <1>2, <2>1
        <3>2. IF count' = 0 THEN ends' = 0 /\ passes' = <<>> /\ refusals' = <<>>
              ELSE ends' = opened' + Length
            BY <1>0, <1>2, <2>1
        <3> QED
            BY <1>0, <1>1, <2>2, <3>1, <3>2 DEF WindowHeld
    <2>4. ASSUME NEW i \in 1..n, i + 2 * Limit = n + 1 PROVE tick - passes[i] >= Length
        <3>1. i + Limit <= n - k
            BY <1>0, <1>1, <1>2, <2>1, <2>4
        <3>2. passes[i] + Length <= opened /\ opened <= tick /\ passes[i] \in Nat
            BY <1>1, <1>2, <3>1
        <3> QED
            BY <1>0, <3>2
    <2> QED
        BY <2>3, <2>4
<1>6. /\ WindowHeld'
      /\ \A i \in 1..n : i + 2 * Limit = n + 1 => tick - passes[i] >= Length
    BY <1>4, <1>5
<1>7. RateBounded'
    <2> SUFFICES ASSUME NEW i \in 1..(n + 1), i + 2 * Limit \in 1..(n + 1)
                 PROVE  passes'[i + 2 * Limit] - passes'[i] >= Length
        BY <1>0, <1>1 DEF RateBounded
    <2>1. i \in 1..n /\ passes'[i] = passes[i]
        BY <1>0, <1>1
    <2>2. CASE i + 2 * Limit = n + 1
        BY <1>1, <1>6, <2>1, <2>2
    <2>3. CASE i + 2 * Limit \in 1..n
        <3>1. passes'[i + 2 * Limit] = passes[i + 2 * Limit]
            BY <1>1, <2>3
        <3> QED
            BY <1>1, <2>1, <2>3, <3>1 DEF RateBounded
    <2>4. i + 2 * Limit = n + 1 \/ i + 2 * Limit \in 1..n
        <3> DEFINE z == i + 2 * Limit
        <3>1. z \in 1..(n + 1)
            OBVIOUS
        <3> HIDE DEF z
        <3>2. z = n + 1 \/ z \in 1..n
            BY <1>1, <3>1
        <3> QED
            BY <3>2 DEF z
    <2> QED
        BY <2>2, <2>3, <2>4
<1>8. RefusalsEnd'
    <2>1. \A i \in DOMAIN refusals : RefusalEnds(refusals[i])
        BY DEF RefusalsEnd, RefusalEnds, PassedWithin
    <2>2. \A r : RefusalEnds(r) => RefusalEnds(r)'
        BY <1>1, RefusalsStay DEF n
    <2>3. \A i \in DOMAIN refusals : RefusalEnds(refusals[i])'
        BY <2>1, <2>2
    <2> QED
        BY <2>3 DEF RefusalsEnd, RefusalEnds, PassedWithin
<1> QED
    BY <1>3, <1>6, <1>7, <1>8

\* A refusal is told how long its window lasts, and Limit checks passed in it.
LEMMA RefuseKeepsBudget ==
    ASSUME BudgetInv, tick' = tick, passes' = passes, Live, count # 0, count + 1 > Limit,
           count' = count + 1, ends' = ends, opened' = opened,
           refusals' = Append(refusals, [at |-> tick, wait |-> RetryAfter(ends),
                                         window |-> opened])
    PROVE  BudgetInv'
<1> DEFINE n == Len(passes)
           m == Len(refusals)
           r == [at |-> tick, wait |-> RetryAfter(ends), window |-> opened]
           Refusals == [at : Nat, wait : Nat, window : Nat]
<1> USE DEF BudgetInv
<1>0. /\ Limit \in Nat \ {0} /\ Length \in Nat \ {0} /\ tick \in Nat /\ count \in Nat
      /\ ends \in Nat /\ opened \in Nat /\ passes \in Seq(Nat) /\ Length' = Length
      /\ refusals \in Seq(Refusals)
    BY LengthType DEF BudgetTypeOK, Length
<1>1. n \in Nat /\ DOMAIN passes = 1..n /\ \A i \in 1..n : passes[i] \in Nat
    BY <1>0, LenProperties, ElementOfSeq
<1>2. /\ RetryAfter(ends) \in Nat
      /\ tick + RetryAfter(ends) * TicksPerSecond + TicksPerSecond \div 2 >= ends
    BY <1>0, WaitIsLongEnough DEF Live
<1>3. r \in Refusals
    BY <1>0, <1>2
<1>4. ends = opened + Length /\ InLast = Limit /\ InLast' = Limit /\ Limit <= n
    BY <1>0 DEF WindowHeld, InLast
<1>5. BudgetTypeOK'
    BY <1>0, <1>3, AppendProperties DEF BudgetTypeOK
<1>6. WindowHeld'
    <2>1. /\ opened' <= tick' /\ InLast' <= Len(passes')
          /\ count' # 0 /\ ends' = opened' + Length'
        BY <1>0, <1>4 DEF WindowHeld
    <2>2. \A i \in DOMAIN passes :
              /\ passes[i] <= tick
              /\ i > Len(passes) - Limit => passes[i] >= opened
              /\ i <= Len(passes) - Limit => passes[i] <= opened
              /\ i + Limit <= Len(passes) - Limit => passes[i] + Length <= opened
        BY <1>4 DEF WindowHeld
    <2>3. IF count' = 0 THEN ends' = 0 /\ passes' = <<>> /\ refusals' = <<>>
          ELSE ends' = opened' + Length
        BY <1>0, <2>1
    <2>4. \A i \in DOMAIN passes' :
              /\ passes'[i] <= tick'
              /\ i > Len(passes') - InLast' => passes'[i] >= opened'
              /\ i <= Len(passes') - InLast' => passes'[i] <= opened'
              /\ i + Limit <= Len(passes') - InLast' => passes'[i] + Length <= opened'
        BY <1>0, <1>4, <2>2
    <2>5. opened' <= tick' /\ InLast' <= Len(passes')
        BY <2>1
    <2> QED
        BY <1>0, <2>3, <2>4, <2>5 DEF WindowHeld
<1>7. RateBounded'
    BY <1>0 DEF RateBounded
<1>8. RefusalEnds(r)
    <2>1. \A i \in (n - Limit + 1)..n : i \in 1..n /\ opened <= passes[i] /\ passes[i] <= tick
        <3> SUFFICES ASSUME NEW i \in (n - Limit + 1)..n
                     PROVE  i \in 1..n /\ opened <= passes[i] /\ passes[i] <= tick
            OBVIOUS
        <3> HIDE DEF n
        <3>1. i \in 1..n /\ i > n - Limit
            BY <1>0, <1>1, <1>4
        <3>2. passes[i] <= tick /\ (i > n - Limit => passes[i] >= opened)
            BY <1>1, <1>4, <3>1 DEF WindowHeld, n
        <3> QED
            BY <1>0, <1>1, <3>1, <3>2
    <2>2. (n - Limit + 1)..n \subseteq PassedWithin(r)
        BY <1>1, <2>1 DEF PassedWithin
    <2>3. PassedWithin(r) \subseteq 1..n /\ IsFiniteSet(1..n)
        BY <1>1, FS_Interval DEF PassedWithin
    <2>4. IsFiniteSet(PassedWithin(r))
        BY <2>3, FS_Subset
    <2>5. Cardinality((n - Limit + 1)..n) <= Cardinality(PassedWithin(r))
        BY <2>2, <2>4, FS_Subset
    <2>6. Cardinality((n - Limit + 1)..n) = Limit
        <3> DEFINE f == n - Limit + 1
        <3>1. f \in Int /\ n \in Int /\ ~(f > n) /\ n - f + 1 = Limit
            BY <1>0, <1>1, <1>4
        <3> HIDE DEF f
        <3>2. Cardinality(f..n) = n - f + 1
            BY <3>1, FS_Interval
        <3> QED
            BY <3>1, <3>2 DEF f
    <2>7. r.at < r.window + Length
        BY <1>4 DEF Live
    <2>8. r.at + r.wait * TicksPerSecond + TicksPerSecond \div 2 >= r.window + Length
        BY <1>2, <1>4
    <2> QED
        BY <2>5, <2>6, <2>7, <2>8 DEF RefusalEnds
<1>9. RefusalsEnd'
    <2> HIDE DEF r
    <2>1. /\ m \in Nat /\ DOMAIN refusals = 1..m /\ Len(refusals') = m + 1
          /\ DOMAIN refusals' = 1..(m + 1) /\ refusals'[m + 1] = r
          /\ \A i \in 1..m : refusals'[i] = refusals[i]
        BY <1>0, <1>3, LenProperties, AppendProperties DEF r
    <2>2. \A i \in 1..m : RefusalEnds(refusals[i])
        BY <2>1 DEF RefusalsEnd, RefusalEnds, PassedWithin
    <2>3. \A i \in DOMAIN refusals' : RefusalEnds(refusals'[i])
        <3> SUFFICES ASSUME NEW i \in 1..(m + 1) PROVE RefusalEnds(refusals'[i])
            BY <2>1
        <3>1. CASE i = m + 1
            BY <1>8, <2>1, <3>1
        <3>2. CASE i \in 1..m
            BY <2>1, <2>2, <3>2
        <3> QED
            BY <2>1, <3>1, <3>2
    <2> QED
        BY <1>0, <2>3 DEF RefusalsEnd, RefusalEnds, PassedWithin
<1> QED
    BY <1>5, <1>6, <1>7, <1>9

\* Time and the loss of the keys.
LEMMA BudgetStep ==
    ASSUME BudgetInv, [BudgetNext]_budget
    PROVE  BudgetInv'
<1>1. CASE TimePasses
    <2>1. /\ tick' = tick + 1 /\ tick < LastTick /\ count' = count /\ ends' = ends
          /\ opened' = opened /\ passes' = passes /\ refusals' = refusals
        BY <1>1 DEF TimePasses
    <2>2. tick \in 0..LastTick /\ LastTick \in Nat /\ opened \in Nat /\ passes \in Seq(Nat)
        BY LengthType DEF BudgetInv, BudgetTypeOK
    <2>3. BudgetTypeOK'
        BY <2>1, <2>2 DEF BudgetInv, BudgetTypeOK
    <2>4. InLast' = InLast /\ Length' = Length
        BY <2>1 DEF InLast, Length
    <2>5. \A i \in DOMAIN passes : passes[i] \in Nat
        BY <2>2, LenProperties, ElementOfSeq
    <2>6. WindowHeld'
        BY <2>1, <2>2, <2>4, <2>5 DEF BudgetInv, WindowHeld
    <2>7. RateBounded' /\ RefusalsEnd'
        BY <2>1, <2>4 DEF BudgetInv, RateBounded, RefusalsEnd
    <2> QED
        BY <2>3, <2>6, <2>7 DEF BudgetInv
<1>2. CASE Check
    <2>1. BudgetTypeOK /\ WindowHeld
        BY DEF BudgetInv
    <2>2. tick' = tick
        BY <1>2 DEF Check
    <2>3. CASE ~Live
        BY <1>2, <2>1, <2>2, <2>3, CheckCases, PassKeepsBudget
    <2>4. CASE Live /\ count + 1 <= Limit
        BY <1>2, <2>1, <2>2, <2>4, CheckCases, PassKeepsBudget, LengthType DEF BudgetTypeOK
    <2>5. CASE Live /\ ~(count + 1 <= Limit)
        BY <1>2, <2>1, <2>2, <2>5, CheckCases, RefuseKeepsBudget, LengthType DEF BudgetTypeOK
    <2> QED
        BY <2>3, <2>4, <2>5
<1>3. CASE Forget
    <2>1. /\ tick' = tick /\ opened' = opened /\ count' = 0 /\ ends' = 0
          /\ passes' = <<>> /\ refusals' = <<>>
        BY <1>3 DEF Forget
    <2>2. DOMAIN passes' = {} /\ DOMAIN refusals' = {} /\ Len(passes') = 0
        BY <2>1
    <2>3. BudgetTypeOK' /\ opened' <= tick'
        BY <2>1 DEF BudgetInv, BudgetTypeOK, WindowHeld
    <2>4. InLast' = 0
        BY <2>1, LengthType DEF InLast
    <2> QED
        BY <2>1, <2>2, <2>3, <2>4 DEF BudgetInv, WindowHeld, RateBounded, RefusalsEnd
<1>4. CASE UNCHANGED budget
    BY <1>4 DEF budget, BudgetInv, BudgetTypeOK, WindowHeld, InLast, RateBounded, RefusalsEnd
<1> QED
    BY <1>1, <1>2, <1>3, <1>4 DEF BudgetNext

LEMMA BudgetInvariant == BudgetSpec => []BudgetInv
<1>1. BudgetInit => BudgetInv
    <2> SUFFICES ASSUME BudgetInit PROVE BudgetInv
        OBVIOUS
    <2>1. DOMAIN passes = {} /\ DOMAIN refusals = {} /\ Len(passes) = 0 /\ InLast = 0
        BY LengthType DEF BudgetInit, InLast
    <2> QED
        BY <2>1, LengthType
        DEF BudgetInit, BudgetInv, BudgetTypeOK, WindowHeld, RateBounded, RefusalsEnd
<1>2. BudgetInv /\ [BudgetNext]_budget => BudgetInv'
    BY BudgetStep
<1> QED
    BY <1>1, <1>2, PTL DEF BudgetSpec

\* The counter of src/app/auth/rate_limit.py lets through at most 2 * Limit attempts
\* of one source or account in any stretch of the window's length, whatever the limit,
\* the window and the moments of the attempts, as long as Redis keeps the key.
THEOREM RateAlwaysBounded == BudgetSpec => []RateBounded
<1>1. BudgetInv => RateBounded
    BY DEF BudgetInv
<1> QED
    BY BudgetInvariant, <1>1, PTL

\* Who is refused is refused inside the window that the first attempt opened and in
\* which Limit attempts passed, and waiting as told and half a second more leaves it.
THEOREM RefusalsAlwaysEnd == BudgetSpec => []RefusalsEnd
<1>1. BudgetInv => RefusalsEnd
    BY DEF BudgetInv
<1> QED
    BY BudgetInvariant, <1>1, PTL
=============================================================================
