---------------------------- MODULE TaskWorkflow ----------------------------
(***************************************************************************)
(* Assignment and progress reports on service requests                     *)
(* (src/app/crm/task_workflow.py) under the access rules of                *)
(* src/app/crm/access.py, as concurrent PostgreSQL transactions at READ    *)
(* COMMITTED: every statement reads what is committed when it runs, a row  *)
(* lock makes a transaction wait, and nothing is visible before the commit *)
(* or survives a rollback.                                                 *)
(*                                                                         *)
(* The caller (src/app/bot/dialogs.py) passes the revision of the card the *)
(* user saw, which may be any revision the request ever had.  Requests are *)
(* in one organization.                                                    *)
(***************************************************************************)
EXTENDS Naturals, Sequences, FiniteSets

CONSTANTS
    Requests,
    Owners,           \* max_owner_ids
    Employees,        \* employees rows, named by their MAX user
    Nobody,           \* assignee_id is NULL
    Codes,            \* PROGRESS_STATES
    InitialCode,      \* the code create_organization gives the first status
    Memberships,      \* what each employee, its role and account may be
    Transactions,     \* database sessions running one operation each
    MaxOperations     \* bound: operations begun

Actors == Owners \cup Employees
Permissions == {"requests.view", "requests.update", "requests.assign"}
AllCodes == Codes \cup {InitialCode}
NoCode == "none"

\* enabled: the MAX id is on an env list and users.is_active; active:
\* Employee.is_active; permissions: Role.permissions; scope: the requests whose
\* house and category the employee's scopes contain.
Membership == [enabled : BOOLEAN, active : BOOLEAN,
               permissions : SUBSET Permissions, scope : SUBSET Requests]

ASSUME NamesAssumption ==
    /\ Nobody \notin Actors
    /\ NoCode \notin AllCodes
    /\ InitialCode \notin Codes
    /\ Requests # {} /\ Actors # {}

ASSUME MembershipsAssumption == Memberships \in [Employees -> SUBSET Membership]

ASSUME BoundAssumption == MaxOperations \in Nat

VARIABLES
    assignee,     \* requests.assignee_id
    status,       \* the code of requests.status_id
    revision,     \* requests.revision
    decisions,    \* audit_log and task_progress rows of a request, in order
    history,      \* request_status_history rows of a request, in order
    codes,        \* request_statuses rows of the organization, by code
    member,       \* employees joined with roles and accounts
    txn,          \* local state of each transaction
    begun         \* operations begun so far

vars == <<assignee, status, revision, decisions, history, codes, member, txn, begun>>

table == <<assignee, status, revision, decisions, history>>

Phases == {"idle", "begun", "locked", "authorized", "checked", "ready"}

\* seen, was and holder are what the SELECT ... FOR UPDATE returned; inserts is
\* the status code whose row this transaction has inserted.
TxnStates ==
    [pc : Phases, kind : {"assign", "report"}, actor : Actors, request : Requests,
     expected : Nat, what : Employees \cup AllCodes, seen : Nat, was : AllCodes,
     holder : Employees \cup {Nobody}, inserts : AllCodes \cup {NoCode}]

\* `on` is the revision of the card behind the decision; it is not stored, and
\* kept here to say what the decision knew.
Decision == [kind : {"assign", "report"}, by : Actors, what : Employees \cup AllCodes,
             on : Nat]

Idle(t) == txn[t].pc = "idle"

TypeOK ==
    /\ assignee \in [Requests -> Employees \cup {Nobody}]
    /\ status \in [Requests -> AllCodes]
    /\ revision \in [Requests -> Nat]
    /\ decisions \in [Requests -> Seq(Decision)]
    /\ history \in [Requests -> Seq(AllCodes \X AllCodes)]
    /\ codes \in SUBSET AllCodes
    /\ member \in [Employees -> Membership]
    /\ txn \in [Transactions -> TxnStates]
    /\ begun \in 0..MaxOperations

\* A session before its first operation.
Fresh ==
    [pc |-> "idle", kind |-> "report", actor |-> CHOOSE a \in Actors : TRUE,
     request |-> CHOOSE r \in Requests : TRUE, expected |-> 0, what |-> InitialCode,
     seen |-> 0, was |-> InitialCode, holder |-> Nobody, inserts |-> NoCode]

Init ==
    /\ assignee = [r \in Requests |-> Nobody]
    /\ status = [r \in Requests |-> InitialCode]
    /\ revision = [r \in Requests |-> 0]
    /\ decisions = [r \in Requests |-> <<>>]
    /\ history = [r \in Requests |-> <<>>]
    /\ codes = {InitialCode}
    /\ member \in [Employees -> Membership] /\ \A e \in Employees : member[e] \in Memberships[e]
    /\ txn = [t \in Transactions |-> Fresh]
    /\ begun = 0

-----------------------------------------------------------------------------
(* The owner's catalog, seen from here: one committed step each.           *)

\* PATCH of an employee or a role, or a change of the env lists.
ChangeMember(e) ==
    /\ \E m \in Memberships[e] \ {member[e]} : member' = [member EXCEPT ![e] = m]
    /\ UNCHANGED <<table, codes, txn, begun>>

\* POST of a status whose code is one of PROGRESS_STATES.
CreateStatus(c) ==
    /\ c \notin codes
    /\ \A t \in Transactions : txn[t].inserts # c
    /\ codes' = codes \cup {c}
    /\ UNCHANGED <<table, member, txn, begun>>

-----------------------------------------------------------------------------
(* An operation.                                                           *)

\* assign_request(actor, request, employee, expected) or
\* report_progress(actor, request, state, expected).
Call(a, r, n, k, x) ==
    [Fresh EXCEPT !.pc = "begun", !.kind = k, !.actor = a,
                  !.request = r, !.expected = n, !.what = x]

\* An assignment names an employee, a report one of PROGRESS_STATES.
Valid(k, x) == IF k = "assign" THEN x \in Employees ELSE x \in Codes

\* A button or a reply text of an authenticated user (native_actor) reaches
\* assign_request or report_progress.
Begin(t) ==
    /\ Idle(t)
    /\ begun < MaxOperations
    /\ \E a \in Actors, r \in Requests, n \in 0..MaxOperations,
          k \in {"assign", "report"}, x \in Employees \cup Codes :
           /\ a \notin Owners => member[a].enabled
           /\ n <= revision[r]
           /\ Valid(k, x)
           /\ txn' = [txn EXCEPT ![t] = Call(a, r, n, k, x)]
    /\ begun' = begun + 1
    /\ UNCHANGED <<table, codes, member>>

\* From the SELECT ... FOR UPDATE to the end of the transaction.
HasLock(t) == txn[t].pc \in {"locked", "authorized", "checked", "ready"}

\* Mutant: the SELECT takes no row lock.
Unlocked(t, r) == FALSE

\* Another open transaction holds the row lock of request r.
LockedByOther(t, r) ==
    \E u \in Transactions \ {t} : HasLock(u) /\ txn[u].request = r

\* SELECT ... FOR UPDATE OF requests: waits, then reads the newest version.
Lock(t) ==
    LET r == txn[t].request IN
    /\ txn[t].pc = "begun"
    /\ ~LockedByOther(t, r)
    /\ txn' = [txn EXCEPT ![t] =
                  [@ EXCEPT !.pc = "locked", !.seen = revision[r], !.was = status[r],
                            !.holder = assignee[r]]]
    /\ UNCHANGED <<table, codes, member, begun>>

\* load_access and access_from_membership: owners may do everything, others
\* what their active membership allows on the requests in its scope.
MayAct(a, r, needed) ==
    a \notin Owners =>
       /\ member[a].active
       /\ needed \subseteq member[a].permissions
       /\ r \in member[a].scope

Needed(kind) ==
    {"requests.view", IF kind = "assign" THEN "requests.assign" ELSE "requests.update"}

\* Mutant: access is not read again after the lock.
AuthorizedUnchecked(t) == TRUE

\* The rest of _visible_task, in statements of its own after the lock.
Authorized(t) == MayAct(txn[t].actor, txn[t].request, Needed(txn[t].kind))

Authorize(t) ==
    /\ txn[t].pc = "locked"
    /\ Authorized(t)
    /\ txn' = [txn EXCEPT ![t].pc = "authorized"]
    /\ UNCHANGED <<table, codes, member, begun>>

\* Mutant: the revision on the card is not compared.
RevisionIgnored(t) == TRUE

\* The card the user acted on shows the current revision.
RevisionMatches(t) == txn[t].expected = txn[t].seen

\* Who may be given the request, as assign_request reads it: never an
\* employee who could not work on it.
Eligible(e, r) ==
    /\ member[e].enabled
    /\ member[e].active
    /\ {"requests.view", "requests.update"} \subseteq member[e].permissions
    /\ r \in member[e].scope

\* Mutant: an active employee may report on any visible request.
MayReportIfActive(t) == txn[t].actor \notin Owners => member[txn[t].actor].active

\* Who may report: an owner, or the employee the locked row names, if active.
MayReport(t) ==
    LET a == txn[t].actor IN
    a \notin Owners => a = txn[t].holder /\ member[a].active

Acceptable(t) ==
    /\ RevisionMatches(t)
    /\ IF txn[t].kind = "assign" THEN Eligible(txn[t].what, txn[t].request) ELSE MayReport(t)

\* The remaining checks pass; an assignment is now written, a report still
\* needs the row of its status.
Check(t) ==
    /\ txn[t].pc = "authorized"
    /\ Acceptable(t)
    /\ txn' = [txn EXCEPT ![t].pc = IF txn[t].kind = "assign" THEN "ready" ELSE "checked"]
    /\ UNCHANGED <<table, codes, member, begun>>

\* Mutant: a failed revision or assignee check leaves the transaction open.
RefuseAccessOnly(t) ==
    /\ txn[t].pc = "locked" /\ ~Authorized(t)
    /\ txn' = [txn EXCEPT ![t] = Fresh]
    /\ UNCHANGED <<table, codes, member, begun>>

\* A check fails: the exception undoes the transaction (or its savepoint).
Refuse(t) ==
    /\ \/ txn[t].pc = "locked" /\ ~Authorized(t)
       \/ txn[t].pc = "authorized" /\ ~Acceptable(t)
    /\ txn' = [txn EXCEPT ![t] = Fresh]
    /\ UNCHANGED <<table, codes, member, begun>>

\* Mutant: a row another transaction inserted counts as existing before it commits.
FoundUncommitted(t) ==
    LET c == txn[t].what IN
    /\ txn[t].pc = "checked"
    /\ txn' = [txn EXCEPT ![t] =
                  [@ EXCEPT !.pc = "ready",
                            !.inserts = IF \/ c \in codes
                                           \/ \E u \in Transactions : txn[u].inserts = c
                                        THEN NoCode ELSE c]]
    /\ UNCHANGED <<table, codes, member, begun>>

\* Another open transaction has inserted the row of code c.
InsertedByOther(t, c) == \E u \in Transactions \ {t} : txn[u].inserts = c

\* INSERT ... ON CONFLICT DO NOTHING on request_statuses: waits for the
\* transaction that inserted the same code, then inserts the row or finds it.
UpsertStatus(t) ==
    LET c == txn[t].what IN
    /\ txn[t].pc = "checked"
    /\ ~InsertedByOther(t, c)
    /\ txn' = [txn EXCEPT ![t] =
                  [@ EXCEPT !.pc = "ready", !.inserts = IF c \in codes THEN NoCode ELSE c]]
    /\ UNCHANGED <<table, codes, member, begun>>

\* The caller commits: the ORM writes what it computed from the row it read.
Commit(t) ==
    LET r == txn[t].request
        c == txn[t].what IN
    /\ txn[t].pc = "ready"
    /\ revision' = [revision EXCEPT ![r] = txn[t].seen + 1]
    /\ decisions' = [decisions EXCEPT ![r] =
                        Append(@, [kind |-> txn[t].kind, by |-> txn[t].actor, what |-> c,
                                   on |-> txn[t].expected])]
    /\ IF txn[t].kind = "assign"
       THEN /\ assignee' = [assignee EXCEPT ![r] = c]
            /\ UNCHANGED <<status, history>>
       ELSE /\ status' = [status EXCEPT ![r] = c]
            /\ history' = IF c = txn[t].was THEN history
                          ELSE [history EXCEPT ![r] = Append(@, <<txn[t].was, c>>)]
            /\ UNCHANGED assignee
    /\ codes' = codes \cup ({txn[t].inserts} \ {NoCode})
    /\ txn' = [txn EXCEPT ![t] = Fresh]
    /\ UNCHANGED <<member, begun>>

\* A database error, a later failure of the same webhook or a dead process
\* rolls the transaction back at any point.
Abort(t) ==
    /\ ~Idle(t)
    /\ txn' = [txn EXCEPT ![t] = Fresh]
    /\ UNCHANGED <<table, codes, member, begun>>

-----------------------------------------------------------------------------
Step(t) ==
    Lock(t) \/ Authorize(t) \/ Check(t) \/ Refuse(t) \/ UpsertStatus(t) \/ Commit(t)

Next ==
    \/ \E e \in Employees : ChangeMember(e)
    \/ \E c \in Codes : CreateStatus(c)
    \/ \E t \in Transactions : Begin(t) \/ Step(t) \/ Abort(t)

Spec == Init /\ [][Next]_vars

\* A running transaction goes on; nothing obliges users to begin one.
FairSpec == Spec /\ \A t \in Transactions : WF_vars(Step(t))

-----------------------------------------------------------------------------
(* Properties.                                                             *)

\* Every decision raised the revision by exactly one, and was taken on a card
\* that showed the decision before it: of two people who press on the same card
\* one is refused, and no update overwrites another (task_workflow.py:108-109,
\* :145, :174, :186, :218).
NoDecisionLost ==
    \A r \in Requests :
        /\ revision[r] = Len(decisions[r])
        /\ \A i \in DOMAIN decisions[r] : decisions[r][i].on = i - 1

\* The status history leads from the first status to the current one without
\* gaps and without rows that change nothing (task_workflow.py:208-217); the row
\* without a from_status that the creation writes comes before all of these.
HistoryIsPath ==
    \A r \in Requests :
        LET h == history[r] IN
        /\ h = <<>> => status[r] = InitialCode
        /\ h # <<>> => /\ h[1][1] = InitialCode
                       /\ h[Len(h)][2] = status[r]
        /\ \A i \in DOMAIN h : h[i][1] # h[i][2]
        /\ \A i \in DOMAIN h \ {1} : h[i][1] = h[i - 1][2]

\* A report that is not an owner's comes from the employee the latest earlier
\* assignment names, whoever was reassigned while the report was being typed.
ReportsFollowAssignment ==
    \A r \in Requests : \A i \in DOMAIN decisions[r] :
        LET d == decisions[r] IN
        d[i].kind = "report" /\ d[i].by \notin Owners =>
            \E j \in 1..(i - 1) :
                /\ d[j].kind = "assign" /\ d[j].what = d[i].by
                /\ \A k \in (j + 1)..(i - 1) : d[k].kind # "assign"

\* No request and no history row names a status whose insertion was rolled
\* back, even if two first reports of a code raced (task_workflow.py:188-207).
StatusesExist ==
    \A r \in Requests :
        /\ status[r] \in codes
        /\ \A i \in DOMAIN history[r] : history[r][i][2] \in codes

\* An open transaction still sees what it read under its row lock, and no two
\* hold the lock of one request.
LocksHold ==
    /\ \A t \in Transactions : HasLock(t) =>
           /\ txn[t].seen = revision[txn[t].request]
           /\ txn[t].was = status[txn[t].request]
           /\ txn[t].holder = assignee[txn[t].request]
    /\ \A t, u \in Transactions :
           t # u /\ HasLock(t) /\ HasLock(u) => txn[t].request # txn[u].request

\* What passed a check stays true of the locked row, and an inserted status row
\* is the one the report needs.
ChecksOf(t) ==
    /\ ~Idle(t) => txn[t].what \in IF txn[t].kind = "assign" THEN Employees ELSE Codes
    /\ txn[t].pc = "checked" => txn[t].kind = "report"
    /\ txn[t].pc \in {"checked", "ready"} =>
           /\ txn[t].expected = txn[t].seen
           /\ txn[t].kind = "report" => txn[t].actor \in Owners \/ txn[t].actor = txn[t].holder
    /\ txn[t].inserts # NoCode =>
           txn[t].pc = "ready" /\ txn[t].kind = "report" /\ txn[t].inserts = txn[t].what
    /\ txn[t].pc = "ready" /\ txn[t].kind = "report" =>
           txn[t].what \in codes \cup {txn[t].inserts}

ChecksHold == \A t \in Transactions : ChecksOf(t)

\* Why the promise holds: an open transaction still sees what it read under its
\* row lock, no two hold the lock of one request, what passed a check stays
\* true of the locked row, and an inserted status is the one reported.
TransactionsConsistent == LocksHold /\ ChecksHold

\* Decisions an employee took.
TakenBy(e) ==
    Cardinality(UNION {{<<r, i>> : i \in {j \in DOMAIN decisions[r] : decisions[r][j].by = e}}
                       : r \in Requests})

\* An employee who loses a request for good (deactivated, permission or scope
\* withdrawn) takes no further decision, even in operations already begun and
\* waiting for the row lock: access is read after the lock, not before it.
RevokedEmployeesStop ==
    \A e \in Employees \ Owners : \A n \in 0..MaxOperations :
        [](( /\ TakenBy(e) = n
             /\ \A t \in Transactions :
                    txn[t].actor = e => txn[t].pc \in {"idle", "begun", "locked"}
             /\ [](\A r \in Requests : ~MayAct(e, r, {"requests.view"})) )
           => [](TakenBy(e) = n))

\* Every operation ends: waiting for a request's lock or for another
\* transaction's status row never lasts for ever.
OperationsEnd == \A t \in Transactions : ~Idle(t) ~> Idle(t)

\* Seen through its committed rows, the workflow is TaskLedger: atomic
\* decisions, each on the result of the one before.
Ledger == INSTANCE TaskLedger
ActsAtomically == Ledger!Spec
=============================================================================
