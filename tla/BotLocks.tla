------------------------------ MODULE BotLocks ------------------------------
(***************************************************************************)
(* The row locks that concurrent events of the staff bot take, and the     *)
(* order they take them in (max_webhook in src/app/bot/routes.py,          *)
(* native_actor in src/app/bot/identity.py, conversation and handle_staff  *)
(* in src/app/bot/dialogs.py).  native_actor renames users rows: to the    *)
(* name MAX sends on a user's own event, to the name in employees when the *)
(* user is given a task.  Where the owner has chosen another name than     *)
(* MAX's, the two alternate.  Rows are locked until the transaction ends.  *)
(*                                                                         *)
(* Users and conversations exist already; owners are not told of reports   *)
(* under a lock (notify_owners renames nobody).                            *)
(***************************************************************************)
EXTENDS Naturals, FiniteSets

CONSTANTS
    Users, Tasks,
    Chosen,         \* users whose name in employees is not MAX's
    Events,         \* staff events; each is delivered until it is handled
    ActorOf, KindOf, TaskOf, RecipientOf,   \* what an event says
    Transactions    \* requests the API serves at the same time

ASSUME EventsAssumption ==
    /\ ActorOf \in [Events -> Users] /\ RecipientOf \in [Events -> Users]
    /\ KindOf \in [Events -> {"plain", "report", "assign"}]
    /\ TaskOf \in [Events -> Tasks] /\ Chosen \subseteq Users /\ Events # {}

VARIABLES
    name,      \* users.display_name: "max" or "crm"
    handled,   \* events committed
    txn

locks == <<name, handled, txn>>

\* own, talk, task, other: the rows this transaction has locked, namely the
\* actor's users row, the actor's conversation, the request, the recipient's
\* users row.
Idle == [pc |-> "idle", event |-> CHOOSE e \in Events : TRUE, own |-> FALSE, talk |-> FALSE,
         task |-> FALSE, other |-> FALSE]

Phases == {"idle", "greet", "rename", "converse", "act", "locked", "notify", "ready"}

LocksTypeOK ==
    /\ name \in [Users -> {"max", "crm"}] /\ handled \subseteq Events
    /\ txn \in [Transactions -> [pc : Phases, event : Events, own : BOOLEAN, talk : BOOLEAN,
                                 task : BOOLEAN, other : BOOLEAN]]

LocksInit ==
    /\ name \in [Users -> {"max", "crm"}]
    /\ \A u \in Users \ Chosen : name[u] = "max"
    /\ handled = {}
    /\ txn = [t \in Transactions |-> Idle]

Actor(t) == ActorOf[txn[t].event]
Recipient(t) == RecipientOf[txn[t].event]

-----------------------------------------------------------------------------
(* Locks are pairs of a table and a row.                                   *)

Held(t) ==
    (IF txn[t].own THEN {<<"users", Actor(t)>>} ELSE {})
      \cup (IF txn[t].talk THEN {<<"conversations", Actor(t)>>} ELSE {})
      \cup (IF txn[t].task THEN {<<"requests", TaskOf[txn[t].event]>>} ELSE {})
      \cup (IF txn[t].other THEN {<<"users", Recipient(t)>>} ELSE {})

\* Mutant: an assignment locks the recipient's conversation before the request.
WantedTalk(t) ==
    CASE txn[t].pc = "rename" -> {<<"users", Actor(t)>>}
      [] txn[t].pc = "converse" -> {<<"conversations", Actor(t)>>}
      [] txn[t].pc = "act" /\ KindOf[txn[t].event] = "assign" ->
             {<<"conversations", Recipient(t)>>, <<"requests", TaskOf[txn[t].event]>>}
      [] txn[t].pc = "act" -> {<<"requests", TaskOf[txn[t].event]>>}
      [] txn[t].pc = "notify" -> {<<"users", Recipient(t)>>}
      [] OTHER -> {}

\* The row a transaction needs for its next statement.
Wanted(t) ==
    CASE txn[t].pc = "rename" -> {<<"users", Actor(t)>>}
      [] txn[t].pc = "converse" -> {<<"conversations", Actor(t)>>}
      [] txn[t].pc = "act" -> {<<"requests", TaskOf[txn[t].event]>>}
      [] txn[t].pc = "notify" -> {<<"users", Recipient(t)>>}
      [] OTHER -> {}

WaitsFor(t, u) == t # u /\ Wanted(t) \cap Held(u) # {}

Free(t) == \A u \in Transactions : ~WaitsFor(t, u)

\* Transactions every one of which waits for another one of them.
Deadlocked(S) == S # {} /\ \A t \in S : \E u \in S : WaitsFor(t, u)

\* Without those who only wait for a member of the circle.
Circle(S) == Deadlocked(S) /\ \A R \in SUBSET S : Deadlocked(R) => R = S

-----------------------------------------------------------------------------
\* MAX delivers an event it heard no 200 for; requests of one event wait for
\* its receipt (see BotWebhook).
DeliverEvent(t, e) ==
    /\ txn[t].pc = "idle"
    /\ e \notin handled
    /\ \A u \in Transactions : txn[u].pc # "idle" => txn[u].event # e
    /\ txn' = [txn EXCEPT ![t] = [Idle EXCEPT !.pc = "greet", !.event = e]]
    /\ UNCHANGED <<name, handled>>

\* native_actor reads the users row without a lock; the ORM updates it only if
\* the name differs.
Greet(t) ==
    /\ txn[t].pc = "greet"
    /\ txn' = [txn EXCEPT ![t].pc = IF name[Actor(t)] # "max" THEN "rename" ELSE "converse"]
    /\ UNCHANGED <<name, handled>>

Rename(t) ==
    /\ txn[t].pc = "rename" /\ Free(t)
    /\ txn' = [txn EXCEPT ![t].pc = "converse", ![t].own = TRUE]
    /\ UNCHANGED <<name, handled>>

\* SELECT ... FOR UPDATE of the conversation.
Converse(t) ==
    /\ txn[t].pc = "converse" /\ Free(t)
    /\ txn' = [txn EXCEPT ![t].talk = TRUE,
                          ![t].pc = IF KindOf[txn[t].event] = "plain" THEN "ready" ELSE "act"]
    /\ UNCHANGED <<name, handled>>

\* SELECT ... FOR UPDATE of the request.
LockTask(t) ==
    /\ txn[t].pc = "act" /\ Free(t)
    /\ txn' = [txn EXCEPT ![t].task = TRUE,
                          ![t].pc = IF KindOf[txn[t].event] = "assign" THEN "locked" ELSE "ready"]
    /\ UNCHANGED <<name, handled>>

\* The name in employees, which assign_request's caller passes on.
EmployeeName(u) == IF u \in Chosen THEN "crm" ELSE "max"

\* What transaction t sees: its own renaming, or what is committed.
Seen(t, u) == IF txn[t].own /\ u = Actor(t) THEN "max" ELSE name[u]

\* native_actor for the recipient of an assignment.
Recognize(t) ==
    /\ txn[t].pc = "locked"
    /\ txn' = [txn EXCEPT ![t].pc = IF Seen(t, Recipient(t)) # EmployeeName(Recipient(t))
                                    THEN "notify" ELSE "ready"]
    /\ UNCHANGED <<name, handled>>

Notify(t) ==
    /\ txn[t].pc = "notify" /\ Free(t)
    /\ txn' = [txn EXCEPT ![t].pc = "ready", ![t].other = TRUE]
    /\ UNCHANGED <<name, handled>>

Commit(t) ==
    /\ txn[t].pc = "ready"
    /\ name' = [u \in Users |-> IF txn[t].other /\ u = Recipient(t) THEN EmployeeName(u)
                                ELSE Seen(t, u)]
    /\ handled' = handled \cup {txn[t].event}
    /\ txn' = [txn EXCEPT ![t] = Idle]

\* Mutant: a deadlock is noticed, but nobody's transaction is ended.
NeverDetect(t) == (\E S \in SUBSET Transactions : t \in S /\ Circle(S)) /\ UNCHANGED locks

\* PostgreSQL ends one transaction of a circle of waits: 503, and MAX delivers
\* the event again.
Detect(t) ==
    /\ \E S \in SUBSET Transactions : t \in S /\ Circle(S)
    /\ txn' = [txn EXCEPT ![t] = Idle]
    /\ UNCHANGED <<name, handled>>

-----------------------------------------------------------------------------
Statement(t) ==
    Greet(t) \/ Rename(t) \/ Converse(t) \/ LockTask(t) \/ Recognize(t) \/ Notify(t) \/ Commit(t)

\* Transactions whose row has become free while they waited.
Woken == {t \in Transactions : Wanted(t) # {} /\ Free(t)}

Done == handled = Events /\ UNCHANGED locks

LocksNext ==
    \/ \E t \in Transactions : (\E e \in Events : DeliverEvent(t, e)) \/ Statement(t) \/ Detect(t)
    \/ Done

LocksSpec == LocksInit /\ [][LocksNext]_locks

\* Served requests go on, a deadlock is noticed, and MAX delivers again what it
\* heard no 200 for, whichever request is free to take it.
LocksFairness ==
    /\ \A t \in Transactions : WF_locks(Statement(t))
    /\ WF_locks(\E t \in Transactions : Detect(t))
    /\ \A e \in Events : SF_locks(\E t \in Transactions : Woken = {} /\ DeliverEvent(t, e))

\* A repetition comes after the network's delay, a waiting transaction gets the
\* row it waits for when it becomes free: no event is delivered in between.
\* Without this the two could end each other in turn for ever.
PromptNext ==
    \/ \E t \in Transactions :
           (\E e \in Events : Woken = {} /\ DeliverEvent(t, e)) \/ Statement(t) \/ Detect(t)
    \/ Done

LocksFairSpec == LocksInit /\ [][PromptNext]_locks /\ LocksFairness

-----------------------------------------------------------------------------
(* Properties.                                                             *)

\* Everybody locks the own users row, then the own conversation, then a request.
\* Only the renaming of a recipient breaks this order, so every circle of waits
\* has somebody who waits for the users row of a task's recipient, whose name the
\* owner has chosen: where every employee has MAX's name there is no deadlock
\* (dialogs.py:502-516, identity.py:38-47).
OnlyRenamingsDeadlock ==
    \A S \in SUBSET Transactions :
        Deadlocked(S) => \E t \in S : txn[t].pc = "notify" /\ Recipient(t) \in Chosen

\* A deadlock delays events but loses none: whoever is ended lets another one
\* finish, and is delivered again.
EventsHandled == \A e \in Events : <>(e \in handled)

-----------------------------------------------------------------------------
(* Why only renamings deadlock: the order of the locks.                    *)

LocksInOrder ==
    \A t \in Transactions :
        /\ txn[t].own => txn[t].pc \notin {"idle", "greet", "rename"}
        /\ txn[t].talk => txn[t].pc \in {"act", "locked", "notify", "ready"}
        /\ txn[t].task => txn[t].pc \in {"locked", "notify", "ready"}
        /\ txn[t].other => txn[t].pc = "ready"

\* Nobody else is renamed.
RenamedAreChosen ==
    /\ \A u \in Users \ Chosen : name[u] = "max"
    /\ \A t \in Transactions : txn[t].pc = "notify" => Recipient(t) \in Chosen
=============================================================================
