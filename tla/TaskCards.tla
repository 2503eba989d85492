------------------------------ MODULE TaskCards ------------------------------
(***************************************************************************)
(* From a change of a request to the cards that tell of it: handle_staff,  *)
(* task_card, notify_owners and reply (src/app/bot/dialogs.py) queue cards *)
(* in the transaction that holds the request's row, access_stamp           *)
(* (identity.py) marks each with what its recipient may see, and           *)
(* deliver_one (worker.py) reads the user, compares the mark, commits and  *)
(* sends, one after the other.  The owner changes memberships meanwhile;   *)
(* every statement reads what is committed.                                *)
(*                                                                         *)
(* What MAX answers, expiry and the worker's crashes are in                *)
(* DeliveryWorker, decisions and memberships in TaskWorkflow.  Here one    *)
(* worker holds the lease.                                                 *)
(***************************************************************************)
EXTENDS AccessRules, Integers, Sequences

CONSTANTS
    Owners, Employees,   \* users of the staff bot, in the lists of the environment
    Tasks,               \* requests of different places
    Grants,              \* the rights an employee may be given, one after another
    Sessions,            \* database sessions handling one event each
    MaxEvents            \* bound: events taken up

ASSUME CardsAssumption ==
    /\ Owners # {} /\ IsFiniteSet(Owners) /\ Owners \cap Employees = {}
    /\ Tasks # {} /\ Tasks \subseteq Places
    /\ Grants \subseteq {a \in Accesses : a.listed = "employee"}
    /\ MaxEvents \in Nat

Users == Owners \cup Employees

VARIABLES
    access,     \* what each user may do
    revision, assignee,
    reports,    \* committed reports of progress
    queue,      \* cards committed, and neither handed to MAX nor discarded
    worker,     \* the one delivery worker
    sent,       \* cards handed to MAX, in order
    drawn,      \* the last bot_deliveries.sequence given
    txn,
    begun       \* events taken up

vars == <<access, revision, assignee, reports, queue, worker, sent, drawn, txn, begun>>

Nobody == "nobody"

OwnerAccess == [listed |-> "owner", enabled |-> TRUE, member |-> Absent, role |-> {}]

\* left: recipients whose card is still to be made; rows: the cards made; changed:
\* who got other rights since the request was locked.
Idle == [pc |-> "idle", actor |-> CHOOSE u \in Users : TRUE, task |-> CHOOSE k \in Tasks : TRUE,
         to |-> Nobody, revision |-> 0, left |-> <<>>, rows |-> {}, changed |-> {}]

\* late: the recipient's rights changed after the worker had read them.
Free == [pc |-> "free", card |-> Nobody, late |-> FALSE]

Init ==
    /\ \E f \in [Employees -> Grants] :
           access = [u \in Users |-> IF u \in Owners THEN OwnerAccess ELSE f[u]]
    /\ revision = [k \in Tasks |-> 0]
    /\ assignee \in [Tasks -> Employees \cup {Nobody}]
    /\ reports = {} /\ queue = {} /\ worker = Free /\ sent = <<>> /\ drawn = 0
    /\ txn = [t \in Sessions |-> Idle]
    /\ begun = 0

Phases == {"idle", "begun", "cards", "stamp", "ready"}

Cards == [sequence : Nat, to : Users, by : Users, task : Tasks, revision : Nat,
          stamp : {Stamp(a) : a \in Accesses}, raced : BOOLEAN]

Txns == [pc : Phases, actor : Users, task : Tasks, to : Employees \cup {Nobody}, revision : Nat,
         left : Seq(Users), rows : SUBSET Cards, changed : SUBSET Users]

DeliveryPhases == {"free", "taken", "known", "cleared", "claimed", "refused"}

TypeOK ==
    /\ access \in [Users -> Accesses]
    /\ revision \in [Tasks -> Nat]
    /\ assignee \in [Tasks -> Employees \cup {Nobody}]
    /\ reports \in SUBSET [task : Tasks, revision : Nat, by : Users]
    /\ queue \in SUBSET Cards
    /\ worker \in [pc : DeliveryPhases, card : Cards \cup {Nobody}, late : BOOLEAN]
    /\ sent \in Seq([card : Cards, within : BOOLEAN, late : BOOLEAN])
    /\ drawn \in Nat
    /\ txn \in [Sessions -> Txns]
    /\ begun \in 0..MaxEvents

-----------------------------------------------------------------------------
\* The worker has read what a change of u's rights to a changes: the account, or
\* the membership as well.
ReadBefore(u, a) ==
    \/ worker.pc = "known" /\ worker.card.to = u /\ Known(a) # Known(access[u])
    \/ worker.pc \in {"cleared", "claimed"} /\ worker.card.to = u

\* PATCH of an employee or of a role, or an account disabled by hand.
ChangeAccess(u) ==
    /\ \E a \in Grants \ {access[u]} :
           /\ access' = [access EXCEPT ![u] = a]
           /\ worker' = [worker EXCEPT !.late = @ \/ ReadBefore(u, a)]
    /\ txn' = [t \in Sessions |-> IF txn[t].pc \in {"cards", "stamp", "ready"}
                                  THEN [txn[t] EXCEPT !.changed = @ \cup {u}] ELSE txn[t]]
    /\ UNCHANGED <<revision, assignee, reports, queue, sent, drawn, begun>>

\* assign_request or report_progress is called from an event.
Call(u, k, b, n) == [Idle EXCEPT !.pc = "begun", !.actor = u, !.task = k, !.to = b, !.revision = n]

\* Somebody who may use the bot assigns the request to an employee, or reports on
\* it; the button holds the revision of some earlier card. The row of the
\* conversation keeps two events of one user apart (BotWebhook).
Begin(t) ==
    /\ txn[t].pc = "idle"
    /\ begun < MaxEvents
    /\ \E u \in Users, k \in Tasks, b \in Employees \cup {Nobody} : \E n \in 0..revision[k] :
           /\ Known(access[u]) /\ \A s \in Sessions : txn[s].pc = "idle" \/ txn[s].actor # u
           /\ txn' = [txn EXCEPT ![t] = Call(u, k, b, n)]
    /\ begun' = begun + 1
    /\ UNCHANGED <<access, revision, assignee, reports, queue, worker, sent, drawn>>

\* Mutant: the request is read without FOR UPDATE.
NeverLocked(t) == FALSE

\* SELECT ... FOR UPDATE waits for the transaction that holds the row.
LockedByOther(t) ==
    \E u \in Sessions \ {t} :
        txn[u].pc \in {"cards", "stamp", "ready"} /\ txn[u].task = txn[t].task

\* What assign_request and report_progress ask for under the lock.
Allowed(t) ==
    LET e == txn[t]  a == access[e.actor] IN
    /\ Reaches(a, e.task)
    /\ e.revision = revision[e.task]
    /\ IF e.to = Nobody THEN MayReport(a, e.task, assignee[e.task] = e.actor)
       ELSE Loads(a, "assign") /\ AssignAccepted(access[e.to], e.task)

\* The owners in the order of the settings.
OwnersInTurn == CHOOSE q \in [1..Cardinality(Owners) -> Owners] :
                    {q[i] : i \in DOMAIN q} = Owners

\* Mutant: only the author of a report is told of it.
RecipientsForgetOwners(t) ==
    IF txn[t].to # Nobody THEN <<txn[t].to, txn[t].actor>> ELSE <<txn[t].actor>>

\* The owners but one, in that order.
OthersInTurn(u) ==
    LET q == OwnersInTurn
        at == CHOOSE i \in DOMAIN q : q[i] = u
    IN IF u \notin Owners THEN q
       ELSE [i \in 1..(Cardinality(Owners) - 1) |-> q[IF i < at THEN i ELSE i + 1]]

\* Who gets a card: the assignee and whoever assigned, or whoever
\* reported and the other owners.
Recipients(t) ==
    IF txn[t].to # Nobody THEN <<txn[t].to, txn[t].actor>>
    ELSE <<txn[t].actor>> \o OthersInTurn(txn[t].actor)

Lock(t) ==
    LET e == txn[t] IN
    /\ e.pc = "begun" /\ ~LockedByOther(t) /\ Allowed(t)
    /\ txn' = [txn EXCEPT ![t] = [e EXCEPT !.pc = "cards", !.revision = e.revision + 1,
                                           !.left = Recipients(t)]]
    /\ UNCHANGED <<access, revision, assignee, reports, queue, worker, sent, drawn, begun>>

\* A refused event is answered with a reply that says nothing of the request.
Refuse(t) ==
    /\ txn[t].pc = "begun" /\ ~LockedByOther(t) /\ ~Allowed(t)
    /\ txn' = [txn EXCEPT ![t] = Idle]
    /\ UNCHANGED <<access, revision, assignee, reports, queue, worker, sent, drawn, begun>>

\* A new assignee must still be a user of the bot; load_access asks everybody for
\* requests.view in the organization, not for this request.
Readies(t) ==
    LET a == access[Head(txn[t].left)] IN
    /\ txn[t].to # Nobody /\ Len(txn[t].left) = 2 => Known(a)
    /\ Loads(a, "view")

\* task_card reads what the card says; a refusal undoes the whole event.
Read(t) ==
    /\ txn[t].pc = "cards"
    /\ txn' = IF Readies(t) THEN [txn EXCEPT ![t].pc = "stamp"]
              ELSE [txn EXCEPT ![t] = Idle]
    /\ UNCHANGED <<access, revision, assignee, reports, queue, worker, sent, drawn, begun>>

\* reply marks the card with the membership as access_stamp reads it anew, and the
\* row takes its number.  raced: that membership changed since the request was locked.
Reply(t) ==
    LET e == txn[t]
        to == Head(e.left)
        card == [sequence |-> drawn + 1, to |-> to, by |-> e.actor, task |-> e.task,
                 revision |-> e.revision, stamp |-> Stamp(access[to]),
                 raced |-> to \in e.changed]
    IN
    /\ e.pc = "stamp"
    /\ drawn' = drawn + 1
    /\ txn' = [txn EXCEPT ![t] =
                  [e EXCEPT !.rows = e.rows \cup {card}, !.left = Tail(e.left),
                            !.pc = IF Tail(e.left) = <<>> THEN "ready" ELSE "cards"]]
    /\ UNCHANGED <<access, revision, assignee, reports, queue, worker, sent, begun>>

Commit(t) ==
    LET e == txn[t] IN
    /\ e.pc = "ready"
    /\ revision' = [revision EXCEPT ![e.task] = e.revision]
    /\ IF e.to = Nobody
       THEN /\ reports' = reports \cup {[task |-> e.task, revision |-> e.revision, by |-> e.actor]}
            /\ UNCHANGED assignee
       ELSE assignee' = [assignee EXCEPT ![e.task] = e.to] /\ UNCHANGED reports
    /\ queue' = queue \cup e.rows
    /\ txn' = [txn EXCEPT ![t] = Idle]
    /\ UNCHANGED <<access, worker, sent, drawn, begun>>

\* A database error or a dead process; the numbers drawn are not given back.
Abort(t) ==
    /\ txn[t].pc # "idle"
    /\ txn' = [txn EXCEPT ![t] = Idle]
    /\ UNCHANGED <<access, revision, assignee, reports, queue, worker, sent, drawn, begun>>

-----------------------------------------------------------------------------
(* deliver_one.                                                            *)

\* The row with the lowest number among those committed.
First(c) == c \in queue /\ \A d \in queue : c.sequence <= d.sequence

\* Mutant: the mark is not compared.
MarkUnchecked == TRUE

\* The worker's own access_stamp equals the card's.
MarkStands == worker.card.stamp = Stamp(access[worker.card.to])

Take(c) ==
    /\ worker.pc = "free" /\ First(c)
    /\ worker' = [Free EXCEPT !.pc = "taken", !.card = c]
    /\ UNCHANGED <<access, revision, assignee, reports, queue, sent, drawn, txn, begun>>

\* native_actor: the recipient may use the bot.
CheckUser ==
    /\ worker.pc = "taken"
    /\ worker' = [worker EXCEPT !.pc = IF Known(access[worker.card.to]) THEN "known"
                                       ELSE "refused"]
    /\ UNCHANGED <<access, revision, assignee, reports, queue, sent, drawn, txn, begun>>

Compare ==
    /\ worker.pc = "known"
    /\ worker' = [worker EXCEPT !.pc = IF MarkStands THEN "cleared" ELSE "refused"]
    /\ UNCHANGED <<access, revision, assignee, reports, queue, sent, drawn, txn, begun>>

\* The commit of "sending".
Claim ==
    /\ worker.pc = "cleared"
    /\ worker' = [worker EXCEPT !.pc = "claimed"]
    /\ UNCHANGED <<access, revision, assignee, reports, queue, sent, drawn, txn, begun>>

\* The commit of "discarded".
Discard ==
    /\ worker.pc = "refused"
    /\ queue' = queue \ {worker.card}
    /\ worker' = Free
    /\ UNCHANGED <<access, revision, assignee, reports, sent, drawn, txn, begun>>

\* The HTTP request, with what the recipient may open at that instant.
Post ==
    LET c == worker.card IN
    /\ worker.pc = "claimed"
    /\ queue' = queue \ {c}
    /\ sent' = Append(sent, [card |-> c, within |-> Opens(access[c.to], c.task),
                             late |-> worker.late])
    /\ worker' = Free
    /\ UNCHANGED <<access, revision, assignee, reports, drawn, txn, begun>>

Next ==
    \/ \E u \in Employees : ChangeAccess(u)
    \/ \E t \in Sessions :
           Begin(t) \/ Lock(t) \/ Refuse(t) \/ Read(t) \/ Reply(t) \/ Commit(t) \/ Abort(t)
    \/ \E c \in queue : Take(c)
    \/ CheckUser \/ Compare \/ Claim \/ Discard \/ Post

Spec == Init /\ [][Next]_vars

-----------------------------------------------------------------------------
(* Properties.                                                             *)

\* Whoever is told of one request by several people's events hears of its
\* revisions in their order, and of each from one event: numbers are drawn under
\* the row's lock, so the order of numbers is the order of commits
\* (dialogs.py:144-160, worker.py:36-42). Two cards of one revision go to those
\* alone who assign a request to themselves.
NoticesInOrder ==
    \A i, j \in DOMAIN sent :
        LET c == sent[i].card  d == sent[j].card IN
        i < j /\ c.to = d.to /\ c.task = d.task =>
            \/ c.revision < d.revision
            \/ c.revision = d.revision /\ c.by = c.to /\ d.by = c.to

\* No report passes an owner by: in the transaction of the report a card is
\* queued for every owner but its author, and no change of a membership ever
\* discards it (dialogs.py:541-559). Owners whose account is disabled, or who never
\* used the bot, are skipped (dialogs.py:154-157): those of the model are not.
OwnersHearEveryReport ==
    \A r \in reports : \A u \in Owners \ {r.by} :
        \E c \in queue \cup {sent[i].card : i \in DOMAIN sent} :
            c.to = u /\ c.task = r.task /\ c.revision = r.revision

\* A card about a request its recipient may not open at the instant of the HTTP
\* request was made while that recipient's rights changed, or they changed after the
\* worker had read them: a change in between, also of what is given back later, is
\* noticed, and nobody is made a recipient of what is hidden from him or her
\* (worker.py:46-70, task_workflow.py:117-143).
OnlyRacesReveal ==
    \A i \in DOMAIN sent : sent[i].within \/ sent[i].card.raced \/ sent[i].late

\* Why it holds, for the transactions that hold a request's row and the cards
\* they have made, are to make, and have committed.
Open(t) == txn[t].pc \in {"cards", "stamp", "ready"}

Committed == queue \cup {sent[i].card : i \in DOMAIN sent}

\* An open event alone holds its request, and ends when all its cards are made.
HoldsRow(t) ==
    /\ txn[t].revision = revision[txn[t].task] + 1
    /\ ~LockedByOther(t)
    /\ txn[t].pc = "ready" <=> txn[t].left = <<>>

\* Its cards follow all that are committed of the request.
RowsFollow(t) ==
    /\ \A c \in txn[t].rows :
           /\ c.task = txn[t].task /\ c.revision = txn[t].revision /\ c.by = txn[t].actor
           /\ c.sequence <= drawn
           /\ \A d \in Committed : d.task = c.task => d.sequence < c.sequence
    /\ \A c, d \in txn[t].rows : c.sequence = d.sequence => c = d

\* Nobody gets two of them but who assigns a request to himself or herself.
ToldOnce(t) ==
    LET e == txn[t] IN
    /\ \A i, j \in DOMAIN e.left : e.left[i] = e.left[j] => i = j \/ e.left[i] = e.actor
    /\ \A c \in e.rows : \A i \in DOMAIN e.left : c.to = e.left[i] => c.to = e.actor
    /\ \A c, d \in e.rows : c.to = d.to => c = d \/ c.to = e.actor

\* The cards of a request are numbered in the order of its revisions.
NumbersInOrder ==
    /\ \A c \in Committed : c.revision <= revision[c.task] /\ c.sequence <= drawn
    /\ \A c, d \in Committed : c.task = d.task =>
           /\ c.sequence < d.sequence => c.revision <= d.revision
           /\ c.sequence = d.sequence => c = d
           /\ c.revision = d.revision /\ c.to = d.to => c = d \/ (c.by = c.to /\ d.by = d.to)

\* They leave in the order of their numbers.
SentInOrder ==
    \A i \in DOMAIN sent :
        /\ \A c \in queue : c.task = sent[i].card.task => sent[i].card.sequence < c.sequence
        /\ \A j \in DOMAIN sent : i < j /\ sent[i].card.task = sent[j].card.task =>
               sent[i].card.sequence < sent[j].card.sequence

\* The card in the worker's hand is the next one of its request.
InHandIsNext ==
    worker.pc # "free" =>
        /\ worker.card \in queue
        /\ \A c \in queue : c.task = worker.card.task => worker.card.sequence <= c.sequence

CardsInOrder ==
    /\ \A t \in Sessions :
           IF Open(t) THEN HoldsRow(t) /\ RowsFollow(t) /\ ToldOnce(t) ELSE txn[t].rows = {}
    /\ NumbersInOrder /\ InHandIsNext /\ SentInOrder

\* An owner's card bears the mark that stays an owner's.
OwnersMarked(C) == \A c \in C : c.to \in Owners => c.stamp = Stamp(OwnerAccess)

\* A report's event has made or is about to make a card for each of the owners.
TellsOwners(t) ==
    txn[t].to = Nobody =>
        \A u \in Owners \ {txn[t].actor} :
            \/ \E c \in txn[t].rows : c.to = u
            \/ \E i \in DOMAIN txn[t].left : txn[t].left[i] = u

OwnersInformed ==
    /\ \A u \in Owners : access[u] = OwnerAccess
    /\ OwnersMarked(queue)
    /\ worker.pc = "refused" => worker.card.to \notin Owners
    /\ \A t \in Sessions : Open(t) => OwnersMarked(txn[t].rows) /\ TellsOwners(t)
    /\ OwnersHearEveryReport

\* The mark of a card, unless it was made in a race, is one of rights that reach
\* the request.
MarkReaches(C) ==
    \A c \in C : c.raced \/ \E a \in Accesses : Stamp(a) = c.stamp /\ Reaches(a, c.task)

\* What the worker has read still holds, or the change was made too late for it.
WorkerKnows ==
    LET c == worker.card IN
    /\ worker.pc \in {"known", "cleared", "claimed"} => worker.late \/ Known(access[c.to])
    /\ worker.pc \in {"cleared", "claimed"} =>
           c.raced \/ worker.late \/ Opens(access[c.to], c.task)

RightsKnown ==
    /\ MarkReaches(queue) /\ WorkerKnows
    /\ \A t \in Sessions : Open(t) =>
           /\ MarkReaches(txn[t].rows)
           /\ \A i \in DOMAIN txn[t].left :
                  txn[t].left[i] \in txn[t].changed \/ Reaches(access[txn[t].left[i]], txn[t].task)
    /\ OnlyRacesReveal
=============================================================================
