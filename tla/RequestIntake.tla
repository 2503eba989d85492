--------------------------- MODULE RequestIntake ----------------------------
(***************************************************************************)
(* Manual creation of requests (create_manual_request and its REST handler *)
(* in src/app/crm/requests.py), with the idempotency key that lets a       *)
(* caller repeat a call whose answer was lost.  Calls are concurrent       *)
(* PostgreSQL transactions at READ COMMITTED; the bot's callers commit     *)
(* later, together with the rest of their webhook.                         *)
(*                                                                         *)
(* A payload stands for the validated body; equal hashes are equal         *)
(* payloads.  Every organization has an initial status since its creation  *)
(* (src/app/crm/catalog.py:72), so the missing one does not occur.         *)
(***************************************************************************)
EXTENDS Naturals, Sequences, FiniteSets

CONSTANTS
    Authors,
    Keys,             \* Idempotency-Key values, or those made from bot events
    Payloads,
    OrganizationOf,   \* the organization a payload names
    Sessions,         \* database sessions running one call each
    MaxCalls          \* bound: calls begun

ASSUME NamesAssumption == Authors # {} /\ Keys # {} /\ Payloads # {}

ASSUME BoundAssumption == MaxCalls \in Nat

Organizations == {OrganizationOf[p] : p \in Payloads}
Slots == Organizations \X Authors \X Keys

VARIABLES
    requests,   \* requests rows
    trail,      \* the request behind each "created" history and audit row
    drawn,      \* the last value the identity column "number" has given
    may,        \* the payloads each author's membership lets them create
    session,
    answers,    \* the answers callers received, in order
    begun       \* calls begun so far

vars == <<requests, trail, drawn, may, session, answers, begun>>

Numbers == 0..MaxCalls

Rows == [slot : Slots, payload : Payloads, number : Numbers]

Results == {"none", "created", "found", "conflict"}

Phases == {"idle", "begun", "authorized", "missing", "drawn", "inserted", "lost", "answering"}

\* number is the value drawn for the insertion, then the one of the answer.
SessionStates ==
    [pc : Phases, author : Authors, key : Keys, payload : Payloads, number : Numbers,
     result : Results]

TypeOK ==
    /\ requests \in SUBSET Rows
    /\ trail \in Seq(Numbers)
    /\ drawn \in Numbers
    /\ may \in [Authors -> SUBSET Payloads]
    /\ session \in [Sessions -> SessionStates]
    /\ answers \in Seq([slot : Slots, payload : Payloads, result : Results, number : Numbers])
    /\ begun \in 0..MaxCalls

Fresh ==
    [pc |-> "idle", author |-> CHOOSE a \in Authors : TRUE, key |-> CHOOSE k \in Keys : TRUE,
     payload |-> CHOOSE p \in Payloads : TRUE, number |-> 0, result |-> "none"]

Init ==
    /\ requests = {}
    /\ trail = <<>>
    /\ drawn = 0
    /\ may \in [Authors -> SUBSET Payloads]
    /\ session = [t \in Sessions |-> Fresh]
    /\ answers = <<>>
    /\ begun = 0

Slot(t) == <<OrganizationOf[session[t].payload], session[t].author, session[t].key>>

AnswerOf(t) == [slot |-> Slot(t), payload |-> session[t].payload,
                result |-> session[t].result, number |-> session[t].number]

-----------------------------------------------------------------------------
\* The owner changes a membership, a role or the author's account.
ChangeAccess(a) ==
    /\ \E S \in SUBSET Payloads \ {may[a]} : may' = [may EXCEPT ![a] = S]
    /\ UNCHANGED <<requests, trail, drawn, session, answers, begun>>

\* A call, or the repetition of one: nothing tells them apart but the key.
Begin(t) ==
    /\ session[t].pc = "idle"
    /\ begun < MaxCalls
    /\ \E a \in Authors, k \in Keys, p \in Payloads :
           session' = [session EXCEPT ![t] =
                          [Fresh EXCEPT !.pc = "begun", !.author = a, !.key = k, !.payload = p]]
    /\ begun' = begun + 1
    /\ UNCHANGED <<requests, trail, drawn, may, answers>>

\* Session t goes on to phase pc, knowing number n and result x.
Goes(t, pc, n, x) ==
    session' = [session EXCEPT ![t] = [@ EXCEPT !.pc = pc, !.number = n, !.result = x]]

\* Mutant: a known key is answered before access is looked at.
RetryFirst(t) ==
    session[t].payload \in may[session[t].author] \/ \E r \in requests : r.slot = Slot(t)

\* load_access, the scopes of house and category, and the entrance.
Authorized(t) == session[t].payload \in may[session[t].author]

Authorize(t) ==
    /\ session[t].pc = "begun"
    /\ Authorized(t)
    /\ Goes(t, "authorized", 0, "none")
    /\ UNCHANGED <<requests, trail, drawn, may, answers, begun>>

Refuse(t) ==
    /\ session[t].pc = "begun"
    /\ ~Authorized(t)
    /\ session' = [session EXCEPT ![t] = Fresh]
    /\ UNCHANGED <<requests, trail, drawn, may, answers, begun>>

\* The row found is the caller's, or holds another payload under the same key.
Find(t, r) ==
    IF r.payload = session[t].payload THEN Goes(t, "answering", r.number, "found")
    ELSE Goes(t, "answering", 0, "conflict")

\* The first SELECT by key.
Search(t) ==
    /\ session[t].pc = "authorized"
    /\ \/ \E r \in requests : r.slot = Slot(t) /\ Find(t, r)
       \/ (\A r \in requests : r.slot # Slot(t)) /\ Goes(t, "missing", 0, "none")
    /\ UNCHANGED <<requests, trail, drawn, may, answers, begun>>

Draw(t) ==
    /\ session[t].pc = "missing"
    /\ drawn < MaxCalls
    /\ drawn' = drawn + 1
    /\ Goes(t, "drawn", drawn + 1, "none")
    /\ UNCHANGED <<requests, trail, may, answers, begun>>

\* Mutant: the unique key does not see a row before its commit.
NotPending(t) == FALSE

\* Another open transaction has inserted a row in the slot.
PendingByOther(t) == \E u \in Sessions \ {t} : session[u].pc = "inserted" /\ Slot(u) = Slot(t)

\* INSERT ... ON CONFLICT DO NOTHING waits for a pending row of the same slot,
\* then inserts, or finds the slot taken.
Insert(t) ==
    /\ session[t].pc = "drawn"
    /\ ~PendingByOther(t)
    /\ Goes(t, IF \E r \in requests : r.slot = Slot(t) THEN "lost" ELSE "inserted",
            session[t].number, "none")
    /\ UNCHANGED <<requests, trail, drawn, may, answers, begun>>

\* Mutant: the loser records the creation too.
RereadAndRecord(t) ==
    /\ session[t].pc = "lost"
    /\ \E r \in requests :
           r.slot = Slot(t) /\ Find(t, r) /\ trail' = Append(trail, r.number)
    /\ UNCHANGED <<requests, drawn, may, answers, begun>>

Reread(t) ==
    /\ session[t].pc = "lost"
    /\ \/ \E r \in requests : r.slot = Slot(t) /\ Find(t, r)
       \/ (\A r \in requests : r.slot # Slot(t)) /\ Goes(t, "answering", 0, "conflict")
    /\ UNCHANGED <<requests, trail, drawn, may, answers, begun>>

\* The request, its history row and its audit row are committed together, by
\* create_manual_request itself or by the webhook around it.
Commit(t) ==
    /\ session[t].pc = "inserted"
    /\ requests' = requests \cup {[slot |-> Slot(t), payload |-> session[t].payload,
                                   number |-> session[t].number]}
    /\ trail' = Append(trail, session[t].number)
    /\ Goes(t, "answering", session[t].number, "created")
    /\ UNCHANGED <<drawn, may, answers, begun>>

\* 201 or 200 with the request, or 409.
Respond(t) ==
    /\ session[t].pc = "answering"
    /\ answers' = Append(answers, AnswerOf(t))
    /\ session' = [session EXCEPT ![t] = Fresh]
    /\ UNCHANGED <<requests, trail, drawn, may, begun>>

\* A database error, a failure of the webhook around it or a dead process ends
\* the transaction, or the answer to a committed call is lost.
Abort(t) ==
    /\ session[t].pc # "idle"
    /\ session' = [session EXCEPT ![t] = Fresh]
    /\ UNCHANGED <<requests, trail, drawn, may, answers, begun>>

Step(t) ==
    Authorize(t) \/ Refuse(t) \/ Search(t) \/ Draw(t) \/ Insert(t) \/ Reread(t)
      \/ Commit(t) \/ Respond(t)

Next ==
    \/ \E a \in Authors : ChangeAccess(a)
    \/ \E t \in Sessions : Begin(t) \/ Step(t) \/ Abort(t)

Spec == Init /\ [][Next]_vars

\* A running call goes on; nothing obliges anybody to begin one.
FairSpec == Spec /\ \A t \in Sessions : WF_vars(Step(t))

-----------------------------------------------------------------------------
(* Properties.                                                             *)

\* An author's key stands for one request of an organization, however many
\* calls with it raced, failed or lost their answer, and numbers are never
\* shared (requests.py:122-167, docs/crm-intake.md:143-147).
OneRequestPerKey ==
    \A r, s \in requests : r.slot = s.slot \/ r.number = s.number => r = s

\* Each request has exactly one row of creation in its history and in the audit
\* log, and no such row names a request that was rolled back: the loser of a
\* race adds none (requests.py:161-184).
RecordedOnce ==
    \A n \in 0..drawn :
        Cardinality({i \in DOMAIN trail : trail[i] = n})
            = Cardinality({r \in requests : r.number = n})

Intake == INSTANCE IdempotentIntake

\* The trail names every committed request once and nothing else.
TrailExact ==
    /\ {trail[i] : i \in DOMAIN trail} = {r.number : r \in requests}
    /\ \A i, j \in DOMAIN trail : trail[i] = trail[j] => i = j

\* What was answered stays true.
AnswersTrue == \A i \in DOMAIN answers : Intake!Truthful(answers[i])

\* The number drawn for an insertion is nobody else's.
NumberOwned(t) ==
    session[t].pc \in {"drawn", "inserted", "lost"} =>
        /\ session[t].number \in 1..drawn
        /\ \A r \in requests : r.number # session[t].number
        /\ \A u \in Sessions \ {t} : session[u].number # session[t].number

\* A pending row has its slot to itself; the loser's slot is taken.
SlotOwned(t) ==
    /\ session[t].pc = "inserted" =>
           /\ \A r \in requests : r.slot # Slot(t)
           /\ \A u \in Sessions \ {t} : session[u].pc = "inserted" => Slot(u) # Slot(t)
    /\ session[t].pc = "lost" => \E r \in requests : r.slot = Slot(t)

\* What a call is about to answer is true, and a creation not announced yet.
AnswerReady(t) ==
    session[t].pc = "answering" =>
        /\ session[t].result # "none" /\ Intake!Truthful(AnswerOf(t))
        /\ session[t].result = "created" =>
               /\ ~Intake!Announced(session[t].number)
               /\ \A u \in Sessions \ {t} :
                      session[u].pc = "answering" /\ session[u].result = "created" =>
                          session[u].number # session[t].number

\* Why it holds: numbers and pending slots have one owner, and answers given or
\* about to be given are true (requests.py:142-203).
CallsConsistent ==
    /\ \A r \in requests : r.number \in 1..drawn
    /\ TrailExact /\ AnswersTrue
    /\ \A t \in Sessions :
           /\ session[t].number \in 0..drawn
           /\ NumberOwned(t) /\ SlotOwned(t) /\ AnswerReady(t)

\* What an author got: requests, and answers that name or deny one.
Gained(a) ==
    Cardinality({r \in requests : r.slot[2] = a})
      + Cardinality({i \in DOMAIN answers : answers[i].slot[2] = a})

\* An author whose right to create ended gets neither a request nor any news of
\* an earlier one, even by repeating a call whose key is known: a retry is
\* authorized like a first call (requests.py:94-109).
RevokedAuthorsGetNothing ==
    \A a \in Authors : \A n \in 0..(2 * MaxCalls) :
        []( (/\ Gained(a) = n
             /\ \A t \in Sessions :
                    session[t].author = a => session[t].pc \in {"idle", "begun"}
             /\ [](may[a] = {}))
            => [](Gained(a) = n))

\* Seen through the committed rows and the answers received, the intake is
\* IdempotentIntake: one request in a slot, announced at most once, and every
\* answer true of it.
KeepsOneRequest == Intake!Spec
=============================================================================
