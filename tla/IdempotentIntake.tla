-------------------------- MODULE IdempotentIntake --------------------------
(***************************************************************************)
(* What the intake of requests promises: one slot, an organization, an     *)
(* author and a key, holds at most one request for ever; "created" is said *)
(* of it at most once, and every other answer is about that very request.  *)
(***************************************************************************)
EXTENDS Sequences

CONSTANTS Slots, Payloads, Numbers

VARIABLES
    requests,   \* the requests: slot, payload and number
    answers     \* what the callers were told, in order

intake == <<requests, answers>>

Init == requests = {} /\ answers = <<>>

Create(s, p, n) ==
    /\ \A r \in requests : r.slot # s /\ r.number # n
    /\ requests' = requests \cup {[slot |-> s, payload |-> p, number |-> n]}
    /\ UNCHANGED answers

\* "created" and "found" name the request of the slot with the caller's own
\* payload; "conflict" says that the slot holds another payload.
Truthful(a) ==
    \E r \in requests :
        /\ r.slot = a.slot
        /\ IF a.result = "conflict" THEN r.payload # a.payload
           ELSE r.payload = a.payload /\ r.number = a.number

Announced(n) == \E i \in DOMAIN answers : answers[i].result = "created" /\ answers[i].number = n

Answer(a) ==
    /\ Truthful(a)
    /\ a.result = "created" => ~Announced(a.number)
    /\ answers' = Append(answers, a)
    /\ UNCHANGED requests

Answers == [slot : Slots, payload : Payloads, result : {"created", "found", "conflict"},
            number : Numbers]

Next ==
    \/ \E s \in Slots, p \in Payloads, n \in Numbers : Create(s, p, n)
    \/ \E a \in Answers : Answer(a)

Spec == Init /\ [][Next]_intake
=============================================================================
