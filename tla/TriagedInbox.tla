---------------------------- MODULE TriagedInbox ----------------------------
(***************************************************************************)
(* What the inbox of chat messages promises: a stored message waits until  *)
(* one dispatcher makes it a request or lays it aside; that decision is    *)
(* final, and only the one who took it is told so.                         *)
(***************************************************************************)
EXTENDS Naturals, Sequences

CONSTANTS Messages, Dispatchers

VARIABLES
    items,      \* the messages stored
    requests,   \* the messages made requests, in order
    dismissed,  \* the messages laid aside
    told        \* who was told what of which message, in order

inbox == <<items, requests, dismissed, told>>

Init == items = {} /\ requests = <<>> /\ dismissed = {} /\ told = <<>>

Store(m) == items' = items \cup {m} /\ UNCHANGED <<requests, dismissed, told>>

Requested(m) == \E i \in DOMAIN requests : requests[i] = m
Tell(d, m, x) == told' = Append(told, [dispatcher |-> d, message |-> m, result |-> x])

Convert(d, m) ==
    /\ m \in items \ dismissed /\ ~Requested(m)
    /\ requests' = Append(requests, m)
    /\ Tell(d, m, "created")
    /\ UNCHANGED <<items, dismissed>>

Dismiss(d, m) ==
    /\ m \in items \ dismissed /\ ~Requested(m)
    /\ dismissed' = dismissed \cup {m}
    /\ Tell(d, m, "dismissed")
    /\ UNCHANGED <<items, requests>>

\* Anybody else is shown what became of the message so far.
Show(d, m) ==
    /\ \E x \in {"card", "already", "text"} :
           /\ x = "card" <=> Requested(m)
           /\ x = "already" <=> m \in dismissed
           /\ Tell(d, m, x)
    /\ UNCHANGED <<items, requests, dismissed>>

Next ==
    \E m \in Messages :
        \/ Store(m)
        \/ \E d \in Dispatchers : Convert(d, m) \/ Dismiss(d, m) \/ Show(d, m)

Spec == Init /\ [][Next]_inbox
=============================================================================
