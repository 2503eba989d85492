------------------------- MODULE AtMostOnceDelivery -------------------------
(***************************************************************************)
(* What the reply queue promises to the people who read the messages.     *)
(*                                                                         *)
(* A message is queued, and then either dropped unsent or attempted once.  *)
(* The recipient receives at most one copy, only after the attempt began,  *)
(* and a recorded result is the truth: "sent" means a copy arrived,        *)
(* "failed" means none did and none will, "unknown" commits to neither.    *)
(* An unknown result may still be replaced by the true one; nothing is     *)
(* ever queued a second time.                                              *)
(***************************************************************************)
EXTENDS Naturals

CONSTANT Messages

VARIABLES fate, received

Fates == {"absent", "queued", "trying", "sent", "failed", "unknown", "dropped"}

TypeOK ==
    /\ fate \in [Messages -> Fates]
    /\ received \in [Messages -> Nat]

Init ==
    /\ fate = [m \in Messages |-> "absent"]
    /\ received = [m \in Messages |-> 0]

\* The fate changes along these edges only.
Edges ==
    { <<"absent", "queued">>, <<"queued", "dropped">>, <<"queued", "trying">>,
      <<"trying", "unknown">> }

Advance(m) ==
    /\ <<fate[m], fate'[m]>> \in Edges
    /\ received'[m] = received[m]

\* The one copy arrives; a sender that was declared lost may still deliver it.
Arrive(m) ==
    /\ fate[m] \in {"trying", "unknown"}
    /\ received[m] = 0
    /\ received'[m] = 1
    /\ fate'[m] = fate[m]

\* A definite result is recorded, and it is true.
Settle(m) ==
    /\ fate[m] \in {"trying", "unknown"}
    /\ \/ fate'[m] = "sent" /\ received[m] = 1
       \/ fate'[m] = "failed" /\ received[m] = 0
       \/ fate'[m] = "unknown"
    /\ received'[m] = received[m]

Rest(m) ==
    /\ fate'[m] = fate[m]
    /\ received'[m] = received[m]

\* Messages are independent: in one step each moves on its own or rests.
Next ==
    \A m \in Messages : Advance(m) \/ Arrive(m) \/ Settle(m) \/ Rest(m)

Spec == Init /\ [][Next]_<<fate, received>>
=============================================================================
