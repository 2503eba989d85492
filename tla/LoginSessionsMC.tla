-------------------------- MODULE LoginSessionsMC ---------------------------
(* An instance of LoginSessions for TLC.                                     *)
EXTENDS LoginSessions, TLC

CONSTANTS l1, u1

\* One launch of one user, signed in second 1.
OneUser == l1 :> u1
Dates == l1 :> 1

CallSymmetry == Permutations(Calls)
=============================================================================
