----------------------------- MODULE ChatTriageMC -----------------------------
(* An instance of ChatTriage for TLC: the messages of one chat, and access  *)
(* to one of two places or to none.                                         *)
EXTENDS ChatTriage

CONSTANTS c1, p1

OnePlace == {{}, {p1}}
OneChat == [m \in Messages |-> c1]
=============================================================================
