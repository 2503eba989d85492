-------------------------- MODULE RequestIntakeMC ---------------------------
(* An instance of RequestIntake for TLC.                                    *)
EXTENDS RequestIntake, TLC

CONSTANTS p1, p2, p3, o1, o2

\* Two payloads of one organization and one of another.
MCOrganizationOf == p1 :> o1 @@ p2 :> o1 @@ p3 :> o2
=============================================================================
