-------------------------- MODULE DeliveryWorkerMC --------------------------
(* Small instances of DeliveryWorker for TLC.  Workers are interchangeable, *)
(* so the safety runs declare them symmetric; the temporal runs do not.     *)
EXTENDS DeliveryWorker, TLC

Symmetry == Permutations(Workers)
=============================================================================
