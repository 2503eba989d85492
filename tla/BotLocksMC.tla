----------------------------- MODULE BotLocksMC ------------------------------
EXTENDS BotLocks, TLC

CONSTANTS e1, e2, e3, e4, boss, worker, r1, r2

\* Two dispatchers give each other tasks; one takes a task, the other reports on it.
MCActorOf == e1 :> boss @@ e2 :> worker @@ e3 :> worker @@ e4 :> boss
MCRecipientOf == e1 :> worker @@ e2 :> boss @@ e3 :> worker @@ e4 :> boss
MCKindOf == e1 :> "assign" @@ e2 :> "assign" @@ e3 :> "report" @@ e4 :> "assign"
MCTaskOf == e1 :> r1 @@ e2 :> r2 @@ e3 :> r1 @@ e4 :> r1
=============================================================================
