----------------------------- MODULE LoginBudget -----------------------------
(***************************************************************************)
(* One key of the login budget, a source or an account: the script of      *)
(* src/app/auth/rate_limit.py, which Redis runs without interruption.      *)
(* Callers see whole seconds, Redis counts milliseconds: time goes in      *)
(* fractions of a second, and TTL rounds to the nearest second.            *)
(***************************************************************************)
EXTENDS Naturals, Sequences, FiniteSets

CONSTANTS
    Limit,            \* login_rate_limit
    Window,           \* login_rate_window_seconds
    TicksPerSecond,
    LastTick,         \* bound: the last tick
    MaxChecks         \* bound: checks since Redis last lost its keys

ASSUME LimitsAssumption == Limit \in Nat \ {0} /\ Window \in Nat \ {0}

ASSUME TicksAssumption ==
    /\ TicksPerSecond \in {2 * n : n \in 1..500}
    /\ LastTick \in Nat /\ MaxChecks \in Nat

VARIABLES
    tick,      \* the time
    count,     \* the value of the key
    ends,      \* the tick the key expires at
    opened,    \* the tick the key was made at
    passes,    \* the ticks of the checks that passed, in order
    refusals   \* the checks that did not, with the wait they were told

budget == <<tick, count, ends, opened, passes, refusals>>

BudgetTypeOK ==
    /\ tick \in 0..LastTick
    /\ count \in Nat /\ ends \in Nat /\ opened \in Nat
    /\ passes \in Seq(Nat)
    /\ refusals \in Seq([at : Nat, wait : Nat, window : Nat])

BudgetInit ==
    /\ tick = 0 /\ count = 0 /\ ends = 0 /\ opened = 0
    /\ passes = <<>> /\ refusals = <<>>

TimePasses ==
    /\ tick < LastTick
    /\ tick' = tick + 1
    /\ UNCHANGED <<count, ends, opened, passes, refusals>>

Live == tick < ends

Length == Window * TicksPerSecond

\* Mutant: every check prolongs the window.
EndProlonged == tick + Length

\* INCR makes the key, and only a key without expiry gets one.
End == IF Live THEN ends ELSE tick + Length

\* Mutant: the attempt that makes the key is not counted.
CountedFromZero == IF Live THEN count + 1 ELSE 0

\* What INCR returns.
Counted == IF Live THEN count + 1 ELSE 1

\* TTL, then math.max(ttl, 1).
RetryAfter(e) ==
    LET ttl == (e - tick + TicksPerSecond \div 2) \div TicksPerSecond IN
    IF ttl = 0 THEN 1 ELSE ttl

Check ==
    /\ Len(passes) + Len(refusals) < MaxChecks
    /\ count' = Counted
    /\ ends' = End
    /\ opened' = IF Live THEN opened ELSE tick
    /\ IF Counted > Limit
       THEN /\ refusals' = Append(refusals, [at |-> tick, wait |-> RetryAfter(End),
                                             window |-> opened'])
            /\ UNCHANGED passes
       ELSE /\ passes' = Append(passes, tick)
            /\ UNCHANGED refusals
    /\ UNCHANGED tick

\* Redis restarts without its keys: counting starts anew.
Forget ==
    /\ count' = 0 /\ ends' = 0
    /\ passes' = <<>> /\ refusals' = <<>>
    /\ UNCHANGED <<tick, opened>>

BudgetNext == TimePasses \/ Check \/ Forget

BudgetSpec == BudgetInit /\ [][BudgetNext]_budget

-----------------------------------------------------------------------------
(* Properties.                                                             *)

\* While Redis keeps its keys, fewer than 2 * Limit + 1 attempts pass in any
\* stretch of Window seconds, wherever it lies: at worst a window's end and the
\* beginning of the next.
RateBounded ==
    \A i \in DOMAIN passes :
        i + 2 * Limit \in DOMAIN passes => passes[i + 2 * Limit] - passes[i] >= Length

\* A block ends: whoever keeps trying is not refused beyond the window that the
\* first attempt opened, that window let Limit attempts pass, and who waits as told
\* and half a second more meets another one. The half second is TTL's rounding.
RefusalsEnd ==
    \A i \in DOMAIN refusals :
        LET r == refusals[i] IN
        /\ r.at < r.window + Length
        /\ Limit <= Cardinality({j \in DOMAIN passes : r.window <= passes[j] /\ passes[j] <= r.at})
        /\ r.at + r.wait * TicksPerSecond + TicksPerSecond \div 2 >= r.window + Length

\* Why they hold: the checks that passed in the last window are the last of all,
\* the others are not later than its beginning, and those that Limit or more others
\* separate from it are a whole window earlier.
InLast == IF count < Limit THEN count ELSE Limit

WindowHeld ==
    /\ opened <= tick
    /\ IF count = 0 THEN ends = 0 /\ passes = <<>> /\ refusals = <<>> ELSE ends = opened + Length
    /\ InLast <= Len(passes)
    /\ \A i \in DOMAIN passes :
           /\ passes[i] <= tick
           /\ i > Len(passes) - InLast => passes[i] >= opened
           /\ i <= Len(passes) - InLast => passes[i] <= opened
           /\ i + Limit <= Len(passes) - InLast => passes[i] + Length <= opened
=============================================================================
