------------------------ MODULE DeliveryWorkerProofs ------------------------
(***************************************************************************)
(* The promise of the reply queue, for any number of rows, users, workers, *)
(* crashes and lost leases.                                                *)
(***************************************************************************)
EXTENDS DeliveryWorker, FiniteSetTheorems, TLAPS

USE DEF rights, wire, faults

\* Ages stay below the cap.
LEMMA OlderType == ASSUME NEW a \in Ages PROVE Older(a) \in Ages
    BY CountsAssumption DEF Ages, Older, AgeCap

\* A timestamp that was just taken has an age.
LEMMA ZeroAge == 0 \in Ages
    BY CountsAssumption DEF Ages, AgeCap

\* Counting one more keeps a function of counters.
LEMMA IncrementType ==
    ASSUME NEW S, NEW f \in [S -> Nat], NEW x
    PROVE  [f EXCEPT ![x] = f[x] + 1] \in [S -> Nat]
<1>1. CASE x \in S
    BY <1>1
<1>2. CASE x \notin S
    <2>1. [f EXCEPT ![x] = f[x] + 1] = f
        BY <1>2
    <2> QED
        BY <2>1
<1> QED
    BY <1>1, <1>2

\* The time of a pass is an age.
LEMMA ElapsedAge == ASSUME NEW a \in 0..LongestPass PROVE a \in Ages
    BY CountsAssumption DEF Ages, AgeCap

\* The local states the actions build.
LEMMA LocalType ==
    ASSUME NEW p \in Phases, NEW d \in Deliveries \cup {NoRow}, NEW r \in Replies
    PROVE  Local(p, d, r) \in WorkerStates
    BY CountsAssumption DEF Local, WorkerStates

\* So are the states of a worker that is down or idle.
LEMMA FreshType == Down \in WorkerStates /\ Idle \in WorkerStates
    BY LocalType DEF Down, Idle, Phases, Replies

\* The next phase of a pass is a local state.
LEMMA PhaseType ==
    ASSUME NEW s \in WorkerStates, NEW p \in Phases
    PROVE  [s EXCEPT !.pc = p] \in WorkerStates
    BY DEF WorkerStates

\* The steps of a pass that are not visible to others: nothing is committed.
Reading(w) ==
    Wake(w) \/ Sweep(w) \/ Select(w) \/ FindNothing(w) \/ CheckUser(w) \/ CheckStamp(w)

\* Select knows of its row what it read.
LEMMA SelectStep ==
    ASSUME TypeOK, NEW w \in Workers, Select(w)
    PROVE  /\ worker' \in [Workers -> WorkerStates]
           /\ \A v \in Workers \ {w} : worker'[v] = worker[v]
           /\ worker'[w].elapsed = worker[w].elapsed
           /\ worker[w].pc = "swept" /\ worker'[w].pc = "selected"
           /\ worker'[w].holds \in Claimable(w)
           /\ worker'[w].stale = worker[w].stale
           /\ worker'[w].expired = Expired(w, worker'[w].holds)
<1>1. worker[w] \in WorkerStates /\ worker \in [Workers -> WorkerStates]
    BY DEF TypeOK
<1>2. PICK d \in Claimable(w) :
          worker' = [worker EXCEPT ![w].pc = "selected", ![w].holds = d,
                                   ![w].expired = Expired(w, d)]
    BY DEF Select
<1>3. d \in Deliveries /\ Expired(w, d) \in BOOLEAN
    BY DEF Claimable, Expired
<1> HIDE DEF Claimable, Expired
<1>4. worker' \in [Workers -> WorkerStates]
    BY <1>1, <1>2, <1>3 DEF WorkerStates, Phases, Sweeping, Holding
<1>5. /\ worker'[w].pc = "selected" /\ worker'[w].holds = d
      /\ worker'[w].expired = Expired(w, d)
      /\ worker'[w].stale = worker[w].stale /\ worker'[w].elapsed = worker[w].elapsed
      /\ \A v \in Workers \ {w} : worker'[v] = worker[v]
    BY <1>1, <1>2, <1>3 DEF WorkerStates
<1> QED
    BY <1>4, <1>5 DEF Select

\* What they do to the worker, field by field.
LEMMA ReadingSteps ==
    ASSUME TypeOK, NEW w \in Workers, Reading(w)
    PROVE  /\ UNCHANGED <<row, recipient, stamp, age, rights, lease, wire, faults>>
           /\ worker' \in [Workers -> WorkerStates]
           /\ \A v \in Workers \ {w} : worker'[v] = worker[v]
           /\ worker'[w].elapsed = worker[w].elapsed
           /\ \/ /\ Wake(w) /\ worker[w].pc = "idle" /\ worker'[w].pc = "woken"
                 /\ worker'[w].holds = worker[w].holds /\ worker'[w].expired = worker[w].expired
              \/ /\ Sweep(w) /\ worker[w].pc = "woken" /\ worker'[w].pc = "swept"
                 /\ worker'[w].stale = StaleRows(w)
                 /\ worker'[w].holds = worker[w].holds /\ worker'[w].expired = worker[w].expired
              \/ /\ Select(w) /\ worker[w].pc = "swept" /\ worker'[w].pc = "selected"
                 /\ worker'[w].holds \in Claimable(w)
                 /\ worker'[w].stale = worker[w].stale
                 /\ worker'[w].expired = Expired(w, worker'[w].holds)
              \/ /\ FindNothing(w) /\ worker[w].pc = "swept" /\ worker'[w].pc = "empty"
                 /\ worker'[w].holds = worker[w].holds /\ worker'[w].stale = worker[w].stale
                 /\ worker'[w].expired = worker[w].expired
              \/ /\ CheckUser(w) /\ worker[w].pc = "selected"
                 /\ worker'[w].pc \in {"known", "refused"}
                 /\ worker'[w].holds = worker[w].holds /\ worker'[w].stale = worker[w].stale
                 /\ worker'[w].expired = worker[w].expired
                 /\ worker'[w].pc = "known" => active[recipient[worker[w].holds]]
              \/ /\ CheckStamp(w) /\ worker[w].pc = "known"
                 /\ worker'[w].pc \in {"cleared", "refused"}
                 /\ worker'[w].holds = worker[w].holds /\ worker'[w].stale = worker[w].stale
                 /\ worker'[w].expired = worker[w].expired
                 /\ worker'[w].pc = "cleared" =>
                        StampStands(worker[w].holds) /\ ~worker[w].expired
<1>1. worker[w] \in WorkerStates /\ worker \in [Workers -> WorkerStates]
    BY DEF TypeOK
<1>2. CASE Wake(w)
    BY <1>1, <1>2 DEF Wake, WorkerStates, Phases
<1>3. CASE Sweep(w)
    <2>1. StaleRows(w) \in SUBSET Deliveries
        BY DEF StaleRows
    <2> HIDE DEF StaleRows
    <2> QED
        BY <1>1, <1>3, <2>1 DEF Sweep, WorkerStates, Phases, Sweeping
<1>4. CASE Select(w)
    BY <1>4, SelectStep DEF Select
<1>5. CASE FindNothing(w)
    BY <1>1, <1>5 DEF FindNothing, WorkerStates, Phases, Sweeping
<1>6. CASE CheckUser(w)
    <2>1. PICK p \in {"known", "refused"} :
              /\ worker' = [worker EXCEPT ![w].pc = p]
              /\ p = "known" => active[recipient[worker[w].holds]]
        BY <1>6 DEF CheckUser
    <2>2. worker' = [worker EXCEPT ![w] = [worker[w] EXCEPT !.pc = p]]
        BY <2>1
    <2>3. p \in Phases
        BY <2>1 DEF Phases, Sweeping, Holding
    <2>4. worker' \in [Workers -> WorkerStates]
        BY <1>1, <2>2, <2>3, PhaseType
    <2>5. /\ worker'[w].pc = p
          /\ worker'[w].holds = worker[w].holds /\ worker'[w].stale = worker[w].stale
          /\ worker'[w].expired = worker[w].expired /\ worker'[w].elapsed = worker[w].elapsed
          /\ \A v \in Workers \ {w} : worker'[v] = worker[v]
        BY <1>1, <2>2 DEF WorkerStates
    <2> QED
        BY <1>6, <2>1, <2>4, <2>5 DEF CheckUser
<1>7. CASE CheckStamp(w)
    <2>1. PICK p \in {"cleared", "refused"} :
              /\ worker' = [worker EXCEPT ![w].pc = p]
              /\ p = "cleared" => StampStands(worker[w].holds) /\ ~worker[w].expired
        BY <1>7 DEF CheckStamp
    <2>2. worker' = [worker EXCEPT ![w] = [worker[w] EXCEPT !.pc = p]]
        BY <2>1
    <2>3. p \in Phases
        BY <2>1 DEF Phases, Sweeping, Holding
    <2>4. worker' \in [Workers -> WorkerStates]
        BY <1>1, <2>2, <2>3, PhaseType
    <2>5. /\ worker'[w].pc = p
          /\ worker'[w].holds = worker[w].holds /\ worker'[w].stale = worker[w].stale
          /\ worker'[w].expired = worker[w].expired /\ worker'[w].elapsed = worker[w].elapsed
          /\ \A v \in Workers \ {w} : worker'[v] = worker[v]
        BY <1>1, <2>2 DEF WorkerStates
    <2> QED
        BY <1>7, <2>1, <2>4, <2>5 DEF CheckStamp
<1> QED
    BY <1>2, <1>3, <1>4, <1>5, <1>6, <1>7 DEF Reading

\* What the clock does to a worker.
LEMMA TickSteps ==
    ASSUME TypeOK, Tick
    PROVE  /\ worker' \in [Workers -> WorkerStates]
           /\ \A w \in Workers :
                  /\ worker'[w].pc = worker[w].pc
                  /\ worker'[w].holds = worker[w].holds
                  /\ worker'[w].stale = worker[w].stale
                  /\ worker'[w].expired = worker[w].expired
                  /\ worker'[w].reply = worker[w].reply
                  /\ worker'[w].elapsed \in {worker[w].elapsed, worker[w].elapsed + 1}
<1>1. ASSUME NEW w \in Workers
      PROVE  /\ worker[w] \in WorkerStates
             /\ InPass(w) => worker[w].elapsed + 1 \in 0..LongestPass
    <2>1. worker[w] \in WorkerStates
        BY DEF TypeOK
    <2>2. worker[w].elapsed \in 0..LongestPass
        BY <2>1 DEF WorkerStates
    <2> QED
        BY <2>1, <2>2, CountsAssumption DEF Tick
<1>2. ASSUME NEW w \in Workers
      PROVE  worker'[w] = IF InPass(w)
                          THEN [worker[w] EXCEPT !.elapsed = worker[w].elapsed + 1] ELSE worker[w]
    BY DEF Tick
<1> HIDE DEF InPass
<1>3. \A w \in Workers : worker'[w] \in WorkerStates
    BY <1>1, <1>2 DEF WorkerStates
<1>4. worker' \in [Workers -> WorkerStates]
    BY <1>3 DEF Tick
<1> QED
    BY <1>1, <1>2, <1>4 DEF WorkerStates

\* Every action keeps every variable in its type.
LEMMA TypeStep == TypeOK /\ [Next]_vars => TypeOK'
<1> SUFFICES ASSUME TypeOK, [Next]_vars PROVE TypeOK'
    OBVIOUS
<1> USE OlderType, ZeroAge, FreshType DEF TypeOK, RowStates, Settled
<1>1. ASSUME NEW d \in Deliveries, Insert(d) PROVE TypeOK'
    BY <1>1 DEF Insert
<1>2. ASSUME NEW d \in Deliveries, Commit(d) PROVE TypeOK'
    BY <1>2 DEF Commit
<1>3. ASSUME NEW d \in Deliveries, Rollback(d) PROVE TypeOK'
    BY <1>3 DEF Rollback
<1>4. ASSUME NEW u \in Users, ChangeAccess(u) PROVE TypeOK'
    BY <1>4 DEF ChangeAccess
<1>17. ASSUME NEW u \in Users, ChangeUser(u) PROVE TypeOK'
    BY <1>17 DEF ChangeUser
<1>5. CASE Tick
    <2>1. age' \in [Deliveries -> Ages]
        BY <1>5 DEF Tick
    <2>3. worker' \in [Workers -> WorkerStates]
        BY <1>5, TickSteps
    <2> QED
        BY <1>5, <2>1, <2>3 DEF Tick
<1>6. ASSUME NEW w \in Workers, Start(w) PROVE TypeOK'
    BY <1>6 DEF Start
<1>7. ASSUME NEW w \in Workers, LoseLease(w) PROVE TypeOK'
    BY <1>7, CountsAssumption DEF LoseLease
<1>8. ASSUME NEW w \in Workers, Crash(w) PROVE TypeOK'
    BY <1>8, CountsAssumption DEF Crash
<1>9. ASSUME NEW w \in Workers, Reading(w) PROVE TypeOK'
    BY <1>9, ReadingSteps
<1>10. ASSUME NEW w \in Workers, CommitSweep(w) PROVE TypeOK'
    BY <1>10 DEF CommitSweep, Swept, SweptState
<1>11. ASSUME NEW w \in Workers, Claim(w) PROVE TypeOK'
    <2>1. worker[w] \in WorkerStates
        OBVIOUS
    <2>2. worker[w].holds \in Deliveries \cup {NoRow} /\ worker[w].elapsed \in Ages
        BY <2>1, ElapsedAge DEF WorkerStates
    <2>3. Local("claimed", worker[w].holds, "unclear") \in WorkerStates
        BY <2>2, LocalType DEF Phases, Replies
    <2> QED
        BY <1>11, <2>2, <2>3 DEF Claim, Swept, SweptState
<1>12. ASSUME NEW w \in Workers, Discard(w) PROVE TypeOK'
    BY <1>12 DEF Discard, Swept, SweptState
<1>13. ASSUME NEW w \in Workers, Post(w) PROVE TypeOK'
    <2>1. worker[w].holds \in Deliveries \cup {NoRow}
        BY DEF WorkerStates
    <2>2. PICK r \in Replies :
              worker' = [worker EXCEPT ![w] = Local("answered", worker[w].holds, r)]
        BY <1>13 DEF Post, Answers, Replies
    <2>3. Local("answered", worker[w].holds, r) \in WorkerStates
        BY <2>1, LocalType DEF Phases
    <2>4. attempts' \in [Deliveries -> Nat]
        <3>1. attempts' = [attempts EXCEPT ![worker[w].holds] = attempts[worker[w].holds] + 1]
            BY <1>13 DEF Post
        <3> QED
            BY <3>1, IncrementType
    <2>6. copies' \in [Deliveries -> Nat]
        <3>1. \/ copies' = [copies EXCEPT ![worker[w].holds] = copies[worker[w].holds] + 1]
              \/ copies' = copies
            BY <1>13 DEF Post
        <3> QED
            BY <3>1, IncrementType
    <2>5. worker' \in [Workers -> WorkerStates]
        BY <2>2, <2>3
    <2> QED
        BY <1>13, <2>4, <2>5, <2>6 DEF Post
<1>14. ASSUME NEW w \in Workers, RefuseLocally(w) PROVE TypeOK'
    <2>1. worker[w].holds \in Deliveries \cup {NoRow}
        BY DEF WorkerStates
    <2>2. "answered" \in Phases /\ "rejected" \in Replies
        BY DEF Phases, Replies
    <2>3. Local("answered", worker[w].holds, "rejected") \in WorkerStates
        BY <2>1, <2>2, LocalType
    <2> QED
        BY <1>14, <2>3 DEF RefuseLocally
<1>15. ASSUME NEW w \in Workers, Record(w) PROVE TypeOK'
    <2>1. worker[w].reply \in Replies
        BY DEF WorkerStates
    <2>2. Result(worker[w].reply) \in RowStates
        BY <2>1 DEF Result, Replies
    <2> QED
        BY <1>15, <2>2 DEF Record
<1>16. CASE UNCHANGED vars
    BY <1>16 DEF vars
<1> QED
    BY <1>1, <1>2, <1>3, <1>4, <1>5, <1>6, <1>7, <1>8, <1>9, <1>10, <1>11, <1>12,
       <1>13, <1>14, <1>15, <1>16, <1>17 DEF Next, WorkerStep, Reading

\* Every variable stays in its type: rows have a state of the schema, workers a
\* known phase, the counters are natural numbers.
THEOREM TypeCorrect == Spec => []TypeOK
<1>1. Init => TypeOK
    BY CountsAssumption, FreshType, ZeroAge DEF Init, TypeOK, RowStates
<1> QED
    BY <1>1, TypeStep, PTL DEF Spec

-----------------------------------------------------------------------------
DeliveryInv == TypeOK /\ AtMostOnce /\ ResultIsTruthful /\ OneWorkerPerRow

\* At the start no worker runs and nothing was sent.
LEMMA DeliveryInvInit == Init => DeliveryInv
<1> SUFFICES ASSUME Init PROVE DeliveryInv
    OBVIOUS
<1>1. TypeOK
    BY CountsAssumption, FreshType, ZeroAge DEF Init, TypeOK, RowStates
<1>2. \A w \in Workers : worker[w].pc = "down" /\ worker[w].holds = NoRow
    BY DEF Init, Down, Local
<1> QED
    BY <1>1, <1>2 DEF Init, DeliveryInv, AtMostOnce, ResultIsTruthful, OneWorkerPerRow,
                      HoldsConsistent, HoldsExclusive, Busy, Holding, Sweeping

\* Every action keeps the invariant.
LEMMA DeliveryInvStep == DeliveryInv /\ [Next]_vars => DeliveryInv'
<1> SUFFICES ASSUME DeliveryInv, [Next]_vars PROVE DeliveryInv'
    OBVIOUS
<1>0. TypeOK /\ TypeOK'
    BY TypeStep DEF DeliveryInv
<1> USE <1>0 DEF DeliveryInv, AtMostOnce, ResultIsTruthful, OneWorkerPerRow, HoldsConsistent,
                 HoldsExclusive, Busy, TypeOK, Holding, Sweeping
<1>1. ASSUME NEW d \in Deliveries, Insert(d) PROVE DeliveryInv'
    BY <1>1 DEF Insert
<1>2. ASSUME NEW d \in Deliveries, Commit(d) PROVE DeliveryInv'
    BY <1>2 DEF Commit
<1>3. ASSUME NEW d \in Deliveries, Rollback(d) PROVE DeliveryInv'
    BY <1>3 DEF Rollback
<1>4. ASSUME NEW u \in Users, ChangeAccess(u) PROVE DeliveryInv'
    BY <1>4 DEF ChangeAccess
<1>17. ASSUME NEW u \in Users, ChangeUser(u) PROVE DeliveryInv'
    BY <1>17 DEF ChangeUser
<1>5. CASE Tick
    <2>1. row' = row /\ attempts' = attempts /\ copies' = copies
        BY <1>5 DEF Tick
    <2>2. AtMostOnce' /\ ResultIsTruthful'
        BY <2>1
    <2>3. \A w \in Workers :
              /\ worker'[w].pc = worker[w].pc /\ worker'[w].holds = worker[w].holds
              /\ worker'[w].stale = worker[w].stale /\ worker'[w].reply = worker[w].reply
        BY <1>5, TickSteps
    <2>4. HoldsConsistent'
        BY <2>1, <2>3
    <2>5. HoldsExclusive'
        BY <2>3
    <2> QED
        BY <2>2, <2>4, <2>5
<1>6. ASSUME NEW w \in Workers, Start(w) PROVE DeliveryInv'
    BY <1>6 DEF Start, Idle, Local
<1>7. ASSUME NEW w \in Workers, LoseLease(w) PROVE DeliveryInv'
    BY <1>7 DEF LoseLease
<1>8. ASSUME NEW w \in Workers, Crash(w) PROVE DeliveryInv'
    BY <1>8 DEF Crash, Down, Local
<1>9. ASSUME NEW w \in Workers, Reading(w) PROVE DeliveryInv'
    <2>1. UNCHANGED <<row, attempts, copies>>
        BY <1>9, ReadingSteps
    <2>2. AtMostOnce' /\ ResultIsTruthful'
        BY <2>1
    <2>3. HoldsConsistent'
        BY <1>9, <2>1, ReadingSteps DEF Claimable, StaleRows
    <2>4. HoldsExclusive'
        <3>1. \A v \in Workers \ {w} : worker'[v] = worker[v]
            BY <1>9, ReadingSteps
        <3>2. CASE Sweep(w)
            <4>1. /\ worker'[w].pc = "swept" /\ worker[w].pc = "woken"
                  /\ worker'[w].stale = StaleRows(w)
                BY <1>9, <3>2, ReadingSteps DEF Sweep, Select, FindNothing, CheckUser, CheckStamp, Wake
            <4>2. \A v \in Workers \ {w} :
                      worker[v].pc \in Sweeping => worker[v].stale \cap StaleRows(w) = {}
                BY <3>2 DEF Sweep, LockedByOther, StaleRows
            <4> HIDE DEF StaleRows
            <4> QED
                BY <3>1, <4>1, <4>2
        <3>3. CASE Select(w)
            <4>1. /\ worker'[w].pc = "selected" /\ worker[w].pc = "swept"
                  /\ worker'[w].stale = worker[w].stale /\ worker'[w].holds \in Claimable(w)
                BY <3>3, SelectStep
            <4>2. ASSUME NEW v \in Workers \ {w}, Busy(v)
                  PROVE  worker[v].holds # worker'[w].holds
                BY <4>1, <4>2 DEF Claimable, LockedByOther
            <4> QED
                BY <3>1, <4>1, <4>2
        <3>4. CASE ~Sweep(w) /\ ~Select(w)
            <4>1. /\ worker'[w].holds = worker[w].holds
                  /\ Busy(w)' => Busy(w)
                  /\ worker'[w].pc \in Sweeping =>
                         worker[w].pc \in Sweeping /\ worker'[w].stale = worker[w].stale
                BY <1>9, <3>4, ReadingSteps
            <4> QED
                BY <3>1, <4>1
        <3> QED
            BY <3>2, <3>3, <3>4
    <2> QED
        BY <2>2, <2>3, <2>4
<1>10. ASSUME NEW w \in Workers, CommitSweep(w) PROVE DeliveryInv'
    <2> DEFINE S == worker[w].stale
    <2>1. ASSUME NEW e \in Deliveries
          PROVE  row'[e] = IF e \in S THEN "uncertain" ELSE row[e]
        BY <1>10 DEF CommitSweep, Swept, SweptState
    <2>2. worker[w].pc = "empty" /\ \A e \in S : row[e] = "sending"
        BY <1>10 DEF CommitSweep
    <2>3. /\ worker'[w].pc = "idle" /\ worker'[w].holds = NoRow
          /\ attempts' = attempts /\ copies' = copies
          /\ \A v \in Workers \ {w} : worker'[v] = worker[v]
        BY <1>10 DEF CommitSweep, Idle, Local
    <2>4. \A v \in Workers \ {w} : worker[v].pc \in Sweeping => worker[v].stale \cap S = {}
        BY <2>2
    <2>5. \A v \in Workers : worker[v].stale \subseteq Deliveries
        BY DEF WorkerStates
    <2> HIDE DEF S
    <2>6. AtMostOnce' /\ ResultIsTruthful'
        BY <2>1, <2>2, <2>3
    <2>7. HoldsConsistent'
        BY <2>1, <2>2, <2>3, <2>4, <2>5
    <2> QED
        BY <2>3, <2>6, <2>7
<1>11. ASSUME NEW w \in Workers, Claim(w) PROVE DeliveryInv'
    <2> DEFINE d == worker[w].holds
    <2>1. d \in Deliveries /\ row[d] = "pending" /\ attempts[d] = 0 /\ worker[w].pc = "cleared"
        BY <1>11 DEF Claim
    <2>2. ASSUME NEW e \in Deliveries
          PROVE  row'[e] = IF e = d THEN "sending"
                           ELSE IF e \in worker[w].stale THEN "uncertain" ELSE row[e]
        BY <1>11 DEF Claim, Swept, SweptState
    <2>3. /\ worker'[w].pc = "claimed"
          /\ worker'[w].holds = d
          /\ \A v \in Workers \ {w} : worker'[v] = worker[v]
        BY <1>11 DEF Claim, Local
    <2>4. attempts' = attempts /\ copies' = copies
        BY <1>11 DEF Claim
    <2>5. \A v \in Workers : worker[v].stale \subseteq Deliveries
        BY DEF WorkerStates
    <2>6. \A e \in worker[w].stale : row[e] = "sending"
        BY <2>1
    <2> HIDE DEF d
    <2>7. AtMostOnce' /\ ResultIsTruthful'
        BY <2>1, <2>2, <2>4, <2>6
    <2>8. HoldsConsistent'
        <3>1. \A v \in Workers \ {w} : Busy(v) => worker[v].holds # d
            BY <2>1 DEF d
        <3>2. \A v \in Workers \ {w} : worker[v].pc \in Sweeping =>
                  d \notin worker[v].stale /\ worker[v].stale \cap worker[w].stale = {}
            BY <2>1
        <3>3. ASSUME NEW v \in Workers \ {w}, Busy(v)
              PROVE  \/ row'[worker[v].holds] = row[worker[v].holds]
                     \/ row[worker[v].holds] = "sending" /\ row'[worker[v].holds] = "uncertain"
            BY <2>2, <2>6, <3>1, <3>3
        <3>4. Busy(w)' /\ ~(worker'[w].pc \in Sweeping)
            BY <2>3
        <3>5. ASSUME NEW v \in Workers \ {w}, worker[v].pc \in Sweeping, NEW e \in worker[v].stale
              PROVE  row'[e] = "sending"
            BY <2>1, <2>2, <2>5, <3>2, <3>5
        <3>6. ASSUME NEW v \in Workers \ {w}, worker[v].pc \in Holding
              PROVE  row'[worker[v].holds] = "pending"
            BY <3>3, <3>6
        <3>7. ASSUME NEW v \in Workers \ {w}, worker[v].pc \in {"claimed", "answered"}
              PROVE  row'[worker[v].holds] \in {"sending", "uncertain"}
            BY <3>3, <3>7
        <3>8. row'[d] = "sending" /\ attempts'[d] = 0
            BY <2>1, <2>2, <2>4
        <3> QED
            BY <2>1, <2>3, <2>4, <3>4, <3>5, <3>6, <3>7, <3>8
    <2>9. HoldsExclusive'
        BY <2>1, <2>3 DEF d
    <2> QED
        BY <2>7, <2>8, <2>9
<1>12. ASSUME NEW w \in Workers, Discard(w) PROVE DeliveryInv'
    <2> DEFINE d == worker[w].holds
    <2>1. d \in Deliveries /\ row[d] = "pending" /\ attempts[d] = 0 /\ worker[w].pc = "refused"
        BY <1>12 DEF Discard
    <2>2. ASSUME NEW e \in Deliveries
          PROVE  row'[e] = IF e = d THEN "discarded"
                           ELSE IF e \in worker[w].stale THEN "uncertain" ELSE row[e]
        BY <1>12 DEF Discard, Swept, SweptState
    <2>3. /\ worker'[w].pc = "idle"
          /\ worker'[w].holds = NoRow
          /\ \A v \in Workers \ {w} : worker'[v] = worker[v]
        BY <1>12 DEF Discard, Idle, Local
    <2>4. attempts' = attempts /\ copies' = copies
        BY <1>12 DEF Discard
    <2>5. \A v \in Workers : worker[v].stale \subseteq Deliveries
        BY DEF WorkerStates
    <2>6. \A e \in worker[w].stale : row[e] = "sending"
        BY <2>1
    <2> HIDE DEF d
    <2>7. AtMostOnce' /\ ResultIsTruthful'
        BY <2>1, <2>2, <2>4, <2>6
    <2>8. HoldsConsistent'
        <3>1. \A v \in Workers \ {w} : Busy(v) => worker[v].holds # d
            BY <2>1 DEF d
        <3>2. \A v \in Workers \ {w} : worker[v].pc \in Sweeping =>
                  d \notin worker[v].stale /\ worker[v].stale \cap worker[w].stale = {}
            BY <2>1
        <3>3. ASSUME NEW v \in Workers \ {w}, Busy(v)
              PROVE  \/ row'[worker[v].holds] = row[worker[v].holds]
                     \/ row[worker[v].holds] = "sending" /\ row'[worker[v].holds] = "uncertain"
            BY <2>2, <2>6, <3>1, <3>3
        <3>4. ~Busy(w)' /\ ~(worker'[w].pc \in Sweeping)
            BY <2>3
        <3>5. ASSUME NEW v \in Workers \ {w}, worker[v].pc \in Sweeping, NEW e \in worker[v].stale
              PROVE  row'[e] = "sending"
            BY <2>1, <2>2, <2>5, <3>2, <3>5
        <3>6. ASSUME NEW v \in Workers \ {w}, worker[v].pc \in Holding
              PROVE  row'[worker[v].holds] = "pending"
            BY <3>3, <3>6
        <3>7. ASSUME NEW v \in Workers \ {w}, worker[v].pc \in {"claimed", "answered"}
              PROVE  row'[worker[v].holds] \in {"sending", "uncertain"}
            BY <3>3, <3>7
        <3> QED
            BY <2>3, <2>4, <3>4, <3>5, <3>6, <3>7
    <2>9. HoldsExclusive'
        BY <2>1, <2>3 DEF d
    <2> QED
        BY <2>7, <2>8, <2>9
<1>13. ASSUME NEW w \in Workers, Post(w) PROVE DeliveryInv'
    BY <1>13 DEF Post, Answers, Local
<1>14. ASSUME NEW w \in Workers, RefuseLocally(w) PROVE DeliveryInv'
    BY <1>14 DEF RefuseLocally, Local
<1>15. ASSUME NEW w \in Workers, Record(w) PROVE DeliveryInv'
    BY <1>15 DEF Record, LockedByOther, Result, Idle, Local, WorkerStates, Replies
<1>16. CASE UNCHANGED vars
    BY <1>16 DEF vars
<1> QED
    BY <1>1, <1>2, <1>3, <1>4, <1>5, <1>6, <1>7, <1>8, <1>9, <1>10, <1>11, <1>12,
       <1>13, <1>14, <1>15, <1>16, <1>17 DEF Next, WorkerStep, Reading

\* No reply is put on the wire twice, under any number of crashes, restarts and
\* lost leases (worker.py:23-84).
THEOREM RepliesAtMostOnce == Spec => []AtMostOnce
<1>1. DeliveryInv => AtMostOnce
    BY DEF DeliveryInv
<1> QED
    BY <1>1, DeliveryInvInit, DeliveryInvStep, PTL DEF Spec

\* What the queue records about a reply is true of the recipient's chat.
THEOREM ResultsAreTruthful == Spec => []ResultIsTruthful
<1>1. DeliveryInv => ResultIsTruthful
    BY DEF DeliveryInv
<1> QED
    BY <1>1, DeliveryInvInit, DeliveryInvStep, PTL DEF Spec

\* Row locks before the claim and committed states after it keep any number of
\* workers on different rows.
THEOREM WorkersAreExclusive == Spec => []OneWorkerPerRow
<1>1. DeliveryInv => OneWorkerPerRow
    BY DEF DeliveryInv
<1> QED
    BY <1>1, DeliveryInvInit, DeliveryInvStep, PTL DEF Spec

-----------------------------------------------------------------------------
(* The refinement.  A step moves every row along RowMove, and RowMove is a  *)
(* step of the abstract promise under the mapping of KeepsPromise.          *)

RowMove(d) ==
    \/ row'[d] = row[d] /\ copies'[d] = copies[d]
    \/ /\ copies'[d] = copies[d]
       /\ \/ row[d] = "none" /\ row'[d] = "open"
          \/ row[d] = "open" /\ row'[d] \in {"void", "pending"}
          \/ row[d] = "pending" /\ row'[d] \in {"sending", "discarded"}
          \/ row[d] = "sending" /\ row'[d] = "uncertain"
    \/ /\ row[d] \in {"sending", "uncertain"}
       /\ row'[d] = row[d]
       /\ copies[d] = 0 /\ copies'[d] = 1
    \/ /\ row[d] \in {"sending", "uncertain"}
       /\ copies'[d] = copies[d]
       /\ \/ row'[d] = "sent" /\ copies[d] = 1
          \/ row'[d] = "failed" /\ copies[d] = 0
          \/ row'[d] = "uncertain"

\* No action moves a row in any other way.
LEMMA StepsMoveRows ==
    ASSUME DeliveryInv, [Next]_vars
    PROVE  \A d \in Deliveries : RowMove(d)
<1>0. TypeOK
    BY DEF DeliveryInv
<1> USE <1>0 DEF RowMove, TypeOK
<1>1. ASSUME NEW d \in Deliveries, Insert(d) \/ Commit(d) \/ Rollback(d)
      PROVE  \A e \in Deliveries : RowMove(e)
    BY <1>1 DEF Insert, Commit, Rollback
<1>2. CASE UNCHANGED <<row, copies>>
    BY <1>2
<1>3. ASSUME NEW w \in Workers, CommitSweep(w)
      PROVE  \A e \in Deliveries : RowMove(e)
    <2>1. \A e \in worker[w].stale : row[e] = "sending"
        BY <1>3 DEF CommitSweep, DeliveryInv, OneWorkerPerRow, HoldsConsistent, Sweeping
    <2> QED
        BY <1>3, <2>1 DEF CommitSweep, Swept, SweptState
<1>4. ASSUME NEW w \in Workers, Claim(w) \/ Discard(w)
      PROVE  \A e \in Deliveries : RowMove(e)
    <2>1. /\ worker[w].holds \in Deliveries
          /\ row[worker[w].holds] = "pending"
          /\ \A e \in worker[w].stale : row[e] = "sending"
        BY <1>4 DEF Claim, Discard, DeliveryInv, OneWorkerPerRow, HoldsConsistent, Busy, Holding,
                    Sweeping
    <2>2. copies' = copies
        BY <1>4 DEF Claim, Discard
    <2>3. ASSUME NEW e \in Deliveries
          PROVE  \/ row'[e] = row[e]
                 \/ e = worker[w].holds /\ row'[e] \in {"sending", "discarded"}
                 \/ e \in worker[w].stale /\ row'[e] = "uncertain"
        BY <1>4 DEF Claim, Discard, Swept, SweptState
    <2> QED
        BY <2>1, <2>2, <2>3
<1>5. ASSUME NEW w \in Workers, Post(w)
      PROVE  \A e \in Deliveries : RowMove(e)
    BY <1>5 DEF Post, DeliveryInv, OneWorkerPerRow, HoldsConsistent, Busy, AtMostOnce
<1>6. ASSUME NEW w \in Workers, Record(w)
      PROVE  \A e \in Deliveries : RowMove(e)
    <2>1. worker[w].reply \in Replies
        BY DEF WorkerStates
    <2> QED
        BY <1>6, <2>1 DEF Record, Result, Replies, DeliveryInv, OneWorkerPerRow,
                          HoldsConsistent, Busy
<1>7. ASSUME NEW w \in Workers,
             Start(w) \/ LoseLease(w) \/ Crash(w) \/ Reading(w) \/ RefuseLocally(w)
      PROVE  UNCHANGED <<row, copies>>
    BY <1>7, ReadingSteps DEF Start, LoseLease, Crash, RefuseLocally
<1> QED
    BY <1>1, <1>2, <1>3, <1>4, <1>5, <1>6, <1>7
       DEF Next, WorkerStep, Reading, Tick, ChangeAccess, ChangeUser, vars

\* Moving rows that way is a step of the abstract promise.
LEMMA MovesKeepPromise ==
    ASSUME TypeOK, TypeOK', \A d \in Deliveries : RowMove(d)
    PROVE  Promise!Next
<1> SUFFICES ASSUME NEW d \in Deliveries
             PROVE  \/ Promise!Advance(d) \/ Promise!Arrive(d)
                    \/ Promise!Settle(d) \/ Promise!Rest(d)
    BY DEF Promise!Next
<1>1. row[d] \in RowStates /\ row'[d] \in RowStates
    BY DEF TypeOK
<1> QED
    BY <1>1 DEF RowMove, RowStates, Settled, FateOf, Promise!Advance, Promise!Arrive,
                Promise!Settle, Promise!Rest, Promise!Edges

\* The queue with its workers, crashes and lost leases implements the promise
\* of at most one truthful delivery.
THEOREM QueueKeepsPromise == Spec => KeepsPromise
<1>1. Init => Promise!Init
    BY DEF Init, Promise!Init, FateOf
<1>2. DeliveryInv /\ DeliveryInv' /\ [Next]_vars => Promise!Next
    BY StepsMoveRows, MovesKeepPromise DEF DeliveryInv
<1> QED
    BY <1>1, <1>2, DeliveryInvInit, DeliveryInvStep, PTL DEF Spec, KeepsPromise, Promise!Spec

-----------------------------------------------------------------------------
(* Until a lease connection is lost, the advisory lock does its work.       *)

OneLeaseInv ==
    /\ DeliveryInv
    /\ drops = 0
    /\ \A w \in Workers : worker[w].pc # "down" => lease = w
    /\ \A w \in Workers :
           worker[w].pc \in {"claimed", "answered"} => row[worker[w].holds] = "sending"

LeaseInv == DeliveryInv /\ (drops = 0 => OneLeaseInv)

\* Nothing takes the loss of a lease back.
LEMMA LossesStay == ASSUME TypeOK, [Next]_vars, drops' = 0 PROVE drops = 0
<1>1. CASE \E w \in Workers : LoseLease(w)
    BY <1>1 DEF TypeOK, LoseLease
<1>2. CASE ~\E w \in Workers : LoseLease(w)
    <2>1. drops' = drops
        BY <1>2, ReadingSteps DEF Next, WorkerStep, Reading, vars, Insert, Commit, Rollback, Tick,
           ChangeAccess, ChangeUser, Start, Crash, CommitSweep, Claim, Discard, Post,
           RefuseLocally, Record
    <2> QED
        BY <2>1
<1> QED
    BY <1>1, <1>2

\* Without lost leases only the holder of the lock runs, so nobody else sweeps
\* the row it is sending.
LEMMA OneLeaseInvStep ==
    ASSUME OneLeaseInv, [Next]_vars, drops' = 0
    PROVE  OneLeaseInv'
<1>0. DeliveryInv /\ DeliveryInv' /\ TypeOK /\ TypeOK'
    BY DeliveryInvStep DEF OneLeaseInv, DeliveryInv
<1>a. \A w \in Workers : Busy(w) => worker[w].holds \in Deliveries
    BY <1>0 DEF DeliveryInv, OneWorkerPerRow, HoldsConsistent
<1>b. \A w \in Workers : worker[w] \in WorkerStates
    BY <1>0 DEF TypeOK
<1> USE <1>0, NamesAssumption DEF OneLeaseInv, TypeOK, Busy, Holding
<1>1. ASSUME NEW d \in Deliveries, Insert(d) \/ Commit(d) \/ Rollback(d) PROVE OneLeaseInv'
    BY <1>1, <1>a DEF Insert, Commit, Rollback
<1>2. CASE Tick
    <2> QED
        BY <1>2, TickSteps DEF Tick
<1>3. ASSUME NEW w \in Workers, Start(w) PROVE OneLeaseInv'
    BY <1>3 DEF Start, LeaseFree, Idle, Local
<1>4. ASSUME NEW w \in Workers, LoseLease(w) PROVE OneLeaseInv'
    BY <1>4 DEF LoseLease
<1>5. ASSUME NEW w \in Workers, Crash(w) PROVE OneLeaseInv'
    BY <1>5 DEF Crash, Down, Local
<1>6. ASSUME NEW w \in Workers, Reading(w) PROVE OneLeaseInv'
    BY <1>6, ReadingSteps
<1>7. ASSUME NEW w \in Workers, CommitSweep(w) PROVE OneLeaseInv'
    <2>1. \A v \in Workers \ {w} : worker[v].pc = "down" /\ worker'[v] = worker[v]
        BY <1>7 DEF CommitSweep
    <2>2. worker[w].pc = "empty" /\ worker'[w].pc = "idle" /\ lease' = lease /\ drops' = drops
        BY <1>7 DEF CommitSweep, Idle, Local
    <2> QED
        BY <2>1, <2>2
<1>8. ASSUME NEW w \in Workers, Claim(w) PROVE OneLeaseInv'
    <2>1. \A v \in Workers \ {w} : worker[v].pc = "down" /\ worker'[v] = worker[v]
        BY <1>8 DEF Claim
    <2>2. worker'[w].holds = worker[w].holds /\ worker[w].holds \in Deliveries
        BY <1>8, <1>a DEF Claim, Local
    <2>3. row'[worker[w].holds] = "sending"
        BY <1>8, <2>2 DEF Claim, Swept
    <2>4. worker[w].pc = "cleared" /\ lease' = lease /\ drops' = drops
        BY <1>8 DEF Claim
    <2> QED
        BY <2>1, <2>2, <2>3, <2>4
<1>9. ASSUME NEW w \in Workers, Discard(w) PROVE OneLeaseInv'
    <2>1. \A v \in Workers \ {w} : worker[v].pc = "down" /\ worker'[v] = worker[v]
        BY <1>9 DEF Discard
    <2>2. worker[w].pc = "refused" /\ worker'[w].pc = "idle" /\ lease' = lease /\ drops' = drops
        BY <1>9 DEF Discard, Idle, Local
    <2> QED
        BY <2>1, <2>2
<1>10. ASSUME NEW w \in Workers, Post(w) \/ RefuseLocally(w) PROVE OneLeaseInv'
    BY <1>10 DEF Post, RefuseLocally, Local
<1>11. ASSUME NEW w \in Workers, Record(w) PROVE OneLeaseInv'
    BY <1>11 DEF Record, Idle, Local
<1>12. CASE UNCHANGED <<row, worker, lease, drops>>
    BY <1>12
<1> QED
    BY <1>1, <1>2, <1>3, <1>4, <1>5, <1>6, <1>7, <1>8, <1>9, <1>10, <1>11, <1>12
       DEF Next, WorkerStep, Reading, ChangeAccess, ChangeUser, vars

LEMMA LeaseInvStep == ASSUME LeaseInv, [Next]_vars PROVE LeaseInv'
BY OneLeaseInvStep, DeliveryInvStep, LossesStay DEF LeaseInv, DeliveryInv

\* At the start no worker runs.
LEMMA LeaseInvInit == Init => LeaseInv
<1> SUFFICES ASSUME Init PROVE LeaseInv
    OBVIOUS
<1>1. \A w \in Workers : worker[w].pc = "down"
    BY DEF Init, Down, Local
<1> QED
    BY <1>1, DeliveryInvInit DEF Init, OneLeaseInv, LeaseInv

\* Until a lease connection is lost, at most one worker delivers
\* (worker.py:94-100).
THEOREM OneSenderUntilLeaseLost == Spec => []SingleSenderUntilLost
<1>1. ASSUME OneLeaseInv PROVE SingleSender
    <2> DEFINE up == {w \in Workers : worker[w].pc # "down"}
    <2>1. CASE up = {}
        BY <2>1, FS_EmptySet DEF SingleSender
    <2>2. CASE up # {}
        <3>1. up = {lease}
            BY <1>1, <2>2 DEF OneLeaseInv
        <3>2. Cardinality(up) = 1
            BY <3>1, FS_Singleton, Zenon
        <3>3. Cardinality(up) <= 1
            BY <3>2
        <3> QED
            BY <3>3 DEF SingleSender
    <2> QED
        BY <2>1, <2>2
<1>2. LeaseInv => SingleSenderUntilLost
    BY <1>1 DEF LeaseInv, SingleSenderUntilLost
<1>3. LeaseInv /\ [Next]_vars => LeaseInv'
    BY LeaseInvStep
<1> QED
    BY <1>2, <1>3, LeaseInvInit, PTL DEF Spec

\* ... and a recorded result is never overwritten.
THEOREM ResultsStandUntilLeaseLost == Spec => ResultsStand
<1>1. ASSUME LeaseInv, [Next]_vars
      PROVE  [drops' = 0 => \A d \in Deliveries : row[d] \in Settled => row'[d] = row[d]]_vars
    <2> SUFFICES ASSUME drops' = 0, NEW d \in Deliveries, row[d] \in Settled
                 PROVE  row'[d] = row[d]
        OBVIOUS
    <2>0. OneLeaseInv
        BY <1>1, LossesStay DEF LeaseInv, DeliveryInv
    <2>1. DeliveryInv
        BY <1>1 DEF LeaseInv
    <2>2. CASE \E w \in Workers : Record(w)
        <3>1. PICK w \in Workers : Record(w)
            BY <2>2
        <3>2. row[worker[w].holds] = "sending"
            BY <2>0, <3>1 DEF Record, OneLeaseInv
        <3> QED
            BY <3>1, <3>2, <2>1 DEF Record, Settled, DeliveryInv, TypeOK
    <2>3. CASE \E w \in Workers : Claim(w) \/ Discard(w)
        <3>1. PICK w \in Workers : Claim(w) \/ Discard(w)
            BY <2>3
        <3>2. row[worker[w].holds] = "pending" /\ \A e \in worker[w].stale : row[e] = "sending"
            BY <3>1, <2>1 DEF Claim, Discard, DeliveryInv, OneWorkerPerRow, HoldsConsistent,
                              Holding, Sweeping
        <3> QED
            BY <3>1, <3>2 DEF Claim, Discard, Swept, Settled
    <2>4. CASE \E w \in Workers : CommitSweep(w)
        <3>1. PICK w \in Workers : CommitSweep(w)
            BY <2>4
        <3>2. \A e \in worker[w].stale : row[e] = "sending"
            BY <3>1, <2>1 DEF CommitSweep, DeliveryInv, OneWorkerPerRow, HoldsConsistent, Sweeping
        <3> QED
            BY <3>1, <3>2 DEF CommitSweep, Swept, Settled
    <2>5. ASSUME NEW e \in Deliveries, Insert(e) \/ Commit(e) \/ Rollback(e)
          PROVE  row'[d] = row[d]
        BY <2>5, <2>1 DEF Insert, Commit, Rollback, Settled, DeliveryInv, TypeOK
    <2>6. CASE UNCHANGED row
        BY <2>6
    <2> QED
        BY <1>1, <2>1, <2>2, <2>3, <2>4, <2>5, <2>6, ReadingSteps
           DEF Next, WorkerStep, Reading, Tick, ChangeAccess, ChangeUser, Start, LoseLease, Crash,
               Post, RefuseLocally, vars, DeliveryInv
<1>2. LeaseInv /\ [Next]_vars => LeaseInv'
    BY LeaseInvStep
<1> QED
    BY <1>1, <1>2, LeaseInvInit, PTL DEF Spec, ResultsStand

-----------------------------------------------------------------------------
(* What is not sent any more.  The theorems show that a row leaves          *)
(* "pending" for "discarded" only, by the one step that could take it      *)
(* elsewhere: the claim of a worker whose checks were passed before.       *)

Unsent(d) == row[d] \in {"pending", "discarded"}

\* A row that was never on the wire is taken from "pending" by a claim alone.
LEMMA OnlyClaimsTake ==
    ASSUME DeliveryInv, [Next]_vars, NEW d \in Deliveries, Unsent(d), ~Unsent(d)'
    PROVE  row[d] = "pending" /\ \E w \in Workers : Claim(w) /\ worker[w].holds = d
<1>1. row[d] = "pending" /\ row'[d] = "sending"
    BY StepsMoveRows DEF Unsent, RowMove
<1>2. ~\E w \in Workers : CommitSweep(w)
    BY <1>1 DEF CommitSweep, Swept, SweptState
<1>3. ~\E w \in Workers : Record(w)
    <2> SUFFICES ASSUME NEW w \in Workers, Record(w) PROVE FALSE
        OBVIOUS
    <2>1. row[worker[w].holds] \in {"sending", "uncertain"} /\ worker[w].reply \in Replies
        BY DEF Record, DeliveryInv, OneWorkerPerRow, HoldsConsistent, TypeOK, WorkerStates
    <2> QED
        BY <1>1, <2>1 DEF Record, DeliveryInv, TypeOK
<1>4. ASSUME NEW w \in Workers, Claim(w) \/ Discard(w)
      PROVE  Claim(w) /\ worker[w].holds = d
    <2>1. /\ worker[w].holds \in Deliveries
          /\ \A e \in worker[w].stale : row[e] = "sending"
        BY <1>4 DEF Claim, Discard, DeliveryInv, OneWorkerPerRow, HoldsConsistent, Busy, Holding,
                    Sweeping
    <2>2. /\ worker[w].holds = d
          /\ ~(Discard(w) /\ row'[d] = "sending" /\ worker[w].holds = d)
        BY <1>1, <1>4, <2>1 DEF Claim, Discard, Swept, DeliveryInv, TypeOK
    <2> QED
        BY <1>1, <1>4, <2>2
<1>5. ~\E e \in Deliveries : Insert(e) \/ Commit(e) \/ Rollback(e)
    BY <1>1 DEF Insert, Commit, Rollback, DeliveryInv, TypeOK
<1>6. row' # row
    BY <1>1
<1> QED
    BY <1>1, <1>2, <1>3, <1>4, <1>5, <1>6, ReadingSteps
       DEF Next, WorkerStep, Reading, Tick, ChangeAccess, ChangeUser, Start, LoseLease, Crash,
           Post, RefuseLocally, vars, DeliveryInv

\* A worker comes to have checked the user by finding it active, to be cleared by
\* finding the stamp unchanged too.
LEMMA ChecksPrecede ==
    ASSUME DeliveryInv, [Next]_vars, NEW d \in Deliveries
    PROVE  /\ InHand(d, {"known", "cleared"})' =>
                  InHand(d, {"known", "cleared"}) \/ active[recipient[d]]
           /\ InHand(d, {"cleared"})' =>
                  InHand(d, {"cleared"}) \/ access[recipient[d]] = stamp[d]
<1>1. TypeOK
    BY DEF DeliveryInv
<1>2. ASSUME NEW v \in Workers, worker'[v].holds = d, worker'[v].pc \in {"known", "cleared"}
      PROVE  /\ InHand(d, {"known", "cleared"}) \/ active[recipient[d]]
             /\ worker'[v].pc = "cleared" =>
                    InHand(d, {"cleared"}) \/ access[recipient[d]] = stamp[d]
    <2>1. CASE \E w \in Workers : Reading(w)
        <3>1. PICK w \in Workers : Reading(w)
            BY <2>1
        <3>2. CASE v = w
            BY <1>1, <1>2, <3>1, <3>2, ReadingSteps DEF InHand, StampStands
        <3>3. CASE v # w
            BY <1>1, <1>2, <3>1, <3>3, ReadingSteps DEF InHand
        <3> QED
            BY <3>2, <3>3
    <2>2. CASE worker'[v].pc = worker[v].pc /\ worker'[v].holds = worker[v].holds
        BY <1>2, <2>2 DEF InHand
    <2>3. CASE Tick
        BY <1>1, <2>2, <2>3, TickSteps
    <2>4. ASSUME NEW w \in Workers,
                 \/ Start(w) \/ LoseLease(w) \/ Crash(w) \/ CommitSweep(w) \/ Claim(w)
                 \/ Discard(w) \/ Post(w) \/ RefuseLocally(w) \/ Record(w)
          PROVE  worker'[v] = worker[v]
        BY <1>1, <1>2, <2>4 DEF Start, LoseLease, Crash, CommitSweep, Claim, Discard, Post,
           RefuseLocally, Record, Local, Idle, Down, TypeOK
    <2>5. ASSUME \/ \E e \in Deliveries : Insert(e) \/ Commit(e) \/ Rollback(e)
                 \/ \E u \in Users : ChangeAccess(u) \/ ChangeUser(u)
                 \/ UNCHANGED vars
          PROVE  worker'[v] = worker[v]
        BY <2>5 DEF Insert, Commit, Rollback, ChangeAccess, ChangeUser, vars
    <2> QED
        BY <2>1, <2>2, <2>3, <2>4, <2>5 DEF Next, WorkerStep, Reading
<1> QED
    BY <1>2 DEF InHand

\* Content whose recipient is shut out for good, or whose stamp never fits again, is
\* not put on the wire: every claim follows a check of the user and a comparison of
\* the stamp in the same pass (worker.py:46-60).
THEOREM NothingSentAfterEnd == Spec => NothingSentAfterAccessEnds
<1> SUFFICES ASSUME NEW d \in Deliveries
             PROVE  Spec =>
                 /\ [](( /\ row[d] = "pending" /\ ~InHand(d, {"known", "cleared"})
                         /\ [](~active[recipient[d]]) ) => [](attempts[d] = 0))
                 /\ [](( /\ row[d] = "pending" /\ ~InHand(d, {"cleared"})
                         /\ [](access[recipient[d]] # stamp[d]) ) => [](attempts[d] = 0))
    BY DEF NothingSentAfterAccessEnds
<1>1. row[d] = "pending" => Unsent(d)
    BY DEF Unsent
<1>2. DeliveryInv /\ [Next]_vars /\ Unsent(d) /\ ~InHand(d, {"cleared"}) => Unsent(d)'
    BY OnlyClaimsTake DEF Claim, InHand
<1>3. InHand(d, {"cleared"}) => InHand(d, {"known", "cleared"})
    BY DEF InHand
<1>4. DeliveryInv /\ [Next]_vars /\ ~InHand(d, {"known", "cleared"}) /\ ~active[recipient[d]]
          => ~InHand(d, {"known", "cleared"})'
    BY ChecksPrecede
<1>5. DeliveryInv /\ [Next]_vars /\ ~InHand(d, {"cleared"}) /\ access[recipient[d]] # stamp[d]
          => ~InHand(d, {"cleared"})'
    BY ChecksPrecede
<1>6. DeliveryInv /\ Unsent(d) => attempts[d] = 0
    BY DEF DeliveryInv, ResultIsTruthful, Unsent
<1> HIDE DEF Unsent, InHand
<1>7. Spec => []DeliveryInv
    BY DeliveryInvInit, DeliveryInvStep, PTL DEF Spec
<1>8. Spec => [](( /\ row[d] = "pending" /\ ~InHand(d, {"known", "cleared"})
                   /\ [](~active[recipient[d]]) ) => [](attempts[d] = 0))
    BY <1>1, <1>2, <1>3, <1>4, <1>6, <1>7, PTL DEF Spec
<1>9. Spec => [](( /\ row[d] = "pending" /\ ~InHand(d, {"cleared"})
                   /\ [](access[recipient[d]] # stamp[d]) ) => [](attempts[d] = 0))
    BY <1>1, <1>2, <1>5, <1>6, <1>7, PTL DEF Spec
<1> QED
    BY <1>8, <1>9

\* Older than the limit by the clock w read.
OldFor(w, d) == age[d] > ExpireAfter + worker[w].elapsed

\* A worker that has locked a row knows whether it was too old by then, and is not
\* cleared if it was.
ExpiryKnown ==
    \A w \in Workers :
        /\ worker[w].pc \in Holding /\ OldFor(w, worker[w].holds) => worker[w].expired
        /\ worker[w].pc = "cleared" => ~worker[w].expired

ExpiryInv == DeliveryInv /\ ExpiryKnown

\* The clock makes no row younger compared with the beginning of a pass.
LEMMA OldStays ==
    ASSUME TypeOK, Tick, NEW w \in Workers, NEW d \in Deliveries, row[d] = "pending"
    PROVE  (OldFor(w, d) => OldFor(w, d)') /\ (InPass(w) /\ OldFor(w, d)' => OldFor(w, d))
<1>1. age[d] \in Ages /\ worker[w] \in WorkerStates /\ worker'[w] \in WorkerStates
    BY TickSteps DEF TypeOK
<1>2. worker[w].elapsed \in 0..LongestPass /\ worker'[w].elapsed \in 0..LongestPass
    BY <1>1 DEF WorkerStates
<1>3. age'[d] = Older(age[d])
    BY DEF Tick, TypeOK
<1>4. IF InPass(w) THEN worker'[w].elapsed = worker[w].elapsed + 1 ELSE worker'[w] = worker[w]
    BY <1>1 DEF Tick, WorkerStates
<1> QED
    BY <1>1, <1>2, <1>3, <1>4, CountsAssumption DEF OldFor, Older, Ages, AgeCap

\* Every action keeps what a worker knows of the age of its row.
LEMMA ExpiryInvStep == ASSUME ExpiryInv, [Next]_vars PROVE ExpiryInv'
<1>0. DeliveryInv /\ DeliveryInv' /\ TypeOK
    BY DeliveryInvStep DEF ExpiryInv, DeliveryInv
<1>1. SUFFICES ASSUME NEW v \in Workers
               PROVE  /\ worker'[v].pc \in Holding /\ OldFor(v, worker[v].holds)' => worker'[v].expired
                      /\ worker'[v].pc = "cleared" => ~worker'[v].expired
    BY <1>0 DEF ExpiryInv, ExpiryKnown, OldFor
<1>2. /\ worker[v].pc \in Holding =>
             /\ worker[v].holds \in Deliveries /\ row[worker[v].holds] = "pending"
             /\ OldFor(v, worker[v].holds) => worker[v].expired
      /\ worker[v].pc = "cleared" => ~worker[v].expired
    BY <1>0 DEF ExpiryInv, ExpiryKnown, DeliveryInv, OneWorkerPerRow, HoldsConsistent, Busy
<1>3. /\ worker'[v].pc \in Holding =>
             /\ worker'[v].holds \in Deliveries /\ row'[worker'[v].holds] = "pending"
    BY <1>0 DEF DeliveryInv, OneWorkerPerRow, HoldsConsistent, Busy
<1>4. CASE worker'[v] = worker[v] /\ (worker[v].pc \in Holding => age'[worker[v].holds] = age[worker[v].holds])
    BY <1>2, <1>4 DEF OldFor
<1>5. CASE Tick
    <2>1. /\ worker'[v].pc = worker[v].pc /\ worker'[v].holds = worker[v].holds
          /\ worker'[v].expired = worker[v].expired
        BY <1>0, <1>5, TickSteps
    <2>2. worker[v].pc \in Holding => InPass(v)
        BY DEF Holding, Sweeping, InPass
    <2>3. worker[v].pc \in Holding /\ OldFor(v, worker[v].holds)' => OldFor(v, worker[v].holds)
        BY <1>0, <1>2, <1>5, <2>1, <2>2, OldStays DEF OldFor
    <2> QED
        BY <1>2, <2>1, <2>3
<1>6. ASSUME NEW w \in Workers, Reading(w)
      PROVE  /\ worker'[v].pc \in Holding /\ OldFor(v, worker[v].holds)' => worker'[v].expired
             /\ worker'[v].pc = "cleared" => ~worker'[v].expired
    <2>1. CASE v # w
        BY <1>0, <1>4, <1>6, <2>1, ReadingSteps
    <2>2. CASE v = w /\ Select(w)
        <3>1. /\ worker'[v].pc = "selected" /\ worker'[v].elapsed = worker[v].elapsed
              /\ worker'[v].expired = Expired(v, worker'[v].holds)
            BY <1>0, <2>2, SelectStep
        <3>2. age' = age
            BY <2>2 DEF Select
        <3> QED
            BY <3>1, <3>2 DEF Expired, OldFor
    <2>3. CASE v = w /\ ~Select(w)
        BY <1>0, <1>2, <1>6, <2>3, ReadingSteps DEF OldFor, Holding
    <2> QED
        BY <2>1, <2>2, <2>3
<1>7. ASSUME NEW d \in Deliveries, Insert(d) \/ Commit(d) \/ Rollback(d)
      PROVE  worker'[v] = worker[v]
             /\ (worker[v].pc \in Holding => age'[worker[v].holds] = age[worker[v].holds])
    BY <1>0, <1>2, <1>7 DEF Insert, Commit, Rollback, TypeOK
<1>8. ASSUME NEW w \in Workers,
             Start(w) \/ LoseLease(w) \/ Crash(w) \/ Post(w) \/ RefuseLocally(w)
      PROVE  worker'[v].pc \notin Holding \/ (worker'[v] = worker[v] /\ age' = age)
    BY <1>0, <1>8 DEF Start, LoseLease, Crash, Post, RefuseLocally, Local, Idle, Down, Holding, TypeOK
<1>9. ASSUME NEW w \in Workers, CommitSweep(w) \/ Claim(w) \/ Discard(w) \/ Record(w)
      PROVE  worker'[v].pc \notin Holding
             \/ (worker'[v] = worker[v] /\ age'[worker[v].holds] = age[worker[v].holds])
    <2>1. CASE v = w
        BY <1>0, <1>9, <2>1 DEF CommitSweep, Claim, Discard, Record, Local, Idle, Holding, TypeOK
    <2>2. CASE v # w /\ worker'[v].pc \in Holding
        <3>1. worker'[v] = worker[v]
            BY <1>0, <1>9, <2>2 DEF CommitSweep, Claim, Discard, Record, TypeOK
        <3>2. worker[v].holds \in Deliveries /\ row[worker[v].holds] = "pending"
              /\ row'[worker[v].holds] = "pending"
            BY <1>2, <1>3, <2>2, <3>1
        <3>3. worker[w].pc \in Sweeping => \A e \in worker[w].stale : row[e] = "sending"
            BY <1>0 DEF DeliveryInv, OneWorkerPerRow, HoldsConsistent
        <3>4. Busy(w) /\ Busy(v) => worker[w].holds # worker[v].holds
            BY <1>0, <2>2 DEF DeliveryInv, OneWorkerPerRow, HoldsExclusive
        <3> QED
            BY <1>0, <1>9, <2>2, <3>1, <3>2, <3>3, <3>4
               DEF CommitSweep, Claim, Discard, Record, Busy, Holding, Sweeping, TypeOK
    <2> QED
        BY <2>1, <2>2
<1>10. CASE UNCHANGED <<age, worker>>
    BY <1>4, <1>10
<1>11. worker'[v].pc = "cleared" => worker'[v].pc \in Holding
    BY DEF Holding
<1>12. ASSUME NEW u \in Users, ChangeAccess(u) \/ ChangeUser(u) PROVE UNCHANGED <<age, worker>>
    BY <1>12 DEF ChangeAccess, ChangeUser
<1> QED
    BY <1>4, <1>5, <1>6, <1>7, <1>8, <1>9, <1>10, <1>11, <1>12 DEF Next, WorkerStep, Reading, vars

\* Waiting, and too old for every worker that has read the clock.
TooLate(d) == row[d] = "pending" => age[d] > ExpireAfter /\ \A w \in Workers : OldFor(w, d)

\* What is too late stays too late, since no cleared worker has it in hand.
LEMMA TooLateStays ==
    ASSUME ExpiryInv, [Next]_vars, NEW d \in Deliveries, Unsent(d), TooLate(d)
    PROVE  Unsent(d)' /\ TooLate(d)'
<1>0. DeliveryInv /\ DeliveryInv' /\ TypeOK /\ TypeOK'
    BY DeliveryInvStep DEF ExpiryInv, DeliveryInv
<1>1. Unsent(d)'
    BY <1>0, OnlyClaimsTake DEF Claim, TooLate, ExpiryInv, ExpiryKnown, Holding
<1>2. row'[d] = "pending" => row[d] = "pending"
    BY <1>0, StepsMoveRows DEF Unsent, RowMove
<1> SUFFICES ASSUME row[d] = "pending", row'[d] = "pending" PROVE TooLate(d)'
    BY <1>1, <1>2 DEF TooLate
<1>3. /\ age[d] \in Ages /\ age'[d] \in Ages /\ age[d] > ExpireAfter
      /\ \A w \in Workers : OldFor(w, d)
    BY <1>0 DEF TooLate, TypeOK
<1>4. CASE Tick
    <2>1. \A w \in Workers : OldFor(w, d)'
        BY <1>0, <1>3, <1>4, OldStays
    <2>2. age'[d] = Older(age[d])
        BY <1>0, <1>4 DEF Tick, TypeOK
    <2>3. age'[d] > ExpireAfter
        BY <1>3, <2>2, CountsAssumption DEF Older, Ages, AgeCap
    <2> QED
        BY <2>1, <2>3 DEF TooLate
<1>5. CASE age'[d] = age[d] /\ \A w \in Workers : worker'[w].elapsed \in {worker[w].elapsed, 0}
    BY <1>3, <1>5, CountsAssumption DEF TooLate, OldFor, Ages
<1>6. ASSUME NEW w \in Workers, Reading(w)
      PROVE  age'[d] = age[d] /\ \A v \in Workers : worker'[v].elapsed = worker[v].elapsed
    BY <1>0, <1>6, ReadingSteps
<1>7. ASSUME NEW e \in Deliveries, Insert(e) \/ Commit(e) \/ Rollback(e)
      PROVE  age'[d] = age[d] /\ worker' = worker
    BY <1>0, <1>7 DEF Insert, Commit, Rollback, TypeOK
<1>8. ASSUME NEW w \in Workers,
             \/ Start(w) \/ LoseLease(w) \/ Crash(w) \/ CommitSweep(w) \/ Claim(w)
             \/ Discard(w) \/ Post(w) \/ RefuseLocally(w) \/ Record(w)
      PROVE  \A v \in Workers : worker'[v].elapsed \in {worker[v].elapsed, 0}
    BY <1>0, <1>8 DEF Start, LoseLease, Crash, CommitSweep, Claim, Discard, Post, RefuseLocally,
       Record, Local, Idle, Down, TypeOK
<1>9. ASSUME NEW w \in Workers, Start(w) \/ LoseLease(w) \/ Crash(w) \/ Post(w) \/ RefuseLocally(w)
      PROVE  age'[d] = age[d]
    BY <1>9 DEF Start, LoseLease, Crash, Post, RefuseLocally
<1>10. ASSUME NEW w \in Workers, CommitSweep(w) \/ Claim(w) \/ Discard(w) \/ Record(w)
       PROVE  age'[d] = age[d]
    <2>1. /\ worker[w].pc \in Sweeping => \A e \in worker[w].stale : row[e] = "sending"
          /\ worker[w].pc = "answered" => row[worker[w].holds] \in {"sending", "uncertain"}
        BY <1>0 DEF DeliveryInv, OneWorkerPerRow, HoldsConsistent
    <2>2. d # worker[w].holds \/ CommitSweep(w)
        BY <1>0, <1>10, <2>1 DEF Claim, Discard, Record, Swept, TypeOK
    <2> QED
        BY <1>0, <1>10, <2>1, <2>2
           DEF CommitSweep, Claim, Discard, Record, Sweeping, Holding, TypeOK
<1>11. ASSUME \/ \E u \in Users : ChangeAccess(u) \/ ChangeUser(u)
              \/ UNCHANGED vars
       PROVE  age' = age /\ worker' = worker
    BY <1>11 DEF ChangeAccess, ChangeUser, vars
<1> QED
    BY <1>4, <1>5, <1>6, <1>7, <1>8, <1>9, <1>10, <1>11 DEF Next, WorkerStep, Reading

\* A row that was older than 30 minutes when every worker in a pass read its clock
\* is never sent, however long the clock and the locks hold it up
\* (docs/simple-bot.md:128).
THEOREM NothingSentTooLate == Spec => NothingExpiredIsSent
<1> SUFFICES ASSUME NEW d \in Deliveries
             PROVE  Spec => []((/\ row[d] = "pending"
                                /\ age[d] > ExpireAfter
                                /\ \A w \in Workers : age[d] > ExpireAfter + worker[w].elapsed)
                                  => [](attempts[d] = 0))
    BY DEF NothingExpiredIsSent
<1>1. (/\ row[d] = "pending"
       /\ age[d] > ExpireAfter
       /\ \A w \in Workers : age[d] > ExpireAfter + worker[w].elapsed) => Unsent(d) /\ TooLate(d)
    BY DEF Unsent, TooLate, OldFor
<1>2. ExpiryInv /\ [Next]_vars /\ Unsent(d) /\ TooLate(d) => Unsent(d)' /\ TooLate(d)'
    BY TooLateStays
<1>3. ExpiryInv /\ Unsent(d) => attempts[d] = 0
    BY DEF ExpiryInv, DeliveryInv, ResultIsTruthful, Unsent
<1>4. Init => ExpiryInv
    BY DeliveryInvInit DEF ExpiryInv, ExpiryKnown, Init, Down, Local, Holding
<1>5. ExpiryInv /\ [Next]_vars => ExpiryInv'
    BY ExpiryInvStep
<1> QED
    BY <1>1, <1>2, <1>3, <1>4, <1>5, PTL DEF Spec
=============================================================================
