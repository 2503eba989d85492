--------------------------- MODULE DeliveryWorker ---------------------------
(***************************************************************************)
(* The reply queue (table bot_deliveries, src/app/models/bot.py) and the   *)
(* worker processes that empty it (src/app/bot/worker.py) against a        *)
(* provider that may answer, refuse or stay silent                         *)
(* (src/app/integrations/max/messaging.py).                                *)
(*                                                                         *)
(* Rows are named by their sequence number.  A row is inserted by a bot    *)
(* transaction that may commit later than the owner of a higher number, or *)
(* not at all.  deliver_one is one action per statement: it reads the      *)
(* clock, sweeps, selects and locks, checks the user, compares the stamp,  *)
(* commits the decision, calls MAX and commits the result.  Other workers, *)
(* crashes, access changes and the clock come between any two of them.     *)
(***************************************************************************)
EXTENDS Naturals, FiniteSets

CONSTANTS
    MaxDelivery,    \* bound: rows are 1..MaxDelivery
    Users,          \* MAX users who get replies
    Grants,         \* the values a user's access stamp takes
    NoStamp,        \* the stamp of a row that is not inserted yet
    Workers,        \* processes running app.bot.worker
    NoWorker,       \* nobody holds the advisory lock
    ExpireAfter,    \* worker.py's 30 minutes, in ticks
    StaleAfter,     \* worker.py's 2 minutes, in ticks
    LongestPass,    \* bound: ticks from reading the clock to the first commit
    MaxCrashes,     \* bound: worker processes killed
    MaxDrops        \* bound: lease connections lost

ASSUME CountsAssumption ==
    /\ MaxDelivery \in Nat
    /\ ExpireAfter \in Nat
    /\ StaleAfter \in Nat
    /\ LongestPass \in Nat
    /\ MaxCrashes \in Nat
    /\ MaxDrops \in Nat

ASSUME NamesAssumption ==
    /\ NoStamp \notin Grants
    /\ NoWorker \notin Workers

VARIABLES
    row,            \* BotDelivery.state; "none" and "open" are not visible yet
    recipient,      \* BotDelivery.max_user_id
    stamp,          \* BotDelivery.access_stamp
    age,            \* ticks since created_at (pending) or attempted_at (sending)
    active,         \* native_actor accepts the user: the env lists, users.is_active
    access,         \* what access_stamp would compute for each user now
    worker,         \* local state of each worker process
    lease,          \* the worker whose connection holds the advisory lock
    attempts,       \* HTTP requests that left for the provider, per row
    copies,         \* messages the provider accepted, per row
    crashes, drops  \* counters of the two bounded faults

rights == <<active, access>>
wire == <<attempts, copies>>
faults == <<crashes, drops>>
vars == <<row, recipient, stamp, age, rights, worker, lease, wire, faults>>

Deliveries == 1..MaxDelivery
NoRow == 0
Settled == {"sent", "failed", "uncertain", "discarded"}
RowStates == {"none", "open", "void", "pending", "sending"} \cup Settled
Replies == {"ok", "rejected", "unclear"}
Holding == {"selected", "known", "cleared", "refused"}
Sweeping == {"swept", "empty"} \cup Holding
Phases == {"down", "idle", "woken", "claimed", "answered"} \cup Sweeping

\* Ages above the larger limit all compare alike, for every pass under way.
AgeCap == ExpireAfter + StaleAfter + LongestPass + 1
Ages == 0..AgeCap
Older(a) == IF a = AgeCap THEN a ELSE a + 1

\* A worker in phase p with row d in hand and the client's reply r.  During a pass
\* also the rows swept, the ticks since `now` was read, and whether the row was
\* expired by then.
Local(p, d, r) ==
    [pc |-> p, holds |-> d, stale |-> {}, expired |-> FALSE, elapsed |-> 0, reply |-> r]

Down == Local("down", NoRow, "unclear")
Idle == Local("idle", NoRow, "unclear")

WorkerStates ==
    [pc : Phases, holds : Deliveries \cup {NoRow}, stale : SUBSET Deliveries,
     expired : BOOLEAN, elapsed : 0..LongestPass, reply : Replies]

TypeOK ==
    /\ row \in [Deliveries -> RowStates]
    /\ recipient \in [Deliveries -> Users]
    /\ stamp \in [Deliveries -> Grants \cup {NoStamp}]
    /\ age \in [Deliveries -> Ages]
    /\ active \in [Users -> BOOLEAN]
    /\ access \in [Users -> Grants]
    /\ worker \in [Workers -> WorkerStates]
    /\ lease \in Workers \cup {NoWorker}
    /\ attempts \in [Deliveries -> Nat]
    /\ copies \in [Deliveries -> Nat]
    /\ crashes \in 0..MaxCrashes
    /\ drops \in 0..MaxDrops

Init ==
    /\ row = [d \in Deliveries |-> "none"]
    /\ recipient \in [Deliveries -> Users]
    /\ stamp = [d \in Deliveries |-> NoStamp]
    /\ age = [d \in Deliveries |-> 0]
    /\ active = [u \in Users |-> TRUE]
    /\ access \in [Users -> Grants]
    /\ worker = [w \in Workers |-> Down]
    /\ lease = NoWorker
    /\ attempts = [d \in Deliveries |-> 0]
    /\ copies = [d \in Deliveries |-> 0]
    /\ crashes = 0
    /\ drops = 0

-----------------------------------------------------------------------------
(* The transactions that queue replies (dialogs.reply).                    *)

\* db.add(BotDelivery(...)) in a transaction that is still open: the identity
\* column hands out the next number, created_at is the transaction's time.  The
\* user was active earlier in the transaction, and need not be any more.
Insert(d) ==
    /\ row[d] = "none"
    /\ \A e \in Deliveries : e < d => row[e] # "none"
    /\ row' = [row EXCEPT ![d] = "open"]
    /\ stamp' = [stamp EXCEPT ![d] = access[recipient[d]]]
    /\ UNCHANGED <<recipient, age, rights, worker, lease, wire, faults>>

Commit(d) ==
    /\ row[d] = "open"
    /\ row' = [row EXCEPT ![d] = "pending"]
    /\ UNCHANGED <<recipient, stamp, age, rights, worker, lease, wire, faults>>

Rollback(d) ==
    /\ row[d] = "open"
    /\ row' = [row EXCEPT ![d] = "void"]
    /\ age' = [age EXCEPT ![d] = 0]
    /\ UNCHANGED <<recipient, stamp, rights, worker, lease, wire, faults>>

\* A membership or a role changes, also back.
ChangeAccess(u) ==
    /\ \E g \in Grants \ {access[u]} : access' = [access EXCEPT ![u] = g]
    /\ UNCHANGED <<row, recipient, stamp, age, active, worker, lease, wire, faults>>

\* An account is disabled or enabled, or the env lists change.
ChangeUser(u) ==
    /\ active' = [active EXCEPT ![u] = ~@]
    /\ UNCHANGED <<row, recipient, stamp, age, access, worker, lease, wire, faults>>

\* The worker has read `now` and not committed yet.
InPass(w) == worker[w].pc \in {"woken"} \cup Sweeping

\* Time passes for the timestamps somebody will still compare, unless a pass has
\* reached its bound.
Tick ==
    /\ \A w \in Workers : InPass(w) => worker[w].elapsed < LongestPass
    /\ age' = [d \in Deliveries |->
                  IF row[d] \in {"open", "pending", "sending"} THEN Older(age[d]) ELSE age[d]]
    /\ worker' = [w \in Workers |->
                  IF InPass(w) THEN [worker[w] EXCEPT !.elapsed = @ + 1] ELSE worker[w]]
    /\ <<age, worker>>' # <<age, worker>>
    /\ UNCHANGED <<row, recipient, stamp, rights, lease, wire, faults>>

-----------------------------------------------------------------------------
(* The life of a worker process (worker.run).                              *)

\* Mutant: the result of pg_try_advisory_lock is not looked at.
LeaseUnchecked(w) == TRUE

\* pg_try_advisory_lock succeeds.
LeaseFree(w) == lease = NoWorker

\* A process that finds the lock taken exits, which changes nothing: it stays
\* down and compose restarts it.
Start(w) ==
    /\ worker[w].pc = "down"
    /\ LeaseFree(w)
    /\ lease' = w
    /\ worker' = [worker EXCEPT ![w] = Idle]
    /\ UNCHANGED <<row, recipient, stamp, age, rights, wire, faults>>

\* The connection that holds the advisory lock ends on the server's side.  The
\* worker never looks at it again and keeps delivering on pooled sessions.
LoseLease(w) ==
    /\ lease = w
    /\ drops < MaxDrops
    /\ lease' = NoWorker
    /\ drops' = drops + 1
    /\ UNCHANGED <<row, recipient, stamp, age, rights, worker, wire, crashes>>

\* The process dies: its open transaction is rolled back, its row locks and its
\* advisory lock are released, committed states stay.
Crash(w) ==
    /\ worker[w].pc # "down"
    /\ crashes < MaxCrashes
    /\ worker' = [worker EXCEPT ![w] = Down]
    /\ lease' = IF lease = w THEN NoWorker ELSE lease
    /\ crashes' = crashes + 1
    /\ UNCHANGED <<row, recipient, stamp, age, rights, wire, drops>>

-----------------------------------------------------------------------------
(* deliver_one.                                                            *)

\* Another worker's open transaction holds the lock of row d.
LockedByOther(w, d) ==
    \E v \in Workers \ {w} :
        worker[v].pc \in Sweeping /\ (worker[v].holds = d \/ d \in worker[v].stale)

\* `now` is read: every later comparison of a time is with this instant.
Wake(w) ==
    /\ worker[w].pc = "idle"
    /\ worker' = [worker EXCEPT ![w].pc = "woken"]
    /\ UNCHANGED <<row, recipient, stamp, age, rights, lease, wire, faults>>

\* Mutant: no sweep of interrupted rows.
NoStaleRows(w) == {}

\* Rows whose attempt began more than StaleAfter before the worker's `now`.
StaleRows(w) ==
    {d \in Deliveries : row[d] = "sending" /\ age[d] > StaleAfter + worker[w].elapsed}

\* Mutant: an interrupted row is queued again.
SweptToRetry == "pending"

\* What the sweep writes into an interrupted row.
SweptState == "uncertain"

Swept(S) == [d \in Deliveries |-> IF d \in S THEN SweptState ELSE row[d]]

\* The UPDATE waits for rows another worker has swept, then keeps its own locked.
Sweep(w) ==
    /\ worker[w].pc = "woken"
    /\ \A d \in StaleRows(w) : ~LockedByOther(w, d)
    /\ worker' = [worker EXCEPT ![w].pc = "swept", ![w].stale = StaleRows(w)]
    /\ UNCHANGED <<row, recipient, stamp, age, rights, lease, wire, faults>>

\* SELECT ... state = 'pending' FOR UPDATE SKIP LOCKED.
Claimable(w) == {d \in Deliveries : row[d] = "pending" /\ ~LockedByOther(w, d)}

\* Mutant: the age of a waiting row is not looked at.
NeverExpired(w, d) == FALSE

\* The row was created more than ExpireAfter before the worker's `now`.
Expired(w, d) == age[d] > ExpireAfter + worker[w].elapsed

\* The pending row with the lowest number is locked.
Select(w) ==
    /\ worker[w].pc = "swept"
    /\ \E d \in Claimable(w) :
           /\ \A e \in Claimable(w) : d <= e
           /\ worker' = [worker EXCEPT ![w].pc = "selected", ![w].holds = d,
                                      ![w].expired = Expired(w, d)]
    /\ UNCHANGED <<row, recipient, stamp, age, rights, lease, wire, faults>>

FindNothing(w) ==
    /\ worker[w].pc = "swept"
    /\ Claimable(w) = {}
    /\ worker' = [worker EXCEPT ![w].pc = "empty"]
    /\ UNCHANGED <<row, recipient, stamp, age, rights, lease, wire, faults>>

\* Nothing to send: the sweep alone is committed.
CommitSweep(w) ==
    LET S == worker[w].stale IN
    /\ worker[w].pc = "empty"
    /\ row' = Swept(S)
    /\ age' = [d \in Deliveries |-> IF d \in S THEN 0 ELSE age[d]]
    /\ worker' = [worker EXCEPT ![w] = Idle]
    /\ UNCHANGED <<recipient, stamp, rights, lease, wire, faults>>

\* native_actor, read again at delivery time.
CheckUser(w) ==
    /\ worker[w].pc = "selected"
    /\ worker' = [worker EXCEPT ![w].pc =
                     IF active[recipient[worker[w].holds]] THEN "known" ELSE "refused"]
    /\ UNCHANGED <<row, recipient, stamp, age, rights, lease, wire, faults>>

\* Mutant: the stamp is not compared at delivery time.
StampUnchecked(d) == TRUE

\* The stamp computed anew is the row's.
StampStands(d) == access[recipient[d]] = stamp[d]

\* access_stamp, a statement of its own; then the age known since the row was read.
CheckStamp(w) ==
    /\ worker[w].pc = "known"
    /\ worker' = [worker EXCEPT ![w].pc =
                     IF StampStands(worker[w].holds) /\ ~worker[w].expired
                     THEN "cleared" ELSE "refused"]
    /\ UNCHANGED <<row, recipient, stamp, age, rights, lease, wire, faults>>

\* The reply goes out: the commit that precedes the HTTP request.  attempted_at is
\* the `now` of the pass.
Claim(w) ==
    LET d == worker[w].holds IN
    /\ worker[w].pc = "cleared"
    /\ row' = [Swept(worker[w].stale) EXCEPT ![d] = "sending"]
    /\ age' = [e \in Deliveries |->
                  IF e = d THEN worker[w].elapsed
                  ELSE IF e \in worker[w].stale THEN 0 ELSE age[e]]
    /\ worker' = [worker EXCEPT ![w] = Local("claimed", d, "unclear")]
    /\ UNCHANGED <<recipient, stamp, rights, lease, wire, faults>>

\* access_changed or expired: committed as discarded, never sent.
Discard(w) ==
    LET d == worker[w].holds IN
    /\ worker[w].pc = "refused"
    /\ row' = [Swept(worker[w].stale) EXCEPT ![d] = "discarded"]
    /\ age' = [e \in Deliveries |-> IF e = d \/ e \in worker[w].stale THEN 0 ELSE age[e]]
    /\ worker' = [worker EXCEPT ![w] = Idle]
    /\ UNCHANGED <<recipient, stamp, rights, lease, wire, faults>>

\* What the provider did against what the client hears: success means it took
\* the message, a 4xx or success=false that it did not, and a timeout, network
\* error, 3xx, 5xx, odd 2xx or unreadable body says nothing.
Answers(accepted) == IF accepted THEN {"ok", "unclear"} ELSE {"rejected", "unclear"}

\* The single HTTP attempt of send_text or answer_callback.
Post(w) ==
    LET d == worker[w].holds IN
    /\ worker[w].pc = "claimed"
    /\ attempts' = [attempts EXCEPT ![d] = @ + 1]
    /\ \E accepted \in BOOLEAN :
           /\ copies' = [copies EXCEPT ![d] = IF accepted THEN @ + 1 ELSE @]
           /\ \E r \in Answers(accepted) :
                  worker' = [worker EXCEPT ![w] = Local("answered", d, r)]
    /\ UNCHANGED <<row, recipient, stamp, age, rights, lease, faults>>

\* The client's own validation refuses: nothing leaves the process.
RefuseLocally(w) ==
    /\ worker[w].pc = "claimed"
    /\ worker' = [worker EXCEPT ![w] = Local("answered", worker[w].holds, "rejected")]
    /\ UNCHANGED <<row, recipient, stamp, age, rights, lease, wire, faults>>

\* Mutant: every error of the client counts as a definite refusal.
ResultWithoutDoubt(r) == IF r = "ok" THEN "sent" ELSE "failed"

\* The result each answer is recorded as.
Result(r) ==
    CASE r = "ok" -> "sent"
      [] r = "rejected" -> "failed"
      [] r = "unclear" -> "uncertain"

\* UPDATE ... WHERE id = ...: it overwrites whatever state the row has by now.
Record(w) ==
    LET d == worker[w].holds IN
    /\ worker[w].pc = "answered"
    /\ ~LockedByOther(w, d)
    /\ row' = [row EXCEPT ![d] = Result(worker[w].reply)]
    /\ age' = [age EXCEPT ![d] = 0]
    /\ worker' = [worker EXCEPT ![w] = Idle]
    /\ UNCHANGED <<recipient, stamp, rights, lease, wire, faults>>

-----------------------------------------------------------------------------
WorkerStep(w) ==
    \/ Wake(w) \/ Sweep(w) \/ Select(w) \/ FindNothing(w) \/ CommitSweep(w)
    \/ CheckUser(w) \/ CheckStamp(w) \/ Claim(w) \/ Discard(w)
    \/ Post(w) \/ RefuseLocally(w) \/ Record(w)

Next ==
    \/ \E d \in Deliveries : Insert(d) \/ Commit(d) \/ Rollback(d)
    \/ \E u \in Users : ChangeAccess(u) \/ ChangeUser(u)
    \/ Tick
    \/ \E w \in Workers : Start(w) \/ LoseLease(w) \/ Crash(w) \/ WorkerStep(w)

Spec == Init /\ [][Next]_vars

\* Compose restarts a worker that exits, its loop never stops by itself, every
\* database call and HTTP request has a timeout, and the clock goes on.
Fairness ==
    /\ WF_vars(Tick)
    /\ WF_vars(\E w \in Workers : Start(w))
    /\ \A w \in Workers : WF_vars(WorkerStep(w))

FairSpec == Spec /\ Fairness

-----------------------------------------------------------------------------
(* Properties.                                                             *)

\* A reply is put on the wire at most once, whatever crashes, restarts and
\* second workers do between worker.py:60 (commit "sending") and :83.
AtMostOnce == \A d \in Deliveries : attempts[d] <= 1 /\ copies[d] <= attempts[d]

\* A final state tells the truth about the recipient's chat: "sent" arrived,
\* "failed" did not, and rows discarded or still waiting never left.
ResultIsTruthful ==
    \A d \in Deliveries :
        /\ row[d] = "sent" => copies[d] = 1
        /\ row[d] = "failed" => copies[d] = 0
        /\ row[d] \in {"none", "open", "void", "pending", "discarded"} => attempts[d] = 0

\* Until a lease connection is lost, a recorded result is never overwritten: the
\* late writer of worker.py:72-83 is always the only one.
ResultsStand ==
    [][drops' = 0 => \A d \in Deliveries : row[d] \in Settled => row'[d] = row[d]]_vars

\* A worker has row d in hand in one of the phases P.
InHand(d, P) == \E w \in Workers : worker[w].holds = d /\ worker[w].pc \in P

\* Content whose recipient is shut out for good, or was queued under rights that
\* never come back, is never put on the wire, unless a worker had already read the
\* one that ended: the user at worker.py:47, the stamp at :48.  That one of the two
\* is wrong at any moment would not be enough, since they are read one after the
\* other.
NothingSentAfterAccessEnds ==
    \A d \in Deliveries :
        /\ [](( /\ row[d] = "pending" /\ ~InHand(d, {"known", "cleared"})
                /\ [](~active[recipient[d]]) ) => [](attempts[d] = 0))
        /\ [](( /\ row[d] = "pending" /\ ~InHand(d, {"cleared"})
                /\ [](access[recipient[d]] # stamp[d]) ) => [](attempts[d] = 0))

\* A row that was older than 30 minutes when every worker that is in a pass read its
\* clock (worker.py:24) is never sent (docs/simple-bot.md:128), however long the
\* queue, a sweep or a lock held it up.  A row that grows too old during a pass may
\* still be sent by it.
NothingExpiredIsSent ==
    \A d \in Deliveries :
        [](( /\ row[d] = "pending"
             /\ age[d] > ExpireAfter
             /\ \A w \in Workers : age[d] > ExpireAfter + worker[w].elapsed )
               => [](attempts[d] = 0))

\* Every committed reply reaches a final state: crashes, a lost lease and an
\* unanswered request leave no row pending or sending for ever.
EventuallySettled ==
    \A d \in Deliveries : row[d] = "pending" ~> row[d] \in Settled

\* Why the promise holds, state by state.  A worker's open transaction keeps its
\* row pending and its swept rows sending; after the claim nobody else can take
\* the row, and the answer the worker remembers agrees with what was delivered.
Busy(w) == worker[w].pc \in Holding \cup {"claimed", "answered"}

HoldsConsistent ==
    \A w \in Workers :
        /\ IF Busy(w) THEN worker[w].holds \in Deliveries ELSE worker[w].holds = NoRow
        /\ worker[w].pc \in Sweeping => \A d \in worker[w].stale : row[d] = "sending"
        /\ worker[w].pc \in Holding => row[worker[w].holds] = "pending"
        /\ worker[w].pc \in {"claimed", "answered"} =>
               row[worker[w].holds] \in {"sending", "uncertain"}
        /\ worker[w].pc = "claimed" => attempts[worker[w].holds] = 0
        /\ worker[w].pc = "answered" =>
               /\ worker[w].reply = "ok" => copies[worker[w].holds] = 1
               /\ worker[w].reply = "rejected" => copies[worker[w].holds] = 0

HoldsExclusive ==
    \A v, w \in Workers : v # w =>
        /\ Busy(v) /\ Busy(w) => worker[v].holds # worker[w].holds
        /\ worker[v].pc \in Sweeping /\ worker[w].pc \in Sweeping =>
               worker[v].stale \cap worker[w].stale = {}

\* No two workers ever work on the same row (FOR UPDATE SKIP LOCKED before the
\* claim, the committed state after it), even when both hold the lease in turn.
OneWorkerPerRow == HoldsConsistent /\ HoldsExclusive

\* What a recipient may observe of a row, in the terms of AtMostOnceDelivery.
FateOf(s) ==
    CASE s \in {"none", "open", "void"} -> "absent"
      [] s = "pending" -> "queued"
      [] s = "sending" -> "trying"
      [] s = "uncertain" -> "unknown"
      [] s = "discarded" -> "dropped"
      [] s = "sent" -> "sent"
      [] s = "failed" -> "failed"

Promise == INSTANCE AtMostOnceDelivery WITH
              Messages <- Deliveries,
              fate <- [d \in Deliveries |-> FateOf(row[d])],
              received <- copies

\* The queue and its workers implement the abstract promise, including with
\* two workers at once after the lease was lost.
KeepsPromise == Promise!Spec

\* "One sender per database" (worker.py:19), "a single worker per database,
\* ensured by the advisory lock" (docs/simple-bot.md:118).
SingleSender == Cardinality({w \in Workers : worker[w].pc # "down"}) <= 1

\* Until a lease connection is lost, crashes and restarts of any number of workers
\* leave one sender at most (worker.py:94-100).
SingleSenderUntilLost == drops = 0 => SingleSender
=============================================================================
