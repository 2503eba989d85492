------------------------- MODULE TaskWorkflowProofs -------------------------
(***************************************************************************)
(* The task workflow decides one thing at a time, for any number of        *)
(* requests, people, sessions and operations.                              *)
(***************************************************************************)
EXTENDS TaskWorkflow, SequenceTheorems, TLAPS

\* A session before its first operation is well typed.
LEMMA FreshType ==
    /\ Fresh \in TxnStates
    /\ Fresh.pc = "idle"
    /\ Fresh.inserts = NoCode
<1>1. (CHOOSE a \in Actors : TRUE) \in Actors
    BY NamesAssumption
<1>2. (CHOOSE r \in Requests : TRUE) \in Requests
    BY NamesAssumption
<1> QED
    BY <1>1, <1>2 DEF Fresh, TxnStates, Phases, AllCodes

\* What each step makes of the local state of its transaction: the fields the
\* invariants speak of, and the type.
LEMMA CallType ==
    ASSUME NEW a \in Actors, NEW r \in Requests, NEW n \in Nat,
           NEW k \in {"assign", "report"}, NEW x \in Employees \cup Codes
    PROVE  /\ Call(a, r, n, k, x) \in TxnStates
           /\ Call(a, r, n, k, x).pc = "begun"
           /\ Call(a, r, n, k, x).inserts = NoCode
           /\ Call(a, r, n, k, x).kind = k
           /\ Call(a, r, n, k, x).what = x
    BY FreshType DEF Call, TxnStates, Phases, AllCodes

-----------------------------------------------------------------------------
TaskInv == TypeOK /\ TransactionsConsistent

\* How a transaction's local state may change; each case names the fields that
\* the invariants speak of.
LEMMA TxnMoves ==
    ASSUME TypeOK, NEW t \in Transactions
    PROVE  /\ txn[t] \in TxnStates
           /\ txn[t].request \in Requests /\ txn[t].actor \in Actors
           /\ txn[t].kind \in {"assign", "report"}
           /\ \A p \in Phases : [txn[t] EXCEPT !.pc = p] \in TxnStates
           /\ [txn[t] EXCEPT !.pc = "locked", !.seen = revision[txn[t].request],
                             !.was = status[txn[t].request],
                             !.holder = assignee[txn[t].request]] \in TxnStates
           /\ \A c \in AllCodes \cup {NoCode} :
                  [txn[t] EXCEPT !.pc = "ready", !.inserts = c] \in TxnStates
<1>1. txn[t] \in TxnStates
    BY DEF TypeOK
<1>2. txn[t].request \in Requests /\ txn[t].actor \in Actors
      /\ txn[t].kind \in {"assign", "report"}
    BY <1>1 DEF TxnStates
<1>3. \A p \in Phases : [txn[t] EXCEPT !.pc = p] \in TxnStates
    BY <1>1 DEF TxnStates
<1>4. [txn[t] EXCEPT !.pc = "locked", !.seen = revision[txn[t].request],
                    !.was = status[txn[t].request],
                    !.holder = assignee[txn[t].request]] \in TxnStates
    BY <1>1, <1>2 DEF TypeOK, TxnStates, Phases
<1>5. \A c \in AllCodes \cup {NoCode} :
          [txn[t] EXCEPT !.pc = "ready", !.inserts = c] \in TxnStates
    BY <1>1 DEF TxnStates, Phases
<1> QED
    BY <1>1, <1>2, <1>3, <1>4, <1>5

\* Appending to one sequence of a function of sequences.
LEMMA AppendType ==
    ASSUME NEW D, NEW S, NEW f \in [D -> Seq(S)], NEW r \in D, NEW x \in S
    PROVE  [f EXCEPT ![r] = Append(f[r], x)] \in [D -> Seq(S)]
<1>1. Append(f[r], x) \in Seq(S)
    OBVIOUS
<1> QED
    BY <1>1

\* At the start no transaction is open and the tables are as created.
LEMMA TaskInvInit == Init => TaskInv
<1> SUFFICES ASSUME Init PROVE TaskInv
    OBVIOUS
<1>1. TypeOK
    BY FreshType, BoundAssumption DEF Init, TypeOK, AllCodes
<1>2. TransactionsConsistent
    BY FreshType DEF Init, TransactionsConsistent, LocksHold, ChecksHold, ChecksOf, HasLock, Idle
<1> QED
    BY <1>1, <1>2 DEF TaskInv

\* A transaction that ends leaves nothing behind.
LEMMA EndKeepsInv ==
    ASSUME TaskInv, NEW t \in Transactions, txn' = [txn EXCEPT ![t] = Fresh],
           UNCHANGED <<table, codes, member, begun>>
    PROVE  TaskInv'
<1>1. TypeOK'
    BY FreshType DEF TaskInv, TypeOK, table
<1>2. TransactionsConsistent'
    BY FreshType DEF TaskInv, TypeOK, table, TransactionsConsistent, LocksHold, ChecksHold, ChecksOf,
                     HasLock, Idle
<1> QED
    BY <1>1, <1>2 DEF TaskInv

\* Every action keeps the invariant.
LEMMA TaskInvStep == TaskInv /\ [Next]_vars => TaskInv'
<1> SUFFICES ASSUME TaskInv, [Next]_vars PROVE TaskInv'
    OBVIOUS
<1>0. TypeOK /\ LocksHold /\ ChecksHold
    BY DEF TaskInv, TransactionsConsistent
<1> USE <1>0 DEF table
<1>1. ASSUME NEW e \in Employees, ChangeMember(e) PROVE TaskInv'
    <2>1. TypeOK'
        BY <1>1, MembershipsAssumption DEF ChangeMember, TypeOK
    <2> QED
        BY <1>1, <2>1 DEF ChangeMember, TaskInv, TransactionsConsistent, LocksHold, ChecksHold, ChecksOf,
                          HasLock, Idle
<1>2. ASSUME NEW c \in Codes, CreateStatus(c) PROVE TaskInv'
    <2>1. TypeOK'
        BY <1>2 DEF CreateStatus, TypeOK, AllCodes
    <2> QED
        BY <1>2, <2>1 DEF CreateStatus, TaskInv, TransactionsConsistent, LocksHold, ChecksHold, ChecksOf,
                          HasLock, Idle
<1>3. ASSUME NEW t \in Transactions, Begin(t) PROVE TaskInv'
    <2>1. PICK a \in Actors, r \in Requests, n \in 0..MaxOperations,
               k \in {"assign", "report"}, x \in Employees \cup Codes :
              /\ IF k = "assign" THEN x \in Employees ELSE x \in Codes
              /\ txn' = [txn EXCEPT ![t] = Call(a, r, n, k, x)]
        BY <1>3 DEF Begin, Valid
    <2> DEFINE new == Call(a, r, n, k, x)
    <2>2. n \in Nat
        BY BoundAssumption
    <2>3. new \in TxnStates /\ new.pc = "begun" /\ new.inserts = NoCode /\ new.kind = k /\ new.what = x
        BY <2>2, CallType
    <2>4. txn' = [txn EXCEPT ![t] = new]
        BY <2>1
    <2> HIDE DEF new
    <2>5. begun' \in 0..MaxOperations
        BY <1>3, BoundAssumption DEF Begin, TypeOK
    <2>6. TypeOK'
        BY <1>3, <2>3, <2>4, <2>5 DEF Begin, TypeOK
    <2>7. LocksHold'
        BY <1>3, <2>3, <2>4 DEF Begin, TypeOK, LocksHold, HasLock
    <2>8. ChecksHold'
        BY <1>3, <2>1, <2>3, <2>4 DEF Begin, TypeOK, ChecksHold, ChecksOf, Idle
    <2> QED
        BY <2>6, <2>7, <2>8 DEF TaskInv, TransactionsConsistent
<1>4. ASSUME NEW t \in Transactions, Lock(t) PROVE TaskInv'
    <2> DEFINE r == txn[t].request
               new == [txn[t] EXCEPT !.pc = "locked", !.seen = revision[r], !.was = status[r],
                                     !.holder = assignee[r]]
    <2>1. new \in TxnStates
        BY TxnMoves
    <2>2. /\ new.pc = "locked" /\ new.seen = revision[r] /\ new.was = status[r]
          /\ new.holder = assignee[r] /\ new.request = r /\ new.inserts = txn[t].inserts
          /\ new.kind = txn[t].kind /\ new.what = txn[t].what
        BY TxnMoves DEF TxnStates
    <2>3. txn' = [txn EXCEPT ![t] = new] /\ txn[t].pc = "begun"
        BY <1>4 DEF Lock
    <2> HIDE DEF new
    <2>4. TypeOK'
        BY <1>4, <2>1, <2>3 DEF Lock, TypeOK
    <2>5. LocksHold'
        BY <1>4, <2>2, <2>3 DEF Lock, LockedByOther, TypeOK, LocksHold, HasLock
    <2>6. ChecksHold'
        BY <1>4, <2>2, <2>3 DEF Lock, TypeOK, ChecksHold, ChecksOf, Idle
    <2> QED
        BY <2>4, <2>5, <2>6 DEF TaskInv, TransactionsConsistent
<1>5. ASSUME NEW t \in Transactions, NEW p \in {"authorized", "checked", "ready"},
             txn' = [txn EXCEPT ![t] = [txn[t] EXCEPT !.pc = p]],
             UNCHANGED <<table, codes, member, begun>>, HasLock(t),
             p \in {"checked", "ready"} =>
                 /\ txn[t].expected = txn[t].seen
                 /\ txn[t].kind = "report" => txn[t].actor \in Owners \/ txn[t].actor = txn[t].holder,
             p = "checked" => txn[t].kind = "report",
             p = "ready" => txn[t].kind = "assign",
             txn[t].pc # "ready"
      PROVE  TaskInv'
    <2> DEFINE new == [txn[t] EXCEPT !.pc = p]
    <2>1. new \in TxnStates
        BY TxnMoves DEF Phases
    <2>2. /\ new.pc = p /\ new.seen = txn[t].seen /\ new.was = txn[t].was
          /\ new.holder = txn[t].holder /\ new.request = txn[t].request
          /\ new.inserts = txn[t].inserts /\ new.kind = txn[t].kind /\ new.what = txn[t].what
          /\ new.expected = txn[t].expected /\ new.actor = txn[t].actor
        BY TxnMoves DEF TxnStates
    <2>3. txn' = [txn EXCEPT ![t] = new]
        BY <1>5
    <2> HIDE DEF new
    <2>4. TypeOK'
        BY <1>5, <2>1, <2>3 DEF TypeOK
    <2>5. LocksHold'
        BY <1>5, <2>2, <2>3 DEF TypeOK, LocksHold, HasLock
    <2>6. ChecksHold'
        BY <1>5, <2>2, <2>3 DEF TypeOK, ChecksHold, ChecksOf, Idle, HasLock
    <2> QED
        BY <2>4, <2>5, <2>6 DEF TaskInv, TransactionsConsistent
<1>6. ASSUME NEW t \in Transactions, Authorize(t) PROVE TaskInv'
    BY <1>5, <1>6 DEF Authorize, HasLock
<1>7. ASSUME NEW t \in Transactions, Check(t) PROVE TaskInv'
    <2>1. txn[t].kind \in {"assign", "report"}
        BY TxnMoves
    <2> QED
        BY <1>5, <1>7, <2>1 DEF Check, HasLock, Acceptable, RevisionMatches, MayReport
<1>8. ASSUME NEW t \in Transactions, Refuse(t) \/ Abort(t) PROVE TaskInv'
    BY <1>8, EndKeepsInv DEF Refuse, Abort
<1>9. ASSUME NEW t \in Transactions, UpsertStatus(t) PROVE TaskInv'
    <2> DEFINE c == txn[t].what
               i == IF c \in codes THEN NoCode ELSE c
               new == [txn[t] EXCEPT !.pc = "ready", !.inserts = i]
    <2>0. txn[t].pc = "checked" /\ txn[t].kind = "report" /\ c \in Codes
        BY <1>9 DEF UpsertStatus, ChecksHold, ChecksOf, Idle
    <2>1. new \in TxnStates
        BY <2>0, TxnMoves DEF AllCodes
    <2>2. /\ new.pc = "ready" /\ new.seen = txn[t].seen /\ new.was = txn[t].was
          /\ new.holder = txn[t].holder /\ new.request = txn[t].request
          /\ new.inserts = i /\ new.kind = txn[t].kind /\ new.what = txn[t].what
          /\ new.expected = txn[t].expected /\ new.actor = txn[t].actor
        BY TxnMoves DEF TxnStates
    <2>3. txn' = [txn EXCEPT ![t] = new]
        BY <1>9 DEF UpsertStatus
    <2>7. i \in {NoCode, c} /\ c \in codes \cup {i}
        OBVIOUS
    <2> HIDE DEF new, i
    <2>4. TypeOK'
        BY <1>9, <2>1, <2>3 DEF UpsertStatus, TypeOK
    <2>5. LocksHold'
        BY <1>9, <2>0, <2>2, <2>3 DEF UpsertStatus, TypeOK, LocksHold, HasLock
    <2>6. ChecksHold'
        BY <1>9, <2>0, <2>2, <2>3, <2>7 DEF UpsertStatus, TypeOK, ChecksHold, ChecksOf, Idle
    <2> QED
        BY <2>4, <2>5, <2>6 DEF TaskInv, TransactionsConsistent
<1>10. ASSUME NEW t \in Transactions, Commit(t) PROVE TaskInv'
    <2> DEFINE r == txn[t].request
               c == txn[t].what
               d == [kind |-> txn[t].kind, by |-> txn[t].actor, what |-> c, on |-> txn[t].expected]
    <2>0. /\ r \in Requests /\ txn[t].pc = "ready" /\ txn[t].seen \in Nat
          /\ txn[t].was \in AllCodes /\ txn[t].inserts \in AllCodes \cup {NoCode}
          /\ txn[t].kind \in {"assign", "report"}
          /\ c \in IF txn[t].kind = "assign" THEN Employees ELSE Codes
        BY <1>10, TxnMoves DEF Commit, TxnStates, ChecksHold, ChecksOf, Idle
    <2>1. d \in Decision
        BY <2>0, TxnMoves DEF Decision, TxnStates
    <2>2. TypeOK'
        <3>1. revision' \in [Requests -> Nat]
            BY <1>10, <2>0 DEF Commit, TypeOK
        <3>2. decisions' \in [Requests -> Seq(Decision)]
            BY <1>10, <2>0, <2>1 DEF Commit, TypeOK
        <3>3. history' \in [Requests -> Seq(AllCodes \X AllCodes)]
            <4>1. CASE txn[t].kind = "assign"
                BY <1>10, <4>1 DEF Commit, TypeOK
            <4>2. CASE txn[t].kind = "report"
                <5> DEFINE S == AllCodes \X AllCodes
                           pair == <<txn[t].was, c>>
                <5>1. pair \in S /\ history \in [Requests -> Seq(S)]
                    BY <2>0, <4>2 DEF AllCodes, TypeOK
                <5>2. \/ history' = history
                      \/ history' = [history EXCEPT ![r] = Append(history[r], pair)]
                    BY <1>10, <4>2 DEF Commit
                <5> HIDE DEF S, pair
                <5>3. [history EXCEPT ![r] = Append(history[r], pair)] \in [Requests -> Seq(S)]
                    BY <2>0, <5>1, AppendType
                <5>4. history' \in [Requests -> Seq(S)]
                    BY <5>1, <5>2, <5>3
                <5> QED
                    BY <5>4 DEF S
            <4> QED
                BY <2>0, <4>1, <4>2
        <3>4. assignee' \in [Requests -> Employees \cup {Nobody}] /\ status' \in [Requests -> AllCodes]
            BY <1>10, <2>0 DEF Commit, TypeOK, AllCodes
        <3>5. codes' \in SUBSET AllCodes
            BY <1>10, <2>0 DEF Commit, TypeOK
        <3> QED
            BY <1>10, <3>1, <3>2, <3>3, <3>4, <3>5, FreshType DEF Commit, TypeOK
    <2>3. \A u \in Transactions \ {t} : HasLock(u) => txn[u].request # r
        BY <2>0 DEF LocksHold, HasLock
    <2>4. /\ txn' = [txn EXCEPT ![t] = Fresh]
          /\ codes \subseteq codes'
          /\ \A q \in Requests \ {r} : /\ revision'[q] = revision[q] /\ status'[q] = status[q]
                                       /\ assignee'[q] = assignee[q]
        <3>1. CASE txn[t].kind = "assign"
            BY <1>10, <3>1, <2>0 DEF Commit, TypeOK
        <3>2. CASE txn[t].kind = "report"
            BY <1>10, <3>2, <2>0 DEF Commit, TypeOK
        <3> QED
            BY <2>0, <3>1, <3>2
    <2>5. LocksHold'
        <3>1. ~HasLock(t)'
            BY <2>4, FreshType DEF HasLock, TypeOK
        <3>2. ASSUME NEW u \in Transactions \ {t}
              PROVE  txn'[u] = txn[u] /\ (HasLock(u)' <=> HasLock(u))
            BY <2>4 DEF HasLock, TypeOK
        <3>3. ASSUME NEW u \in Transactions, HasLock(u)'
              PROVE  /\ txn'[u].seen = revision'[txn'[u].request]
                     /\ txn'[u].was = status'[txn'[u].request]
                     /\ txn'[u].holder = assignee'[txn'[u].request]
            <4>1. u # t /\ HasLock(u) /\ txn'[u] = txn[u]
                BY <3>1, <3>2, <3>3
            <4>2. txn[u].request \in Requests \ {r}
                BY <4>1, <2>3, TxnMoves
            <4> QED
                BY <4>1, <4>2, <2>4 DEF LocksHold
        <3> QED
            BY <3>1, <3>2, <3>3 DEF LocksHold
    <2>6. ChecksHold'
        <3> SUFFICES ASSUME NEW u \in Transactions
                     PROVE  ChecksOf(u)'
            BY DEF ChecksHold
        <3>1. CASE u = t
            BY <2>4, <3>1, FreshType DEF ChecksOf, Idle, TypeOK
        <3>2. CASE u # t
            <4>1. txn'[u] = txn[u]
                BY <2>4, <3>2 DEF TypeOK
            <4> QED
                BY <2>4, <4>1 DEF ChecksHold, ChecksOf, Idle
        <3> QED
            BY <3>1, <3>2
    <2> QED
        BY <2>2, <2>5, <2>6 DEF TaskInv, TransactionsConsistent
<1>11. CASE UNCHANGED vars
    BY <1>11 DEF vars, TaskInv, TypeOK, TransactionsConsistent, LocksHold, ChecksHold, ChecksOf, HasLock, Idle
<1> QED
    BY <1>1, <1>2, <1>3, <1>4, <1>6, <1>7, <1>8, <1>9, <1>10, <1>11 DEF Next, Step

\* Every variable stays in its type: codes are strings of the enumeration, the
\* revision a natural number, every decision a well-formed row.
THEOREM TypeCorrect == Spec => []TypeOK
<1>1. TaskInv => TypeOK
    BY DEF TaskInv
<1> QED
    BY <1>1, TaskInvInit, TaskInvStep, PTL DEF Spec

\* Concurrent sessions never break what a transaction has read or checked.
THEOREM SessionsAreConsistent == Spec => []TransactionsConsistent
<1>1. TaskInv => TransactionsConsistent
    BY DEF TaskInv
<1> QED
    BY <1>1, TaskInvInit, TaskInvStep, PTL DEF Spec

-----------------------------------------------------------------------------
(* The refinement: only Commit touches the tables, and it is one decision   *)
(* of the ledger.                                                           *)

Decides(r, a) ==
    \/ \E e \in Employees : Ledger!Assign(r, a, e)
    \/ \E c \in Codes : Ledger!Report(r, a, c)

\* The commit of an operation is the ledger's decision on the request.
LEMMA CommitDecides ==
    ASSUME TaskInv, NEW t \in Transactions, Commit(t)
    PROVE  Decides(txn[t].request, txn[t].actor)
<1> DEFINE r == txn[t].request
           a == txn[t].actor
           c == txn[t].what
<1>1. /\ txn[t].pc = "ready" /\ txn[t].kind \in {"assign", "report"}
      /\ txn[t].expected = revision[r] /\ txn[t].seen = revision[r]
      /\ txn[t].was = status[r] /\ txn[t].holder = assignee[r]
    BY TxnMoves DEF Commit, TaskInv, TransactionsConsistent, LocksHold, HasLock, ChecksHold, ChecksOf
<1>2. CASE txn[t].kind = "assign"
    <2>1. c \in Employees
        BY <1>1, <1>2 DEF TaskInv, TransactionsConsistent, ChecksHold, ChecksOf, Idle
    <2>2. Ledger!Assign(r, a, c)
        BY <1>1, <1>2 DEF Commit, Ledger!Assign
    <2> QED
        BY <2>1, <2>2 DEF Decides
<1>3. CASE txn[t].kind = "report"
    <2>1. c \in Codes /\ (a \in Owners \/ a = assignee[r])
        BY <1>1, <1>3 DEF TaskInv, TransactionsConsistent, ChecksHold, ChecksOf, Idle
    <2>2. Ledger!Report(r, a, c)
        BY <1>1, <1>3, <2>1 DEF Commit, Ledger!Report
    <2> QED
        BY <2>1, <2>2 DEF Decides
<1> QED
    BY <1>1, <1>2, <1>3

\* Every step is a decision of the ledger or leaves the tables alone.
LEMMA StepsDecide ==
    ASSUME TaskInv, [Next]_vars
    PROVE  \/ UNCHANGED table
           \/ \E t \in Transactions :
                  Commit(t) /\ Decides(txn[t].request, txn[t].actor)
<1>1. CASE \E t \in Transactions : Commit(t)
    BY <1>1, CommitDecides
<1>2. CASE ~ \E t \in Transactions : Commit(t)
    BY <1>2 DEF Next, vars, table, Step, ChangeMember, CreateStatus, Begin, Lock, Authorize, Check,
                Refuse, UpsertStatus, Abort
<1> QED
    BY <1>1, <1>2

\* The workflow implements the ledger of atomic, fully informed decisions.
THEOREM WorkflowActsAtomically == Spec => ActsAtomically
<1>1. Init => Ledger!Init
    BY DEF Init, Ledger!Init
<1>2. TaskInv /\ [Next]_vars => [Ledger!Next]_(Ledger!ledger)
    <2> SUFFICES ASSUME TaskInv, [Next]_vars PROVE [Ledger!Next]_(Ledger!ledger)
        OBVIOUS
    <2>1. CASE UNCHANGED table
        BY <2>1 DEF table, Ledger!ledger
    <2>2. ASSUME NEW t \in Transactions, Decides(txn[t].request, txn[t].actor)
          PROVE  Ledger!Next
        BY <2>2, TxnMoves DEF Decides, Ledger!Next, Actors, TaskInv
    <2> QED
        BY <2>1, <2>2, StepsDecide
<1> QED
    BY <1>1, <1>2, TaskInvInit, TaskInvStep, PTL DEF Spec, ActsAtomically, Ledger!Spec

-----------------------------------------------------------------------------
(* Invariants of the tables follow from the shape of a decision.            *)

\* What the tables look like after one decision on request r.
LEMMA DecisionShape ==
    ASSUME TaskInv, NEW t \in Transactions, Decides(txn[t].request, txn[t].actor)
    PROVE  \E d \in Decision :
              LET r == txn[t].request IN
              /\ r \in Requests
              /\ d.on = revision[r] /\ d.by = txn[t].actor
              /\ revision' = [revision EXCEPT ![r] = revision[r] + 1]
              /\ decisions' = [decisions EXCEPT ![r] = Append(decisions[r], d)]
              /\ \/ /\ d.kind = "assign" /\ d.what \in Employees
                    /\ assignee' = [assignee EXCEPT ![r] = d.what]
                    /\ UNCHANGED <<status, history>>
                 \/ /\ d.kind = "report" /\ d.what \in Codes
                    /\ d.by \in Owners \/ d.by = assignee[r]
                    /\ status' = [status EXCEPT ![r] = d.what]
                    /\ history' = IF d.what = status[r] THEN history
                                  ELSE [history EXCEPT ![r] =
                                           Append(history[r], <<status[r], d.what>>)]
                    /\ UNCHANGED assignee
<1> DEFINE r == txn[t].request
           a == txn[t].actor
<1>1. r \in Requests /\ a \in Actors /\ revision[r] \in Nat
    BY TxnMoves DEF TaskInv, TypeOK
<1>2. ASSUME NEW e \in Employees, Ledger!Assign(r, a, e)
      PROVE  [kind |-> "assign", by |-> a, what |-> e, on |-> revision[r]] \in Decision
    BY <1>1 DEF Decision
<1>3. ASSUME NEW c \in Codes, Ledger!Report(r, a, c)
      PROVE  [kind |-> "report", by |-> a, what |-> c, on |-> revision[r]] \in Decision
    BY <1>1 DEF Decision, AllCodes
<1>4. CASE \E e \in Employees : Ledger!Assign(r, a, e)
    <2>1. PICK e \in Employees : Ledger!Assign(r, a, e)
        BY <1>4
    <2> [kind |-> "assign", by |-> a, what |-> e, on |-> revision[r]] \in Decision
        BY <1>2, <2>1
    <2> WITNESS [kind |-> "assign", by |-> a, what |-> e, on |-> revision[r]] \in Decision
    <2> QED
        BY <1>1, <1>2, <2>1 DEF Ledger!Assign
<1>5. CASE \E c \in Codes : Ledger!Report(r, a, c)
    <2>1. PICK c \in Codes : Ledger!Report(r, a, c)
        BY <1>5
    <2> [kind |-> "report", by |-> a, what |-> c, on |-> revision[r]] \in Decision
        BY <1>3, <2>1
    <2> WITNESS [kind |-> "report", by |-> a, what |-> c, on |-> revision[r]] \in Decision
    <2> QED
        BY <1>1, <1>3, <2>1 DEF Ledger!Report
<1> QED
    BY <1>4, <1>5 DEF Decides

\* One decision keeps the count and the knowledge right.
LEMMA NoDecisionLostStep ==
    ASSUME TaskInv, [Next]_vars, NoDecisionLost
    PROVE  NoDecisionLost'
<1>0. TypeOK
    BY DEF TaskInv
<1>1. CASE UNCHANGED table
    BY <1>1 DEF table, NoDecisionLost
<1>2. ASSUME NEW t \in Transactions, Decides(txn[t].request, txn[t].actor)
      PROVE  NoDecisionLost'
    <2> DEFINE r == txn[t].request
    <2>1. PICK d \in Decision :
              /\ r \in Requests /\ d.on = revision[r]
              /\ revision' = [revision EXCEPT ![r] = revision[r] + 1]
              /\ decisions' = [decisions EXCEPT ![r] = Append(decisions[r], d)]
        BY <1>2, DecisionShape
    <2> HIDE DEF r
    <2>2. decisions[r] \in Seq(Decision) /\ revision[r] = Len(decisions[r])
        BY <1>0, <2>1 DEF TypeOK, NoDecisionLost
    <2>3. /\ Len(Append(decisions[r], d)) = Len(decisions[r]) + 1
          /\ \A i \in 1..Len(decisions[r]) : Append(decisions[r], d)[i] = decisions[r][i]
          /\ Append(decisions[r], d)[Len(decisions[r]) + 1] = d
        BY <2>2
    <2>4. ASSUME NEW i \in DOMAIN Append(decisions[r], d)
          PROVE  Append(decisions[r], d)[i].on = i - 1
        BY <2>1, <2>2, <2>3 DEF NoDecisionLost
    <2> QED
        BY <1>0, <2>1, <2>2, <2>3, <2>4 DEF NoDecisionLost, TypeOK
<1> QED
    BY <1>1, <1>2, StepsDecide

\* No decision is lost and each was taken on the card of the one before it.
THEOREM DecisionsAreNotLost == Spec => []NoDecisionLost
<1>1. Init => NoDecisionLost
    BY DEF Init, NoDecisionLost
<1>2. TaskInv /\ NoDecisionLost /\ [Next]_vars => NoDecisionLost'
    BY NoDecisionLostStep
<1> QED
    BY <1>1, <1>2, TaskInvInit, TaskInvStep, PTL DEF Spec

-----------------------------------------------------------------------------
\* A status row that was read or inserted is there once the report commits.
LEMMA StatusesExistStep ==
    ASSUME TaskInv, [Next]_vars, StatusesExist
    PROVE  StatusesExist'
<1>0. TypeOK
    BY DEF TaskInv
<1>1. codes \subseteq codes'
    BY DEF Next, vars, table, Step, ChangeMember, CreateStatus, Begin, Lock, Authorize, Check,
           Refuse, UpsertStatus, Abort, Commit
<1>2. CASE UNCHANGED table
    BY <1>1, <1>2 DEF table, StatusesExist
<1>3. ASSUME NEW t \in Transactions, Commit(t), Decides(txn[t].request, txn[t].actor)
      PROVE  StatusesExist'
    <2> DEFINE r == txn[t].request
               c == txn[t].what
    <2>1. r \in Requests /\ txn[t].kind \in {"assign", "report"}
        BY TxnMoves, <1>0
    <2>2. CASE txn[t].kind = "assign"
        BY <1>1, <1>3, <2>2 DEF Commit, StatusesExist
    <2>3. CASE txn[t].kind = "report"
        <3>1. c \in codes'
            <4>1. c \in codes \cup {txn[t].inserts} /\ c \in Codes
                BY <1>3, <2>3 DEF Commit, TaskInv, TransactionsConsistent, ChecksHold, ChecksOf, Idle
            <4>2. c # NoCode
                BY <4>1, NamesAssumption DEF AllCodes
            <4> QED
                BY <1>3, <4>1, <4>2 DEF Commit
        <3>2. status' = [status EXCEPT ![r] = c]
            BY <1>3, <2>3 DEF Commit
        <3> DEFINE row == <<txn[t].was, c>>
        <3>3. \/ history' = history
              \/ history' = [history EXCEPT ![r] = Append(history[r], row)]
            BY <1>3, <2>3 DEF Commit
        <3>4. row[2] = c
            OBVIOUS
        <3> HIDE DEF r, c, row
        <3>5. history[r] \in Seq(AllCodes \X AllCodes)
            BY <1>0, <2>1 DEF TypeOK
        <3>6. ASSUME NEW i \in DOMAIN Append(history[r], row)
              PROVE  Append(history[r], row)[i][2] \in codes'
            <4>1. CASE i = Len(history[r]) + 1
                BY <3>1, <3>4, <3>5, <4>1
            <4>2. CASE i \in DOMAIN history[r]
                BY <1>1, <2>1, <3>5, <4>2 DEF StatusesExist
            <4> QED
                BY <3>5, <4>1, <4>2
        <3> QED
            BY <1>0, <1>1, <2>1, <3>1, <3>2, <3>3, <3>6 DEF StatusesExist, TypeOK
    <2> QED
        BY <2>1, <2>2, <2>3
<1> QED
    BY <1>2, <1>3, StepsDecide

\* Requests and history never name a status whose insertion was rolled back.
THEOREM StatusesAlwaysExist == Spec => []StatusesExist
<1>1. Init => StatusesExist
    BY DEF Init, StatusesExist
<1>2. TaskInv /\ StatusesExist /\ [Next]_vars => StatusesExist'
    BY StatusesExistStep
<1> QED
    BY <1>1, <1>2, TaskInvInit, TaskInvStep, PTL DEF Spec

-----------------------------------------------------------------------------
\* Appending the row of a status change continues the path.
LEMMA HistoryIsPathStep ==
    ASSUME TaskInv, [Next]_vars, HistoryIsPath
    PROVE  HistoryIsPath'
<1>0. TypeOK
    BY DEF TaskInv
<1>1. CASE UNCHANGED table
    BY <1>1 DEF table, HistoryIsPath
<1>2. ASSUME NEW t \in Transactions, Decides(txn[t].request, txn[t].actor)
      PROVE  HistoryIsPath'
    <2> DEFINE r == txn[t].request
    <2>1. PICK d \in Decision :
              /\ r \in Requests
              /\ \/ UNCHANGED <<status, history>>
                 \/ /\ status' = [status EXCEPT ![r] = d.what]
                    /\ history' = IF d.what = status[r] THEN history
                                  ELSE [history EXCEPT ![r] =
                                           Append(history[r], <<status[r], d.what>>)]
        BY <1>2, DecisionShape
    <2>2. CASE UNCHANGED <<status, history>>
        BY <2>2 DEF HistoryIsPath
    <2>3. CASE status' = [status EXCEPT ![r] = status[r]] /\ history' = history
        <3>1. status' = status
            BY <1>0, <2>1, <2>3 DEF TypeOK
        <3> QED
            BY <2>3, <3>1 DEF HistoryIsPath
    <2>4. ASSUME d.what # status[r], status' = [status EXCEPT ![r] = d.what],
                 history' = [history EXCEPT ![r] = Append(history[r], <<status[r], d.what>>)]
          PROVE  HistoryIsPath'
        <3> DEFINE h == history[r]
                   row == <<status[r], d.what>>
        <3>1. row[1] = status[r] /\ row[2] = d.what /\ row[1] # row[2]
            BY <2>4
        <3>2. /\ h \in Seq(AllCodes \X AllCodes)
              /\ h = <<>> => status[r] = InitialCode
              /\ h # <<>> => h[1][1] = InitialCode /\ h[Len(h)][2] = status[r]
              /\ \A i \in DOMAIN h : h[i][1] # h[i][2]
              /\ \A i \in DOMAIN h \ {1} : h[i][1] = h[i - 1][2]
            BY <1>0, <2>1 DEF TypeOK, HistoryIsPath
        <3>3. history' = [history EXCEPT ![r] = Append(h, row)]
            BY <2>4
        <3> HIDE DEF h, row, r
        <3> DEFINE g == Append(h, row)
        <3>4. /\ Len(g) = Len(h) + 1 /\ g[Len(h) + 1] = row /\ DOMAIN g = 1..(Len(h) + 1)
              /\ \A i \in 1..Len(h) : g[i] = h[i]
              /\ DOMAIN h = 1..Len(h) /\ Len(h) \in Nat /\ g # <<>>
              /\ h = <<>> <=> Len(h) = 0
            <4>1. Len(h) \in Nat /\ DOMAIN h = 1..Len(h) /\ (h = <<>> <=> Len(h) = 0)
                BY <3>2
            <4>2. Len(g) = Len(h) + 1 /\ g[Len(h) + 1] = row /\ DOMAIN g = 1..(Len(h) + 1)
                BY <3>2
            <4>3. \A i \in 1..Len(h) : g[i] = h[i]
                BY <3>2
            <4>4. g # <<>>
                BY <4>1, <4>2
            <4> QED
                BY <4>1, <4>2, <4>3, <4>4
        <3> HIDE DEF g
        <3>5. g[1][1] = InitialCode
            BY <3>1, <3>2, <3>4
        <3>6. g[Len(g)][2] = d.what
            BY <3>1, <3>4
        <3>7. \A i \in DOMAIN g : g[i][1] # g[i][2]
            BY <3>1, <3>2, <3>4
        <3>8. ASSUME NEW i \in DOMAIN g \ {1} PROVE g[i][1] = g[i - 1][2]
            <4>1. CASE i = Len(h) + 1
                BY <3>1, <3>2, <3>4, <4>1
            <4>2. CASE i \in DOMAIN h
                BY <3>2, <3>4, <4>2
            <4> QED
                BY <3>4, <4>1, <4>2
        <3>9. history' = [history EXCEPT ![r] = g]
            BY <3>3 DEF g
        <3>10. status'[r] = d.what /\ history'[r] = g
            BY <1>0, <2>1, <2>4, <3>9 DEF TypeOK, r
        <3>11. \A q \in Requests \ {r} : status'[q] = status[q] /\ history'[q] = history[q]
            BY <1>0, <2>1, <2>4, <3>9 DEF TypeOK, r
        <3> SUFFICES ASSUME NEW q \in Requests
                     PROVE  LET k == history'[q] IN
                            /\ k = <<>> => status'[q] = InitialCode
                            /\ k # <<>> => k[1][1] = InitialCode /\ k[Len(k)][2] = status'[q]
                            /\ \A i \in DOMAIN k : k[i][1] # k[i][2]
                            /\ \A i \in DOMAIN k \ {1} : k[i][1] = k[i - 1][2]
            BY DEF HistoryIsPath
        <3>12. CASE q = r
            BY <3>4, <3>5, <3>6, <3>7, <3>8, <3>10, <3>12
        <3>13. CASE q # r
            BY <3>11, <3>13 DEF HistoryIsPath
        <3> QED
            BY <3>12, <3>13
    <2> QED
        BY <2>1, <2>2, <2>3, <2>4
<1> QED
    BY <1>1, <1>2, StepsDecide

\* The status history of every request is a path from the first status to the
\* current one.
THEOREM HistoryIsAlwaysPath == Spec => []HistoryIsPath
<1>1. Init => HistoryIsPath
    BY DEF Init, HistoryIsPath
<1>2. TaskInv /\ HistoryIsPath /\ [Next]_vars => HistoryIsPath'
    BY HistoryIsPathStep
<1> QED
    BY <1>1, <1>2, TaskInvInit, TaskInvStep, PTL DEF Spec

-----------------------------------------------------------------------------
\* The assignee is whoever the latest assignment names.
LatestAssignment(d, e) ==
    \E j \in 1..Len(d) : /\ d[j].kind = "assign" /\ d[j].what = e
                         /\ \A k \in (j + 1)..Len(d) : d[k].kind # "assign"

AssigneeIsLatest ==
    \A r \in Requests : assignee[r] # Nobody => LatestAssignment(decisions[r], assignee[r])

FollowsIn(d) ==
    \A i \in 1..Len(d) : d[i].kind = "report" /\ d[i].by \notin Owners =>
        \E j \in 1..(i - 1) : /\ d[j].kind = "assign" /\ d[j].what = d[i].by
                              /\ \A k \in (j + 1)..(i - 1) : d[k].kind # "assign"

\* One more decision on a sequence that follows the assignments.
LEMMA AppendFollows ==
    ASSUME NEW d \in Seq(Decision), NEW x \in Decision, FollowsIn(d), NEW e,
           e # Nobody => LatestAssignment(d, e),
           x.kind = "report" => x.by \in Owners \/ x.by = e
    PROVE  /\ FollowsIn(Append(d, x))
           /\ x.kind = "assign" => LatestAssignment(Append(d, x), x.what)
           /\ x.kind = "report" /\ e # Nobody => LatestAssignment(Append(d, x), e)
<1> DEFINE g == Append(d, x)
           n == Len(d)
<1>1. /\ n \in Nat /\ Len(g) = n + 1 /\ g[n + 1] = x
      /\ \A i \in 1..n : g[i] = d[i]
    OBVIOUS
<1>2. x.by \in Actors /\ x.kind \in {"assign", "report"}
    BY DEF Decision
<1> HIDE DEF g, n
<1>3. ASSUME NEW i \in 1..Len(g), g[i].kind = "report", g[i].by \notin Owners
      PROVE  \E j \in 1..(i - 1) : /\ g[j].kind = "assign" /\ g[j].what = g[i].by
                                   /\ \A k \in (j + 1)..(i - 1) : g[k].kind # "assign"
    <2>1. CASE i = n + 1
        <3>1. x.by = e /\ e # Nobody
            BY <1>1, <1>2, <1>3, <2>1, NamesAssumption
        <3>2. PICK j \in 1..n : /\ d[j].kind = "assign" /\ d[j].what = e
                                /\ \A k \in (j + 1)..n : d[k].kind # "assign"
            BY <3>1 DEF LatestAssignment, n
        <3>3. g[j].kind = "assign" /\ g[j].what = g[i].by
            BY <1>1, <2>1, <3>1, <3>2
        <3>4. \A k \in (j + 1)..n : g[k].kind # "assign"
            BY <1>1, <3>2
        <3> QED
            BY <1>1, <2>1, <3>3, <3>4
    <2>2. CASE i \in 1..n
        <3>1. PICK j \in 1..(i - 1) : /\ d[j].kind = "assign" /\ d[j].what = d[i].by
                                      /\ \A k \in (j + 1)..(i - 1) : d[k].kind # "assign"
            BY <1>1, <1>3, <2>2 DEF FollowsIn, n
        <3>2. g[j] = d[j] /\ g[i] = d[i] /\ \A k \in (j + 1)..(i - 1) : g[k] = d[k]
            BY <1>1, <2>2
        <3> QED
            BY <3>1, <3>2
    <2> QED
        BY <1>1, <2>1, <2>2
<1>4. FollowsIn(g)
    BY <1>3 DEF FollowsIn
<1>5. ASSUME x.kind = "assign" PROVE LatestAssignment(g, x.what)
    <2>1. n + 1 \in 1..Len(g) /\ g[n + 1].kind = "assign" /\ g[n + 1].what = x.what
        BY <1>1, <1>5
    <2>2. \A k \in (n + 2)..Len(g) : g[k].kind # "assign"
        BY <1>1
    <2> QED
        BY <1>1, <2>1, <2>2 DEF LatestAssignment
<1>6. ASSUME x.kind = "report", e # Nobody PROVE LatestAssignment(g, e)
    <2>1. PICK j \in 1..n : /\ d[j].kind = "assign" /\ d[j].what = e
                            /\ \A k \in (j + 1)..n : d[k].kind # "assign"
        BY <1>6 DEF LatestAssignment, n
    <2>2. j \in 1..Len(g) /\ g[j].kind = "assign" /\ g[j].what = e
        BY <1>1, <2>1
    <2>3. \A k \in (j + 1)..Len(g) : g[k].kind # "assign"
        <3> SUFFICES ASSUME NEW k \in (j + 1)..Len(g) PROVE g[k].kind # "assign"
            OBVIOUS
        <3>1. CASE k = n + 1
            BY <1>1, <1>6, <3>1
        <3>2. CASE k # n + 1
            BY <1>1, <2>1, <3>2
        <3> QED
            BY <3>1, <3>2
    <2> QED
        BY <2>2, <2>3 DEF LatestAssignment
<1> QED
    BY <1>4, <1>5, <1>6 DEF g

AssignmentInv ==
    AssigneeIsLatest /\ \A r \in Requests : FollowsIn(decisions[r])

\* Every decision follows the assignments before it.
LEMMA AssignmentInvStep ==
    ASSUME TaskInv, [Next]_vars, AssignmentInv
    PROVE  AssignmentInv'
<1>0. TypeOK
    BY DEF TaskInv
<1>1. CASE UNCHANGED table
    BY <1>1 DEF table, AssignmentInv, AssigneeIsLatest
<1>2. ASSUME NEW t \in Transactions, Decides(txn[t].request, txn[t].actor)
      PROVE  AssignmentInv'
    <2> DEFINE r == txn[t].request
    <2>1. PICK x \in Decision :
              /\ r \in Requests
              /\ decisions' = [decisions EXCEPT ![r] = Append(decisions[r], x)]
              /\ \/ x.kind = "assign" /\ assignee' = [assignee EXCEPT ![r] = x.what]
                 \/ /\ x.kind = "report" /\ (x.by \in Owners \/ x.by = assignee[r])
                    /\ UNCHANGED assignee
        BY <1>2, DecisionShape
    <2> HIDE DEF r
    <2>2. /\ decisions[r] \in Seq(Decision) /\ FollowsIn(decisions[r])
          /\ assignee[r] # Nobody => LatestAssignment(decisions[r], assignee[r])
        BY <1>0, <2>1 DEF TypeOK, AssignmentInv, AssigneeIsLatest
    <2>3. /\ FollowsIn(Append(decisions[r], x))
          /\ x.kind = "assign" => LatestAssignment(Append(decisions[r], x), x.what)
          /\ x.kind = "report" /\ assignee[r] # Nobody =>
                 LatestAssignment(Append(decisions[r], x), assignee[r])
        BY <2>1, <2>2, AppendFollows
    <2>4. decisions'[r] = Append(decisions[r], x)
        BY <1>0, <2>1 DEF TypeOK
    <2>5. \A q \in Requests \ {r} : decisions'[q] = decisions[q] /\ assignee'[q] = assignee[q]
        BY <1>0, <2>1 DEF TypeOK
    <2>6. IF x.kind = "assign" THEN assignee'[r] = x.what
                               ELSE x.kind = "report" /\ assignee'[r] = assignee[r]
        BY <1>0, <2>1 DEF TypeOK
    <2>7. \A q \in Requests : FollowsIn(decisions'[q])
        BY <2>3, <2>4, <2>5 DEF AssignmentInv
    <2>8. ASSUME NEW q \in Requests, assignee'[q] # Nobody
          PROVE  LatestAssignment(decisions'[q], assignee'[q])
        <3>1. CASE q = r
            BY <2>3, <2>4, <2>6, <2>8, <3>1
        <3>2. CASE q # r
            BY <2>5, <2>8, <3>2 DEF AssignmentInv, AssigneeIsLatest
        <3> QED
            BY <3>1, <3>2
    <2> QED
        BY <2>7, <2>8 DEF AssignmentInv, AssigneeIsLatest
<1> QED
    BY <1>1, <1>2, StepsDecide

\* Nobody but an owner reports on a request assigned to somebody else.
THEOREM ReportsAlwaysFollowAssignment == Spec => []ReportsFollowAssignment
<1>1. Init => AssignmentInv
    BY DEF Init, AssignmentInv, AssigneeIsLatest, FollowsIn
<1>2. TaskInv /\ AssignmentInv /\ [Next]_vars => AssignmentInv'
    BY AssignmentInvStep
<1>3. TaskInv /\ AssignmentInv => ReportsFollowAssignment
    <2> SUFFICES ASSUME TaskInv, AssignmentInv, NEW r \in Requests
                 PROVE  FollowsIn(decisions[r]) /\ DOMAIN decisions[r] = 1..Len(decisions[r])
        BY DEF ReportsFollowAssignment, FollowsIn
    <2>1. decisions[r] \in Seq(Decision)
        BY DEF TaskInv, TypeOK
    <2> QED
        BY <2>1 DEF AssignmentInv
<1> QED
    BY <1>1, <1>2, <1>3, TaskInvInit, TaskInvStep, PTL DEF Spec

-----------------------------------------------------------------------------
(* Revocation.  Access is read after the row lock, so an operation that has *)
(* not passed that read when the access ends never becomes a decision.      *)

\* None of e's operations has had its access read.
Waits(e) ==
    \A t \in Transactions : txn[t].actor = e => txn[t].pc \in {"idle", "begun", "locked"}

NoAccess(e) == \A r \in Requests : ~MayAct(e, r, {"requests.view"})

\* Whoever is shut out gets no further than the lock.
LEMMA ShutOutWaits ==
    ASSUME TypeOK, [Next]_vars, NEW e \in Employees \ Owners, Waits(e), NoAccess(e)
    PROVE  Waits(e)'
<1>1. ASSUME NEW t \in Transactions,
             \/ Lock(t) \/ Check(t) \/ Refuse(t) \/ UpsertStatus(t) \/ Commit(t) \/ Abort(t)
      PROVE  Waits(e)'
    <2>1. \A u \in Transactions \ {t} : txn'[u] = txn[u]
        BY <1>1 DEF Lock, Check, Refuse, UpsertStatus, Commit, Abort, TypeOK
    <2>2. txn[t] \in TxnStates
        BY TxnMoves
    <2>3. CASE Lock(t)
        <3>1. txn'[t].pc = "locked"
            BY <2>2, <2>3 DEF Lock, TypeOK, TxnStates
        <3> QED
            BY <2>1, <3>1 DEF Waits
    <2>4. CASE Refuse(t) \/ Commit(t) \/ Abort(t)
        <3>1. txn'[t].pc = "idle"
            BY <2>4, FreshType DEF Refuse, Commit, Abort, TypeOK
        <3> QED
            BY <2>1, <3>1 DEF Waits
    <2>5. CASE Check(t) \/ UpsertStatus(t)
        <3>1. txn[t].pc \in {"authorized", "checked"} /\ txn[t].actor # e
            BY <2>5 DEF Check, UpsertStatus, Waits
        <3>2. txn \in [Transactions -> TxnStates]
            BY DEF TypeOK
        <3>3. Check(t) => txn'[t].actor = txn[t].actor
            <4> SUFFICES ASSUME Check(t) PROVE txn'[t].actor = txn[t].actor
                OBVIOUS
            <4> DEFINE p == IF txn[t].kind = "assign" THEN "ready" ELSE "checked"
            <4>1. txn' = [txn EXCEPT ![t] = [txn[t] EXCEPT !.pc = p]]
                BY DEF Check
            <4> HIDE DEF p
            <4> QED
                BY <4>1, <2>2, <3>2 DEF TxnStates
        <3>4. UpsertStatus(t) => txn'[t].actor = txn[t].actor
            BY <2>2, <3>2 DEF UpsertStatus, TxnStates
        <3> QED
            BY <2>1, <2>5, <3>1, <3>3, <3>4 DEF Waits
    <2> QED
        BY <1>1, <2>3, <2>4, <2>5
<1>2. ASSUME NEW t \in Transactions, Authorize(t)
      PROVE  Waits(e)'
    <2>1. MayAct(txn[t].actor, txn[t].request, Needed(txn[t].kind))
        BY <1>2 DEF Authorize, Authorized
    <2>2. txn[t].actor # e
        BY <2>1, TxnMoves DEF MayAct, Needed, NoAccess
    <2>3. txn'[t].actor = txn[t].actor /\ \A u \in Transactions \ {t} : txn'[u] = txn[u]
        <3>1. txn[t] \in TxnStates /\ txn \in [Transactions -> TxnStates]
            BY DEF TypeOK
        <3>2. txn' = [txn EXCEPT ![t] = [txn[t] EXCEPT !.pc = "authorized"]]
            BY <1>2 DEF Authorize
        <3> QED
            BY <3>1, <3>2 DEF TxnStates
    <2> QED
        BY <2>2, <2>3 DEF Waits
<1>3. ASSUME NEW t \in Transactions, Begin(t)
      PROVE  Waits(e)'
    <2>1. PICK a \in Actors, r \in Requests, n \in 0..MaxOperations, k \in {"assign", "report"},
               x \in Employees \cup Codes : txn' = [txn EXCEPT ![t] = Call(a, r, n, k, x)]
        BY <1>3 DEF Begin
    <2>2. Call(a, r, n, k, x).pc = "begun"
        BY CallType, BoundAssumption
    <2> QED
        BY <2>1, <2>2 DEF Waits, TypeOK
<1>4. CASE UNCHANGED txn
    BY <1>4 DEF Waits
<1> QED
    BY <1>1, <1>2, <1>3, <1>4 DEF Next, Step, ChangeMember, CreateStatus, vars

\* The decisions of an employee who waits are the ones taken before.
LEMMA WaitingDecidesNothing ==
    ASSUME TaskInv, [Next]_vars, NEW e \in Employees, Waits(e)
    PROVE  TakenBy(e)' = TakenBy(e)
<1> DEFINE Own(d) == {j \in DOMAIN d : d[j].by = e}
<1>1. ASSUME NEW r \in Requests PROVE Own(decisions'[r]) = Own(decisions[r])
    <2>1. CASE UNCHANGED table
        BY <2>1 DEF table
    <2>2. ASSUME NEW t \in Transactions, Commit(t), Decides(txn[t].request, txn[t].actor)
          PROVE  Own(decisions'[r]) = Own(decisions[r])
        <3>1. txn[t].actor # e
            BY <2>2 DEF Commit, Waits
        <3>2. PICK x \in Decision :
                  /\ x.by = txn[t].actor
                  /\ decisions' = [decisions EXCEPT ![txn[t].request] = Append(@, x)]
            BY <2>2, DecisionShape
        <3>3. decisions[r] \in Seq(Decision) /\ r \in DOMAIN decisions
            BY DEF TaskInv, TypeOK
        <3>4. \/ decisions'[r] = decisions[r]
              \/ decisions'[r] = Append(decisions[r], x)
            BY <3>2, <3>3
        <3>5. Own(Append(decisions[r], x)) = Own(decisions[r])
            <4>1. /\ DOMAIN Append(decisions[r], x) = 1..(Len(decisions[r]) + 1)
                  /\ DOMAIN decisions[r] = 1..Len(decisions[r])
                  /\ Len(decisions[r]) \in Nat
                  /\ \A i \in 1..Len(decisions[r]) : Append(decisions[r], x)[i] = decisions[r][i]
                  /\ Append(decisions[r], x)[Len(decisions[r]) + 1] = x
                BY <3>3
            <4> QED
                BY <4>1, <3>1, <3>2
        <3> QED
            BY <3>4, <3>5
    <2> QED
        BY <2>1, <2>2, StepsDecide
<1>2. UNION {{<<r, i>> : i \in Own(decisions'[r])} : r \in Requests}
        = UNION {{<<r, i>> : i \in Own(decisions[r])} : r \in Requests}
    <2> HIDE DEF Own
    <2> QED
        BY <1>1
<1> QED
    BY <1>2 DEF TakenBy

\* An employee who loses a request for good takes no further decision, whatever
\* was begun before (task_workflow.py: access is read after the lock).
THEOREM RevokedEmployeesAlwaysStop == Spec => RevokedEmployeesStop
<1> SUFFICES ASSUME NEW e \in Employees \ Owners, NEW n \in 0..MaxOperations
             PROVE  Spec =>
        [](( /\ TakenBy(e) = n
             /\ \A t \in Transactions :
                    txn[t].actor = e => txn[t].pc \in {"idle", "begun", "locked"}
             /\ [](\A r \in Requests : ~MayAct(e, r, {"requests.view"})) )
           => [](TakenBy(e) = n))
    BY DEF RevokedEmployeesStop
<1> DEFINE Kept == TakenBy(e) = n /\ Waits(e)
<1>1. TakenBy(e) = n /\ (\A t \in Transactions :
              txn[t].actor = e => txn[t].pc \in {"idle", "begun", "locked"}) => Kept
    BY DEF Waits
<1>2. TaskInv /\ [Next]_vars /\ Kept /\ (\A r \in Requests : ~MayAct(e, r, {"requests.view"}))
        => Kept'
    BY ShutOutWaits, WaitingDecidesNothing DEF NoAccess, TaskInv
<1>3. Kept => TakenBy(e) = n
    OBVIOUS
<1> HIDE DEF Kept
<1> QED
    BY <1>1, <1>2, <1>3, TaskInvInit, TaskInvStep, PTL DEF Spec
=============================================================================
