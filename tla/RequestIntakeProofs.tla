------------------------- MODULE RequestIntakeProofs -------------------------
(***************************************************************************)
(* The promise of the idempotency key, for any number of authors, keys,    *)
(* payloads, sessions and calls.                                           *)
(***************************************************************************)
EXTENDS RequestIntake, FiniteSetTheorems, SequenceTheorems, TLAPS

\* A session that runs nothing has a well-typed state.
LEMMA FreshType == Fresh \in SessionStates
    BY NamesAssumption, BoundAssumption DEF Fresh, SessionStates, Phases, Results, Numbers

\* The slot of a call is an organization, its author and its key.
LEMMA SlotType ==
    ASSUME TypeOK, NEW t \in Sessions
    PROVE  Slot(t) \in Slots
<1>1. session[t] \in SessionStates
    BY DEF TypeOK
<1> QED
    BY <1>1 DEF Slot, Slots, Organizations, SessionStates

\* A step of a call's own keeps its arguments.
LEMMA GoesType ==
    ASSUME TypeOK, NEW t \in Sessions, NEW pc \in Phases, NEW n \in Numbers, NEW x \in Results,
           Goes(t, pc, n, x)
    PROVE  /\ session' \in [Sessions -> SessionStates]
           /\ session'[t].pc = pc /\ session'[t].number = n /\ session'[t].result = x
           /\ Slot(t)' = Slot(t) /\ session'[t].payload = session[t].payload
           /\ \A u \in Sessions \ {t} : session'[u] = session[u] /\ Slot(u)' = Slot(u)
<1>1. session \in [Sessions -> SessionStates] /\ session[t] \in SessionStates
    BY DEF TypeOK
<1>2. /\ session' = [session EXCEPT ![t] = [session[t] EXCEPT !.pc = pc, !.number = n,
                                                              !.result = x]]
      /\ [session[t] EXCEPT !.pc = pc, !.number = n, !.result = x] \in SessionStates
    BY <1>1 DEF Goes, SessionStates
<1>3. /\ session'[t] = [session[t] EXCEPT !.pc = pc, !.number = n, !.result = x]
      /\ session' \in [Sessions -> SessionStates]
      /\ \A u \in Sessions \ {t} : session'[u] = session[u]
    BY <1>1, <1>2
<1>4. \A u \in Sessions \ {t} : Slot(u)' = Slot(u)
    BY <1>3 DEF Slot
<1>5. /\ session'[t].payload = session[t].payload /\ session'[t].author = session[t].author
      /\ session'[t].key = session[t].key
      /\ session'[t].pc = pc /\ session'[t].number = n /\ session'[t].result = x
    BY <1>1, <1>3 DEF SessionStates
<1> QED
    BY <1>3, <1>4, <1>5 DEF Slot

\* What a SELECT by key leads to: the row's number, or a conflict.
LEMMA FindGoes ==
    ASSUME TypeOK, NEW t \in Sessions, NEW r \in requests, Find(t, r)
    PROVE  \/ r.payload = session[t].payload /\ Goes(t, "answering", r.number, "found")
           \/ r.payload # session[t].payload /\ Goes(t, "answering", 0, "conflict")
    BY DEF Find

\* The number of a row is a number.
LEMMA RowType ==
    ASSUME TypeOK, NEW r \in requests
    PROVE  r.number \in Numbers /\ r.slot \in Slots /\ r.payload \in Payloads
    BY DEF TypeOK, Rows

LEMMA ZeroNumber == 0 \in Numbers
    BY BoundAssumption DEF Numbers

\* Every action keeps every variable in its type.
LEMMA TypeStep == TypeOK /\ [Next]_vars => TypeOK'
<1> SUFFICES ASSUME TypeOK, [Next]_vars PROVE TypeOK'
    OBVIOUS
<1> USE FreshType, ZeroNumber
<1>1. ASSUME NEW a \in Authors, ChangeAccess(a) PROVE TypeOK'
    BY <1>1 DEF TypeOK, ChangeAccess
<1>2. ASSUME NEW t \in Sessions, Begin(t) PROVE TypeOK'
    <2>1. PICK a \in Authors, k \in Keys, p \in Payloads :
              session' = [session EXCEPT ![t] =
                             [Fresh EXCEPT !.pc = "begun", !.author = a, !.key = k, !.payload = p]]
        BY <1>2 DEF Begin
    <2>2. [Fresh EXCEPT !.pc = "begun", !.author = a, !.key = k, !.payload = p] \in SessionStates
        BY DEF SessionStates, Phases
    <2>3. begun' \in 0..MaxCalls
        BY <1>2, BoundAssumption DEF Begin, TypeOK
    <2> QED
        BY <1>2, <2>1, <2>2, <2>3 DEF Begin, TypeOK
<1>3. ASSUME NEW t \in Sessions, Authorize(t) PROVE TypeOK'
    BY <1>3, GoesType DEF Authorize, TypeOK, Phases, Results
<1>4. ASSUME NEW t \in Sessions, Refuse(t) \/ Abort(t) PROVE TypeOK'
    BY <1>4 DEF Refuse, Abort, TypeOK
<1>5. ASSUME NEW t \in Sessions, Search(t) PROVE TypeOK'
    <2>1. session' \in [Sessions -> SessionStates]
        BY <1>5, FindGoes, GoesType, RowType DEF Search, Phases, Results
    <2> QED
        BY <1>5, <2>1 DEF Search, TypeOK
<1>6. ASSUME NEW t \in Sessions, Draw(t) PROVE TypeOK'
    <2>1. drawn' \in Numbers /\ drawn' = drawn + 1
        BY <1>6, BoundAssumption DEF Draw, TypeOK, Numbers
    <2>2. session' \in [Sessions -> SessionStates]
        BY <1>6, <2>1, GoesType DEF Draw, Phases, Results
    <2> QED
        BY <1>6, <2>1, <2>2 DEF Draw, TypeOK
<1>7. ASSUME NEW t \in Sessions, Insert(t) PROVE TypeOK'
    <2>1. session[t].number \in Numbers
        BY DEF TypeOK, SessionStates
    <2>2. session' \in [Sessions -> SessionStates]
        BY <1>7, <2>1, GoesType DEF Insert, Phases, Results
    <2> QED
        BY <1>7, <2>2 DEF Insert, TypeOK
<1>8. ASSUME NEW t \in Sessions, Reread(t) PROVE TypeOK'
    <2>1. session' \in [Sessions -> SessionStates]
        BY <1>8, FindGoes, GoesType, RowType DEF Reread, Phases, Results
    <2> QED
        BY <1>8, <2>1 DEF Reread, TypeOK
<1>9. ASSUME NEW t \in Sessions, Commit(t) PROVE TypeOK'
    <2>1. session[t].number \in Numbers /\ session[t].payload \in Payloads
        BY DEF TypeOK, SessionStates
    <2>2. session' \in [Sessions -> SessionStates]
        BY <1>9, <2>1, GoesType DEF Commit, Phases, Results
    <2>3. requests' \in SUBSET Rows
        BY <1>9, <2>1, SlotType DEF Commit, TypeOK, Rows
    <2>4. trail' \in Seq(Numbers)
        BY <1>9, <2>1 DEF Commit, TypeOK
    <2> QED
        BY <1>9, <2>2, <2>3, <2>4 DEF Commit, TypeOK
<1>10. ASSUME NEW t \in Sessions, Respond(t) PROVE TypeOK'
    <2>1. session[t] \in SessionStates
        BY DEF TypeOK
    <2>2. AnswerOf(t) \in [slot : Slots, payload : Payloads, result : Results, number : Numbers]
        BY <2>1, SlotType DEF AnswerOf, SessionStates
    <2> QED
        BY <1>10, <2>2 DEF Respond, TypeOK
<1>11. CASE UNCHANGED vars
    BY <1>11 DEF vars, TypeOK
<1> QED
    BY <1>1, <1>2, <1>3, <1>4, <1>5, <1>6, <1>7, <1>8, <1>9, <1>10, <1>11 DEF Next, Step

LEMMA TypeInit == Init => TypeOK
    BY FreshType, ZeroNumber, BoundAssumption DEF Init, TypeOK

\* Every variable keeps its type, whatever the calls and the owner do.
THEOREM TypeCorrect == Spec => []TypeOK
    BY TypeInit, TypeStep, PTL DEF Spec

-----------------------------------------------------------------------------
(* One request per key.                                                    *)

IntakeInv == TypeOK /\ OneRequestPerKey /\ CallsConsistent

\* The initial state has no request, no answer and no running call.
LEMMA IntakeInit == Init => IntakeInv
<1> SUFFICES ASSUME Init PROVE IntakeInv
    OBVIOUS
<1>1. \A t \in Sessions : session[t].pc = "idle" /\ session[t].number = 0
    BY DEF Init, Fresh
<1>2. \A t \in Sessions : NumberOwned(t) /\ SlotOwned(t) /\ AnswerReady(t)
    BY <1>1 DEF NumberOwned, SlotOwned, AnswerReady
<1>3. TrailExact /\ DOMAIN answers = {}
    BY DEF Init, TrailExact
<1>4. AnswersTrue
    BY <1>3 DEF AnswersTrue
<1> QED
    BY <1>1, <1>2, <1>3, <1>4, TypeInit DEF Init, IntakeInv, OneRequestPerKey, CallsConsistent

\* What was answered and recorded is told from requests, trail and answers alone.
LEMMA RecordsStay ==
    ASSUME IntakeInv, UNCHANGED <<requests, trail, answers>>
    PROVE  TrailExact' /\ AnswersTrue'
    BY DEF IntakeInv, CallsConsistent, TrailExact, AnswersTrue, Intake!Truthful

\* A step of t that writes nothing and takes t to a phase in which it owns
\* nothing keeps the invariant.
LEMMA QuietStep ==
    ASSUME IntakeInv, TypeOK', NEW t \in Sessions,
           UNCHANGED <<requests, trail, drawn, answers>>,
           session'[t].pc \in {"idle", "begun", "authorized", "missing"},
           session'[t].number = 0,
           \A u \in Sessions \ {t} : session'[u] = session[u]
    PROVE  IntakeInv'
<1>1. \A u \in Sessions \ {t} : Slot(u)' = Slot(u) /\ AnswerOf(u)' = AnswerOf(u)
    BY DEF Slot, AnswerOf
<1>2. drawn \in Nat
    BY BoundAssumption DEF IntakeInv, TypeOK, Numbers
<1>3. ASSUME NEW u \in Sessions
      PROVE  session'[u].number \in 0..drawn /\ NumberOwned(u)' /\ SlotOwned(u)' /\ AnswerReady(u)'
    <2>1. CASE u = t
        BY <2>1, <1>2 DEF NumberOwned, SlotOwned, AnswerReady
    <2>2. CASE u # t
        <3>1. session'[u] = session[u] /\ session[u].number \in 0..drawn
            BY <2>2 DEF IntakeInv, CallsConsistent
        <3>2. NumberOwned(u)'
            <4>1. NumberOwned(u)
                BY DEF IntakeInv, CallsConsistent
            <4> QED
                BY <4>1, <3>1, <2>2 DEF NumberOwned
        <3>3. SlotOwned(u)'
            <4>1. SlotOwned(u)
                BY DEF IntakeInv, CallsConsistent
            <4> QED
                BY <4>1, <3>1, <1>1, <2>2 DEF SlotOwned
        <3>4. AnswerReady(u)'
            <4>1. AnswerReady(u)
                BY DEF IntakeInv, CallsConsistent
            <4> QED
                BY <4>1, <3>1, <1>1, <2>2 DEF AnswerReady, Intake!Truthful, Intake!Announced
        <3> QED
            BY <3>1, <3>2, <3>3, <3>4
    <2> QED
        BY <2>1, <2>2
<1>4. TrailExact' /\ AnswersTrue'
    BY RecordsStay
<1> QED
    BY <1>3, <1>4 DEF IntakeInv, CallsConsistent, OneRequestPerKey

\* So does a step that answers what a row found says.
LEMMA FoundStep ==
    ASSUME IntakeInv, TypeOK', NEW t \in Sessions, NEW r \in requests,
           r.slot = Slot(t), Find(t, r), UNCHANGED <<requests, trail, drawn, answers>>
    PROVE  IntakeInv'
<1>1. TypeOK /\ r.number \in 1..drawn /\ drawn \in Nat
    BY BoundAssumption DEF IntakeInv, CallsConsistent, TypeOK, Numbers
<1>2. /\ session'[t].pc = "answering" /\ session'[t].payload = session[t].payload
      /\ Slot(t)' = Slot(t)
      /\ \A u \in Sessions \ {t} : session'[u] = session[u] /\ Slot(u)' = Slot(u)
      /\ \/ r.payload = session[t].payload /\ session'[t].number = r.number
            /\ session'[t].result = "found"
         \/ r.payload # session[t].payload /\ session'[t].number = 0
            /\ session'[t].result = "conflict"
    BY <1>1, FindGoes, GoesType, RowType, ZeroNumber DEF Phases, Results
<1>3. ASSUME NEW u \in Sessions
      PROVE  session'[u].number \in 0..drawn /\ NumberOwned(u)' /\ SlotOwned(u)' /\ AnswerReady(u)'
    <2>1. CASE u = t
        <3>1. Intake!Truthful(AnswerOf(t))'
            BY <1>2 DEF Intake!Truthful, AnswerOf
        <3> QED
            BY <2>1, <3>1, <1>1, <1>2 DEF NumberOwned, SlotOwned, AnswerReady
    <2>2. CASE u # t
        <3>1. /\ session'[u] = session[u] /\ session[u].number \in 0..drawn
              /\ AnswerOf(u)' = AnswerOf(u) /\ Slot(u)' = Slot(u)
            BY <2>2, <1>2 DEF IntakeInv, CallsConsistent, AnswerOf
        <3>2. NumberOwned(u)'
            <4>1. NumberOwned(u)
                BY DEF IntakeInv, CallsConsistent
            <4> QED
                BY <4>1, <3>1, <1>1, <1>2, <2>2 DEF NumberOwned
        <3>3. SlotOwned(u)'
            <4>1. SlotOwned(u)
                BY DEF IntakeInv, CallsConsistent
            <4> QED
                BY <4>1, <3>1, <1>2, <2>2 DEF SlotOwned
        <3>4. AnswerReady(u)'
            <4>1. AnswerReady(u)
                BY DEF IntakeInv, CallsConsistent
            <4> QED
                BY <4>1, <3>1, <1>2, <2>2 DEF AnswerReady, Intake!Truthful, Intake!Announced
        <3> QED
            BY <3>1, <3>2, <3>3, <3>4
    <2> QED
        BY <2>1, <2>2
<1>4. TrailExact' /\ AnswersTrue'
    BY RecordsStay
<1> QED
    BY <1>3, <1>4 DEF IntakeInv, CallsConsistent, OneRequestPerKey

\* The number drawn is above all numbers known.
LEMMA DrawStep ==
    ASSUME IntakeInv, TypeOK', NEW t \in Sessions, Draw(t)
    PROVE  IntakeInv'
<1>1. TypeOK /\ drawn \in Nat /\ drawn' = drawn + 1 /\ drawn' \in Numbers
    BY BoundAssumption DEF IntakeInv, TypeOK, Numbers, Draw
<1>2. /\ session'[t].pc = "drawn" /\ session'[t].number = drawn + 1
      /\ \A u \in Sessions \ {t} : session'[u] = session[u] /\ Slot(u)' = Slot(u)
      /\ UNCHANGED <<requests, trail, answers>>
    BY <1>1, GoesType DEF Draw, Phases, Results
<1>3. \A u \in Sessions : session[u].number \in 0..drawn
    BY DEF IntakeInv, CallsConsistent
<1>4. \A r \in requests : r.number \in 1..drawn
    BY DEF IntakeInv, CallsConsistent
<1>5. ASSUME NEW u \in Sessions
      PROVE  session'[u].number \in 0..drawn' /\ NumberOwned(u)' /\ SlotOwned(u)' /\ AnswerReady(u)'
    <2>1. CASE u = t
        <3>1. \A v \in Sessions \ {t} : session'[v].number # drawn + 1
            BY <1>1, <1>2, <1>3
        <3>2. \A r \in requests' : r.number # drawn + 1
            BY <1>1, <1>2, <1>4
        <3> QED
            BY <2>1, <3>1, <3>2, <1>1, <1>2 DEF NumberOwned, SlotOwned, AnswerReady
    <2>2. CASE u # t
        <3>1. /\ session'[u] = session[u] /\ session[u].number \in 0..drawn
              /\ AnswerOf(u)' = AnswerOf(u) /\ Slot(u)' = Slot(u)
            BY <2>2, <1>2, <1>3 DEF AnswerOf
        <3>2. NumberOwned(u)'
            <4>1. NumberOwned(u)
                BY DEF IntakeInv, CallsConsistent
            <4> QED
                BY <4>1, <3>1, <1>1, <1>2, <2>2 DEF NumberOwned
        <3>3. SlotOwned(u)'
            <4>1. SlotOwned(u)
                BY DEF IntakeInv, CallsConsistent
            <4> QED
                BY <4>1, <3>1, <1>2, <2>2 DEF SlotOwned
        <3>4. AnswerReady(u)'
            <4>1. AnswerReady(u)
                BY DEF IntakeInv, CallsConsistent
            <4> QED
                BY <4>1, <3>1, <1>2, <2>2 DEF AnswerReady, Intake!Truthful, Intake!Announced
        <3> QED
            BY <1>1, <3>1, <3>2, <3>3, <3>4
    <2> QED
        BY <2>1, <2>2
<1>6. TrailExact' /\ AnswersTrue'
    BY <1>2, RecordsStay
<1>7. \A r \in requests' : r.number \in 1..drawn'
    BY <1>1, <1>2, <1>4
<1> QED
    BY <1>2, <1>5, <1>6, <1>7 DEF IntakeInv, CallsConsistent, OneRequestPerKey

\* Nobody inserts into a slot that is taken or pending.
LEMMA InsertStep ==
    ASSUME IntakeInv, TypeOK', NEW t \in Sessions, Insert(t)
    PROVE  IntakeInv'
<1>1. TypeOK /\ drawn \in Nat /\ session[t].number \in Numbers /\ session[t].pc = "drawn"
    BY BoundAssumption DEF IntakeInv, TypeOK, Numbers, SessionStates, Insert
<1>2. /\ session'[t].pc = IF \E r \in requests : r.slot = Slot(t) THEN "lost" ELSE "inserted"
      /\ session'[t].number = session[t].number /\ Slot(t)' = Slot(t)
      /\ \A u \in Sessions \ {t} : session'[u] = session[u] /\ Slot(u)' = Slot(u)
      /\ UNCHANGED <<requests, trail, drawn, answers>>
    BY <1>1, GoesType DEF Insert, Phases, Results
<1>3. \A u \in Sessions : session'[u].number = session[u].number
    BY <1>2
<1>4. \A u \in Sessions \ {t} : session[u].pc = "inserted" => Slot(u) # Slot(t)
    BY DEF Insert, PendingByOther
<1>5. ASSUME NEW u \in Sessions
      PROVE  session'[u].number \in 0..drawn /\ NumberOwned(u)' /\ SlotOwned(u)' /\ AnswerReady(u)'
    <2>1. NumberOwned(u) /\ SlotOwned(u) /\ AnswerReady(u) /\ session[u].number \in 0..drawn
        BY DEF IntakeInv, CallsConsistent
    <2>2. NumberOwned(u)'
        <3>1. session[u].pc \in {"drawn", "inserted", "lost"}
                  <=> session'[u].pc \in {"drawn", "inserted", "lost"}
            BY <1>1, <1>2
        <3> QED
            BY <2>1, <3>1, <1>2, <1>3 DEF NumberOwned
    <2>3. SlotOwned(u)'
        <3>1. CASE u = t
            BY <3>1, <1>2, <1>4 DEF SlotOwned
        <3>2. CASE u # t
            BY <3>2, <2>1, <1>2, <1>4 DEF SlotOwned
        <3> QED
            BY <3>1, <3>2
    <2>4. AnswerReady(u)'
        <3>1. CASE u = t
            BY <3>1, <1>2 DEF AnswerReady
        <3>2. CASE u # t
            <4>1. session'[u] = session[u] /\ AnswerOf(u)' = AnswerOf(u)
                BY <3>2, <1>2 DEF AnswerOf
            <4> QED
                BY <3>2, <4>1, <2>1, <1>2 DEF AnswerReady, Intake!Truthful, Intake!Announced
        <3> QED
            BY <3>1, <3>2
    <2> QED
        BY <2>1, <2>2, <2>3, <2>4, <1>3
<1>6. TrailExact' /\ AnswersTrue'
    BY <1>2, RecordsStay
<1> QED
    BY <1>2, <1>5, <1>6 DEF IntakeInv, CallsConsistent, OneRequestPerKey

\* The row that becomes visible has a number and a slot of its own.
LEMMA CommitStep ==
    ASSUME IntakeInv, TypeOK', NEW t \in Sessions, Commit(t)
    PROVE  IntakeInv' /\ Intake!Next
<1> DEFINE n == session[t].number
<1> DEFINE new == [slot |-> Slot(t), payload |-> session[t].payload, number |-> n]
<1>1. /\ TypeOK /\ drawn \in Nat /\ n \in Numbers /\ n \in 1..drawn
      /\ session[t].pc = "inserted" /\ session[t] \in SessionStates
      /\ \A r \in requests : r.number # n /\ r.slot # Slot(t)
      /\ \A u \in Sessions \ {t} : session[u].number # n
      /\ \A u \in Sessions \ {t} : session[u].pc = "inserted" => Slot(u) # Slot(t)
    BY BoundAssumption
       DEF IntakeInv, CallsConsistent, NumberOwned, SlotOwned, TypeOK, Numbers, Commit
<1>2. /\ session'[t].pc = "answering" /\ session'[t].number = n
      /\ session'[t].result = "created" /\ Slot(t)' = Slot(t)
      /\ session'[t].payload = session[t].payload
      /\ \A u \in Sessions \ {t} : session'[u] = session[u] /\ Slot(u)' = Slot(u)
    BY <1>1, GoesType DEF Commit, Phases, Results
<1>3. /\ requests' = requests \cup {new} /\ trail' = Append(trail, n)
      /\ drawn' = drawn /\ answers' = answers
      /\ new.slot = Slot(t) /\ new.number = n /\ new.payload = session[t].payload
    BY DEF Commit
<1>4. \A a : Intake!Truthful(a) => \E r \in requests' :
          r.slot = a.slot /\ IF a.result = "conflict" THEN r.payload # a.payload
                            ELSE r.payload = a.payload /\ r.number = a.number
    BY <1>3 DEF Intake!Truthful
<1>5. AnswersTrue'
    <2>1. AnswersTrue
        BY DEF IntakeInv, CallsConsistent
    <2> QED
        BY <2>1, <1>3, <1>4 DEF AnswersTrue, Intake!Truthful
<1>6. ~Intake!Announced(n)
    <2>1. AnswersTrue
        BY DEF IntakeInv, CallsConsistent
    <2>2. ASSUME NEW i \in DOMAIN answers, answers[i].result = "created", answers[i].number = n
          PROVE  FALSE
        BY <2>1, <2>2, <1>1 DEF AnswersTrue, Intake!Truthful
    <2> QED
        BY <2>2 DEF Intake!Announced
<1>7. ASSUME NEW u \in Sessions
      PROVE  session'[u].number \in 0..drawn' /\ NumberOwned(u)' /\ SlotOwned(u)' /\ AnswerReady(u)'
    <2>1. NumberOwned(u) /\ SlotOwned(u) /\ AnswerReady(u) /\ session[u].number \in 0..drawn
        BY DEF IntakeInv, CallsConsistent
    <2>2. session'[u].number = session[u].number
        BY <1>2
    <2>3. NumberOwned(u)'
        <3>1. CASE u = t
            BY <3>1, <1>2 DEF NumberOwned
        <3>2. CASE u # t
            <4>1. session'[u] = session[u] /\ session[u].number # n
                BY <3>2, <1>1, <1>2
            <4>2. \A v \in Sessions : session'[v].number = session[v].number
                BY <1>2
            <4> QED
                BY <4>1, <4>2, <2>1, <1>3 DEF NumberOwned
        <3> QED
            BY <3>1, <3>2
    <2>4. SlotOwned(u)'
        <3>1. CASE u = t
            BY <3>1, <1>2 DEF SlotOwned
        <3>2. CASE u # t
            BY <3>2, <2>1, <1>1, <1>2, <1>3 DEF SlotOwned
        <3> QED
            BY <3>1, <3>2
    <2>5. AnswerReady(u)'
        <3>1. CASE u = t
            <4>1. Intake!Truthful(AnswerOf(t))'
                BY <1>2, <1>3 DEF Intake!Truthful, AnswerOf
            <4>2. ~Intake!Announced(session[t].number)'
                BY <1>2, <1>3, <1>6 DEF Intake!Announced
            <4>3. \A v \in Sessions \ {t} : session'[v].number # n
                BY <1>1, <1>2
            <4> QED
                BY <3>1, <4>1, <4>2, <4>3, <1>2 DEF AnswerReady
        <3>2. CASE u # t
            <4>1. /\ session'[u] = session[u] /\ session[u].number # n
                  /\ AnswerOf(u)' = AnswerOf(u)
                BY <3>2, <1>1, <1>2 DEF AnswerOf
            <4>2. Intake!Truthful(AnswerOf(u)) => Intake!Truthful(AnswerOf(u))'
                BY <4>1, <1>4 DEF Intake!Truthful
            <4>3. Intake!Announced(session[u].number)' <=> Intake!Announced(session[u].number)
                BY <4>1, <1>3 DEF Intake!Announced
            <4> QED
                BY <3>2, <2>1, <4>1, <4>2, <4>3, <1>2 DEF AnswerReady
        <3> QED
            BY <3>1, <3>2
    <2> QED
        BY <2>1, <2>2, <2>3, <2>4, <2>5, <1>3
<1>8. TrailExact'
    <2>1. TrailExact /\ trail \in Seq(Numbers)
        BY <1>1 DEF IntakeInv, CallsConsistent, TypeOK
    <2>2. /\ DOMAIN trail' = DOMAIN trail \cup {Len(trail) + 1}
          /\ Len(trail) + 1 \notin DOMAIN trail
          /\ trail'[Len(trail) + 1] = n
          /\ \A i \in DOMAIN trail : trail'[i] = trail[i]
        BY <2>1, <1>1, <1>3
    <2>3. {trail'[i] : i \in DOMAIN trail'} = {trail[i] : i \in DOMAIN trail} \cup {n}
        BY <2>2
    <2>4. {r.number : r \in requests'} = {r.number : r \in requests} \cup {n}
        <3>1. requests' = requests \cup {new} /\ new.number = n
            BY <1>3
        <3> HIDE DEF new
        <3> QED
            BY <3>1
    <2>5. \A i \in DOMAIN trail : trail[i] # n
        <3>1. n \notin {r.number : r \in requests}
            BY <1>1
        <3>2. {trail[i] : i \in DOMAIN trail} = {r.number : r \in requests}
            BY <2>1 DEF TrailExact
        <3> QED
            BY <3>1, <3>2
    <2>6. \A i, j \in DOMAIN trail' : trail'[i] = trail'[j] => i = j
        BY <2>1, <2>2, <2>5 DEF TrailExact
    <2> QED
        BY <2>1, <2>3, <2>4, <2>6 DEF TrailExact
<1>9. OneRequestPerKey'
    BY <1>1, <1>3 DEF IntakeInv, OneRequestPerKey
<1>10. Intake!Next
    <2>1. Slot(t) \in Slots /\ session[t].payload \in Payloads
        BY <1>1, SlotType DEF SessionStates
    <2>2. Intake!Create(Slot(t), session[t].payload, n)
        BY <1>1, <1>3 DEF Intake!Create
    <2> QED
        BY <2>1, <2>2, <1>1 DEF Intake!Next
<1>11. \A r \in requests' : r.number \in 1..drawn'
    BY <1>1, <1>3 DEF IntakeInv, CallsConsistent
<1> QED
    BY <1>5, <1>7, <1>8, <1>9, <1>10, <1>11 DEF IntakeInv, CallsConsistent

\* An answer is true, and a creation is announced by its creator alone.
LEMMA RespondStep ==
    ASSUME IntakeInv, TypeOK', NEW t \in Sessions, Respond(t)
    PROVE  IntakeInv' /\ Intake!Next
<1>1. /\ TypeOK /\ session[t] \in SessionStates /\ session[t].pc = "answering"
      /\ session[t].result # "none" /\ Intake!Truthful(AnswerOf(t))
      /\ session[t].result = "created" =>
             /\ ~Intake!Announced(session[t].number)
             /\ \A u \in Sessions \ {t} :
                    session[u].pc = "answering" /\ session[u].result = "created" =>
                        session[u].number # session[t].number
    BY DEF IntakeInv, CallsConsistent, AnswerReady, TypeOK, Respond
<1>2. /\ session'[t] = Fresh
      /\ \A u \in Sessions \ {t} : session'[u] = session[u] /\ Slot(u)' = Slot(u)
      /\ answers' = Append(answers, AnswerOf(t))
      /\ requests' = requests /\ trail' = trail /\ drawn' = drawn
    BY <1>1 DEF Respond, Slot, TypeOK
<1>3. Fresh.pc = "idle" /\ Fresh.number = 0 /\ drawn \in Nat
    BY <1>1, BoundAssumption DEF Fresh, TypeOK, Numbers
<1>4. /\ DOMAIN answers' = DOMAIN answers \cup {Len(answers) + 1}
      /\ answers'[Len(answers) + 1] = AnswerOf(t)
      /\ \A i \in DOMAIN answers : answers'[i] = answers[i]
    <2>1. answers \in Seq([slot : Slots, payload : Payloads, result : Results, number : Numbers])
        BY <1>1 DEF TypeOK
    <2>2. AnswerOf(t) \in [slot : Slots, payload : Payloads, result : Results, number : Numbers]
        BY <1>1, SlotType DEF AnswerOf, SessionStates
    <2> QED
        BY <2>1, <2>2, <1>2
<1>5. AnswersTrue'
    BY <1>1, <1>2, <1>4 DEF IntakeInv, CallsConsistent, AnswersTrue, Intake!Truthful
<1>7. ASSUME NEW u \in Sessions
      PROVE  session'[u].number \in 0..drawn' /\ NumberOwned(u)' /\ SlotOwned(u)' /\ AnswerReady(u)'
    <2>1. CASE u = t
        BY <2>1, <1>2, <1>3 DEF NumberOwned, SlotOwned, AnswerReady
    <2>2. CASE u # t
        <3>1. /\ session'[u] = session[u] /\ session[u].number \in 0..drawn
              /\ AnswerOf(u)' = AnswerOf(u) /\ Slot(u)' = Slot(u)
              /\ NumberOwned(u) /\ SlotOwned(u) /\ AnswerReady(u)
            BY <2>2, <1>2 DEF IntakeInv, CallsConsistent, AnswerOf
        <3>2. NumberOwned(u)'
            BY <3>1, <1>2, <1>3, <2>2 DEF NumberOwned
        <3>3. SlotOwned(u)'
            BY <3>1, <1>2, <1>3, <2>2 DEF SlotOwned
        <3>4. AnswerReady(u)'
            <4>1. Intake!Truthful(AnswerOf(u)) => Intake!Truthful(AnswerOf(u))'
                BY <3>1, <1>2 DEF Intake!Truthful
            <4>2. ASSUME session[u].pc = "answering", session[u].result = "created"
                  PROVE  ~Intake!Announced(session[u].number)'
                <5>1. ~Intake!Announced(session[u].number)
                    BY <4>2, <3>1 DEF AnswerReady
                <5>2. session[t].result = "created" => session[t].number # session[u].number
                    BY <4>2, <1>1, <2>2
                <5>3. Intake!Announced(session[u].number)' =>
                          Intake!Announced(session[u].number)
                            \/ (session[t].result = "created" /\ session[t].number = session[u].number)
                    BY <1>4, <3>1 DEF Intake!Announced, AnswerOf
                <5> QED
                    BY <5>1, <5>2, <5>3
            <4> QED
                BY <3>1, <4>1, <4>2, <1>2, <1>3, <2>2 DEF AnswerReady
        <3> QED
            BY <3>1, <3>2, <3>3, <3>4, <1>2
    <2> QED
        BY <2>1, <2>2
<1>8. TrailExact'
    BY <1>2 DEF IntakeInv, CallsConsistent, TrailExact
<1>9. Intake!Next
    <2>1. AnswerOf(t) \in Intake!Answers
        BY <1>1, SlotType DEF AnswerOf, SessionStates, Results, Intake!Answers
    <2>2. Intake!Answer(AnswerOf(t))
        BY <1>1, <1>2 DEF Intake!Answer, AnswerOf
    <2> QED
        BY <2>1, <2>2 DEF Intake!Next
<1> QED
    BY <1>2, <1>5, <1>7, <1>8, <1>9 DEF IntakeInv, CallsConsistent, OneRequestPerKey

\* The invariant does not ask who may create.
LEMMA SameStep ==
    ASSUME IntakeInv, TypeOK', UNCHANGED <<requests, trail, drawn, session, answers>>
    PROVE  IntakeInv'
<1>1. \A u \in Sessions : Slot(u)' = Slot(u) /\ AnswerOf(u)' = AnswerOf(u)
    BY DEF Slot, AnswerOf
<1>2. ASSUME NEW u \in Sessions PROVE NumberOwned(u)' /\ SlotOwned(u)' /\ AnswerReady(u)'
    <2>1. NumberOwned(u) /\ SlotOwned(u) /\ AnswerReady(u)
        BY DEF IntakeInv, CallsConsistent
    <2> QED
        BY <2>1, <1>1
           DEF NumberOwned, SlotOwned, AnswerReady, Intake!Truthful, Intake!Announced
<1> QED
    BY <1>2, RecordsStay DEF IntakeInv, CallsConsistent, OneRequestPerKey

\* Every step keeps the invariant and is a step of IdempotentIntake, or none.
LEMMA IntakeStep ==
    IntakeInv /\ [Next]_vars => IntakeInv' /\ [Intake!Next]_<<requests, answers>>
<1> SUFFICES ASSUME IntakeInv, [Next]_vars
             PROVE  IntakeInv' /\ [Intake!Next]_<<requests, answers>>
    OBVIOUS
<1>1. TypeOK /\ TypeOK'
    BY TypeStep DEF IntakeInv
<1>2. Fresh.pc = "idle" /\ Fresh.number = 0
    BY DEF Fresh
<1>3. \A t \in Sessions : session' = [session EXCEPT ![t] = Fresh] =>
          /\ session'[t] = Fresh
          /\ \A u \in Sessions \ {t} : session'[u] = session[u]
    BY <1>1 DEF TypeOK
<1>4. ASSUME NEW t \in Sessions, Refuse(t) \/ Abort(t)
      PROVE  IntakeInv' /\ UNCHANGED <<requests, answers>>
    BY <1>1, <1>2, <1>3, <1>4, QuietStep DEF Refuse, Abort
<1>5. ASSUME NEW t \in Sessions, Begin(t)
      PROVE  IntakeInv' /\ UNCHANGED <<requests, answers>>
    <2>1. PICK a \in Authors, k \in Keys, p \in Payloads :
              session' = [session EXCEPT ![t] =
                             [Fresh EXCEPT !.pc = "begun", !.author = a, !.key = k, !.payload = p]]
        BY <1>5 DEF Begin
    <2>2. /\ session'[t].pc = "begun" /\ session'[t].number = 0
          /\ \A u \in Sessions \ {t} : session'[u] = session[u]
        BY <1>1, <2>1 DEF TypeOK, Fresh
    <2> QED
        BY <1>1, <1>5, <2>2, QuietStep DEF Begin
<1>6. ASSUME NEW t \in Sessions, Authorize(t)
      PROVE  IntakeInv' /\ UNCHANGED <<requests, answers>>
    <2>1. /\ session'[t].pc = "authorized" /\ session'[t].number = 0
          /\ \A u \in Sessions \ {t} : session'[u] = session[u]
        BY <1>1, <1>6, GoesType, ZeroNumber DEF Authorize, Phases, Results
    <2> QED
        BY <1>1, <1>6, <2>1, QuietStep DEF Authorize
<1>7. ASSUME NEW t \in Sessions, Search(t)
      PROVE  IntakeInv' /\ UNCHANGED <<requests, answers>>
    <2>1. CASE \E r \in requests : r.slot = Slot(t) /\ Find(t, r)
        BY <1>1, <1>7, <2>1, FoundStep DEF Search
    <2>2. CASE Goes(t, "missing", 0, "none")
        <3>1. /\ session'[t].pc = "missing" /\ session'[t].number = 0
              /\ \A u \in Sessions \ {t} : session'[u] = session[u]
            BY <1>1, <2>2, GoesType, ZeroNumber DEF Phases, Results
        <3> QED
            BY <1>1, <1>7, <3>1, QuietStep DEF Search
    <2> QED
        BY <1>7, <2>1, <2>2 DEF Search
<1>8. ASSUME NEW t \in Sessions, Reread(t)
      PROVE  IntakeInv' /\ UNCHANGED <<requests, answers>>
    <2>1. \E r \in requests : r.slot = Slot(t)
        BY <1>8 DEF IntakeInv, CallsConsistent, SlotOwned, Reread
    <2>2. \E r \in requests : r.slot = Slot(t) /\ Find(t, r)
        BY <1>8, <2>1 DEF Reread
    <2> QED
        BY <1>1, <1>8, <2>2, FoundStep DEF Reread
<1>9. ASSUME NEW a \in Authors, ChangeAccess(a)
      PROVE  IntakeInv' /\ UNCHANGED <<requests, answers>>
    BY <1>1, <1>9, SameStep DEF ChangeAccess
<1>10. CASE UNCHANGED vars
    BY <1>1, <1>10, SameStep DEF vars
<1>11. ASSUME NEW t \in Sessions, Draw(t) \/ Insert(t)
       PROVE  IntakeInv' /\ UNCHANGED <<requests, answers>>
    BY <1>1, <1>11, DrawStep, InsertStep DEF Draw, Insert
<1>12. ASSUME NEW t \in Sessions, Commit(t) \/ Respond(t)
       PROVE  IntakeInv' /\ Intake!Next
    BY <1>1, <1>12, CommitStep, RespondStep
<1> QED
    BY <1>4, <1>5, <1>6, <1>7, <1>8, <1>9, <1>10, <1>11, <1>12 DEF Next, Step

\* A key stands for one request, however many calls race, fail or repeat
\* (requests.py:121-167).
THEOREM OneRequest == Spec => []OneRequestPerKey
<1>1. IntakeInv => OneRequestPerKey
    BY DEF IntakeInv
<1>2. IntakeInv /\ [Next]_vars => IntakeInv'
    BY IntakeStep
<1> QED
    BY <1>1, <1>2, IntakeInit, PTL DEF Spec

\* Numbers and pending slots have one owner, and every answer is true.
THEOREM Consistent == Spec => []CallsConsistent
<1>1. IntakeInv => CallsConsistent
    BY DEF IntakeInv
<1>2. IntakeInv /\ [Next]_vars => IntakeInv'
    BY IntakeStep
<1> QED
    BY <1>1, <1>2, IntakeInit, PTL DEF Spec

\* The intake implements IdempotentIntake.
THEOREM Refines == Spec => KeepsOneRequest
<1>1. Init => Intake!Init
    BY DEF Init, Intake!Init
<1>2. IntakeInv /\ [Next]_vars => IntakeInv' /\ [Intake!Next]_(Intake!intake)
    BY IntakeStep DEF Intake!intake
<1> QED
    BY <1>1, <1>2, IntakeInit, PTL DEF Spec, KeepsOneRequest, Intake!Spec

\* A number names one row of creation if it names a request, and none else.
LEMMA TrailCounts == IntakeInv => RecordedOnce
<1> SUFFICES ASSUME IntakeInv, NEW n \in 0..drawn
             PROVE  Cardinality({i \in DOMAIN trail : trail[i] = n})
                        = Cardinality({r \in requests : r.number = n})
    BY DEF RecordedOnce
<1>1. {trail[i] : i \in DOMAIN trail} = {r.number : r \in requests}
    BY DEF IntakeInv, CallsConsistent, TrailExact
<1>2. CASE \E r \in requests : r.number = n
    <2>1. PICK r \in requests : r.number = n
        BY <1>2
    <2>2. n \in {s.number : s \in requests}
        BY <2>1
    <2>3. PICK i \in DOMAIN trail : trail[i] = n
        BY <1>1, <2>2
    <2>4. {s \in requests : s.number = n} = {r}
        BY <2>1 DEF IntakeInv, OneRequestPerKey
    <2>5. {j \in DOMAIN trail : trail[j] = n} = {i}
        BY <2>3 DEF IntakeInv, CallsConsistent, TrailExact
    <2> QED
        BY <2>4, <2>5, FS_Singleton
<1>3. CASE \A r \in requests : r.number # n
    <2>1. n \notin {s.number : s \in requests}
        BY <1>3
    <2>2. {j \in DOMAIN trail : trail[j] = n} = {}
        BY <1>1, <2>1
    <2>3. {s \in requests : s.number = n} = {}
        BY <1>3
    <2> QED
        BY <2>2, <2>3
<1> QED
    BY <1>2, <1>3

\* Each request has exactly one row of creation in its history
\* (requests.py:168-184).
THEOREM EachRecordedOnce == Spec => []RecordedOnce
<1>1. IntakeInv /\ [Next]_vars => IntakeInv'
    BY IntakeStep
<1> QED
    BY <1>1, TrailCounts, IntakeInit, PTL DEF Spec

-----------------------------------------------------------------------------
(* Revocation.  Access is read before anything else (requests.py:94-109),   *)
(* so what has not passed it when the right ends leads to no row and no     *)
(* answer.                                                                  *)

\* None of a's calls has passed the check of access.
Waits(a) == \A t \in Sessions : session[t].author = a => session[t].pc \in {"idle", "begun"}

\* A call stays its author's until it ends.
LEMMA GoesAuthor ==
    ASSUME TypeOK, NEW t \in Sessions, NEW pc, NEW n, NEW x, Goes(t, pc, n, x)
    PROVE  /\ session'[t].author = session[t].author
           /\ \A u \in Sessions \ {t} : session'[u] = session[u]
<1>1. session \in [Sessions -> SessionStates] /\ session[t] \in SessionStates
    BY DEF TypeOK
<1>2. session' = [session EXCEPT ![t] = [session[t] EXCEPT !.pc = pc, !.number = n, !.result = x]]
    BY DEF Goes
<1> QED
    BY <1>1, <1>2 DEF SessionStates

\* A call that has passed the check goes on in its author's name, or ends.
LEMMA PassedGoesOn ==
    ASSUME TypeOK, NEW t \in Sessions,
           Search(t) \/ Draw(t) \/ Insert(t) \/ Reread(t) \/ Commit(t)
    PROVE  /\ session[t].pc \notin {"idle", "begun"}
           /\ session'[t].author = session[t].author
           /\ \A u \in Sessions \ {t} : session'[u] = session[u]
<1>1. CASE Search(t)
    BY <1>1, GoesAuthor DEF Search, Find
<1>2. CASE Draw(t)
    BY <1>2, GoesAuthor DEF Draw
<1>3. CASE Insert(t)
    BY <1>3, GoesAuthor DEF Insert
<1>4. CASE Reread(t)
    BY <1>4, GoesAuthor DEF Reread, Find
<1>5. CASE Commit(t)
    BY <1>5, GoesAuthor DEF Commit
<1> QED
    BY <1>1, <1>2, <1>3, <1>4, <1>5

\* Whoever may create nothing passes no check.
LEMMA ShutOutWaits ==
    ASSUME TypeOK, [Next]_vars, NEW a \in Authors, Waits(a), may[a] = {}
    PROVE  Waits(a)'
<1>1. ASSUME NEW t \in Sessions, Search(t) \/ Draw(t) \/ Insert(t) \/ Reread(t) \/ Commit(t)
      PROVE  Waits(a)'
    BY <1>1, PassedGoesOn DEF Waits
<1>2. ASSUME NEW t \in Sessions, Authorize(t) PROVE Waits(a)'
    <2>1. session[t].author # a
        BY <1>2 DEF Authorize, Authorized
    <2>2. /\ session'[t].author = session[t].author
          /\ \A u \in Sessions \ {t} : session'[u] = session[u]
        BY <1>2, GoesAuthor DEF Authorize
    <2> QED
        BY <2>1, <2>2 DEF Waits
<1>3. ASSUME NEW t \in Sessions, Refuse(t) \/ Respond(t) \/ Abort(t) PROVE Waits(a)'
    <2>1. /\ session'[t].pc = "idle"
          /\ \A u \in Sessions \ {t} : session'[u] = session[u]
        BY <1>3 DEF Refuse, Respond, Abort, Fresh, TypeOK
    <2> QED
        BY <2>1 DEF Waits
<1>4. ASSUME NEW t \in Sessions, Begin(t) PROVE Waits(a)'
    <2>1. /\ session'[t].pc = "begun"
          /\ \A u \in Sessions \ {t} : session'[u] = session[u]
        BY <1>4 DEF Begin, Fresh, TypeOK
    <2> QED
        BY <2>1 DEF Waits
<1>5. CASE UNCHANGED session
    BY <1>5 DEF Waits
<1> QED
    BY <1>1, <1>2, <1>3, <1>4, <1>5 DEF Next, Step, ChangeAccess, vars

\* While none of a's calls has passed, a's requests and answers stay the same.
LEMMA WaitingGainsNothing ==
    ASSUME TypeOK, [Next]_vars, NEW a \in Authors, Waits(a)
    PROVE  Gained(a)' = Gained(a)
<1>1. {r \in requests' : r.slot[2] = a} = {r \in requests : r.slot[2] = a}
    <2>1. ASSUME NEW t \in Sessions, Commit(t)
          PROVE  {r \in requests' : r.slot[2] = a} = {r \in requests : r.slot[2] = a}
        <3>1. session[t].author # a
            BY <2>1 DEF Commit, Waits
        <3>2. Slot(t)[2] # a
            BY <3>1 DEF Slot
        <3> QED
            BY <2>1, <3>2 DEF Commit
    <2> QED
        BY <2>1 DEF Next, Step, ChangeAccess, Begin, Authorize, Refuse, Search, Draw, Insert, Reread,
                    Respond, Abort, vars
<1>2. {i \in DOMAIN answers' : answers'[i].slot[2] = a}
          = {i \in DOMAIN answers : answers[i].slot[2] = a}
    <2>1. ASSUME NEW t \in Sessions, Respond(t)
          PROVE  {i \in DOMAIN answers' : answers'[i].slot[2] = a}
                     = {i \in DOMAIN answers : answers[i].slot[2] = a}
        <3>1. session[t].author # a
            BY <2>1 DEF Respond, Waits
        <3>2. AnswerOf(t).slot[2] # a
            BY <3>1 DEF Slot, AnswerOf
        <3>3. /\ DOMAIN answers' = DOMAIN answers \cup {Len(answers) + 1}
              /\ answers'[Len(answers) + 1] = AnswerOf(t)
              /\ \A i \in DOMAIN answers : answers'[i] = answers[i]
            <4>1. answers \in Seq([slot : Slots, payload : Payloads, result : Results,
                                   number : Numbers])
                BY DEF TypeOK
            <4>2. session[t] \in SessionStates
                BY DEF TypeOK
            <4>3. AnswerOf(t) \in [slot : Slots, payload : Payloads, result : Results,
                                   number : Numbers]
                BY <4>2, SlotType DEF AnswerOf, SessionStates
            <4>4. answers' = Append(answers, AnswerOf(t))
                BY <2>1 DEF Respond
            <4> QED
                BY <4>1, <4>3, <4>4
        <3> QED
            BY <3>2, <3>3
    <2> QED
        BY <2>1 DEF Next, Step, ChangeAccess, Begin, Authorize, Refuse, Search, Draw, Insert, Reread,
                    Commit, Abort, vars
<1> QED
    BY <1>1, <1>2 DEF Gained

\* An author whose right to create ended for good gets no request and no answer
\* any more, not even about a request of the key's own (requests.py:94-109).
THEOREM RevokedAuthorsNeverGain == Spec => RevokedAuthorsGetNothing
<1> SUFFICES ASSUME NEW a \in Authors, NEW n \in 0..(2 * MaxCalls)
             PROVE  Spec =>
        []( (/\ Gained(a) = n
             /\ \A t \in Sessions :
                    session[t].author = a => session[t].pc \in {"idle", "begun"}
             /\ [](may[a] = {}))
            => [](Gained(a) = n))
    BY DEF RevokedAuthorsGetNothing
<1> DEFINE Kept == Gained(a) = n /\ Waits(a)
<1>1. Gained(a) = n /\ (\A t \in Sessions :
              session[t].author = a => session[t].pc \in {"idle", "begun"}) => Kept
    BY DEF Waits
<1>2. TypeOK /\ [Next]_vars /\ Kept /\ may[a] = {} => Kept'
    BY ShutOutWaits, WaitingGainsNothing
<1>3. Kept => Gained(a) = n
    OBVIOUS
<1> HIDE DEF Kept
<1> QED
    BY <1>1, <1>2, <1>3, TypeInit, TypeStep, PTL DEF Spec
=============================================================================
