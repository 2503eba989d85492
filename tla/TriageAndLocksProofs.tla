------------------------ MODULE TriageAndLocksProofs ------------------------
(***************************************************************************)
(* The bot's concurrency: the promises of the inbox of chat messages, for  *)
(* any number of chats, messages, dispatchers, sessions, presses and       *)
(* faults (ChatTriage.tla), and the circles of waits between staff events, *)
(* for any number of users, events and transactions (BotLocks.tla).        *)
(***************************************************************************)
EXTENDS ChatTriage, BotLocks, SequenceTheorems, TLAPS

\* A slot that serves nothing has a well-typed state.
LEMMA IdleTypes == Quiet \in HookStates /\ Fresh \in PressStates
    BY NamesAssumption DEF Quiet, HookStates, Fresh, PressStates, Actions

\* What a session says of its press.
LEMMA ArgumentTypes ==
    ASSUME TypeOK
    PROVE  /\ \A h \in Hooks : hook[h] \in HookStates /\ hook[h].message \in Messages
           /\ \A s \in Sessions :
                  /\ press[s] \in PressStates /\ press[s].message \in Messages
                  /\ press[s].dispatcher \in Dispatchers /\ press[s].action \in Actions
    BY DEF TypeOK, HookStates, PressStates

\* Every action keeps every variable in its type.
LEMMA TypeStep == TypeOK /\ TriageConsistent /\ [Next]_vars => TypeOK'
<1> SUFFICES ASSUME TypeOK, TriageConsistent, [Next]_vars PROVE TypeOK'
    OBVIOUS
<1>0. /\ \A h \in Hooks : hook[h] \in HookStates /\ hook[h].message \in Messages
      /\ \A s \in Sessions :
             /\ press[s] \in PressStates /\ press[s].message \in Messages
             /\ press[s].dispatcher \in Dispatchers /\ press[s].action \in Actions
    BY ArgumentTypes
<1> USE IdleTypes
<1>1. ASSUME NEW c \in Chats, NEW p \in Places, Bind(c, p) PROVE TypeOK'
    BY <1>1 DEF Bind, TypeOK, rows
<1>2. ASSUME NEW d \in Dispatchers, ChangeAccess(d) PROVE TypeOK'
    BY <1>2 DEF ChangeAccess, TypeOK, rows
<1>3. ASSUME NEW h \in Hooks, NEW m \in Messages, Deliver(h, m) PROVE TypeOK'
    BY <1>3 DEF Deliver, TypeOK, rows, HookStates
<1>4. ASSUME NEW h \in Hooks, Ignore(h) PROVE TypeOK'
    BY <1>0, <1>4 DEF Ignore, TypeOK, rows, HookStates
<1>5. ASSUME NEW h \in Hooks, Receive(h) PROVE TypeOK'
    <2>1. \A pc \in {"inserted", "committed"} : [hook[h] EXCEPT !.pc = pc] \in HookStates
        BY <1>0 DEF HookStates
    <2>2. hook' \in [Hooks -> HookStates]
        BY <1>5, <2>1 DEF Receive, TypeOK
    <2> QED
        BY <1>5, <2>2 DEF Receive, TypeOK, rows
<1>6. ASSUME NEW h \in Hooks, Store(h) PROVE TypeOK'
    <2>1. Place(h) \in Places \cup {Unbound}
        BY <1>0, NamesAssumption DEF Place, TypeOK
    <2> QED
        BY <1>0, <1>6, <2>1 DEF Store, TypeOK, HookStates
<1>7. ASSUME NEW h \in Hooks, Respond(h) PROVE TypeOK'
    BY <1>0, <1>7 DEF Respond, TypeOK, rows
<1>8. ASSUME NEW h \in Hooks, Fail(h) PROVE TypeOK'
    <2>1. faults' \in 0..MaxFaults
        BY <1>8, BoundsAssumption DEF Fail, TypeOK
    <2> QED
        BY <1>8, <2>1 DEF Fail, TypeOK, rows
<1>9. ASSUME NEW s \in Sessions, Press(s) PROVE TypeOK'
    <2>1. pressed' \in 0..MaxPresses
        BY <1>9, BoundsAssumption DEF Press, TypeOK
    <2>2. PICK d \in Dispatchers, m \in items, x \in Actions :
              press' = [press EXCEPT ![s] =
                           [Fresh EXCEPT !.pc = "begun", !.dispatcher = d, !.message = m,
                                         !.action = x]]
        BY <1>9 DEF Press
    <2>3. [Fresh EXCEPT !.pc = "begun", !.dispatcher = d, !.message = m, !.action = x]
              \in PressStates
        BY DEF PressStates, TypeOK
    <2> QED
        BY <1>9, <2>1, <2>2, <2>3 DEF Press, TypeOK, rows
<1>10. ASSUME NEW s \in Sessions, Lock(s) PROVE TypeOK'
    <2>1. requestOf[press[s].message] \in Nat
        BY <1>0 DEF TypeOK
    <2>2. [press[s] EXCEPT !.pc = "locked", !.request = requestOf[press[s].message],
                           !.gone = press[s].message \in dismissed] \in PressStates
        <3>1. (press[s].message \in dismissed) \in BOOLEAN
            OBVIOUS
        <3> QED
            BY <1>0, <2>1, <3>1 DEF PressStates
    <2>3. press' \in [Sessions -> PressStates]
        BY <1>10, <2>2 DEF Lock, TypeOK
    <2> QED
        BY <1>10, <2>3 DEF Lock, TypeOK, rows
<1>11. ASSUME NEW s \in Sessions, Authorize(s) PROVE TypeOK'
    BY <1>0, <1>11 DEF Authorize, TypeOK, rows, PressStates
<1>12. ASSUME NEW s \in Sessions, Refuse(s) \/ Abort(s) PROVE TypeOK'
    BY <1>12 DEF Refuse, Abort, TypeOK, rows
<1>13. ASSUME NEW s \in Sessions, Show(s) PROVE TypeOK'
    <2>1. told' \in Seq([dispatcher : Dispatchers, message : Messages, result : Told])
        BY <1>0, <1>13 DEF Show, Tell, TypeOK, Told
    <2> QED
        BY <1>13, <2>1 DEF Show, TypeOK, rows
<1>14. ASSUME NEW s \in Sessions, Decide(s) PROVE TypeOK'
    <2> DEFINE m == press[s].message
    <2>1. m \in items /\ m \in Messages
        BY <1>0, <1>14 DEF TriageConsistent, PressConsistent, Decide
    <2>2. binding[ChatOf[m]] \in Places
        BY <2>1, NamesAssumption DEF TriageConsistent, RowsConsistent, TypeOK
    <2>3. \A x \in Told : [dispatcher |-> press[s].dispatcher, message |-> m, result |-> x]
              \in [dispatcher : Dispatchers, message : Messages, result : Told]
        BY <1>0
    <2>4. press' \in [Sessions -> PressStates]
        BY <1>14 DEF Decide, TypeOK
    <2>5. CASE /\ requests' = Append(requests, m)
               /\ place' = Append(place, binding[ChatOf[m]])
               /\ requestOf' = [requestOf EXCEPT ![m] = Len(requests) + 1]
               /\ Tell(s, "created")
               /\ UNCHANGED dismissed
        <3>1. told' \in Seq([dispatcher : Dispatchers, message : Messages, result : Told])
            BY <2>3, <2>5 DEF Tell, TypeOK, Told
        <3>2. Len(requests) + 1 \in Nat
            BY DEF TypeOK
        <3>3. requests' \in Seq(Messages) /\ place' \in Seq(Places)
                  /\ requestOf' \in [Messages -> Nat]
            BY <2>1, <2>2, <2>5, <3>2 DEF TypeOK
        <3> QED
            BY <1>14, <2>4, <2>5, <3>1, <3>3 DEF Decide, TypeOK
    <2>6. CASE /\ dismissed' = dismissed \cup {m}
               /\ Tell(s, "dismissed")
               /\ UNCHANGED <<requests, place, requestOf>>
        <3>1. told' \in Seq([dispatcher : Dispatchers, message : Messages, result : Told])
            BY <2>3, <2>6 DEF Tell, TypeOK, Told
        <3> QED
            BY <1>14, <2>1, <2>4, <2>6, <3>1 DEF Decide, TypeOK
    <2> QED
        BY <1>14, <2>5, <2>6 DEF Decide
<1>15. CASE UNCHANGED vars
    BY <1>15 DEF vars, rows, TypeOK
<1> QED
    BY <1>1, <1>2, <1>3, <1>4, <1>5, <1>6, <1>7, <1>8, <1>9, <1>10, <1>11, <1>12, <1>13, <1>14,
       <1>15
       DEF Next, Serve, Step

-----------------------------------------------------------------------------
(* One decision per message.                                               *)

TriageInv == TypeOK /\ TriagedOnce /\ MeaningKept /\ HeardIsStored /\ TriageConsistent

\* Nothing is stored, decided or running at first.
LEMMA TriageInit == Init => TriageInv
<1> SUFFICES ASSUME Init PROVE TriageInv
    OBVIOUS
<1>1. TypeOK
    BY IdleTypes, BoundsAssumption DEF Init, TypeOK
<1>2. TriagedOnce /\ MeaningKept /\ HeardIsStored /\ RowsConsistent
    BY DEF Init, TriagedOnce, MeaningKept, HeardIsStored, RowsConsistent
<1>3. \A h \in Hooks : HookConsistent(h)
    BY DEF Init, Quiet, HookConsistent
<1>4. \A s \in Sessions : PressConsistent(s)
    BY DEF Init, Fresh, PressConsistent, HasLock
<1> QED
    BY <1>1, <1>2, <1>3, <1>4 DEF TriageInv, TriageConsistent

\* A bound chat keeps its place.
LEMMA PlacesStay ==
    ASSUME TriageInv, [Next]_vars
    PROVE  /\ \A c \in Chats : binding[c] # Unbound => binding'[c] = binding[c]
           /\ \A m \in items : binding'[ChatOf[m]] = binding[ChatOf[m]]
<1>1. \A c \in Chats : binding[c] # Unbound => binding'[c] = binding[c]
    BY DEF Next, Bind, ChangeAccess, Deliver, Serve, Ignore, Receive, Store, Respond, Fail,
           Press, Step, Lock, Authorize, Refuse, Decide, Show, Abort, vars, TriageInv, TypeOK
<1>2. \A m \in items : ChatOf[m] \in Chats /\ binding[ChatOf[m]] # Unbound
    BY NamesAssumption DEF TriageInv, TypeOK, TriageConsistent, RowsConsistent
<1> QED
    BY <1>1, <1>2

\* The rows as a step leaves them alone.
LEMMA RowsStay ==
    ASSUME TriageInv, [Next]_vars, UNCHANGED rows
    PROVE  TriagedOnce' /\ MeaningKept' /\ RowsConsistent'
<1>1. TriagedOnce' /\ MeaningKept'
    BY DEF TriageInv, TriagedOnce, MeaningKept, rows
<1>2. RowsConsistent'
    BY PlacesStay DEF TriageInv, TriageConsistent, RowsConsistent, rows
<1> QED
    BY <1>1, <1>2

\* A new message is placed where its chat is bound.
LEMMA StoreRows ==
    ASSUME TriageInv, NEW h \in Hooks, Store(h)
    PROVE  TriagedOnce' /\ MeaningKept' /\ RowsConsistent'
<1> DEFINE m == hook[h].message
<1>1. /\ m \in Messages /\ m \notin items /\ Place(h) # Unbound
      /\ items' = items \cup {m} /\ storedAt' = [storedAt EXCEPT ![m] = Place(h)]
      /\ storedAt \in [Messages -> Places \cup {Unbound}] /\ items \subseteq Messages
      /\ UNCHANGED <<binding, requests, requestOf, dismissed, place>>
    BY ArgumentTypes DEF TriageInv, TriageConsistent, HookConsistent, Duplicate, TypeOK, Store
<1>2. storedAt'[m] = Place(h) /\ \A n \in items : storedAt'[n] = storedAt[n]
    BY <1>1
<1>3. RowsConsistent'
    BY <1>1, <1>2 DEF TriageInv, TriageConsistent, RowsConsistent, Place
<1>4. TriagedOnce'
    BY <1>1 DEF TriageInv, TriagedOnce
<1>5. MeaningKept'
    BY <1>1, <1>2 DEF TriageInv, MeaningKept, TriagedOnce
<1> QED
    BY <1>3, <1>4, <1>5

\* A decision is taken on a message nobody has decided.
LEMMA DecideRows ==
    ASSUME TriageInv, NEW s \in Sessions, Decide(s)
    PROVE  TriagedOnce' /\ MeaningKept' /\ RowsConsistent' /\ Inbox!Next
<1> DEFINE m == press[s].message
<1> DEFINE k == Len(requests) + 1
<1>1. /\ m \in items /\ m \in Messages /\ requestOf[m] = 0 /\ m \notin dismissed
      /\ press[s].dispatcher \in Dispatchers
      /\ UNCHANGED <<binding, items, storedAt>>
    BY ArgumentTypes
       DEF TriageInv, TriageConsistent, PressConsistent, HasLock, Undecided, Decide
<1>2. /\ requests \in Seq(Messages) /\ place \in Seq(Places) /\ Len(place) = Len(requests)
      /\ requestOf \in [Messages -> Nat] /\ items \subseteq Messages
      /\ \A i \in DOMAIN requests : requests[i] # m
      /\ binding[ChatOf[m]] \in Places /\ storedAt[m] = binding[ChatOf[m]]
    <2>1. binding[ChatOf[m]] \in Places
        BY <1>1, NamesAssumption DEF TriageInv, TriageConsistent, RowsConsistent, TypeOK
    <2>2. \A i \in DOMAIN requests : requests[i] # m
        BY <1>1 DEF TriageInv, TriagedOnce
    <2> QED
        BY <1>1, <2>1, <2>2 DEF TriageInv, TriageConsistent, RowsConsistent, TypeOK
<1>3. CASE /\ requests' = Append(requests, m)
           /\ place' = Append(place, binding[ChatOf[m]])
           /\ requestOf' = [requestOf EXCEPT ![m] = k]
           /\ Tell(s, "created")
           /\ UNCHANGED dismissed
    <2>1. /\ DOMAIN requests' = DOMAIN requests \cup {k} /\ k \notin DOMAIN requests
          /\ requests'[k] = m /\ \A i \in DOMAIN requests : requests'[i] = requests[i]
          /\ k \in Nat /\ k # 0
        BY <1>1, <1>2, <1>3
    <2>2. /\ DOMAIN place = DOMAIN requests /\ Len(place') = Len(requests')
          /\ place'[k] = storedAt[m] /\ \A i \in DOMAIN requests : place'[i] = place[i]
        BY <1>1, <1>2, <1>3
    <2>3. requestOf'[m] = k /\ \A n \in Messages \ {m} : requestOf'[n] = requestOf[n]
        BY <1>1, <1>2, <1>3
    <2>4. TriagedOnce'
        <3>1. \A i, j \in DOMAIN requests' : requests'[i] = requests'[j] => i = j
            BY <1>2, <2>1 DEF TriageInv, TriagedOnce
        <3>2. \A n \in Messages : requestOf'[n] # 0 <=> \E i \in DOMAIN requests' : requests'[i] = n
            <4> SUFFICES ASSUME NEW n \in Messages
                         PROVE  requestOf'[n] # 0 <=> \E i \in DOMAIN requests' : requests'[i] = n
                OBVIOUS
            <4>1. CASE n = m
                BY <4>1, <2>1, <2>3
            <4>2. CASE n # m
                BY <4>2, <2>1, <2>3 DEF TriageInv, TriagedOnce
            <4> QED
                BY <4>1, <4>2
        <3>3. \A i \in DOMAIN requests' :
                  requestOf'[requests'[i]] = i /\ requests'[i] \in items' \ dismissed'
            <4> SUFFICES ASSUME NEW i \in DOMAIN requests'
                         PROVE  requestOf'[requests'[i]] = i /\ requests'[i] \in items' \ dismissed'
                OBVIOUS
            <4>1. CASE i = k
                BY <4>1, <1>1, <1>3, <2>1, <2>3
            <4>2. CASE i \in DOMAIN requests
                <5>1. requests[i] \in Messages \ {m} /\ requests'[i] = requests[i]
                    BY <4>2, <1>2, <2>1
                <5>2. requestOf[requests[i]] = i /\ requests[i] \in items \ dismissed
                    BY <4>2 DEF TriageInv, TriagedOnce
                <5> QED
                    BY <5>1, <5>2, <1>1, <1>3, <2>3
            <4> QED
                BY <4>1, <4>2, <2>1
        <3> QED
            BY <3>1, <3>2, <3>3 DEF TriagedOnce
    <2>5. MeaningKept'
        BY <1>1, <2>1, <2>2 DEF TriageInv, MeaningKept
    <2>6. RowsConsistent'
        <3>1. \A n \in dismissed : n \in Messages \ {m} /\ requestOf[n] = 0
            BY <1>1, <1>2 DEF TriageInv, TriageConsistent, RowsConsistent
        <3> QED
            BY <1>1, <1>3, <2>2, <2>3, <3>1 DEF TriageInv, TriageConsistent, RowsConsistent
    <2>7. Inbox!Convert(press[s].dispatcher, m)
        BY <1>1, <1>2, <1>3 DEF Inbox!Convert, Inbox!Requested, Inbox!Tell, Tell
    <2> QED
        BY <1>1, <2>4, <2>5, <2>6, <2>7 DEF Inbox!Next
<1>4. CASE /\ dismissed' = dismissed \cup {m}
           /\ Tell(s, "dismissed")
           /\ UNCHANGED <<requests, place, requestOf>>
    <2>1. TriagedOnce'
        BY <1>1, <1>2, <1>4 DEF TriageInv, TriagedOnce
    <2>2. MeaningKept' /\ RowsConsistent'
        BY <1>1, <1>2, <1>4
           DEF TriageInv, MeaningKept, TriageConsistent, RowsConsistent
    <2>3. Inbox!Dismiss(press[s].dispatcher, m)
        BY <1>1, <1>2, <1>4 DEF Inbox!Dismiss, Inbox!Requested, Inbox!Tell, Tell
    <2> QED
        BY <1>1, <2>1, <2>2, <2>3 DEF Inbox!Next
<1> QED
    BY <1>3, <1>4 DEF Decide

\* What the observer's requests rely on: no message leaves the inbox, and two
\* requests never insert the same receipt.
LEMMA HooksStep ==
    ASSUME TriageInv, [Next]_vars
    PROVE  HeardIsStored' /\ \A h \in Hooks : HookConsistent(h)'
<1>1. /\ TypeOK /\ HeardIsStored /\ \A h \in Hooks : HookConsistent(h)
      /\ \A h \in Hooks : hook[h].message \in Messages /\ hook[h] \in HookStates
    BY ArgumentTypes DEF TriageInv, TriageConsistent
<1>2. CASE UNCHANGED <<hook, items, ignored, heard>>
    <2>1. HeardIsStored'
        BY <1>1, <1>2 DEF HeardIsStored
    <2>2. ASSUME NEW h \in Hooks PROVE HookConsistent(h)'
        <3>1. Place(h) # Unbound => Place(h)' # Unbound
            <4>1. ChatOf[hook[h].message] \in Chats
                BY <1>1, NamesAssumption
            <4> QED
                BY <4>1, <1>2, PlacesStay DEF Place
        <3> QED
            BY <1>1, <1>2, <3>1 DEF HookConsistent, Duplicate
    <2> QED
        BY <2>1, <2>2
<1>3. ASSUME NEW h \in Hooks, NEW m \in Messages, Deliver(h, m)
      PROVE  HeardIsStored' /\ \A g \in Hooks : HookConsistent(g)'
    <2>1. hook'[h].pc = "received" /\ \A g \in Hooks \ {h} : hook'[g] = hook[g]
        BY <1>1, <1>3 DEF Deliver, TypeOK
    <2>2. UNCHANGED <<binding, items, ignored, heard>>
        BY <1>3 DEF Deliver, rows
    <2> QED
        BY <1>1, <2>1, <2>2 DEF HeardIsStored, HookConsistent, Place, Duplicate
<1>4. ASSUME NEW h \in Hooks, Ignore(h)
      PROVE  HeardIsStored' /\ \A g \in Hooks : HookConsistent(g)'
    <2>1. /\ hook'[h].pc = "committed" /\ hook'[h].message = hook[h].message
          /\ \A g \in Hooks \ {h} : hook'[g] = hook[g]
          /\ ignored' = ignored \cup {hook[h].message}
        BY <1>1, <1>4 DEF Ignore, TypeOK, HookStates
    <2>2. UNCHANGED <<binding, items, heard>>
        BY <1>4 DEF Ignore, rows
    <2> QED
        BY <1>1, <2>1, <2>2 DEF HeardIsStored, HookConsistent, Place, Duplicate
<1>5. ASSUME NEW h \in Hooks, Receive(h)
      PROVE  HeardIsStored' /\ \A g \in Hooks : HookConsistent(g)'
    <2>1. /\ hook'[h].message = hook[h].message
          /\ \A g \in Hooks \ {h} : hook'[g] = hook[g]
          /\ \/ hook'[h].pc = "committed" /\ Duplicate(h)
             \/ /\ hook'[h].pc = "inserted" /\ ~Duplicate(h)
                /\ \A g \in Hooks \ {h} :
                       hook[g].pc = "inserted" => hook[g].message # hook[h].message
          /\ Place(h) # Unbound
        BY <1>1, <1>5 DEF Receive, TypeOK, HookStates
    <2>2. UNCHANGED <<binding, items, ignored, heard>>
        BY <1>5 DEF Receive, rows
    <2> QED
        BY <1>1, <2>1, <2>2 DEF HeardIsStored, HookConsistent, Place, Duplicate
<1>6. ASSUME NEW h \in Hooks, Store(h)
      PROVE  HeardIsStored' /\ \A g \in Hooks : HookConsistent(g)'
    <2>1. /\ hook[h].pc = "inserted" /\ hook'[h].pc = "committed"
          /\ hook'[h].message = hook[h].message
          /\ \A g \in Hooks \ {h} : hook'[g] = hook[g]
          /\ items' = items \cup {hook[h].message}
          /\ UNCHANGED <<binding, ignored, heard>>
        BY <1>1, <1>6 DEF Store, TypeOK, HookStates
    <2> QED
        BY <1>1, <2>1 DEF HeardIsStored, HookConsistent, Place, Duplicate
<1>7. ASSUME NEW h \in Hooks, Respond(h) \/ Fail(h)
      PROVE  HeardIsStored' /\ \A g \in Hooks : HookConsistent(g)'
    <2>1. /\ hook'[h].pc = "idle" /\ \A g \in Hooks \ {h} : hook'[g] = hook[g]
          /\ UNCHANGED <<binding, items, ignored>>
        BY <1>1, <1>7 DEF Respond, Fail, rows, TypeOK, Quiet
    <2>2. HeardIsStored'
        BY <1>1, <1>7 DEF Respond, Fail, rows, HeardIsStored, HookConsistent
    <2> QED
        BY <1>1, <2>1, <2>2 DEF HookConsistent, Place, Duplicate
<1>8. ASSUME NEW s \in Sessions, Press(s) \/ Step(s) \/ Abort(s)
      PROVE  UNCHANGED <<hook, items, ignored, heard>>
    BY <1>8 DEF Press, Step, Lock, Authorize, Refuse, Decide, Show, Abort, rows
<1>9. ASSUME NEW c \in Chats, NEW p \in Places, Bind(c, p)
      PROVE  UNCHANGED <<hook, items, ignored, heard>>
    BY <1>9 DEF Bind, rows
<1>10. ASSUME NEW d \in Dispatchers, ChangeAccess(d)
       PROVE  UNCHANGED <<hook, items, ignored, heard>>
    BY <1>10 DEF ChangeAccess, rows
<1> QED
    BY <1>2, <1>3, <1>4, <1>5, <1>6, <1>7, <1>8, <1>9, <1>10 DEF Next, Serve, vars, rows

\* What a step of one press leaves true of another.
LEMMA OtherPresses ==
    ASSUME TriageInv, NEW s \in Sessions,
           \A u \in Sessions \ {s} : press'[u] = press[u],
           items \subseteq items',
           HasLock(s)' => press'[s].message = press[s].message
                            /\ (HasLock(s) \/ ~LockedByOther(s)),
           \A m \in Messages : (HasLock(s) /\ press[s].message = m)
               \/ (requestOf'[m] = requestOf[m] /\ (m \in dismissed' <=> m \in dismissed)),
           PressConsistent(s)'
    PROVE  \A u \in Sessions : PressConsistent(u)'
<1> SUFFICES ASSUME NEW u \in Sessions, u # s PROVE PressConsistent(u)'
    OBVIOUS
<1>1. press'[u] = press[u] /\ PressConsistent(u) /\ PressConsistent(s) /\ press[u].message \in Messages
    BY ArgumentTypes DEF TriageInv, TriageConsistent
<1>2. press'[u].pc # "idle" => press'[u].message \in items'
    BY <1>1 DEF PressConsistent
<1>3. ASSUME HasLock(u)' PROVE PressConsistent(u)'
    <2>1. HasLock(u)
        BY <1>1, <1>3 DEF HasLock
    <2>2. HasLock(s) => press[s].message # press[u].message
        BY <2>1, <1>1 DEF PressConsistent, LockedByOther
    <2>3. \A v \in Sessions \ {u, s} : HasLock(v)' => press'[v].message # press'[u].message
        BY <2>1, <1>1 DEF PressConsistent, LockedByOther, HasLock
    <2>4. HasLock(s)' => press'[s].message # press'[u].message
        BY <2>1, <2>2, <1>1 DEF LockedByOther
    <2>5. ~LockedByOther(u)'
        BY <2>3, <2>4 DEF LockedByOther
    <2> QED
        BY <1>1, <1>2, <2>1, <2>2, <2>5 DEF PressConsistent
<1> QED
    BY <1>2, <1>3 DEF PressConsistent

\* A press that ends has nothing locked and nothing to say.
LEMMA EndedPress ==
    ASSUME NEW s \in Sessions, press'[s].pc = "idle"
    PROVE  PressConsistent(s)' /\ ~HasLock(s)'
    BY DEF PressConsistent, HasLock

\* What the presses rely on: a row has one reader for update, who knows it.
LEMMA PressesStep ==
    ASSUME TriageInv, [Next]_vars
    PROVE  \A s \in Sessions : PressConsistent(s)'
<1>1. /\ TypeOK /\ \A s \in Sessions : PressConsistent(s) /\ press[s] \in PressStates
      /\ \A s \in Sessions : press[s].message \in Messages
      /\ Fresh.pc = "idle"
    BY ArgumentTypes DEF TriageInv, TriageConsistent, Fresh
<1>2. CASE UNCHANGED <<press, requestOf, dismissed>> /\ items \subseteq items'
    BY <1>1, <1>2 DEF PressConsistent, HasLock, LockedByOther
<1>3. ASSUME NEW s \in Sessions, Press(s) PROVE \A u \in Sessions : PressConsistent(u)'
    <2>1. PICK d \in Dispatchers, m \in items, x \in Actions :
              press' = [press EXCEPT ![s] =
                           [Fresh EXCEPT !.pc = "begun", !.dispatcher = d, !.message = m,
                                         !.action = x]]
        BY <1>3 DEF Press
    <2>2. /\ press'[s].pc = "begun" /\ press'[s].message = m
          /\ \A u \in Sessions \ {s} : press'[u] = press[u]
        BY <1>1, <2>1 DEF TypeOK, Fresh
    <2>3. UNCHANGED <<items, requestOf, dismissed>>
        BY <1>3 DEF Press, rows
    <2>4. ~HasLock(s)' /\ PressConsistent(s)'
        BY <2>2, <2>3 DEF HasLock, PressConsistent
    <2> QED
        BY <2>2, <2>3, <2>4, OtherPresses
<1>4. ASSUME NEW s \in Sessions, Lock(s) PROVE \A u \in Sessions : PressConsistent(u)'
    <2>1. /\ press[s].pc = "begun" /\ press'[s].pc = "locked" /\ ~LockedByOther(s)
          /\ press'[s].message = press[s].message
          /\ press'[s].request = requestOf[press[s].message]
          /\ press'[s].gone = (press[s].message \in dismissed)
          /\ \A u \in Sessions \ {s} : press'[u] = press[u]
        BY <1>1, <1>4 DEF Lock, TypeOK, PressStates
    <2>2. UNCHANGED <<items, requestOf, dismissed>>
        BY <1>4 DEF Lock, rows
    <2>3. ~LockedByOther(s)'
        BY <2>1 DEF LockedByOther, HasLock
    <2>4. PressConsistent(s)'
        BY <1>1, <2>1, <2>2, <2>3 DEF PressConsistent
    <2> QED
        BY <2>1, <2>2, <2>4, OtherPresses
<1>5. ASSUME NEW s \in Sessions, Authorize(s) PROVE \A u \in Sessions : PressConsistent(u)'
    <2>1. /\ press[s].pc = "locked" /\ press'[s].pc = "authorized"
          /\ press'[s].message = press[s].message /\ press'[s].request = press[s].request
          /\ press'[s].gone = press[s].gone
          /\ \A u \in Sessions \ {s} : press'[u] = press[u]
        BY <1>1, <1>5 DEF Authorize, TypeOK, PressStates
    <2>2. UNCHANGED <<items, requestOf, dismissed>>
        BY <1>5 DEF Authorize, rows
    <2>3. HasLock(s) /\ (~LockedByOther(s) => ~LockedByOther(s)')
        BY <2>1 DEF LockedByOther, HasLock
    <2>4. PressConsistent(s)'
        BY <1>1, <2>1, <2>2, <2>3 DEF PressConsistent
    <2> QED
        BY <2>1, <2>2, <2>3, <2>4, OtherPresses
<1>6. ASSUME NEW s \in Sessions, Refuse(s) \/ Show(s) \/ Abort(s)
      PROVE  \A u \in Sessions : PressConsistent(u)'
    <2>1. press'[s].pc = "idle" /\ \A u \in Sessions \ {s} : press'[u] = press[u]
        BY <1>1, <1>6 DEF Refuse, Show, Abort, TypeOK
    <2>2. UNCHANGED <<items, requestOf, dismissed>>
        BY <1>6 DEF Refuse, Show, Abort, rows
    <2>3. ~HasLock(s)' /\ PressConsistent(s)'
        BY <2>1, EndedPress
    <2> QED
        BY <2>1, <2>2, <2>3, OtherPresses
<1>7. ASSUME NEW s \in Sessions, Decide(s) PROVE \A u \in Sessions : PressConsistent(u)'
    <2>1. /\ press'[s].pc = "idle" /\ \A u \in Sessions \ {s} : press'[u] = press[u]
          /\ items' = items /\ HasLock(s)
        BY <1>1, <1>7 DEF Decide, TypeOK, HasLock
    <2>2. \A m \in Messages : m # press[s].message =>
              requestOf'[m] = requestOf[m] /\ (m \in dismissed' <=> m \in dismissed)
        BY <1>1, <1>7 DEF Decide, TypeOK
    <2>3. ~HasLock(s)' /\ PressConsistent(s)'
        BY <2>1, EndedPress
    <2> QED
        BY <2>1, <2>2, <2>3, OtherPresses
<1>8. ASSUME NEW h \in Hooks, Serve(h) \/ Fail(h) \/ \E m \in Messages : Deliver(h, m)
      PROVE  UNCHANGED <<press, requestOf, dismissed>> /\ items \subseteq items'
    BY <1>8 DEF Serve, Ignore, Receive, Store, Respond, Fail, Deliver, rows
<1>9. ASSUME NEW c \in Chats, NEW p \in Places, Bind(c, p)
      PROVE  UNCHANGED <<press, requestOf, dismissed>> /\ items \subseteq items'
    BY <1>9 DEF Bind, rows
<1>10. ASSUME NEW d \in Dispatchers, ChangeAccess(d)
       PROVE  UNCHANGED <<press, requestOf, dismissed>> /\ items \subseteq items'
    BY <1>10 DEF ChangeAccess, rows
<1> QED
    BY <1>2, <1>3, <1>4, <1>5, <1>6, <1>7, <1>8, <1>9, <1>10 DEF Next, Step, vars, rows

\* The invariant is inductive.
LEMMA TriageStep == TriageInv /\ [Next]_vars => TriageInv'
<1> SUFFICES ASSUME TriageInv, [Next]_vars PROVE TriageInv'
    OBVIOUS
<1>1. TypeOK'
    BY TypeStep DEF TriageInv
<1>2. TriagedOnce' /\ MeaningKept' /\ RowsConsistent'
    <2>1. CASE \E h \in Hooks : Store(h)
        BY <2>1, StoreRows
    <2>2. CASE \E s \in Sessions : Decide(s)
        BY <2>2, DecideRows
    <2>3. CASE UNCHANGED rows
        BY <2>3, RowsStay
    <2> QED
        BY <2>1, <2>2, <2>3 DEF Next, Bind, ChangeAccess, Deliver, Serve, Ignore, Receive, Respond,
           Fail, Press, Step, Lock, Authorize, Refuse, Show, Abort, vars
<1> QED
    BY <1>1, <1>2, HooksStep, PressesStep DEF TriageInv, TriageConsistent

\* Every variable keeps its type, whatever chats, dispatchers and faults do.
THEOREM TypeCorrect == Spec => []TypeOK
<1>1. TriageInv => TypeOK
    BY DEF TriageInv
<1> QED
    BY <1>1, TriageInit, TriageStep, PTL DEF Spec

\* A message becomes at most one request and is never laid aside as well
\* (dialogs.py:289-327).
THEOREM DecidedOnce == Spec => []TriagedOnce
<1>1. TriageInv => TriagedOnce
    BY DEF TriageInv
<1> QED
    BY <1>1, TriageInit, TriageStep, PTL DEF Spec

\* A request is made in the place the chat stood for when the message was
\* written (setup.py:128-130).
THEOREM MeaningStands == Spec => []MeaningKept
<1>1. TriageInv => MeaningKept
    BY DEF TriageInv
<1> QED
    BY <1>1, TriageInit, TriageStep, PTL DEF Spec

\* A message the provider heard 200 for is stored, or was ignored
\* (routes.py:61-82).
THEOREM NothingHeardIsLost == Spec => []HeardIsStored
<1>1. TriageInv => HeardIsStored
    BY DEF TriageInv
<1> QED
    BY <1>1, TriageInit, TriageStep, PTL DEF Spec

\* Receipts and rows have one owner at a time.
THEOREM Consistent == Spec => []TriageConsistent
<1>1. TriageInv => TriageConsistent
    BY DEF TriageInv
<1> QED
    BY <1>1, TriageInit, TriageStep, PTL DEF Spec

\* Every step is a step of the abstract inbox, or none it sees.
LEMMA InboxStep == TriageInv /\ [Next]_vars => [Inbox!Next]_(Inbox!inbox)
<1> SUFFICES ASSUME TriageInv, [Next]_vars PROVE [Inbox!Next]_(Inbox!inbox)
    OBVIOUS
<1>1. ASSUME NEW h \in Hooks, Store(h) PROVE Inbox!Next
    <2>1. hook[h].message \in Messages
        BY ArgumentTypes DEF TriageInv
    <2>2. Inbox!Store(hook[h].message)
        BY <1>1 DEF Store, Inbox!Store
    <2> QED
        BY <2>1, <2>2 DEF Inbox!Next
<1>2. ASSUME NEW s \in Sessions, Show(s) PROVE Inbox!Next
    <2> DEFINE m == press[s].message
    <2> DEFINE x == IF press[s].request # 0 THEN "card"
                    ELSE IF press[s].gone THEN "already" ELSE "text"
    <2>1. /\ m \in Messages /\ press[s].dispatcher \in Dispatchers
          /\ press[s].request = requestOf[m] /\ (press[s].gone <=> m \in dismissed)
          /\ (requestOf[m] # 0 <=> \E i \in DOMAIN requests : requests[i] = m)
          /\ m \in dismissed => requestOf[m] = 0
        BY <1>2, ArgumentTypes
           DEF TriageInv, TriageConsistent, PressConsistent, RowsConsistent, HasLock, Show,
               TriagedOnce
    <2>2. /\ x \in {"card", "already", "text"} /\ (x = "card" <=> Inbox!Requested(m))
          /\ (x = "already" <=> m \in dismissed)
        BY <2>1 DEF Inbox!Requested
    <2>3. Inbox!Tell(press[s].dispatcher, m, x) /\ UNCHANGED <<items, requests, dismissed>>
        BY <1>2 DEF Show, Tell, Inbox!Tell, rows
    <2>4. Inbox!Show(press[s].dispatcher, m)
        <3> HIDE DEF x
        <3> QED
            BY <2>2, <2>3 DEF Inbox!Show
    <2> QED
        BY <2>1, <2>4 DEF Inbox!Next
<1>3. CASE UNCHANGED <<items, requests, dismissed, told>>
    BY <1>3 DEF Inbox!inbox
<1>4. ASSUME NEW s \in Sessions, Decide(s) PROVE Inbox!Next
    BY <1>4, DecideRows
<1> QED
    BY <1>1, <1>2, <1>3, <1>4 DEF Next, Bind, ChangeAccess, Deliver, Serve, Ignore, Receive,
       Respond, Fail, Press, Step, Lock, Authorize, Refuse, Abort, vars, rows

\* The triage implements TriagedInbox.
THEOREM Refines == Spec => TriagesAtomically
<1>1. Init => Inbox!Init
    BY DEF Init, Inbox!Init
<1> QED
    BY <1>1, TriageInit, TriageStep, InboxStep, PTL DEF Spec, TriagesAtomically, Inbox!Spec

-----------------------------------------------------------------------------
(* Revocation.  Access is read after the row lock (dialogs.py:289-302), so  *)
(* what waits for the lock when the access ends is refused.                 *)

\* None of d's presses has passed the check of access.
Waits(d) ==
    \A s \in Sessions : press[s].dispatcher = d => press[s].pc \in {"idle", "begun", "locked"}

\* Who covers no place passes no check.
LEMMA ShutOutWaits ==
    ASSUME TypeOK, [Next]_vars, NEW d \in Dispatchers, Waits(d), may[d] = {}
    PROVE  Waits(d)'
<1>1. press \in [Sessions -> PressStates]
    BY DEF TypeOK
<1>2. ASSUME NEW s \in Sessions, Press(s) PROVE Waits(d)'
    <2>1. /\ press'[s].pc = "begun"
          /\ \A u \in Sessions \ {s} : press'[u] = press[u]
        BY <1>1, <1>2 DEF Press, Fresh
    <2> QED
        BY <2>1 DEF Waits
<1>3. ASSUME NEW s \in Sessions, Lock(s) PROVE Waits(d)'
    <2>1. press[s] \in PressStates
        BY <1>1
    <2>2. /\ press'[s].pc = "locked"
          /\ \A u \in Sessions \ {s} : press'[u] = press[u]
        BY <1>1, <2>1, <1>3 DEF Lock, PressStates
    <2> QED
        BY <2>2 DEF Waits
<1>4. ASSUME NEW s \in Sessions, Authorize(s) PROVE Waits(d)'
    <2>1. press[s].dispatcher # d
        BY <1>4 DEF Authorize, Authorized
    <2>2. press[s] \in PressStates
        BY <1>1
    <2>3. press' = [press EXCEPT ![s] = [press[s] EXCEPT !.pc = "authorized"]]
        BY <1>4 DEF Authorize
    <2>4. /\ press'[s].dispatcher = press[s].dispatcher
          /\ \A u \in Sessions \ {s} : press'[u] = press[u]
        BY <1>1, <2>2, <2>3 DEF PressStates
    <2> QED
        BY <2>1, <2>4 DEF Waits
<1>5. ASSUME NEW s \in Sessions, Refuse(s) \/ Decide(s) \/ Show(s) \/ Abort(s) PROVE Waits(d)'
    <2>1. press' = [press EXCEPT ![s] = Fresh]
        BY <1>5 DEF Refuse, Decide, Show, Abort
    <2>2. /\ press'[s].pc = "idle"
          /\ \A u \in Sessions \ {s} : press'[u] = press[u]
        BY <1>1, <2>1 DEF Fresh
    <2> QED
        BY <2>2 DEF Waits
<1>6. CASE UNCHANGED press
    BY <1>6 DEF Waits
<1> QED
    BY <1>2, <1>3, <1>4, <1>5, <1>6
       DEF Next, Step, Serve, Bind, ChangeAccess, Deliver, Ignore, Receive, Store, Respond, Fail, vars

\* While none of d's presses has passed, d is told nothing.
LEMMA WaitingGainsNothing ==
    ASSUME TypeOK, TypeOK', [Next]_vars, NEW d \in Dispatchers, Waits(d)
    PROVE  Gained(d)' = Gained(d)
<1>1. ASSUME NEW s \in Sessions, Decide(s) \/ Show(s)
      PROVE  {i \in DOMAIN told' : told'[i].dispatcher = d}
                 = {i \in DOMAIN told : told[i].dispatcher = d}
    <2>1. press[s].dispatcher # d
        BY <1>1 DEF Decide, Show, Waits
    <2>2. PICK x \in Told : Tell(s, x)
        BY <1>1 DEF Decide, Show, Told
    <2>3. /\ told \in Seq([dispatcher : Dispatchers, message : Messages, result : Told])
          /\ press[s] \in PressStates
        BY DEF TypeOK
    <2> DEFINE n == [dispatcher |-> press[s].dispatcher, message |-> press[s].message, result |-> x]
    <2>4. n \in [dispatcher : Dispatchers, message : Messages, result : Told]
        BY <2>3 DEF PressStates
    <2>5. told' = Append(told, n) /\ n.dispatcher # d
        BY <2>1, <2>2 DEF Tell
    <2> HIDE DEF n
    <2>6. /\ DOMAIN told' = DOMAIN told \cup {Len(told) + 1}
          /\ told'[Len(told) + 1] = n
          /\ \A i \in DOMAIN told : told'[i] = told[i]
        BY <2>3, <2>4, <2>5
    <2> QED
        BY <2>5, <2>6
<1>2. CASE UNCHANGED told
    BY <1>2 DEF Gained
<1> QED
    BY <1>1, <1>2
       DEF Next, Step, Serve, Bind, ChangeAccess, Deliver, Ignore, Receive, Store, Respond, Fail,
           Press, Lock, Authorize, Refuse, Abort, vars, Gained

\* A dispatcher whose access to every place ended for good decides and reads
\* nothing more (dialogs.py:289-302).
THEOREM RevokedDispatchersAlwaysStop == Spec => RevokedDispatchersStop
<1> SUFFICES ASSUME NEW d \in Dispatchers, NEW n \in 0..MaxPresses
             PROVE  Spec =>
        []( (/\ Gained(d) = n
             /\ \A s \in Sessions :
                    press[s].dispatcher = d => press[s].pc \in {"idle", "begun", "locked"}
             /\ [](may[d] = {}))
            => [](Gained(d) = n))
    BY DEF RevokedDispatchersStop
<1> DEFINE Kept == Gained(d) = n /\ Waits(d)
<1>1. Gained(d) = n /\ (\A s \in Sessions :
              press[s].dispatcher = d => press[s].pc \in {"idle", "begun", "locked"}) => Kept
    BY DEF Waits
<1>2. TriageInv /\ [Next]_vars => TriageInv'
    BY TriageStep
<1>3. TriageInv /\ TriageInv' /\ [Next]_vars /\ Kept /\ may[d] = {} => Kept'
    BY ShutOutWaits, WaitingGainsNothing DEF TriageInv
<1>4. Kept => Gained(d) = n
    OBVIOUS
<1> HIDE DEF Kept
<1> QED
    BY <1>1, <1>2, <1>3, <1>4, TriageInit, PTL DEF Spec

-----------------------------------------------------------------------------
(* The locks of staff events.                                              *)

LocksInv == LocksTypeOK /\ LocksInOrder /\ RenamedAreChosen

LEMMA IdleServing ==
    /\ Idle \in [pc : Phases, event : Events, own : BOOLEAN, talk : BOOLEAN,
                 task : BOOLEAN, other : BOOLEAN]
    /\ Idle.pc = "idle" /\ ~Idle.own /\ ~Idle.talk /\ ~Idle.task /\ ~Idle.other
<1>1. (CHOOSE e \in Events : TRUE) \in Events
    BY EventsAssumption
<1> QED
    BY <1>1 DEF Idle, Phases

\* What a transaction is after each of its statements.
LEMMA ServingMoves ==
    ASSUME LocksInv, NEW t \in Transactions,
           (\E e \in Events : DeliverEvent(t, e)) \/ Statement(t) \/ Detect(t)
    PROVE  /\ \A u \in Transactions \ {t} : txn'[u] = txn[u]
           /\ txn'[t] \in [pc : Phases, event : Events, own : BOOLEAN, talk : BOOLEAN,
                           task : BOOLEAN, other : BOOLEAN]
           /\ DOMAIN txn' = Transactions
           /\ txn'[t].own => txn'[t].pc \notin {"idle", "greet", "rename"}
           /\ txn'[t].talk => txn'[t].pc \in {"act", "locked", "notify", "ready"}
           /\ txn'[t].task => txn'[t].pc \in {"locked", "notify", "ready"}
           /\ txn'[t].other => txn'[t].pc = "ready"
           /\ txn'[t].pc = "notify" => Recipient(t)' \in Chosen
           /\ handled' \in SUBSET Events
<1>1. txn \in [Transactions -> [pc : Phases, event : Events, own : BOOLEAN, talk : BOOLEAN,
                               task : BOOLEAN, other : BOOLEAN]]
      /\ handled \subseteq Events
    BY DEF LocksInv, LocksTypeOK
<1>2. /\ txn[t].own => txn[t].pc \notin {"idle", "greet", "rename"}
      /\ txn[t].talk => txn[t].pc \in {"act", "locked", "notify", "ready"}
      /\ txn[t].task => txn[t].pc \in {"locked", "notify", "ready"}
      /\ txn[t].other => txn[t].pc = "ready"
    BY DEF LocksInv, LocksInOrder
<1>4. CASE \E e \in Events : DeliverEvent(t, e)
    <2>1. PICK e \in Events : DeliverEvent(t, e)
        BY <1>4
    <2>2. /\ txn' = [txn EXCEPT ![t] = [Idle EXCEPT !.pc = "greet", !.event = e]]
          /\ handled' = handled
        BY <2>1 DEF DeliverEvent
    <2> DEFINE new == [Idle EXCEPT !.pc = "greet", !.event = e]
    <2>3. /\ new.pc = "greet" /\ ~new.own /\ ~new.talk /\ ~new.task /\ ~new.other
          /\ new \in [pc : Phases, event : Events, own : BOOLEAN, talk : BOOLEAN,
                      task : BOOLEAN, other : BOOLEAN]
        BY IdleServing DEF Phases
    <2>4. txn' = [txn EXCEPT ![t] = new]
        BY <2>2
    <2> HIDE DEF new
    <2>5. /\ txn'[t] = new /\ DOMAIN txn' = Transactions
          /\ \A u \in Transactions \ {t} : txn'[u] = txn[u]
        BY <1>1, <2>4
    <2> QED
        BY <1>1, <2>2, <2>3, <2>5
<1>5. CASE Greet(t)
    BY <1>1, <1>2, <1>5 DEF Greet, Phases
<1>6. CASE Rename(t)
    BY <1>1, <1>2, <1>6 DEF Rename, Phases
<1>7. CASE Converse(t)
    BY <1>1, <1>2, <1>7 DEF Converse, Phases
<1>8. CASE LockTask(t)
    BY <1>1, <1>2, <1>8 DEF LockTask, Phases
<1>9. CASE Recognize(t)
    <2>1. /\ txn'[t].pc \in {"notify", "ready"} /\ txn'[t].event = txn[t].event
          /\ txn'[t].pc = "notify" => Seen(t, Recipient(t)) # EmployeeName(Recipient(t))
        BY <1>1, <1>9 DEF Recognize
    <2>2. Recipient(t) \in Users /\ Recipient(t)' = Recipient(t)
        BY <1>1, <2>1, EventsAssumption DEF Recipient
    <2>3. Recipient(t) \notin Chosen => Seen(t, Recipient(t)) = EmployeeName(Recipient(t))
        BY <2>2 DEF LocksInv, RenamedAreChosen, Seen, EmployeeName
    <2> QED
        BY <1>1, <1>2, <1>9, <2>1, <2>2, <2>3 DEF Recognize, Phases
<1>10. CASE Notify(t)
    BY <1>1, <1>2, <1>10 DEF Notify, Phases
<1>11. CASE Commit(t) \/ Detect(t)
    BY <1>1, <1>11, IdleServing DEF Commit, Detect
<1> QED
    BY <1>4, <1>5, <1>6, <1>7, <1>8, <1>9, <1>10, <1>11 DEF Statement

LEMMA LocksStep ==
    ASSUME LocksInv, [LocksNext]_locks
    PROVE  LocksInv'
<1>1. ASSUME NEW t \in Transactions,
             (\E e \in Events : DeliverEvent(t, e)) \/ Statement(t) \/ Detect(t)
      PROVE  LocksInv'
    <2>1. /\ name' \in [Users -> {"max", "crm"}]
          /\ \A u \in Users \ Chosen : name'[u] = "max"
        <3>1. CASE UNCHANGED name
            BY <3>1 DEF LocksInv, LocksTypeOK, RenamedAreChosen
        <3>2. CASE Commit(t)
            <4>1. name' = [u \in Users |-> IF txn[t].other /\ u = Recipient(t)
                                           THEN EmployeeName(u) ELSE Seen(t, u)]
                BY <3>2 DEF Commit
            <4>2. \A u \in Users : /\ EmployeeName(u) \in {"max", "crm"}
                                   /\ Seen(t, u) \in {"max", "crm"}
                BY DEF LocksInv, LocksTypeOK, EmployeeName, Seen
            <4>3. \A u \in Users \ Chosen : EmployeeName(u) = "max" /\ Seen(t, u) = "max"
                BY DEF LocksInv, RenamedAreChosen, EmployeeName, Seen
            <4> QED
                BY <4>1, <4>2, <4>3
        <3> QED
            BY <1>1, <3>1, <3>2
            DEF DeliverEvent, Statement, Greet, Rename, Converse, LockTask, Recognize, Notify, Detect
    <2>2. LocksTypeOK'
        <3> DEFINE Servings == [pc : Phases, event : Events, own : BOOLEAN, talk : BOOLEAN,
                                task : BOOLEAN, other : BOOLEAN]
        <3>1. /\ \A u \in Transactions : txn'[u] \in Servings
              /\ DOMAIN txn' = Transactions /\ handled' \in SUBSET Events
            <4>1. /\ txn'[t] \in Servings /\ \A u \in Transactions \ {t} : txn'[u] = txn[u]
                  /\ DOMAIN txn' = Transactions /\ handled' \in SUBSET Events
                BY <1>1, ServingMoves
            <4>2. \A u \in Transactions : txn[u] \in Servings
                BY DEF LocksInv, LocksTypeOK
            <4> HIDE DEF Servings
            <4> QED
                BY <4>1, <4>2
        <3>2. txn' = [u \in Transactions |-> txn'[u]]
            <4>1. \E f : txn' = [txn EXCEPT ![t] = f]
                BY <1>1 DEF DeliverEvent, Statement, Greet, Rename, Converse, LockTask, Recognize,
                            Notify, Commit, Detect
            <4> QED
                BY <4>1 DEF LocksInv, LocksTypeOK
        <3> HIDE DEF Servings
        <3>3. txn' \in [Transactions -> Servings]
            BY <3>1, <3>2
        <3> QED
            BY <2>1, <3>1, <3>3 DEF LocksTypeOK, Servings
    <2>3. LocksInOrder'
        BY <1>1, ServingMoves DEF LocksInv, LocksInOrder
    <2>4. RenamedAreChosen'
        BY <1>1, <2>1, ServingMoves DEF LocksInv, RenamedAreChosen, Recipient
    <2> QED
        BY <2>2, <2>3, <2>4 DEF LocksInv
<1>2. CASE UNCHANGED locks
    BY <1>2 DEF locks, LocksInv, LocksTypeOK, LocksInOrder, RenamedAreChosen, Recipient
<1> QED
    BY <1>1, <1>2 DEF LocksNext, Done

LEMMA LocksStart == LocksInit => LocksInv
<1> SUFFICES ASSUME LocksInit PROVE LocksInv
    OBVIOUS
<1>1. txn \in [Transactions -> [pc : Phases, event : Events, own : BOOLEAN, talk : BOOLEAN,
                               task : BOOLEAN, other : BOOLEAN]]
      /\ \A t \in Transactions : txn[t] = Idle
    BY IdleServing DEF LocksInit
<1> QED
    BY <1>1, IdleServing
    DEF LocksInit, LocksInv, LocksTypeOK, LocksInOrder, RenamedAreChosen

\* A transaction waits for one that is further in the order of the locks, unless it
\* waits to rename a recipient: among the others nobody is the last.
LEMMA OrderedWaitsEnd ==
    ASSUME LocksInv, NEW S \in SUBSET Transactions, Deadlocked(S)
    PROVE  \E t \in S : txn[t].pc = "notify"
<1> SUFFICES ASSUME \A t \in S : txn[t].pc # "notify"
             PROVE  FALSE
    OBVIOUS
<1>1. \A t \in S : \E u \in S : Wanted(t) \cap Held(u) # {}
    BY DEF Deadlocked, WaitsFor
<1>2. ASSUME NEW t \in S
      PROVE  txn[t].pc \in {"rename", "converse", "act"}
    <2>1. Wanted(t) # {}
        BY <1>1
    <2> QED
        BY <2>1 DEF Wanted
<1>3. ASSUME NEW t \in S
      PROVE  ~txn[t].task /\ ~txn[t].other
    BY <1>2 DEF LocksInv, LocksInOrder
<1>4. ASSUME NEW t \in S
      PROVE  txn[t].pc # "act"
    <2> SUFFICES ASSUME txn[t].pc = "act" PROVE FALSE
        OBVIOUS
    <2>1. Wanted(t) = {<<"requests", TaskOf[txn[t].event]>>}
        BY DEF Wanted
    <2>2. PICK u \in S : Wanted(t) \cap Held(u) # {}
        BY <1>1
    <2> QED
        BY <1>3, <2>1, <2>2 DEF Held
<1>5. ASSUME NEW t \in S
      PROVE  txn[t].pc # "converse"
    <2> SUFFICES ASSUME txn[t].pc = "converse" PROVE FALSE
        OBVIOUS
    <2>1. Wanted(t) = {<<"conversations", Actor(t)>>}
        BY DEF Wanted
    <2>2. PICK u \in S : Wanted(t) \cap Held(u) # {}
        BY <1>1
    <2>3. ~txn[u].talk
        BY <1>2, <1>4 DEF LocksInv, LocksInOrder
    <2> QED
        BY <1>3, <2>1, <2>2, <2>3 DEF Held
<1>6. ASSUME NEW t \in S
      PROVE  Held(t) = {}
    BY <1>2, <1>3, <1>4, <1>5 DEF Held, LocksInv, LocksInOrder
<1> QED
    BY <1>1, <1>6 DEF Deadlocked

\* However many users, events and transactions there are, a circle of waits goes through
\* somebody who holds a request and waits to rename its recipient, to a name that the
\* owner chose (native_actor in src/app/bot/identity.py, called by the assignment in
\* src/app/bot/dialogs.py): without such names PostgreSQL has no deadlock to end.
THEOREM OnlyRenamingsEverDeadlock == LocksSpec => []OnlyRenamingsDeadlock
<1>1. LocksInv => OnlyRenamingsDeadlock
    BY OrderedWaitsEnd DEF OnlyRenamingsDeadlock, LocksInv, RenamedAreChosen
<1>2. LocksInv /\ [LocksNext]_locks => LocksInv'
    BY LocksStep
<1> QED
    BY <1>1, <1>2, LocksStart, PTL DEF LocksSpec
=============================================================================
