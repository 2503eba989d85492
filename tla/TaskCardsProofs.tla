---------------------------- MODULE TaskCardsProofs ----------------------------
(***************************************************************************)
(* For any houses, areas, categories, roles and requests: the rule written  *)
(* as predicates and the rule written on rows agree, buttons are accepted,  *)
(* assignees can report, and equal stamps open the same requests.  For any  *)
(* number of people, sessions and events: the cards of a request reach each *)
(* recipient in order, owners hear of every report, and only a race can     *)
(* reveal a request.                                                        *)
(***************************************************************************)
EXTENDS TaskCards, FiniteSetTheorems, SequenceTheorems, TLAPS

\* A membership that is in scope for a row is in scope for the queries.
LEMMA RuleIsOne ==
    ASSUME NEW a \in Accesses, NEW r \in Places, IsOwner(a) \/ Readable(a)
    PROVE  InPredicates(a, r) <=> InScope(a, r)
<1>1. r[1] \in Houses /\ r[2] \in Categories
  BY DEF Places
<1>2. CASE IsOwner(a)
  BY <1>1, <1>2 DEF InPredicates, InScope, HousePredicate, CategoryPredicate, CanHouse,
     CanCategory
<1>3. CASE ~IsOwner(a)
  <2>1. a.member \in Members
    BY <1>3 DEF Accesses, Readable
  <2>2. r[1] \in HousePredicate(a) <=> CanHouse(a, r[1])
    BY <1>1, <1>3, <2>1, AccessAssumption DEF HousePredicate, CanHouse, Members
  <2>3. r[2] \in CategoryPredicate(a) <=> CanCategory(a, r[2])
    BY <1>1, <1>3, <2>1 DEF CategoryPredicate, CanCategory, Members
  <2> QED  BY <2>2, <2>3 DEF InPredicates, InScope
<1> QED  BY <1>2, <1>3

LEMMA LoadsNeedsMember ==
    ASSUME NEW a, NEW p, Loads(a, p) PROVE IsOwner(a) \/ Readable(a)
BY DEF Loads

\* Lists, the request API and the inbox show exactly what opens: the predicates of
\* the queries and the checks on rows are one rule for every membership, owners and
\* unreadable scopes included (access.py:40-67; docs/crm-intake.md:166).
THEOREM ListsAgreeWithCards ==
    ASSUME NEW a \in Accesses, NEW r \in Places, NEW mine \in BOOLEAN
    PROVE  /\ InAllTasks(a, r) <=> Opens(a, r)
           /\ OpensInApi(a, r) <=> Opens(a, r)
           /\ InMyTasks(a, r, mine) => Opens(a, r) /\ mine
           /\ InInbox(a, r) <=> MessageOpens(a, r)
<1>1. Loads(a, "view") \/ Loads(a, "create") => (InPredicates(a, r) <=> InScope(a, r))
  BY RuleIsOne, LoadsNeedsMember
<1> QED  BY <1>1 DEF InAllTasks, Opens, Reaches, OpensInApi, InMyTasks, InInbox, MessageOpens

\* A button that was shown is accepted if nothing changed since: results, the list
\* of candidates, a candidate whose account is enabled, and a house and a category
\* that may be chosen for a new request - the last one for users who may also see
\* the request, for the creation ends with its card (dialogs.py:122, 455, 560).
THEOREM ShownButtonsAreAccepted ==
    ASSUME NEW a \in Accesses, NEW r \in Places, NEW mine \in BOOLEAN
    PROVE  /\ OffersResults(a, r, mine) => ReportAccepted(a, r, mine)
           /\ OffersCandidates(a, r) => CandidatesAccepted(a, r)
           /\ IsCandidate(a, r) /\ a.enabled => AssignAccepted(a, r)
           /\ Offered(a, r) /\ Loads(a, "view") => CreationAccepted(a, r)
<1>1. OffersResults(a, r, mine) => ReportAccepted(a, r, mine)
  BY DEF OffersResults, ReportAccepted, MayReport, Opens, Reaches, Loads, Readable
<1>2. OffersCandidates(a, r) => CandidatesAccepted(a, r)
  BY DEF OffersCandidates, CandidatesAccepted, Opens, Reaches, Loads
<1>3. IsCandidate(a, r) /\ a.enabled => AssignAccepted(a, r)
  BY DEF IsCandidate, AssignAccepted
<1>4. Loads(a, "create") => (InPredicates(a, r) <=> InScope(a, r))
  BY RuleIsOne, LoadsNeedsMember
<1>5. Offered(a, r) /\ Loads(a, "view") => CreationAccepted(a, r)
  BY <1>4 DEF Offered, CreationAccepted, InPredicates, Opens, Reaches
<1> QED  BY <1>1, <1>2, <1>3, <1>5

\* Who may be given a request can open it and report on it: no request is assigned
\* to somebody it is hidden from (task_workflow.py:133).
THEOREM AssigneesCanReport ==
    ASSUME NEW a \in Accesses, NEW r \in Places, AssignAccepted(a, r)
    PROVE  Opens(a, r) /\ ReportAccepted(a, r, TRUE)
<1>1. Known(a) /\ Readable(a) /\ {"view", "update"} \subseteq a.role /\ MemberInScope(a, r)
  BY DEF AssignAccepted, Known
<1>2. Opens(a, r)
  BY <1>1 DEF Opens, Reaches, Loads, InScope, CanHouse, CanCategory, MemberInScope
<1> QED  BY <1>1, <1>2 DEF ReportAccepted, MayReport, Opens, Reaches, Loads, Readable

\* Rights with one stamp reach the same requests.
LEMMA EqualStampsReachAlike ==
    ASSUME NEW a \in Accesses, NEW b \in Accesses, Stamp(a) = Stamp(b), NEW r \in Places
    PROVE  Reaches(a, r) <=> Reaches(b, r)
<1>1. CASE IsOwner(a) \/ IsOwner(b)
  BY <1>1 DEF Stamp, Reaches, Loads, InScope, CanHouse, CanCategory
<1>2. CASE ~IsOwner(a) /\ ~IsOwner(b)
  <2>1. CASE a.member = Absent \/ b.member = Absent
    BY <1>2, <2>1 DEF Stamp, Reaches, Loads, Readable
  <2>2. CASE a.member # Absent /\ b.member # Absent
    <3>1. a.member = b.member /\ a.role = b.role
      BY <1>2, <2>2 DEF Stamp
    <3> QED  BY <1>2, <3>1 DEF Reaches, Loads, Readable, InScope, CanHouse, CanCategory
  <2> QED  BY <2>1, <2>2
<1> QED  BY <1>1, <1>2

\* Two rights of a user who may use the bot both times have one stamp only if they
\* open the same requests: whatever changed between the queueing of a card and its
\* sending, a card with the stamp of the moment shows what may be opened
\* (identity.py:51-75, worker.py:47).
THEOREM EqualStampsOpenAlike ==
    ASSUME NEW a \in Accesses, NEW b \in Accesses, Known(a), Known(b), Stamp(a) = Stamp(b),
           NEW r \in Places
    PROVE  Opens(a, r) <=> Opens(b, r)
BY EqualStampsReachAlike DEF Opens

--------------------------------------------------------------------------------
(* The recipients of an event's cards.                                        *)

\* The settings list every owner once.
LEMMA OwnersListed ==
    /\ Cardinality(Owners) \in Nat \ {0}
    /\ OwnersInTurn \in [1..Cardinality(Owners) -> Owners]
    /\ \A u \in Owners : \E i \in 1..Cardinality(Owners) : OwnersInTurn[i] = u
    /\ \A i, j \in 1..Cardinality(Owners) : OwnersInTurn[i] = OwnersInTurn[j] => i = j
<1> DEFINE n == Cardinality(Owners)
<1>1. IsFiniteSet(Owners) /\ n \in Nat /\ n # 0
  BY CardsAssumption, FS_CardinalityType, FS_EmptySet
<1>2. PICK f \in Bijection(1..n, Owners) : TRUE
  BY <1>1, FS_CardinalityType DEF ExistsBijection
<1>3. f \in [1..n -> Owners] /\ {f[i] : i \in DOMAIN f} = Owners
  BY <1>2 DEF Bijection, Surjection
<1> DEFINE q == OwnersInTurn
<1>4. q \in [1..n -> Owners] /\ {q[i] : i \in DOMAIN q} = Owners
  BY <1>3 DEF OwnersInTurn
<1>5. q \in Surjection(1..n, Owners)
  BY <1>4 DEF Surjection
<1>6. IsFiniteSet(1..n) /\ Cardinality(1..n) = n
  BY <1>1, FS_Interval
<1>7. q \in Injection(1..n, Owners)
  BY <1>1, <1>5, <1>6, FS_SurjSameCardinalityImpliesInj
<1> QED  BY <1>1, <1>4, <1>7 DEF Injection, IsInjective

\* Leaving one out keeps the others, each once.
LEMMA OthersListed ==
    ASSUME NEW u \in Users
    PROVE  /\ OthersInTurn(u) \in Seq(Owners)
           /\ \A v \in Owners \ {u} : \E i \in DOMAIN OthersInTurn(u) : OthersInTurn(u)[i] = v
           /\ \A i \in DOMAIN OthersInTurn(u) : OthersInTurn(u)[i] # u
           /\ \A i, j \in DOMAIN OthersInTurn(u) :
                  OthersInTurn(u)[i] = OthersInTurn(u)[j] => i = j
<1> DEFINE q == OwnersInTurn
           n == Cardinality(Owners)
           at == CHOOSE i \in DOMAIN q : q[i] = u
           o == [i \in 1..(n - 1) |-> q[IF i < at THEN i ELSE i + 1]]
<1>1. /\ n \in Nat \ {0} /\ q \in [1..n -> Owners]
      /\ \A v \in Owners : \E i \in 1..n : q[i] = v
      /\ \A i, j \in 1..n : q[i] = q[j] => i = j
  BY OwnersListed
<1>2. CASE u \notin Owners
  <2>1. OthersInTurn(u) = q
    BY <1>2 DEF OthersInTurn
  <2>2. q \in Seq(Owners) /\ DOMAIN q = 1..n
    BY <1>1
  <2> QED  BY <1>1, <1>2, <2>1, <2>2
<1>3. CASE u \in Owners
  <2>1. OthersInTurn(u) = o
    BY <1>3 DEF OthersInTurn
  <2>2. at \in 1..n /\ q[at] = u
    BY <1>1, <1>3
  <2> HIDE DEF q, n, at
  <2>3. /\ n - 1 \in Nat
        /\ \A i \in 1..(n - 1) : (IF i < at THEN i ELSE i + 1) \in (1..n) \ {at}
    BY <1>1, <2>2
  <2>4. o \in [1..(n - 1) -> Owners]
    BY <1>1, <2>3
  <2>5. o \in Seq(Owners) /\ DOMAIN o = 1..(n - 1)
    BY <2>3, <2>4
  <2>6. ASSUME NEW v \in Owners \ {u} PROVE \E i \in 1..(n - 1) : o[i] = v
    <3>1. PICK k \in 1..n : q[k] = v
      BY <1>1
    <3>2. k # at
      BY <2>2, <3>1
    <3>3. CASE k < at
      <4>1. k \in 1..(n - 1)
        BY <1>1, <2>2, <3>3
      <4> QED  BY <3>1, <3>3, <4>1
    <3>4. CASE k > at
      <4>1. k - 1 \in 1..(n - 1) /\ ~(k - 1 < at) /\ (k - 1) + 1 = k
        BY <1>1, <2>2, <3>4
      <4>2. o[k - 1] = q[k]
        BY <4>1
      <4> QED  BY <3>1, <4>1, <4>2
    <3> QED  BY <1>1, <2>2, <3>2, <3>3, <3>4
  <2>7. \A i \in 1..(n - 1) : o[i] # u
    BY <1>1, <2>2, <2>3
  <2>8. ASSUME NEW i \in 1..(n - 1), NEW j \in 1..(n - 1), o[i] = o[j] PROVE i = j
    <3>1. (IF i < at THEN i ELSE i + 1) = (IF j < at THEN j ELSE j + 1)
      BY <1>1, <2>3, <2>8
    <3> QED  BY <1>1, <2>2, <3>1
  <2> QED  BY <2>1, <2>5, <2>6, <2>7, <2>8
<1> QED  BY <1>2, <1>3

\* Who is told: the assignee and the assigner, or the reporter and the owners, and
\* nobody twice but who assigns a request to himself or herself.
LEMMA RecipientsListed ==
    ASSUME TypeOK, NEW t \in Sessions
    PROVE  LET q == Recipients(t)
               e == txn[t]
           IN /\ q \in Seq(Users) /\ q # <<>>
              /\ \A i, j \in DOMAIN q : q[i] = q[j] => i = j \/ q[i] = e.actor
              /\ e.to = Nobody => /\ \A u \in Owners \ {e.actor} : \E i \in DOMAIN q : q[i] = u
                                  /\ \A i \in DOMAIN q : q[i] \in Owners \cup {e.actor}
              /\ e.to # Nobody => \A i \in DOMAIN q : q[i] \in {e.actor, e.to}
<1> DEFINE q == Recipients(t)
           e == txn[t]
           o == OthersInTurn(e.actor)
<1>1. e.actor \in Users /\ e.to \in Employees \cup {Nobody}
  BY DEF TypeOK, Txns
<1>2. CASE e.to # Nobody
  <2>1. q = <<e.to, e.actor>> /\ e.to \in Users
    BY <1>1, <1>2 DEF Recipients, Users
  <2> QED  BY <1>1, <1>2, <2>1
<1>3. CASE e.to = Nobody
  <2>1. q = <<e.actor>> \o o
    BY <1>3 DEF Recipients
  <2>2. /\ o \in Seq(Owners)
        /\ \A v \in Owners \ {e.actor} : \E i \in DOMAIN o : o[i] = v
        /\ \A i, j \in DOMAIN o : o[i] = o[j] => i = j
    BY <1>1, OthersListed
  <2> HIDE DEF o, e
  <2>3. o \in Seq(Users) /\ <<e.actor>> \in Seq(Users) /\ Len(<<e.actor>>) = 1
    BY <1>1, <2>2 DEF Users
  <2>4. /\ q \in Seq(Users) /\ Len(q) = 1 + Len(o) /\ q[1] = e.actor
        /\ \A i \in 1..Len(o) : q[i + 1] = o[i]
    BY <2>1, <2>3
  <2> HIDE DEF q
  <2>5. /\ DOMAIN q = 1..(1 + Len(o)) /\ DOMAIN o = 1..Len(o) /\ Len(o) \in Nat
        /\ \A i \in 1..Len(o) : o[i] \in Owners
    BY <2>2, <2>4
  <2>6. \A i \in DOMAIN q : i # 1 => /\ i - 1 \in DOMAIN o /\ q[i] = o[i - 1]
    BY <2>4, <2>5
  <2>7. \A u \in Owners \ {e.actor} : \E i \in DOMAIN q : q[i] = u
    BY <2>2, <2>4, <2>5
  <2>8. \A i, j \in DOMAIN q : q[i] = q[j] => i = j \/ q[i] = e.actor
    BY <2>2, <2>4, <2>5, <2>6
  <2>9. q # <<>>
    BY <2>4, <2>5
  <2> QED  BY <1>3, <2>4, <2>5, <2>6, <2>7, <2>8, <2>9 DEF q, e
<1> QED  BY <1>2, <1>3

--------------------------------------------------------------------------------
(* The steps, as the invariants need them, and types.                         *)

Workers == [pc : DeliveryPhases, card : Cards \cup {Nobody}, late : BOOLEAN]

OthersSame(t) == \A u \in Sessions \ {t} : txn'[u] = txn[u]

\* A session that handles nothing.
LEMMA IdleType ==
    /\ Idle \in Txns
    /\ Idle.pc = "idle" /\ Idle.rows = {}
<1>1. (CHOOSE u \in Users : TRUE) \in Users
  BY CardsAssumption DEF Users
<1>2. (CHOOSE k \in Tasks : TRUE) \in Tasks
  BY CardsAssumption
<1> QED  BY <1>1, <1>2 DEF Idle, Txns, Phases

\* An event ends, with or without its cards.
LEMMA EndMove ==
    ASSUME TypeOK, NEW t \in Sessions, txn' = [txn EXCEPT ![t] = Idle]
    PROVE  txn' \in [Sessions -> Txns] /\ txn'[t] = Idle /\ OthersSame(t)
BY IdleType DEF TypeOK, OthersSame

\* An event is taken up.
LEMMA BeginMove ==
    ASSUME TypeOK, NEW t \in Sessions, Begin(t)
    PROVE  /\ txn' \in [Sessions -> Txns] /\ OthersSame(t)
           /\ txn'[t].pc = "begun" /\ txn'[t].rows = {}
           /\ txn[t].pc = "idle"
           /\ UNCHANGED <<access, revision, assignee, reports, queue, worker, sent, drawn>>
<1>1. PICK u \in Users, k \in Tasks, b \in Employees \cup {Nobody} :
          \E n \in 0..revision[k] : txn' = [txn EXCEPT ![t] = Call(u, k, b, n)]
  BY DEF Begin
<1>2. PICK n \in 0..revision[k] : txn' = [txn EXCEPT ![t] = Call(u, k, b, n)]
  BY <1>1
<1>3. n \in Nat
  BY DEF TypeOK
<1>4. Call(u, k, b, n) \in Txns /\ Call(u, k, b, n).pc = "begun" /\ Call(u, k, b, n).rows = {}
  BY <1>3, IdleType DEF Call, Txns, Phases
<1> QED  BY <1>2, <1>4 DEF TypeOK, OthersSame, Begin

\* The request's row is locked and the recipients are settled.
LEMMA LockMove ==
    ASSUME TypeOK, NEW t \in Sessions, Lock(t)
    PROVE  /\ txn' \in [Sessions -> Txns] /\ OthersSame(t)
           /\ txn[t].pc = "begun" /\ txn'[t].pc = "cards" /\ txn'[t].left = Recipients(t)
           /\ txn'[t].revision = txn[t].revision + 1
           /\ txn'[t].actor = txn[t].actor /\ txn'[t].task = txn[t].task
           /\ txn'[t].to = txn[t].to /\ txn'[t].rows = txn[t].rows
           /\ ~LockedByOther(t) /\ Allowed(t)
           /\ UNCHANGED <<access, revision, assignee, reports, queue, worker, sent, drawn>>
<1>1. txn[t] \in Txns /\ Recipients(t) \in Seq(Users)
  BY RecipientsListed DEF TypeOK
<1>0. txn[t].revision + 1 \in Nat
  BY <1>1 DEF Txns
<1> DEFINE e == [txn[t] EXCEPT !.pc = "cards", !.revision = txn[t].revision + 1,
                               !.left = Recipients(t)]
<1>2. txn' = [txn EXCEPT ![t] = e]
  BY DEF Lock
<1>3. /\ e \in Txns /\ e.pc = "cards" /\ e.left = Recipients(t)
      /\ e.revision = txn[t].revision + 1
      /\ e.actor = txn[t].actor /\ e.task = txn[t].task
      /\ e.to = txn[t].to /\ e.rows = txn[t].rows
  BY <1>0, <1>1 DEF Txns, Phases
<1> HIDE DEF e
<1>4. txn' \in [Sessions -> Txns] /\ txn'[t] = e /\ OthersSame(t)
  BY <1>2, <1>3 DEF TypeOK, OthersSame
<1> QED  BY <1>3, <1>4 DEF Lock

\* What the next card says has been read; or the event is given up.
LEMMA ReadMove ==
    ASSUME TypeOK, NEW t \in Sessions, Read(t)
    PROVE  /\ txn' \in [Sessions -> Txns] /\ OthersSame(t)
           /\ txn[t].pc = "cards"
           /\ \/ txn'[t] = Idle
              \/ /\ txn'[t].pc = "stamp"
                 /\ txn'[t].actor = txn[t].actor /\ txn'[t].task = txn[t].task
                 /\ txn'[t].to = txn[t].to /\ txn'[t].rows = txn[t].rows
                 /\ txn'[t].revision = txn[t].revision /\ txn'[t].left = txn[t].left
                 /\ txn'[t].changed = txn[t].changed
           /\ UNCHANGED <<access, revision, assignee, reports, queue, worker, sent, drawn>>
<1>1. txn[t] \in Txns
  BY DEF TypeOK
<1>2. CASE Readies(t)
  <2> DEFINE e == [txn[t] EXCEPT !.pc = "stamp"]
  <2>1. txn' = [txn EXCEPT ![t] = e]
    BY <1>2 DEF Read
  <2>2. /\ e \in Txns /\ e.pc = "stamp"
        /\ e.actor = txn[t].actor /\ e.task = txn[t].task /\ e.to = txn[t].to
        /\ e.rows = txn[t].rows /\ e.revision = txn[t].revision /\ e.left = txn[t].left
        /\ e.changed = txn[t].changed
    BY <1>1 DEF Txns, Phases
  <2> HIDE DEF e
  <2>3. txn' \in [Sessions -> Txns] /\ txn'[t] = e /\ OthersSame(t)
    BY <2>1, <2>2 DEF TypeOK, OthersSame
  <2> QED  BY <2>2, <2>3 DEF Read
<1>3. CASE ~Readies(t)
  BY <1>3, EndMove DEF Read
<1> QED  BY <1>2, <1>3

\* The card a reply makes.
CardOf(t) ==
    [sequence |-> drawn + 1, to |-> Head(txn[t].left), by |-> txn[t].actor, task |-> txn[t].task,
     revision |-> txn[t].revision, stamp |-> Stamp(access[Head(txn[t].left)]),
     raced |-> Head(txn[t].left) \in txn[t].changed]

\* A card is made for the next recipient.
LEMMA ReplyMove ==
    ASSUME TypeOK, NEW t \in Sessions, Reply(t), txn[t].left # <<>>
    PROVE  /\ txn' \in [Sessions -> Txns] /\ OthersSame(t)
           /\ txn[t].pc = "stamp" /\ drawn' = drawn + 1
           /\ txn'[t].pc \in {"cards", "ready"}
           /\ txn'[t].pc = "ready" <=> Tail(txn[t].left) = <<>>
           /\ txn'[t].left = Tail(txn[t].left)
           /\ txn'[t].rows = txn[t].rows \cup {CardOf(t)} /\ CardOf(t) \in Cards
           /\ txn'[t].actor = txn[t].actor /\ txn'[t].task = txn[t].task
           /\ txn'[t].to = txn[t].to /\ txn'[t].changed = txn[t].changed
           /\ txn'[t].revision = txn[t].revision
           /\ UNCHANGED <<access, revision, assignee, reports, queue, worker, sent>>
<1>1. txn[t] \in Txns /\ txn[t].left \in Seq(Users)
  BY DEF TypeOK, Txns
<1>2. Head(txn[t].left) \in Users /\ Tail(txn[t].left) \in Seq(Users)
  BY <1>1
<1>3. CardOf(t) \in Cards
  <2>1. access[Head(txn[t].left)] \in Accesses /\ drawn + 1 \in Nat
    BY <1>2 DEF TypeOK
  <2>2. txn[t].actor \in Users /\ txn[t].task \in Tasks /\ txn[t].revision \in Nat
    BY <1>1 DEF Txns
  <2>3. Stamp(access[Head(txn[t].left)]) \in {Stamp(a) : a \in Accesses}
    BY <2>1
  <2>4. (Head(txn[t].left) \in txn[t].changed) \in BOOLEAN
    OBVIOUS
  <2> QED  BY <1>2, <2>1, <2>2, <2>3, <2>4 DEF CardOf, Cards
<1> DEFINE p == IF Tail(txn[t].left) = <<>> THEN "ready" ELSE "cards"
           e == [txn[t] EXCEPT !.rows = txn[t].rows \cup {CardOf(t)}, !.left = Tail(txn[t].left),
                               !.pc = p]
<1>4. txn' = [txn EXCEPT ![t] = e]
  BY DEF Reply, CardOf
<1>5. p \in Phases /\ p \in {"cards", "ready"} /\ (p = "ready" <=> Tail(txn[t].left) = <<>>)
  BY DEF Phases
<1>6. txn[t].rows \cup {CardOf(t)} \in SUBSET Cards
  BY <1>1, <1>3 DEF Txns
<1> HIDE DEF p
<1>7. /\ e \in Txns /\ e.pc = p /\ e.left = Tail(txn[t].left)
      /\ e.rows = txn[t].rows \cup {CardOf(t)}
      /\ e.actor = txn[t].actor /\ e.task = txn[t].task /\ e.to = txn[t].to
      /\ e.changed = txn[t].changed /\ e.revision = txn[t].revision
  BY <1>1, <1>2, <1>5, <1>6 DEF Txns
<1> HIDE DEF e
<1>8. txn' \in [Sessions -> Txns] /\ txn'[t] = e /\ OthersSame(t)
  BY <1>4, <1>7 DEF TypeOK, OthersSame
<1> QED  BY <1>3, <1>5, <1>7, <1>8 DEF Reply

\* A change of rights is noted by the events that hold a row.
LEMMA ChangeMove ==
    ASSUME TypeOK, NEW u \in Employees, ChangeAccess(u)
    PROVE  /\ txn' \in [Sessions -> Txns] /\ access' \in [Users -> Accesses]
           /\ \A v \in Users \ {u} : access'[v] = access[v]
           /\ \A t \in Sessions :
                  /\ txn'[t].pc = txn[t].pc /\ txn'[t].actor = txn[t].actor
                  /\ txn'[t].task = txn[t].task /\ txn'[t].to = txn[t].to
                  /\ txn'[t].revision = txn[t].revision /\ txn'[t].left = txn[t].left
                  /\ txn'[t].rows = txn[t].rows
                  /\ Open(t) => txn'[t].changed = txn[t].changed \cup {u}
           /\ worker' \in Workers
           /\ worker'.pc = worker.pc /\ worker'.card = worker.card
           /\ worker'.late = (worker.late \/ ReadBefore(u, access'[u]))
           /\ UNCHANGED <<revision, assignee, reports, queue, sent, drawn>>
<1>1. u \in Users /\ access \in [Users -> Accesses] /\ txn \in [Sessions -> Txns]
  BY DEF TypeOK, Users
<1>2. PICK a \in Grants : /\ access' = [access EXCEPT ![u] = a]
                           /\ worker' = [worker EXCEPT !.late = @ \/ ReadBefore(u, a)]
  BY DEF ChangeAccess
<1>3. a \in Accesses
  BY CardsAssumption
<1>4. access' \in [Users -> Accesses] /\ \A v \in Users \ {u} : access'[v] = access[v]
  BY <1>1, <1>2, <1>3
<1>11. /\ worker' \in Workers /\ worker'.pc = worker.pc /\ worker'.card = worker.card
       /\ worker'.late = (worker.late \/ ReadBefore(u, access'[u]))
  <2>1. access'[u] = a /\ worker \in Workers /\ worker.late \in BOOLEAN
    BY <1>1, <1>2 DEF TypeOK, Workers
  <2>2. (worker.late \/ ReadBefore(u, a)) \in BOOLEAN
    BY <2>1 DEF ReadBefore
  <2> HIDE DEF ReadBefore
  <2> QED  BY <1>2, <2>1, <2>2 DEF Workers
<1>5. ASSUME NEW t \in Sessions
      PROVE  /\ txn'[t] = IF Open(t) THEN [txn[t] EXCEPT !.changed = txn[t].changed \cup {u}]
                          ELSE txn[t]
             /\ txn[t] \in Txns
  BY <1>1 DEF ChangeAccess, Open
<1>6. ASSUME NEW t \in Sessions, NEW C \in SUBSET Users
      PROVE  LET e == [txn[t] EXCEPT !.changed = C]
             IN /\ e \in Txns /\ e.pc = txn[t].pc /\ e.actor = txn[t].actor
                /\ e.task = txn[t].task /\ e.to = txn[t].to /\ e.revision = txn[t].revision
                /\ e.left = txn[t].left /\ e.rows = txn[t].rows /\ e.changed = C
  BY <1>5 DEF Txns
<1>7. \A t \in Sessions : txn[t].changed \cup {u} \in SUBSET Users
  BY <1>1, <1>5 DEF Txns
<1>8. \A t \in Sessions : txn'[t] \in Txns
  BY <1>5, <1>6, <1>7
<1>9. txn' \in [Sessions -> Txns]
  BY <1>8 DEF ChangeAccess
<1>10. ASSUME NEW t \in Sessions
       PROVE  /\ txn'[t].pc = txn[t].pc /\ txn'[t].actor = txn[t].actor
              /\ txn'[t].task = txn[t].task /\ txn'[t].to = txn[t].to
              /\ txn'[t].revision = txn[t].revision /\ txn'[t].left = txn[t].left
              /\ txn'[t].rows = txn[t].rows
              /\ Open(t) => txn'[t].changed = txn[t].changed \cup {u}
  <2>1. txn[t].changed \cup {u} \in SUBSET Users
    BY <1>7
  <2>2. CASE Open(t)
    <3>1. txn'[t] = [txn[t] EXCEPT !.changed = txn[t].changed \cup {u}]
      BY <1>5, <2>2
    <3> QED  BY <1>6, <2>1, <3>1
  <2>3. CASE ~Open(t)
    BY <1>5, <2>3
  <2> QED  BY <2>2, <2>3
<1> QED  BY <1>4, <1>9, <1>10, <1>11 DEF ChangeAccess

\* The worker looks at a card, or is done with it.
Looks == (\E c \in queue : Take(c)) \/ CheckUser \/ Compare \/ Claim
Leaves == Discard \/ Post

Sendings == [card : Cards, within : BOOLEAN, late : BOOLEAN]

\* A card is in the worker's hand when it is looked at, or done with.
LEMMA InHand ==
    ASSUME TypeOK, CardsInOrder, worker.pc # "free"
    PROVE  /\ worker.card \in Cards /\ worker.card \in queue
           /\ \A d \in queue : d.task = worker.card.task => worker.card.sequence <= d.sequence
BY DEF TypeOK, CardsInOrder, InHandIsNext

\* A look changes the worker only.
LEMMA LookMove ==
    ASSUME TypeOK, Looks
    PROVE  /\ worker' \in Workers /\ worker'.pc # "free"
           /\ \/ /\ worker.pc = "free" /\ worker'.pc = "taken" /\ First(worker'.card)
              \/ /\ worker.pc # "free" /\ worker'.card = worker.card
                 /\ worker'.late = worker.late
           /\ UNCHANGED <<access, revision, assignee, reports, queue, sent, drawn, txn, begun>>
<1>1. worker \in Workers
  BY DEF TypeOK, Workers
<1>2. ASSUME NEW c \in queue, Take(c)
      PROVE  /\ worker' \in Workers /\ worker'.pc = "taken" /\ worker.pc = "free"
             /\ First(worker'.card)
  <2>1. c \in Cards
    BY DEF TypeOK
  <2>2. worker' = [Free EXCEPT !.pc = "taken", !.card = c]
    BY <1>2 DEF Take
  <2> QED  BY <1>2, <2>1, <2>2 DEF Free, Workers, DeliveryPhases, Take
<1>3. ASSUME CheckUser \/ Compare \/ Claim
      PROVE  /\ worker' \in Workers /\ worker'.pc # "free" /\ worker.pc # "free"
             /\ worker'.card = worker.card /\ worker'.late = worker.late
  <2>1. PICK p \in DeliveryPhases \ {"free"} : worker' = [worker EXCEPT !.pc = p]
    BY <1>3 DEF CheckUser, Compare, Claim, DeliveryPhases
  <2> QED  BY <1>1, <1>3, <2>1 DEF Workers, DeliveryPhases, CheckUser, Compare, Claim
<1> QED  BY <1>2, <1>3 DEF Looks, Take, CheckUser, Compare, Claim

\* A card leaves the queue and the worker's hand; it is handed over or discarded.
LEMMA LeaveMove ==
    ASSUME TypeOK, CardsInOrder, Leaves
    PROVE  LET c == worker.card
               within == Opens(access[c.to], c.task)
           IN /\ c \in Cards /\ c \in queue /\ queue' = queue \ {c}
              /\ \A d \in queue : d.task = c.task => c.sequence <= d.sequence
              /\ worker' = Free
              /\ Discard => sent' = sent /\ worker.pc = "refused"
              /\ Post =>
                     /\ worker.pc = "claimed"
                     /\ sent' \in Seq(Sendings)
                     /\ DOMAIN sent' = DOMAIN sent \cup {Len(sent) + 1}
                     /\ DOMAIN sent = 1..Len(sent) /\ Len(sent) \in Nat
                     /\ sent'[Len(sent) + 1].card = c /\ sent'[Len(sent) + 1].within = within
                     /\ sent'[Len(sent) + 1].late = worker.late
                     /\ \A i \in DOMAIN sent : sent'[i] = sent[i]
              /\ UNCHANGED <<access, revision, assignee, reports, drawn, txn, begun>>
<1> DEFINE c == worker.card
           x == [card |-> c, within |-> Opens(access[c.to], c.task), late |-> worker.late]
<1>0. worker.pc # "free"
  BY DEF Leaves, Discard, Post
<1>1. c \in Cards /\ c \in queue /\ sent \in Seq(Sendings) /\ worker.late \in BOOLEAN
  BY <1>0, InHand DEF TypeOK, Sendings
<1>2. Opens(access[c.to], c.task) \in BOOLEAN
  BY DEF Opens, Known, Reaches, Loads
<1>3. /\ x \in Sendings /\ x.card = c /\ x.within = Opens(access[c.to], c.task)
      /\ x.late = worker.late
  BY <1>1, <1>2 DEF Sendings
<1>4. Post => sent' = Append(sent, x)
  BY DEF Post
<1> HIDE DEF x, c
<1>5. Post =>
          /\ sent' \in Seq(Sendings)
          /\ Len(sent') = Len(sent) + 1 /\ Len(sent) \in Nat
          /\ sent'[Len(sent) + 1] = x
          /\ \A i \in 1..Len(sent) : sent'[i] = sent[i]
  BY <1>1, <1>3, <1>4, AppendProperties
<1>6. Post =>
          /\ DOMAIN sent' = DOMAIN sent \cup {Len(sent) + 1}
          /\ DOMAIN sent = 1..Len(sent)
  BY <1>1, <1>5
<1>7. /\ queue' = queue \ {c} /\ worker' = Free
      /\ Discard => sent' = sent /\ worker.pc = "refused"
      /\ Post => worker.pc = "claimed"
      /\ UNCHANGED <<access, revision, assignee, reports, drawn, txn, begun>>
  BY DEF Leaves, Discard, Post, c
<1> QED  BY <1>0, <1>1, <1>3, <1>5, <1>6, <1>7, InHand DEF c

\* The change and its cards are committed.
LEMMA CommitMove ==
    ASSUME TypeOK, NEW t \in Sessions, Commit(t)
    PROVE  /\ txn' \in [Sessions -> Txns] /\ OthersSame(t) /\ txn'[t] = Idle
           /\ txn[t].pc = "ready" /\ txn[t].task \in Tasks /\ txn[t].actor \in Users
           /\ revision' = [revision EXCEPT ![txn[t].task] = txn[t].revision]
           /\ queue' = queue \cup txn[t].rows /\ txn[t].rows \in SUBSET Cards
           /\ IF txn[t].to = Nobody
              THEN reports' = reports \cup {[task |-> txn[t].task, revision |-> txn[t].revision,
                                             by |-> txn[t].actor]}
              ELSE reports' = reports
           /\ UNCHANGED <<access, worker, sent, drawn>>
<1>1. txn[t] \in Txns
  BY DEF TypeOK
<1>2. txn[t].task \in Tasks /\ txn[t].actor \in Users /\ txn[t].rows \in SUBSET Cards
  BY <1>1 DEF Txns
<1> QED  BY <1>2, EndMove DEF Commit

\* While a card is being made, somebody waits for it.
LEMMA ReplyHas ==
    ASSUME CardsInOrder, NEW t \in Sessions, txn[t].pc \in {"cards", "stamp"}
    PROVE  txn[t].left # <<>> /\ HoldsRow(t) /\ RowsFollow(t) /\ ToldOnce(t)
BY DEF CardsInOrder, Open, HoldsRow

\* Every step keeps every variable in its type.
LEMMA TypeStep == TypeOK /\ CardsInOrder /\ [Next]_vars => TypeOK'
<1> SUFFICES ASSUME TypeOK, CardsInOrder, [Next]_vars PROVE TypeOK'
  OBVIOUS
<1>1. ASSUME NEW u \in Employees, ChangeAccess(u) PROVE TypeOK'
  BY <1>1, ChangeMove DEF TypeOK, ChangeAccess, Workers
<1>2. ASSUME NEW t \in Sessions, Begin(t) PROVE TypeOK'
  <2>1. begun' \in 0..MaxEvents
    BY <1>2, CardsAssumption DEF Begin, TypeOK
  <2> QED  BY <1>2, <2>1, BeginMove DEF TypeOK
<1>3. ASSUME NEW t \in Sessions, Lock(t) PROVE TypeOK'
  BY <1>3, LockMove DEF TypeOK, Lock
<1>4. ASSUME NEW t \in Sessions, Refuse(t) \/ Abort(t) PROVE TypeOK'
  BY <1>4, EndMove DEF TypeOK, Refuse, Abort
<1>5. ASSUME NEW t \in Sessions, Read(t) PROVE TypeOK'
  BY <1>5, ReadMove DEF TypeOK, Read
<1>6. ASSUME NEW t \in Sessions, Commit(t) PROVE TypeOK'
  <2>1. txn[t].revision \in Nat /\ txn[t].to \in Employees \cup {Nobody}
    BY DEF TypeOK, Txns
  <2>2. revision' \in [Tasks -> Nat]
    BY <1>6, <2>1, CommitMove DEF TypeOK
  <2>3. reports' \in SUBSET [task : Tasks, revision : Nat, by : Users]
    <3> DEFINE r == [task |-> txn[t].task, revision |-> txn[t].revision, by |-> txn[t].actor]
    <3>1. r \in [task : Tasks, revision : Nat, by : Users]
      BY <1>6, <2>1, CommitMove
    <3>2. reports' = reports \cup {r} \/ reports' = reports
      BY <1>6, CommitMove
    <3> HIDE DEF r
    <3> QED  BY <3>1, <3>2 DEF TypeOK
  <2>4. assignee' \in [Tasks -> Employees \cup {Nobody}]
    BY <1>6, <2>1, CommitMove DEF TypeOK, Commit
  <2>5. queue' \in SUBSET Cards
    BY <1>6, CommitMove DEF TypeOK
  <2> QED  BY <1>6, <2>2, <2>3, <2>4, <2>5, CommitMove DEF TypeOK, Commit
<1>7. ASSUME Looks PROVE TypeOK'
  BY <1>7, LookMove DEF TypeOK, Workers
<1>10. ASSUME Leaves PROVE TypeOK'
  <2>1. sent' \in Seq(Sendings)
    BY <1>10, LeaveMove DEF TypeOK, Sendings, Leaves
  <2>2. worker' \in Workers
    <3>1. worker' = Free
      BY <1>10, LeaveMove
    <3> QED  BY <3>1 DEF Free, Workers, DeliveryPhases
  <2> QED  BY <1>10, <2>1, <2>2, LeaveMove DEF TypeOK, Workers, Sendings
<1>8. CASE UNCHANGED vars
  BY <1>8 DEF vars, TypeOK
<1>9. ASSUME NEW t \in Sessions, Reply(t) PROVE TypeOK'
  <2>1. txn[t].left # <<>>
    BY <1>9, ReplyHas DEF Reply
  <2>2. begun' = begun
    BY <1>9 DEF Reply
  <2>3. drawn' \in Nat
    BY <1>9, <2>1, ReplyMove DEF TypeOK
  <2> QED  BY <1>9, <2>1, <2>2, <2>3, ReplyMove DEF TypeOK
<1> QED  BY <1>1, <1>2, <1>3, <1>4, <1>5, <1>6, <1>7, <1>8, <1>9, <1>10 DEF Next, Looks, Leaves

--------------------------------------------------------------------------------
(* Order.  The row's lock makes the numbers of a request's cards follow its    *)
(* revisions, and the worker takes the lowest number first.                    *)

SessionOrdered(t) ==
    IF Open(t) THEN HoldsRow(t) /\ RowsFollow(t) /\ ToldOnce(t) ELSE txn[t].rows = {}

Keeps(t) ==
    /\ txn'[t].actor = txn[t].actor /\ txn'[t].task = txn[t].task
    /\ txn'[t].revision = txn[t].revision /\ txn'[t].left = txn[t].left
    /\ txn'[t].rows = txn[t].rows

\* An event that holds its row as before, and whose request's row and cards are as
\* before, is in order as before.
LEMMA KeepsOrder ==
    ASSUME TypeOK, CardsInOrder, NEW t \in Sessions, Open(t), Open(t)', Keeps(t),
           txn'[t].pc = "ready" <=> txn[t].pc = "ready",
           revision'[txn[t].task] = revision[txn[t].task], drawn' \in Nat, drawn <= drawn',
           \A d \in Committed' : d.task = txn[t].task => d \in Committed,
           ~LockedByOther(t)'
    PROVE  SessionOrdered(t)'
<1>1. HoldsRow(t) /\ RowsFollow(t) /\ ToldOnce(t)
  BY DEF CardsInOrder
<1>2. HoldsRow(t)'
  BY <1>1 DEF HoldsRow, Keeps
<1>3. RowsFollow(t)'
  <2>1. ASSUME NEW c \in txn[t].rows
        PROVE  /\ c.task = txn[t].task /\ c.revision = txn[t].revision /\ c.by = txn[t].actor
               /\ c.sequence <= drawn'
               /\ \A d \in Committed' : d.task = c.task => d.sequence < c.sequence
    <3>1. c.sequence \in Nat /\ drawn \in Nat
      BY DEF TypeOK, Txns, Cards
    <3> QED  BY <1>1, <3>1 DEF RowsFollow
  <2> QED  BY <1>1, <2>1 DEF RowsFollow, Keeps
<1>4. ToldOnce(t)'
  BY <1>1 DEF ToldOnce, Keeps
<1> QED  BY <1>2, <1>3, <1>4 DEF SessionOrdered

\* Steps in which events go on with what they have, or end.
LEMMA SessionsStay ==
    ASSUME TypeOK, CardsInOrder, UNCHANGED <<revision, drawn>>, Committed' \subseteq Committed,
           \A t \in Sessions : \/ ~Open(t)' /\ txn'[t].rows = {}
                               \/ /\ Open(t) /\ Open(t)' /\ Keeps(t)
                                  /\ txn'[t].pc = "ready" <=> txn[t].pc = "ready"
    PROVE  \A t \in Sessions : SessionOrdered(t)'
<1> SUFFICES ASSUME NEW t \in Sessions, Open(t)' PROVE SessionOrdered(t)'
  BY DEF SessionOrdered
<1>1. Open(t) /\ Keeps(t) /\ (txn'[t].pc = "ready" <=> txn[t].pc = "ready")
  OBVIOUS
<1>2. ~LockedByOther(t)
  BY <1>1 DEF CardsInOrder, HoldsRow
<1>3. \A u \in Sessions : Open(u)' => Open(u) /\ txn'[u].task = txn[u].task
  BY DEF Keeps
<1>4. ~LockedByOther(t)'
  BY <1>1, <1>2, <1>3 DEF LockedByOther, Open, Keeps
<1>5. drawn' \in Nat /\ drawn <= drawn'
  BY DEF TypeOK
<1> QED  BY <1>1, <1>4, <1>5, KeepsOrder

\* An event that takes a row up has no card yet and the right recipients.
LEMMA LockOrder ==
    ASSUME TypeOK, CardsInOrder, NEW t \in Sessions, Lock(t)
    PROVE  \A u \in Sessions : SessionOrdered(u)'
<1>1. Committed' = Committed
  BY LockMove DEF Committed
<1>2. ~LockedByOther(t)'
  BY LockMove DEF LockedByOther, OthersSame
<1>3. SessionOrdered(t)'
  <2>1. txn[t].rows = {} /\ txn[t].revision = revision[txn[t].task]
    BY LockMove DEF CardsInOrder, Open, Allowed
  <2>2. HoldsRow(t)'
    BY <1>2, <2>1, LockMove, RecipientsListed DEF HoldsRow
  <2>3. RowsFollow(t)'
    BY <2>1, LockMove DEF RowsFollow
  <2>4. ToldOnce(t)'
    <3>1. /\ txn'[t].rows = {} /\ txn'[t].left = Recipients(t) /\ txn'[t].actor = txn[t].actor
      BY <2>1, LockMove
    <3>2. \A i, j \in DOMAIN Recipients(t) :
              Recipients(t)[i] = Recipients(t)[j] => i = j \/ Recipients(t)[i] = txn[t].actor
      BY RecipientsListed
    <3> QED  BY <3>1, <3>2 DEF ToldOnce
  <2>5. Open(t)'
    BY LockMove DEF Open
  <2> QED  BY <2>2, <2>3, <2>4, <2>5 DEF SessionOrdered
<1>4. ASSUME NEW u \in Sessions \ {t} PROVE SessionOrdered(u)'
  <2>1. txn'[u] = txn[u] /\ SessionOrdered(u)
    BY LockMove DEF OthersSame, CardsInOrder, SessionOrdered
  <2>2. CASE ~Open(u)
    BY <2>1, <2>2 DEF SessionOrdered, Open
  <2>3. CASE Open(u)
    <3>1. Open(u)' /\ Keeps(u)
      BY <2>1, <2>3 DEF Open, Keeps
    <3>2. ~LockedByOther(u)
      BY <2>3 DEF CardsInOrder, HoldsRow
    <3>3. txn[u].task # txn[t].task
      BY <2>3, LockMove DEF LockedByOther, Open
    <3>4. \A v \in Sessions \ {t} : txn'[v] = txn[v]
      BY LockMove DEF OthersSame
    <3>5. ~LockedByOther(u)'
      BY <2>1, <3>2, <3>3, <3>4, LockMove DEF LockedByOther
    <3>6. drawn' \in Nat /\ drawn <= drawn' /\ revision' = revision
      BY LockMove DEF TypeOK
    <3> QED  BY <1>1, <2>1, <2>3, <3>1, <3>5, <3>6, KeepsOrder
  <2> QED  BY <2>2, <2>3
<1> QED  BY <1>3, <1>4

\* The head and the tail of whom is left.
LEMMA LeftParts ==
    ASSUME TypeOK, NEW t \in Sessions, txn[t].left # <<>>
    PROVE  LET q == txn[t].left
           IN /\ q \in Seq(Users) /\ Head(q) = q[1] /\ 1 \in DOMAIN q
              /\ \A i \in DOMAIN Tail(q) : i \in Nat \ {0} /\ i + 1 \in DOMAIN q
                                            /\ Tail(q)[i] = q[i + 1]
              /\ \A i \in DOMAIN q \ {1} : i \in Nat \ {0} /\ i - 1 \in DOMAIN Tail(q)
                                            /\ Tail(q)[i - 1] = q[i]
<1> DEFINE q == txn[t].left
<1>1. q \in Seq(Users) /\ q # <<>>
  BY DEF TypeOK, Txns
<1> HIDE DEF q
<1>2. /\ Head(q) = q[1] /\ Tail(q) \in Seq(Users) /\ Len(Tail(q)) = Len(q) - 1
      /\ \A i \in 1..Len(Tail(q)) : Tail(q)[i] = q[i + 1]
  BY <1>1, HeadTailProperties
<1>3. Len(q) \in Nat \ {0} /\ DOMAIN q = 1..Len(q) /\ DOMAIN Tail(q) = 1..(Len(q) - 1)
  BY <1>1, <1>2, LenProperties, EmptySeq
<1>4. \A i \in DOMAIN Tail(q) : i \in Nat \ {0} /\ i + 1 \in DOMAIN q /\ Tail(q)[i] = q[i + 1]
  BY <1>2, <1>3
<1>5. \A i \in DOMAIN q \ {1} : i \in Nat \ {0} /\ i - 1 \in DOMAIN Tail(q)
                                 /\ Tail(q)[i - 1] = q[i]
  BY <1>2, <1>3
<1> QED  BY <1>1, <1>2, <1>3, <1>4, <1>5 DEF q

\* Committed cards are cards.
LEMMA CommittedType == ASSUME TypeOK PROVE Committed \in SUBSET Cards
<1> DEFINE S == [card : Cards, within : BOOLEAN, late : BOOLEAN]
<1>1. sent \in Seq(S) /\ queue \in SUBSET Cards
  BY DEF TypeOK
<1> HIDE DEF S
<1>2. \A i \in DOMAIN sent : sent[i] \in S
  BY <1>1
<1>3. \A i \in DOMAIN sent : sent[i].card \in Cards
  BY <1>2 DEF S
<1> QED  BY <1>1, <1>3 DEF Committed

\* A new card has the highest number of all.
LEMMA ReplyOrder ==
    ASSUME TypeOK, CardsInOrder, NEW t \in Sessions, Reply(t)
    PROVE  \A u \in Sessions : SessionOrdered(u)'
<1> DEFINE c0 == CardOf(t)
           q == txn[t].left
<1>0. txn[t].pc = "stamp"
  BY DEF Reply
<1>1. q # <<>> /\ HoldsRow(t) /\ RowsFollow(t) /\ ToldOnce(t)
  BY <1>0, ReplyHas
<1>2. /\ OthersSame(t) /\ drawn' = drawn + 1 /\ txn'[t].pc \in {"cards", "ready"}
      /\ txn'[t].pc = "ready" <=> Tail(q) = <<>>
      /\ txn'[t].left = Tail(q) /\ txn'[t].rows = txn[t].rows \cup {c0}
      /\ txn'[t].actor = txn[t].actor /\ txn'[t].task = txn[t].task
      /\ txn'[t].revision = txn[t].revision /\ revision' = revision
      /\ queue' = queue /\ sent' = sent
  BY <1>1, ReplyMove
<1>3. /\ c0.sequence = drawn + 1 /\ c0.to = Head(q) /\ c0.by = txn[t].actor
      /\ c0.task = txn[t].task /\ c0.revision = txn[t].revision
  BY DEF CardOf
<1>4. Committed' = Committed /\ \A d \in Committed : d.sequence <= drawn
  BY <1>2 DEF Committed, CardsInOrder, NumbersInOrder
<1>5. drawn \in Nat /\ txn[t].rows \in SUBSET Cards /\ Committed \in SUBSET Cards
  <2>1. txn[t].rows \in SUBSET Cards
    BY DEF TypeOK, Txns
  <2> QED  BY <2>1, CommittedType DEF TypeOK
<1> HIDE DEF c0
<1>6. \A u \in Sessions : (Open(u)' <=> Open(u)) /\ txn'[u].task = txn[u].task
  BY <1>0, <1>2 DEF OthersSame, Open
<1>7. ASSUME NEW u \in Sessions, Open(u) PROVE ~LockedByOther(u)'
  <2>1. ~LockedByOther(u)
    BY <1>7 DEF CardsInOrder, HoldsRow
  <2> QED  BY <2>1, <1>6 DEF LockedByOther, Open
<1>8. SessionOrdered(t)'
  <2>1. HoldsRow(t)'
    <3>1. ~LockedByOther(t)'
      BY <1>0, <1>7 DEF Open
    <3>2. txn'[t].revision = revision'[txn'[t].task] + 1
      BY <1>1, <1>2 DEF HoldsRow
    <3> QED  BY <1>2, <3>1, <3>2 DEF HoldsRow
  <2>2. RowsFollow(t)'
    <3>1. ASSUME NEW c \in txn[t].rows \cup {c0}
          PROVE  /\ c.task = txn[t].task /\ c.revision = txn[t].revision /\ c.by = txn[t].actor
                 /\ c.sequence <= drawn + 1
                 /\ \A d \in Committed : d.task = c.task => d.sequence < c.sequence
      <4>1. CASE c = c0
        <5>1. \A d \in Committed : d.sequence \in Nat
          BY <1>5 DEF Cards
        <5> QED  BY <1>3, <1>4, <1>5, <4>1, <5>1
      <4>2. CASE c \in txn[t].rows
        <5>1. c.sequence \in Nat
          BY <1>5, <4>2 DEF Cards
        <5> QED  BY <1>1, <1>5, <4>2, <5>1 DEF RowsFollow
      <4> QED  BY <4>1, <4>2
    <3>2. \A c \in txn[t].rows : c.sequence # c0.sequence
      <4>1. \A c \in txn[t].rows : c.sequence \in Nat /\ c.sequence <= drawn
        BY <1>1, <1>5 DEF RowsFollow, Cards
      <4> QED  BY <1>3, <1>5, <4>1
    <3>3. \A c, d \in txn[t].rows \cup {c0} : c.sequence = d.sequence => c = d
      BY <1>1, <3>2 DEF RowsFollow
    <3> QED  BY <1>2, <1>4, <3>1, <3>3 DEF RowsFollow
  <2>3. ToldOnce(t)'
    <3>1. /\ Head(q) = q[1] /\ 1 \in DOMAIN q
          /\ \A i \in DOMAIN Tail(q) : i \in Nat \ {0} /\ i + 1 \in DOMAIN q
                                        /\ Tail(q)[i] = q[i + 1]
      BY <1>1, LeftParts
    <3>2. /\ \A i, j \in DOMAIN q : q[i] = q[j] => i = j \/ q[i] = txn[t].actor
          /\ \A c \in txn[t].rows : \A i \in DOMAIN q : c.to = q[i] => c.to = txn[t].actor
          /\ \A c, d \in txn[t].rows : c.to = d.to => c = d \/ c.to = txn[t].actor
      BY <1>1 DEF ToldOnce
    <3> HIDE DEF q
    <3>3. \A i, j \in DOMAIN Tail(q) : Tail(q)[i] = Tail(q)[j] => i = j \/ Tail(q)[i] = txn[t].actor
      BY <3>1, <3>2
    <3>4. \A c \in txn[t].rows \cup {c0} : \A i \in DOMAIN Tail(q) :
              c.to = Tail(q)[i] => c.to = txn[t].actor
      BY <1>3, <3>1, <3>2
    <3>5. \A c, d \in txn[t].rows \cup {c0} : c.to = d.to => c = d \/ c.to = txn[t].actor
      BY <1>3, <3>1, <3>2
    <3> QED  BY <1>2, <3>3, <3>4, <3>5 DEF ToldOnce, q
  <2> QED  BY <2>1, <2>2, <2>3, <1>0, <1>6 DEF SessionOrdered, Open
<1>9. ASSUME NEW u \in Sessions \ {t} PROVE SessionOrdered(u)'
  <2>1. txn'[u] = txn[u] /\ SessionOrdered(u)
    BY <1>2 DEF OthersSame, CardsInOrder, SessionOrdered
  <2>2. CASE ~Open(u)
    BY <1>6, <2>1, <2>2 DEF SessionOrdered
  <2>3. CASE Open(u)
    <3>1. Open(u)' /\ Keeps(u) /\ ~LockedByOther(u)'
      BY <1>6, <1>7, <2>1, <2>3 DEF Keeps
    <3>2. drawn' \in Nat /\ drawn <= drawn'
      BY <1>2, <1>5
    <3> QED  BY <1>2, <1>4, <2>1, <2>3, <3>1, <3>2, KeepsOrder
  <2> QED  BY <2>2, <2>3
<1> QED  BY <1>8, <1>9

\* A commit adds the cards of the next revision, numbered above all earlier ones.
LEMMA CommitOrder ==
    ASSUME TypeOK, CardsInOrder, NEW t \in Sessions, Commit(t)
    PROVE  (\A u \in Sessions : SessionOrdered(u)') /\ NumbersInOrder' /\ SentInOrder'
<1> DEFINE k == txn[t].task
           R == txn[t].rows
<1>1. HoldsRow(t) /\ RowsFollow(t) /\ ToldOnce(t)
  BY DEF CardsInOrder, Open, Commit
<1>2. /\ OthersSame(t) /\ txn'[t] = Idle /\ txn[t].pc = "ready" /\ k \in Tasks
      /\ revision' = [revision EXCEPT ![k] = txn[t].revision]
      /\ queue' = queue \cup R /\ R \in SUBSET Cards /\ sent' = sent /\ drawn' = drawn
  BY CommitMove
<1>3. Committed' = Committed \cup R /\ Committed \in SUBSET Cards /\ drawn \in Nat
  BY <1>2, CommittedType DEF Committed, TypeOK
<1>4. /\ revision \in [Tasks -> Nat] /\ txn[t].revision = revision[k] + 1
      /\ revision'[k] = revision[k] + 1 /\ \A h \in Tasks \ {k} : revision'[h] = revision[h]
  BY <1>1, <1>2 DEF TypeOK, HoldsRow
<1>5. ASSUME NEW u \in Sessions PROVE SessionOrdered(u)'
  <2>1. CASE u = t
    BY <1>2, <2>1, IdleType DEF SessionOrdered, Open
  <2>2. CASE u # t /\ ~Open(u)
    <3>1. txn'[u] = txn[u]
      BY <1>2, <2>2 DEF OthersSame
    <3> QED  BY <2>2, <3>1 DEF SessionOrdered, CardsInOrder, Open
  <2>3. CASE u # t /\ Open(u)
    <3>1. txn'[u] = txn[u] /\ Open(u)' /\ Keeps(u)
      BY <1>2, <2>3 DEF OthersSame, Open, Keeps
    <3>2. ~LockedByOther(u)
      BY <2>3 DEF CardsInOrder, HoldsRow
    <3>3. txn[u].task # k
      BY <1>2, <2>3, <3>2 DEF LockedByOther
    <3>4. ~LockedByOther(u)'
      BY <1>2, <3>1, <3>2, IdleType DEF LockedByOther, OthersSame
    <3>5. txn[u].task \in Tasks
      BY DEF TypeOK, Txns
    <3>6. \A d \in Committed' : d.task = txn[u].task => d \in Committed
      BY <1>1, <1>3, <3>3 DEF RowsFollow
    <3> QED  BY <1>2, <1>3, <1>4, <2>3, <3>1, <3>3, <3>4, <3>5, <3>6, KeepsOrder
  <2> QED  BY <2>1, <2>2, <2>3
<1>6. \A c \in R : /\ c.task = k /\ c.revision = revision[k] + 1 /\ c.by = txn[t].actor
                   /\ c.sequence \in Nat /\ c.sequence <= drawn
                   /\ \A d \in Committed : d.task = k => d.sequence < c.sequence
  BY <1>1, <1>2, <1>4 DEF RowsFollow, Cards
<1>7. \A c \in Committed : /\ c.task \in Tasks /\ c.sequence \in Nat /\ c.sequence <= drawn
                           /\ c.revision \in Nat /\ c.revision <= revision[c.task]
  BY <1>3 DEF CardsInOrder, NumbersInOrder, Cards
<1> HIDE DEF R, k
<1>8. NumbersInOrder'
  <2>1. ASSUME NEW c \in Committed \cup R
        PROVE  c.revision <= revision'[c.task] /\ c.sequence <= drawn'
    <3>1. CASE c \in Committed
      <4>1. revision[c.task] \in Nat /\ revision[c.task] <= revision'[c.task]
        BY <1>2, <1>4, <1>7, <3>1
      <4> QED  BY <1>2, <1>4, <1>7, <3>1, <4>1
    <3>2. CASE c \in R
      BY <1>2, <1>4, <1>6, <3>2
    <3> QED  BY <3>1, <3>2
  <2>2. ASSUME NEW c \in Committed \cup R, NEW d \in Committed \cup R, c.task = d.task
        PROVE  /\ c.sequence < d.sequence => c.revision <= d.revision
               /\ c.sequence = d.sequence => c = d
               /\ c.revision = d.revision /\ c.to = d.to => c = d \/ (c.by = c.to /\ d.by = d.to)
    <3>1. CASE c \in Committed /\ d \in Committed
      BY <2>2, <3>1 DEF CardsInOrder, NumbersInOrder
    <3>2. CASE c \in R /\ d \in R
      <4>1. c.sequence = d.sequence => c = d
        BY <1>1, <3>2 DEF RowsFollow, R
      <4>2. c.to = d.to => c = d \/ c.to = txn[t].actor
        BY <1>1, <3>2 DEF ToldOnce, R
      <4> QED  BY <1>2, <1>4, <1>6, <3>2, <4>1, <4>2
    <3>3. CASE c \in Committed /\ d \in R
      <4>1. c.sequence < d.sequence /\ d.revision = revision[k] + 1 /\ c.revision <= revision[k]
        BY <1>6, <1>7, <2>2, <3>3
      <4> QED  BY <1>2, <1>4, <1>6, <1>7, <3>3, <4>1
    <3>4. CASE c \in R /\ d \in Committed
      <4>1. d.sequence < c.sequence /\ c.revision = revision[k] + 1 /\ d.revision <= revision[k]
        BY <1>6, <1>7, <2>2, <3>4
      <4> QED  BY <1>2, <1>4, <1>6, <1>7, <3>4, <4>1
    <3> QED  BY <3>1, <3>2, <3>3, <3>4
  <2> QED  BY <1>3, <2>1, <2>2 DEF NumbersInOrder
<1>9. SentInOrder'
  <2>1. ASSUME NEW i \in DOMAIN sent, NEW c \in R, c.task = sent[i].card.task
        PROVE  sent[i].card.sequence < c.sequence
    <3>1. sent[i].card \in Committed
      BY DEF Committed
    <3> QED  BY <1>6, <2>1, <3>1
  <2> QED  BY <1>2, <2>1 DEF CardsInOrder, SentInOrder
<1> QED  BY <1>5, <1>8, <1>9

\* The numbers stay in order while nothing is committed.
LEMMA NumbersStay ==
    ASSUME TypeOK, CardsInOrder, Committed' \subseteq Committed, UNCHANGED revision,
           drawn' \in Nat, drawn <= drawn'
    PROVE  NumbersInOrder'
<1>1. \A c \in Committed : c.sequence \in Nat
  BY CommittedType DEF Cards
<1>2. drawn \in Nat
  BY DEF TypeOK
<1>3. \A c \in Committed' : c.revision <= revision'[c.task] /\ c.sequence <= drawn'
  BY <1>1, <1>2 DEF CardsInOrder, NumbersInOrder
<1> QED  BY <1>3 DEF CardsInOrder, NumbersInOrder

\* The card that leaves has the lowest number of its request's that wait.
LEMMA LeaveOrder ==
    ASSUME TypeOK, CardsInOrder, Leaves
    PROVE  (\A u \in Sessions : SessionOrdered(u)') /\ NumbersInOrder' /\ SentInOrder'
<1> DEFINE c == worker.card
<1>1. /\ c \in Cards /\ c \in queue /\ queue' = queue \ {c}
      /\ \A d \in queue : d.task = c.task => c.sequence <= d.sequence
      /\ Discard => sent' = sent
      /\ Post => /\ DOMAIN sent' = DOMAIN sent \cup {Len(sent) + 1}
                 /\ DOMAIN sent = 1..Len(sent) /\ Len(sent) \in Nat
                 /\ sent'[Len(sent) + 1].card = c
                 /\ \A i \in DOMAIN sent : sent'[i] = sent[i]
      /\ UNCHANGED <<revision, drawn, txn>>
  BY LeaveMove
<1> HIDE DEF c
<1>2. Committed' \subseteq Committed
  <2>1. CASE Discard
    BY <1>1, <2>1 DEF Committed
  <2>2. CASE Post
    <3>1. ASSUME NEW i \in DOMAIN sent' PROVE sent'[i].card \in Committed
      BY <1>1, <2>2 DEF Committed
    <3> QED  BY <1>1, <3>1 DEF Committed
  <2> QED  BY <2>1, <2>2 DEF Leaves
<1>3. \A u \in Sessions : SessionOrdered(u)'
  <2>1. ASSUME NEW u \in Sessions
        PROVE  \/ ~Open(u)' /\ txn'[u].rows = {}
               \/ /\ Open(u) /\ Open(u)' /\ Keeps(u)
                  /\ txn'[u].pc = "ready" <=> txn[u].pc = "ready"
    BY <1>1 DEF Open, Keeps, CardsInOrder
  <2> QED  BY <1>1, <1>2, <2>1, SessionsStay
<1>4. NumbersInOrder'
  BY <1>1, <1>2, NumbersStay DEF TypeOK
<1>5. SentInOrder'
  <2>1. CASE Discard
    BY <1>1, <2>1 DEF CardsInOrder, SentInOrder
  <2>2. CASE Post
    <3>1. \A d \in queue \ {c} : c.task = d.task => c.sequence < d.sequence
      <4>1. ASSUME NEW d \in queue \ {c}, c.task = d.task PROVE c.sequence < d.sequence
        <5>1. c \in Committed /\ d \in Committed /\ c # d
          BY <1>1 DEF Committed
        <5>2. c.sequence # d.sequence
          BY <4>1, <5>1 DEF CardsInOrder, NumbersInOrder
        <5>3. c.sequence <= d.sequence /\ c.sequence \in Nat /\ d.sequence \in Nat
          BY <1>1, <4>1, <5>1, CommittedType DEF Cards
        <5> QED  BY <5>2, <5>3
      <4> QED  BY <4>1
    <3>2. \A i \in DOMAIN sent :
              /\ \A d \in queue : d.task = sent[i].card.task => sent[i].card.sequence < d.sequence
              /\ \A j \in DOMAIN sent : i < j /\ sent[i].card.task = sent[j].card.task =>
                     sent[i].card.sequence < sent[j].card.sequence
      BY DEF CardsInOrder, SentInOrder
    <3>3. ASSUME NEW i \in DOMAIN sent', NEW d \in queue', d.task = sent'[i].card.task
          PROVE  sent'[i].card.sequence < d.sequence
      BY <1>1, <2>2, <3>1, <3>2, <3>3
    <3>4. ASSUME NEW i \in DOMAIN sent', NEW j \in DOMAIN sent', i < j,
                 sent'[i].card.task = sent'[j].card.task
          PROVE  sent'[i].card.sequence < sent'[j].card.sequence
      <4>1. i \in DOMAIN sent
        BY <1>1, <2>2, <3>4
      <4>2. CASE j \in DOMAIN sent
        BY <1>1, <2>2, <3>2, <3>4, <4>1, <4>2
      <4>3. CASE j = Len(sent) + 1
        BY <1>1, <2>2, <3>2, <3>4, <4>1, <4>3
      <4> QED  BY <1>1, <2>2, <4>2, <4>3
    <3> QED  BY <3>3, <3>4 DEF SentInOrder
  <2> QED  BY <2>1, <2>2 DEF Leaves
<1> QED  BY <1>3, <1>4, <1>5

\* The worker takes the card with the lowest number, and later ones have higher.
LEMMA HandOrder == ASSUME TypeOK, CardsInOrder, [Next]_vars PROVE InHandIsNext'
<1>1. UNCHANGED <<queue, worker>> => InHandIsNext'
  BY DEF CardsInOrder, InHandIsNext
<1>2. ASSUME NEW u \in Employees, ChangeAccess(u) PROVE InHandIsNext'
  BY <1>2, ChangeMove DEF CardsInOrder, InHandIsNext
<1>3. ASSUME NEW t \in Sessions, Commit(t) PROVE InHandIsNext'
  <2> SUFFICES ASSUME worker.pc # "free"
               PROVE  /\ worker.card \in queue'
                      /\ \A d \in queue' : d.task = worker.card.task =>
                             worker.card.sequence <= d.sequence
    BY <1>3, CommitMove DEF InHandIsNext
  <2>1. worker.card \in Committed
    BY InHand DEF Committed
  <2>2. txn[t].pc = "ready" /\ queue' = queue \cup txn[t].rows /\ txn[t].rows \in SUBSET Cards
    BY <1>3, CommitMove
  <2>3. \A c \in txn[t].rows : \A d \in Committed : d.task = c.task => d.sequence < c.sequence
    BY <2>2 DEF CardsInOrder, Open, RowsFollow
  <2>4. worker.card.sequence \in Nat /\ \A c \in txn[t].rows : c.sequence \in Nat
    BY <2>1, <2>2, CommittedType DEF Cards
  <2> QED  BY <2>1, <2>2, <2>3, <2>4, InHand
<1>4. ASSUME Looks PROVE InHandIsNext'
  BY <1>4, LookMove, InHand DEF InHandIsNext, First
<1>5. ASSUME Leaves PROVE InHandIsNext'
  BY <1>5, LeaveMove DEF InHandIsNext, Free
<1>6. ASSUME NEW t \in Sessions, Begin(t) \/ Lock(t) \/ Refuse(t) \/ Read(t) \/ Reply(t) \/ Abort(t)
      PROVE  InHandIsNext'
  BY <1>1, <1>6 DEF Begin, Lock, Refuse, Read, Reply, Abort
<1> QED  BY <1>1, <1>2, <1>3, <1>4, <1>5, <1>6 DEF Next, Looks, Leaves, vars

\* Every step keeps the cards in order.
LEMMA OrderStep == TypeOK /\ CardsInOrder /\ [Next]_vars => CardsInOrder'
<1> SUFFICES ASSUME TypeOK, CardsInOrder, [Next]_vars
             PROVE  (\A u \in Sessions : SessionOrdered(u)') /\ NumbersInOrder' /\ SentInOrder'
  BY HandOrder DEF CardsInOrder, SessionOrdered
<1>0. \A u \in Sessions : SessionOrdered(u)
  BY DEF CardsInOrder, SessionOrdered
<1>1. UNCHANGED <<queue, sent, revision>> /\ drawn' \in Nat /\ drawn <= drawn' =>
          NumbersInOrder' /\ SentInOrder'
  <2> SUFFICES ASSUME UNCHANGED <<queue, sent, revision>>, drawn' \in Nat, drawn <= drawn'
               PROVE  NumbersInOrder' /\ SentInOrder'
    OBVIOUS
  <2>1. Committed' = Committed
    BY DEF Committed
  <2>2. SentInOrder'
    BY DEF SentInOrder, CardsInOrder
  <2> QED  BY <2>1, <2>2, NumbersStay
<1>2. UNCHANGED <<queue, sent, revision, drawn>> =>
          NumbersInOrder' /\ SentInOrder' /\ Committed' = Committed
  BY <1>1 DEF TypeOK, Committed
<1>3. ASSUME NEW t \in Sessions, Begin(t) \/ Refuse(t) \/ Abort(t) \/ Read(t)
      PROVE  (\A u \in Sessions : SessionOrdered(u)') /\ NumbersInOrder' /\ SentInOrder'
  <2>1. OthersSame(t) /\ UNCHANGED <<queue, sent, revision, drawn>>
    BY <1>3, BeginMove, EndMove, ReadMove DEF Refuse, Abort
  <2>2. \/ ~Open(t)' /\ txn'[t].rows = {}
        \/ /\ Open(t) /\ Open(t)' /\ Keeps(t)
           /\ txn'[t].pc = "ready" <=> txn[t].pc = "ready"
    <3>1. CASE Begin(t)
      BY <3>1, BeginMove DEF Open
    <3>2. CASE Refuse(t) \/ Abort(t)
      BY <3>2, EndMove, IdleType DEF Open, Refuse, Abort
    <3>3. CASE Read(t)
      BY <3>3, ReadMove, IdleType DEF Open, Keeps
    <3> QED  BY <1>3, <3>1, <3>2, <3>3
  <2>3. ASSUME NEW u \in Sessions \ {t}
        PROVE  \/ ~Open(u)' /\ txn'[u].rows = {}
               \/ /\ Open(u) /\ Open(u)' /\ Keeps(u)
                  /\ txn'[u].pc = "ready" <=> txn[u].pc = "ready"
    <3>1. txn'[u] = txn[u] /\ SessionOrdered(u)
      BY <1>0, <2>1 DEF OthersSame
    <3> QED  BY <3>1 DEF Open, Keeps, SessionOrdered
  <2> QED  BY <1>2, <2>1, <2>2, <2>3, SessionsStay
<1>4. ASSUME NEW u \in Employees, ChangeAccess(u)
      PROVE  (\A t \in Sessions : SessionOrdered(t)') /\ NumbersInOrder' /\ SentInOrder'
  <2>1. UNCHANGED <<queue, sent, revision, drawn>>
    BY <1>4, ChangeMove
  <2>2. ASSUME NEW t \in Sessions
        PROVE  \/ ~Open(t)' /\ txn'[t].rows = {}
               \/ /\ Open(t) /\ Open(t)' /\ Keeps(t)
                  /\ txn'[t].pc = "ready" <=> txn[t].pc = "ready"
    <3>1. SessionOrdered(t)
      BY <1>0
    <3> QED  BY <1>4, <3>1, ChangeMove DEF Open, Keeps, SessionOrdered
  <2> QED  BY <1>2, <2>1, <2>2, SessionsStay
<1>5. CASE UNCHANGED vars
  <2>1. ASSUME NEW t \in Sessions
        PROVE  \/ ~Open(t)' /\ txn'[t].rows = {}
               \/ /\ Open(t) /\ Open(t)' /\ Keeps(t)
                  /\ txn'[t].pc = "ready" <=> txn[t].pc = "ready"
    BY <1>0, <1>5 DEF vars, Open, Keeps, SessionOrdered
  <2> QED  BY <1>2, <1>5, <2>1, SessionsStay DEF vars
<1>6. ASSUME NEW t \in Sessions, Lock(t)
      PROVE  (\A u \in Sessions : SessionOrdered(u)') /\ NumbersInOrder' /\ SentInOrder'
  BY <1>2, <1>6, LockOrder, LockMove
<1>7. ASSUME NEW t \in Sessions, Reply(t)
      PROVE  (\A u \in Sessions : SessionOrdered(u)') /\ NumbersInOrder' /\ SentInOrder'
  <2>1. UNCHANGED <<queue, sent, revision>> /\ drawn' = drawn + 1
    BY <1>7 DEF Reply
  <2>2. drawn' \in Nat /\ drawn <= drawn'
    BY <2>1 DEF TypeOK
  <2> QED  BY <1>1, <1>7, <2>1, <2>2, ReplyOrder
<1>8. ASSUME Looks
      PROVE  (\A u \in Sessions : SessionOrdered(u)') /\ NumbersInOrder' /\ SentInOrder'
  <2>1. UNCHANGED <<queue, sent, revision, drawn, txn>>
    BY <1>8, LookMove
  <2>2. ASSUME NEW t \in Sessions
        PROVE  \/ ~Open(t)' /\ txn'[t].rows = {}
               \/ /\ Open(t) /\ Open(t)' /\ Keeps(t)
                  /\ txn'[t].pc = "ready" <=> txn[t].pc = "ready"
    BY <1>0, <2>1 DEF Open, Keeps, SessionOrdered
  <2> QED  BY <1>2, <2>1, <2>2, SessionsStay
<1> QED  BY <1>3, <1>4, <1>5, <1>6, <1>7, <1>8, CommitOrder, LeaveOrder DEF Next, Looks, Leaves

\* Nothing is committed and nobody is told at first.
LEMMA OrderInit == Init => TypeOK /\ CardsInOrder
<1> SUFFICES ASSUME Init PROVE TypeOK /\ CardsInOrder
  OBVIOUS
<1>1. OwnerAccess \in Accesses
  BY DEF OwnerAccess, Accesses, Rights
<1>2. access \in [Users -> Accesses]
  <2>1. PICK f \in [Employees -> Grants] :
            access = [u \in Users |-> IF u \in Owners THEN OwnerAccess ELSE f[u]]
    BY DEF Init
  <2> QED  BY <1>1, <2>1, CardsAssumption DEF Users
<1>3. DOMAIN sent = {} /\ sent \in Seq([card : Cards, within : BOOLEAN, late : BOOLEAN])
  BY DEF Init
<1>4. Committed = {}
  BY <1>3 DEF Init, Committed
<1>5. NumbersInOrder /\ SentInOrder
  BY <1>3, <1>4 DEF NumbersInOrder, SentInOrder
<1>6. CardsInOrder
  BY <1>5, IdleType DEF CardsInOrder, Init, Open, InHandIsNext, Free
<1>7. worker \in Workers
  BY DEF Init, Free, Workers, DeliveryPhases
<1> QED  BY <1>2, <1>3, <1>6, <1>7, IdleType, CardsAssumption DEF Init, TypeOK, Workers

\* Types hold, for any number of people, requests, sessions and events.
THEOREM TypeCorrect == Spec => []TypeOK
<1> QED  BY OrderInit, OrderStep, TypeStep, PTL DEF Spec

\* What the order of the cards rests on (dialogs.py:144-160, task_workflow.py:91-97).
THEOREM CardsAlwaysInOrder == Spec => []CardsInOrder
<1> QED  BY OrderInit, OrderStep, TypeStep, PTL DEF Spec

\* A recipient hears of a request's revisions in their order and of each from one
\* event, whoever acts on it at the same time (worker.py:36-42).
THEOREM NoticesAlwaysInOrder == Spec => []NoticesInOrder
<1>1. TypeOK /\ CardsInOrder => NoticesInOrder
  <2> SUFFICES ASSUME TypeOK, CardsInOrder, NEW i \in DOMAIN sent, NEW j \in DOMAIN sent, i < j,
                      sent[i].card.to = sent[j].card.to, sent[i].card.task = sent[j].card.task
               PROVE  LET c == sent[i].card  d == sent[j].card IN
                      \/ c.revision < d.revision
                      \/ c.revision = d.revision /\ c.by = c.to /\ d.by = c.to
    BY DEF NoticesInOrder
  <2> DEFINE c == sent[i].card
             d == sent[j].card
  <2>1. c \in Committed /\ d \in Committed
    BY DEF Committed
  <2>2. /\ c.sequence \in Nat /\ d.sequence \in Nat /\ c.revision \in Nat /\ d.revision \in Nat
    BY <2>1, CommittedType DEF Cards
  <2>3. c.sequence < d.sequence
    BY DEF CardsInOrder, SentInOrder
  <2>4. /\ c.revision <= d.revision
        /\ c.revision = d.revision => c = d \/ (c.by = c.to /\ d.by = d.to)
    BY <2>1, <2>3 DEF CardsInOrder, NumbersInOrder
  <2>5. c # d
    BY <2>2, <2>3
  <2> QED  BY <2>2, <2>4, <2>5
<1> QED  BY <1>1, OrderInit, OrderStep, TypeStep, PTL DEF Spec

--------------------------------------------------------------------------------
(* Owners.  Their rights never change, so no card to them is ever discarded.   *)

SessionTells(t) == Open(t) => OwnersMarked(txn[t].rows) /\ TellsOwners(t)

\* An event that goes on with what it has tells whom it told; one that ends, nobody.
LEMMA KeepsTelling ==
    ASSUME NEW t \in Sessions, SessionTells(t),
           Open(t)' => Open(t) /\ Keeps(t) /\ txn'[t].to = txn[t].to
    PROVE  SessionTells(t)'
BY DEF SessionTells, TellsOwners, OwnersMarked, Keeps

\* The event of a report starts with all the owners on its list, and the list loses
\* only whom a card was made for.
LEMMA TellingStays ==
    ASSUME TypeOK, CardsInOrder, OwnersInformed, NEW t \in Sessions, Lock(t) \/ Reply(t)
    PROVE  SessionTells(t)'
<1>1. CASE Lock(t)
  <2>1. txn[t].rows = {}
    BY <1>1, LockMove DEF CardsInOrder, Open
  <2>2. /\ txn'[t].rows = {} /\ txn'[t].left = Recipients(t) /\ txn'[t].to = txn[t].to
        /\ txn'[t].actor = txn[t].actor
    BY <1>1, <2>1, LockMove
  <2>3. txn[t].to = Nobody =>
            \A u \in Owners \ {txn[t].actor} : \E i \in DOMAIN Recipients(t) : Recipients(t)[i] = u
    BY RecipientsListed
  <2>4. TellsOwners(t)'
    BY <2>2, <2>3 DEF TellsOwners
  <2> QED  BY <2>2, <2>4 DEF SessionTells, OwnersMarked
<1>2. CASE Reply(t)
  <2> DEFINE c0 == CardOf(t)
             q == txn[t].left
  <2>0. txn[t].pc = "stamp"
    BY <1>2 DEF Reply
  <2>1. q # <<>>
    BY <2>0, ReplyHas
  <2>2. /\ txn'[t].left = Tail(q) /\ txn'[t].rows = txn[t].rows \cup {c0}
        /\ txn'[t].actor = txn[t].actor /\ txn'[t].to = txn[t].to
    BY <1>2, <2>1, ReplyMove
  <2>3. c0.to = Head(q) /\ c0.stamp = Stamp(access[Head(q)])
    BY DEF CardOf
  <2>4. /\ Head(q) = q[1]
        /\ \A i \in DOMAIN q \ {1} : i - 1 \in DOMAIN Tail(q) /\ Tail(q)[i - 1] = q[i]
    BY <2>1, LeftParts
  <2>5. OwnersMarked(txn[t].rows) /\ TellsOwners(t) /\ \A u \in Owners : access[u] = OwnerAccess
    BY <2>0 DEF OwnersInformed, Open
  <2> HIDE DEF c0
  <2>6. OwnersMarked(txn[t].rows \cup {c0})
    BY <2>3, <2>5 DEF OwnersMarked
  <2>7. ASSUME txn[t].to = Nobody, NEW u \in Owners \ {txn[t].actor}
        PROVE  \/ \E c \in txn[t].rows \cup {c0} : c.to = u
               \/ \E i \in DOMAIN Tail(q) : Tail(q)[i] = u
    <3>1. CASE \E c \in txn[t].rows : c.to = u
      BY <3>1
    <3>2. CASE \E i \in DOMAIN q : q[i] = u
      <4>1. PICK i \in DOMAIN q : q[i] = u
        BY <3>2
      <4>2. CASE i = 1
        BY <2>3, <2>4, <4>1, <4>2
      <4>3. CASE i # 1
        BY <2>4, <4>1, <4>3
      <4> QED  BY <4>2, <4>3
    <3> QED  BY <2>5, <2>7, <3>1, <3>2 DEF TellsOwners
  <2>8. TellsOwners(t)'
    BY <2>2, <2>7 DEF TellsOwners
  <2> QED  BY <2>2, <2>6, <2>8 DEF SessionTells
<1> QED  BY <1>1, <1>2

\* The worker sends an owner's card: the owner may use the bot, and the mark is his
\* or hers for good.
LEMMA OwnersCardsAreSent ==
    ASSUME TypeOK, CardsInOrder, OwnersInformed, Leaves
    PROVE  \A d \in Committed : d.to \in Owners => d \in Committed'
<1> DEFINE c == worker.card
<1>1. /\ queue' = queue \ {c}
      /\ Discard => sent' = sent /\ c.to \notin Owners
      /\ Post => /\ DOMAIN sent' = DOMAIN sent \cup {Len(sent) + 1}
                 /\ sent'[Len(sent) + 1].card = c
                 /\ \A i \in DOMAIN sent : sent'[i] = sent[i]
  BY LeaveMove DEF OwnersInformed
<1>2. c.to \in Owners => Post
  BY <1>1 DEF Leaves
<1> HIDE DEF c
<1>3. ASSUME NEW d \in Committed, d.to \in Owners PROVE d \in Committed'
  <2>1. CASE d = c
    BY <1>1, <1>2, <1>3, <2>1 DEF Committed
  <2>2. CASE d \in queue /\ d # c
    BY <1>1, <2>2 DEF Committed
  <2>3. CASE \E i \in DOMAIN sent : d = sent[i].card
    <3>1. PICK i \in DOMAIN sent : d = sent[i].card
      BY <2>3
    <3>2. i \in DOMAIN sent' /\ sent'[i] = sent[i]
      BY <1>1 DEF Leaves
    <3> QED  BY <3>1, <3>2 DEF Committed
  <2> QED  BY <2>1, <2>2, <2>3 DEF Committed
<1> QED  BY <1>3

\* No look of the worker refuses an owner's card.
LEMMA OwnersNotRefused ==
    ASSUME TypeOK, CardsInOrder, OwnersInformed, [Next]_vars
    PROVE  worker'.pc = "refused" => worker'.card.to \notin Owners
<1>1. worker'.pc = worker.pc /\ worker'.card = worker.card => ~(worker'.pc = "refused"
                                                               /\ worker'.card.to \in Owners)
  BY DEF OwnersInformed
<1>2. ASSUME Looks, worker'.pc = "refused" PROVE worker'.card.to \notin Owners
  <2>1. \/ CheckUser /\ ~Known(access[worker.card.to])
        \/ Compare /\ ~MarkStands
    BY <1>2 DEF Looks, Take, CheckUser, Compare, Claim, TypeOK, Free
  <2>2. worker.card \in queue /\ worker'.card = worker.card
    BY <1>2, <2>1, LookMove, InHand DEF CheckUser, Compare
  <2>3. worker.card.to \in Owners =>
            /\ access[worker.card.to] = OwnerAccess
            /\ worker.card.stamp = Stamp(OwnerAccess)
    BY <2>2 DEF OwnersInformed, OwnersMarked
  <2>4. Known(OwnerAccess)
    BY DEF Known, OwnerAccess
  <2> QED  BY <2>1, <2>2, <2>3, <2>4 DEF MarkStands
<1>3. ASSUME Leaves PROVE worker'.pc = "free"
  BY <1>3, LeaveMove DEF Free
<1>4. ASSUME NEW u \in Employees, ChangeAccess(u)
      PROVE  worker'.pc = worker.pc /\ worker'.card = worker.card
  BY <1>4, ChangeMove
<1>5. ASSUME NEW t \in Sessions,
             Begin(t) \/ Lock(t) \/ Refuse(t) \/ Read(t) \/ Reply(t) \/ Commit(t) \/ Abort(t)
      PROVE  UNCHANGED worker
  BY <1>5 DEF Begin, Lock, Refuse, Read, Reply, Commit, Abort
<1> QED  BY <1>1, <1>2, <1>3, <1>4, <1>5 DEF Next, Looks, Leaves, vars

\* Every step keeps the owners informed.
LEMMA OwnersStep == TypeOK /\ CardsInOrder /\ OwnersInformed /\ [Next]_vars => OwnersInformed'
<1> SUFFICES ASSUME TypeOK, CardsInOrder, OwnersInformed, [Next]_vars
             PROVE  OwnersInformed'
  OBVIOUS
<1> DEFINE Heard == OwnersHearEveryReport
<1>0. /\ \A t \in Sessions : SessionTells(t)
      /\ \A u \in Owners : access[u] = OwnerAccess
      /\ OwnersMarked(queue) /\ Heard
  BY DEF OwnersInformed, SessionTells
<1>1. (\A t \in Sessions : SessionTells(t)') /\ (\A u \in Owners : access'[u] = OwnerAccess)
          /\ OwnersMarked(queue)' /\ Heard' => OwnersInformed'
  BY OwnersNotRefused DEF OwnersInformed, SessionTells
<1>2. UNCHANGED <<queue, sent, reports>> => OwnersMarked(queue)' /\ Heard'
  BY <1>0 DEF OwnersHearEveryReport, OwnersMarked
<1> HIDE DEF Heard
<1>3. ASSUME NEW t \in Sessions, OthersSame(t), SessionTells(t)'
      PROVE  \A v \in Sessions : SessionTells(v)'
  <2>1. ASSUME NEW v \in Sessions \ {t} PROVE SessionTells(v)'
    BY <1>0, <1>3, <2>1, KeepsTelling DEF OthersSame, Open, Keeps
  <2> QED  BY <1>3, <2>1
<1>4. ASSUME NEW t \in Sessions, Lock(t) \/ Reply(t) PROVE OwnersInformed'
  <2>1. OthersSame(t) /\ UNCHANGED <<access, queue, sent, reports>>
    <3>1. CASE Lock(t)
      BY <3>1, LockMove
    <3>2. CASE Reply(t)
      BY <3>2, ReplyHas, ReplyMove DEF Reply
    <3> QED  BY <1>4, <3>1, <3>2
  <2>2. SessionTells(t)'
    BY <1>4, TellingStays
  <2> QED  BY <1>0, <1>1, <1>2, <1>3, <2>1, <2>2
<1>5. ASSUME NEW t \in Sessions, Begin(t) \/ Refuse(t) \/ Abort(t) \/ Read(t)
      PROVE  OwnersInformed'
  <2>1. OthersSame(t) /\ UNCHANGED <<access, queue, sent, reports>>
    BY <1>5, BeginMove, EndMove, ReadMove DEF Refuse, Abort
  <2>2. Open(t)' => Open(t) /\ Keeps(t) /\ txn'[t].to = txn[t].to
    <3>1. CASE Begin(t)
      BY <3>1, BeginMove DEF Open
    <3>2. CASE Refuse(t) \/ Abort(t)
      BY <3>2, EndMove, IdleType DEF Open, Refuse, Abort
    <3>3. CASE Read(t)
      BY <3>3, ReadMove, IdleType DEF Open, Keeps
    <3> QED  BY <1>5, <3>1, <3>2, <3>3
  <2>3. SessionTells(t)'
    BY <1>0, <2>2, KeepsTelling
  <2> QED  BY <1>0, <1>1, <1>2, <1>3, <2>1, <2>3
<1>6. ASSUME NEW u \in Employees, ChangeAccess(u) PROVE OwnersInformed'
  <2>1. UNCHANGED <<queue, sent, reports>> /\ \A v \in Owners : access'[v] = access[v]
    BY <1>6, ChangeMove, CardsAssumption DEF Users
  <2>2. ASSUME NEW t \in Sessions PROVE SessionTells(t)'
    BY <1>0, <1>6, ChangeMove, KeepsTelling DEF Open, Keeps
  <2> QED  BY <1>0, <1>1, <1>2, <2>1, <2>2
<1>7. CASE UNCHANGED vars
  <2>1. ASSUME NEW t \in Sessions PROVE SessionTells(t)'
    BY <1>0, <1>7, KeepsTelling DEF vars, Open, Keeps
  <2> QED  BY <1>0, <1>1, <1>2, <1>7, <2>1 DEF vars
<1>8. ASSUME NEW t \in Sessions, Commit(t) PROVE OwnersInformed'
  <2> DEFINE R == txn[t].rows
             r == [task |-> txn[t].task, revision |-> txn[t].revision, by |-> txn[t].actor]
  <2>1. /\ OthersSame(t) /\ txn'[t] = Idle /\ txn[t].pc = "ready"
        /\ queue' = queue \cup R /\ UNCHANGED <<access, sent>>
        /\ txn[t].to = Nobody => reports' = reports \cup {r}
        /\ txn[t].to # Nobody => reports' = reports
    BY <1>8, CommitMove
  <2>2. OwnersMarked(R) /\ TellsOwners(t) /\ HoldsRow(t) /\ RowsFollow(t)
    BY <2>1 DEF OwnersInformed, CardsInOrder, Open
  <2>3. SessionTells(t)'
    BY <2>1, IdleType DEF SessionTells, Open
  <2>4. OwnersMarked(queue)'
    BY <1>0, <2>1, <2>2 DEF OwnersMarked
  <2>5. Committed \subseteq Committed' /\ R \subseteq Committed'
    BY <2>1 DEF Committed
  <2>6. r.task = txn[t].task /\ r.revision = txn[t].revision /\ r.by = txn[t].actor
    OBVIOUS
  <2> HIDE DEF R, r
  <2>7. ASSUME NEW x \in reports', NEW u \in Owners \ {x.by}
        PROVE  \E c \in Committed' : c.to = u /\ c.task = x.task /\ c.revision = x.revision
    <3>1. CASE x \in reports
      <4>1. \E c \in Committed : c.to = u /\ c.task = x.task /\ c.revision = x.revision
        BY <1>0, <2>7, <3>1 DEF Committed, Heard, OwnersHearEveryReport
      <4> QED  BY <2>5, <4>1
    <3>2. CASE txn[t].to = Nobody /\ x = r
      <4>1. txn[t].left = <<>>
        BY <2>1, <2>2 DEF HoldsRow
      <4>2. \E c \in R : c.to = u
        BY <2>2, <2>6, <2>7, <3>2, <4>1 DEF TellsOwners, R
      <4>3. \A c \in R : c.task = txn[t].task /\ c.revision = txn[t].revision
        BY <2>2 DEF RowsFollow, R
      <4> QED  BY <2>5, <2>6, <3>2, <4>2, <4>3
    <3> QED  BY <2>1, <2>7, <3>1, <3>2
  <2>8. Heard'
    BY <2>7 DEF Committed, Heard, OwnersHearEveryReport
  <2> QED  BY <1>0, <1>1, <1>3, <2>1, <2>3, <2>4, <2>8
<1>10. ASSUME Looks PROVE OwnersInformed'
  <2>1. UNCHANGED <<access, queue, sent, reports, txn>>
    BY <1>10, LookMove
  <2>2. ASSUME NEW t \in Sessions PROVE SessionTells(t)'
    BY <1>0, <2>1, KeepsTelling DEF Open, Keeps
  <2> QED  BY <1>0, <1>1, <1>2, <2>1, <2>2
<1>9. ASSUME Leaves PROVE OwnersInformed'
  <2>1. queue' \subseteq queue /\ UNCHANGED <<access, reports, txn>>
    BY <1>9, LeaveMove
  <2>2. ASSUME NEW t \in Sessions PROVE SessionTells(t)'
    BY <1>0, <2>1, KeepsTelling DEF Open, Keeps
  <2>3. OwnersMarked(queue)'
    BY <1>0, <2>1 DEF OwnersMarked
  <2>4. \A d \in Committed : d.to \in Owners => d \in Committed'
    BY <1>9, OwnersCardsAreSent
  <2>5. ASSUME NEW x \in reports, NEW u \in Owners \ {x.by}
        PROVE  \E d \in Committed' : d.to = u /\ d.task = x.task /\ d.revision = x.revision
    <3>1. PICK d \in Committed : d.to = u /\ d.task = x.task /\ d.revision = x.revision
      BY <1>0 DEF Committed, Heard, OwnersHearEveryReport
    <3> QED  BY <2>4, <3>1
  <2>6. Heard'
    BY <2>1, <2>5 DEF Committed, Heard, OwnersHearEveryReport
  <2> QED  BY <1>0, <1>1, <2>1, <2>2, <2>3, <2>6
<1> QED  BY <1>4, <1>5, <1>6, <1>7, <1>8, <1>9, <1>10 DEF Next, Looks, Leaves

\* Nothing is reported at first.
LEMMA OwnersInit == Init => OwnersInformed
<1> SUFFICES ASSUME Init PROVE OwnersInformed
  OBVIOUS
<1>1. \A u \in Owners : access[u] = OwnerAccess
  BY DEF Init, Users
<1>2. \A t \in Sessions : ~Open(t)
  BY IdleType DEF Init, Open
<1> QED  BY <1>1, <1>2 DEF Init, Free, OwnersInformed, OwnersMarked, OwnersHearEveryReport

\* Every owner but its author has been sent a card of every committed report, or
\* has one in the queue, which no change of a membership discards
\* (dialogs.py:541-559, worker.py:46-58).
THEOREM OwnersAlwaysHear == Spec => []OwnersHearEveryReport
<1>1. OwnersInformed => OwnersHearEveryReport
  BY DEF OwnersInformed
<1> QED  BY <1>1, OwnersInit, OwnersStep, OrderInit, OrderStep, TypeStep, PTL DEF Spec

--------------------------------------------------------------------------------
(* Rights.  A card is made for somebody whose rights reach the request when its *)
(* row is locked, or change after that, and its mark tells of later changes.    *)

SessionReaches(t) ==
    Open(t) => /\ MarkReaches(txn[t].rows)
               /\ \A i \in DOMAIN txn[t].left :
                      \/ txn[t].left[i] \in txn[t].changed
                      \/ Reaches(access[txn[t].left[i]], txn[t].task)

\* The rights of an owner reach everything.
LEMMA OwnersReach == ASSUME NEW r \in Places PROVE Reaches(OwnerAccess, r)
BY DEF OwnerAccess, Reaches, Loads, InScope, CanHouse, CanCategory, IsOwner

\* Nobody is made a recipient of what is hidden from him or her.
LEMMA RecipientsReach ==
    ASSUME TypeOK, OwnersInformed, NEW t \in Sessions, Allowed(t)
    PROVE  \A i \in DOMAIN Recipients(t) : Reaches(access[Recipients(t)[i]], txn[t].task)
<1> DEFINE q == Recipients(t)
           e == txn[t]
<1>1. e.task \in Places /\ e.to \in Employees \cup {Nobody}
  BY CardsAssumption DEF TypeOK, Txns
<1>2. Reaches(access[e.actor], e.task)
  BY DEF Allowed
<1>3. CASE e.to # Nobody
  <2>1. \A i \in DOMAIN q : q[i] \in {e.actor, e.to}
    BY <1>3, RecipientsListed
  <2>2. access[e.to] \in Accesses
    BY <1>1, <1>3 DEF TypeOK, Users
  <2>3. AssignAccepted(access[e.to], e.task)
    BY <1>3 DEF Allowed
  <2>4. Reaches(access[e.to], e.task)
    BY <1>1, <2>2, <2>3, AssigneesCanReport DEF Opens
  <2> QED  BY <1>2, <2>1, <2>4
<1>4. CASE e.to = Nobody
  <2>1. \A i \in DOMAIN q : q[i] \in Owners \cup {e.actor}
    BY <1>4, RecipientsListed
  <2>2. \A u \in Owners : access[u] = OwnerAccess
    BY DEF OwnersInformed
  <2>3. Reaches(OwnerAccess, e.task)
    BY <1>1, OwnersReach
  <2> QED  BY <1>2, <2>1, <2>2, <2>3
<1> QED  BY <1>3, <1>4

\* An event that goes on as before, and whose recipients' rights are as before or
\* noted as changed.
LEMMA KeepsReaching ==
    ASSUME NEW t \in Sessions, SessionReaches(t),
           Open(t)' =>
               /\ Open(t) /\ Keeps(t) /\ txn[t].changed \subseteq txn'[t].changed
               /\ \A i \in DOMAIN txn[t].left : LET u == txn[t].left[i] IN
                      access'[u] = access[u] \/ u \in txn'[t].changed
    PROVE  SessionReaches(t)'
<1> SUFFICES ASSUME Open(t)'
             PROVE  /\ MarkReaches(txn'[t].rows)
                    /\ \A i \in DOMAIN txn'[t].left :
                           \/ txn'[t].left[i] \in txn'[t].changed
                           \/ Reaches(access'[txn'[t].left[i]], txn'[t].task)
  BY DEF SessionReaches, MarkReaches, Reaches, Loads, InScope, CanHouse, CanCategory
<1>1. MarkReaches(txn'[t].rows)
  BY DEF SessionReaches, Keeps
<1>2. ASSUME NEW i \in DOMAIN txn'[t].left
      PROVE  \/ txn'[t].left[i] \in txn'[t].changed
             \/ Reaches(access'[txn'[t].left[i]], txn'[t].task)
  BY DEF SessionReaches, Keeps
<1> QED  BY <1>1, <1>2

\* The recipients are settled; a card is made for one of them.
LEMMA ReachingStays ==
    ASSUME TypeOK, CardsInOrder, OwnersInformed, RightsKnown, NEW t \in Sessions,
           Lock(t) \/ Reply(t)
    PROVE  SessionReaches(t)'
<1>0. UNCHANGED access
  BY DEF Lock, Reply
<1>1. CASE Lock(t)
  <2>1. txn[t].rows = {} /\ Allowed(t)
    BY <1>1, LockMove DEF CardsInOrder, Open
  <2>2. /\ txn'[t].rows = {} /\ txn'[t].left = Recipients(t) /\ txn'[t].task = txn[t].task
    BY <1>1, <2>1, LockMove
  <2>3. \A i \in DOMAIN Recipients(t) : Reaches(access[Recipients(t)[i]], txn[t].task)
    BY <2>1, RecipientsReach
  <2>4. \A i \in DOMAIN txn'[t].left : Reaches(access'[txn'[t].left[i]], txn'[t].task)
    BY <1>0, <2>2, <2>3
  <2> QED  BY <2>2, <2>4 DEF SessionReaches, MarkReaches
<1>2. CASE Reply(t)
  <2> DEFINE c0 == CardOf(t)
             q == txn[t].left
             u == Head(q)
  <2>0. txn[t].pc = "stamp"
    BY <1>2 DEF Reply
  <2>1. q # <<>>
    BY <2>0, ReplyHas
  <2>2. /\ txn'[t].left = Tail(q) /\ txn'[t].rows = txn[t].rows \cup {c0}
        /\ txn'[t].task = txn[t].task /\ txn'[t].changed = txn[t].changed
    BY <1>2, <2>1, ReplyMove
  <2>3. /\ c0.raced = (u \in txn[t].changed) /\ c0.stamp = Stamp(access[u])
        /\ c0.task = txn[t].task
    BY DEF CardOf
  <2>4. /\ q \in Seq(Users) /\ u = q[1] /\ 1 \in DOMAIN q
        /\ \A i \in DOMAIN Tail(q) : i + 1 \in DOMAIN q /\ Tail(q)[i] = q[i + 1]
    BY <2>1, LeftParts
  <2>5. SessionReaches(t) /\ Open(t)
    BY <2>0 DEF RightsKnown, SessionReaches, Open
  <2>6. u \in Users /\ access[u] \in Accesses
    BY <2>4 DEF TypeOK
  <2> HIDE DEF c0, u
  <2>7. c0.raced \/ \E a \in Accesses : Stamp(a) = c0.stamp /\ Reaches(a, c0.task)
    BY <2>3, <2>4, <2>5, <2>6 DEF SessionReaches
  <2>8. MarkReaches(txn[t].rows \cup {c0})
    BY <2>5, <2>7 DEF SessionReaches, MarkReaches
  <2>9. \A i \in DOMAIN Tail(q) :
            Tail(q)[i] \in txn[t].changed \/ Reaches(access[Tail(q)[i]], txn[t].task)
    BY <2>4, <2>5 DEF SessionReaches
  <2> QED  BY <1>0, <2>2, <2>8, <2>9 DEF SessionReaches
<1> QED  BY <1>1, <1>2

\* The worker clears a card if its recipient may open the request, unless the rights
\* changed since it read the account, or the card was made in a race.
LEMMA WorkerKnowsStep ==
    ASSUME TypeOK, CardsInOrder, RightsKnown, [Next]_vars PROVE WorkerKnows'
<1> DEFINE c == worker.card
<1>1. UNCHANGED <<access, worker>> => WorkerKnows'
  BY DEF RightsKnown, WorkerKnows, Opens, Known, Reaches, Loads, InScope, CanHouse, CanCategory
<1>2. WorkerKnows
  BY DEF RightsKnown
<1>3. ASSUME NEW u \in Employees, ChangeAccess(u) PROVE WorkerKnows'
  <2>1. /\ worker'.pc = worker.pc /\ worker'.card = worker.card
        /\ worker'.late = (worker.late \/ ReadBefore(u, access'[u]))
        /\ \A v \in Users \ {u} : access'[v] = access[v]
    BY <1>3, ChangeMove
  <2>2. CASE c.to # u /\ worker.pc # "free"
    <3>1. access'[c.to] = access[c.to]
      BY <2>1, <2>2, InHand DEF Cards
    <3> QED  BY <1>2, <2>1, <3>1 DEF WorkerKnows
  <2>3. CASE worker.pc \in {"cleared", "claimed"} /\ c.to = u
    BY <2>1, <2>3 DEF WorkerKnows, ReadBefore
  <2>4. CASE worker.pc = "known" /\ c.to = u
    <3>1. Known(access'[u]) # Known(access[u]) => worker'.late
      BY <2>1, <2>4 DEF ReadBefore
    <3>2. worker.late \/ Known(access[u])
      BY <1>2, <2>4 DEF WorkerKnows
    <3>3. worker'.late \/ Known(access'[u])
      BY <2>1, <3>1, <3>2
    <3> QED  BY <2>1, <2>4, <3>3 DEF WorkerKnows
  <2>5. CASE worker.pc \notin {"known", "cleared", "claimed"}
    BY <2>1, <2>5 DEF WorkerKnows
  <2> QED  BY <2>2, <2>3, <2>4, <2>5
<1>4. ASSUME Looks PROVE WorkerKnows'
  <2>0. UNCHANGED access
    BY <1>4, LookMove
  <2>1. CASE \E d \in queue : Take(d)
    BY <2>1 DEF WorkerKnows, Take, Free
  <2>2. CASE CheckUser
    <3>1. worker'.pc \notin {"cleared", "claimed"} /\ worker'.card = c
      BY <2>2, LookMove DEF CheckUser, TypeOK, Looks
    <3>2. worker'.pc = "known" => Known(access[c.to])
      BY <2>2 DEF CheckUser, TypeOK
    <3> QED  BY <2>0, <3>1, <3>2 DEF WorkerKnows
  <2>3. CASE Compare
    <3>1. /\ worker'.card = c /\ worker'.late = worker.late /\ worker.pc = "known"
          /\ (worker'.pc = "cleared" /\ MarkStands) \/ worker'.pc = "refused"
      BY <2>3 DEF Compare, TypeOK
    <3>2. worker.late \/ Known(access[c.to])
      BY <1>2, <3>1 DEF WorkerKnows
    <3>3. c \in queue /\ c \in Cards
      BY <3>1, InHand
    <3>4. access[c.to] \in Accesses /\ c.task \in Places
      BY <3>3, CardsAssumption DEF TypeOK, Cards
    <3>5. c.raced \/ \E a \in Accesses : Stamp(a) = c.stamp /\ Reaches(a, c.task)
      BY <3>3 DEF RightsKnown, MarkReaches
    <3>6. ASSUME NEW a \in Accesses, Stamp(a) = c.stamp, Reaches(a, c.task), MarkStands
          PROVE  Reaches(access[c.to], c.task)
      BY <3>4, <3>6, EqualStampsReachAlike DEF MarkStands
    <3>7. MarkStands => c.raced \/ worker.late \/ Opens(access[c.to], c.task)
      BY <3>2, <3>5, <3>6 DEF Opens
    <3> HIDE DEF c
    <3> QED  BY <2>0, <3>1, <3>2, <3>7 DEF WorkerKnows
  <2>4. CASE Claim
    BY <1>2, <2>0, <2>4 DEF WorkerKnows, Claim, TypeOK
  <2> QED  BY <1>4, <2>1, <2>2, <2>3, <2>4 DEF Looks
<1>5. ASSUME Leaves PROVE WorkerKnows'
  BY <1>5, LeaveMove DEF WorkerKnows, Free
<1>6. ASSUME NEW t \in Sessions,
             Begin(t) \/ Lock(t) \/ Refuse(t) \/ Read(t) \/ Reply(t) \/ Commit(t) \/ Abort(t)
      PROVE  UNCHANGED <<access, worker>>
  BY <1>6 DEF Begin, Lock, Refuse, Read, Reply, Commit, Abort
<1> QED  BY <1>1, <1>3, <1>4, <1>5, <1>6 DEF Next, Looks, Leaves, vars

\* A card that is sent was cleared.
LEMMA SendingReveals ==
    ASSUME TypeOK, CardsInOrder, RightsKnown, Leaves
    PROVE  OnlyRacesReveal'
<1> DEFINE c == worker.card
<1>1. /\ Discard => sent' = sent
      /\ Post => /\ worker.pc = "claimed"
                 /\ DOMAIN sent' = DOMAIN sent \cup {Len(sent) + 1}
                 /\ sent'[Len(sent) + 1].card = c
                 /\ sent'[Len(sent) + 1].within = Opens(access[c.to], c.task)
                 /\ sent'[Len(sent) + 1].late = worker.late
                 /\ \A i \in DOMAIN sent : sent'[i] = sent[i]
  BY LeaveMove
<1>2. \A i \in DOMAIN sent : sent[i].within \/ sent[i].card.raced \/ sent[i].late
  BY DEF RightsKnown, OnlyRacesReveal
<1>3. Post => c.raced \/ worker.late \/ Opens(access[c.to], c.task)
  BY <1>1 DEF RightsKnown, WorkerKnows
<1> HIDE DEF c
<1>4. CASE Discard
  BY <1>1, <1>2, <1>4 DEF OnlyRacesReveal
<1>5. CASE Post
  <2>1. ASSUME NEW i \in DOMAIN sent'
        PROVE  sent'[i].within \/ sent'[i].card.raced \/ sent'[i].late
    BY <1>1, <1>2, <1>3, <1>5
  <2> QED  BY <2>1 DEF OnlyRacesReveal
<1> QED  BY <1>4, <1>5 DEF Leaves

\* Every step keeps what the marks say.
LEMMA RightsStep ==
    TypeOK /\ CardsInOrder /\ OwnersInformed /\ RightsKnown /\ [Next]_vars => RightsKnown'
<1> SUFFICES ASSUME TypeOK, CardsInOrder, OwnersInformed, RightsKnown, [Next]_vars
             PROVE  RightsKnown'
  OBVIOUS
<1>0. (\A t \in Sessions : SessionReaches(t)) /\ MarkReaches(queue) /\ OnlyRacesReveal
  BY DEF RightsKnown, SessionReaches
<1>1. (\A t \in Sessions : SessionReaches(t)') /\ MarkReaches(queue)' /\ OnlyRacesReveal'
          => RightsKnown'
  BY WorkerKnowsStep DEF RightsKnown, SessionReaches
<1>2. UNCHANGED sent => OnlyRacesReveal'
  BY <1>0 DEF OnlyRacesReveal
<1>3. UNCHANGED queue => MarkReaches(queue)'
  BY <1>0 DEF MarkReaches
<1>4. ASSUME NEW t \in Sessions, OthersSame(t), UNCHANGED access, SessionReaches(t)'
      PROVE  \A v \in Sessions : SessionReaches(v)'
  <2>1. ASSUME NEW v \in Sessions \ {t} PROVE SessionReaches(v)'
    BY <1>0, <1>4, KeepsReaching DEF OthersSame, Open, Keeps
  <2> QED  BY <1>4, <2>1
<1>5. ASSUME NEW t \in Sessions, Lock(t) \/ Reply(t) PROVE RightsKnown'
  <2>1. OthersSame(t) /\ UNCHANGED <<access, queue, sent>>
    <3>1. CASE Lock(t)
      BY <3>1, LockMove
    <3>2. CASE Reply(t)
      BY <3>2, ReplyHas, ReplyMove DEF Reply
    <3> QED  BY <1>5, <3>1, <3>2
  <2>2. SessionReaches(t)'
    BY <1>5, ReachingStays
  <2> QED  BY <1>1, <1>2, <1>3, <1>4, <2>1, <2>2
<1>6. ASSUME NEW t \in Sessions, Begin(t) \/ Refuse(t) \/ Abort(t) \/ Read(t)
      PROVE  RightsKnown'
  <2>1. OthersSame(t) /\ UNCHANGED <<access, queue, sent>>
    BY <1>6, BeginMove, EndMove, ReadMove DEF Refuse, Abort
  <2>2. Open(t)' => Open(t) /\ Keeps(t) /\ txn'[t].changed = txn[t].changed
    <3>1. CASE Begin(t)
      BY <3>1, BeginMove DEF Open
    <3>2. CASE Refuse(t) \/ Abort(t)
      BY <3>2, EndMove, IdleType DEF Open, Refuse, Abort
    <3>3. CASE Read(t)
      BY <3>3, ReadMove, IdleType DEF Open, Keeps
    <3> QED  BY <1>6, <3>1, <3>2, <3>3
  <2>3. SessionReaches(t)'
    BY <1>0, <2>1, <2>2, KeepsReaching
  <2> QED  BY <1>1, <1>2, <1>3, <1>4, <2>1, <2>3
<1>7. ASSUME NEW u \in Employees, ChangeAccess(u) PROVE RightsKnown'
  <2>1. UNCHANGED <<queue, sent>> /\ \A v \in Users \ {u} : access'[v] = access[v]
    BY <1>7, ChangeMove
  <2>2. ASSUME NEW t \in Sessions PROVE SessionReaches(t)'
    <3>1. Open(t)' => Open(t) /\ Keeps(t) /\ txn'[t].changed = txn[t].changed \cup {u}
      BY <1>7, ChangeMove DEF Open, Keeps
    <3>2. \A i \in DOMAIN txn[t].left : txn[t].left[i] \in Users
      BY DEF TypeOK, Txns
    <3> QED  BY <1>0, <2>1, <3>1, <3>2, KeepsReaching
  <2> QED  BY <1>1, <1>2, <1>3, <2>1, <2>2
<1>8. CASE UNCHANGED vars
  <2>1. ASSUME NEW t \in Sessions PROVE SessionReaches(t)'
    BY <1>0, <1>8, KeepsReaching DEF vars, Open, Keeps
  <2> QED  BY <1>1, <1>2, <1>3, <1>8, <2>1 DEF vars
<1>9. ASSUME NEW t \in Sessions, Commit(t) PROVE RightsKnown'
  <2>1. /\ OthersSame(t) /\ txn'[t] = Idle /\ txn[t].pc = "ready"
        /\ queue' = queue \cup txn[t].rows /\ UNCHANGED <<access, sent>>
    BY <1>9, CommitMove
  <2>2. MarkReaches(txn[t].rows)
    BY <1>0, <2>1 DEF SessionReaches, Open
  <2>3. MarkReaches(queue)'
    BY <1>0, <2>1, <2>2 DEF MarkReaches
  <2>4. SessionReaches(t)'
    BY <2>1, IdleType DEF SessionReaches, Open
  <2> QED  BY <1>1, <1>2, <1>4, <2>1, <2>3, <2>4
<1>11. ASSUME Looks PROVE RightsKnown'
  <2>1. UNCHANGED <<access, queue, sent, txn>>
    BY <1>11, LookMove
  <2>2. ASSUME NEW t \in Sessions PROVE SessionReaches(t)'
    BY <1>0, <2>1, KeepsReaching DEF Open, Keeps
  <2> QED  BY <1>1, <1>2, <1>3, <2>1, <2>2
<1>10. ASSUME Leaves PROVE RightsKnown'
  <2>1. queue' \subseteq queue /\ UNCHANGED <<access, txn>>
    BY <1>10, LeaveMove
  <2>2. ASSUME NEW t \in Sessions PROVE SessionReaches(t)'
    BY <1>0, <2>1, KeepsReaching DEF Open, Keeps
  <2>3. MarkReaches(queue)'
    BY <1>0, <2>1 DEF MarkReaches
  <2> QED  BY <1>1, <1>10, <2>2, <2>3, SendingReveals
<1> QED  BY <1>5, <1>6, <1>7, <1>8, <1>9, <1>10, <1>11 DEF Next, Looks, Leaves

\* Nothing is revealed at first.
LEMMA RightsInit == Init => RightsKnown
<1> SUFFICES ASSUME Init PROVE RightsKnown
  OBVIOUS
<1>1. \A t \in Sessions : ~Open(t)
  BY IdleType DEF Init, Open
<1> QED  BY <1>1 DEF Init, Free, RightsKnown, WorkerKnows, MarkReaches, OnlyRacesReveal

\* A card about a request its recipient may not open at the instant of the HTTP
\* request was made while that recipient's rights changed, or they changed after the
\* worker had read them, for any people, rights and requests (worker.py:46-70,
\* task_workflow.py:117-143).
THEOREM OnlyRacesEverReveal == Spec => []OnlyRacesReveal
<1>1. RightsKnown => OnlyRacesReveal
  BY DEF RightsKnown
<1> QED  BY <1>1, RightsInit, RightsStep, OwnersInit, OwnersStep, OrderInit, OrderStep, TypeStep,
            PTL DEF Spec
================================================================================
