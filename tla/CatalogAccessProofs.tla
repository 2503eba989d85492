------------------------- MODULE CatalogAccessProofs -------------------------
(***************************************************************************)
(* The owner's changes of employees and roles compose, and the rows hang   *)
(* together (CatalogAccess.tla), for any employees, houses, areas, values  *)
(* and number of transactions.                                             *)
(***************************************************************************)
EXTENDS CatalogAccess, SequenceTheorems, TLAPS

CatalogInv ==
    /\ TypeOK /\ ScopesFit /\ CreatedOnce /\ PatchesCompose
    /\ CallsAsked /\ RowsHeld /\ RowsInserted /\ StillFits /\ LoggedRowsExist

Changes == [of : Targets, kind : Kinds, fields : Creations \cup Patches \cup {Renaming}]

LEMMA IdleType == Idle.pc = "idle" /\ Idle.of \in Targets /\ Idle.kind = "bot"
<1>1. \E x \in Targets : TRUE
    BY FieldsAssumption DEF Targets
<1> QED
    BY <1>1 DEF Idle

\* Rows that exist have columns.
LEMMA NoColumns == DOMAIN NoRow = {}
    BY DEF NoRow

LEMMA SomeColumns == \A x : Fields(x) # {}
    BY DEF Fields

\* What the transactions say of the rows, in a state where the rows, the houses and
\* the log are what they were and one transaction has taken a step.
LEMMA OneMoves ==
    ASSUME CatalogInv, NEW t \in Transactions, UNCHANGED <<row, areaOf, log>>,
           begun' \in 0..MaxCalls,
           DOMAIN txn' = Transactions, \A u \in Transactions \ {t} : txn'[u] = txn[u],
           txn'[t].pc \in Phases, txn'[t].of \in Targets,
           txn'[t].pc # "idle" =>
               CASE txn'[t].kind = "create" -> /\ txn'[t].pc # "locked" /\ txn'[t].of \in Employees
                                               /\ txn'[t].fields \in Creations
                 [] txn'[t].kind = "patch" -> /\ txn'[t].pc # "saved" /\ txn'[t].fields \in Patches
                                              /\ DOMAIN txn'[t].fields \subseteq Fields(txn'[t].of)
                 [] txn'[t].kind = "bot" -> /\ txn'[t].pc # "locked" /\ txn'[t].of \in Employees
                                            /\ txn'[t].fields = Renaming
                 [] OTHER -> FALSE,
           Holds(t)' => /\ row[txn'[t].of] # NoRow
                        /\ txn'[t].kind = "patch" => txn'[t].seen = row[txn'[t].of]
                        /\ \A u \in Transactions \ {t} : Holds(u) => txn[u].of # txn'[t].of,
           txn'[t].kind = "bot" /\ txn'[t].pc = "valid" => row[txn'[t].of] # NoRow,
           txn'[t].kind = "create" /\ txn'[t].pc = "saved" =>
               /\ row[txn'[t].of] = NoRow
               /\ \A u \in Transactions \ {t} :
                      txn[u].kind = "create" /\ txn[u].pc = "saved" => txn[u].of # txn'[t].of,
           (\/ txn'[t].kind = "create" /\ txn'[t].pc \in {"valid", "saved"}
            \/ txn'[t].kind = "patch" /\ txn'[t].pc = "valid") => Fits(t)'
    PROVE  CatalogInv'
<1> USE DEF CatalogInv
<1>1. TypeOK'
    BY DEF TypeOK
<1>2. ScopesFit' /\ CreatedOnce' /\ PatchesCompose' /\ LoggedRowsExist'
    BY DEF ScopesFit, CreatedOnce, PatchesCompose, LoggedRowsExist
<1>3. CallsAsked'
    BY DEF CallsAsked
<1>4. ASSUME NEW u \in Transactions \ {t} PROVE (Holds(u)' <=> Holds(u)) /\ (Fits(u)' <=> Fits(u))
    BY <1>4 DEF Holds, Fits, Merged
<1>5. RowsHeld'
    BY <1>4 DEF RowsHeld, LockedByOther
<1>6. RowsInserted'
    BY DEF RowsInserted, MayInsert
<1>7. StillFits'
    BY <1>4 DEF StillFits
<1> QED
    BY <1>1, <1>2, <1>3, <1>5, <1>6, <1>7

LEMMA EndsQuietly ==
    ASSUME CatalogInv, NEW t \in Transactions, txn' = [txn EXCEPT ![t] = Idle],
           UNCHANGED <<row, areaOf, log, begun>>
    PROVE  CatalogInv'
<1>1. /\ txn'[t] = Idle /\ DOMAIN txn' = Transactions
      /\ \A u \in Transactions \ {t} : txn'[u] = txn[u]
      /\ begun' \in 0..MaxCalls
    BY DEF CatalogInv, TypeOK
<1>2. txn'[t].pc = "idle" /\ txn'[t].of \in Targets /\ txn'[t].kind = "bot"
    BY <1>1, IdleType
<1> QED
    BY <1>1, <1>2, OneMoves DEF Holds, Phases

LEMMA BeginKeeps ==
    ASSUME CatalogInv, NEW t \in Transactions, BeginSome(t)
    PROVE  CatalogInv'
<1>1. ASSUME NEW k \in Kinds, NEW x \in Targets, NEW p, Begin(t, k, x, p),
             k = "create" => x \in Employees /\ p \in Creations,
             k = "patch" => p \in Patches /\ DOMAIN p \subseteq Fields(x),
             k = "bot" => x \in Employees /\ p = Renaming
      PROVE  CatalogInv'
    <2>1. /\ DOMAIN txn' = Transactions /\ \A u \in Transactions \ {t} : txn'[u] = txn[u]
          /\ txn'[t].pc = "begun" /\ txn'[t].kind = k /\ txn'[t].of = x /\ txn'[t].fields = p
          /\ UNCHANGED <<row, areaOf, log>>
        BY <1>1 DEF Begin, CatalogInv, TypeOK, Idle
    <2>2. begun' \in 0..MaxCalls
        BY <1>1, FieldsAssumption DEF Begin, CatalogInv, TypeOK
    <2>3. ~Holds(t)'
        BY <2>1 DEF Holds
    <2>4. CASE k = "create"
        BY <1>1, <2>1, <2>2, <2>3, <2>4, OneMoves DEF Phases
    <2>5. CASE k = "patch"
        BY <1>1, <2>1, <2>2, <2>3, <2>5, OneMoves DEF Phases
    <2>6. CASE k = "bot"
        BY <1>1, <2>1, <2>2, <2>3, <2>6, OneMoves DEF Phases
    <2> QED
        BY <2>4, <2>5, <2>6 DEF Kinds
<1> QED
    BY <1>1 DEF BeginSome, Kinds, Targets

\* Going on to the next phase changes nothing else.
LEMMA GoesOn ==
    ASSUME CatalogInv, NEW t \in Transactions, NEW pc \in Phases, Goes(t, pc),
           UNCHANGED <<row, areaOf, log, begun>>
    PROVE  /\ DOMAIN txn' = Transactions /\ \A u \in Transactions \ {t} : txn'[u] = txn[u]
           /\ txn'[t].pc = pc /\ txn'[t].kind = txn[t].kind /\ txn'[t].of = txn[t].of
           /\ txn'[t].fields = txn[t].fields /\ txn'[t].seen = txn[t].seen
           /\ begun' \in 0..MaxCalls /\ txn'[t].of \in Targets /\ txn'[t].pc \in Phases
           /\ Fits(t)' <=> Fits(t)
<1>1. /\ DOMAIN txn' = Transactions /\ \A u \in Transactions \ {t} : txn'[u] = txn[u]
      /\ txn'[t].pc = pc /\ txn'[t].kind = txn[t].kind /\ txn'[t].of = txn[t].of
      /\ txn'[t].fields = txn[t].fields /\ txn'[t].seen = txn[t].seen
      /\ begun' \in 0..MaxCalls /\ txn'[t].of \in Targets
    BY DEF Goes, CatalogInv, TypeOK
<1> QED
    BY <1>1 DEF Fits, Merged

LEMMA LockKeeps ==
    ASSUME CatalogInv, NEW t \in Transactions, Lock(t)
    PROVE  CatalogInv'
<1>1. /\ DOMAIN txn' = Transactions /\ \A u \in Transactions \ {t} : txn'[u] = txn[u]
      /\ txn'[t].pc = "locked" /\ txn'[t].kind = "patch" /\ txn'[t].of = txn[t].of
      /\ txn'[t].fields = txn[t].fields /\ txn'[t].seen = row[txn[t].of]
      /\ begun' \in 0..MaxCalls /\ txn'[t].of \in Targets /\ UNCHANGED <<row, areaOf, log>>
    BY DEF Lock, CatalogInv, TypeOK
<1>2. /\ txn[t].fields \in Patches /\ DOMAIN txn[t].fields \subseteq Fields(txn[t].of)
      /\ row[txn[t].of] # NoRow
    BY DEF Lock, CatalogInv, CallsAsked
<1>3. \A u \in Transactions \ {t} : Holds(u) => txn[u].of # txn[t].of
    BY DEF Lock, LockedByOther
<1> QED
    BY <1>1, <1>2, <1>3, OneMoves DEF Phases

LEMMA ValidateKeeps ==
    ASSUME CatalogInv, NEW t \in Transactions, Validate(t)
    PROVE  CatalogInv'
<1>1. UNCHANGED <<row, areaOf, log, begun>> /\ Goes(t, "valid") /\ "valid" \in Phases
    BY DEF Validate, Phases
<1>2. CASE txn[t].kind = "patch"
    <2>1. txn[t].pc = "locked" /\ Fits(t) /\ Holds(t)
        BY <1>2 DEF Validate, Holds
    <2>2. /\ txn[t].fields \in Patches /\ DOMAIN txn[t].fields \subseteq Fields(txn[t].of)
        BY <1>2, <2>1 DEF CatalogInv, CallsAsked
    <2>3. /\ row[txn[t].of] # NoRow /\ txn[t].seen = row[txn[t].of]
          /\ \A u \in Transactions \ {t} : Holds(u) => txn[u].of # txn[t].of
        BY <1>2, <2>1 DEF CatalogInv, RowsHeld, LockedByOther
    <2> QED
        BY <1>1, <1>2, <2>1, <2>2, <2>3, GoesOn, OneMoves
<1>3. CASE txn[t].kind = "create"
    <2>1. txn[t].pc = "begun" /\ Fits(t)
        BY <1>3 DEF Validate
    <2>2. txn[t].of \in Employees /\ txn[t].fields \in Creations
        BY <1>3, <2>1 DEF CatalogInv, CallsAsked
    <2>3. ~Holds(t)'
        BY <1>1, <1>3, GoesOn DEF Holds
    <2> QED
        BY <1>1, <1>3, <2>1, <2>2, <2>3, GoesOn, OneMoves
<1>4. txn[t].pc # "idle" /\ txn[t].kind # "bot"
    BY DEF Validate
<1> QED
    BY <1>2, <1>3, <1>4 DEF CatalogInv, CallsAsked

LEMMA InsertKeeps ==
    ASSUME CatalogInv, NEW t \in Transactions, Insert(t)
    PROVE  CatalogInv'
<1>1. /\ UNCHANGED <<row, areaOf, log, begun>> /\ Goes(t, "saved") /\ "saved" \in Phases
      /\ txn[t].kind = "create" /\ txn[t].pc = "valid" /\ row[txn[t].of] = NoRow
    BY DEF Insert, Phases
<1>2. txn[t].of \in Employees /\ txn[t].fields \in Creations /\ Fits(t)
    BY <1>1 DEF CatalogInv, CallsAsked, StillFits
<1>3. ~Holds(t)'
    BY <1>1, GoesOn DEF Holds
<1>4. \A u \in Transactions \ {t} :
          txn[u].kind = "create" /\ txn[u].pc = "saved" => txn[u].of # txn[t].of
    BY DEF Insert, MayInsert
<1> QED
    BY <1>1, <1>2, <1>3, <1>4, GoesOn, OneMoves

LEMMA NameKeeps ==
    ASSUME CatalogInv, NEW t \in Transactions, ReadName(t) \/ UpdateName(t)
    PROVE  CatalogInv'
<1>1. txn[t].kind = "bot" /\ txn[t].pc # "idle" /\ UNCHANGED <<row, areaOf, log, begun>>
    BY DEF ReadName, UpdateName
<1>2. txn[t].of \in Employees /\ txn[t].fields = Renaming
    BY <1>1 DEF CatalogInv, CallsAsked
<1>3. CASE ReadName(t)
    <2>1. Goes(t, "valid") /\ "valid" \in Phases /\ row[txn[t].of] # NoRow
        BY <1>3 DEF ReadName, Phases, Unnamed
    <2>2. ~Holds(t)'
        BY <1>1, <2>1, GoesOn DEF Holds
    <2> QED
        BY <1>1, <1>2, <2>1, <2>2, GoesOn, OneMoves
<1>4. CASE UpdateName(t)
    <2>1. Goes(t, "saved") /\ "saved" \in Phases /\ txn[t].pc = "valid"
        BY <1>4 DEF UpdateName, Phases
    <2>2. row[txn[t].of] # NoRow
        BY <1>1, <2>1 DEF CatalogInv, RowsHeld
    <2>3. \A u \in Transactions \ {t} : Holds(u) => txn[u].of # txn[t].of
        BY <1>4 DEF UpdateName, LockedByOther
    <2> QED
        BY <1>1, <1>2, <2>1, <2>2, <2>3, GoesOn, OneMoves
<1> QED
    BY <1>3, <1>4

\* The values after a change are of the schemas' types, and those the change names.
LEMMA MergedAccepted ==
    ASSUME CatalogInv, NEW t \in Transactions, txn[t].pc # "idle",
           txn[t].kind = "create" \/ (txn[t].kind = "patch" /\ Holds(t))
    PROVE  /\ DOMAIN Merged(t) = Fields(txn[t].of) /\ Accepted(Merged(t))
           /\ DOMAIN txn[t].fields \subseteq Fields(txn[t].of)
           /\ \A f \in Fields(txn[t].of) :
                  Merged(t)[f] = IF f \in DOMAIN txn[t].fields THEN txn[t].fields[f]
                                 ELSE row[txn[t].of][f]
<1>1. txn[t].of \in Targets
    BY DEF CatalogInv, TypeOK
<1>2. CASE txn[t].kind = "create"
    <2>1. txn[t].fields \in Creations /\ txn[t].of \in Employees
        BY <1>2 DEF CatalogInv, CallsAsked
    <2>2. Merged(t) = txn[t].fields
        BY <1>2 DEF Merged
    <2> QED
        BY <2>1, <2>2, FieldsAssumption
<1>3. CASE txn[t].kind = "patch" /\ Holds(t)
    <2>1. /\ txn[t].fields \in Patches /\ Accepted(txn[t].fields)
          /\ DOMAIN txn[t].fields \subseteq Fields(txn[t].of)
        BY <1>3, FieldsAssumption DEF CatalogInv, CallsAsked
    <2>2. /\ txn[t].seen = row[txn[t].of] /\ DOMAIN row[txn[t].of] = Fields(txn[t].of)
          /\ Accepted(row[txn[t].of])
        BY <1>1, <1>3 DEF CatalogInv, RowsHeld, TypeOK
    <2>3. Merged(t) = Changed(row[txn[t].of], txn[t].fields)
        BY <1>3, <2>2 DEF Merged
    <2>4. Accepted(Merged(t))
        BY <2>1, <2>2, <2>3 DEF Accepted, Changed
    <2> QED
        BY <2>1, <2>2, <2>3, <2>4 DEF Changed
<1> QED
    BY <1>2, <1>3

\* A house that is there stays where it is.
LEMMA HouseKeeps ==
    ASSUME CatalogInv, NEW h \in Houses, NEW a \in Areas, CreateHouse(h, a)
    PROVE  CatalogInv'
<1>1. /\ areaOf[h] = Missing /\ areaOf' \in [Houses -> Areas \cup {Missing}]
      /\ \A g \in Houses : areaOf[g] # Missing => areaOf'[g] = areaOf[g]
      /\ UNCHANGED <<row, log, txn, begun>>
    BY DEF CreateHouse, CatalogInv, TypeOK
<1>2. TypeOK'
    BY <1>1 DEF CatalogInv, TypeOK
<1>3. ScopesFit'
    <2> SUFFICES ASSUME NEW x \in Employees, row[x] # NoRow, NEW g \in row[x]["houses"]
                 PROVE  areaOf'[g] # Missing /\ row[x]["area"] \in {AnyArea, areaOf'[g]}
        BY <1>1 DEF ScopesFit
    <2>1. areaOf[g] # Missing /\ row[x]["area"] \in {AnyArea, areaOf[g]}
        BY DEF CatalogInv, ScopesFit
    <2>2. g \in Houses
        <3>1. DOMAIN row[x] = Fields(x) /\ Accepted(row[x]) /\ x \notin Roles
            BY FieldsAssumption DEF CatalogInv, TypeOK, Targets
        <3> QED
            BY <3>1 DEF Accepted, Fields
    <2> QED
        BY <1>1, <2>1, <2>2
<1>4. ASSUME NEW t \in Transactions, Fits(t),
             \/ txn[t].kind = "create" /\ txn[t].pc \in {"valid", "saved"}
             \/ txn[t].kind = "patch" /\ txn[t].pc = "valid"
      PROVE  Fits(t)'
    <2> SUFFICES ASSUME txn[t].of \in Employees, NEW g \in Merged(t)["houses"]
                 PROVE  areaOf'[g] # Missing /\ Merged(t)["area"] \in {AnyArea, areaOf'[g]}
        BY <1>1 DEF Fits, Merged
    <2>1. areaOf[g] # Missing /\ Merged(t)["area"] \in {AnyArea, areaOf[g]}
        BY <1>4 DEF Fits
    <2>2. g \in Houses
        <3>1. DOMAIN Merged(t) = Fields(txn[t].of) /\ Accepted(Merged(t))
            BY <1>4, MergedAccepted DEF Holds
        <3>2. txn[t].of \notin Roles
            BY FieldsAssumption
        <3> QED
            BY <3>1, <3>2 DEF Accepted, Fields
    <2> QED
        BY <1>1, <2>1, <2>2
<1>5. StillFits'
    BY <1>1, <1>4 DEF CatalogInv, StillFits
<1>6. ASSUME NEW t \in Transactions PROVE Holds(t)' <=> Holds(t)
    BY <1>1 DEF Holds
<1>7. RowsHeld' /\ RowsInserted'
    BY <1>1, <1>6 DEF CatalogInv, RowsHeld, RowsInserted, LockedByOther, MayInsert
<1>8. CallsAsked' /\ LoggedRowsExist' /\ CreatedOnce' /\ PatchesCompose'
    BY <1>1 DEF CatalogInv, CallsAsked, LoggedRowsExist, CreatedOnce, PatchesCompose
<1> QED
    BY <1>2, <1>3, <1>5, <1>7, <1>8 DEF CatalogInv

\* What a commit makes of the row.
LEMMA CommitWrites ==
    ASSUME CatalogInv, NEW t \in Transactions, Commit(t)
    PROVE  /\ DOMAIN Written(t) = Fields(txn[t].of) /\ Accepted(Written(t))
           /\ Written(t) # NoRow
           /\ DOMAIN txn[t].fields \subseteq Fields(txn[t].of)
           /\ \A f \in Fields(txn[t].of) :
                  Written(t)[f] = IF f \in DOMAIN txn[t].fields THEN txn[t].fields[f]
                                  ELSE row[txn[t].of][f]
           /\ txn[t].fields \in Creations \cup Patches \cup {Renaming} /\ txn[t].kind \in Kinds
           /\ txn[t].kind = "create" => row[txn[t].of] = NoRow /\ MayInsert(t)
           /\ txn[t].kind # "create" => Holds(t) /\ row[txn[t].of] # NoRow /\ ~LockedByOther(t)
           /\ txn[t].of \in Employees =>
                  \A h \in Written(t)["houses"] :
                      areaOf[h] # Missing /\ Written(t)["area"] \in {AnyArea, areaOf[h]}
<1> DEFINE x == txn[t].of
           w == Written(t)
<1>1. x \in Targets /\ txn[t].pc # "idle" /\ Fields(x) # {}
    BY SomeColumns DEF CatalogInv, TypeOK, Commit
<1>2. CASE txn[t].kind = "create"
    <2>1. /\ txn[t].pc = "saved" /\ txn[t].fields \in Creations /\ txn[t].of \in Employees
          /\ row[x] = NoRow /\ MayInsert(t) /\ Fits(t)
        BY <1>1, <1>2 DEF Commit, CatalogInv, CallsAsked, RowsInserted, StillFits
    <2>2. w = Merged(t) /\ w = txn[t].fields
        BY <1>2 DEF Written, Merged
    <2>3. /\ DOMAIN w = Fields(x) /\ Accepted(w) /\ DOMAIN txn[t].fields = Fields(x)
        BY <1>1, <1>2, <2>2, MergedAccepted
    <2>4. w # NoRow
        BY <1>1, <2>3, NoColumns
    <2>5. \A h \in w["houses"] : areaOf[h] # Missing /\ w["area"] \in {AnyArea, areaOf[h]}
        BY <2>1, <2>2 DEF Fits
    <2> QED
        BY <1>2, <2>1, <2>2, <2>3, <2>4, <2>5 DEF CatalogInv, Kinds
<1>3. CASE txn[t].kind = "patch"
    <2>1. /\ txn[t].pc = "valid" /\ txn[t].fields \in Patches /\ Fits(t) /\ Holds(t)
        BY <1>1, <1>3 DEF Commit, CatalogInv, CallsAsked, StillFits, Holds
    <2>2. /\ row[x] # NoRow /\ txn[t].seen = row[x] /\ ~LockedByOther(t)
          /\ DOMAIN row[x] = Fields(x)
        BY <1>1, <1>3, <2>1 DEF CatalogInv, RowsHeld, TypeOK
    <2>3. /\ DOMAIN Merged(t) = Fields(x) /\ Accepted(Merged(t))
          /\ DOMAIN txn[t].fields \subseteq Fields(x)
          /\ \A f \in Fields(x) : Merged(t)[f] = IF f \in DOMAIN txn[t].fields
                                                   THEN txn[t].fields[f] ELSE row[x][f]
        BY <1>1, <1>3, <2>1, MergedAccepted
    <2>4. w = [f \in DOMAIN row[x] |-> IF Merged(t)[f] # txn[t].seen[f] THEN Merged(t)[f]
                                       ELSE row[x][f]]
        BY <1>3 DEF Written
    <2>5. DOMAIN w = Fields(x) /\ \A f \in Fields(x) : w[f] = Merged(t)[f]
        BY <2>2, <2>4
    <2>6. Accepted(w)
        BY <2>3, <2>5 DEF Accepted
    <2>7. w # NoRow
        BY <1>1, <2>5, NoColumns
    <2>8. ASSUME x \in Employees, NEW h \in w["houses"]
          PROVE  areaOf[h] # Missing /\ w["area"] \in {AnyArea, areaOf[h]}
        <3>1. w["houses"] = Merged(t)["houses"] /\ w["area"] = Merged(t)["area"]
            BY <2>5, <2>8, FieldsAssumption DEF Fields
        <3> QED
            BY <2>1, <2>8, <3>1 DEF Fits
    <2> QED
        BY <1>3, <2>1, <2>2, <2>3, <2>5, <2>6, <2>7, <2>8 DEF Kinds
<1>4. CASE txn[t].kind = "bot"
    <2>1. /\ txn[t].pc = "saved" /\ x \in Employees /\ txn[t].fields = Renaming /\ Holds(t)
        BY <1>1, <1>4 DEF Commit, CatalogInv, CallsAsked, Holds
    <2>2. /\ row[x] # NoRow /\ DOMAIN row[x] = Fields(x) /\ ~LockedByOther(t)
          /\ Accepted(row[x])
        BY <1>1, <2>1 DEF CatalogInv, RowsHeld, TypeOK
    <2>3. w = Changed(row[x], Renaming)
        BY <1>4, <2>1 DEF Written
    <2>4. DOMAIN Renaming = {"name"} /\ x \notin Roles /\ {"name"} \subseteq Fields(x)
        BY <2>1, FieldsAssumption DEF Renaming, Fields
    <2>5. /\ DOMAIN w = Fields(x)
          /\ \A f \in Fields(x) : w[f] = IF f \in DOMAIN Renaming THEN Renaming[f] ELSE row[x][f]
        BY <2>2, <2>3 DEF Changed
    <2>6. \A f \in Fields(x) \ {"name"} : w[f] = row[x][f]
        BY <2>4, <2>5
    <2>7. Accepted(w)
        BY <2>2, <2>5, <2>6 DEF Accepted
    <2>8. w # NoRow
        BY <1>1, <2>5, NoColumns
    <2>9. ASSUME NEW h \in w["houses"]
          PROVE  areaOf[h] # Missing /\ w["area"] \in {AnyArea, areaOf[h]}
        <3>1. w["houses"] = row[x]["houses"] /\ w["area"] = row[x]["area"]
            BY <2>4, <2>6 DEF Fields
        <3> QED
            BY <2>1, <2>2, <2>9, <3>1 DEF CatalogInv, ScopesFit
    <2> QED
        BY <1>4, <2>1, <2>2, <2>4, <2>5, <2>7, <2>8, <2>9 DEF Kinds
<1> QED
    BY <1>1, <1>2, <1>3, <1>4 DEF CatalogInv, CallsAsked

LEMMA CommitKeeps ==
    ASSUME CatalogInv, NEW t \in Transactions, Commit(t)
    PROVE  CatalogInv'
<1> DEFINE x == txn[t].of
           w == Written(t)
           fs == txn[t].fields
           c == [of |-> x, kind |-> txn[t].kind, fields |-> fs]
           n == Len(log)
<1>1. /\ x \in Targets /\ DOMAIN row = Targets /\ log \in Seq(Changes)
      /\ DOMAIN txn = Transactions
    BY DEF CatalogInv, TypeOK, Changes
<1>2. /\ DOMAIN w = Fields(x) /\ Accepted(w) /\ w # NoRow /\ DOMAIN fs \subseteq Fields(x)
      /\ \A f \in Fields(x) : w[f] = IF f \in DOMAIN fs THEN fs[f] ELSE row[x][f]
      /\ fs \in Creations \cup Patches \cup {Renaming} /\ txn[t].kind \in Kinds
      /\ txn[t].kind = "create" => row[x] = NoRow /\ MayInsert(t)
      /\ txn[t].kind # "create" => row[x] # NoRow /\ ~LockedByOther(t)
      /\ x \in Employees => \A h \in w["houses"] :
                                areaOf[h] # Missing /\ w["area"] \in {AnyArea, areaOf[h]}
    BY CommitWrites
<1>3. /\ row' = [row EXCEPT ![x] = w] /\ log' = Append(log, c)
      /\ txn' = [txn EXCEPT ![t] = Idle] /\ UNCHANGED <<areaOf, begun>>
    BY DEF Commit
<1>4. /\ DOMAIN row' = Targets /\ row'[x] = w /\ \A y \in Targets \ {x} : row'[y] = row[y]
      /\ DOMAIN txn' = Transactions /\ txn'[t] = Idle
      /\ \A u \in Transactions \ {t} : txn'[u] = txn[u]
    BY <1>1, <1>3
<1>5. c \in Changes /\ c.of = x /\ c.kind = txn[t].kind /\ c.fields = fs
    BY <1>1, <1>2 DEF Changes
<1> HIDE DEF c
<1>6. /\ n \in Nat /\ DOMAIN log = 1..n /\ log' \in Seq(Changes)
      /\ DOMAIN log' = 1..(n + 1) /\ log'[n + 1] = c /\ \A i \in 1..n : log'[i] = log[i]
    BY <1>1, <1>3, <1>5, LenProperties, AppendProperties
<1>7. \A i \in 1..n : log[i] \in Changes /\ log[i].of \in Targets
    <2>1. \A i \in 1..n : log[i] \in Changes
        BY <1>1, <1>6, ElementOfSeq
    <2> QED
        BY <2>1 DEF Changes
<1>8. row[x] = NoRow => \A i \in 1..n : log[i].of # x
    BY <1>6 DEF CatalogInv, LoggedRowsExist
<1> HIDE DEF x, w, fs, n
<1>9. TypeOK'
    <2>1. \A y \in Targets : row'[y] # NoRow => DOMAIN row'[y] = Fields(y) /\ Accepted(row'[y])
        BY <1>1, <1>2, <1>4 DEF CatalogInv, TypeOK
    <2>2. \A u \in Transactions : txn'[u].pc \in Phases /\ txn'[u].of \in Targets
        BY <1>4, IdleType DEF CatalogInv, TypeOK, Phases
    <2> QED
        BY <1>3, <1>4, <1>6, <2>1, <2>2 DEF CatalogInv, TypeOK, Changes
<1>10. ScopesFit'
    <2> SUFFICES ASSUME NEW y \in Employees, row'[y] # NoRow, NEW h \in row'[y]["houses"]
                 PROVE  areaOf[h] # Missing /\ row'[y]["area"] \in {AnyArea, areaOf[h]}
        BY <1>3 DEF ScopesFit
    <2>1. CASE y = x
        BY <1>2, <1>4, <2>1
    <2>2. CASE y # x
        BY <1>4, <2>2 DEF CatalogInv, ScopesFit, Targets
    <2> QED
        BY <2>1, <2>2
<1>11. CreatedOnce'
    <2> SUFFICES ASSUME NEW i \in 1..(n + 1), NEW j \in 1..(n + 1),
                        log'[i].kind = "create", log'[j].of = log'[i].of
                 PROVE  i <= j
        BY <1>6 DEF CreatedOnce
    <2>1. CASE i = n + 1
        <3>1. row[x] = NoRow /\ log'[i].of = x
            BY <1>2, <1>5, <1>6, <2>1
        <3>2. \A k \in 1..n : log'[k].of # x
            BY <1>6, <1>8, <3>1
        <3> QED
            BY <1>6, <2>1, <3>1, <3>2
    <2>2. CASE i \in 1..n
        BY <1>6, <2>2 DEF CatalogInv, CreatedOnce
    <2> QED
        BY <1>6, <2>1, <2>2
<1>12. PatchesCompose'
    <2> SUFFICES ASSUME NEW y \in Targets, row'[y] # NoRow, NEW f \in DOMAIN row'[y],
                        NEW i \in 1..(n + 1), log'[i].of = y, f \in DOMAIN log'[i].fields,
                        \A j \in 1..(n + 1) :
                            j > i /\ log'[j].of = y => f \notin DOMAIN log'[j].fields
                 PROVE  row'[y][f] = log'[i].fields[f]
        BY <1>6 DEF PatchesCompose
    <2>1. CASE i = n + 1
        BY <1>2, <1>4, <1>5, <1>6, <2>1
    <2>2. CASE i \in 1..n
        <3>1. log'[i] = log[i] /\ i \in DOMAIN log
            BY <1>6, <2>2
        <3>2. \A j \in DOMAIN log : j > i /\ log[j].of = y => f \notin DOMAIN log[j].fields
            BY <1>6
        <3>3. row[y] # NoRow
            BY <3>1 DEF CatalogInv, LoggedRowsExist
        <3>4. f \in DOMAIN row[y] => row[y][f] = log[i].fields[f]
            BY <3>1, <3>2, <3>3 DEF CatalogInv, PatchesCompose
        <3>5. CASE y = x
            <4>1. f \notin DOMAIN fs
                BY <1>5, <1>6, <2>2, <3>5
            <4>2. f \in Fields(x) /\ row'[y][f] = row[y][f]
                BY <1>2, <1>4, <3>5, <4>1
            <4>3. DOMAIN row[y] = Fields(x)
                BY <3>3, <3>5 DEF CatalogInv, TypeOK
            <4> QED
                BY <3>1, <3>4, <4>2, <4>3
        <3>6. CASE y # x
            BY <1>4, <3>1, <3>4, <3>6
        <3> QED
            BY <3>5, <3>6
    <2> QED
        BY <1>6, <2>1, <2>2
<1>13. CallsAsked' /\ LoggedRowsExist' /\ StillFits'
    <2>1. CallsAsked'
        BY <1>4, IdleType DEF CatalogInv, CallsAsked
    <2>2. LoggedRowsExist'
        <3>1. \A i \in 1..n : row'[log'[i].of] # NoRow
            BY <1>2, <1>4, <1>6, <1>7 DEF CatalogInv, LoggedRowsExist
        <3>2. row'[log'[n + 1].of] # NoRow
            BY <1>2, <1>4, <1>5, <1>6
        <3> QED
            BY <1>6, <3>1, <3>2 DEF LoggedRowsExist
    <2>3. \A u \in Transactions \ {t} : Fits(u)' <=> Fits(u)
        BY <1>3, <1>4 DEF Fits, Merged
    <2>4. StillFits'
        BY <1>4, <2>3, IdleType DEF CatalogInv, StillFits
    <2> QED
        BY <2>1, <2>2, <2>4
<1>14. ~Holds(t)' /\ \A u \in Transactions \ {t} : Holds(u)' <=> Holds(u)
    BY <1>4, IdleType DEF Holds
<1>15. \A u \in Transactions \ {t} : Holds(u) => txn[u].of # x
    BY <1>2 DEF LockedByOther, CatalogInv, RowsHeld, x
<1>16. RowsHeld'
    <2> SUFFICES ASSUME NEW u \in Transactions
                 PROVE  /\ Holds(u)' => ~LockedByOther(u)' /\ row'[txn'[u].of] # NoRow
                        /\ Holds(u)' /\ txn'[u].kind = "patch" => txn'[u].seen = row'[txn'[u].of]
                        /\ txn'[u].kind = "bot" /\ txn'[u].pc = "valid" => row'[txn'[u].of] # NoRow
        BY DEF RowsHeld
    <2>1. CASE u = t
        BY <1>4, <1>14, <2>1, IdleType
    <2>2. CASE u # t
        <3>1. txn'[u] = txn[u] /\ txn[u].of \in Targets
            BY <1>4, <2>2 DEF CatalogInv, TypeOK
        <3>2. ~LockedByOther(u) => ~LockedByOther(u)'
            BY <1>4, <1>14, <3>1 DEF LockedByOther
        <3>3. Holds(u)' => row'[txn[u].of] = row[txn[u].of]
            BY <1>4, <1>14, <1>15, <2>2, <3>1
        <3>4. row[txn[u].of] # NoRow => row'[txn[u].of] # NoRow
            BY <1>2, <1>4, <3>1
        <3> QED
            BY <1>14, <2>2, <3>1, <3>2, <3>3, <3>4 DEF CatalogInv, RowsHeld
    <2> QED
        BY <2>1, <2>2
<1>17. RowsInserted'
    <2> SUFFICES ASSUME NEW u \in Transactions \ {t}, txn[u].kind = "create", txn[u].pc = "saved"
                 PROVE  MayInsert(u)' /\ row'[txn[u].of] = NoRow
        BY <1>4, IdleType DEF RowsInserted
    <2>1. MayInsert(u) /\ row[txn[u].of] = NoRow /\ txn[u].of \in Targets
        BY DEF CatalogInv, RowsInserted, TypeOK
    <2>2. txn[u].of # x
        <3>1. CASE txn[t].kind = "create"
            BY <1>2, <3>1 DEF MayInsert, x
        <3>2. CASE txn[t].kind # "create"
            BY <1>2, <2>1, <3>2
        <3> QED
            BY <3>1, <3>2
    <2>3. MayInsert(u)'
        BY <1>4, <2>1, IdleType DEF MayInsert
    <2> QED
        BY <1>4, <2>1, <2>2, <2>3
<1> QED
    BY <1>9, <1>10, <1>11, <1>12, <1>13, <1>16, <1>17 DEF CatalogInv

LEMMA CatalogStep ==
    ASSUME CatalogInv, [Next]_vars
    PROVE  CatalogInv'
<1>1. CASE \E h \in Houses, a \in Areas : CreateHouse(h, a)
    BY <1>1, HouseKeeps
<1>2. ASSUME NEW t \in Transactions, BeginSome(t) \/ Step(t) \/ Abort(t)
      PROVE  CatalogInv'
    <2>1. CASE BeginSome(t)
        BY <2>1, BeginKeeps
    <2>2. CASE Lock(t) \/ Validate(t) \/ Insert(t)
        BY <2>2, LockKeeps, ValidateKeeps, InsertKeeps
    <2>3. CASE ReadName(t) \/ UpdateName(t)
        BY <2>3, NameKeeps
    <2>4. CASE Commit(t)
        BY <2>4, CommitKeeps
    <2>5. CASE Refuse(t) \/ Abort(t)
        BY <2>5, EndsQuietly DEF Refuse, Abort
    <2> QED
        BY <1>2, <2>1, <2>2, <2>3, <2>4, <2>5 DEF Step
<1>3. CASE UNCHANGED vars
    BY <1>3 DEF vars, CatalogInv, TypeOK, ScopesFit, CreatedOnce, PatchesCompose, CallsAsked,
                RowsHeld, RowsInserted, StillFits, LoggedRowsExist, Holds, LockedByOther,
                MayInsert, Fits, Merged
<1> QED
    BY <1>1, <1>2, <1>3 DEF Next

LEMMA CatalogInvariant == Spec => []CatalogInv
<1>1. Init => CatalogInv
    <2> SUFFICES ASSUME Init PROVE CatalogInv
        OBVIOUS
    <2>1. /\ DOMAIN log = {} /\ \A t \in Transactions : txn[t] = Idle
          /\ DOMAIN txn = Transactions
        BY DEF Init
    <2>2. \A x \in Employees : x \notin Roles /\ row[x] = NoRow
        BY FieldsAssumption DEF Init, Targets
    <2>3. TypeOK
        <3>1. \A x \in Roles : DOMAIN row[x] = Fields(x) /\ Accepted(row[x])
            <4>1. \A x \in Roles : DOMAIN row[x] = {"permissions"} /\ Fields(x) = {"permissions"}
                BY FieldsAssumption DEF Init, Targets, Fields
            <4> QED
                BY <4>1 DEF Accepted
        <3>2. \A x \in Targets : row[x] # NoRow => DOMAIN row[x] = Fields(x) /\ Accepted(row[x])
            BY <2>2, <3>1 DEF Targets
        <3> QED
            BY <2>1, <3>2, IdleType, FieldsAssumption DEF Init, TypeOK, Phases
    <2>4. ScopesFit /\ CreatedOnce /\ PatchesCompose /\ LoggedRowsExist
        BY <2>1, <2>2 DEF ScopesFit, CreatedOnce, PatchesCompose, LoggedRowsExist
    <2>5. CallsAsked /\ RowsHeld /\ RowsInserted /\ StillFits
        BY <2>1, IdleType DEF CallsAsked, RowsHeld, RowsInserted, StillFits, Holds
    <2> QED
        BY <2>3, <2>4, <2>5 DEF CatalogInv
<1>2. CatalogInv /\ [Next]_vars => CatalogInv'
    BY CatalogStep
<1> QED
    BY <1>1, <1>2, PTL DEF Spec

\* No change of the owner is lost: whatever the changes and however they and the bot's
\* renamings interleave, a field has the value of the last committed change that named
\* it (update_employee and update_role in src/app/crm/catalog.py).
THEOREM PatchesAlwaysCompose == Spec => []PatchesCompose
<1>1. CatalogInv => PatchesCompose
    BY DEF CatalogInv
<1> QED
    BY CatalogInvariant, <1>1, PTL

\* An employee's houses exist and lie in the employee's area, and a MAX user has one
\* membership, for any number of concurrent calls (validate_employee_scope in
\* src/app/crm/catalog_service.py, the unique key of employees).
THEOREM RowsAlwaysConsistent == Spec => []RowsConsistent
<1>1. CatalogInv => RowsConsistent
    BY DEF CatalogInv, RowsConsistent
<1> QED
    BY CatalogInvariant, <1>1, PTL
=============================================================================
