---------------------------- MODULE CatalogAccess ----------------------------
(***************************************************************************)
(* The owner's catalog (src/app/crm/catalog.py, catalog_service.py):       *)
(* employees are created and employees and roles changed field by field    *)
(* while the bot gives an employee the name MAX knows (native_actor in     *)
(* src/app/bot/identity.py).  All of one organization; one PostgreSQL      *)
(* transaction each, at READ COMMITTED.                                    *)
(*                                                                         *)
(* The ORM writes the columns whose value differs from the one it read.    *)
(***************************************************************************)
EXTENDS Naturals, Sequences

CONSTANTS
    Employees,      \* by MAX id, unique in the organization
    Roles,
    Houses, Areas,
    AnyArea,        \* Employee.area_id is NULL
    Missing,        \* the area of a house that does not exist
    Placeholder,    \* the display_name "MAX <id>"
    MaxName,        \* the name MAX sends with an event
    Creations,      \* the fields a creation may give
    Patches,        \* the fields a PATCH may name: partial functions
    RoleValues,     \* a role's fields before the first change
    Transactions,
    MaxCalls        \* bound: calls begun

VARIABLES
    row,        \* employees and roles rows
    areaOf,     \* House.area_id
    log,        \* the changes committed
    txn,
    begun

vars == <<row, areaOf, log, txn, begun>>

Targets == Employees \cup Roles

\* The columns of a row that a PATCH may change and that matter here.
Fields(x) ==
    IF x \in Roles THEN {"permissions"} ELSE {"name", "area", "houses", "role"}

\* What a change may say: with an area or role that does not exist it is refused
\* at once (same_organization), and is left out.
Accepted(p) ==
    /\ "area" \in DOMAIN p => p["area"] \in Areas \cup {AnyArea}
    /\ "houses" \in DOMAIN p => p["houses"] \in SUBSET Houses
    /\ "role" \in DOMAIN p => p["role"] \in Roles

ASSUME FieldsAssumption ==
    /\ Employees # {} /\ Employees \cap Roles = {}
    /\ \A p \in Creations \cup Patches : Accepted(p)
    /\ \A c \in Creations, x \in Employees : DOMAIN c = Fields(x)
    /\ \A x \in Roles : DOMAIN RoleValues[x] = Fields(x)
    /\ Missing \notin Areas \cup {AnyArea}
    /\ MaxCalls \in Nat

NoRow == <<>>

\* A row with the fields of p in place of its own.
Changed(r, p) == [f \in DOMAIN r |-> IF f \in DOMAIN p THEN p[f] ELSE r[f]]

Renaming == [f \in {"name"} |-> MaxName]

Kinds == {"create", "patch", "bot"}
Phases == {"idle", "begun", "locked", "valid", "saved"}

TypeOK ==
    /\ DOMAIN row = Targets
    /\ \A x \in Targets : row[x] # NoRow => DOMAIN row[x] = Fields(x) /\ Accepted(row[x])
    /\ areaOf \in [Houses -> Areas \cup {Missing}]
    /\ log \in Seq([of : Targets, kind : Kinds,
                    fields : Creations \cup Patches \cup {Renaming}])
    /\ DOMAIN txn = Transactions
    /\ \A t \in Transactions : txn[t].pc \in Phases /\ txn[t].of \in Targets
    /\ begun \in 0..MaxCalls

Idle == [pc |-> "idle", kind |-> "bot", of |-> CHOOSE x \in Targets : TRUE,
         fields |-> NoRow, seen |-> NoRow]

Init ==
    /\ row = [x \in Targets |-> IF x \in Roles THEN RoleValues[x] ELSE NoRow]
    /\ areaOf \in [Houses -> Areas \cup {Missing}]
    /\ log = <<>>
    /\ txn = [t \in Transactions |-> Idle]
    /\ begun = 0

Goes(t, pc) == txn' = [txn EXCEPT ![t].pc = pc]

-----------------------------------------------------------------------------
CreateHouse(h, a) ==
    /\ areaOf[h] = Missing
    /\ areaOf' = [areaOf EXCEPT ![h] = a]
    /\ UNCHANGED <<row, log, txn, begun>>

Begin(t, k, x, fields) ==
    /\ txn[t].pc = "idle"
    /\ begun < MaxCalls
    /\ txn' = [txn EXCEPT ![t] = [Idle EXCEPT !.pc = "begun", !.kind = k, !.of = x,
                                              !.fields = fields]]
    /\ begun' = begun + 1
    /\ UNCHANGED <<row, areaOf, log>>

\* POST /employees (or setup.initialize), PATCH /employees and /roles, and an
\* event of a listed user at the webhook.
BeginSome(t) ==
    \/ \E x \in Employees, c \in Creations : Begin(t, "create", x, c)
    \/ \E x \in Targets, p \in Patches : DOMAIN p \subseteq Fields(x) /\ Begin(t, "patch", x, p)
    \/ \E x \in Employees : Begin(t, "bot", x, Renaming)

\* Mutant: the row is read without FOR UPDATE.
NeverLocked(t) == FALSE

\* The transaction has its row FOR UPDATE, or has updated it.
Holds(t) ==
    \/ txn[t].kind = "patch" /\ txn[t].pc \in {"locked", "valid"}
    \/ txn[t].kind = "bot" /\ txn[t].pc = "saved"

LockedByOther(t) == \E u \in Transactions \ {t} : txn[u].of = txn[t].of /\ Holds(u)

\* SELECT ... FOR UPDATE.
Lock(t) ==
    /\ txn[t].kind = "patch" /\ txn[t].pc = "begun"
    /\ row[txn[t].of] # NoRow
    /\ ~LockedByOther(t)
    /\ txn' = [txn EXCEPT ![t].pc = "locked", ![t].seen = row[txn[t].of]]
    /\ UNCHANGED <<row, areaOf, log, begun>>

\* The values after the change: those named, then those read.
Merged(t) ==
    IF txn[t].kind = "create" THEN txn[t].fields ELSE Changed(txn[t].seen, txn[t].fields)

\* validate_employee_scope: the houses exist, and in the employee's area if
\* there is one.
Fits(t) ==
    txn[t].of \in Employees =>
        \A h \in Merged(t)["houses"] :
            /\ areaOf[h] # Missing
            /\ Merged(t)["area"] \in {AnyArea, areaOf[h]}

Validate(t) ==
    /\ txn[t].pc = IF txn[t].kind = "patch" THEN "locked" ELSE "begun"
    /\ txn[t].kind # "bot"
    /\ Fits(t)
    /\ Goes(t, "valid")
    /\ UNCHANGED <<row, areaOf, log, begun>>

\* Mutant: the unique key does not see a row before its commit.
InsertsAlone(t) == TRUE

\* The insertion waits for another one of the same MAX id.
MayInsert(t) ==
    \A u \in Transactions \ {t} :
        txn[u].kind = "create" /\ txn[u].pc = "saved" => txn[u].of # txn[t].of

Insert(t) ==
    /\ txn[t].kind = "create" /\ txn[t].pc = "valid"
    /\ MayInsert(t)
    /\ row[txn[t].of] = NoRow
    /\ Goes(t, "saved")
    /\ UNCHANGED <<row, areaOf, log, begun>>

\* The bot finds an employee with a placeholder for a name.
Unnamed(x) == row[x] # NoRow /\ row[x]["name"] = Placeholder

\* native_actor selects the employee by the placeholder, without a lock ...
ReadName(t) ==
    /\ txn[t].kind = "bot" /\ txn[t].pc = "begun"
    /\ Unnamed(txn[t].of)
    /\ Goes(t, "valid")
    /\ UNCHANGED <<row, areaOf, log, begun>>

\* ... and the next query flushes the new name by the row's id alone.
UpdateName(t) ==
    /\ txn[t].kind = "bot" /\ txn[t].pc = "valid"
    /\ ~LockedByOther(t)
    /\ Goes(t, "saved")
    /\ UNCHANGED <<row, areaOf, log, begun>>

\* What the commit makes of the row: a new row, or the columns that differ from
\* what the transaction read.
Written(t) ==
    LET old == row[txn[t].of] IN
    CASE txn[t].kind = "create" -> txn[t].fields
      [] txn[t].kind = "bot" -> Changed(old, txn[t].fields)
      [] OTHER -> [f \in DOMAIN old |->
                      IF Merged(t)[f] # txn[t].seen[f] THEN Merged(t)[f] ELSE old[f]]

Commit(t) ==
    LET x == txn[t].of IN
    /\ txn[t].pc = IF txn[t].kind = "patch" THEN "valid" ELSE "saved"
    /\ row' = [row EXCEPT ![x] = Written(t)]
    /\ log' = Append(log, [of |-> x, kind |-> txn[t].kind, fields |-> txn[t].fields])
    /\ txn' = [txn EXCEPT ![t] = Idle]
    /\ UNCHANGED <<areaOf, begun>>

Refuse(t) ==
    /\ \/ txn[t].kind = "patch" /\ txn[t].pc = "begun" /\ row[txn[t].of] = NoRow
       \/ txn[t].kind = "patch" /\ txn[t].pc = "locked" /\ ~Fits(t)
       \/ txn[t].kind = "create" /\ txn[t].pc = "begun" /\ ~Fits(t)
       \/ /\ txn[t].kind = "create" /\ txn[t].pc = "valid"
          /\ MayInsert(t) /\ row[txn[t].of] # NoRow
       \/ txn[t].kind = "bot" /\ txn[t].pc = "begun" /\ ~Unnamed(txn[t].of)
    /\ txn' = [txn EXCEPT ![t] = Idle]
    /\ UNCHANGED <<row, areaOf, log, begun>>

\* A database error, a failing webhook or a dead process.
Abort(t) ==
    /\ txn[t].pc # "idle"
    /\ txn' = [txn EXCEPT ![t] = Idle]
    /\ UNCHANGED <<row, areaOf, log, begun>>

-----------------------------------------------------------------------------
Step(t) ==
    Lock(t) \/ Validate(t) \/ Insert(t) \/ ReadName(t) \/ UpdateName(t) \/ Commit(t) \/ Refuse(t)

Next ==
    \/ \E h \in Houses, a \in Areas : CreateHouse(h, a)
    \/ \E t \in Transactions : BeginSome(t) \/ Step(t) \/ Abort(t)

Spec == Init /\ [][Next]_vars

-----------------------------------------------------------------------------
(* Properties.                                                             *)

\* An employee's houses exist and lie in the employee's area, although one PATCH
\* may change the area while another one changes the houses: each is validated
\* against the row it has locked (catalog.py:313-327, catalog_service.py:70-88).
ScopesFit ==
    \A x \in Employees : row[x] # NoRow =>
        \A h \in row[x]["houses"] :
            /\ areaOf[h] # Missing
            /\ row[x]["area"] \in {AnyArea, areaOf[h]}

\* No PATCH is lost: a field has the value of the last committed change that
\* named it, also when the value it named was the one it had read
\* (docs/crm-intake.md:90-95).
PatchesCompose ==
    \A x \in Targets : row[x] # NoRow => \A f \in DOMAIN row[x] :
        \A i \in DOMAIN log :
            /\ log[i].of = x /\ f \in DOMAIN log[i].fields
            /\ \A j \in DOMAIN log : j > i /\ log[j].of = x => f \notin DOMAIN log[j].fields
            => row[x][f] = log[i].fields[f]

\* A MAX user has one membership in an organization: the second of two creations
\* that race is refused, and a creation replaces nothing (models/crm.py:125).
CreatedOnce ==
    \A i, j \in DOMAIN log : log[i].kind = "create" /\ log[j].of = log[i].of => i <= j

\* The rows hang together although two calls at a time read and write them.
RowsConsistent == TypeOK /\ ScopesFit /\ CreatedOnce

-----------------------------------------------------------------------------
(* Why they hold.                                                          *)

\* What the calls are.
CallsAsked ==
    \A t \in Transactions : txn[t].pc # "idle" =>
        CASE txn[t].kind = "create" -> /\ txn[t].pc # "locked" /\ txn[t].of \in Employees
                                       /\ txn[t].fields \in Creations
          [] txn[t].kind = "patch" -> /\ txn[t].pc # "saved" /\ txn[t].fields \in Patches
                                      /\ DOMAIN txn[t].fields \subseteq Fields(txn[t].of)
          [] txn[t].kind = "bot" -> /\ txn[t].pc # "locked" /\ txn[t].of \in Employees
                                    /\ txn[t].fields = Renaming
          [] OTHER -> FALSE

\* One at a time has a row, and a PATCH has read it as it is.
RowsHeld ==
    \A t \in Transactions :
        /\ Holds(t) => ~LockedByOther(t) /\ row[txn[t].of] # NoRow
        /\ Holds(t) /\ txn[t].kind = "patch" => txn[t].seen = row[txn[t].of]
        /\ txn[t].kind = "bot" /\ txn[t].pc = "valid" => row[txn[t].of] # NoRow

\* One at a time has inserted a row, where there is none.
RowsInserted ==
    \A t \in Transactions :
        txn[t].kind = "create" /\ txn[t].pc = "saved" => MayInsert(t) /\ row[txn[t].of] = NoRow

\* Houses keep their areas: what was validated stays so.
StillFits ==
    \A t \in Transactions :
        \/ txn[t].kind = "create" /\ txn[t].pc \in {"valid", "saved"}
        \/ txn[t].kind = "patch" /\ txn[t].pc = "valid"
        => Fits(t)

LoggedRowsExist == \A i \in DOMAIN log : row[log[i].of] # NoRow
=============================================================================
