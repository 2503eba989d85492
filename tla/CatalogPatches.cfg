\* An employee is created and four changes of the employee and a role race.
SPECIFICATION Spec
CONSTANTS
    Employees = {e1}
    Roles = {r1}
    Houses = {h1, h2}
    Areas = {a1, a2}
    AnyArea = AnyArea
    Missing = Missing
    Placeholder = Placeholder
    MaxName = MaxName
    r1 = r1
    h1 = h1
    h2 = h2
    a1 = a1
    a2 = a2
    chosen = chosen
    RoleValues <- MCRoleValues
    Creations <- MCCreations
    Patches <- MCPatches
    Transactions = {t1, t2}
    MaxCalls = 5
SYMMETRY Symmetry
INVARIANTS PatchesCompose RowsConsistent
CHECK_DEADLOCK FALSE
