\* Two transactions of an owner and an employee, who take two requests from each other
\* and share a status code used for the first time; no symmetry, for the temporal
\* properties.
SPECIFICATION FairSpec
CONSTANTS
    e1 = e1
    Requests = {r1, r2}
    Owners = {boss}
    Employees = {e1, boss}
    Nobody = Nobody
    Codes = {"done"}
    InitialCode = "new"
    Memberships <- StaffMemberships
    Transactions = {t1, t2}
    MaxOperations = 3
INVARIANTS NoDecisionLost StatusesExist ReportsFollowAssignment
PROPERTIES ActsAtomically RevokedEmployeesStop OperationsEnd
