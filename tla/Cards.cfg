\* Two owners and an employee with changing rights; two events on one request.
SPECIFICATION Spec
CONSTANTS
    h1 = h1
    h2 = h2
    a1 = a1
    c1 = c1
    Houses = {h1, h2}
    AreaOf <- Area
    Areas = {a1}
    Categories = {c1}
    BadIds = {Bad}
    AnyArea = AnyArea
    Absent = Absent
    Owners = {boss, deputy}
    Employees = {clerk}
    Tasks <- OneTask
    Grants <- FourGrants
    Sessions = {t1, t2}
    MaxEvents = 2
SYMMETRY SessionSymmetry
INVARIANTS NoticesInOrder OwnersHearEveryReport OnlyRacesReveal
