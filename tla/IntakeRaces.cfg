\* Three calls of one author with one key, two payloads in one organization and one in
\* another, in two sessions; no symmetry, for the temporal property.
SPECIFICATION FairSpec
CONSTANTS
    Authors = {a1}
    Keys = {k1}
    Payloads = {p1, p2, p3}
    p1 = p1
    p2 = p2
    p3 = p3
    o1 = o1
    o2 = o2
    OrganizationOf <- MCOrganizationOf
    Sessions = {t1, t2}
    MaxCalls = 3
INVARIANTS RecordedOnce
PROPERTIES KeepsOneRequest RevokedAuthorsGetNothing
