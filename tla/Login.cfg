\* One launch presented again and again by three calls, beside the bot and logouts of
\* the same user, with a clock of half seconds.
SPECIFICATION Spec
CONSTANTS
    Accounts = {u1}
    Launches = {l1}
    l1 = l1
    u1 = u1
    AccountOf <- OneUser
    AuthDate <- Dates
    PerSecond = 2
    LaunchTTL = 1
    Skew = 1
    SessionTTL = 1
    Calls = {c1, c2, c3}
    MaxTime = 9
SYMMETRY CallSymmetry
INVARIANTS OneSessionPerLaunch KeyOutlastsLaunch RecordsMatch
PROPERTIES SessionsOfActiveUsers
