\* The documented claim of one worker per database, with a lost lease.
SPECIFICATION Spec
CONSTANTS
    MaxDelivery = 1
    Users = {u1}
    Grants = {g1}
    NoStamp = NoStamp
    Workers = {w1, w2}
    NoWorker = NoWorker
    ExpireAfter = 1
    StaleAfter = 0
    LongestPass = 1
    MaxCrashes = 1
    MaxDrops = 1
SYMMETRY Symmetry
INVARIANT SingleSender
