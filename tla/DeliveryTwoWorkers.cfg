\* One row, a recipient whose account and rights change, two workers, one crash and one
\* lost lease; no symmetry, for the temporal properties.
SPECIFICATION FairSpec
CONSTANTS
    MaxDelivery = 1
    Users = {u1}
    Grants = {g1, g2}
    NoStamp = NoStamp
    Workers = {w1, w2}
    NoWorker = NoWorker
    ExpireAfter = 1
    StaleAfter = 0
    LongestPass = 2
    MaxCrashes = 1
    MaxDrops = 1
INVARIANTS ResultIsTruthful SingleSenderUntilLost
PROPERTIES KeepsPromise NothingSentAfterAccessEnds NothingExpiredIsSent EventuallySettled
