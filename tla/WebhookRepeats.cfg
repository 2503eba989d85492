\* Two requests at a time for one user's two events, one failure; no symmetry, for the
\* temporal property.
SPECIFICATION FairSpec
CONSTANTS
    Users = {u1}
    Kinds = {"new", "open", "text", "progress"}
    MaxEvents = 2
    MaxTime = 2
    Handlers = {h1, h2}
    MaxFaults = 1
INVARIANTS HeardIsHandled RepliesFollowDialog
PROPERTIES ServesDialog EventuallyHeard
