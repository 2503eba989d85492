\* One message, delivered twice at a time and again, pressed by two dispatchers, with a
\* failure, a chat bound to another house and changing access; no symmetry, for the
\* temporal properties.
SPECIFICATION FairSpec
CONSTANTS
    Messages = {m1}
    Chats = {c1}
    c1 = c1
    p1 = p1
    ChatOf <- OneChat
    Places = {p1, p2}
    Unbound = Unbound
    Scopes <- OnePlace
    Dispatchers = {d1, d2}
    Hooks = {h1, h2}
    Sessions = {s1, s2}
    MaxPresses = 2
    MaxFaults = 1
INVARIANTS MeaningKept HeardIsStored
PROPERTIES TriagesAtomically RevokedDispatchersStop MessagesArrive
