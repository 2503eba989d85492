\* Four events of two users with names of the owner's choice, in three requests; no
\* symmetry, for the temporal property.
SPECIFICATION LocksFairSpec
CONSTANTS
    Users = {boss, worker}
    Tasks = {r1, r2}
    Chosen = {boss, worker}
    Events = {e1, e2, e3, e4}
    e1 = e1
    e2 = e2
    e3 = e3
    e4 = e4
    boss = boss
    worker = worker
    r1 = r1
    r2 = r2
    ActorOf <- MCActorOf
    RecipientOf <- MCRecipientOf
    KindOf <- MCKindOf
    TaskOf <- MCTaskOf
    Transactions = {t1, t2, t3}
INVARIANTS OnlyRenamingsDeadlock
PROPERTIES EventsHandled
