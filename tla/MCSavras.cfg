SPECIFICATION Spec
CONSTANTS
    c1 = c1
    l1 = l1
    l2 = l2
    Clients = {c1}
    Loops = {l1, l2}
    SyncEnabled = TRUE
    MaxOutages = 2
    MaxBoots = 1
INVARIANTS
    TypeOK
    RecoveryEndsSessions
    OldSessionsAreDoomed
PROPERTY OutageEndsSessions
