SPECIFICATION Spec
CONSTANTS
    c1 = c1
    l1 = l1
    l2 = l2
    Clients = {c1}
    Loops = {l1}
    SyncEnabled = TRUE
    MaxOutages = 1
    MaxBoots = 2
INVARIANT HealthyMeansSynced
