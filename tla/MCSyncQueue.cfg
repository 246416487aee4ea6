SPECIFICATION Spec
CONSTANTS
    Callers = {c1, c2, c3}
INVARIANTS
    TypeOK
PROPERTIES
    ServesEveryTrigger
    TriggersAreServed
