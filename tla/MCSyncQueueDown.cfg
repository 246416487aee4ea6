SPECIFICATION Spec
CONSTANTS
    Callers = {c1}
PROPERTY
    NoSyncWhileDown
