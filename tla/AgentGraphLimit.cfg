CONSTANTS
    Faults = {f1, f2}
    None = None
    MaxToolCalls = 4
    RecursionLimit = 20
SPECIFICATION Spec
SYMMETRY MCSymmetry
INVARIANTS
    LimitIsReached
CHECK_DEADLOCK FALSE
