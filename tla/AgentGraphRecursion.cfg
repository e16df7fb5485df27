CONSTANTS
    Faults = {f1, f2}
    None = None
    MaxToolCalls = 4
    RecursionLimit = 20
SPECIFICATION Spec
SYMMETRY MCSymmetry
INVARIANTS
    UnsupportedIsJudged
CHECK_DEADLOCK FALSE
