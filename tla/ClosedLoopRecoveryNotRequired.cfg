CONSTANTS
    RecoveryRuns = {r1, r2}
    ToolCalls = {e1, e2}
    Preconditions = {station_stopped, no_product_present}
    Deviations = {20, 31}
    Tolerance = 20
    Nil = Nil
SPECIFICATION RecoverySpec
INVARIANTS
    NotRequiredIsHealthy
CHECK_DEADLOCK FALSE
