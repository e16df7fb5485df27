CONSTANTS
    c1 = c1
    c2 = c2
    c3 = c3
    Callers = {c1, c2, c3}
    Clearance <- MCClearance
    RunClassification = 2
    MaxTools = 2
    MaxTraceSpans = 4
    MaxLogEvents = 3
    MaxDuration = 4
    MaxStatement = 100
    Waits <- MCWaits
    Requests <- MCRequests
    Offers <- MCOffers
    Capacity = 1
    Catalog <- MCCatalog
    Keys = {"mistral_fast"}
    Assignment <- MCAssignment
    None = None
SPECIFICATION MCSpec
INVARIANTS
    OrdinaryEvidenceIsReported
    TimeIsOwnedOnce
    JobsAreAccommodated
    ExplanationsAgree
PROPERTIES
    ShutdownEnds
CHECK_DEADLOCK FALSE
