CONSTANTS
    Faults = {f1, f2}
    None = None
    MaxToolCalls = 4
    RecursionLimit = 20
    agent = agent
    internal = internal
    codex = codex
    Clients = {agent, internal, codex}
    Clearance <- MCClearance
    WarmedUp = {agent, internal}
    Catalogs <- MCCatalogs
    Text <- MCText
    Queries <- MCQueries
    Limits = {2}
    Similarity <- MCSimilarity
    Relevance <- MCRelevance
    Ln <- MCLn
    RankConstant = 60
    CandidateLimit = 2
    Requests = {1, 2}
    MaxSearches = 1
    Nothing = Nothing
    Servers <- MCServers
    Retries = 3
    S04 = S04
    S05 = S05
    S06 = S06
    P1 = P1
    FaultCode = FaultCode
    Names <- MCNames
    Toolset <- MCToolset
    Asked <- MCAsked
    Reads <- MCReads
    Executions <- MCExecutions
    Ids = {a, b}
    Width <- MCWidth
    Heading = 2
    Partial = 3
    CallsAnswered = 3
    MaxIdentifiers = 3
    MaxDocuments = 2
    MaxAnswer = 15
    RecoveryRuns = {r1, r2}
    ToolCalls = {e1, e2}
    Preconditions = {station_stopped, no_product_present}
    Deviations = {20, 31}
    Tolerance = 20
    Nil = Nil
SPECIFICATION MCSpec
SYMMETRY MCToolSymmetry
INVARIANTS
    AnswersAreGrounded
    ApprovedIsAffordable
    SourcesNeverDeadlock
    AnswersIgnoreTheHidden
    AgreementIsKept
    LockIsGivenBack
    EndsAreTold
    ReferencesAreOfTheRun
    RequestedIsNamed
    FindingsAreOfTheirCalls
    RecoveryIsToldAsItEnded
    InventoryIsTold
    SuccessIsWitnessed
    UnrecoveredIsUntouched
    CalibratedWasPrepared
PROPERTIES
    ImplementsApproval
CHECK_DEADLOCK FALSE
