CONSTANTS
    Requests = {q1, q2, q3}
    Runs = {r1}
    Gens = {g1, g2}
    Calls = {c1}
    Proposals <- MCProposals
    RunScopes <- MCScopes
    UserClearances = {2, 3}
    None = None
SPECIFICATION Spec
INVARIANTS
    DecidedByTheAuthorized
    AnsweredResumeIsTrue
PROPERTIES
    EndIsFinal
    ImplementsStore
    RunsSettle
CHECK_DEADLOCK FALSE
