CONSTANTS
    Requests = {q1, q2}
    Runs = {r1}
    Gens = {g1, g2}
    Calls = {c1}
    Proposals <- MCProposals
    RunScopes <- MCScopes
    UserClearances = {2}
    None = None
SPECIFICATION Spec
INVARIANTS
    ProposalsArePut
CHECK_DEADLOCK FALSE
