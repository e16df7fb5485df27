CONSTANTS
    Runs = {r1}
    Gens = {g1, g2}
    Calls = {c1, c2}
    Proposals <- MCProposals
    RunScopes <- MCScopes
    UserClearances = {1, 2}
    None = None
SPECIFICATION Spec
SYMMETRY MCSymmetry
INVARIANTS
    EffectsAuthorized
    AtMostOneEffect
    AnswersAreTrue
    WaitingIsDecidable
PROPERTIES
    GenerationsAreHistory
    ImplementsApproval
CHECK_DEADLOCK FALSE
