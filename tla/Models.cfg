CONSTANTS
    Runs = {1, 2}
    Texts <- MCTexts
    UserClearances = {2, 3}
    Labels <- MCLabels
    Catalog <- MCCatalog
    Keys = {"groq_benchmark"}
    DefaultModel = "local_quality"
    Reassignments <- MCReassignments
    MaxChanges = 1
    MaxTurns = 2
    ContractModels = {"groq_benchmark", "mistral_fast"}
    Classification = 2
    MaxChoices = 3
    None = None
SPECIFICATION MCSpec
INVARIANTS
    NothingLeaks
    OneModelPerRun
    NoUseAfterClose
    VerdictsAreProven
    SavedIsStored
PROPERTIES
    ProvidersAreReleased
CHECK_DEADLOCK FALSE
