CONSTANTS
    Tabs = {a, b}
    working = a
    alice = alice
    bob = bob
    Users = {alice, bob}
    DefaultUser = bob
    Clearance <- MCClearance
    Tokens = {1, 2, 3}
    Capacity = 1
    Mutations = {1, 2}
    MaxRuns = 1
    MaxHides = 1
    MaxRequests = 1
    None = None
    LoggedOut = LoggedOut
    Over = Over
SPECIFICATION MCSpec
INVARIANTS
    PagesTellTheTruth
PROPERTIES
    PagesReconnect
CHECK_DEADLOCK FALSE
