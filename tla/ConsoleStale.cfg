CONSTANTS
    Tabs = {a}
    alice = alice
    bob = bob
    working = a
    Users = {alice, bob}
    DefaultUser = bob
    Clearance <- MCClearance
    Tokens = {1}
    Capacity = 1
    Mutations = {}
    MaxRuns = 2
    MaxHides = 0
    MaxRequests = 2
    None = None
    LoggedOut = LoggedOut
    Over = Over
SPECIFICATION MCSpec
PROPERTIES
    NoStaleRefresh
CHECK_DEADLOCK FALSE
