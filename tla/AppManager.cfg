CONSTANTS
    Apps = {a1, a2}
    AutoStart = TRUE
    MaxRequests = 3
    MaxFaults = 2
SPECIFICATION Spec
INVARIANTS TypeOK RemFollowsRequest OthersAreCleanedUp
PROPERTIES EveryRequestAnswered
CHECK_DEADLOCK FALSE
