CONSTANTS
    Apps = {a1}
    AutoStart = TRUE
    MaxRequests = 2
    MaxFaults = 1
SPECIFICATION Spec
INVARIANTS ShutdownStopsApps
CHECK_DEADLOCK FALSE
