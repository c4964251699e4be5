SPECIFICATION Spec
CONSTANTS
    MaxCommands = 4
    MaxUpdates = 2
    MaxFaults = 2
INVARIANTS
    TypeOK
    VmFollowsState
    RepliesMatch
    RunningMeansCurrentConfig
    ListenerEndsOnlyOnOrphan
PROPERTIES
    OkMeansDone
    ImplementsLifecycle
    ReturnsUnlessCrossed
CHECK_DEADLOCK FALSE
