SPECIFICATION Spec
CONSTANTS
    MaxCommands = 3
    MaxUpdates = 1
    MaxFaults = 1
PROPERTIES
    FailedStartLeavesHalted
CHECK_DEADLOCK FALSE
