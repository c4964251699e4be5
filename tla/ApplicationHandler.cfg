CONSTANTS
    MaxStarts = 3
    MaxCalls = 4
    MaxReadErrors = 1
SPECIFICATION Spec
INVARIANTS TypeOK ResponsesMatch
PROPERTIES ReplacedIsKilled EveryCallReturns ImplementsLifecycle
CHECK_DEADLOCK FALSE
