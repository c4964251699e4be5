CONSTANTS
    r1 = r1
    r2 = r2
    a1 = a1
    a2 = a2
    Realms = {r1, r2}
    Apps = {a1, a2}
    Home <- MCHome
    Sizes = {small, large}
    Invalid = invalid
    None = None
    MaxOps = 5
    MaxFaults = 1
    MaxCrashes = 2
SPECIFICATION Spec
INVARIANTS TypeOK AcknowledgedIsKept DiskMatchesConfig LoadsWhatIsFinished
PROPERTIES DataIsKept
CHECK_DEADLOCK FALSE
