CONSTANTS
    r1 = r1
    r2 = r2
    r3 = r3
    tap100 = tap100
    tap101 = tap101
    Realms = {r1, r2, r3}
    Devices = {tap100, tap101}
    TapDevice <- MCTapDevice
    MaxLives = 3
    MaxFaults = 2
SPECIFICATION Spec
SYMMETRY RealmSymmetry
INVARIANTS TypeOK LeavesNothingBehind
CHECK_DEADLOCK FALSE
