SPECIFICATION Spec
CONSTANTS
    Clients = {c1, c2}
    Uuids = {u1, u2}
    Apps = {a1}
    Commands <- AllCommands
    Nobody = Nobody
    MaxRealms = 2
    MaxCommands = 5
SYMMETRY ClientSymmetry
INVARIANTS
    TypeOK
    DestroyIsSafe
    HandlesAreRegistered
CHECK_DEADLOCK FALSE
