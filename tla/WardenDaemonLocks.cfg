SPECIFICATION Spec
CONSTANTS
    Clients = {c1, c2}
    Uuids = {u1}
    Apps = {a1}
    Commands <- NoAppCommands
    Nobody = Nobody
    MaxRealms = 1
    MaxCommands = 4
INVARIANTS
    NoCircularWait
PROPERTIES
    ShutdownCompletes
CHECK_DEADLOCK FALSE
