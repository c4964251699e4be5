SPECIFICATION Spec
CONSTANTS
    Clients = {c1, c2}
    Uuids = {u1}
    Apps = {a1}
    Commands <- AllCommands
    Nobody = Nobody
    MaxRealms = 1
    MaxCommands = 4
PROPERTIES
    ShutdownCompletes
CHECK_DEADLOCK FALSE
