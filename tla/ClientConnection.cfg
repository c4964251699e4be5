CONSTANTS
    Clients = {c1, c2}
    Commands = {"CreateRealm", "StartRealm", "Foreign"}
    MaxCalls = 2
    MaxFaults = 1
SPECIFICATION Spec
INVARIANTS TypeOK AnswersMatch OnceInOrder TakenIsAnswered
PROPERTIES EveryCallReturns ServerStops
CHECK_DEADLOCK FALSE
