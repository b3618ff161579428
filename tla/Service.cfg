\* A service that has stopped does nothing more.
CHECK_DEADLOCK FALSE
SPECIFICATION Spec
CONSTANTS
    c1 = c1
    c2 = c2
    Clients <- MCClients
    NoClient = NoClient
INVARIANTS
    TypeOK
    HandlesOutliveThread
    OwnResponse
PROPERTIES
    StatusForward
    RequestAnswered
    StopCompletes
