SPECIFICATION FairSpec
CONSTANTS
    MaxConns = 2
    MaxEvents = 1
    Reqs = {q1}
    MaxAuthFailures = 1
    LookupFaults = TRUE
    Nothing = Nothing
INVARIANTS
    OneSocket
    WaitingIsHeld
PROPERTIES
    SettledOnce
    RequestsEnd
CHECK_DEADLOCK FALSE
