SPECIFICATION MCSpec
CONSTANTS
    Claims = {c1, c2}
    Devices = {d1, d2}
    Approvals = {a1, a2}
    Polls = {p1, p2}
    NoDevice = NoDevice
    NoClaim = NoClaim
    NoPoll = NoPoll
    MaxErrors = 2
    Faults = TRUE
    Machines <- MCMachines
    MaxStarted = 3
    MaxPolls = 2
    Scripts <- MCScripts
    White = "_"
INVARIANTS
    TokenIsGood
    IdMatchesToken
    
    ChatTellsTheAnswer
PROPERTIES
    TokenNotReplaced
CHECK_DEADLOCK FALSE
