SPECIFICATION Spec
CONSTANTS
    f1 = f1
    f2 = f2
    Flows = {f1, f2}
    Messages = {m1}
    NoFlow = NoFlow
    NoRun = NoRun
    Calls = {}
    Modes = {"realtime", "deepFeedback"}
    SetupFaults = TRUE
    StorageFaults = TRUE
SYMMETRY FlowSymmetry
INVARIANTS
    SingleOrchestrator
    NoStrandedWaiter
PROPERTIES
    NoTurnAfterAbort
CHECK_DEADLOCK FALSE
