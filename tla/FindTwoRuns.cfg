SPECIFICATION Spec
CONSTANTS
    f1 = f1
    f2 = f2
    f3 = f3
    Flows = {f1, f2, f3}
    Messages = {}
    NoFlow = NoFlow
    NoRun = NoRun
    Calls = {c1}
    Modes = {"realtime"}
    SetupFaults = FALSE
    StorageFaults = FALSE
SYMMETRY FlowSymmetry
INVARIANTS
    OneRunWorks
CHECK_DEADLOCK FALSE
