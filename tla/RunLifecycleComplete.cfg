SPECIFICATION Spec
CONSTANTS
    f1 = f1
    f2 = f2
    Flows = {f1, f2}
    Messages = {m1}
    NoFlow = NoFlow
    NoRun = NoRun
    Calls = {c1}
    Modes = {"realtime", "deepFeedback"}
    SetupFaults = FALSE
    StorageFaults = FALSE
SYMMETRY FlowSymmetry
INVARIANTS
    SessionIsDriven
    WaiterIsThere
    OneFinishPerSession
PROPERTIES
    ForeignSlotUntouched
    SlotSpec
CHECK_DEADLOCK FALSE
