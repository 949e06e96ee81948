SPECIFICATION Spec
CONSTANTS
    Job = {j1}
    Op = {o1}
    Window = Window
    None = None
    MaxApprovals = 1
    MaxRevision = 1
    ErrorKinds = {"closing", "reading", "updating"}
    FaultKinds = {"planner"}
    MaxFaults = 1
    MaxHandoffs = 1
    MaxRequests = 1
SYMMETRY Symmetric
PROPERTIES
    HandoffWaits
