SPECIFICATION Spec
CONSTANTS
    Job = {j1}
    Op = {o1}
    Window = Window
    None = None
    MaxApprovals = 1
    MaxRevision = 2
    ErrorKinds = {"closing", "reading", "updating"}
    FaultKinds = {}
    MaxFaults = 0
    MaxHandoffs = 0
    MaxRequests = 1
SYMMETRY Symmetric
INVARIANTS
    NothingLeftInFlight
