SPECIFICATION Spec
CONSTANTS
    Job = {j1}
    Op = {o1, o2}
    Window = Window
    None = None
    MaxApprovals = 2
    MaxRevision = 2
    ErrorKinds = {"closing", "reading", "updating"}
    FaultKinds = {"executor", "network"}
    MaxFaults = 1
    MaxHandoffs = 2
    MaxRequests = 2
SYMMETRY Symmetric
INVARIANTS
    CompletedIsQuiet
PROPERTIES
    ImplementsControl
