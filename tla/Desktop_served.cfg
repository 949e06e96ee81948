SPECIFICATION FairSpec
CONSTANTS
    Job = {j1, j2}
    Op = {o1}
    Window = Window
    None = None
    MaxApprovals = 2
    MaxRevision = 2
    ErrorKinds = {"closing", "reading", "updating"}
    FaultKinds = {"executor", "network"}
    MaxFaults = 1
    MaxHandoffs = 0
    MaxRequests = 1
PROPERTIES
    ImplementsControl
    TerminalIsFinal
    RequestsAreServed
