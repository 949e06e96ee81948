SPECIFICATION FairSpec
CONSTANTS
    Job = {j1}
    Op = {o1}
    Window = Window
    None = None
    MaxApprovals = 2
    MaxRevision = 2
    ErrorKinds = {"closing"}
    FaultKinds = {"planner"}
    MaxFaults = 1
    MaxHandoffs = 1
    MaxRequests = 1
PROPERTIES
    RequestsEnd
    InFlightSettles
