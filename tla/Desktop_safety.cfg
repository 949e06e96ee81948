SPECIFICATION Spec
CONSTANTS
    Job = {j1}
    Op = {o1, o2}
    Window = Window
    None = None
    MaxApprovals = 2
    MaxRevision = 2
    ErrorKinds = {"closing", "reading", "updating"}
    FaultKinds = {"planner", "executor", "network"}
    MaxFaults = 1
    MaxHandoffs = 2
    MaxRequests = 1
SYMMETRY Symmetric
INVARIANTS
    TypeOK
    AuthorityIsCurrent
    OperationFenced
    OneOperationPerEpoch
    OneStandingApproval
    ReceiptIsFinal
PROPERTIES
    EpochGuardsOwnership
    ImplementsTenure
