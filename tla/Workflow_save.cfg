SPECIFICATION Spec
CONSTANTS
    Run = {r1, r2}
    Call = {c1, c2}
    None = None
    Steps <- CorrectionSteps
    MaxRecoveries = 1
    MaxOrphans = 1
SYMMETRY Symmetric
INVARIANTS TypeOK SavedOnce OutcomesAreTrue StepsInOrder
PROPERTIES ImplementsSaving
CHECK_DEADLOCK FALSE
