SPECIFICATION Spec
CONSTANTS
    Spoken = {m1, m2}
    Written = {c1}
    None = None
    MaxDemonstrations = 1
    MaxChanges = 2
    MaxCalls = 1
    MaxFrames = 2
    MaxReviews = 1
    Registered = TRUE
    MaxEvents = 3
CHECK_DEADLOCK FALSE
PROPERTIES QuestionIsPublished
