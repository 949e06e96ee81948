SPECIFICATION FairSpec
CONSTANTS
    Spoken = {m1, m2}
    Written = {c1}
    None = None
    MaxDemonstrations = 1
    MaxChanges = 2
    MaxCalls = 1
    MaxFrames = 2
    MaxReviews = 1
    Registered = FALSE
    MaxEvents = 3
INVARIANTS TypeOK OneOpenRequest MessageOnce NeverResumed NothingAfterOutcome PostedInOrder
PROPERTIES AnsweredOnce EventsArePosted MentorIsHeard
CHECK_DEADLOCK FALSE
