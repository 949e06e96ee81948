SPECIFICATION FairSpec
CONSTANTS
    Job = {j1, d1}
    Demonstration = {d1}
    Workflow = {j1}
    Gap = {}
    Skill = {s1}
    Text = {plain, other}
    s1 = s1
    plain = plain
    None = None
    Seed <- BundledSeed
    MaxLabels = 1
    MaxAttempts = 2
    MaxCommands = 1
    MaxStray = 1
    MaxEvents = 2
INVARIANTS
    TypeOK
    LearnsOnce
    LedgersAgree
    AnswerIsFresh
PROPERTIES
    ItemsSettle
    DistributionFollowsAdmission
    OutcomeIsFinal
    ImplementsLessons
CHECK_DEADLOCK FALSE
