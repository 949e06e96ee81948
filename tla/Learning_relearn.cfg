SPECIFICATION Spec
CONSTANTS
    Job = {j1}
    Demonstration = {}
    Workflow = {}
    Gap = {}
    Skill = {s1, s2}
    Text = {plain, other}
    s1 = s1
    plain = plain
    None = None
    Seed <- BundledSeed
    MaxLabels = 0
    MaxAttempts = 2
    MaxCommands = 0
    MaxStray = 0
    MaxEvents = 2
INVARIANTS
    RetryTeachesOnce
CHECK_DEADLOCK FALSE
