SPECIFICATION Spec
CONSTANTS
    Job = {j1, j2}
    Key = {k1}
    Runner = {r1, r2}
    Slot = {s1}
    Periodic = {k1}
    Outcomes <- SweepOutcomes
    Budget <- ShortBudget
    Lease = 1
    Slack = 1
    RetryBase = 1
    RetryMax = 0
    Period = 0
    Delays = {0}
    Deadlines <- OnlyNoDeadline
    MaxAttempts = {1}
    Targets = {1}
    Registries <- AllKeys
    Timely = FALSE
    NoRunner = NoRunner
    NoJob = NoJob
    NoDeadline = NoDeadline
SYMMETRY Symmetry
INVARIANT ToldOnlyIfRetired
PROPERTY ImplementsContract
CHECK_DEADLOCK FALSE
