SPECIFICATION Spec
CONSTANTS
    Job = {j1}
    Key = {k1}
    Runner = {r1, r2}
    Slot = {s1, s2}
    Periodic = {}
    Outcomes <- RetryOutcomes
    Budget <- LongBudget
    Lease = 1
    Slack = 1
    RetryBase = 1
    RetryMax = 1
    Period = 1
    Delays = {0}
    Deadlines <- OnlyNoDeadline
    MaxAttempts = {2}
    Targets = {1, 2}
    Registries <- AllKeys
    Timely = TRUE
    NoRunner = NoRunner
    NoJob = NoJob
    NoDeadline = NoDeadline
SYMMETRY Symmetry
INVARIANTS NoOverlap PermitConservation DrainedIsIdle
PROPERTY SettledByClaimant
CHECK_DEADLOCK FALSE
