SPECIFICATION FairSpec
CONSTANTS
    Job = {j1}
    Key = {k1}
    Runner = {r1, r2}
    Slot = {s1}
    Periodic = {}
    Outcomes <- DoneOutcomes
    Budget <- ShortBudget
    Lease = 1
    Slack = 1
    RetryBase = 1
    RetryMax = 0
    Period = 1
    Delays = {0}
    Deadlines <- DueAtOnce
    MaxAttempts = {1}
    Targets = {1}
    Registries <- AllKeys
    Timely = TRUE
    NoRunner = NoRunner
    NoJob = NoJob
    NoDeadline = NoDeadline
PROPERTY EveryJobSettles
CHECK_DEADLOCK FALSE
