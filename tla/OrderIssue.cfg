SPECIFICATION Spec
CONSTANTS
    a1 = a1
    a2 = a2
    c1 = c1
    c2 = c2
    c3 = c3
    Authz = {a1}
    Chall = {c1}
    Of <- OneEach
    Order = order
    Job = {j1, j2}
    Worker = {w1, w2}
    NoWorker = NoWorker
    NoJob = NoJob
    MaxAttempts = 1
    MaxInFlight = 0
    MaxCerts = 1
    MaxRequests = 2
    Mishaps <- AllButResend
SYMMETRY Symmetry
INVARIANTS ValidHasCertificate QueuedIsClaimed
PROPERTIES VerdictsStand AcmeUnlessReissued
CHECK_DEADLOCK FALSE
