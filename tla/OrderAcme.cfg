SPECIFICATION Spec
CONSTANTS
    a1 = a1
    a2 = a2
    c1 = c1
    c2 = c2
    c3 = c3
    Authz = {a1, a2}
    Chall = {c1, c2, c3}
    Of <- OneEach
    Order = order
    Job = {j1, j2}
    Worker = {w1, w2}
    NoWorker = NoWorker
    NoJob = NoJob
    MaxAttempts = 1
    MaxInFlight = 2
    MaxCerts = 2
    MaxRequests = 2
    Mishaps = {"crash", "delete", "resend"}
SYMMETRY AcmeSymmetry
INVARIANTS AnnouncedIsHeld ReadyIsDerived
PROPERTIES ImplementsAcme CertificateKept
CHECK_DEADLOCK FALSE
