SPECIFICATION ServingSpec
CONSTANTS
    Job = {j1, j2}
    First = j1
    Worker = {w1, w2}
    NoWorker = NoWorker
    NoJob = NoJob
    Authz = {a1}
    NoAuthz = NoAuthz
    MaxUp = 2
    MaxAttempts = 2
    PollTimeout = 1
    Margin = 1
    Strategies = {"http01", "dns01", "bypass"}
    Scenarios = {{"crash"}, {"slow"}, {"overlap"}, {"refuse", "revive", "cancel"},
                 {"cancel", "untold"}, {"reload", "slow"}, {"delete", "blind"},
                 {"late", "slow"}}
    pa = pa
    pb = pb
    ta = ta
    tb = tb
    acme = acme
    admin = admin
    d1 = d1
    d2 = d2
    h1 = h1
    h2 = h2
    Off = Off
    Profile = {pa, pb}
    Target = {ta, tb}
    TargetOf <- TargetProfile
    Listener <- Both
    Configs <- Kept
    MaxEdits = 3
    DeliveryTries = 2
    Losses = {"refuse", "exhaust", "cancel"}
SYMMETRY Symmetry
INVARIANTS CertificateIsMapped AwaitedIsServed NeverBetween
INVARIANTS AllOrNothing SignalTaken LostIsOutdated DigestKept
CHECK_DEADLOCK FALSE
