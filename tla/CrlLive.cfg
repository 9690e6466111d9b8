SPECIFICATION FairSpec
CONSTANTS
    Serial = {s1, s2}
    Mortal = {s1}
    NotAfter <- ExpireAtZero
    Sidecar = {}
    SidecarNumber = 0
    Instance = {t1}
    Task = {t1}
    Home <- Apart
    NoTask = NoTask
    NoSerial = NoSerial
    Skew = 0
    Validity = 2
    MaxTries = 1
    MaxPasses = 2
    MaxTime = 1
    MaxAsks = 2
    Sweeping = TRUE
PROPERTY RecordedIsListed
CHECK_DEADLOCK FALSE
