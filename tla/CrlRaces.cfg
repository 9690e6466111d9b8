SPECIFICATION Spec
CONSTANTS
    Serial = {s1, s2}
    Mortal = {s1}
    NotAfter <- ExpireAtZero
    Sidecar = {s2}
    SidecarNumber = 1
    Instance = {t1, t2}
    Task = {t1, t2}
    Home <- Apart
    NoTask = NoTask
    NoSerial = NoSerial
    Skew = 1
    Validity = 2
    MaxTries = 2
    MaxPasses = 2
    MaxTime = 2
    MaxAsks = 1
    Sweeping = FALSE
SYMMETRY Symmetry
INVARIANTS Imported RevokedIsRecorded AckedIsListed
PROPERTIES EntryKept NumbersGrow ExportMonotone
CHECK_DEADLOCK FALSE
