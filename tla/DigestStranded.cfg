SPECIFICATION ReloadSpec
CONSTANTS
    pa = pa
    pb = pb
    ta = ta
    tb = tb
    acme = acme
    admin = admin
    d1 = d1
    d2 = d2
    h1 = h1
    h2 = h2
    Off = Off
    Profile = {pa, pb}
    Target = {ta, tb}
    TargetOf <- TargetProfile
    Listener <- Both
    Configs <- Moved
    MaxEdits = 2
    DeliveryTries = 2
    Losses = {}
INVARIANT DigestKept
CHECK_DEADLOCK FALSE
