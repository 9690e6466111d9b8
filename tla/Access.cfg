SPECIFICATION AccessSpec
CONSTANTS
    Account = {a1, a2}
    NoAccount = NoAccount
    Key = {k1, k2}
    NoKey = NoKey
    Cred = {c1}
    NoCred = NoCred
    Nonce = {n1, n2}
    NoNonce = NoNonce
    Request = {r1, r2}
    NonceTtl = 1
    EabEnabled = TRUE
    Founder = a1
    FoundersKey = k1
    FoundersCred = c1
    o1 = o1
    o2 = o2
    Operator = {o1, o2}
    Password = {p1, p2}
    Task = {t1, t2}
    s1 = s1
    s2 = s2
    s3 = s3
    Session = {s1, s2, s3}
    NoSession = NoSession
    Secret = {x1, x2}
    NoSecret = NoSecret
    Code = {v1}
    NoCode = NoCode
    MaxAttempts = 2
    MaxStep = 1
    MaxWindows = 2
    Scenes <- AllScenes
    net = net
    peer = peer
    path = path
    names = names
    Check = {net, peer, path, names}
    Serves <- FilterServes
    Source <- FilterTexts
    Condition <- FilterConditions
    NoCondition = NoCondition
    Depth <- FilterDepth
    Parsed <- FilterParsed
    MaxRules = 2
SYMMETRY AccessSymmetry
INVARIANTS NonceSpentOnce OneAccountPerKey CertificateHasAccount
INVARIANTS LimiterHolds SpentOnce RevocationHolds
INVARIANTS ParsedAsMeant AnswerStands UnknownMatters
PROPERTY DeactivationStands
CHECK_DEADLOCK FALSE
