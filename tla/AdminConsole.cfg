SPECIFICATION FairSpec
CONSTANTS
    Nil = Nil
    o1 = o1
    c1 = c1
    c2 = c2
    k1 = k1
    Deltix = Deltix
    Addons = {o1, c1, c2}
    Keys = {Deltix, k1}
    Calls = {q1, q2, q3}
    Sources = {s1}
    MaxFailures = 3
    Tolerance = 1
    CertLimit = 3
    CertWindow = 2
    MaxClock = 6
    Starts <- MCStarts
    Fetches = {f1, f2}
    Loads = {l1, l2}
    AccessTtl = 3
    DefaultTtl = 30
    RenewEarly = 2
    RenewFloor = 1
    RenewCap = 2
    RetryDelay = 1
    SessionTtl = 4
    MaxTries = 3
    MaxSignIns = 2
    MaxWrites = 2
    Requests <- MCRequests
CHECK_DEADLOCK FALSE
INVARIANTS PlatformTypeOK DisabledAfterStreak CertificatesBounded SessionKept
PROPERTIES LicenceNotRevived ServesAuthorisedAddons TableCatchesUp
