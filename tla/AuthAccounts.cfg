SPECIFICATION Spec
CONSTANTS
    ana = ana
    bob = bob
    key = key
    Users = {ana, bob}
    Repos = {p}
    Tokens = {key}
    Reqs = {q1, q2}
    LegacyUsers = {bob}
    SessionTtl = 2
    AccessTtl = 9
    MaxAttempts = 2
    WindowLength = 2
    MaxClock = 3
    Starts <- MCStarts
    Nil = Nil
INVARIANTS AuthTypeOK OneFounder AttemptsBounded RecordHasDatabase
PROPERTIES AccountNotReplaced RevokedStaysRevoked LapseIsFinal BootLeavesNoOrphan
SYMMETRY ReqSymmetry
CHECK_DEADLOCK FALSE
