SPECIFICATION Spec
CONSTANTS
    ana = ana
    bob = bob
    key = key
    Users = {ana, bob}
    Repos = {p}
    Tokens = {key}
    Reqs = {q1, q2}
    LegacyUsers = {}
    SessionTtl = 2
    AccessTtl = 9
    MaxAttempts = 2
    WindowLength = 2
    MaxClock = 3
    Starts <- TwoAdminsStart
    Nil = Nil
INVARIANT AnAdminRemains
CHECK_DEADLOCK FALSE
