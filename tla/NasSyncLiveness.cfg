SPECIFICATION NasFairSpec
CONSTANTS
    Jobs = {j1, j2}
    Workers = {w1, w2}
    Repos = {r1}
    MaxRetries = 2
    ClaimBatch = 1
    ClaimAttempts = 1
    BackoffBase = 1
    BackoffMax = 2
    MaxTime = 1
    MaxRequeues = 0
    MaxFaults = 1
    Nil = Nil
PROPERTIES JobSettles
