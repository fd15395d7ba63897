SPECIFICATION NasSpec
CONSTANTS
    Jobs = {j1, j2}
    Workers = {w1, w2}
    Repos = {r1}
    MaxRetries = 2
    ClaimBatch = 1
    ClaimAttempts = 2
    BackoffBase = 1
    BackoffMax = 2
    MaxTime = 2
    MaxRequeues = 1
    MaxFaults = 1
    Nil = Nil
INVARIANTS NasTypeOK ClaimExclusive RetryBudget SyncedIsReadable
PROPERTIES RefinesLifecycle
SYMMETRY NasSymmetry
