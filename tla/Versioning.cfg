SPECIFICATION FairSpec
CONSTANTS
    dev = dev
    t1 = t1
    t2 = t2
    t3 = t3
    Branches = {main, dev}
    Main = main
    Tables = {t1, t2, t3}
    PushLog = log
    Reqs = {q1, q2}
    MaxCommits = 7
    MaxFaults = 1
    Starts <- MCStarts
    Nil = Nil
INVARIANTS VersioningTypeOK HolderIsFirst SoloPushLands MergeHasOwner PullCoversHead PlanIsLeastClosure
PROPERTIES CommitsStayReachable LockImplemented EveryRequestAnswered
CHECK_DEADLOCK FALSE
