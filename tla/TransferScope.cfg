SPECIFICATION Spec
CONSTANTS
    Users = {u1}
    Repos = {r1}
    Tickets = {t1}
    Callers = {s1}
    Streams = {s1}
    Pulls = {}
    Clients = {}
    Main = s1
    Ttl = 1
    MaxTime = 1
    MaxSent <- MCMaxSent
    Grantable = {0, 1, 3}
    Nil = Nil
INVARIANTS JobsUnderPushTickets
CHECK_DEADLOCK FALSE
