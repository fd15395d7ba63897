SPECIFICATION Spec
CONSTANTS
    Users = {u1}
    Repos = {r1}
    Tickets = {t1}
    Callers = {s1, s2, c1}
    Streams = {s1, s2}
    Pulls = {}
    Clients = {c1}
    Main = Nil
    Ttl = 1
    MaxTime = 1
    MaxSent <- MCMaxSent
    Grantable = {0, 3}
    Nil = Nil
INVARIANTS SessionTypeOK RevocationHonoured ExpiryWithinTtl RefusalIsTruthful TicketSingleUse
SYMMETRY StreamSymmetry
CHECK_DEADLOCK FALSE
