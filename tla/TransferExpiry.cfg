SPECIFICATION FairSpec
CONSTANTS
    Users = {u1}
    Repos = {r1}
    Tickets = {t1}
    Callers = {s1}
    Streams = {s1}
    Pulls = {}
    Clients = {}
    Main = s1
    Ttl = 1
    MaxTime = 1
    MaxSent <- MCMaxSent
    Grantable = {0, 3}
    Nil = Nil
PROPERTIES ExpiredTicketStopsChunks
CHECK_DEADLOCK FALSE
