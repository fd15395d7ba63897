SPECIFICATION FairSpec
CONSTANTS
    Users = {u1}
    Repos = {r1}
    Tickets = {t1}
    Callers = {s1, p1}
    Streams = {s1}
    Pulls = {p1}
    Clients = {}
    Main = s1
    Ttl = 1
    MaxTime = 1
    MaxSent <- MCMaxSent
    Grantable = {0, 3}
    Nil = Nil
INVARIANTS CommittedUploadIntact AnsweredOnceAfterEnd ChunksNeedTicket
PROPERTIES PushAnswered RefinesTickets
CHECK_DEADLOCK FALSE
