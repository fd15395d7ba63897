------------------------ MODULE TransferTicketsProofs ------------------------
(***************************************************************************)
(* Proofs about the ticket service, for any number of users, repositories, *)
(* tickets and concurrent callers, any TTL and any clock bound.            *)
(***************************************************************************)
EXTENDS TransferTickets, TLAPS

----------------------------------------------------------------------------
(* Type correctness.                                                       *)

\* A caller between two calls.
LEMMA IdleCallType == IdleCall \in Call
  BY DEF IdleCall, Call, CallPC, Results

\* A ticket without a row.
LEMMA NoTicketType == NoTicket \in Ticket
  BY DEF NoTicket, Ticket, TicketStatus

\* A call that ends with a result.
LEMMA ResolveType ==
  ASSUME TicketTypeOK, NEW c \in Callers, NEW res \in Results, Resolve(c, res)
  PROVE  calls' \in [Callers -> Call]
<1>1. [calls[c] EXCEPT !.pc = "done", !.result = res] \in Call
  BY DEF TicketTypeOK, Call, CallPC
<1>2. calls' = [calls EXCEPT ![c] = [calls[c] EXCEPT !.pc = "done", !.result = res]]
  BY DEF Resolve, TicketTypeOK
<1>3. QED
  BY <1>1, <1>2 DEF TicketTypeOK

\* A call that goes on to its next await.
LEMMA AdvanceType ==
  ASSUME TicketTypeOK, NEW c \in Callers, NEW p \in CallPC, Advance(c, p)
  PROVE  calls' \in [Callers -> Call]
<1>1. [calls[c] EXCEPT !.pc = p] \in Call
  BY DEF TicketTypeOK, Call
<1>2. calls' = [calls EXCEPT ![c] = [calls[c] EXCEPT !.pc = p]]
  BY DEF Advance, TicketTypeOK
<1>3. QED
  BY <1>1, <1>2 DEF TicketTypeOK

\* The service starts with well-typed state.
LEMMA TicketTypeInit == TicketInit => TicketTypeOK
<1> SUFFICES ASSUME TicketInit PROVE TicketTypeOK
  OBVIOUS
<1>1. \A tk \in {NoTicket} \cup SurvivingTicket : tk \in Ticket
  BY NoTicketType, TicketAssumptions DEF SurvivingTicket, Ticket, TicketStatus, Ops
<1>2. tickets \in [Tickets -> Ticket]
  BY <1>1 DEF TicketInit
<1>3. role \in [Users -> [Repos -> Ranks]]
  BY TicketAssumptions DEF TicketInit, Ranks
<1>4. QED
  BY <1>2, <1>3, IdleCallType DEF TicketInit, TicketTypeOK

\* Every step keeps the types.
LEMMA TicketTypeStep == TicketTypeOK /\ [TicketNext]_ticketVars => TicketTypeOK'
<1> SUFFICES ASSUME TicketTypeOK, [TicketNext]_ticketVars PROVE TicketTypeOK'
  OBVIOUS
<1> USE IdleCallType DEF TicketTypeOK
<1>1. ASSUME NEW c \in Callers, NEW u \in Users, NEW op \in Ops, NEW r \in Repos,
             NEW dry \in BOOLEAN, IssueBegin(c, u, op, r, dry)
      PROVE  TicketTypeOK'
  <2>1. [IdleCall EXCEPT !.pc = "insert", !.user = u, !.op = op,
                         !.repo = r, !.dryRun = dry, !.now = clock] \in Call
    BY DEF Call, CallPC
  <2>2. QED BY <1>1, <2>1 DEF IssueBegin
<1>2. ASSUME NEW c \in Callers, NEW t \in Tickets, NEW op \in Ops, NEW r \in Repos,
             ConsumeBegin(c, t, op, r)
      PROVE  TicketTypeOK'
  <2>1. ASSUME NEW p \in CallPC
        PROVE  [IdleCall EXCEPT !.pc = p, !.t = t, !.op = op, !.repo = r,
                                !.now = clock] \in Call
    BY DEF Call
  <2>2. (Exists(t) /\ OwnerSufficient(t)) \in BOOLEAN
    BY DEF Exists
  <2>3. QED BY <1>2, <2>1, <2>2 DEF ConsumeBegin, CallPC
<1>3. ASSUME NEW c \in Callers, NEW t \in Tickets, RenewBegin(c, t)
      PROVE  TicketTypeOK'
  <2>1. ASSUME NEW p \in CallPC
        PROVE  [IdleCall EXCEPT !.pc = p, !.t = t, !.now = clock] \in Call
    BY DEF Call
  <2>2. (Exists(t) /\ OwnerSufficient(t)) \in BOOLEAN
    BY DEF Exists
  <2>3. QED BY <1>3, <2>1, <2>2 DEF RenewBegin, CallPC
<1>4. ASSUME NEW c \in Callers, IssueInsert(c)
      PROVE  TicketTypeOK'
  <2>1. PICK t \in Tickets :
          /\ tickets' = [tickets EXCEPT ![t] =
                [status |-> "issued", user |-> calls[c].user, op |-> calls[c].op,
                 repo |-> calls[c].repo, dryRun |-> calls[c].dryRun,
                 expiresAt |-> calls[c].now + Ttl]]
          /\ calls' = [calls EXCEPT ![c].pc = "done", ![c].t = t,
                                    ![c].result = "issued"]
    BY <1>4 DEF IssueInsert
  <2>2. [status |-> "issued", user |-> calls[c].user, op |-> calls[c].op,
         repo |-> calls[c].repo, dryRun |-> calls[c].dryRun,
         expiresAt |-> calls[c].now + Ttl] \in Ticket
    BY TicketAssumptions DEF Ticket, TicketStatus, Call
  <2>3. QED BY <1>4, <2>1, <2>2 DEF IssueInsert, Call, CallPC, Results
<1>5. ASSUME NEW c \in Callers, ConsumeActivate(c)
      PROVE  TicketTypeOK'
  <2>1. calls' \in [Callers -> Call]
    BY <1>5, ResolveType, AdvanceType DEF ConsumeActivate, CallPC, Results
  <2>2. tickets' \in [Tickets -> Ticket]
    BY <1>5 DEF ConsumeActivate, Ticket, TicketStatus
  <2>3. QED BY <1>5, <2>1, <2>2 DEF ConsumeActivate
<1>6. ASSUME NEW c \in Callers, RenewUpdate(c)
      PROVE  TicketTypeOK'
  <2>1. calls[c].now + Ttl \in Nat
    BY TicketAssumptions DEF Call
  <2>2. calls' \in [Callers -> Call]
    BY <1>6, ResolveType, AdvanceType DEF RenewUpdate, CallPC, Results
  <2>3. tickets' \in [Tickets -> Ticket]
    <3> DEFINE n == calls[c].now + Ttl
    <3>1. \A tk \in Ticket : [tk EXCEPT !.expiresAt = n] \in Ticket
      BY <2>1 DEF Ticket
    <3>2. \/ tickets' = [tickets EXCEPT ![calls[c].t].expiresAt = n]
          \/ UNCHANGED tickets
      BY <1>6 DEF RenewUpdate
    <3> HIDE DEF n
    <3>3. QED BY <3>1, <3>2
  <2>4. QED BY <1>6, <2>2, <2>3 DEF RenewUpdate
<1>7. ASSUME NEW c \in Callers,
             ConsumeRoleCheck(c) \/ ConsumeClassify(c) \/ RenewRoleCheck(c)
               \/ RenewClassify(c)
      PROVE  TicketTypeOK'
  <2>1. calls' \in [Callers -> Call]
    BY <1>7, ResolveType, AdvanceType
       DEF ConsumeRoleCheck, ConsumeClassify, RenewRoleCheck, RenewClassify,
           CallPC, Results
  <2>2. UNCHANGED <<clock, role, tickets, authorized>>
    BY <1>7 DEF ConsumeRoleCheck, ConsumeClassify, RenewRoleCheck, RenewClassify
  <2>3. QED BY <2>1, <2>2
<1>8. ASSUME NEW c \in Callers, Return(c)
      PROVE  TicketTypeOK'
  BY <1>8 DEF Return
<1>9. ASSUME NEW t \in Tickets, CloseTicket(t)
      PROVE  TicketTypeOK'
  BY <1>9 DEF CloseTicket, Ticket, TicketStatus
<1>10. ASSUME NEW u \in Users, NEW r \in Repos, NEW k \in Grantable, SetRole(u, r, k)
       PROVE  TicketTypeOK'
  <2>1. k \in Ranks
    BY TicketAssumptions DEF Ranks
  <2>2. role' \in [Users -> [Repos -> Ranks]]
    BY <1>10, <2>1 DEF SetRole
  <2>3. authorized' \in [Callers -> BOOLEAN]
    BY <1>10 DEF SetRole
  <2>4. QED BY <1>10, <2>2, <2>3 DEF SetRole
<1>11. CASE Tick
  BY <1>11 DEF Tick
<1>12. CASE UNCHANGED ticketVars
  BY <1>12 DEF ticketVars
<1>13. QED
  BY <1>1, <1>2, <1>3, <1>4, <1>5, <1>6, <1>7, <1>8, <1>9, <1>10, <1>11, <1>12
     DEF TicketNext, BeginCall, CallStep, Environment

\* The table, the roles and the calls in flight keep their types.
THEOREM TicketTypeCorrect == TicketSpec => []TicketTypeOK
  BY TicketTypeInit, TicketTypeStep, PTL DEF TicketSpec

----------------------------------------------------------------------------
(* The inductive invariant.  None of the properties is inductive alone:    *)
(* each needs to know what a call in flight has established so far.        *)

\* A call names a ticket while it works on one, and has no result before the end.
CallShape ==
    \A c \in Callers :
        /\ calls[c].pc # "done" => calls[c].result = "none"
        /\ calls[c].pc \in {"activate", "consumeClassify", "renew", "renewClassify"} =>
                calls[c].t \in Tickets
        /\ calls[c].pc \in {"consumeRole", "renewRole"} =>
                calls[c].t \in Tickets /\ Exists(calls[c].t)
        /\ calls[c].pc = "done" => calls[c].t \in Tickets
        /\ calls[c].now <= clock

\* The ghost never misses an instant at which the owner's role suffices, and
\* a call past its role check has seen such an instant.
AuthorizationKnown ==
    \A c \in Callers :
        /\ calls[c].pc = "insert" => authorized[c]
        /\ (calls[c].t \in Tickets /\ Exists(calls[c].t) /\ OwnerSufficient(calls[c].t))
                => authorized[c]
        /\ (/\ calls[c].pc = "activate"
            /\ Exists(calls[c].t)
            /\ tickets[calls[c].t].op = calls[c].op
            /\ tickets[calls[c].t].repo = calls[c].repo) => authorized[c]
        /\ (calls[c].pc = "renew" /\ Exists(calls[c].t)) => authorized[c]

\* A consume call that could not activate a live ticket of its scope lost to
\* another one.
LostToAnother ==
    \A c \in Callers :
        (/\ calls[c].pc = "consumeClassify"
         /\ Exists(calls[c].t)
         /\ tickets[calls[c].t].op = calls[c].op
         /\ tickets[calls[c].t].repo = calls[c].repo
         /\ tickets[calls[c].t].expiresAt > calls[c].now)
            => tickets[calls[c].t].status # "issued"

\* A granted call consumed its ticket.
GrantConsumes ==
    \A c \in Callers :
        calls[c].result = "granted" => tickets[calls[c].t].status \in {"active", "closed"}

\* A row names a user, an operation and a repository, as the call that is
\* about to insert it does.
Scoped ==
    /\ \A t \in Tickets : Exists(t) =>
            tickets[t].user \in Users /\ tickets[t].op \in Ops /\ tickets[t].repo \in Repos
    /\ \A c \in Callers : calls[c].pc = "insert" =>
            calls[c].user \in Users /\ calls[c].op \in Ops /\ calls[c].repo \in Repos

TicketIInv ==
    /\ TicketTypeOK
    /\ Scoped
    /\ CallShape
    /\ AuthorizationKnown
    /\ RevocationHonoured
    /\ ExpiryWithinTtl
    /\ LostToAnother
    /\ RefusalIsTruthful
    /\ GrantConsumes

\* The invariant holds when the service starts.
LEMMA TicketIInvInit == TicketInit => TicketIInv
<1> SUFFICES ASSUME TicketInit PROVE TicketIInv
  OBVIOUS
<1>1. TicketTypeOK
  BY TicketTypeInit
<1>2. \A c \in Callers : calls[c] = IdleCall
  BY DEF TicketInit
<1>3. \A t \in Tickets : tickets[t].expiresAt <= clock + Ttl
  BY TicketAssumptions DEF TicketInit, NoTicket, SurvivingTicket
<1>4. Scoped
  BY <1>2 DEF Scoped, TicketInit, NoTicket, SurvivingTicket, Exists, IdleCall
<1>5. QED
  BY <1>1, <1>2, <1>3, <1>4, TicketAssumptions
     DEF TicketInit, TicketIInv, CallShape, AuthorizationKnown, RevocationHonoured,
         ExpiryWithinTtl, LostToAnother, RefusalIsTruthful, GrantConsumes, IdleCall

\* Every step keeps the rows naming a user, an operation and a repository.
LEMMA ScopedStep ==
  ASSUME TicketTypeOK, CallShape, Scoped, [TicketNext]_ticketVars
  PROVE  Scoped'
<1> USE DEF TicketTypeOK, Scoped, Exists
<1>1. ASSUME NEW c \in Callers, BeginCall(c) PROVE Scoped'
  <2>1. UNCHANGED tickets
    BY <1>1 DEF BeginCall, IssueBegin, ConsumeBegin, RenewBegin
  <2>2. \A d \in Callers \ {c} : calls'[d] = calls[d]
    BY <1>1 DEF BeginCall, IssueBegin, ConsumeBegin, RenewBegin
  <2>3. calls'[c].pc = "insert" =>
            calls'[c].user \in Users /\ calls'[c].op \in Ops /\ calls'[c].repo \in Repos
    <3>1. ASSUME NEW u \in Users, NEW op \in Ops, NEW r \in Repos, NEW dry \in BOOLEAN,
                 IssueBegin(c, u, op, r, dry)
          PROVE  calls'[c].user = u /\ calls'[c].op = op /\ calls'[c].repo = r
      BY <3>1 DEF IssueBegin, IdleCall
    <3>2. ASSUME NEW t \in Tickets, NEW op \in Ops, NEW r \in Repos, ConsumeBegin(c, t, op, r)
          PROVE  calls'[c].pc # "insert"
      BY <3>2 DEF ConsumeBegin, IdleCall
    <3>3. ASSUME NEW t \in Tickets, RenewBegin(c, t)
          PROVE  calls'[c].pc # "insert"
      BY <3>3 DEF RenewBegin, IdleCall
    <3>4. QED BY <1>1, <3>1, <3>2, <3>3 DEF BeginCall
  <2>4. QED BY <2>1, <2>2, <2>3
<1>2. ASSUME NEW c \in Callers, IssueInsert(c) PROVE Scoped'
  <2>1. calls'[c].pc = "done" /\ \A d \in Callers \ {c} : calls'[d] = calls[d]
    BY <1>2 DEF IssueInsert, Call
  <2>2. \A t \in Tickets : tickets'[t].status # "absent" =>
          /\ tickets'[t].user \in Users /\ tickets'[t].op \in Ops
          /\ tickets'[t].repo \in Repos
    BY <1>2 DEF IssueInsert
  <2>3. QED BY <2>1, <2>2
<1>3. ASSUME NEW c \in Callers, CallStep(c), ~IssueInsert(c) PROVE Scoped'
  <2>1. \A d \in Callers \ {c} : calls'[d] = calls[d]
    BY <1>3 DEF CallStep, ConsumeRoleCheck, ConsumeActivate, ConsumeClassify,
       RenewRoleCheck, RenewUpdate, RenewClassify, Resolve, Advance
  <2>2. calls'[c].pc # "insert"
    BY <1>3 DEF CallStep, ConsumeRoleCheck, ConsumeActivate, ConsumeClassify,
       RenewRoleCheck, RenewUpdate, RenewClassify, Resolve, Advance, Call
  <2>3. \A t \in Tickets :
          /\ tickets'[t].user = tickets[t].user /\ tickets'[t].op = tickets[t].op
          /\ tickets'[t].repo = tickets[t].repo
    BY <1>3 DEF CallStep, ConsumeRoleCheck, ConsumeActivate, ConsumeClassify,
       RenewRoleCheck, RenewUpdate, RenewClassify, Ticket
  <2>4. \A t \in Tickets : tickets[t].status = "absent" => tickets'[t].status = "absent"
    BY <1>3 DEF CallStep, ConsumeRoleCheck, ConsumeActivate, ConsumeClassify,
       RenewRoleCheck, RenewUpdate, RenewClassify, Ticket, CanActivate
  <2>5. QED BY <2>1, <2>2, <2>3, <2>4
<1>4. ASSUME NEW c \in Callers, Return(c) PROVE Scoped'
  BY <1>4 DEF Return, IdleCall
<1>5. ASSUME NEW t \in Tickets, CloseTicket(t) PROVE Scoped'
  BY <1>5 DEF CloseTicket, CanClose, Ticket
<1>6. ASSUME UNCHANGED <<tickets, calls>> PROVE Scoped'
  BY <1>6
<1>7. QED
  BY <1>1, <1>2, <1>3, <1>4, <1>5, <1>6
     DEF TicketNext, Environment, SetRole, Tick, ticketVars

\* Every step of the service keeps the invariant.
LEMMA TicketIInvStep == TicketIInv /\ [TicketNext]_ticketVars => TicketIInv'
<1> SUFFICES ASSUME TicketIInv, [TicketNext]_ticketVars PROVE TicketIInv'
  OBVIOUS
<1>t. TicketTypeOK'
  BY TicketTypeStep DEF TicketIInv
<1>s. Scoped'
  BY ScopedStep DEF TicketIInv
<1> USE <1>t, <1>s DEF TicketIInv
<1>1. ASSUME NEW c \in Callers, NEW u \in Users, NEW op \in Ops, NEW r \in Repos,
             NEW dry \in BOOLEAN, IssueBegin(c, u, op, r, dry)
      PROVE  TicketIInv'
  BY <1>1, TicketAssumptions DEF IssueBegin, IdleCall, TicketTypeOK, CallShape,
     AuthorizationKnown, RevocationHonoured, ExpiryWithinTtl, LostToAnother,
     RefusalIsTruthful, GrantConsumes, Exists, OwnerSufficient, Sufficient
<1>2. ASSUME NEW c \in Callers, NEW t \in Tickets, NEW op \in Ops, NEW r \in Repos,
             ConsumeBegin(c, t, op, r)
      PROVE  TicketIInv'
  <2>1. UNCHANGED <<clock, role, tickets>>
    BY <1>2 DEF ConsumeBegin
  <2>2. \A d \in Callers \ {c} : calls'[d] = calls[d] /\ authorized'[d] = authorized[d]
    BY <1>2 DEF ConsumeBegin, TicketTypeOK
  <2>3. /\ calls'[c].pc \in {"consumeRole", "activate"}
        /\ calls'[c].pc = "consumeRole" <=>
                Exists(t) /\ tickets[t].op = op /\ tickets[t].repo = r
        /\ calls'[c].t = t /\ calls'[c].op = op /\ calls'[c].repo = r
        /\ calls'[c].now = clock /\ calls'[c].result = "none"
    BY <1>2 DEF ConsumeBegin, TicketTypeOK, IdleCall
  <2>4. authorized'[c] <=> Exists(t) /\ OwnerSufficient(t)
    BY <1>2 DEF ConsumeBegin, TicketTypeOK
  <2>5. CallShape'
    BY <2>1, <2>2, <2>3 DEF CallShape, Exists, TicketTypeOK
  <2>6. AuthorizationKnown'
    BY <2>1, <2>2, <2>3, <2>4 DEF AuthorizationKnown, Exists, OwnerSufficient, Sufficient
  <2>7. RevocationHonoured' /\ RefusalIsTruthful' /\ GrantConsumes'
    BY <2>1, <2>2, <2>3 DEF RevocationHonoured, RefusalIsTruthful, GrantConsumes
  <2>8. ExpiryWithinTtl' /\ LostToAnother'
    BY <2>1, <2>2, <2>3 DEF ExpiryWithinTtl, LostToAnother, Exists
  <2>9. QED BY <2>5, <2>6, <2>7, <2>8
<1>3. ASSUME NEW c \in Callers, NEW t \in Tickets, RenewBegin(c, t)
      PROVE  TicketIInv'
  <2>1. UNCHANGED <<clock, role, tickets>>
    BY <1>3 DEF RenewBegin
  <2>2. \A d \in Callers \ {c} : calls'[d] = calls[d] /\ authorized'[d] = authorized[d]
    BY <1>3 DEF RenewBegin, TicketTypeOK
  <2>3. /\ calls'[c].pc \in {"renewRole", "renew"}
        /\ calls'[c].pc = "renewRole" <=> Exists(t)
        /\ calls'[c].t = t /\ calls'[c].now = clock /\ calls'[c].result = "none"
    BY <1>3 DEF RenewBegin, TicketTypeOK, IdleCall
  <2>4. authorized'[c] <=> Exists(t) /\ OwnerSufficient(t)
    BY <1>3 DEF RenewBegin, TicketTypeOK
  <2>5. CallShape'
    BY <2>1, <2>2, <2>3 DEF CallShape, Exists, TicketTypeOK
  <2>6. AuthorizationKnown'
    BY <2>1, <2>2, <2>3, <2>4 DEF AuthorizationKnown, Exists, OwnerSufficient, Sufficient
  <2>7. RevocationHonoured' /\ RefusalIsTruthful' /\ GrantConsumes'
    BY <2>1, <2>2, <2>3 DEF RevocationHonoured, RefusalIsTruthful, GrantConsumes
  <2>8. ExpiryWithinTtl' /\ LostToAnother'
    BY <2>1, <2>2, <2>3 DEF ExpiryWithinTtl, LostToAnother, Exists
  <2>9. QED BY <2>5, <2>6, <2>7, <2>8
<1>4. ASSUME NEW c \in Callers, IssueInsert(c)
      PROVE  TicketIInv'
  <2>1. PICK t \in Tickets :
          /\ ~Exists(t)
          /\ \A d \in Callers : calls[d].t # t
          /\ tickets' = [tickets EXCEPT ![t] =
                [status |-> "issued", user |-> calls[c].user, op |-> calls[c].op,
                 repo |-> calls[c].repo, dryRun |-> calls[c].dryRun,
                 expiresAt |-> calls[c].now + Ttl]]
          /\ calls' = [calls EXCEPT ![c].pc = "done", ![c].t = t, ![c].result = "issued"]
    BY <1>4 DEF IssueInsert
  <2>2. UNCHANGED <<clock, role, authorized>> /\ calls[c].pc = "insert"
    BY <1>4 DEF IssueInsert
  <2>3. \A d \in Callers \ {c} : calls'[d] = calls[d]
    BY <2>1 DEF TicketTypeOK
  <2>4. \A x \in Tickets \ {t} : tickets'[x] = tickets[x]
    BY <2>1 DEF TicketTypeOK
  <2>5. /\ calls'[c].pc = "done" /\ calls'[c].t = t /\ calls'[c].result = "issued"
        /\ calls'[c].now = calls[c].now
    BY <2>1 DEF TicketTypeOK, Call
  <2>6. tickets'[t].status = "issued" /\ tickets'[t].expiresAt <= clock + Ttl
    <3>1. tickets'[t].status = "issued" /\ tickets'[t].expiresAt = calls[c].now + Ttl
      BY <2>1 DEF TicketTypeOK
    <3>2. calls[c].now + Ttl <= clock + Ttl
      BY TicketAssumptions DEF CallShape, TicketTypeOK, Call
    <3>3. QED BY <3>1, <3>2
  <2>7. authorized'[c]
    BY <2>2 DEF AuthorizationKnown
  <2>8. ASSUME NEW d \in Callers \ {c}, calls[d].t \in Tickets
        PROVE  tickets'[calls'[d].t] = tickets[calls[d].t]
    BY <2>1, <2>3, <2>4, <2>8
  <2>9. CallShape' /\ AuthorizationKnown'
    <3> SUFFICES ASSUME NEW d \in Callers
                 PROVE  CallShape!(d)' /\ AuthorizationKnown!(d)'
      BY DEF CallShape, AuthorizationKnown
    <3>1. CASE d = c
      BY <3>1, <2>1, <2>2, <2>5, <2>7 DEF CallShape
    <3>2. CASE d # c /\ calls[d].t \in Tickets
      BY <3>2, <2>2, <2>3, <2>8
         DEF CallShape, AuthorizationKnown, Exists, OwnerSufficient, Sufficient
    <3>3. CASE d # c /\ calls[d].t \notin Tickets
      BY <3>3, <2>2, <2>3
         DEF CallShape, AuthorizationKnown, Exists, OwnerSufficient, Sufficient
    <3>4. QED BY <3>1, <3>2, <3>3
  <2>10. RevocationHonoured'
    BY <2>2, <2>3, <2>5, <2>7 DEF RevocationHonoured
  <2>11. ExpiryWithinTtl'
    BY <2>2, <2>4, <2>6, TicketAssumptions DEF ExpiryWithinTtl, TicketTypeOK
  <2>12. LostToAnother'
    BY <2>3, <2>5, <2>8 DEF LostToAnother, CallShape, Exists
  <2>13. RefusalIsTruthful' /\ GrantConsumes'
    BY <2>3, <2>5, <2>8 DEF RefusalIsTruthful, GrantConsumes, CallShape
  <2>14. QED BY <2>9, <2>10, <2>11, <2>12, <2>13
<1>5. ASSUME NEW c \in Callers, ConsumeRoleCheck(c) \/ RenewRoleCheck(c)
      PROVE  TicketIInv'
  <2>1. UNCHANGED <<clock, role, tickets, authorized>>
    BY <1>5 DEF ConsumeRoleCheck, RenewRoleCheck
  <2>2. \A d \in Callers \ {c} : calls'[d] = calls[d]
    BY <1>5 DEF ConsumeRoleCheck, RenewRoleCheck, Advance, Resolve, TicketTypeOK
  <2>3. /\ calls'[c].t = calls[c].t /\ calls'[c].now = calls[c].now
        /\ calls[c].pc \in {"consumeRole", "renewRole"}
        /\ \/ /\ OwnerSufficient(calls[c].t)
              /\ calls'[c].pc \in {"activate", "renew"}
              /\ calls'[c].result = calls[c].result
           \/ /\ calls'[c].pc = "done" /\ calls'[c].result = "roleRevoked"
    BY <1>5 DEF ConsumeRoleCheck, RenewRoleCheck, Advance, Resolve, TicketTypeOK, Call
  <2>4. calls'[c].pc \in {"activate", "renew"} => authorized'[c]
    BY <2>1, <2>3 DEF AuthorizationKnown, CallShape
  <2>5. CallShape'
    BY <2>1, <2>2, <2>3 DEF CallShape, Exists
  <2>6. AuthorizationKnown'
    BY <2>1, <2>2, <2>3, <2>4
       DEF AuthorizationKnown, Exists, OwnerSufficient, Sufficient
  <2>7. RevocationHonoured' /\ RefusalIsTruthful' /\ GrantConsumes'
    BY <2>1, <2>2, <2>3 DEF RevocationHonoured, RefusalIsTruthful, GrantConsumes, CallShape
  <2>8. ExpiryWithinTtl' /\ LostToAnother'
    BY <2>1, <2>2, <2>3 DEF ExpiryWithinTtl, LostToAnother, Exists
  <2>9. QED BY <2>5, <2>6, <2>7, <2>8
<1>6. ASSUME NEW c \in Callers, ConsumeActivate(c)
      PROVE  TicketIInv'
  <2> DEFINE t == calls[c].t
  <2>1. UNCHANGED <<clock, role, authorized>> /\ calls[c].pc = "activate" /\ t \in Tickets
    BY <1>6 DEF ConsumeActivate, CallShape
  <2>2. \A d \in Callers \ {c} : calls'[d] = calls[d]
    BY <1>6 DEF ConsumeActivate, Advance, Resolve, TicketTypeOK
  <2>3. /\ calls'[c].t = t /\ calls'[c].now = calls[c].now
        /\ calls'[c].op = calls[c].op /\ calls'[c].repo = calls[c].repo
    BY <1>6 DEF ConsumeActivate, Advance, Resolve, TicketTypeOK, Call
  <2>4. CASE CanActivate(t, calls[c].op, calls[c].repo, calls[c].now)
    <3>1. tickets' = [tickets EXCEPT ![t].status = "active"]
      BY <1>6, <2>4 DEF ConsumeActivate
    <3>2. calls'[c].pc = "done" /\ calls'[c].result = "granted"
      BY <1>6, <2>4 DEF ConsumeActivate, Resolve, TicketTypeOK, Call
    <3>3. \A x \in Tickets :
            /\ tickets'[x].user = tickets[x].user /\ tickets'[x].op = tickets[x].op
            /\ tickets'[x].repo = tickets[x].repo
            /\ tickets'[x].expiresAt = tickets[x].expiresAt
            /\ x # t => tickets'[x].status = tickets[x].status
      BY <3>1, <2>1 DEF TicketTypeOK, Ticket
    <3>4. tickets'[t].status = "active" /\ tickets[t].status = "issued"
      BY <3>1, <2>1, <2>4 DEF TicketTypeOK, Ticket, CanActivate
    <3>5. authorized'[c]
      BY <2>1, <2>4 DEF AuthorizationKnown, CanActivate, Exists
    <3>6. CallShape'
      BY <2>1, <2>2, <2>3, <3>2, <3>3, <3>4 DEF CallShape, Exists
    <3>7. AuthorizationKnown'
      <4> SUFFICES ASSUME NEW d \in Callers PROVE AuthorizationKnown!(d)'
        BY DEF AuthorizationKnown
      <4>1. CASE d = c
        BY <4>1, <3>2, <3>5
      <4>2. CASE d # c
        BY <4>2, <2>1, <2>2, <3>3, <3>4
           DEF AuthorizationKnown, CallShape, Exists, OwnerSufficient, Sufficient
      <4>3. QED BY <4>1, <4>2
    <3>8. RevocationHonoured'
      BY <2>1, <2>2, <3>5 DEF RevocationHonoured
    <3>9. RefusalIsTruthful' /\ GrantConsumes'
      BY <2>1, <2>2, <2>3, <3>2, <3>3, <3>4 DEF RefusalIsTruthful, GrantConsumes, CallShape
    <3>10. ExpiryWithinTtl'
      BY <2>1, <3>3 DEF ExpiryWithinTtl
    <3>11. LostToAnother'
      BY <2>2, <3>2, <3>3, <3>4 DEF LostToAnother, CallShape, Exists
    <3>12. QED BY <3>6, <3>7, <3>8, <3>9, <3>10, <3>11
  <2>5. CASE ~CanActivate(t, calls[c].op, calls[c].repo, calls[c].now)
    <3>1. /\ UNCHANGED tickets
          /\ calls'[c].pc = "consumeClassify" /\ calls'[c].result = calls[c].result
      BY <1>6, <2>5 DEF ConsumeActivate, Advance, TicketTypeOK, Call
    <3>2. CallShape'
      BY <2>1, <2>2, <2>3, <3>1 DEF CallShape, Exists
    <3>3. AuthorizationKnown'
      BY <2>1, <2>2, <2>3, <3>1
         DEF AuthorizationKnown, Exists, OwnerSufficient, Sufficient
    <3>4. RevocationHonoured' /\ RefusalIsTruthful' /\ GrantConsumes'
      BY <2>1, <2>2, <2>3, <3>1
         DEF RevocationHonoured, RefusalIsTruthful, GrantConsumes, CallShape
    <3>5. ExpiryWithinTtl'
      BY <2>1, <3>1 DEF ExpiryWithinTtl
    <3>6. LostToAnother'
      BY <2>2, <2>3, <2>5, <3>1 DEF LostToAnother, Exists, CanActivate
    <3>7. QED BY <3>2, <3>3, <3>4, <3>5, <3>6
  <2>6. QED BY <2>4, <2>5
<1>7. ASSUME NEW c \in Callers, ConsumeClassify(c) \/ RenewClassify(c)
      PROVE  TicketIInv'
  <2>1. UNCHANGED <<clock, role, tickets, authorized>>
    BY <1>7 DEF ConsumeClassify, RenewClassify
  <2>2. \A d \in Callers \ {c} : calls'[d] = calls[d]
    BY <1>7 DEF ConsumeClassify, RenewClassify, Resolve, TicketTypeOK
  <2>3. /\ calls'[c].t = calls[c].t /\ calls'[c].now = calls[c].now
        /\ calls[c].pc \in {"consumeClassify", "renewClassify"}
        /\ calls'[c].pc = "done"
        /\ calls'[c].result \in {"notFound", "expired", "mismatch", "alreadyConsumed"}
    BY <1>7 DEF ConsumeClassify, RenewClassify, Resolve, TicketTypeOK, Call
  <2>4. calls'[c].result = "alreadyConsumed" =>
          /\ calls[c].pc = "consumeClassify"
          /\ Exists(calls[c].t)
          /\ ~(tickets[calls[c].t].expiresAt <= calls[c].now)
          /\ tickets[calls[c].t].op = calls[c].op
          /\ tickets[calls[c].t].repo = calls[c].repo
    BY <1>7 DEF ConsumeClassify, RenewClassify, Resolve, TicketTypeOK, Call, Exists
  <2>5. CallShape'
    BY <2>1, <2>2, <2>3 DEF CallShape, Exists
  <2>6. AuthorizationKnown'
    BY <2>1, <2>2, <2>3 DEF AuthorizationKnown, Exists, OwnerSufficient, Sufficient
  <2>7. RevocationHonoured' /\ GrantConsumes'
    BY <2>1, <2>2, <2>3 DEF RevocationHonoured, GrantConsumes
  <2>8. ExpiryWithinTtl' /\ LostToAnother'
    BY <2>1, <2>2, <2>3 DEF ExpiryWithinTtl, LostToAnother, Exists
  <2>9. calls'[c].result = "alreadyConsumed" =>
          tickets[calls[c].t].status \in {"active", "closed"}
    <3>1. calls[c].t \in Tickets
      BY <2>3 DEF CallShape
    <3>2. /\ tickets[calls[c].t].status \in TicketStatus
          /\ tickets[calls[c].t].expiresAt \in Nat /\ calls[c].now \in Nat
      BY <3>1 DEF TicketTypeOK, Ticket, Call
    <3>3. QED BY <2>4, <3>2 DEF LostToAnother, TicketStatus, Exists
  <2>10. RefusalIsTruthful'
    BY <2>1, <2>2, <2>3, <2>9 DEF RefusalIsTruthful
  <2>11. QED BY <2>5, <2>6, <2>7, <2>8, <2>10
<1>8. ASSUME NEW c \in Callers, RenewUpdate(c)
      PROVE  TicketIInv'
  <2> DEFINE t == calls[c].t
  <2>1. UNCHANGED <<clock, role, authorized>> /\ calls[c].pc = "renew" /\ t \in Tickets
    BY <1>8 DEF RenewUpdate, CallShape
  <2>2. \A d \in Callers \ {c} : calls'[d] = calls[d]
    BY <1>8 DEF RenewUpdate, Advance, Resolve, TicketTypeOK
  <2>3. calls'[c].t = t /\ calls'[c].now = calls[c].now
    BY <1>8 DEF RenewUpdate, Advance, Resolve, TicketTypeOK, Call
  <2>4. CASE CanRenew(t, calls[c].now)
    <3>1. tickets' = [tickets EXCEPT ![t].expiresAt = calls[c].now + Ttl]
      BY <1>8, <2>4 DEF RenewUpdate
    <3>2. calls'[c].pc = "done" /\ calls'[c].result = "renewed"
      BY <1>8, <2>4 DEF RenewUpdate, Resolve, TicketTypeOK, Call
    <3>3. \A x \in Tickets :
            /\ tickets'[x].user = tickets[x].user /\ tickets'[x].op = tickets[x].op
            /\ tickets'[x].repo = tickets[x].repo
            /\ tickets'[x].status = tickets[x].status
            /\ x # t => tickets'[x].expiresAt = tickets[x].expiresAt
      BY <3>1, <2>1 DEF TicketTypeOK, Ticket
    <3>4. tickets'[t].expiresAt = calls[c].now + Ttl /\ tickets[t].status = "active"
      BY <3>1, <2>1, <2>4 DEF TicketTypeOK, Ticket, CanRenew
    <3>5. authorized'[c]
      BY <2>1, <2>4 DEF AuthorizationKnown, CanRenew, Exists
    <3>6. CallShape'
      BY <2>1, <2>2, <2>3, <3>2, <3>3 DEF CallShape, Exists
    <3>7. AuthorizationKnown'
      <4> SUFFICES ASSUME NEW d \in Callers PROVE AuthorizationKnown!(d)'
        BY DEF AuthorizationKnown
      <4>1. CASE d = c
        BY <4>1, <3>2, <3>5
      <4>2. CASE d # c
        BY <4>2, <2>1, <2>2, <3>3
           DEF AuthorizationKnown, CallShape, Exists, OwnerSufficient, Sufficient
      <4>3. QED BY <4>1, <4>2
    <3>8. RevocationHonoured'
      BY <2>1, <2>2, <3>5 DEF RevocationHonoured
    <3>9. RefusalIsTruthful' /\ GrantConsumes'
      BY <2>1, <2>2, <2>3, <3>2, <3>3 DEF RefusalIsTruthful, GrantConsumes, CallShape
    <3>10. ExpiryWithinTtl'
      <4>1. calls[c].now + Ttl <= clock + Ttl
        BY TicketAssumptions DEF CallShape, TicketTypeOK, Call
      <4>2. QED BY <4>1, <2>1, <3>3, <3>4 DEF ExpiryWithinTtl
    <3>11. LostToAnother'
      BY <2>2, <3>2, <3>3, <3>4 DEF LostToAnother, CallShape, Exists
    <3>12. QED BY <3>6, <3>7, <3>8, <3>9, <3>10, <3>11
  <2>5. CASE ~CanRenew(t, calls[c].now)
    <3>1. /\ UNCHANGED tickets
          /\ calls'[c].pc = "renewClassify" /\ calls'[c].result = calls[c].result
      BY <1>8, <2>5 DEF RenewUpdate, Advance, TicketTypeOK, Call
    <3>2. CallShape'
      BY <2>1, <2>2, <2>3, <3>1 DEF CallShape, Exists
    <3>3. AuthorizationKnown'
      BY <2>1, <2>2, <2>3, <3>1
         DEF AuthorizationKnown, Exists, OwnerSufficient, Sufficient
    <3>4. RevocationHonoured' /\ RefusalIsTruthful' /\ GrantConsumes'
      BY <2>1, <2>2, <2>3, <3>1
         DEF RevocationHonoured, RefusalIsTruthful, GrantConsumes, CallShape
    <3>5. ExpiryWithinTtl' /\ LostToAnother'
      BY <2>1, <2>2, <3>1 DEF ExpiryWithinTtl, LostToAnother, Exists
    <3>6. QED BY <3>2, <3>3, <3>4, <3>5
  <2>6. QED BY <2>4, <2>5
<1>9. ASSUME NEW c \in Callers, Return(c)
      PROVE  TicketIInv'
  <2>1. UNCHANGED <<clock, role, tickets>>
    BY <1>9 DEF Return
  <2>2. \A d \in Callers \ {c} : calls'[d] = calls[d] /\ authorized'[d] = authorized[d]
    BY <1>9 DEF Return, TicketTypeOK
  <2>3. /\ calls'[c].pc = "idle" /\ calls'[c].t \notin Tickets
        /\ calls'[c].now = 0 /\ calls'[c].result = "none"
    BY <1>9, TicketAssumptions DEF Return, TicketTypeOK, IdleCall
  <2>4. CallShape'
    BY <2>1, <2>2, <2>3 DEF CallShape, Exists, TicketTypeOK
  <2>5. AuthorizationKnown'
    BY <2>1, <2>2, <2>3 DEF AuthorizationKnown, Exists, OwnerSufficient, Sufficient
  <2>6. RevocationHonoured' /\ RefusalIsTruthful' /\ GrantConsumes'
    BY <2>1, <2>2, <2>3 DEF RevocationHonoured, RefusalIsTruthful, GrantConsumes
  <2>7. ExpiryWithinTtl' /\ LostToAnother'
    BY <2>1, <2>2, <2>3 DEF ExpiryWithinTtl, LostToAnother, Exists
  <2>8. QED BY <2>4, <2>5, <2>6, <2>7
<1>10. ASSUME NEW t \in Tickets, CloseTicket(t)
       PROVE  TicketIInv'
  <2>1. UNCHANGED <<clock, role, calls, authorized>> /\ tickets[t].status = "active"
    BY <1>10 DEF CloseTicket, CanClose
  <2>2. \A x \in Tickets :
          /\ tickets'[x].user = tickets[x].user /\ tickets'[x].op = tickets[x].op
          /\ tickets'[x].repo = tickets[x].repo
          /\ tickets'[x].expiresAt = tickets[x].expiresAt
          /\ x # t => tickets'[x].status = tickets[x].status
    BY <1>10 DEF CloseTicket, TicketTypeOK, Ticket
  <2>3. tickets'[t].status = "closed"
    BY <1>10 DEF CloseTicket, TicketTypeOK, Ticket
  <2>4. CallShape'
    BY <2>1, <2>2, <2>3 DEF CallShape, Exists
  <2>5. AuthorizationKnown'
    BY <2>1, <2>2, <2>3
       DEF AuthorizationKnown, CallShape, Exists, OwnerSufficient, Sufficient
  <2>6. RevocationHonoured' /\ RefusalIsTruthful' /\ GrantConsumes'
    BY <2>1, <2>2, <2>3
       DEF RevocationHonoured, RefusalIsTruthful, GrantConsumes, CallShape
  <2>7. ExpiryWithinTtl' /\ LostToAnother'
    BY <2>1, <2>2, <2>3 DEF ExpiryWithinTtl, LostToAnother, CallShape, Exists
  <2>8. QED BY <2>4, <2>5, <2>6, <2>7
<1>11. ASSUME NEW u \in Users, NEW r \in Repos, NEW k \in Grantable, SetRole(u, r, k)
       PROVE  TicketIInv'
  <2>1. UNCHANGED <<clock, tickets, calls>>
    BY <1>11 DEF SetRole
  <2>2. \A c \in Callers : authorized'[c] <=>
          \/ authorized[c]
          \/ /\ calls[c].t \in Tickets /\ Exists(calls[c].t)
             /\ tickets[calls[c].t].user = u /\ tickets[calls[c].t].repo = r
             /\ k >= MinimumRank(tickets[calls[c].t].op)
    BY <1>11 DEF SetRole
  <2>3. \A v, q : v # u \/ q # r => role'[v][q] = role[v][q]
    BY <1>11 DEF SetRole, TicketTypeOK
  <2>4. role'[u][r] = k
    BY <1>11 DEF SetRole, TicketTypeOK
  <2>5. AuthorizationKnown'
    BY <2>1, <2>2, <2>3, <2>4
       DEF AuthorizationKnown, Exists, OwnerSufficient, Sufficient
  <2>6. RevocationHonoured'
    BY <2>1, <2>2 DEF RevocationHonoured
  <2>7. CallShape' /\ RefusalIsTruthful' /\ GrantConsumes' /\ ExpiryWithinTtl' /\ LostToAnother'
    BY <2>1 DEF CallShape, RefusalIsTruthful, GrantConsumes, ExpiryWithinTtl,
                LostToAnother, Exists
  <2>8. QED BY <2>5, <2>6, <2>7
<1>12. CASE Tick
  BY <1>12, TicketAssumptions DEF Tick, TicketTypeOK, Call, Ticket, CallShape,
     AuthorizationKnown, RevocationHonoured, ExpiryWithinTtl, LostToAnother,
     RefusalIsTruthful, GrantConsumes, Exists, OwnerSufficient, Sufficient
<1>13. CASE UNCHANGED ticketVars
  BY <1>13 DEF ticketVars, CallShape, AuthorizationKnown, RevocationHonoured,
     ExpiryWithinTtl, LostToAnother, RefusalIsTruthful, GrantConsumes, Exists,
     OwnerSufficient, Sufficient
<1>14. QED
  BY <1>1, <1>2, <1>3, <1>4, <1>5, <1>6, <1>7, <1>8, <1>9, <1>10, <1>11, <1>12, <1>13
     DEF TicketNext, BeginCall, CallStep, Environment

\* The invariant holds in every state the service reaches.
LEMMA TicketIInvCorrect == TicketSpec => []TicketIInv
  BY TicketIInvInit, TicketIInvStep, PTL DEF TicketSpec

\* No role revoked before a call began lets that call issue, consume or renew a
\* ticket: the re-check of assertRoleStillSufficient is tight for every
\* interleaving of callers, administrators and the clock.
THEOREM RevocationHonouredAlways == TicketSpec => []RevocationHonoured
<1>1. TicketIInv => RevocationHonoured
  BY DEF TicketIInv
<1>2. QED BY <1>1, TicketIInvCorrect, PTL

\* The sliding window of renewTicket never reaches further than one TTL.
THEOREM ExpiryWithinTtlAlways == TicketSpec => []ExpiryWithinTtl
<1>1. TicketIInv => ExpiryWithinTtl
  BY DEF TicketIInv
<1>2. QED BY <1>1, TicketIInvCorrect, PTL

\* consumeTicket answers "already consumed" only of a consumed ticket.
THEOREM RefusalIsTruthfulAlways == TicketSpec => []RefusalIsTruthful
<1>1. TicketIInv => RefusalIsTruthful
  BY DEF TicketIInv
<1>2. QED BY <1>1, TicketIInvCorrect, PTL

=============================================================================
