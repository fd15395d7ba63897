--------------------------- MODULE TransferTickets ---------------------------
(***************************************************************************)
(* Ephemeral transfer tickets: TicketService over LibsqlTicketStore, and   *)
(* the REST routes that issue and close tickets (contexts/transfer).       *)
(*                                                                         *)
(* Every `await` of the service is a point where other requests run, so a  *)
(* call in flight is a record in calls[c] and each step between two awaits *)
(* is one action.  A store method is one SQL statement, hence atomic.      *)
(***************************************************************************)
EXTENDS Integers

CONSTANTS
    Users,        \* user names
    Repos,        \* repository ids
    Tickets,      \* ticket ids that randomBytes(32) may hand out
    Callers,      \* concurrent callers of the ticket service
    Ttl,          \* DELTIX ticket TTL, in clock units
    MaxTime,      \* bound: the clock stops here
    Grantable,    \* role ranks that may be set (0 = revoked, 3 = admin)
    Nil           \* "no value"

ASSUME TicketAssumptions ==
    /\ Ttl \in Nat \ {0}
    /\ MaxTime \in Nat
    /\ Grantable \subseteq 0..3 /\ 3 \in Grantable
    /\ Nil \notin Users \cup Repos \cup Tickets \cup {"push", "pull"}

VARIABLES
    clock,        \* Date.now()
    role,         \* role[u][r]: rank of the repo_roles row, 0 when there is none
    tickets,      \* table transfer_tickets
    calls,        \* service calls in flight, one per caller
    authorized    \* ghost: since its call began, has the ticket's owner held
                  \* a sufficient role at some instant?

ticketVars == <<clock, role, tickets, calls, authorized>>

Ops == {"push", "pull"}

Ranks == 0..3

\* ROLE_RANK[MINIMUM_ROLE_FOR_OPERATION[op]]: writer for push, reader for pull.
MinimumRank(op) == IF op = "push" THEN 2 ELSE 1

Sufficient(u, op, r) == role[u][r] >= MinimumRank(op)

TicketStatus == {"absent", "issued", "active", "closed"}

Ticket ==
    [status : TicketStatus, user : Users \cup {Nil}, op : Ops \cup {Nil},
     repo : Repos \cup {Nil}, dryRun : BOOLEAN, expiresAt : Nat]

NoTicket ==
    [status |-> "absent", user |-> Nil, op |-> Nil, repo |-> Nil,
     dryRun |-> FALSE, expiresAt |-> 0]

CallPC ==
    {"idle", "insert", "consumeRole", "activate", "consumeClassify",
     "renewRole", "renew", "renewClassify", "done"}

Results ==
    {"none", "issued", "granted", "renewed",
     "roleRevoked", "notFound", "expired", "mismatch", "alreadyConsumed"}

Call ==
    [pc : CallPC, t : Tickets \cup {Nil}, user : Users \cup {Nil},
     op : Ops \cup {Nil}, repo : Repos \cup {Nil}, dryRun : BOOLEAN,
     now : Nat, result : Results]

IdleCall ==
    [pc |-> "idle", t |-> Nil, user |-> Nil, op |-> Nil, repo |-> Nil,
     dryRun |-> FALSE, now |-> 0, result |-> "none"]

Exists(t) == tickets[t].status # "absent"

\* The owner of ticket t currently holds the role the ticket's operation needs.
OwnerSufficient(t) == Sufficient(tickets[t].user, tickets[t].op, tickets[t].repo)

Resolve(c, result) == calls' = [calls EXCEPT ![c].pc = "done", ![c].result = result]

Advance(c, pc) == calls' = [calls EXCEPT ![c].pc = pc]

----------------------------------------------------------------------------
(* WHERE clauses of the store's conditional UPDATEs.                       *)

\* Mutant: the status is not part of the WHERE clause.
CanActivateAnyStatus(t, op, r, now) ==
    /\ tickets[t].op = op
    /\ tickets[t].repo = r
    /\ Exists(t)
    /\ tickets[t].expiresAt > now

CanActivate(t, op, r, now) ==
    /\ tickets[t].op = op
    /\ tickets[t].repo = r
    /\ tickets[t].status = "issued"
    /\ tickets[t].expiresAt > now

CanRenew(t, now) ==
    /\ tickets[t].status = "active"
    /\ tickets[t].expiresAt > now

CanClose(t) == tickets[t].status = "active"

----------------------------------------------------------------------------
(* POST /push/ticket: the role gate, then issueTicket.                     *)

IssueBegin(c, u, op, r, dry) ==
    /\ calls[c].pc = "idle"
    /\ Sufficient(u, op, r)
    /\ dry => op = "push"
    /\ calls' = [calls EXCEPT ![c] =
            [IdleCall EXCEPT !.pc = "insert", !.user = u, !.op = op,
                             !.repo = r, !.dryRun = dry, !.now = clock]]
    /\ authorized' = [authorized EXCEPT ![c] = TRUE]
    /\ UNCHANGED <<clock, role, tickets>>

\* Mutant: the window is subtracted.
IssueInsertExpired(c) ==
    /\ calls[c].pc = "insert"
    /\ \E t \in Tickets :
        /\ ~Exists(t)
        /\ \A d \in Callers : calls[d].t # t
        /\ tickets' = [tickets EXCEPT ![t] =
                [status |-> "issued", user |-> calls[c].user, op |-> calls[c].op,
                 repo |-> calls[c].repo, dryRun |-> calls[c].dryRun,
                 expiresAt |-> calls[c].now - Ttl]]
        /\ calls' = [calls EXCEPT ![c].pc = "done", ![c].t = t,
                                  ![c].result = "issued"]
    /\ UNCHANGED <<clock, role, authorized>>

\* The id comes from randomBytes(32): never one a client has presented already.
IssueInsert(c) ==
    /\ calls[c].pc = "insert"
    /\ \E t \in Tickets :
        /\ ~Exists(t)
        /\ \A d \in Callers : calls[d].t # t
        /\ tickets' = [tickets EXCEPT ![t] =
                [status |-> "issued", user |-> calls[c].user, op |-> calls[c].op,
                 repo |-> calls[c].repo, dryRun |-> calls[c].dryRun,
                 expiresAt |-> calls[c].now + Ttl]]
        /\ calls' = [calls EXCEPT ![c].pc = "done", ![c].t = t,
                                  ![c].result = "issued"]
    /\ UNCHANGED <<clock, role, authorized>>

----------------------------------------------------------------------------
(* consumeTicket(ticketId, operation, repo).                               *)

\* `now` is read once, first.  The pre-check reads only columns that no
\* UPDATE ever writes, so it is taken together with the start of the call.
ConsumeBegin(c, t, op, r) ==
    /\ calls[c].pc = "idle"
    /\ calls' = [calls EXCEPT ![c] =
            [IdleCall EXCEPT
                !.pc = IF Exists(t) /\ tickets[t].op = op /\ tickets[t].repo = r
                         THEN "consumeRole" ELSE "activate",
                !.t = t, !.op = op, !.repo = r, !.now = clock]]
    /\ authorized' = [authorized EXCEPT ![c] = Exists(t) /\ OwnerSufficient(t)]
    /\ UNCHANGED <<clock, role, tickets>>

\* Mutant: the role is not read again.
ConsumeRoleSkipped(c) ==
    /\ calls[c].pc = "consumeRole"
    /\ Advance(c, "activate")
    /\ UNCHANGED <<clock, role, tickets, authorized>>

ConsumeRoleCheck(c) ==
    /\ calls[c].pc = "consumeRole"
    /\ IF OwnerSufficient(calls[c].t)
         THEN Advance(c, "activate")
         ELSE Resolve(c, "roleRevoked")
    /\ UNCHANGED <<clock, role, tickets, authorized>>

\* On success the ticket is read back; the columns used are immutable.
ConsumeActivate(c) ==
    /\ calls[c].pc = "activate"
    /\ LET t == calls[c].t IN
       IF CanActivate(t, calls[c].op, calls[c].repo, calls[c].now)
         THEN /\ tickets' = [tickets EXCEPT ![t].status = "active"]
              /\ Resolve(c, "granted")
         ELSE /\ Advance(c, "consumeClassify")
              /\ UNCHANGED tickets
    /\ UNCHANGED <<clock, role, authorized>>

\* Mutant: a ticket of another scope is not told apart.
ConsumeClassifyUnscoped(c) ==
    /\ calls[c].pc = "consumeClassify"
    /\ LET tk == tickets[calls[c].t] IN
       Resolve(c,
         IF tk.status = "absent" THEN "notFound"
         ELSE IF tk.expiresAt <= calls[c].now THEN "expired"
         ELSE "alreadyConsumed")
    /\ UNCHANGED <<clock, role, tickets, authorized>>

\* The ticket is read again to word the refusal.
ConsumeClassify(c) ==
    /\ calls[c].pc = "consumeClassify"
    /\ LET tk == tickets[calls[c].t] IN
       Resolve(c,
         IF tk.status = "absent" THEN "notFound"
         ELSE IF tk.expiresAt <= calls[c].now THEN "expired"
         ELSE IF tk.op # calls[c].op \/ tk.repo # calls[c].repo THEN "mismatch"
         ELSE "alreadyConsumed")
    /\ UNCHANGED <<clock, role, tickets, authorized>>

----------------------------------------------------------------------------
(* renewTicket(ticketId): the gRPC heartbeat.                              *)

RenewBegin(c, t) ==
    /\ calls[c].pc = "idle"
    /\ calls' = [calls EXCEPT ![c] =
            [IdleCall EXCEPT !.pc = IF Exists(t) THEN "renewRole" ELSE "renew",
                             !.t = t, !.now = clock]]
    /\ authorized' = [authorized EXCEPT ![c] = Exists(t) /\ OwnerSufficient(t)]
    /\ UNCHANGED <<clock, role, tickets>>

RenewRoleCheck(c) ==
    /\ calls[c].pc = "renewRole"
    /\ IF OwnerSufficient(calls[c].t)
         THEN Advance(c, "renew")
         ELSE Resolve(c, "roleRevoked")
    /\ UNCHANGED <<clock, role, tickets, authorized>>

\* Mutant: extends the old expiry instead of restarting the window at `now`.
RenewUpdateCumulative(c) ==
    /\ calls[c].pc = "renew"
    /\ LET t == calls[c].t IN
       IF CanRenew(t, calls[c].now)
         THEN /\ tickets' = [tickets EXCEPT ![t].expiresAt = @ + Ttl]
              /\ Resolve(c, "renewed")
         ELSE /\ Advance(c, "renewClassify")
              /\ UNCHANGED tickets
    /\ UNCHANGED <<clock, role, authorized>>

RenewUpdate(c) ==
    /\ calls[c].pc = "renew"
    /\ LET t == calls[c].t IN
       IF CanRenew(t, calls[c].now)
         THEN /\ tickets' = [tickets EXCEPT ![t].expiresAt = calls[c].now + Ttl]
              /\ Resolve(c, "renewed")
         ELSE /\ Advance(c, "renewClassify")
              /\ UNCHANGED tickets
    /\ UNCHANGED <<clock, role, authorized>>

RenewClassify(c) ==
    /\ calls[c].pc = "renewClassify"
    /\ Resolve(c, IF tickets[calls[c].t].status # "active" THEN "notFound" ELSE "expired")
    /\ UNCHANGED <<clock, role, tickets, authorized>>

----------------------------------------------------------------------------

\* The caller takes the result.
Return(c) ==
    /\ calls[c].pc = "done"
    /\ calls' = [calls EXCEPT ![c] = IdleCall]
    /\ authorized' = [authorized EXCEPT ![c] = FALSE]
    /\ UNCHANGED <<clock, role, tickets>>

\* closeTicket, from POST /auth/session-close or from a finishing session; a
\* ticket that is not active is left alone (TicketNotFoundError).
CloseTicket(t) ==
    /\ CanClose(t)
    /\ tickets' = [tickets EXCEPT ![t].status = "closed"]
    /\ UNCHANGED <<clock, role, calls, authorized>>

\* grantRepoRole and revokeRepoRole of the auth context.
SetRole(u, r, k) ==
    /\ role[u][r] # k
    /\ role' = [role EXCEPT ![u] = [@ EXCEPT ![r] = k]]
    /\ authorized' = [c \in Callers |->
            \/ authorized[c]
            \/ /\ calls[c].t \in Tickets
               /\ Exists(calls[c].t)
               /\ tickets[calls[c].t].user = u
               /\ tickets[calls[c].t].repo = r
               /\ k >= MinimumRank(tickets[calls[c].t].op)]
    /\ UNCHANGED <<clock, tickets, calls>>

Tick ==
    /\ clock < MaxTime
    /\ clock' = clock + 1
    /\ UNCHANGED <<role, tickets, calls, authorized>>

\* The table is a libSQL file: unused tickets survive a restart of the server.
SurvivingTicket ==
    {tk \in [status : {"issued"}, user : Users, op : Ops, repo : Repos,
             dryRun : BOOLEAN, expiresAt : 0..Ttl] : tk.dryRun => tk.op = "push"}

TicketInit ==
    /\ clock = 0
    /\ role \in [Users -> [Repos -> Grantable]]
    /\ tickets \in [Tickets -> {NoTicket} \cup SurvivingTicket]
    /\ calls = [c \in Callers |-> IdleCall]
    /\ authorized = [c \in Callers |-> FALSE]

\* A call continues after an await.
CallStep(c) ==
    \/ IssueInsert(c)
    \/ ConsumeRoleCheck(c) \/ ConsumeActivate(c) \/ ConsumeClassify(c)
    \/ RenewRoleCheck(c) \/ RenewUpdate(c) \/ RenewClassify(c)

Environment ==
    \/ \E t \in Tickets : CloseTicket(t)
    \/ \E u \in Users, r \in Repos, k \in Grantable : SetRole(u, r, k)
    \/ Tick

BeginCall(c) ==
    \/ \E u \in Users, op \in Ops, r \in Repos, dry \in BOOLEAN : IssueBegin(c, u, op, r, dry)
    \/ \E t \in Tickets, op \in Ops, r \in Repos : ConsumeBegin(c, t, op, r)
    \/ \E t \in Tickets : RenewBegin(c, t)

TicketNext ==
    \/ \E c \in Callers : BeginCall(c) \/ CallStep(c) \/ Return(c)
    \/ Environment

TicketSpec == TicketInit /\ [][TicketNext]_ticketVars

----------------------------------------------------------------------------
(* Properties.                                                             *)

\* Every table row and every call in flight is well formed.
TicketTypeOK ==
    /\ clock \in Nat
    /\ role \in [Users -> [Repos -> Ranks]]
    /\ tickets \in [Tickets -> Ticket]
    /\ calls \in [Callers -> Call]
    /\ authorized \in [Callers -> BOOLEAN]

\* ticket.service.ts:22-27, 80-84, 116-118.  A call that issues, consumes or
\* renews a ticket succeeds only if the ticket's owner held the minimum role at
\* some instant between the start of that call and its success: a role revoked
\* before a call begins, and not granted again during it, stops the call,
\* however the revocation interleaves with the awaits of the service.
RevocationHonoured ==
    \A c \in Callers :
        calls[c].result \in {"issued", "granted", "renewed"} => authorized[c]

\* The sliding window (renewTicket, l.112-134): whatever heartbeats ran, in
\* whatever order, a ticket is never valid for longer than one TTL from now,
\* so a client that falls silent loses it one TTL later at the latest.
ExpiryWithinTtl == \A t \in Tickets : tickets[t].expiresAt <= clock + Ttl

\* consumeTicket's refusals (l.99-109): a caller is told "already consumed"
\* only of a ticket somebody else did consume; an unused ticket is refused
\* for another reason.
RefusalIsTruthful ==
    \A c \in Callers :
        calls[c].result = "alreadyConsumed" =>
            tickets[calls[c].t].status \in {"active", "closed"}

=============================================================================
