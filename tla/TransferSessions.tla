-------------------------- MODULE TransferSessions --------------------------
(***************************************************************************)
(* The gRPC transfer engine: push streams (createGrpcTransferServer.push   *)
(* over PushSessionHandler), pull calls (PullSessionHandler) and heartbeat *)
(* calls, composed with the ticket service.                                *)
(*                                                                         *)
(* Messages of a push stream are chained on one promise (`queue`), while   *)
(* 'cancelled' and 'error' run their callbacks at any time, between any    *)
(* two awaits of the message being handled.  The staging sink's write()    *)
(* and end() are not awaited, and the rm of abort() may reject.            *)
(***************************************************************************)
EXTENDS TransferTickets, Sequences

CONSTANTS
    Streams,      \* push calls
    Pulls,        \* pull calls
    Clients,      \* REST and heartbeat callers
    MaxSent       \* bound: MaxSent[s] messages are sent on push stream s

ASSUME SessionAssumptions ==
    /\ Callers = Streams \cup Pulls \cup Clients
    /\ Streams \cap Pulls = {} /\ Streams \cap Clients = {} /\ Pulls \cap Clients = {}
    /\ MaxSent \in [Streams -> Nat]

VARIABLES
    streams,      \* per push call: the closure variables and its PushSessionHandler
    pulls,        \* per pull call
    jobs          \* push calls whose TransferJob row has been inserted

sessionVars == <<streams, pulls, jobs>>
vars == <<ticketVars, sessionVars>>

Message ==
    [kind : {"header"}, t : Tickets, op : Ops, repo : Repos]
        \cup [kind : {"chunk", "end"}]

\* "open": between messages; the other phases name the await the handler is in.
Phases ==
    {"open", "header", "mkdir", "beforePush", "validate", "createJob", "closeTicket",
     "closeDryRun", "committedHook", "done"}

\* chunks: those the sink and the checksum took; stored: those that reached the
\* staging file; broken: `queue` has rejected, so no later callback of it runs.
Stream ==
    [phase : Phases, queue : Seq(Message), sent : Nat, offered : Nat,
     endSent : BOOLEAN, gone : BOOLEAN,
     headerReceived : BOOLEAN, aborted : BOOLEAN, pendingAbort : BOOLEAN,
     streamEnded : BOOLEAN, replies : Nat,
     ticketId : Tickets \cup {Nil}, closed : BOOLEAN,
     sink : {"none", "open", "ended"}, file : {"none", "present", "removed"},
     chunks : Nat, stored : Nat, broken : BOOLEAN]

NewStream ==
    [phase |-> "open", queue |-> << >>, sent |-> 0, offered |-> 0,
     endSent |-> FALSE, gone |-> FALSE,
     headerReceived |-> FALSE, aborted |-> FALSE, pendingAbort |-> FALSE,
     streamEnded |-> FALSE, replies |-> 0,
     ticketId |-> Nil, closed |-> FALSE, sink |-> "none", file |-> "none",
     chunks |-> 0, stored |-> 0, broken |-> FALSE]

Pull == [phase : {"new", "consume", "stream", "done"}, ticketId : Tickets \cup {Nil}]

----------------------------------------------------------------------------
(* PushSessionHandler.abort and the server's markAborted.  removed says    *)
(* whether the rm of the staging file resolves.                            *)

\* Mutant: abort() forgets that the session may be finished already.
AbortUnguarded(st, removed) ==
    [st EXCEPT !.closed = TRUE,
               !.sink = IF @ = "open" THEN "ended" ELSE @,
               !.file = IF @ = "present" /\ removed THEN "removed" ELSE @]

Abort(st, removed) ==
    IF st.closed
      THEN st
      ELSE [st EXCEPT !.closed = TRUE,
                      !.sink = IF @ = "open" THEN "ended" ELSE @,
                      !.file = IF @ = "present" /\ removed THEN "removed" ELSE @]

\* abort() rejects: it came to the rm of a staging path, and the rm failed.
AbortRejects(st, removed) == ~removed /\ ~st.closed /\ st.ticketId # Nil

\* Mutant: every failure answers the client, the stream ended or not.
MarkAbortedEager(st, removed) ==
    IF st.aborted
      THEN st
      ELSE [Abort([st EXCEPT !.aborted = TRUE, !.pendingAbort = TRUE], removed)
                EXCEPT !.replies = @ + 1]

\* Mutant: a failure is recorded for the end of the stream, even past it.
MarkAbortedSilent(st, removed) ==
    IF st.aborted
      THEN st
      ELSE Abort([st EXCEPT !.aborted = TRUE, !.pendingAbort = TRUE], removed)

\* The answer comes after `await handler.abort()`, if that resolves.
MarkAborted(st, removed) ==
    IF st.aborted
      THEN st
      ELSE [Abort([st EXCEPT !.aborted = TRUE, !.pendingAbort = TRUE], removed)
                EXCEPT !.replies = IF st.streamEnded /\ ~AbortRejects(st, removed)
                                     THEN @ + 1 ELSE @]

\* processMessage's catch: what markAborted rejects with rejects the queue.  (A
\* rejection inside dispatchMessage ends in this catch and in markAborted's
\* early return, and breaks nothing.)
Thrown(st, removed) ==
    [MarkAborted(st, removed) EXCEPT !.broken = ~st.aborted /\ AbortRejects(st, removed)]

----------------------------------------------------------------------------
(* The client of a push stream, and the transport.                         *)

Send(s, m) ==
    LET st == streams[s] IN
    /\ ~st.gone /\ ~st.endSent
    /\ st.sent < MaxSent[s]
    /\ streams' = [streams EXCEPT ![s] =
            [st EXCEPT !.queue = Append(@, m), !.sent = @ + 1,
                       !.offered = IF m.kind = "chunk" THEN @ + 1 ELSE @,
                       !.endSent = m.kind = "end"]]
    /\ UNCHANGED <<ticketVars, pulls, jobs>>

\* call.on('cancelled')
Cancelled(s) ==
    LET st == streams[s] IN
    /\ ~st.gone /\ st.phase # "done"
    /\ \E removed \in BOOLEAN :
         streams' = [streams EXCEPT ![s] =
            Abort([st EXCEPT !.gone = TRUE, !.aborted = TRUE], removed)]
    /\ UNCHANGED <<ticketVars, pulls, jobs>>

\* call.on('error')
StreamError(s) ==
    LET st == streams[s] IN
    /\ ~st.gone /\ st.phase # "done"
    /\ \E removed \in BOOLEAN :
         streams' = [streams EXCEPT ![s] = Abort([st EXCEPT !.gone = TRUE], removed)]
    /\ UNCHANGED <<ticketVars, pulls, jobs>>

\* A chunk the sink has buffered reaches the staging file, before or after end().
\* Nothing waits for it, and a write that fails is one that never comes.
FlushSink(s) ==
    /\ streams[s].stored < streams[s].chunks
    /\ streams' = [streams EXCEPT ![s].stored = @ + 1]
    /\ UNCHANGED <<ticketVars, pulls, jobs>>

----------------------------------------------------------------------------
(* The promise chain: messages are handled strictly in arrival order, each *)
(* only after the handler of the previous one has resolved, and none once  *)
(* one has rejected.                                                       *)

\* The message at the head of the queue has this kind and its turn has come.
Turn(s, kind) ==
    /\ streams[s].phase = "open" /\ ~streams[s].broken
    /\ streams[s].queue # << >>
    /\ Head(streams[s].queue).kind = kind

Handled(s) == [streams[s] EXCEPT !.queue = Tail(@)]

\* processMessage once aborted
DropMessage(s) ==
    /\ \E kind \in {"header", "chunk"} : Turn(s, kind)
    /\ streams[s].aborted
    /\ streams' = [streams EXCEPT ![s] = Handled(s)]
    /\ UNCHANGED <<ticketVars, pulls, jobs>>

\* processHeader; onHeader then awaits consumeTicket with the header's operation.
ProcessHeader(s) ==
    /\ Turn(s, "header")
    /\ ~streams[s].aborted
    /\ LET m == Head(streams[s].queue) IN
       IF streams[s].headerReceived
         THEN /\ \E removed \in BOOLEAN :
                    streams' = [streams EXCEPT ![s] = MarkAborted(Handled(s), removed)]
              /\ UNCHANGED ticketVars
         ELSE /\ streams' = [streams EXCEPT ![s] =
                    [Handled(s) EXCEPT !.headerReceived = TRUE, !.phase = "header"]]
              /\ ConsumeBegin(s, m.t, m.op, m.repo)
    /\ UNCHANGED <<pulls, jobs>>

\* Mutant: onHeader does not look at how consumeTicket ended.
HeaderResolvedAny(s) ==
    /\ streams[s].phase = "header"
    /\ calls[s].pc = "done"
    /\ streams' = [streams EXCEPT ![s].ticketId = calls[s].t, ![s].phase = "mkdir"]
    /\ Return(s)
    /\ UNCHANGED <<pulls, jobs>>

\* consumeTicket resolved: onHeader records the ticket and awaits mkdir, or throws
\* with no staging path to remove.
HeaderResolved(s) ==
    /\ streams[s].phase = "header"
    /\ calls[s].pc = "done"
    /\ streams' = [streams EXCEPT ![s] =
            IF calls[s].result = "granted"
              THEN [@ EXCEPT !.ticketId = calls[s].t, !.phase = "mkdir"]
              ELSE Thrown([@ EXCEPT !.phase = "open"], TRUE)]
    /\ Return(s)
    /\ UNCHANGED <<pulls, jobs>>

\* mkdir resolved: the staging file is created and its sink opened.
OpenStaging(s) ==
    /\ streams[s].phase = "mkdir"
    /\ streams' = [streams EXCEPT ![s].phase = "open", ![s].sink = "open",
                                  ![s].file = "present"]
    /\ UNCHANGED <<ticketVars, pulls, jobs>>

\* Mutant: a failed session gives its ticket back.
OpenStagingFailsReleasing(s) ==
    /\ streams[s].phase = "mkdir"
    /\ streams' = [streams EXCEPT ![s] = Thrown([@ EXCEPT !.phase = "open"], TRUE)]
    /\ tickets' = [tickets EXCEPT ![streams[s].ticketId].status = "issued"]
    /\ UNCHANGED <<clock, role, calls, authorized, pulls, jobs>>

\* mkdir or the sink threw.
OpenStagingFails(s) ==
    /\ streams[s].phase = "mkdir"
    /\ \E removed \in BOOLEAN :
         streams' = [streams EXCEPT ![s] = Thrown([@ EXCEPT !.phase = "open"], removed)]
    /\ UNCHANGED <<ticketVars, pulls, jobs>>

\* processChunk; onChunk hands the chunk to the sink and the checksum, or throws:
\* without a sink, or when write() does.
ProcessChunk(s) ==
    /\ Turn(s, "chunk")
    /\ ~streams[s].aborted
    /\ \/ /\ streams[s].headerReceived /\ streams[s].sink # "none"
          /\ streams' = [streams EXCEPT ![s] = [Handled(s) EXCEPT !.chunks = @ + 1]]
       \/ /\ ~streams[s].headerReceived
          /\ streams' = [streams EXCEPT ![s] = MarkAborted(Handled(s), TRUE)]
       \/ /\ streams[s].headerReceived
          /\ \E removed \in BOOLEAN :
               streams' = [streams EXCEPT ![s] = Thrown(Handled(s), removed)]
    /\ UNCHANGED <<ticketVars, pulls, jobs>>

\* finish() goes past its two guards.
MayFinish(st) == ~st.closed /\ st.ticketId # Nil /\ st.sink # "none"

\* The 'end' callback: finalizeStream, and finish() up to its first await.  What
\* refuses to finish has no staging file, or an abort() has dealt with it.
ProcessEnd(s) ==
    /\ Turn(s, "end")
    /\ LET st == [Handled(s) EXCEPT !.streamEnded = TRUE] IN
       streams' = [streams EXCEPT ![s] =
            IF st.aborted
              THEN [st EXCEPT !.phase = "done",
                              !.replies = IF st.pendingAbort THEN @ + 1 ELSE @]
            ELSE IF st.headerReceived /\ MayFinish(st)
              THEN [st EXCEPT !.closed = TRUE, !.sink = "ended", !.phase = "beforePush"]
              ELSE [MarkAborted(st, TRUE) EXCEPT !.phase = "done"]]
    /\ UNCHANGED <<ticketVars, pulls, jobs>>

\* onBeforePush finds no record of the repository: it is provisioned, and the
\* pusher becomes its admin (a pusher who is admin already changes nothing).
\* The validation that follows may still fail.
AutoCreateRepo(s) ==
    /\ streams[s].phase = "beforePush"
    /\ LET tk == tickets[streams[s].ticketId] IN SetRole(tk.user, tk.repo, 3)
    /\ streams' = [streams EXCEPT ![s].phase = "validate"]
    /\ UNCHANGED <<pulls, jobs>>

\* onBeforePush resolved.
BeforePushResolved(s) ==
    /\ streams[s].phase \in {"beforePush", "validate"}
    /\ streams' = [streams EXCEPT ![s].phase =
            IF tickets[streams[s].ticketId].dryRun THEN "closeDryRun" ELSE "createJob"]
    /\ UNCHANGED <<ticketVars, pulls, jobs>>

\* onBeforePush or jobStore.create threw: INTERNAL.  The session is closed, so
\* abort() removes nothing.
FinishFails(s) ==
    /\ streams[s].phase \in {"beforePush", "validate", "createJob"}
    /\ streams' = [streams EXCEPT ![s] = [MarkAborted(@, TRUE) EXCEPT !.phase = "done"]]
    /\ UNCHANGED <<ticketVars, pulls, jobs>>

CreateJob(s) ==
    /\ streams[s].phase = "createJob"
    /\ jobs' = jobs \cup {s}
    /\ streams' = [streams EXCEPT ![s].phase = "closeTicket"]
    /\ UNCHANGED <<ticketVars, pulls>>

\* closeTicket(...).catch(() => {}) of a finishing session on ticket t
CloseQuietly(t) == IF CanClose(t) THEN CloseTicket(t) ELSE UNCHANGED ticketVars

\* The dry-run reply follows the close; a real push still awaits its hook.
FinishCloses(s) ==
    /\ streams[s].phase \in {"closeTicket", "closeDryRun"}
    /\ CloseQuietly(streams[s].ticketId)
    /\ LET st == streams[s] IN
       streams' = [streams EXCEPT ![s] =
            IF st.phase = "closeTicket"
              THEN [st EXCEPT !.phase = "committedHook"]
              ELSE [st EXCEPT !.phase = "done", !.replies = @ + 1]]
    /\ UNCHANGED <<pulls, jobs>>

\* onPushCommitted settled, its failure swallowed: callback(null, summary).
FinishReplies(s) ==
    /\ streams[s].phase = "committedHook"
    /\ streams' = [streams EXCEPT ![s].phase = "done", ![s].replies = @ + 1]
    /\ UNCHANGED <<ticketVars, pulls, jobs>>

----------------------------------------------------------------------------
(* PullSessionHandler.stream.                                              *)

PullBegin(p, t, r) ==
    /\ pulls[p].phase = "new"
    /\ ConsumeBegin(p, t, "pull", r)
    /\ pulls' = [pulls EXCEPT ![p].phase = "consume"]
    /\ UNCHANGED <<streams, jobs>>

PullResolved(p) ==
    /\ pulls[p].phase = "consume"
    /\ calls[p].pc = "done"
    /\ pulls' = [pulls EXCEPT ![p] =
            IF calls[p].result = "granted"
              THEN [phase |-> "stream", ticketId |-> calls[p].t]
              ELSE [phase |-> "done", ticketId |-> Nil]]
    /\ Return(p)
    /\ UNCHANGED <<streams, jobs>>

\* No synced copy, the last chunk, or a broken stream: each closes the ticket.
PullEnds(p) ==
    /\ pulls[p].phase = "stream"
    /\ CloseQuietly(pulls[p].ticketId)
    /\ pulls' = [pulls EXCEPT ![p].phase = "done"]
    /\ UNCHANGED <<streams, jobs>>

----------------------------------------------------------------------------

Init ==
    /\ TicketInit
    /\ streams = [s \in Streams |-> NewStream]
    /\ pulls = [p \in Pulls |-> [phase |-> "new", ticketId |-> Nil]]
    /\ jobs = {}

\* What the server does for push call s once a message or a result is there.
StreamStep(s) ==
    \/ DropMessage(s) \/ ProcessHeader(s) \/ ProcessChunk(s) \/ ProcessEnd(s)
    \/ HeaderResolved(s) \/ OpenStaging(s) \/ OpenStagingFails(s)
    \/ AutoCreateRepo(s) \/ BeforePushResolved(s) \/ FinishFails(s) \/ CreateJob(s)
    \/ FinishCloses(s) \/ FinishReplies(s)

StreamEnvironment(s) ==
    \/ \E m \in Message : Send(s, m)
    \/ Cancelled(s)
    \/ StreamError(s)
    \/ FlushSink(s)

PullStep(p) == PullResolved(p) \/ PullEnds(p)

ClientStep(c) ==
    \/ \E u \in Users, op \in Ops, r \in Repos, dry \in BOOLEAN : IssueBegin(c, u, op, r, dry)
    \/ \E t \in Tickets : RenewBegin(c, t)
    \/ Return(c)

Next ==
    \/ \E s \in Streams : StreamStep(s) \/ StreamEnvironment(s)
    \/ \E p \in Pulls, t \in Tickets, r \in Repos : PullBegin(p, t, r)
    \/ \E p \in Pulls : PullStep(p)
    \/ \E c \in Clients : ClientStep(c) /\ UNCHANGED sessionVars
    \/ \E c \in Callers : CallStep(c) /\ UNCHANGED sessionVars
    \/ Environment /\ UNCHANGED sessionVars

\* The event loop runs every resolved promise and every arrived message.
Fairness ==
    /\ \A s \in Streams : WF_vars(StreamStep(s))
    /\ \A c \in Callers : WF_vars(CallStep(c) /\ UNCHANGED sessionVars)

Spec == Init /\ [][Next]_vars

FairSpec == Spec /\ Fairness

----------------------------------------------------------------------------
(* Properties.                                                             *)

\* Closure variables, handlers and job rows are well formed.
SessionTypeOK ==
    /\ TicketTypeOK
    /\ streams \in [Streams -> Stream]
    /\ pulls \in [Pulls -> Pull]
    /\ jobs \subseteq Streams

\* The ticket a session runs under.
Held(x) == IF x \in Streams THEN streams[x].ticketId ELSE pulls[x].ticketId

\* transfer/README.md "consumed exactly once": a ticket admits one session
\* ever.  However many streams and pulls present it at once, and whatever was
\* closed or finished before, no two sessions ran under the same ticket.
TicketSingleUse ==
    \A x, y \in Streams \cup Pulls :
        Held(x) # Nil /\ Held(x) = Held(y) => x = y

\* grpc-transfer-server.ts:17-20: a TransferJob row always stands for a
\* complete upload.  Its checksum and its sink took every chunk the client
\* sent, the sink was ended, and the staging file is not the victim of an
\* abort() that a cancelled or broken stream raced with finish().  That the
\* chunks are on the disk is not part of it: stored may still be behind.
CommittedUploadIntact ==
    \A s \in jobs :
        /\ streams[s].file = "present"
        /\ streams[s].sink = "ended"
        /\ streams[s].chunks = streams[s].offered

\* markAborted and finalizeStream (l.104-120, 182-197): the client gets one
\* answer, and not before it has half-closed the stream.
AnsweredOnceAfterEnd ==
    \A s \in Streams :
        /\ streams[s].replies <= 1
        /\ streams[s].replies = 1 => streams[s].streamEnded

\* grpc-transfer-server.ts:12-16: no chunk reaches staging without a consumed
\* ticket of the stream's own, and that ticket is never free again.
ChunksNeedTicket ==
    \A s \in Streams :
        streams[s].chunks > 0 =>
            /\ streams[s].ticketId # Nil
            /\ tickets[streams[s].ticketId].status \in {"active", "closed"}

\* Every push call whose client half-closed the stream and stayed is answered,
\* whatever throws on the way, unless the queue itself was broken by a failing
\* rm of the staging file: nothing else loses the answer.
PushAnswered ==
    \A s \in Streams :
        streams[s].endSent ~>
            (streams[s].replies = 1 \/ streams[s].gone \/ streams[s].broken)

\* The sessions use tickets only the way the ticket service allows.
RefinesTickets == TicketSpec

\* proto/transfer.proto:24-27: "Missing heartbeats past the ticket TTL causes
\* the ticket to expire and the server to fail-closed on any further chunks
\* for it".
ExpiredTicketStopsChunks ==
    [][\A s \in Streams :
        streams'[s].chunks > streams[s].chunks =>
            tickets[streams[s].ticketId].expiresAt > clock]_vars

\* transfer/README.md:11-12 and transfer.router.ts:16-18: a ticket "authorizes
\* exactly one (operation, repo) pair", and a push needs at least writer: a
\* TransferJob comes from a ticket issued for push.
JobsUnderPushTickets ==
    \A s \in jobs : tickets[streams[s].ticketId].op = "push"

=============================================================================
