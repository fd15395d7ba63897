----------------------- MODULE TransferSessionsProofs -----------------------
(***************************************************************************)
(* Proofs about the gRPC transfer engine, for any number of push, pull and *)
(* heartbeat calls and any number of messages per stream.                  *)
(***************************************************************************)
EXTENDS TransferSessions, TransferTicketsProofs, FiniteSetTheorems, FunctionTheorems

----------------------------------------------------------------------------
(* Well-formed updates of a stream.                                        *)

\* A stream that goes on to its next await.
LEMMA PhaseUpdate ==
  ASSUME NEW st \in Stream, NEW p \in Phases, NEW n \in Nat
  PROVE  /\ [st EXCEPT !.phase = p] \in Stream
         /\ [st EXCEPT !.phase = p, !.replies = n] \in Stream
<1>1. [st EXCEPT !.phase = p] \in Stream
  BY DEF Stream
<1>2. [st EXCEPT !.phase = p, !.replies = n] \in Stream
  BY DEF Stream
<1>3. QED BY <1>1, <1>2

\* A message that arrives joins the queue.
LEMMA SendUpdate ==
  ASSUME NEW st \in Stream, NEW q \in Seq(Message), NEW n \in Nat, NEW o \in Nat,
         NEW e \in BOOLEAN
  PROVE  [st EXCEPT !.queue = q, !.sent = n, !.offered = o, !.endSent = e] \in Stream
  BY DEF Stream

----------------------------------------------------------------------------
(* What abort() and markAborted do to a stream.                            *)

\* What abort() does to the record of a stream.
LEMMA AbortFacts ==
  ASSUME NEW st \in Stream, NEW removed \in BOOLEAN
  PROVE  LET nt == Abort(st, removed) IN
         /\ nt \in Stream
         /\ nt.phase = st.phase /\ nt.ticketId = st.ticketId
         /\ nt.chunks = st.chunks /\ nt.replies = st.replies
         /\ nt.streamEnded = st.streamEnded
         /\ nt.sink # "none" => st.sink # "none"
<1> DEFINE sk == IF st.sink = "open" THEN "ended" ELSE st.sink
           fl == IF st.file = "present" /\ removed THEN "removed" ELSE st.file
           ab == [st EXCEPT !.closed = TRUE, !.sink = sk, !.file = fl]
<1>1. /\ sk \in {"none", "open", "ended"} /\ fl \in {"none", "present", "removed"}
      /\ sk # "none" => st.sink # "none"
  BY DEF Stream
<1>2. Abort(st, removed) = IF st.closed THEN st ELSE ab
  BY DEF Abort
<1> HIDE DEF sk, fl
<1>3. /\ ab \in Stream
      /\ ab.phase = st.phase /\ ab.ticketId = st.ticketId
      /\ ab.chunks = st.chunks /\ ab.replies = st.replies
      /\ ab.streamEnded = st.streamEnded /\ ab.sink = sk
  BY <1>1 DEF Stream
<1> HIDE DEF ab
<1>4. QED BY <1>1, <1>2, <1>3

\* What markAborted does to it.
LEMMA MarkAbortedFacts ==
  ASSUME NEW st \in Stream, NEW removed \in BOOLEAN
  PROVE  LET nt == MarkAborted(st, removed) IN
         /\ nt \in Stream
         /\ nt.phase = st.phase /\ nt.ticketId = st.ticketId
         /\ nt.chunks = st.chunks
         /\ nt.streamEnded = st.streamEnded
         /\ nt.replies \in st.replies .. st.replies + 1
         /\ ~st.streamEnded => nt.replies = st.replies
         /\ nt.sink # "none" => st.sink # "none"
<1> DEFINE mid == [st EXCEPT !.aborted = TRUE, !.pendingAbort = TRUE]
<1>1. /\ mid \in Stream /\ mid.phase = st.phase /\ mid.ticketId = st.ticketId
      /\ mid.chunks = st.chunks /\ mid.streamEnded = st.streamEnded
      /\ mid.replies = st.replies /\ mid.sink = st.sink
  BY DEF Stream
<1> DEFINE ab == Abort(mid, removed)
           ends == st.streamEnded /\ ~AbortRejects(st, removed)
<1>2. /\ ab \in Stream /\ ab.phase = st.phase /\ ab.ticketId = st.ticketId
      /\ ab.chunks = st.chunks /\ ab.streamEnded = st.streamEnded
      /\ ab.replies = st.replies /\ (ab.sink # "none" => st.sink # "none")
  BY <1>1, AbortFacts
<1> DEFINE n == IF ends THEN st.replies + 1 ELSE st.replies
           ma == [ab EXCEPT !.replies = n]
<1>3. MarkAborted(st, removed) = IF st.aborted THEN st ELSE ma
  BY <1>2 DEF MarkAborted
<1>4. n \in Nat /\ n \in st.replies .. st.replies + 1 /\ (~st.streamEnded => n = st.replies)
  BY DEF Stream
<1> HIDE DEF mid, ab, n
<1>5. /\ ma \in Stream /\ ma.phase = ab.phase /\ ma.ticketId = ab.ticketId
      /\ ma.chunks = ab.chunks /\ ma.streamEnded = ab.streamEnded
      /\ ma.replies = n /\ ma.sink = ab.sink
  BY <1>2, <1>4 DEF Stream
<1> HIDE DEF ma
<1>6. st.replies \in st.replies .. st.replies + 1
  BY DEF Stream
<1>7. QED
  BY <1>2, <1>3, <1>4, <1>5, <1>6

\* A failure that may break the queue does the same to it.
LEMMA ThrownFacts ==
  ASSUME NEW st \in Stream, NEW removed \in BOOLEAN
  PROVE  LET ma == MarkAborted(st, removed)
             nt == Thrown(st, removed) IN
         /\ nt \in Stream
         /\ nt.phase = ma.phase /\ nt.ticketId = ma.ticketId
         /\ nt.chunks = ma.chunks /\ nt.streamEnded = ma.streamEnded
         /\ nt.replies = ma.replies /\ nt.sink = ma.sink
         /\ nt.queue = ma.queue /\ nt.endSent = ma.endSent /\ nt.offered = ma.offered
         /\ nt.aborted = ma.aborted /\ nt.closed = ma.closed /\ nt.file = ma.file
<1> DEFINE ma == MarkAborted(st, removed)
           b == ~st.aborted /\ AbortRejects(st, removed)
<1>1. ma \in Stream
  BY MarkAbortedFacts
<1>2. b \in BOOLEAN
  BY DEF AbortRejects
<1>3. Thrown(st, removed) = [ma EXCEPT !.broken = b]
  BY DEF Thrown
<1> HIDE DEF ma, b
<1>4. [ma EXCEPT !.broken = b] \in Stream
  BY <1>1, <1>2 DEF Stream
<1>5. QED
  BY <1>1, <1>3, <1>4 DEF Stream, ma

\* What taking its first message off the queue does to it.
LEMMA HandledFacts ==
  ASSUME NEW s \in Streams, streams[s] \in Stream, streams[s].queue # << >>
  PROVE  /\ Handled(s) \in Stream
         /\ Handled(s).phase = streams[s].phase /\ Handled(s).ticketId = streams[s].ticketId
         /\ Handled(s).chunks = streams[s].chunks /\ Handled(s).replies = streams[s].replies
         /\ Handled(s).streamEnded = streams[s].streamEnded
         /\ Handled(s).sink = streams[s].sink
<1>1. Tail(streams[s].queue) \in Seq(Message)
  BY DEF Stream
<1>2. QED BY <1>1 DEF Handled, Stream

----------------------------------------------------------------------------
(* The inductive invariant.  SingleUse is not inductive: it must know that *)
(* a granted consume call, not yet taken up by its session, also owns its  *)
(* ticket.  AnsweredOnceAfterEnd needs the shape of a stream per phase.    *)

Sessions == Streams \cup Pulls

Finishing == {"beforePush", "validate", "createJob", "closeTicket", "closeDryRun", "committedHook"}

\* A stream in each phase has ended or not, was answered or not, owns a ticket or not.
StreamShape(st) ==
    /\ st.phase \in {"open", "header", "mkdir"} => ~st.streamEnded /\ st.replies = 0
    /\ st.phase \in Finishing => st.streamEnded /\ st.replies = 0
    /\ st.phase = "done" => st.streamEnded /\ st.replies <= 1
    /\ st.phase \in {"mkdir"} \cup Finishing => st.ticketId # Nil
    /\ st.sink # "none" => st.ticketId # Nil
    /\ st.chunks > 0 => st.ticketId # Nil

SessionShape ==
    /\ \A s \in Streams : StreamShape(streams[s])
    /\ \A p \in Pulls : pulls[p].phase = "stream" => pulls[p].ticketId # Nil

\* A ticket belongs to at most one session or granted call, and is consumed.
Ownership ==
    /\ \A x \in Sessions : Held(x) # Nil => tickets[Held(x)].status \in {"active", "closed"}
    /\ \A x \in Sessions, c \in Callers :
            calls[c].result = "granted" => calls[c].t # Held(x)
    /\ \A c, d \in Callers :
            (/\ calls[c].result = "granted" /\ calls[d].result = "granted"
             /\ calls[c].t = calls[d].t) => c = d

EngineIInv ==
    /\ TicketIInv
    /\ SessionTypeOK
    /\ SessionShape
    /\ Ownership
    /\ TicketSingleUse

\* The invariant holds when the engine starts.
LEMMA EngineIInvInit == Init => EngineIInv
<1> SUFFICES ASSUME Init PROVE EngineIInv
  OBVIOUS
<1>1. TicketIInv
  BY TicketIInvInit DEF Init
<1>2. NewStream \in Stream
  <2>1. << >> \in Seq(Message)
    OBVIOUS
  <2>2. QED BY <2>1 DEF NewStream, Stream, Phases
<1>3. SessionTypeOK
  BY <1>1, <1>2 DEF Init, SessionTypeOK, TicketIInv, Pull
<1>4. SessionShape
  BY DEF Init, SessionShape, StreamShape, NewStream, Finishing
<1>5. \A x \in Sessions : Held(x) = Nil
  BY DEF Init, Sessions, Held, NewStream
<1>6. \A c \in Callers : calls[c].result = "none"
  BY DEF Init, TicketInit, IdleCall
<1>7. QED
  BY <1>1, <1>3, <1>4, <1>5, <1>6 DEF EngineIInv, Ownership, TicketSingleUse, Sessions

----------------------------------------------------------------------------
(* Every step of the engine is a step of the ticket service, or none.      *)

\* A step of a stream is a step of the ticket service or leaves it alone.
LEMMA StreamStepRefines ==
  ASSUME EngineIInv, NEW s \in Streams, StreamStep(s)
  PROVE  [TicketNext]_ticketVars
<1> s \in Callers
  BY SessionAssumptions
<1> USE DEF EngineIInv, SessionTypeOK
<1>1. ASSUME ProcessHeader(s) PROVE [TicketNext]_ticketVars
  <2>1. CASE streams[s].headerReceived
    BY <1>1, <2>1 DEF ProcessHeader
  <2>2. CASE ~streams[s].headerReceived
    <3> DEFINE m == Head(streams[s].queue)
    <3>1. ConsumeBegin(s, m.t, m.op, m.repo)
      BY <1>1, <2>2 DEF ProcessHeader
    <3>2. m \in Message /\ m.kind = "header"
      BY <1>1 DEF ProcessHeader, Turn, Stream
    <3>3. m.t \in Tickets /\ m.op \in Ops /\ m.repo \in Repos
      BY <3>2 DEF Message
    <3> HIDE DEF m
    <3>4. QED BY <3>1, <3>3 DEF TicketNext, BeginCall
  <2>3. QED BY <2>1, <2>2
<1>2. ASSUME HeaderResolved(s) PROVE [TicketNext]_ticketVars
  BY <1>2 DEF HeaderResolved, TicketNext
<1>3. ASSUME FinishCloses(s) PROVE [TicketNext]_ticketVars
  <2>1. streams[s].ticketId \in Tickets
    BY <1>3 DEF FinishCloses, SessionShape, StreamShape, Finishing, Stream
  <2>2. QED BY <1>3, <2>1 DEF FinishCloses, CloseQuietly, TicketNext, Environment
<1>a. ASSUME AutoCreateRepo(s) PROVE [TicketNext]_ticketVars
  <2>1. streams[s].ticketId \in Tickets
    BY <1>a DEF AutoCreateRepo, SessionShape, StreamShape, Finishing, Stream
  <2>2. tickets[streams[s].ticketId].status \in {"active", "closed"}
    BY <2>1, TicketAssumptions DEF Ownership, Held, Sessions
  <2>3. /\ tickets[streams[s].ticketId].user \in Users
        /\ tickets[streams[s].ticketId].repo \in Repos
    BY <2>1, <2>2 DEF TicketIInv, Scoped, Exists
  <2>4. QED BY <1>a, <2>3, TicketAssumptions DEF AutoCreateRepo, TicketNext, Environment
<1>4. ASSUME \/ DropMessage(s) \/ ProcessChunk(s) \/ ProcessEnd(s)
             \/ OpenStaging(s) \/ OpenStagingFails(s) \/ BeforePushResolved(s)
             \/ FinishFails(s) \/ CreateJob(s) \/ FinishReplies(s)
      PROVE  [TicketNext]_ticketVars
  BY <1>4 DEF DropMessage, ProcessChunk, ProcessEnd, OpenStaging, OpenStagingFails,
     BeforePushResolved, FinishFails, CreateJob, FinishReplies
<1>5. QED BY <1>1, <1>2, <1>3, <1>4, <1>a DEF StreamStep

\* So is every step of the engine.
LEMMA EngineRefinesStep == EngineIInv /\ [Next]_vars => [TicketNext]_ticketVars
<1> SUFFICES ASSUME EngineIInv, [Next]_vars PROVE [TicketNext]_ticketVars
  OBVIOUS
<1> Streams \subseteq Callers /\ Pulls \subseteq Callers /\ Clients \subseteq Callers
  BY SessionAssumptions
<1>1. ASSUME NEW s \in Streams, StreamEnvironment(s) PROVE [TicketNext]_ticketVars
  BY <1>1 DEF StreamEnvironment, Send, Cancelled, StreamError, FlushSink
<1>2. ASSUME NEW p \in Pulls, NEW t \in Tickets, NEW r \in Repos, PullBegin(p, t, r)
      PROVE  [TicketNext]_ticketVars
  BY <1>2 DEF PullBegin, TicketNext, BeginCall, Ops
<1>3. ASSUME NEW p \in Pulls, PullStep(p) PROVE [TicketNext]_ticketVars
  <2>1. CASE PullResolved(p)
    BY <2>1 DEF PullResolved, TicketNext
  <2>2. CASE PullEnds(p)
    <3>1. pulls[p].ticketId \in Tickets
      BY <2>2 DEF PullEnds, EngineIInv, SessionTypeOK, SessionShape, Pull
    <3>2. QED BY <2>2, <3>1 DEF PullEnds, CloseQuietly, TicketNext, Environment
  <2>3. QED BY <1>3, <2>1, <2>2 DEF PullStep
<1>4. ASSUME NEW c \in Clients, ClientStep(c) PROVE [TicketNext]_ticketVars
  BY <1>4 DEF ClientStep, TicketNext, BeginCall
<1>5. ASSUME NEW c \in Callers, CallStep(c) PROVE [TicketNext]_ticketVars
  BY <1>5 DEF TicketNext
<1>6. ASSUME Environment PROVE [TicketNext]_ticketVars
  BY <1>6 DEF TicketNext
<1>7. ASSUME UNCHANGED vars PROVE [TicketNext]_ticketVars
  BY <1>7 DEF vars
<1>8. QED
  BY <1>1, <1>2, <1>3, <1>4, <1>5, <1>6, <1>7, StreamStepRefines DEF Next

----------------------------------------------------------------------------
(* A consumed ticket stays consumed, and only an unused one is granted.    *)

\* Only an issued ticket is granted, and to one caller.
LEMMA GrantStep ==
  ASSUME TicketIInv, [TicketNext]_ticketVars
  PROVE  /\ \A t \in Tickets : tickets[t].status \in {"active", "closed"} =>
                tickets'[t].status \in {"active", "closed"}
         /\ \A c \in Callers : calls'[c].result = "granted" =>
                \/ calls[c].result = "granted" /\ calls'[c].t = calls[c].t
                \/ /\ tickets[calls'[c].t].status = "issued"
                   /\ \A d \in Callers \ {c} : calls'[d] = calls[d]
<1> USE DEF TicketIInv, TicketTypeOK
<1>1. ASSUME NEW c \in Callers, BeginCall(c)
      PROVE  /\ UNCHANGED tickets
             /\ \A d \in Callers : calls'[d].result = "granted" => calls'[d] = calls[d]
  <2>1. UNCHANGED tickets /\ \E x : x.result = "none" /\ calls' = [calls EXCEPT ![c] = x]
    BY <1>1 DEF BeginCall, IssueBegin, ConsumeBegin, RenewBegin, IdleCall
  <2>2. QED BY <2>1
<1>2. ASSUME NEW c \in Callers, Return(c)
      PROVE  /\ UNCHANGED tickets
             /\ \A d \in Callers : calls'[d].result = "granted" => calls'[d] = calls[d]
  BY <1>2 DEF Return, IdleCall
<1>3. ASSUME NEW c \in Callers, CallStep(c)
      PROVE  /\ \A t \in Tickets : tickets[t].status \in {"active", "closed"} =>
                    tickets'[t].status \in {"active", "closed"}
             /\ \A d \in Callers \ {c} : calls'[d] = calls[d]
             /\ calls'[c].result = "granted" =>
                    tickets[calls'[c].t].status = "issued"
  <2>1. CASE IssueInsert(c)
    BY <2>1 DEF IssueInsert, Exists, Ticket, Call
  <2>2. CASE ConsumeActivate(c)
    BY <2>2 DEF ConsumeActivate, CanActivate, Resolve, Advance, Ticket, Call, CallShape
  <2>3. CASE RenewUpdate(c)
    <3>1. /\ \A d \in Callers \ {c} : calls'[d] = calls[d]
          /\ calls'[c].result # "granted"
      BY <2>3 DEF RenewUpdate, Resolve, Advance, Call, CallShape
    <3>2. \A t \in Tickets : tickets'[t].status = tickets[t].status
      BY <2>3 DEF RenewUpdate, Ticket
    <3>3. QED BY <3>1, <3>2
  <2>4. CASE ConsumeRoleCheck(c) \/ ConsumeClassify(c) \/ RenewRoleCheck(c) \/ RenewClassify(c)
    BY <2>4 DEF ConsumeRoleCheck, ConsumeClassify, RenewRoleCheck, RenewClassify,
       Resolve, Advance, Call, CallShape
  <2>5. QED BY <1>3, <2>1, <2>2, <2>3, <2>4 DEF CallStep
<1>4. ASSUME Environment
      PROVE  /\ \A t \in Tickets : tickets[t].status \in {"active", "closed"} =>
                    tickets'[t].status \in {"active", "closed"}
             /\ UNCHANGED calls
  <2>1. ASSUME NEW t \in Tickets, CloseTicket(t)
        PROVE  /\ \A x \in Tickets : tickets[x].status \in {"active", "closed"} =>
                    tickets'[x].status \in {"active", "closed"}
               /\ UNCHANGED calls
    BY <2>1 DEF CloseTicket, Ticket
  <2>2. CASE UNCHANGED <<tickets, calls>>
    BY <2>2
  <2>3. QED BY <1>4, <2>1, <2>2 DEF Environment, SetRole, Tick
<1>5. CASE UNCHANGED ticketVars
  BY <1>5 DEF ticketVars
<1>6. QED
  <2>1. CASE \E c \in Callers : CallStep(c)
    BY <1>3, <2>1
  <2>2. QED BY <1>1, <1>2, <1>4, <1>5, <2>1 DEF TicketNext

----------------------------------------------------------------------------
(* Streams keep their type and their shape.                                *)

\* A step of a stream keeps what its phase knows.
LEMMA StreamShapeStep ==
  ASSUME EngineIInv, NEW s \in Streams, StreamStep(s) \/ StreamEnvironment(s)
  PROVE  /\ streams' = [streams EXCEPT ![s] = streams'[s]]
         /\ streams'[s] \in Stream /\ StreamShape(streams'[s])
         /\ \/ streams'[s].ticketId = streams[s].ticketId
            \/ /\ calls[s].result = "granted" /\ calls'[s] = IdleCall
               /\ streams'[s].ticketId = calls[s].t
<1> s \in Callers
  BY SessionAssumptions
<1> USE DEF EngineIInv
<1>s. /\ streams \in [Streams -> Stream] /\ streams[s] \in Stream
      /\ StreamShape(streams[s]) /\ calls[s] \in Call /\ calls \in [Callers -> Call]
  BY DEF SessionTypeOK, SessionShape, TicketTypeOK
<1>h. ASSUME NEW kind, Turn(s, kind)
      PROVE  /\ streams[s].phase = "open" /\ streams[s].queue # << >>
             /\ Handled(s) \in Stream /\ StreamShape(Handled(s))
             /\ Handled(s).phase = "open" /\ Handled(s).ticketId = streams[s].ticketId
  BY <1>h, <1>s, HandledFacts DEF Turn, StreamShape
<1>1. ASSUME NEW m \in Message, Send(s, m)
      PROVE  /\ streams' = [streams EXCEPT ![s] = streams'[s]]
             /\ streams'[s] \in Stream /\ StreamShape(streams'[s])
             /\ streams'[s].ticketId = streams[s].ticketId
  <2>1. Append(streams[s].queue, m) \in Seq(Message)
    BY <1>s DEF Stream
  <2> DEFINE q == Append(streams[s].queue, m)
             e == (m.kind = "end")
             o == IF m.kind = "chunk" THEN streams[s].offered + 1 ELSE streams[s].offered
             k == streams[s].sent + 1
             st == [streams[s] EXCEPT !.queue = q, !.sent = k, !.offered = o, !.endSent = e]
  <2>2. streams' = [streams EXCEPT ![s] = st]
    BY <1>1, <1>s DEF Send
  <2>3. q \in Seq(Message) /\ e \in BOOLEAN /\ o \in Nat /\ k \in Nat
    BY <1>s, <2>1 DEF Stream
  <2> HIDE DEF q, e, o, k
  <2>4. st \in Stream
    BY <1>s, <2>3, SendUpdate
  <2>5. StreamShape(st) /\ st.ticketId = streams[s].ticketId
    BY <1>s DEF Stream, StreamShape
  <2> HIDE DEF st
  <2>6. QED BY <1>s, <2>2, <2>4, <2>5
<1>2. ASSUME Cancelled(s) \/ StreamError(s)
      PROVE  /\ streams' = [streams EXCEPT ![s] = streams'[s]]
             /\ streams'[s] \in Stream /\ StreamShape(streams'[s])
             /\ streams'[s].ticketId = streams[s].ticketId
  <2>1. PICK st \in {[streams[s] EXCEPT !.gone = TRUE, !.aborted = TRUE],
                     [streams[s] EXCEPT !.gone = TRUE]}, removed \in BOOLEAN :
            streams' = [streams EXCEPT ![s] = Abort(st, removed)]
    BY <1>2 DEF Cancelled, StreamError
  <2>2. st \in Stream /\ StreamShape(st) /\ st.ticketId = streams[s].ticketId
    <3>1. st \in Stream
      <4>1. [streams[s] EXCEPT !.gone = TRUE, !.aborted = TRUE] \in Stream
        BY <1>s DEF Stream
      <4>2. [streams[s] EXCEPT !.gone = TRUE] \in Stream
        BY <1>s DEF Stream
      <4>3. QED BY <2>1, <4>1, <4>2
    <3>2. /\ st.phase = streams[s].phase /\ st.streamEnded = streams[s].streamEnded
          /\ st.replies = streams[s].replies /\ st.ticketId = streams[s].ticketId
          /\ st.sink = streams[s].sink /\ st.chunks = streams[s].chunks
      BY <1>s, <2>1 DEF Stream
    <3>3. QED BY <1>s, <3>1, <3>2 DEF StreamShape
  <2>3. QED BY <1>s, <2>1, <2>2, AbortFacts DEF StreamShape
<1>3. ASSUME DropMessage(s)
      PROVE  /\ streams' = [streams EXCEPT ![s] = streams'[s]]
             /\ streams'[s] \in Stream /\ StreamShape(streams'[s])
             /\ streams'[s].ticketId = streams[s].ticketId
  BY <1>3, <1>s, <1>h DEF DropMessage
\* A failure of a stream that still waits for its end.
<1>m. ASSUME NEW st \in Stream, StreamShape(st), st.phase = "open", NEW removed \in BOOLEAN,
             NEW nt \in {MarkAborted(st, removed), Thrown(st, removed)}
      PROVE  nt \in Stream /\ StreamShape(nt) /\ nt.ticketId = st.ticketId
  <2> DEFINE ma == MarkAborted(st, removed)
  <2>1. ma \in Stream /\ StreamShape(ma) /\ ma.ticketId = st.ticketId
    BY <1>m, MarkAbortedFacts DEF StreamShape, Finishing
  <2>2. CASE nt = ma
    BY <2>1, <2>2
  <2>3. CASE nt = Thrown(st, removed)
    <3>1. /\ nt \in Stream /\ nt.phase = ma.phase /\ nt.ticketId = ma.ticketId
          /\ nt.chunks = ma.chunks /\ nt.streamEnded = ma.streamEnded
          /\ nt.replies = ma.replies /\ nt.sink = ma.sink
      BY <2>3, ThrownFacts
    <3> HIDE DEF ma
    <3>2. QED BY <2>1, <3>1 DEF StreamShape
  <2>4. QED BY <1>m, <2>2, <2>3
<1>f. ASSUME FlushSink(s)
      PROVE  /\ streams' = [streams EXCEPT ![s] = streams'[s]]
             /\ streams'[s] \in Stream /\ StreamShape(streams'[s])
             /\ streams'[s].ticketId = streams[s].ticketId
  <2> DEFINE n == streams[s].stored + 1
             nt == [streams[s] EXCEPT !.stored = n]
  <2>1. streams' = [streams EXCEPT ![s] = nt] /\ n \in Nat
    BY <1>f, <1>s DEF FlushSink, Stream
  <2> HIDE DEF n
  <2>2. /\ nt \in Stream /\ nt.ticketId = streams[s].ticketId /\ nt.phase = streams[s].phase
        /\ nt.streamEnded = streams[s].streamEnded /\ nt.replies = streams[s].replies
        /\ nt.sink = streams[s].sink /\ nt.chunks = streams[s].chunks
    BY <1>s, <2>1 DEF Stream
  <2> HIDE DEF nt
  <2>3. StreamShape(nt)
    BY <1>s, <2>2 DEF StreamShape
  <2>4. QED BY <1>s, <2>1, <2>2, <2>3
<1>4. ASSUME ProcessHeader(s)
      PROVE  /\ streams' = [streams EXCEPT ![s] = streams'[s]]
             /\ streams'[s] \in Stream /\ StreamShape(streams'[s])
             /\ streams'[s].ticketId = streams[s].ticketId
  <2>1. Turn(s, "header")
    BY <1>4 DEF ProcessHeader
  <2>2. CASE streams[s].headerReceived
    <3>1. PICK removed \in BOOLEAN :
              streams' = [streams EXCEPT ![s] = MarkAborted(Handled(s), removed)]
      BY <1>4, <2>2 DEF ProcessHeader
    <3>2. QED BY <1>h, <1>m, <1>s, <2>1, <3>1
  <2>3. CASE ~streams[s].headerReceived
    <3> DEFINE st == [Handled(s) EXCEPT !.headerReceived = TRUE, !.phase = "header"]
    <3>1. streams' = [streams EXCEPT ![s] = st]
      BY <1>4, <2>3 DEF ProcessHeader
    <3>2. /\ Handled(s) \in Stream /\ StreamShape(Handled(s))
          /\ Handled(s).phase = "open" /\ Handled(s).ticketId = streams[s].ticketId
      BY <1>h, <2>1
    <3>3. st \in Stream /\ StreamShape(st) /\ st.ticketId = streams[s].ticketId
      BY <3>2 DEF Stream, StreamShape, Phases, Finishing
    <3> HIDE DEF st
    <3>4. QED BY <1>s, <3>1, <3>3
  <2>4. QED BY <2>2, <2>3
<1>5. ASSUME ProcessChunk(s)
      PROVE  /\ streams' = [streams EXCEPT ![s] = streams'[s]]
             /\ streams'[s] \in Stream /\ StreamShape(streams'[s])
             /\ streams'[s].ticketId = streams[s].ticketId
  <2>1. /\ Handled(s) \in Stream /\ StreamShape(Handled(s))
        /\ Handled(s).phase = "open" /\ Handled(s).ticketId = streams[s].ticketId
        /\ Handled(s).sink = streams[s].sink
    BY <1>5, <1>h, <1>s, HandledFacts DEF ProcessChunk
  <2>2. ASSUME NEW removed \in BOOLEAN,
               NEW nt \in {MarkAborted(Handled(s), removed), Thrown(Handled(s), removed)},
               streams' = [streams EXCEPT ![s] = nt]
        PROVE  /\ streams' = [streams EXCEPT ![s] = streams'[s]]
               /\ streams'[s] \in Stream /\ StreamShape(streams'[s])
               /\ streams'[s].ticketId = streams[s].ticketId
    BY <1>m, <1>s, <2>1, <2>2
  <2>3. CASE /\ streams[s].sink # "none"
             /\ streams' = [streams EXCEPT ![s] = [Handled(s) EXCEPT !.chunks = @ + 1]]
    <3> DEFINE st == [Handled(s) EXCEPT !.chunks = @ + 1]
    <3>1. st \in Stream /\ StreamShape(st) /\ st.ticketId = streams[s].ticketId
      BY <2>1, <2>3 DEF Stream, StreamShape
    <3>2. streams' = [streams EXCEPT ![s] = st]
      BY <2>3
    <3> HIDE DEF st
    <3>3. QED BY <1>s, <3>1, <3>2
  <2>4. QED BY <1>5, <2>2, <2>3 DEF ProcessChunk
<1>6. ASSUME ProcessEnd(s)
      PROVE  /\ streams' = [streams EXCEPT ![s] = streams'[s]]
             /\ streams'[s] \in Stream /\ StreamShape(streams'[s])
             /\ streams'[s].ticketId = streams[s].ticketId
  <2> DEFINE st == [Handled(s) EXCEPT !.streamEnded = TRUE]
  <2>1. /\ st \in Stream /\ st.streamEnded /\ st.replies = 0
        /\ st.ticketId = streams[s].ticketId
        /\ st.sink # "none" => st.ticketId # Nil
        /\ st.chunks > 0 => st.ticketId # Nil
    <3>1. /\ Handled(s) \in Stream /\ StreamShape(Handled(s))
          /\ Handled(s).phase = "open" /\ Handled(s).ticketId = streams[s].ticketId
      BY <1>6, <1>h DEF ProcessEnd
    <3>2. QED BY <3>1 DEF Stream, StreamShape
  <2>2. streams' = [streams EXCEPT ![s] =
            IF st.aborted
              THEN [st EXCEPT !.phase = "done",
                              !.replies = IF st.pendingAbort THEN @ + 1 ELSE @]
            ELSE IF st.headerReceived /\ MayFinish(st)
              THEN [st EXCEPT !.closed = TRUE, !.sink = "ended", !.phase = "beforePush"]
              ELSE [MarkAborted(st, TRUE) EXCEPT !.phase = "done"]]
    BY <1>6 DEF ProcessEnd
  <2> HIDE DEF st
  <2> DEFINE a == [st EXCEPT !.phase = "done", !.replies = IF st.pendingAbort THEN @ + 1 ELSE @]
             b == [st EXCEPT !.closed = TRUE, !.sink = "ended", !.phase = "beforePush"]
             ma == MarkAborted(st, TRUE)
             d == [ma EXCEPT !.phase = "done"]
  <2>3. a \in Stream /\ StreamShape(a) /\ a.ticketId = st.ticketId
    <3> DEFINE n == IF st.pendingAbort THEN st.replies + 1 ELSE st.replies
    <3>1. n \in 0..1 /\ a = [st EXCEPT !.phase = "done", !.replies = n]
      BY <2>1 DEF Stream
    <3> HIDE DEF n, a
    <3>2. a \in Stream
      <4>1. n \in Nat /\ "done" \in Phases
        BY <3>1 DEF Phases
      <4>2. QED BY <2>1, <3>1, <4>1, PhaseUpdate
    <3>3. QED BY <2>1, <3>1, <3>2 DEF Stream, StreamShape, Finishing
  <2>4. MayFinish(st) => b \in Stream /\ StreamShape(b) /\ b.ticketId = st.ticketId
    BY <2>1 DEF Stream, StreamShape, Phases, Finishing, MayFinish
  <2>5. /\ ma \in Stream /\ ma.streamEnded /\ ma.replies <= 1
        /\ ma.ticketId = st.ticketId
        /\ ma.sink # "none" => ma.ticketId # Nil
        /\ ma.chunks > 0 => ma.ticketId # Nil
    <3>1. TRUE \in BOOLEAN
      OBVIOUS
    <3> HIDE DEF ma
    <3>2. /\ ma \in Stream /\ ma.streamEnded = st.streamEnded /\ ma.ticketId = st.ticketId
          /\ ma.replies \in st.replies .. st.replies + 1
          /\ ma.chunks = st.chunks /\ (ma.sink # "none" => st.sink # "none")
      BY <2>1, <3>1, MarkAbortedFacts DEF ma
    <3>3. QED BY <2>1, <3>2
  <2> HIDE DEF ma
  <2>6. d \in Stream /\ StreamShape(d) /\ d.ticketId = st.ticketId
    BY <2>5 DEF Stream, StreamShape, Phases, Finishing
  <2>7. \E x \in Stream : /\ streams' = [streams EXCEPT ![s] = x]
                          /\ StreamShape(x) /\ x.ticketId = st.ticketId
    <3>1. CASE st.aborted
      BY <2>2, <2>3, <3>1
    <3>2. CASE ~st.aborted /\ st.headerReceived /\ MayFinish(st)
      BY <2>2, <2>4, <3>2
    <3>3. CASE ~st.aborted /\ ~(st.headerReceived /\ MayFinish(st))
      BY <2>2, <2>6, <3>3 DEF ma
    <3>4. QED BY <3>1, <3>2, <3>3
  <2>8. QED BY <1>s, <2>1, <2>7
<1>7. ASSUME HeaderResolved(s)
      PROVE  /\ streams' = [streams EXCEPT ![s] = streams'[s]]
             /\ streams'[s] \in Stream /\ StreamShape(streams'[s])
             /\ \/ streams'[s].ticketId = streams[s].ticketId
                \/ /\ calls[s].result = "granted" /\ calls'[s] = IdleCall
                   /\ streams'[s].ticketId = calls[s].t
  <2>1. calls[s].t \in Tickets /\ calls[s].t # Nil
    BY <1>7, TicketAssumptions DEF HeaderResolved, TicketIInv, CallShape
  <2>2. calls'[s] = IdleCall
    BY <1>7, <1>s DEF HeaderResolved, Return
  <2>3. CASE calls[s].result = "granted"
    <3> DEFINE st == [streams[s] EXCEPT !.ticketId = calls[s].t, !.phase = "mkdir"]
    <3>1. streams' = [streams EXCEPT ![s] = st]
      BY <1>7, <1>s, <2>3 DEF HeaderResolved
    <3>2. st \in Stream /\ StreamShape(st) /\ st.ticketId = calls[s].t
      BY <1>7, <1>s, <2>1 DEF HeaderResolved, Stream, StreamShape, Phases, Finishing
    <3> HIDE DEF st
    <3>3. QED BY <1>s, <2>2, <2>3, <3>1, <3>2
  <2>4. CASE calls[s].result # "granted"
    <3> DEFINE st == [streams[s] EXCEPT !.phase = "open"]
    <3>1. streams' = [streams EXCEPT ![s] = Thrown(st, TRUE)]
      BY <1>7, <1>s, <2>4 DEF HeaderResolved
    <3>2. st \in Stream /\ StreamShape(st) /\ st.ticketId = streams[s].ticketId
          /\ st.phase = "open"
      BY <1>7, <1>s DEF HeaderResolved, Stream, StreamShape, Phases, Finishing
    <3> HIDE DEF st
    <3>3. QED BY <1>m, <1>s, <3>1, <3>2
  <2>5. QED BY <2>3, <2>4
<1>8. ASSUME OpenStaging(s)
      PROVE  /\ streams' = [streams EXCEPT ![s] = streams'[s]]
             /\ streams'[s] \in Stream /\ StreamShape(streams'[s])
             /\ streams'[s].ticketId = streams[s].ticketId
  BY <1>8, <1>s DEF OpenStaging, Stream, StreamShape, Phases, Finishing
<1>9. ASSUME OpenStagingFails(s)
      PROVE  /\ streams' = [streams EXCEPT ![s] = streams'[s]]
             /\ streams'[s] \in Stream /\ StreamShape(streams'[s])
             /\ streams'[s].ticketId = streams[s].ticketId
  <2> DEFINE st == [streams[s] EXCEPT !.phase = "open"]
  <2>1. PICK removed \in BOOLEAN : streams' = [streams EXCEPT ![s] = Thrown(st, removed)]
    BY <1>9, <1>s DEF OpenStagingFails
  <2>2. st \in Stream /\ StreamShape(st) /\ st.ticketId = streams[s].ticketId
        /\ st.phase = "open"
    BY <1>9, <1>s DEF OpenStagingFails, Stream, StreamShape, Phases, Finishing
  <2> HIDE DEF st
  <2>3. QED BY <1>m, <1>s, <2>1, <2>2
<1>10. ASSUME FinishFails(s)
      PROVE  /\ streams' = [streams EXCEPT ![s] = streams'[s]]
             /\ streams'[s] \in Stream /\ StreamShape(streams'[s])
             /\ streams'[s].ticketId = streams[s].ticketId
  <2> DEFINE ma == MarkAborted(streams[s], TRUE)
             d == [ma EXCEPT !.phase = "done"]
  <2>1. streams' = [streams EXCEPT ![s] = d]
    BY <1>10 DEF FinishFails
  <2>2. /\ ma \in Stream /\ ma.streamEnded /\ ma.replies <= 1
        /\ ma.ticketId = streams[s].ticketId
        /\ ma.ticketId # Nil
    <3>1. TRUE \in BOOLEAN
      OBVIOUS
    <3> HIDE DEF ma
    <3>2. /\ ma \in Stream /\ ma.streamEnded = streams[s].streamEnded
          /\ ma.ticketId = streams[s].ticketId
          /\ ma.replies \in streams[s].replies .. streams[s].replies + 1
      BY <1>s, <3>1, MarkAbortedFacts DEF ma
    <3>3. streams[s].streamEnded /\ streams[s].replies = 0 /\ streams[s].ticketId # Nil
      BY <1>10, <1>s DEF FinishFails, StreamShape, Finishing
    <3>4. QED BY <3>2, <3>3
  <2> HIDE DEF ma
  <2>3. d \in Stream /\ StreamShape(d) /\ d.ticketId = streams[s].ticketId
    BY <2>2 DEF Stream, StreamShape, Phases, Finishing
  <2> HIDE DEF d
  <2>4. QED BY <1>s, <2>1, <2>3
<1>11. ASSUME AutoCreateRepo(s) \/ BeforePushResolved(s) \/ CreateJob(s) \/ FinishCloses(s) \/ FinishReplies(s)
      PROVE  /\ streams' = [streams EXCEPT ![s] = streams'[s]]
             /\ streams'[s] \in Stream /\ StreamShape(streams'[s])
             /\ streams'[s].ticketId = streams[s].ticketId
  <2> DEFINE Moved(p) == [streams[s] EXCEPT !.phase = p]
             n == streams[s].replies + 1
             Answered == [streams[s] EXCEPT !.phase = "done", !.replies = n]
  <2>1. streams[s].phase \in Finishing
    BY <1>11 DEF AutoCreateRepo, BeforePushResolved, CreateJob, FinishCloses, FinishReplies,
       Finishing
  <2>2. \A p \in Finishing :
            Moved(p) \in Stream /\ StreamShape(Moved(p)) /\ Moved(p).ticketId = streams[s].ticketId
    BY <1>s, <2>1 DEF Stream, StreamShape, Phases, Finishing
  <2>3. Answered \in Stream /\ StreamShape(Answered) /\ Answered.ticketId = streams[s].ticketId
    <3>1. n = 1
      BY <1>s, <2>1 DEF StreamShape
    <3> HIDE DEF n
    <3>2. Answered \in Stream
      BY <1>s, <3>1, PhaseUpdate DEF Phases
    <3>3. QED BY <1>s, <2>1, <3>1, <3>2 DEF Stream, StreamShape, Finishing
  <2>4. \/ \E p \in Finishing : streams' = [streams EXCEPT ![s] = Moved(p)]
        \/ streams' = [streams EXCEPT ![s] = Answered]
    <3>0. CASE AutoCreateRepo(s)
      BY <1>s, <3>0 DEF AutoCreateRepo, Finishing
    <3>1. CASE BeforePushResolved(s)
      BY <1>s, <3>1 DEF BeforePushResolved, Finishing
    <3>2. CASE CreateJob(s)
      BY <1>s, <3>2 DEF CreateJob, Finishing
    <3>3. CASE FinishCloses(s)
      <4>0. streams' = [streams EXCEPT ![s] =
              IF streams[s].phase = "closeTicket"
                THEN [streams[s] EXCEPT !.phase = "committedHook"]
                ELSE [streams[s] EXCEPT !.phase = "done", !.replies = @ + 1]]
        BY <1>s, <3>3 DEF FinishCloses
      <4>1. CASE streams[s].phase = "closeTicket"
        <5>1. streams' = [streams EXCEPT ![s] = Moved("committedHook")]
          BY <1>s, <3>3, <4>1 DEF FinishCloses
        <5>2. QED BY <5>1 DEF Finishing
      <4>2. CASE streams[s].phase = "closeDryRun"
        <5>1. streams' = [streams EXCEPT ![s] =
                [streams[s] EXCEPT !.phase = "done", !.replies = @ + 1]]
          BY <4>0, <4>2
        <5>2. QED BY <5>1
      <4>3. QED BY <3>3, <4>1, <4>2 DEF FinishCloses
    <3>4. CASE FinishReplies(s)
      BY <1>s, <3>4 DEF FinishReplies, Finishing
    <3>5. QED BY <1>11, <3>0, <3>1, <3>2, <3>3, <3>4
  <2> HIDE DEF Moved, Answered
  <2>5. QED BY <1>s, <2>2, <2>3, <2>4
<1>12. QED
  BY <1>1, <1>2, <1>3, <1>4, <1>5, <1>6, <1>7, <1>8, <1>9, <1>10, <1>11, <1>f
     DEF StreamStep, StreamEnvironment

----------------------------------------------------------------------------
(* The step of the inductive invariant.                                    *)

\* Every step of the engine keeps what the phases know.
LEMMA EngineShapeStep ==
  ASSUME EngineIInv, [Next]_vars
  PROVE  /\ SessionShape'
         /\ streams' \in [Streams -> Stream] /\ pulls' \in [Pulls -> Pull] /\ jobs' \subseteq Streams
         \* Sessions gain a ticket only by a granted call, one session at a time.
         /\ \E y \in Sessions \cup {Nil} :
                /\ \A x \in Sessions \ {y} : Held(x)' = Held(x)
                /\ y \in Sessions =>
                     \/ Held(y)' \in {Held(y), Nil}
                     \/ /\ calls[y].result = "granted" /\ calls'[y] = IdleCall
                        /\ Held(y)' = calls[y].t
<1> USE DEF EngineIInv, Sessions
<1>t. /\ streams \in [Streams -> Stream] /\ pulls \in [Pulls -> Pull] /\ jobs \subseteq Streams
      /\ calls \in [Callers -> Call]
      /\ Streams \cap Pulls = {} /\ Streams \subseteq Callers /\ Pulls \subseteq Callers
  BY SessionAssumptions DEF SessionTypeOK, TicketTypeOK
<1> DEFINE Goal ==
         /\ SessionShape'
         /\ streams' \in [Streams -> Stream] /\ pulls' \in [Pulls -> Pull] /\ jobs' \subseteq Streams
         /\ \E y \in Sessions \cup {Nil} :
                /\ \A x \in Sessions \ {y} : Held(x)' = Held(x)
                /\ y \in Sessions =>
                     \/ Held(y)' \in {Held(y), Nil}
                     \/ /\ calls[y].result = "granted" /\ calls'[y] = IdleCall
                        /\ Held(y)' = calls[y].t
<1>1. ASSUME NEW s \in Streams, StreamStep(s) \/ StreamEnvironment(s) PROVE Goal
  <2>1. /\ streams' = [streams EXCEPT ![s] = streams'[s]]
        /\ streams'[s] \in Stream /\ StreamShape(streams'[s])
        /\ \/ streams'[s].ticketId = streams[s].ticketId
           \/ /\ calls[s].result = "granted" /\ calls'[s] = IdleCall
              /\ streams'[s].ticketId = calls[s].t
    BY <1>1, StreamShapeStep
  <2>2. UNCHANGED pulls /\ jobs' \subseteq Streams
    BY <1>1, <1>t DEF StreamStep, StreamEnvironment, Send, Cancelled, StreamError, FlushSink, DropMessage,
       ProcessHeader, ProcessChunk, ProcessEnd, HeaderResolved, OpenStaging, OpenStagingFails,
       AutoCreateRepo, BeforePushResolved, FinishFails, CreateJob, FinishCloses, FinishReplies
  <2>3. \A x \in Streams \ {s} : streams'[x] = streams[x]
    BY <1>t, <2>1
  <2>4. streams' \in [Streams -> Stream]
    BY <1>t, <2>1
  <2>5. SessionShape'
    BY <2>1, <2>2, <2>3 DEF SessionShape
  <2>6. \A x \in Sessions \ {s} : Held(x)' = Held(x)
    BY <2>2, <2>3 DEF Held
  <2>7. \/ Held(s)' = Held(s)
        \/ /\ calls[s].result = "granted" /\ calls'[s] = IdleCall
           /\ Held(s)' = calls[s].t
    BY <2>1 DEF Held
  <2>8. QED BY <1>t, <2>2, <2>4, <2>5, <2>6, <2>7
<1>2. ASSUME NEW p \in Pulls, PullStep(p) \/ \E t \in Tickets, r \in Repos : PullBegin(p, t, r)
      PROVE  Goal
  <2>1. UNCHANGED <<streams, jobs>>
    BY <1>2 DEF PullStep, PullBegin, PullResolved, PullEnds
  <2>2. /\ pulls' = [pulls EXCEPT ![p] = pulls'[p]] /\ pulls'[p] \in Pull
        /\ pulls'[p].phase = "stream" => pulls'[p].ticketId # Nil
        /\ \/ pulls'[p].ticketId \in {pulls[p].ticketId, Nil}
           \/ /\ calls[p].result = "granted" /\ calls'[p] = IdleCall
              /\ pulls'[p].ticketId = calls[p].t
    <3>1. CASE PullResolved(p)
      <4>1. calls[p].t \in Tickets /\ calls[p].t # Nil
        BY <1>t, <3>1, TicketAssumptions DEF PullResolved, TicketIInv, CallShape
      <4>2. calls'[p] = IdleCall
        BY <1>t, <3>1 DEF PullResolved, Return
      <4>3. QED BY <1>t, <3>1, <4>1, <4>2 DEF PullResolved, Pull
    <3>2. CASE PullEnds(p)
      BY <1>t, <3>2 DEF PullEnds, Pull
    <3>3. CASE \E t \in Tickets, r \in Repos : PullBegin(p, t, r)
      BY <1>t, <3>3 DEF PullBegin, Pull
    <3>4. QED BY <1>2, <3>1, <3>2, <3>3 DEF PullStep
  <2>3. \A x \in Pulls \ {p} : pulls'[x] = pulls[x]
    BY <1>t, <2>2
  <2>4. SessionShape'
    BY <2>1, <2>2, <2>3 DEF SessionShape
  <2>5. \A x \in Sessions \ {p} : Held(x)' = Held(x)
    BY <2>1, <2>3 DEF Held
  <2>6. \/ Held(p)' \in {Held(p), Nil}
        \/ /\ calls[p].result = "granted" /\ calls'[p] = IdleCall
           /\ Held(p)' = calls[p].t
    BY <1>t, <2>2 DEF Held
  <2>7. pulls' \in [Pulls -> Pull]
    BY <1>t, <2>2
  <2>8. QED BY <1>t, <2>1, <2>4, <2>5, <2>6, <2>7
<1>3. CASE UNCHANGED sessionVars
  <2>1. UNCHANGED <<streams, pulls, jobs>>
    BY <1>3 DEF sessionVars
  <2>2. \A x \in Sessions : Held(x)' = Held(x)
    BY <2>1 DEF Held
  <2>3. SessionShape'
    BY <2>1 DEF SessionShape
  <2>4. QED BY <1>t, <2>1, <2>2, <2>3
<1>4. Goal
  BY <1>1, <1>2, <1>3 DEF Next, vars
<1>5. QED BY <1>4

\* Every step of the engine keeps the invariant.
LEMMA EngineIInvStep == EngineIInv /\ [Next]_vars => EngineIInv'
<1> SUFFICES ASSUME EngineIInv, [Next]_vars PROVE EngineIInv'
  OBVIOUS
<1>1. [TicketNext]_ticketVars
  BY EngineRefinesStep
<1>2. TicketIInv'
  BY <1>1, TicketIInvStep DEF EngineIInv
<1>3. SessionShape' /\ SessionTypeOK'
  BY <1>2, EngineShapeStep DEF SessionTypeOK, TicketIInv
<1>4. PICK y \in Sessions \cup {Nil} :
        /\ \A x \in Sessions \ {y} : Held(x)' = Held(x)
        /\ y \in Sessions =>
             \/ Held(y)' \in {Held(y), Nil}
             \/ /\ calls[y].result = "granted" /\ calls'[y] = IdleCall
                /\ Held(y)' = calls[y].t
  BY EngineShapeStep
<1>5. /\ \A t \in Tickets : tickets[t].status \in {"active", "closed"} =>
                tickets'[t].status \in {"active", "closed"}
      /\ \A c \in Callers : calls'[c].result = "granted" =>
                \/ calls[c].result = "granted" /\ calls'[c].t = calls[c].t
                \/ /\ tickets[calls'[c].t].status = "issued"
                   /\ \A d \in Callers \ {c} : calls'[d] = calls[d]
  BY <1>1, GrantStep DEF EngineIInv
<1>6. IdleCall.result # "granted"
  BY DEF IdleCall
<1>7. \A x \in Sessions : Held(x) \in Tickets \cup {Nil}
  BY DEF EngineIInv, SessionTypeOK, Sessions, Held, Stream, Pull
<1>8. Sessions \subseteq Callers
  BY SessionAssumptions DEF Sessions
<1>9. \A c \in Callers : calls[c].result = "granted" =>
          calls[c].t \in Tickets /\ tickets[calls[c].t].status \in {"active", "closed"}
  BY DEF EngineIInv, TicketIInv, CallShape, GrantConsumes
<1>n. Nil \notin Tickets
  BY TicketAssumptions
<1>10. ASSUME NEW x \in Sessions, Held(x)' # Nil
       PROVE  tickets'[Held(x)'].status \in {"active", "closed"}
  BY <1>10, <1>4, <1>5, <1>7, <1>8, <1>9 DEF EngineIInv, Ownership
<1>11. ASSUME NEW x \in Sessions, NEW c \in Callers, calls'[c].result = "granted"
       PROVE  calls'[c].t # Held(x)'
  <2>0. calls'[c].t \in Tickets
    BY <1>2, <1>11 DEF TicketIInv, CallShape
  <2>1. CASE Held(x)' = Nil
    BY <1>n, <2>0, <2>1
  <2>2. CASE Held(x)' = Held(x) /\ Held(x)' # Nil
    BY <1>5, <1>11, <2>2 DEF EngineIInv, Ownership
  <2>3. CASE /\ calls[x].result = "granted" /\ calls'[x] = IdleCall
             /\ Held(x)' = calls[x].t
    <3>1. c # x
      BY <1>6, <1>11, <2>3
    <3>2. CASE calls[c].result = "granted" /\ calls'[c].t = calls[c].t
      BY <1>8, <2>3, <3>1, <3>2 DEF EngineIInv, Ownership
    <3>3. CASE tickets[calls'[c].t].status = "issued"
      BY <1>8, <1>9, <2>3, <3>3
    <3>4. QED BY <1>5, <1>11, <3>2, <3>3
  <2>4. QED BY <1>4, <2>1, <2>2, <2>3
<1>12. ASSUME NEW c \in Callers, NEW d \in Callers, calls'[c].result = "granted",
              calls'[d].result = "granted", calls'[c].t = calls'[d].t
       PROVE  c = d
  <2> SUFFICES ASSUME c # d PROVE FALSE
    OBVIOUS
  <2>1. CASE calls[c].result = "granted" /\ calls'[c].t = calls[c].t
    <3>1. CASE calls[d].result = "granted" /\ calls'[d].t = calls[d].t
      BY <1>12, <2>1, <3>1 DEF EngineIInv, Ownership
    <3>2. CASE tickets[calls'[d].t].status = "issued"
      BY <1>9, <1>12, <2>1, <3>2
    <3>3. QED BY <1>5, <1>12, <3>1, <3>2
  <2>2. CASE /\ tickets[calls'[c].t].status = "issued"
             /\ \A e \in Callers \ {c} : calls'[e] = calls[e]
    <3>1. calls[d].result = "granted" /\ calls[d].t = calls'[c].t
      BY <1>12, <2>2
    <3>2. QED BY <1>9, <2>2, <3>1
  <2>3. QED BY <1>5, <1>12, <2>1, <2>2
<1>13. Ownership'
  BY <1>10, <1>11, <1>12 DEF Ownership, Sessions
<1>14. ASSUME NEW x \in Sessions, NEW z \in Sessions, Held(x)' # Nil, Held(x)' = Held(z)'
       PROVE  x = z
  <2> SUFFICES ASSUME x # z PROVE FALSE
    OBVIOUS
  <2>1. ASSUME NEW a \in Sessions, NEW b \in Sessions, a # b, b = y,
               Held(a)' = Held(b)', Held(a)' # Nil
        PROVE  FALSE
    <3>1. Held(a)' = Held(a)
      BY <1>4, <2>1
    <3>2. CASE Held(b)' = Held(b)
      BY <2>1, <3>1, <3>2 DEF EngineIInv, TicketSingleUse, Sessions
    <3>3. CASE calls[b].result = "granted" /\ Held(b)' = calls[b].t
      BY <1>8, <2>1, <3>1, <3>3 DEF EngineIInv, Ownership
    <3>4. QED BY <1>4, <2>1, <3>2, <3>3
  <2>2. CASE x # y /\ z # y
    BY <1>4, <1>14, <2>2 DEF EngineIInv, TicketSingleUse, Sessions
  <2>3. QED BY <1>14, <2>1, <2>2
<1>15. TicketSingleUse'
  BY <1>14 DEF TicketSingleUse, Sessions
<1>16. QED
  BY <1>2, <1>3, <1>13, <1>15 DEF EngineIInv

\* The invariant holds in every state the engine reaches.
LEMMA EngineIInvCorrect == Spec => []EngineIInv
  BY EngineIInvInit, EngineIInvStep, PTL DEF Spec

----------------------------------------------------------------------------
(* Uploads.  CommittedUploadIntact is not inductive: it must know, of every *)
(* stream, where the chunks offered so far are, and of a finishing one     *)
(* that abort() finds it closed.                                           *)

\* Where the chunks of a queue stand, and how many they are.
ChunksIn(q) == {i \in 1 .. Len(q) : q[i].kind = "chunk"}

Waiting(q) == Cardinality(ChunksIn(q))

\* The number of waiting chunks is a number.
LEMMA WaitingNat ==
  ASSUME NEW q \in Seq(Message)
  PROVE  IsFiniteSet(ChunksIn(q)) /\ Waiting(q) \in Nat
<1>1. IsFiniteSet(1 .. Len(q))
  BY FS_Interval
<1>2. QED BY <1>1, FS_Subset, FS_CardinalityType DEF ChunksIn, Waiting

\* No chunk waits in an empty queue.
LEMMA WaitingEmpty ==
  ASSUME NEW q \in Seq(Message), q = << >>
  PROVE  Waiting(q) = 0
<1>1. ChunksIn(q) = {}
  BY DEF ChunksIn
<1>2. QED BY <1>1, FS_EmptySet DEF Waiting

\* Sending a message adds one waiting chunk if it is one.
LEMMA WaitingAppend ==
  ASSUME NEW q \in Seq(Message), NEW m \in Message
  PROVE  Waiting(Append(q, m)) = IF m.kind = "chunk" THEN Waiting(q) + 1 ELSE Waiting(q)
<1> DEFINE r == Append(q, m)
<1>1. /\ Len(r) = Len(q) + 1 /\ Len(q) \in Nat
      /\ \A i \in 1 .. Len(q) : r[i] = q[i]
      /\ r[Len(q) + 1] = m
  OBVIOUS
<1> HIDE DEF r
<1>2. ChunksIn(r) = IF m.kind = "chunk" THEN ChunksIn(q) \cup {Len(q) + 1} ELSE ChunksIn(q)
  BY <1>1 DEF ChunksIn
<1>3. Len(q) + 1 \notin ChunksIn(q)
  BY <1>1 DEF ChunksIn
<1>4. QED BY <1>2, <1>3, WaitingNat, FS_AddElement DEF Waiting, r

\* Taking a message off the queue takes one waiting chunk if it is one.
LEMMA WaitingTail ==
  ASSUME NEW q \in Seq(Message), q # << >>
  PROVE  /\ Tail(q) \in Seq(Message)
         /\ Waiting(q) = IF Head(q).kind = "chunk" THEN Waiting(Tail(q)) + 1 ELSE Waiting(Tail(q))
<1> DEFINE r == Tail(q)
           later == ChunksIn(q) \ {1}
           shift == [i \in ChunksIn(r) |-> i + 1]
<1>1. /\ Len(r) = Len(q) - 1 /\ Len(q) \in Nat \ {0} /\ r \in Seq(Message)
      /\ \A i \in 1 .. Len(r) : r[i] = q[i + 1]
      /\ Head(q) = q[1]
  OBVIOUS
<1> HIDE DEF r
<1>2. /\ \A i \in ChunksIn(r) : i \in Nat /\ i + 1 \in later
      /\ \A j \in later : j - 1 \in ChunksIn(r) /\ j \in Nat
  BY <1>1 DEF ChunksIn
<1>3. shift \in Bijection(ChunksIn(r), later)
  <2>1. shift \in [ChunksIn(r) -> later]
    BY <1>2
  <2>2. \A a, b \in ChunksIn(r) : shift[a] = shift[b] => a = b
    BY <1>2
  <2>3. \A j \in later : \E a \in ChunksIn(r) : shift[a] = j
    <3> TAKE j \in later
    <3>1. j - 1 \in ChunksIn(r) /\ shift[j - 1] = j
      BY <1>2
    <3>2. QED BY <3>1
  <2> HIDE DEF shift
  <2>4. QED BY <2>1, <2>2, <2>3, Fun_IsBij
<1>4. Cardinality(later) = Waiting(r) /\ IsFiniteSet(later)
  <2>1. IsFiniteSet(ChunksIn(r))
    BY <1>1, WaitingNat
  <2>2. ExistsBijection(ChunksIn(r), later)
    BY <1>3 DEF ExistsBijection
  <2>3. QED BY <2>1, <2>2, FS_Bijection DEF Waiting
<1>5. 1 \in ChunksIn(q) <=> Head(q).kind = "chunk"
  BY <1>1 DEF ChunksIn
<1>6. CASE Head(q).kind = "chunk"
  <2>1. ChunksIn(q) = later \cup {1}
    BY <1>5, <1>6
  <2> HIDE DEF later
  <2>2. 1 \notin later
    BY DEF later
  <2>3. QED BY <1>1, <1>4, <1>6, <2>1, <2>2, FS_AddElement DEF Waiting, r
<1>7. CASE Head(q).kind # "chunk"
  <2>1. ChunksIn(q) = later
    BY <1>5, <1>7
  <2> HIDE DEF later
  <2>2. QED BY <1>1, <1>4, <1>7, <2>1 DEF Waiting, r
<1>8. QED BY <1>6, <1>7

----------------------------------------------------------------------------
(* Uploads and jobs.                                                       *)

\* Everything the client offered is staged, and no abort() removed it.
UploadWhole(st) ==
    /\ st.endSent /\ st.closed
    /\ st.sink = "ended" /\ st.file = "present"
    /\ st.chunks = st.offered

\* 'end' is the last message; until an abort, every chunk offered is staged or
\* queued; finish() goes on only with a whole upload.
UploadShape(st) ==
    /\ \A i \in 1 .. Len(st.queue) :
            st.queue[i].kind = "end" => i = Len(st.queue) /\ st.endSent
    /\ ~st.aborted => st.offered = st.chunks + Waiting(st.queue)
    /\ st.phase \in Finishing => UploadWhole(st)
    /\ st.sink # "none" /\ ~st.closed => st.sink = "open" /\ st.file = "present"

JobShape(st) ==
    /\ st.phase \in {"closeTicket", "committedHook", "done"}
    /\ UploadWhole(st)

UploadInv ==
    /\ \A s \in Streams : UploadShape(streams[s])
    /\ \A s \in jobs : JobShape(streams[s])

\* nt is st cut off: closed for good, or left alone if it was closed before.
CutOff(st, nt) ==
    /\ nt.queue = st.queue /\ nt.endSent = st.endSent
    /\ nt.offered = st.offered /\ nt.chunks = st.chunks
    /\ nt.phase = st.phase /\ (st.aborted => nt.aborted)
    /\ nt.closed
    /\ st.closed => nt.sink = st.sink /\ nt.file = st.file

\* abort() cuts a stream off.
LEMMA AbortCuts ==
  ASSUME NEW st \in Stream, NEW removed \in BOOLEAN
  PROVE  CutOff(st, Abort(st, removed))
  BY DEF Abort, Stream, CutOff

\* So does markAborted.
LEMMA MarkAbortedCuts ==
  ASSUME NEW st \in Stream, NEW removed \in BOOLEAN
  PROVE  LET nt == MarkAborted(st, removed) IN
         /\ nt.aborted
         /\ ~st.aborted => CutOff(st, nt)
         /\ st.aborted => nt = st
<1> DEFINE mid == [st EXCEPT !.aborted = TRUE, !.pendingAbort = TRUE]
           ab == Abort(mid, removed)
           ends == st.streamEnded /\ ~AbortRejects(st, removed)
<1>1. /\ mid \in Stream /\ mid.aborted /\ mid.phase = st.phase /\ mid.queue = st.queue
      /\ mid.endSent = st.endSent /\ mid.offered = st.offered /\ mid.chunks = st.chunks
      /\ mid.closed = st.closed /\ mid.sink = st.sink /\ mid.file = st.file
  BY DEF Stream
<1>2. CutOff(mid, ab) /\ ab \in Stream
  BY <1>1, AbortCuts, AbortFacts
<1>3. MarkAborted(st, removed) =
        IF st.aborted THEN st
        ELSE [ab EXCEPT !.replies = IF ends THEN @ + 1 ELSE @]
  BY DEF MarkAborted
<1> HIDE DEF mid, ab, ends
<1>4. QED
  BY <1>1, <1>2, <1>3 DEF Stream, CutOff

\* So does a failure that may break the queue.
LEMMA FailureCuts ==
  ASSUME NEW st \in Stream, NEW removed \in BOOLEAN, ~st.aborted,
         NEW nt \in {MarkAborted(st, removed), Thrown(st, removed)}
  PROVE  nt \in Stream /\ nt.aborted /\ CutOff(st, nt)
<1> DEFINE ma == MarkAborted(st, removed)
<1>1. ma \in Stream /\ ma.aborted /\ CutOff(st, ma)
  BY MarkAbortedFacts, MarkAbortedCuts
<1>2. CASE nt = ma
  BY <1>1, <1>2
<1>3. CASE nt = Thrown(st, removed)
  <2>1. /\ nt \in Stream /\ nt.phase = ma.phase /\ nt.queue = ma.queue
        /\ nt.endSent = ma.endSent /\ nt.offered = ma.offered /\ nt.chunks = ma.chunks
        /\ nt.aborted = ma.aborted /\ nt.closed = ma.closed /\ nt.sink = ma.sink
        /\ nt.file = ma.file
    BY <1>3, ThrownFacts
  <2> HIDE DEF ma
  <2>2. QED BY <1>1, <2>1 DEF CutOff
<1>4. QED BY <1>2, <1>3

\* A stream that is cut off keeps the shape of its upload.
LEMMA CutOffKeeps ==
  ASSUME NEW st \in Stream, NEW nt \in Stream, CutOff(st, nt), UploadShape(st)
  PROVE  /\ UploadShape(nt)
         /\ JobShape(st) => JobShape(nt)
  BY DEF CutOff, UploadShape, UploadWhole, JobShape

\* What is left of the queue once its first message is taken off.
LEMMA UploadHandled ==
  ASSUME NEW s \in Streams, streams[s] \in Stream, UploadShape(streams[s]),
         NEW kind, Turn(s, kind)
  PROVE  LET st == streams[s]  nt == Handled(s) IN
         /\ nt \in Stream /\ nt = [st EXCEPT !.queue = nt.queue]
         /\ st.phase = "open" /\ nt.queue \in Seq(Message)
         /\ \A i \in 1 .. Len(nt.queue) :
                nt.queue[i].kind = "end" => i = Len(nt.queue) /\ nt.endSent
         /\ Waiting(st.queue) = IF kind = "chunk" THEN Waiting(nt.queue) + 1 ELSE Waiting(nt.queue)
         /\ kind = "end" => nt.queue = << >> /\ st.endSent
<1> DEFINE st == streams[s]
           q == st.queue
           r == Tail(q)
<1>1. st.phase = "open" /\ q # << >> /\ Head(q).kind = kind /\ q \in Seq(Message)
  BY DEF Turn, Stream
<1>2. Handled(s) \in Stream
  BY HandledFacts, <1>1
<1>3. Handled(s) = [st EXCEPT !.queue = r] /\ Handled(s).queue = r /\ Handled(s).endSent = st.endSent
  BY DEF Handled, Stream
<1>4. /\ Len(r) = Len(q) - 1 /\ Len(q) \in Nat \ {0} /\ r \in Seq(Message)
      /\ \A i \in 1 .. Len(r) : r[i] = q[i + 1]
      /\ Head(q) = q[1]
  BY <1>1
<1>5. \A i \in 1 .. Len(q) : q[i].kind = "end" => i = Len(q) /\ st.endSent
  BY DEF UploadShape
<1>6. \A i \in 1 .. Len(r) : r[i].kind = "end" => i = Len(r) /\ st.endSent
  BY <1>4, <1>5
<1>7. Waiting(q) = IF kind = "chunk" THEN Waiting(r) + 1 ELSE Waiting(r)
  BY <1>1, WaitingTail
<1>8. kind = "end" => r = << >> /\ st.endSent
  BY <1>1, <1>4, <1>5
<1> HIDE DEF q, r
<1>9. QED BY <1>1, <1>2, <1>3, <1>4, <1>6, <1>7, <1>8 DEF q

\* One action of a push call keeps its upload whole or recorded as cut off.
LEMMA UploadStep ==
  ASSUME EngineIInv, UploadInv, NEW s \in Streams, StreamStep(s) \/ StreamEnvironment(s)
  PROVE  /\ UploadShape(streams'[s])
         /\ s \in jobs' => JobShape(streams'[s])
         /\ jobs' \subseteq jobs \cup {s}
<1>s. /\ streams \in [Streams -> Stream] /\ streams[s] \in Stream /\ UploadShape(streams[s])
      /\ s \in jobs => JobShape(streams[s])
  BY DEF EngineIInv, SessionTypeOK, UploadInv
<1> DEFINE st == streams[s]
           Goal == /\ UploadShape(streams'[s]) /\ jobs' \subseteq jobs \cup {s}
                   /\ s \in jobs' => JobShape(streams'[s])
<1>1. ASSUME NEW m \in Message, Send(s, m) PROVE Goal
  <2> DEFINE q == Append(st.queue, m)
             e == (m.kind = "end")
             o == IF m.kind = "chunk" THEN st.offered + 1 ELSE st.offered
             k == st.sent + 1
             nt == [st EXCEPT !.queue = q, !.sent = k, !.offered = o, !.endSent = e]
  <2>1. streams'[s] = nt /\ ~st.endSent /\ UNCHANGED jobs
    BY <1>1, <1>s DEF Send
  <2>2. /\ Len(q) = Len(st.queue) + 1 /\ Len(st.queue) \in Nat
        /\ \A i \in 1 .. Len(st.queue) : q[i] = st.queue[i]
        /\ q[Len(st.queue) + 1] = m
        /\ Waiting(q) = IF m.kind = "chunk" THEN Waiting(st.queue) + 1 ELSE Waiting(st.queue)
        /\ Waiting(st.queue) \in Nat /\ st.offered \in Nat /\ st.chunks \in Nat
    BY <1>s, WaitingAppend, WaitingNat DEF Stream
  <2> HIDE DEF q, k
  <2>3. /\ nt.queue = q /\ nt.endSent = e /\ nt.offered = o /\ nt.chunks = st.chunks
        /\ nt.aborted = st.aborted /\ nt.phase = st.phase /\ nt.sink = st.sink
        /\ nt.closed = st.closed /\ nt.file = st.file
    BY <1>s DEF Stream
  <2>4. ~UploadWhole(st)
    BY <2>1 DEF UploadWhole
  <2> HIDE DEF nt
  <2>5. \A i \in 1 .. Len(q) : q[i].kind = "end" => i = Len(q) /\ nt.endSent
    <3>1. \A i \in 1 .. Len(st.queue) : st.queue[i].kind # "end"
      BY <1>s, <2>1 DEF UploadShape
    <3>2. \A i \in 1 .. Len(q) : q[i].kind = "end" => i = Len(q) /\ q[i] = m
      <4>1. SUFFICES ASSUME NEW i \in 1 .. Len(q), q[i].kind = "end" PROVE i = Len(q) /\ q[i] = m
        OBVIOUS
      <4>2. i \in 1 .. Len(st.queue) \/ i = Len(st.queue) + 1
        BY <2>2
      <4>3. i \notin 1 .. Len(st.queue)
        BY <2>2, <3>1, <4>1
      <4>4. QED BY <2>2, <4>2, <4>3
    <3>3. m.kind = "end" => nt.endSent
      BY <2>3
    <3>4. QED BY <3>2, <3>3
  <2>6. ~nt.aborted => nt.offered = nt.chunks + Waiting(nt.queue)
    BY <1>s, <2>2, <2>3 DEF UploadShape
  <2>7. /\ nt.phase \notin Finishing
        /\ nt.sink # "none" /\ ~nt.closed => nt.sink = "open" /\ nt.file = "present"
    BY <1>s, <2>3, <2>4 DEF UploadShape
  <2>8. s \notin jobs'
    BY <1>s, <2>1, <2>4 DEF JobShape
  <2>9. UploadShape(nt)
    BY <2>3, <2>5, <2>6, <2>7 DEF UploadShape
  <2>10. QED BY <2>1, <2>8, <2>9
<1>2. ASSUME Cancelled(s) \/ StreamError(s) PROVE Goal
  <2>1. PICK b \in {st.aborted, TRUE}, removed \in BOOLEAN :
            /\ streams'[s] = Abort([st EXCEPT !.gone = TRUE, !.aborted = b], removed)
            /\ UNCHANGED jobs
    <3>1. CASE Cancelled(s)
      BY <1>s, <3>1 DEF Cancelled
    <3>2. CASE StreamError(s)
      <4>1. [st EXCEPT !.gone = TRUE] = [st EXCEPT !.gone = TRUE, !.aborted = st.aborted]
        BY <1>s DEF Stream
      <4>2. QED BY <1>s, <3>2, <4>1 DEF StreamError
    <3>3. QED BY <1>2, <3>1, <3>2
  <2> DEFINE mid == [st EXCEPT !.gone = TRUE, !.aborted = b]
  <2>2. /\ mid \in Stream /\ (st.aborted => mid.aborted) /\ mid.phase = st.phase
        /\ mid.queue = st.queue /\ mid.file = st.file /\ mid.sink = st.sink
        /\ mid.endSent = st.endSent /\ mid.offered = st.offered /\ mid.chunks = st.chunks
        /\ mid.closed = st.closed
    BY <1>s DEF Stream
  <2>3. streams'[s] = Abort(mid, removed)
    BY <2>1
  <2> HIDE DEF mid
  <2>4. UploadShape(mid) /\ (JobShape(st) => JobShape(mid))
    BY <1>s, <2>2 DEF UploadShape, JobShape, UploadWhole
  <2>5. QED BY <1>s, <2>1, <2>2, <2>3, <2>4, AbortCuts, AbortFacts, CutOffKeeps
<1>3. ASSUME DropMessage(s) PROVE Goal
  <2>1. PICK kind \in {"header", "chunk"} : Turn(s, kind)
    BY <1>3 DEF DropMessage
  <2>2. streams'[s] = Handled(s) /\ UNCHANGED jobs /\ st.aborted
    BY <1>3, <1>s DEF DropMessage
  <2> DEFINE nt == Handled(s)
  <2>3. /\ nt \in Stream /\ nt = [st EXCEPT !.queue = nt.queue] /\ st.phase = "open"
        /\ \A i \in 1 .. Len(nt.queue) :
                nt.queue[i].kind = "end" => i = Len(nt.queue) /\ nt.endSent
    BY <1>s, <2>1, UploadHandled
  <2> HIDE DEF nt
  <2>4. nt.phase = "open" /\ nt.aborted /\ nt.sink = st.sink /\ nt.file = st.file /\ nt.closed = st.closed
    BY <1>s, <2>2, <2>3 DEF Stream
  <2>5. QED BY <1>s, <2>2, <2>3, <2>4 DEF UploadShape, JobShape, Finishing, nt
<1>h. ASSUME NEW kind, Turn(s, kind), UNCHANGED jobs, ~st.aborted, NEW removed \in BOOLEAN,
             NEW nt \in {MarkAborted(Handled(s), removed), Thrown(Handled(s), removed)},
             streams'[s] = nt
      PROVE  Goal
  <2> DEFINE hd == Handled(s)
  <2>1. /\ hd \in Stream /\ hd = [st EXCEPT !.queue = hd.queue] /\ st.phase = "open"
        /\ \A i \in 1 .. Len(hd.queue) :
                hd.queue[i].kind = "end" => i = Len(hd.queue) /\ hd.endSent
    BY <1>s, <1>h, UploadHandled
  <2>0. nt \in {MarkAborted(hd, removed), Thrown(hd, removed)}
    BY <1>h
  <2> HIDE DEF hd
  <2>2. hd.phase = "open" /\ ~hd.aborted
    BY <1>s, <1>h, <2>1 DEF Stream
  <2>3. CutOff(hd, nt) /\ nt.aborted
    BY <2>0, <2>1, <2>2, FailureCuts
  <2>4. QED BY <1>s, <1>h, <2>1, <2>2, <2>3 DEF UploadShape, JobShape, CutOff, Finishing
<1>4. ASSUME ProcessHeader(s) PROVE Goal
  <2>0. Turn(s, "header") /\ ~st.aborted /\ UNCHANGED jobs
    BY <1>4 DEF ProcessHeader
  <2>1. CASE st.headerReceived
    <3>1. PICK removed \in BOOLEAN : streams'[s] = MarkAborted(Handled(s), removed)
      BY <1>4, <1>s, <2>1 DEF ProcessHeader
    <3>2. QED BY <1>h, <2>0, <3>1
  <2>2. CASE ~st.headerReceived
    <3> DEFINE hd == Handled(s)
               nt == [hd EXCEPT !.headerReceived = TRUE, !.phase = "header"]
    <3>1. streams'[s] = nt
      BY <1>4, <1>s, <2>2 DEF ProcessHeader
    <3>2. /\ hd \in Stream /\ hd = [st EXCEPT !.queue = hd.queue] /\ st.phase = "open"
          /\ Waiting(st.queue) = Waiting(hd.queue)
          /\ \A i \in 1 .. Len(hd.queue) :
                hd.queue[i].kind = "end" => i = Len(hd.queue) /\ hd.endSent
      BY <1>s, <2>0, UploadHandled
    <3> HIDE DEF hd
    <3>3. /\ hd.aborted = st.aborted /\ hd.sink = st.sink /\ hd.file = st.file
          /\ hd.closed = st.closed /\ hd.offered = st.offered /\ hd.chunks = st.chunks
      BY <1>s, <3>2 DEF Stream
    <3>4. /\ nt.aborted = hd.aborted /\ nt.sink = hd.sink /\ nt.file = hd.file
          /\ nt.closed = hd.closed /\ nt.offered = hd.offered /\ nt.chunks = hd.chunks
          /\ nt.phase = "header" /\ nt.queue = hd.queue /\ nt.endSent = hd.endSent
      BY <3>2 DEF Stream
    <3> HIDE DEF nt
    <3>5. QED BY <1>s, <2>0, <3>1, <3>2, <3>3, <3>4 DEF UploadShape, JobShape, Finishing
  <2>3. QED BY <2>1, <2>2
<1>5. ASSUME ProcessChunk(s) PROVE Goal
  <2>0. Turn(s, "chunk") /\ ~st.aborted /\ UNCHANGED jobs
    BY <1>5 DEF ProcessChunk
  <2>1. ASSUME NEW removed \in BOOLEAN,
               NEW nt \in {MarkAborted(Handled(s), removed), Thrown(Handled(s), removed)},
               streams' = [streams EXCEPT ![s] = nt]
        PROVE  Goal
    <3>1. streams'[s] = nt
      BY <1>s, <2>1
    <3>2. QED BY <1>h, <2>0, <2>1, <3>1
  <2>2. CASE streams' = [streams EXCEPT ![s] = [Handled(s) EXCEPT !.chunks = @ + 1]]
    <3> DEFINE hd == Handled(s)
               nt == [hd EXCEPT !.chunks = @ + 1]
    <3>1. streams'[s] = nt
      BY <1>s, <2>2
    <3>2. /\ hd \in Stream /\ hd = [st EXCEPT !.queue = hd.queue] /\ st.phase = "open"
          /\ hd.queue \in Seq(Message)
          /\ Waiting(st.queue) = Waiting(hd.queue) + 1
          /\ \A i \in 1 .. Len(hd.queue) :
                hd.queue[i].kind = "end" => i = Len(hd.queue) /\ hd.endSent
      BY <1>s, <2>0, UploadHandled
    <3> HIDE DEF hd
    <3>3. /\ hd.aborted = st.aborted /\ hd.sink = st.sink /\ hd.file = st.file /\ hd.phase = "open"
          /\ hd.closed = st.closed /\ hd.offered = st.offered /\ hd.chunks = st.chunks
      BY <1>s, <3>2 DEF Stream
    <3>4. /\ nt.aborted = hd.aborted /\ nt.sink = hd.sink /\ nt.file = hd.file
          /\ nt.closed = hd.closed /\ nt.offered = hd.offered /\ nt.chunks = hd.chunks + 1
          /\ nt.phase = hd.phase /\ nt.queue = hd.queue /\ nt.endSent = hd.endSent
          /\ hd.chunks \in Nat /\ hd.offered \in Nat
      BY <3>2 DEF Stream
    <3>5. Waiting(hd.queue) \in Nat
      BY <3>2, WaitingNat
    <3> HIDE DEF nt
    <3>6. QED
      BY <1>s, <2>0, <3>1, <3>2, <3>3, <3>4, <3>5 DEF UploadShape, JobShape, Finishing
  <2>3. QED
    <3>1. CASE streams' = [streams EXCEPT ![s] = MarkAborted(Handled(s), TRUE)]
      BY <2>1, <3>1
    <3>2. CASE \E removed \in BOOLEAN : streams' = [streams EXCEPT ![s] = Thrown(Handled(s), removed)]
      BY <2>1, <3>2
    <3>3. QED BY <1>5, <2>2, <3>1, <3>2 DEF ProcessChunk
<1>6. ASSUME ProcessEnd(s) PROVE Goal
  <2> DEFINE hd == Handled(s)
             en == [hd EXCEPT !.streamEnded = TRUE]
             fin == [en EXCEPT !.closed = TRUE, !.sink = "ended", !.phase = "beforePush"]
             ma == MarkAborted(en, TRUE)
             n == IF en.pendingAbort THEN en.replies + 1 ELSE en.replies
             drop == [en EXCEPT !.phase = "done", !.replies = n]
             refuse == [ma EXCEPT !.phase = "done"]
  <2>0. Turn(s, "end") /\ UNCHANGED jobs
    BY <1>6 DEF ProcessEnd
  <2>1. streams'[s] = IF en.aborted THEN drop
                      ELSE IF en.headerReceived /\ MayFinish(en) THEN fin ELSE refuse
    BY <1>6, <1>s DEF ProcessEnd
  <2>2. /\ hd \in Stream /\ hd = [st EXCEPT !.queue = hd.queue] /\ st.phase = "open"
        /\ Waiting(st.queue) = Waiting(hd.queue) /\ hd.queue = << >> /\ st.endSent
        /\ hd.queue \in Seq(Message)
    BY <1>s, <2>0, UploadHandled
  <2> HIDE DEF hd
  <2>3. /\ hd.aborted = st.aborted /\ hd.sink = st.sink /\ hd.file = st.file
        /\ hd.closed = st.closed /\ hd.offered = st.offered /\ hd.chunks = st.chunks
        /\ hd.endSent = st.endSent
    BY <1>s, <2>2 DEF Stream
  <2>4. /\ en \in Stream /\ en.queue = << >> /\ en.endSent
        /\ en.aborted = st.aborted /\ en.sink = st.sink /\ en.file = st.file
        /\ en.closed = st.closed /\ en.offered = st.offered /\ en.chunks = st.chunks
    BY <2>2, <2>3 DEF Stream
  <2>5. Waiting(hd.queue) = 0
    BY <2>2, WaitingEmpty
  <2> HIDE DEF en
  <2>6. st.offered \in Nat /\ st.chunks \in Nat /\ (~st.aborted => st.offered = st.chunks)
    BY <1>s, <2>2, <2>5 DEF UploadShape, Stream
  <2>7. s \notin jobs
    BY <1>s, <2>2 DEF JobShape
  <2>8. /\ drop.queue = << >> /\ drop.phase = "done" /\ drop.aborted = en.aborted
        /\ drop.sink = en.sink /\ drop.file = en.file /\ drop.closed = en.closed
    BY <2>4 DEF Stream
  <2>9. /\ fin.queue = << >> /\ fin.phase = "beforePush" /\ fin.endSent /\ fin.closed
        /\ fin.sink = "ended" /\ fin.file = en.file /\ fin.chunks = en.chunks
        /\ fin.offered = en.offered /\ fin.aborted = en.aborted
    BY <2>4 DEF Stream
  <2>10. ~en.aborted =>
            /\ refuse.queue = << >> /\ refuse.phase = "done" /\ refuse.closed /\ refuse.aborted
    <3>1. ma \in Stream /\ ma.aborted /\ (~en.aborted => CutOff(en, ma))
      BY <2>4, MarkAbortedFacts, MarkAbortedCuts
    <3> HIDE DEF ma
    <3>2. refuse.phase = "done" /\ refuse.queue = ma.queue /\ refuse.closed = ma.closed /\ refuse.aborted = ma.aborted
      BY <3>1 DEF Stream
    <3>3. QED BY <3>1, <3>2, <2>4 DEF CutOff
  <2> HIDE DEF drop, fin, refuse
  <2>11. Len(<< >>) = 0 /\ \A i \in 1 .. 0 : FALSE
    OBVIOUS
  <2>12. CASE en.aborted
    BY <1>s, <2>0, <2>1, <2>4, <2>7, <2>8, <2>11, <2>12 DEF UploadShape, Finishing
  <2>13. CASE ~en.aborted /\ en.headerReceived /\ MayFinish(en)
    BY <1>s, <2>0, <2>1, <2>2, <2>4, <2>5, <2>6, <2>7, <2>9, <2>11, <2>13
       DEF UploadShape, UploadWhole, MayFinish
  <2>14. CASE ~en.aborted /\ ~(en.headerReceived /\ MayFinish(en))
    BY <2>0, <2>1, <2>7, <2>10, <2>11, <2>14 DEF UploadShape, Finishing
  <2>15. QED BY <2>12, <2>13, <2>14
<1>7. ASSUME NEW removed \in BOOLEAN,
             \/ streams' = [streams EXCEPT ![s] = Thrown([@ EXCEPT !.phase = "open"], removed)]
             \/ streams' = [streams EXCEPT ![s] = [MarkAborted(@, TRUE) EXCEPT !.phase = "done"]],
             ~JobShape(st), UNCHANGED jobs
      PROVE  Goal
  <2> DEFINE op == [st EXCEPT !.phase = "open"]
             ma == MarkAborted(st, TRUE)
             th == Thrown(op, removed)
             dn == [ma EXCEPT !.phase = "done"]
  <2>0. s \notin jobs'
    BY <1>s, <1>7
  <2>1. /\ op \in Stream /\ op.phase = "open" /\ op.queue = st.queue /\ op.endSent = st.endSent
        /\ op.offered = st.offered /\ op.chunks = st.chunks /\ op.aborted = st.aborted
        /\ op.closed = st.closed /\ op.sink = st.sink /\ op.file = st.file
    BY <1>s DEF Stream, Phases
  <2>2. streams'[s] = th \/ streams'[s] = dn
    BY <1>s, <1>7
  <2>3. ma \in Stream /\ UploadShape(ma)
    BY <1>s, MarkAbortedFacts, MarkAbortedCuts, CutOffKeeps
  <2> HIDE DEF op, ma
  <2>4. UploadShape(op)
    BY <1>s, <2>1 DEF UploadShape, Finishing
  <2>5. UploadShape(th)
    <3>1. CASE ~op.aborted
      BY <2>1, <2>4, <3>1, FailureCuts, CutOffKeeps
    <3>2. CASE op.aborted
      <4> DEFINE mo == MarkAborted(op, removed)
      <4>1. mo = op
        BY <2>1, <3>2, MarkAbortedCuts
      <4>2. /\ th.phase = mo.phase /\ th.queue = mo.queue
            /\ th.endSent = mo.endSent /\ th.offered = mo.offered /\ th.chunks = mo.chunks
            /\ th.aborted = mo.aborted /\ th.closed = mo.closed /\ th.sink = mo.sink
            /\ th.file = mo.file
        BY <2>1, ThrownFacts
      <4> HIDE DEF mo, th
      <4>3. QED BY <2>1, <2>4, <4>1, <4>2 DEF UploadShape, Finishing
    <3>3. QED BY <3>1, <3>2
  <2>6. /\ dn.phase = "done" /\ dn.queue = ma.queue /\ dn.endSent = ma.endSent
        /\ dn.offered = ma.offered /\ dn.chunks = ma.chunks /\ dn.aborted = ma.aborted
        /\ dn.closed = ma.closed /\ dn.sink = ma.sink /\ dn.file = ma.file
    BY <2>3 DEF Stream
  <2> HIDE DEF dn
  <2>7. UploadShape(dn)
    BY <2>3, <2>6 DEF UploadShape, Finishing
  <2> HIDE DEF th
  <2>8. QED BY <1>7, <2>0, <2>2, <2>5, <2>7
<1>8. ASSUME OpenStagingFails(s) \/ FinishFails(s) PROVE Goal
  <2>1. ~JobShape(st)
    BY <1>8 DEF OpenStagingFails, FinishFails, JobShape
  <2>2. QED BY <1>7, <1>8, <2>1 DEF OpenStagingFails, FinishFails
<1>9. ASSUME HeaderResolved(s) PROVE Goal
  <2>0. ~JobShape(st) /\ UNCHANGED jobs
    BY <1>9 DEF HeaderResolved, JobShape
  <2>1. CASE calls[s].result # "granted"
    <3>1. streams' = [streams EXCEPT ![s] = Thrown([@ EXCEPT !.phase = "open"], TRUE)]
      BY <1>9, <2>1 DEF HeaderResolved
    <3>2. QED BY <1>7, <2>0, <3>1
  <2>2. CASE calls[s].result = "granted"
    <3> DEFINE nt == [st EXCEPT !.ticketId = calls[s].t, !.phase = "mkdir"]
    <3>1. streams'[s] = nt
      BY <1>9, <1>s, <2>2 DEF HeaderResolved
    <3>2. /\ nt.phase = "mkdir" /\ nt.queue = st.queue /\ nt.endSent = st.endSent
          /\ nt.offered = st.offered /\ nt.chunks = st.chunks /\ nt.aborted = st.aborted
          /\ nt.closed = st.closed /\ nt.sink = st.sink /\ nt.file = st.file
      BY <1>s DEF Stream
    <3> HIDE DEF nt
    <3>3. QED BY <1>s, <2>0, <3>1, <3>2 DEF UploadShape, Finishing
  <2>3. QED BY <2>1, <2>2
<1>10. ASSUME OpenStaging(s) PROVE Goal
  <2> DEFINE nt == [st EXCEPT !.phase = "open", !.sink = "open", !.file = "present"]
  <2>0. streams'[s] = nt /\ ~JobShape(st) /\ UNCHANGED jobs
    BY <1>10, <1>s DEF OpenStaging, JobShape
  <2>1. /\ nt.phase = "open" /\ nt.queue = st.queue /\ nt.endSent = st.endSent
        /\ nt.offered = st.offered /\ nt.chunks = st.chunks /\ nt.aborted = st.aborted
        /\ nt.closed = st.closed /\ nt.sink = "open" /\ nt.file = "present"
    BY <1>s DEF Stream
  <2> HIDE DEF nt
  <2>2. QED BY <1>s, <2>0, <2>1 DEF UploadShape, Finishing
<1>11. ASSUME AutoCreateRepo(s) \/ BeforePushResolved(s) \/ CreateJob(s) \/ FinishCloses(s) \/ FinishReplies(s)
       PROVE  Goal
  <2>0. st.phase \in Finishing
    BY <1>11 DEF AutoCreateRepo, BeforePushResolved, CreateJob, FinishCloses, FinishReplies,
       Finishing
  <2> DEFINE Moved(p, n) == [st EXCEPT !.phase = p, !.replies = n]
             Phased(p) == [st EXCEPT !.phase = p]
             Later == {"closeTicket", "committedHook", "done"}
  <2>1. /\ st.replies \in Nat /\ st.replies + 1 \in Nat
        /\ \A p \in Phases : Phased(p) = Moved(p, st.replies)
    <3>1. st.replies \in Nat
      BY <1>s DEF Stream
    <3>2. ASSUME NEW p \in Phases PROVE Phased(p) = Moved(p, st.replies)
      BY <1>s DEF Stream
    <3> HIDE DEF Phased, Moved
    <3>3. QED BY <3>1, <3>2
  <2>2. \E p \in Phases, n \in Nat :
            /\ streams'[s] = Moved(p, n)
            /\ jobs' \subseteq jobs \cup {s}
            /\ s \in jobs' => p \in Later
    <3>1. CASE AutoCreateRepo(s)
      <4>1. streams'[s] = Phased("validate") /\ jobs' = jobs /\ s \notin jobs
        BY <1>s, <3>1 DEF AutoCreateRepo, JobShape
      <4> HIDE DEF Phased, Moved
      <4>2. streams'[s] = Moved("validate", st.replies)
        BY <2>1, <4>1 DEF Phases
      <4>3. QED BY <2>1, <4>1, <4>2 DEF Phases
    <3>2. CASE BeforePushResolved(s)
      <4>1. PICK p \in {"closeDryRun", "createJob"} :
                streams'[s] = Phased(p)
        BY <1>s, <3>2 DEF BeforePushResolved
      <4> HIDE DEF Phased, Moved
      <4>2. jobs' = jobs /\ s \notin jobs
        BY <1>s, <3>2 DEF BeforePushResolved, JobShape
      <4>3. p \in Phases /\ streams'[s] = Moved(p, st.replies)
        BY <2>1, <4>1 DEF Phases
      <4>4. QED BY <2>1, <4>2, <4>3
    <3>3. CASE CreateJob(s)
      <4>1. streams'[s] = Phased("closeTicket") /\ jobs' = jobs \cup {s}
        BY <1>s, <3>3 DEF CreateJob
      <4> HIDE DEF Phased, Moved
      <4>2. streams'[s] = Moved("closeTicket", st.replies)
        BY <2>1, <4>1 DEF Phases
      <4>3. QED BY <2>1, <4>1, <4>2 DEF Phases
    <3>4. CASE FinishCloses(s) \/ FinishReplies(s)
      <4>1. /\ jobs' = jobs
            /\ \/ streams'[s] = Phased("committedHook")
               \/ streams'[s] = Moved("done", st.replies + 1)
        BY <1>s, <3>4 DEF FinishCloses, FinishReplies
      <4> HIDE DEF Phased, Moved
      <4>2. \/ streams'[s] = Moved("committedHook", st.replies)
            \/ streams'[s] = Moved("done", st.replies + 1)
        BY <2>1, <4>1 DEF Phases
      <4>3. QED BY <2>1, <4>1, <4>2 DEF Phases
    <3>5. QED BY <1>11, <3>1, <3>2, <3>3, <3>4
  <2> HIDE DEF Moved
  <2>3. PICK p \in Phases, n \in Nat :
            /\ streams'[s] = Moved(p, n)
            /\ jobs' \subseteq jobs \cup {s}
            /\ s \in jobs' => p \in Later
    BY <2>2
  <2> DEFINE nt == Moved(p, n)
  <2>4. /\ nt.phase = p /\ nt.queue = st.queue /\ nt.endSent = st.endSent
        /\ nt.offered = st.offered /\ nt.chunks = st.chunks /\ nt.aborted = st.aborted
        /\ nt.closed = st.closed /\ nt.sink = st.sink /\ nt.file = st.file
    BY <1>s DEF Stream, Moved
  <2>5. UploadWhole(st)
    BY <1>s, <2>0 DEF UploadShape
  <2> HIDE DEF nt
  <2>6. UploadWhole(nt)
    BY <2>4, <2>5 DEF UploadWhole
  <2>7. UploadShape(nt)
    BY <1>s, <2>4, <2>6 DEF UploadShape
  <2>8. streams'[s] = nt
    BY <2>3 DEF nt
  <2>9. QED BY <2>3, <2>4, <2>6, <2>7, <2>8 DEF JobShape
<1>f. ASSUME FlushSink(s) PROVE Goal
  <2> DEFINE n == st.stored + 1
             nt == [st EXCEPT !.stored = n]
  <2>1. streams'[s] = nt /\ UNCHANGED jobs
    BY <1>f, <1>s DEF FlushSink
  <2> HIDE DEF n
  <2>2. /\ nt.phase = st.phase /\ nt.queue = st.queue /\ nt.endSent = st.endSent
        /\ nt.offered = st.offered /\ nt.chunks = st.chunks /\ nt.aborted = st.aborted
        /\ nt.closed = st.closed /\ nt.sink = st.sink /\ nt.file = st.file
    BY <1>s DEF Stream
  <2> HIDE DEF nt
  <2>3. UploadShape(nt) /\ (JobShape(st) => JobShape(nt))
    BY <1>s, <2>2 DEF UploadShape, JobShape, UploadWhole
  <2>4. QED BY <1>s, <2>1, <2>3
<1>12. Goal
  BY <1>1, <1>2, <1>3, <1>4, <1>5, <1>6, <1>8, <1>9, <1>10, <1>11, <1>f
     DEF StreamStep, StreamEnvironment
<1>13. QED BY <1>12

\* The invariant of uploads holds in every state the engine reaches.
LEMMA UploadInvCorrect == Spec => []UploadInv
<1>1. Init => UploadInv
  <2> SUFFICES ASSUME Init, NEW s \in Streams PROVE UploadShape(streams[s]) /\ jobs = {}
    BY DEF UploadInv, Init
  <2>1. << >> \in Seq(Message)
    OBVIOUS
  <2>2. Waiting(<< >>) = 0
    BY <2>1, WaitingEmpty
  <2>3. streams[s] = NewStream /\ jobs = {}
    BY DEF Init
  <2>4. QED BY <2>2, <2>3 DEF NewStream, UploadShape, Finishing
<1>2. EngineIInv /\ UploadInv /\ [Next]_vars => UploadInv'
  <2> SUFFICES ASSUME EngineIInv, UploadInv, [Next]_vars PROVE UploadInv'
    OBVIOUS
  <2>1. ASSUME NEW s \in Streams, StreamStep(s) \/ StreamEnvironment(s) PROVE UploadInv'
    <3>1. streams' = [streams EXCEPT ![s] = streams'[s]] /\ streams \in [Streams -> Stream]
          /\ jobs \subseteq Streams
      BY <2>1, StreamShapeStep DEF EngineIInv, SessionTypeOK
    <3>2. \A x \in Streams \ {s} : streams'[x] = streams[x]
      BY <3>1
    <3>3. /\ UploadShape(streams'[s]) /\ jobs' \subseteq jobs \cup {s}
          /\ s \in jobs' => JobShape(streams'[s])
      BY <2>1, UploadStep
    <3>4. \A x \in Streams : UploadShape(streams'[x])
      BY <3>2, <3>3 DEF UploadInv
    <3>5. \A x \in jobs' : JobShape(streams'[x])
      BY <3>1, <3>2, <3>3 DEF UploadInv
    <3>6. QED BY <3>4, <3>5 DEF UploadInv
  <2>2. CASE UNCHANGED <<streams, jobs>>
    BY <2>2 DEF UploadInv
  <2>3. QED
    BY <2>1, <2>2 DEF Next, vars, sessionVars, PullBegin, PullStep, PullResolved, PullEnds
<1>3. QED BY <1>1, <1>2, EngineIInvCorrect, PTL DEF Spec

----------------------------------------------------------------------------
(* The theorems.                                                           *)

\* Closure variables, handlers, job rows, tickets and calls keep their types.
THEOREM SessionTypeCorrect == Spec => []SessionTypeOK
<1>1. EngineIInv => SessionTypeOK
  BY DEF EngineIInv
<1>2. QED BY <1>1, EngineIInvCorrect, PTL

\* However many push streams and pulls present a ticket at once, and whatever
\* is cancelled, closed or refused meanwhile, it admits at most one session
\* (activate's conditional UPDATE, libsql-ticket-store.ts:80-92).
THEOREM TicketSingleUseAlways == Spec => []TicketSingleUse
<1>1. EngineIInv => TicketSingleUse
  BY DEF EngineIInv
<1>2. QED BY <1>1, EngineIInvCorrect, PTL

\* No interleaving of 'cancelled', 'error', 'end' and the handlers' awaits
\* answers a push call twice or before its end (grpc-transfer-server.ts:104-120).
THEOREM AnsweredOnceAlways == Spec => []AnsweredOnceAfterEnd
<1>1. EngineIInv => AnsweredOnceAfterEnd
  <2> SUFFICES ASSUME EngineIInv, NEW s \in Streams
               PROVE  /\ streams[s].replies <= 1
                      /\ streams[s].replies = 1 => streams[s].streamEnded
    BY DEF AnsweredOnceAfterEnd
  <2>1. streams[s] \in Stream /\ StreamShape(streams[s])
    BY DEF EngineIInv, SessionTypeOK, SessionShape
  <2>2. streams[s].phase \in {"open", "header", "mkdir", "done"} \cup Finishing
    BY <2>1 DEF Stream, Phases, Finishing
  <2>3. QED BY <2>1, <2>2 DEF StreamShape
<1>2. QED BY <1>1, EngineIInvCorrect, PTL

\* No chunk is staged without a consumed ticket of the stream's own
\* (push-session-handler.ts:71-98).
THEOREM ChunksNeedTicketAlways == Spec => []ChunksNeedTicket
<1>1. EngineIInv => ChunksNeedTicket
  BY DEF EngineIInv, ChunksNeedTicket, SessionShape, StreamShape, Ownership, Sessions, Held
<1>2. QED BY <1>1, EngineIInvCorrect, PTL

\* A TransferJob row stands for a complete upload, for any number of streams
\* and messages: whenever 'cancelled' or 'error' strike between two awaits and
\* whichever rm or write() fails, the checksum and the ended sink of a job took
\* all that the client sent and no abort() took its file away
\* (push-session-handler.ts:91-182, grpc-transfer-server.ts:104-197).  How much
\* of it the sink has written by then is not claimed.
THEOREM CommittedUploadIntactAlways == Spec => []CommittedUploadIntact
<1>1. UploadInv => CommittedUploadIntact
  BY DEF UploadInv, JobShape, UploadWhole, CommittedUploadIntact
<1>2. QED BY <1>1, UploadInvCorrect, PTL

\* Refinement: forgetting streams, pulls and jobs, the transfer engine is the
\* ticket service, so all that is proved of TicketSpec holds of the engine.
THEOREM EngineRefinesTickets == Spec => RefinesTickets
<1>1. Init => TicketInit
  BY DEF Init
<1>2. EngineIInv /\ [Next]_vars => [TicketNext]_ticketVars
  BY EngineRefinesStep
<1>3. QED
  BY <1>1, <1>2, EngineIInvCorrect, PTL DEF Spec, RefinesTickets, TicketSpec

=============================================================================
