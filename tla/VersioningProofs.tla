-------------------------- MODULE VersioningProofs --------------------------
(***************************************************************************)
(* The requests of one repository use the mutex as runExclusive lets them, *)
(* so what RepositoryProofs shows of the chain holds in the server;        *)
(* and whatever they do, no commit is lost and no merge is left without    *)
(* the request that aborts it.                                             *)
(***************************************************************************)
EXTENDS Versioning, RepositoryProofs

\* Where the code of a pull that has announced a head is: the generator has
\* not started, or it has.
ExportPcs == {"diff", "export", "data"}
StreamPcs == ExportPcs \cup {"stream"}

\* Only the place in the code changes.
MovedTo(r, pc) == reqs' = [reqs EXCEPT ![r] = [reqs[r] EXCEPT !.pc = pc]]

\* Goto moves a request on.
LEMMA GotoIs == \A r \in Reqs, pc \in Pcs : Goto(r, pc) => MovedTo(r, pc)
  BY DEF Goto, Change, MovedTo

\* Every step of the generator only reads, and goes on or ends the pull; a
\* look-up whose failure is swallowed is a fault.
LEMMA ExportShape ==
    ASSUME NEW r \in Reqs, Export(r)
    PROVE  /\ ReadsOnly /\ reqs[r].op = "pull" /\ reqs[r].pc \in StreamPcs
           /\ \/ Change(r, Idle)
              \/ /\ \E pc \in ExportPcs : MovedTo(r, pc)
                 /\ received' = received
                 /\ faults' = faults \/ (faults < MaxFaults /\ faults' = faults + 1)
  <1>1. ASSUME NEW pc \in ExportPcs, Goto(r, pc)
        PROVE  MovedTo(r, pc) /\ received' = received /\ faults' = faults
    BY <1>1, GotoIs DEF Goto, Change, ExportPcs, Pcs
  <1>2. ASSUME NEW pc \in ExportPcs, Swallow(r, pc)
        PROVE  MovedTo(r, pc) /\ received' = received /\ faults < MaxFaults /\ faults' = faults + 1
    BY <1>2 DEF Swallow, MovedTo
  <1>3. CASE PullList(r)
    BY <1>1, <1>3 DEF PullList, At, ExportPcs, StreamPcs
  <1>4. CASE PullListAll(r)
    BY <1>2, <1>4 DEF PullListAll, At, ExportPcs, StreamPcs
  <1>5. CASE PullData(r) \/ PullYield(r) \/ PullClose(r)
    BY <1>1, <1>5 DEF PullData, PullYield, PullClose, PullDone, At, ExportPcs, StreamPcs
  <1>6. ASSUME NEW c \in exports[r].list, PullDiff(r, c) \/ PullDiffSwallowed(r, c)
        PROVE  /\ ReadsOnly /\ reqs[r].op = "pull" /\ reqs[r].pc \in StreamPcs
               /\ \E pc \in ExportPcs : Goto(r, pc) \/ Swallow(r, pc)
    BY <1>6 DEF PullDiff, PullDiffSwallowed, At, ExportPcs, StreamPcs
  <1>7. ASSUME NEW t \in exports[r].todo, PullSchema(r, t) \/ PullSchemaSwallowed(r, t)
        PROVE  /\ ReadsOnly /\ reqs[r].op = "pull" /\ reqs[r].pc \in StreamPcs
               /\ \E pc \in ExportPcs : Goto(r, pc) \/ Swallow(r, pc)
    BY <1>7 DEF PullSchema, PullSchemaSwallowed, At, ExportPcs, StreamPcs
  <1> QED BY <1>1, <1>2, <1>3, <1>4, <1>5, <1>6, <1>7 DEF Export

\* The end of a handler releases the mutex or leaves it alone.
LEMMA LeaveIsMutexStep ==
    ASSUME NEW r \in Reqs, Leave(r) PROVE [MutexNext]_mutexVars
  BY DEF Leave, MutexNext, OutsideMutex, mutexVars

\* Every step of a request is a step of the mutex or does not touch it.
LEMMA MutexSteps == [Next]_vars => [MutexNext]_mutexVars
  <1> SUFFICES ASSUME [Next]_vars PROVE [MutexNext]_mutexVars
    OBVIOUS
  <1>1. CASE UNCHANGED vars
    BY <1>1 DEF vars, mutexVars
  <1>2. ASSUME NEW r \in Reqs, Arrival(r) PROVE [MutexNext]_mutexVars
    BY <1>2 DEF Arrival, BranchRequest, MergeRequest, PushRequest, RecordRequest,
                PreferenceRequest, PullRequest, Receive, OutsideMutex, mutexVars
  <1>3. ASSUME NEW r \in Reqs, Handle(r) PROVE [MutexNext]_mutexVars
    <2>1. CASE EnterMutex(r) \/ RunAction(r)
      BY <2>1 DEF EnterMutex, RunAction, MutexNext
    <2>2. CASE CreateBranch(r) \/ CreateReadCurrent(r) \/ CheckoutBranch(r)
               \/ DeleteReadCurrent(r) \/ DeleteBranch(r)
      <3>1. Leave(r) \/ OutsideMutex
        BY <2>2 DEF CreateBranch, CreateReadCurrent, CheckoutBranch, DeleteReadCurrent,
                    DeleteBranch, Answer
      <3> QED BY <3>1, LeaveIsMutexStep DEF OutsideMutex, mutexVars
    <2>3. CASE MergeReadCurrent(r) \/ MergeCheckout(r) \/ Merge(r) \/ MergeReadHash(r)
               \/ ReadConflicts(r) \/ MergeAbort(r)
      <3>1. Leave(r) \/ OutsideMutex
        BY <2>3 DEF MergeReadCurrent, MergeCheckout, Merge, MergeReadHash, ReadConflicts,
                    MergeAbort, Answer
      <3> QED BY <3>1, LeaveIsMutexStep DEF OutsideMutex, mutexVars
    <2>4. CASE \/ ImportCheckHead(r) \/ ImportHeadLookupFails(r)
               \/ ImportCheckout(r) \/ ImportCheckoutNew(r)
               \/ \E t \in Tables : ImportTable(r, t) \/ ImportTableBreaks(r, t)
               \/ ImportAdd(r) \/ ImportCommit(r) \/ ImportReadHash(r)
      BY <2>4 DEF ImportCheckHead, ImportHeadLookupFails, ImportCheckout, ImportCheckoutNew,
                  ImportTable, ImportTableBreaks, ImportAdd, ImportCommit, ImportReadHash,
                  OutsideMutex, mutexVars
    <2>5. CASE \/ ReadStoredPreference(r)
               \/ \E edges \in load.catalogs \cup {{}} : ReadEdges(r, edges)
               \/ AnswerPreview(r) \/ StorePreference(r) \/ ValidatePushOptions(r)
               \/ RecordInsert(r) \/ RecordAdd(r) \/ RecordCommit(r) \/ RecordReadHash(r)
               \/ PullReadHead(r)
      BY <2>5 DEF ReadStoredPreference, ReadEdges, AnswerPreview, StorePreference,
                  ValidatePushOptions, RecordInsert, RecordAdd, RecordCommit, RecordReadHash,
                  PullReadHead, OutsideMutex, mutexVars
    <2>6. CASE CommandFails(r)
      BY <2>6, LeaveIsMutexStep DEF CommandFails
    <2> QED BY <1>3, <2>1, <2>2, <2>3, <2>4, <2>5, <2>6 DEF Handle
  <1>4. ASSUME NEW r \in Reqs, Export(r) PROVE [MutexNext]_mutexVars
    BY <1>4, ExportShape DEF ReadsOnly, OutsideMutex, mutexVars
  <1> QED BY <1>1, <1>2, <1>3, <1>4 DEF Next, Serve

\* The requests of a repository call runExclusive as MutexSpec allows.
LEMMA UsesMutex == Spec => MutexSpec
  <1>1. Init => MutexInit
    BY DEF Init
  <1> QED BY <1>1, MutexSteps, PTL DEF Spec, MutexSpec

\* Whatever the requests do and whichever command fails, only the branch or
\* merge operation that asked first runs: repo-branch-mutex.ts admits one
\* action at a time, in the order of the calls.
THEOREM BranchOperationsExclude == Spec => []HolderIsFirst
  BY UsesMutex, MutexSafety, PTL

\* The requests see the mutex as a first-come first-served lock.
THEOREM BranchOperationsQueue == Spec => LockImplemented
  BY UsesMutex, MutexImplementsLock, PTL


(***************************************************************************)
(* The requests: what they hold, and where they are in runExclusive.       *)
(***************************************************************************)
\* Plans the code can hold.
Plans == {BuildPlan(ts, edges) : ts \in SUBSET Tables, edges \in SUBSET (Tables \X Tables)}

Records ==
    [op : Ops, pc : Pcs, branch : Branches \cup {Nil}, other : Branches \cup {Nil},
     from : Nat, tables : SUBSET Tables, todo : SUBSET Tables, left : Int,
     plan : Plans, made : Seq(Int), alone : BOOLEAN, base : Int]

\* The branches a command will be given exist as names.
RecordOK(q) ==
    /\ q \in Records
    /\ q.op \in {"create", "checkout", "delete", "push", "pull"} => q.branch \in Branches
    /\ q.op = "merge" => q.other \in Branches
    /\ q.pc = "mergeCheckout" => q.branch \in Branches

\* Where the code of an action under the mutex is.
InsidePcs == {"begin", "readCurrent", "delete", "mergeCheckout", "merge", "mergeHash",
              "conflicts", "abort"}

PhaseOf(pc) == IF pc \in InsidePcs THEN "inside" ELSE IF pc = "queued" THEN "waiting" ELSE "out"

\* Where the code that has stopped on conflicts, and will abort, is.
OwnerPcs == {"conflicts", "abort"}

\* Requests are sound, are where the mutex thinks they are, and one of them
\* owns a merge that stopped.
RequestInv ==
    /\ \E s \in Starts : load = s.load
    /\ pref \subseteq Tables
    /\ faults \in Nat
    /\ reqs \in [Reqs -> Records]
    /\ \A r \in Reqs : RecordOK(reqs[r]) /\ phase[r] = PhaseOf(reqs[r].pc)
    /\ InMerge /\ faults = 0 => \E r \in Reqs : reqs[r].pc \in OwnerPcs

\* The inductive invariant.
RepoInv == DoltInv /\ ChainInv /\ RequestInv

\* What the workload may name.
LEMMA LoadOK ==
    ASSUME RequestInv
    PROVE  /\ load.lists \subseteq SUBSET Tables /\ load.hashes \subseteq Nat
           /\ load.catalogs \subseteq SUBSET (Tables \X Tables)
  BY VersioningAssumptions DEF RequestInv

\* A request that was answered.
LEMMA IdleOK == RecordOK(Idle) /\ Idle.pc = "idle" /\ Idle \in Records
  <1>1. NoPlan \in Plans
    BY DEF NoPlan, Plans
  <1> HIDE DEF NoPlan
  <1>2. <<>> \in Seq(Int)
    OBVIOUS
  <1>3. Idle.op = "none" /\ Idle.pc = "idle"
    BY DEF Idle
  <1>4. -1 \in Int /\ 0 \in Nat /\ 0 \in Int
    BY SMT
  <1>5. FALSE \in BOOLEAN /\ "none" \in Ops /\ "idle" \in Pcs
    BY Zenon DEF Ops, Pcs
  <1>6. Idle \in Records
    BY <1>1, <1>2, <1>4, <1>5, Zenon DEF Idle, Records
  <1> QED BY <1>3, <1>6 DEF RecordOK

\* A handler takes a step: the invariant of the requests holds again when
\* its record is sound, its phase fits and a merge keeps its owner.
LEMMA HandlerStep ==
    ASSUME RepoInv, NEW r \in Reqs, NEW q, RecordOK(q),
           reqs' = [reqs EXCEPT ![r] = q],
           \A x \in Reqs : phase'[x] = IF x = r THEN PhaseOf(q.pc) ELSE phase[x],
           load' = load, pref' \subseteq Tables, faults' \in Nat,
           InMerge' /\ faults' = 0 =>
               q.pc \in OwnerPcs \/ (InMerge /\ faults = 0 /\ reqs[r].pc \notin OwnerPcs)
    PROVE  RequestInv'
  <1> USE DEF RepoInv
  <1>1. reqs'[r] = q /\ \A x \in Reqs : x # r => reqs'[x] = reqs[x]
    BY DEF RequestInv
  <1>2. reqs' \in [Reqs -> Records]
    BY DEF RequestInv, RecordOK
  <1>3. \A x \in Reqs : RecordOK(reqs'[x]) /\ phase'[x] = PhaseOf(reqs'[x].pc)
    BY <1>1 DEF RequestInv
  <1>4. InMerge' /\ faults' = 0 => \E x \in Reqs : reqs'[x].pc \in OwnerPcs
    BY <1>1 DEF RequestInv
  <1>5. \E s \in Starts : load' = s.load
    BY DEF RequestInv
  <1>6. \A x \in Reqs : RecordOK(reqs[x])' <=> RecordOK(reqs'[x])
    BY DEF RecordOK, Records, Plans
  <1> QED BY <1>2, <1>3, <1>4, <1>5, <1>6 DEF RequestInv

\* A handler that moves on outside runExclusive, or stays in it.
LEMMA ChangeStep ==
    ASSUME RepoInv, NEW r \in Reqs, NEW q, RecordOK(q), Change(r, q), OutsideMutex,
           PhaseOf(q.pc) = PhaseOf(reqs[r].pc), load' = load, pref' \subseteq Tables,
           InMerge' => q.pc \in OwnerPcs \/ (InMerge /\ reqs[r].pc \notin OwnerPcs)
    PROVE  RequestInv'
  <1>1. \A x \in Reqs : phase'[x] = IF x = r THEN PhaseOf(q.pc) ELSE phase[x]
    BY DEF OutsideMutex, mutexVars, RepoInv, RequestInv
  <1>2. faults' = faults /\ faults \in Nat
    BY DEF Change, RepoInv, RequestInv
  <1> QED BY <1>1, <1>2, HandlerStep DEF Change

\* A request that only moves on in its code stays sound.
LEMMA RecordMoves ==
    ASSUME RepoInv, NEW r \in Reqs, NEW pc \in Pcs,
           pc = "mergeCheckout" => reqs[r].branch \in Branches
    PROVE  RecordOK([reqs[r] EXCEPT !.pc = pc]) /\ [reqs[r] EXCEPT !.pc = pc].pc = pc
  BY DEF RepoInv, RequestInv, RecordOK, Records

\* The same, when only its place in the code changes.
LEMMA GotoStep ==
    ASSUME RepoInv, NEW r \in Reqs, NEW pc \in Pcs, Goto(r, pc), OutsideMutex, RestUntouched,
           pc = "mergeCheckout" => reqs[r].branch \in Branches,
           PhaseOf(pc) = PhaseOf(reqs[r].pc),
           InMerge' => pc \in OwnerPcs \/ (InMerge /\ reqs[r].pc \notin OwnerPcs)
    PROVE  RequestInv'
  <1>1. load' = load /\ pref' \subseteq Tables
    BY DEF RestUntouched, RepoInv, RequestInv
  <1> QED BY <1>1, RecordMoves, ChangeStep DEF Goto

\* A handler ends and leaves runExclusive if it was in it.
LEMMA EndStep ==
    ASSUME RepoInv, NEW r \in Reqs, reqs' = [reqs EXCEPT ![r] = Idle], Leave(r),
           PhaseOf(reqs[r].pc) # "waiting", load' = load, pref' \subseteq Tables, faults' \in Nat,
           InMerge' /\ faults' = 0 => InMerge /\ faults = 0 /\ reqs[r].pc \notin OwnerPcs
    PROVE  RequestInv'
  <1>1. \A x \in Reqs : phase'[x] = IF x = r THEN "out" ELSE phase[x]
    <2>1. phase \in [Reqs -> Phases] /\ phase[r] # "waiting"
      BY DEF RepoInv, ChainInv, MutexTypeOK, RequestInv
    <2> QED BY <2>1 DEF Leave, Release, OutsideMutex, mutexVars, Phases
  <1>2. PhaseOf(Idle.pc) = "out"
    BY IdleOK DEF PhaseOf, InsidePcs
  <1> QED BY <1>1, <1>2, IdleOK, HandlerStep

\* A handler answers without a fault.
LEMMA AnswerStep ==
    ASSUME RepoInv, NEW r \in Reqs, Answer(r), PhaseOf(reqs[r].pc) # "waiting",
           load' = load, pref' \subseteq Tables,
           InMerge' => InMerge /\ reqs[r].pc \notin OwnerPcs
    PROVE  RequestInv'
  BY EndStep DEF Answer, Change, RepoInv, RequestInv

\* Every command but a merge that stops and its abort keeps the graph and
\* neither starts nor ends a merge.
Quiet == GraphKept /\ (InMerge' <=> InMerge)

\* The commands that are quiet.
LEMMA QuietCommands ==
    ASSUME DoltInv
    PROVE  /\ RepoUntouched => Quiet
           /\ RunCommit => Quiet
           /\ \A b \in Branches : RunCreateBranch(b) \/ RunCheckout(b) \/ RunCheckoutNew(b)
                                  \/ RunDeleteBranch(b) \/ MergeFastForward(b) \/ MergeCommit(b) => Quiet
           /\ \A t \in AllTables : WriteTable(t) => Quiet
           /\ \A ts : RunAdd(ts) => Quiet
  <1>1. RepoUntouched => Quiet
    BY SameGraph DEF RepoUntouched, doltVars, Quiet, InMerge, DoltInv
  <1>2. RunCommit => Quiet
    BY CommitKeepsGraph DEF RunCommit, Quiet, InMerge
  <1>3. ASSUME NEW b \in Branches
        PROVE  /\ RunCreateBranch(b) => Quiet
               /\ RunCheckout(b) => Quiet
               /\ RunCheckoutNew(b) => Quiet
               /\ RunDeleteBranch(b) => Quiet
               /\ MergeFastForward(b) => Quiet
               /\ MergeCommit(b) => Quiet
    <2>1. RunCreateBranch(b) => Quiet
      BY NewBranch DEF RunCreateBranch, Quiet, InMerge
    <2>2. RunCheckout(b) => Quiet
      BY SameGraph DEF RunCheckout, Quiet, InMerge, DoltInv
    <2>3. RunCheckoutNew(b) => Quiet
      BY NewBranch DEF RunCheckoutNew, Quiet, InMerge
    <2>4. RunDeleteBranch(b) => Quiet
      BY DeleteKeepsGraph DEF RunDeleteBranch, Quiet, InMerge
    <2>5. MergeFastForward(b) => Quiet
      BY FastForwardKeepsGraph DEF MergeFastForward, Quiet, InMerge
    <2>6. MergeCommit(b) => Quiet
      BY MergeCommitKeepsGraph DEF MergeCommit, Quiet, InMerge
    <2> QED BY <2>1, <2>2, <2>3, <2>4, <2>5, <2>6
  <1>4. ASSUME NEW t \in AllTables, WriteTable(t) PROVE Quiet
    BY <1>4, SameGraph DEF WriteTable, Quiet, InMerge, DoltInv, AllTables
  <1>5. ASSUME NEW ts, RunAdd(ts) PROVE Quiet
    BY <1>5, SameGraph DEF RunAdd, Quiet, InMerge, DoltInv, AllTables
  <1> QED BY <1>1, <1>2, <1>3, <1>4, <1>5

\* What a step of a handler must give.
StepOK == RequestInv' /\ GraphKept

\* Steps that run a quiet command.
LEMMA QuietGoto ==
    ASSUME RepoInv, NEW r \in Reqs, NEW pc \in Pcs, Goto(r, pc), OutsideMutex, RestUntouched, Quiet,
           pc = "mergeCheckout" => reqs[r].branch \in Branches,
           PhaseOf(pc) = PhaseOf(reqs[r].pc),
           reqs[r].pc \in OwnerPcs => pc \in OwnerPcs
    PROVE  StepOK
  BY GotoStep DEF Quiet, StepOK

\* A quiet command after which the request holds something new.
LEMMA QuietChange ==
    ASSUME RepoInv, NEW r \in Reqs, NEW q, RecordOK(q), Change(r, q), OutsideMutex, Quiet,
           PhaseOf(q.pc) = PhaseOf(reqs[r].pc), load' = load, pref' \subseteq Tables,
           reqs[r].pc \notin OwnerPcs
    PROVE  StepOK
  BY ChangeStep DEF Quiet, StepOK

\* A quiet command after which the request is answered.
LEMMA QuietAnswer ==
    ASSUME RepoInv, NEW r \in Reqs, Answer(r), Quiet, PhaseOf(reqs[r].pc) # "waiting",
           load' = load, pref' \subseteq Tables, reqs[r].pc \notin OwnerPcs
    PROVE  StepOK
  BY AnswerStep DEF Quiet, StepOK

\* A handler that ends without having entered runExclusive.
LEMMA QuietEnd ==
    ASSUME RepoInv, NEW r \in Reqs, Change(r, Idle), OutsideMutex, Quiet,
           PhaseOf(reqs[r].pc) = "out", load' = load, pref' \subseteq Tables
    PROVE  StepOK
  <1>1. reqs[r].pc \notin OwnerPcs
    BY DEF PhaseOf, InsidePcs, OwnerPcs
  <1>2. PhaseOf(Idle.pc) = "out"
    BY IdleOK DEF PhaseOf, InsidePcs
  <1> QED BY <1>1, <1>2, IdleOK, QuietChange

\* The workload and the stored preference stay sound.
LEMMA RestKept == ASSUME RepoInv, RestUntouched PROVE load' = load /\ pref' \subseteq Tables
  BY DEF RestUntouched, RepoInv, RequestInv

\* BranchService
LEMMA BranchSteps ==
    ASSUME RepoInv, NEW r \in Reqs,
           CreateBranch(r) \/ CreateReadCurrent(r) \/ CheckoutBranch(r)
           \/ DeleteReadCurrent(r) \/ DeleteBranch(r)
    PROVE  StepOK
  <1> DEFINE b == reqs[r].branch
  <1>1. reqs[r].op \in {"create", "checkout", "delete"} => b \in Branches
    BY DEF RepoInv, RequestInv, RecordOK
  <1>2. RestUntouched => load' = load /\ pref' \subseteq Tables
    BY RestKept
  <1>3. DoltInv
    BY DEF RepoInv
  <1>4. CASE CreateBranch(r)
    <2>1. reqs[r].pc = "begin" /\ b \in Branches
      BY <1>1, <1>4 DEF CreateBranch, At
    <2>2. CASE RunCreateBranch(b) /\ Goto(r, "readCurrent") /\ OutsideMutex
      BY <1>3, <1>4, <2>1, <2>2, QuietCommands, QuietGoto
         DEF CreateBranch, PhaseOf, InsidePcs, OwnerPcs, Pcs
    <2>3. CASE RepoUntouched /\ Answer(r)
      BY <1>2, <1>3, <1>4, <2>1, <2>3, QuietCommands, QuietAnswer
         DEF CreateBranch, PhaseOf, InsidePcs, OwnerPcs
    <2> QED BY <1>4, <2>2, <2>3 DEF CreateBranch
  <1>5. CASE CreateReadCurrent(r)
    BY <1>2, <1>3, <1>5, QuietCommands, QuietAnswer
       DEF CreateReadCurrent, At, PhaseOf, InsidePcs, OwnerPcs
  <1>6. CASE CheckoutBranch(r)
    <2>1. reqs[r].pc = "begin" /\ b \in Branches /\ Answer(r) /\ load' = load /\ pref' \subseteq Tables
      BY <1>1, <1>2, <1>6 DEF CheckoutBranch, At
    <2>2. Quiet
      BY <1>3, <1>6, <2>1, QuietCommands DEF CheckoutBranch
    <2> QED BY <2>1, <2>2, QuietAnswer DEF PhaseOf, InsidePcs, OwnerPcs
  <1>7. CASE DeleteReadCurrent(r)
    <2>1. reqs[r].pc = "begin" /\ Quiet /\ RestUntouched
      BY <1>3, <1>7, QuietCommands DEF DeleteReadCurrent, At
    <2>2. CASE Answer(r)
      BY <1>2, <2>1, <2>2, QuietAnswer DEF PhaseOf, InsidePcs, OwnerPcs
    <2>3. CASE Goto(r, "delete") /\ OutsideMutex
      BY <2>1, <2>3, QuietGoto DEF PhaseOf, InsidePcs, OwnerPcs, Pcs
    <2> QED BY <1>7, <2>2, <2>3 DEF DeleteReadCurrent
  <1>8. CASE DeleteBranch(r)
    <2>1. /\ reqs[r].pc = "delete" /\ b \in Branches /\ Answer(r)
          /\ load' = load /\ pref' \subseteq Tables
      BY <1>1, <1>8 DEF DeleteBranch, At, RepoInv, RequestInv
    <2>2. Quiet
      BY <1>3, <1>8, <2>1, QuietCommands DEF DeleteBranch
    <2> QED BY <2>1, <2>2, QuietAnswer DEF PhaseOf, InsidePcs, OwnerPcs
  <1> QED BY <1>4, <1>5, <1>6, <1>7, <1>8

\* MergeService
LEMMA MergeSteps ==
    ASSUME RepoInv, NEW r \in Reqs,
           MergeReadCurrent(r) \/ MergeCheckout(r) \/ Merge(r) \/ MergeReadHash(r)
           \/ ReadConflicts(r) \/ MergeAbort(r)
    PROVE  StepOK
  <1> DEFINE b == reqs[r].other
  <1>1. /\ b \in Branches /\ RestUntouched /\ DoltInv
        /\ load' = load /\ pref' \subseteq Tables
        /\ reqs[r] \in Records /\ RecordOK(reqs[r])
    <2>1. RestUntouched /\ reqs[r].op = "merge"
      BY DEF MergeReadCurrent, MergeCheckout, Merge, MergeReadHash, ReadConflicts, MergeAbort, At
    <2>2. reqs[r] \in Records /\ RecordOK(reqs[r]) /\ DoltInv
      BY DEF RepoInv, RequestInv
    <2> QED BY <2>1, <2>2, RestKept DEF RecordOK
  <1>2. CASE MergeReadCurrent(r)
    <2>1. reqs[r].pc = "begin" /\ Quiet
      BY <1>1, <1>2, QuietCommands DEF MergeReadCurrent, At
    <2>2. CASE reqs[r].branch \in {Nil, current}
      <3>1. Goto(r, "merge") /\ OutsideMutex
        BY <1>2, <2>2 DEF MergeReadCurrent
      <3> QED BY <1>1, <2>1, <3>1, QuietGoto DEF PhaseOf, InsidePcs, OwnerPcs, Pcs
    <2>3. CASE reqs[r].branch \notin {Nil, current}
      <3>1. Goto(r, "mergeCheckout") /\ OutsideMutex
        BY <1>2, <2>3 DEF MergeReadCurrent
      <3>2. reqs[r].branch \in Branches
        BY <1>1, <2>3 DEF Records
      <3> QED BY <1>1, <2>1, <3>1, <3>2, QuietGoto DEF PhaseOf, InsidePcs, OwnerPcs, Pcs
    <2> QED BY <2>2, <2>3
  <1>3. CASE MergeCheckout(r)
    <2>1. reqs[r].pc = "mergeCheckout" /\ reqs[r].branch \in Branches
      BY <1>1, <1>3 DEF MergeCheckout, At, RecordOK
    <2>2. CASE RunCheckout(reqs[r].branch) /\ Goto(r, "merge") /\ OutsideMutex
      BY <1>1, <2>1, <2>2, QuietCommands, QuietGoto DEF PhaseOf, InsidePcs, OwnerPcs, Pcs
    <2>3. CASE RepoUntouched /\ Answer(r)
      BY <1>1, <2>1, <2>3, QuietCommands, QuietAnswer DEF PhaseOf, InsidePcs, OwnerPcs
    <2> QED BY <1>3, <2>2, <2>3 DEF MergeCheckout
  <1>4. CASE Merge(r)
    <2>1. reqs[r].pc = "merge"
      BY <1>4 DEF Merge, At
    <2>2. CASE RepoUntouched /\ Answer(r)
      BY <1>1, <2>1, <2>2, QuietCommands, QuietAnswer DEF PhaseOf, InsidePcs, OwnerPcs
    <2>3. CASE (MergeFastForward(b) \/ MergeCommit(b)) /\ Goto(r, "mergeHash") /\ OutsideMutex
      BY <1>1, <2>1, <2>3, QuietCommands, QuietGoto DEF PhaseOf, InsidePcs, OwnerPcs, Pcs
    <2>4. CASE MergeStops(b) /\ Goto(r, "conflicts") /\ OutsideMutex
      <3>1. GraphKept
        BY <1>1, <2>4, SameGraph DEF MergeStops, DoltInv, AllTables
      <3>2. RequestInv'
        BY <1>1, <2>1, <2>4, GotoStep DEF PhaseOf, InsidePcs, OwnerPcs, Pcs
      <3> QED BY <3>1, <3>2 DEF StepOK
    <2> QED BY <1>4, <2>2, <2>3, <2>4 DEF Merge
  <1>5. CASE MergeReadHash(r)
    BY <1>1, <1>5, QuietCommands, QuietAnswer
       DEF MergeReadHash, At, PhaseOf, InsidePcs, OwnerPcs
  <1>6. CASE ReadConflicts(r)
    BY <1>1, <1>6, QuietCommands, QuietGoto
       DEF ReadConflicts, At, PhaseOf, InsidePcs, OwnerPcs, Pcs
  <1>7. CASE MergeAbort(r)
    <2>1. reqs[r].pc = "abort" /\ RunMergeAbort /\ Answer(r)
      BY <1>7 DEF MergeAbort, At
    <2>2. GraphKept
      BY <1>1, <2>1, SameGraph DEF RunMergeAbort, DoltInv, AllTables
    <2>3. RequestInv'
      BY <1>1, <2>1, AnswerStep DEF RunMergeAbort, InMerge, PhaseOf, InsidePcs
    <2> QED BY <2>2, <2>3 DEF StepOK
  <1> QED BY <1>2, <1>3, <1>4, <1>5, <1>6, <1>7

\* Facts about a request outside runExclusive.
LEMMA OutsidePcs ==
    \A pc \in Pcs \ (InsidePcs \cup {"queued"}) : PhaseOf(pc) = "out" /\ pc \notin OwnerPcs
  BY DEF PhaseOf, InsidePcs, OwnerPcs

\* A handler outside runExclusive runs a quiet command and moves on.
LEMMA OutsideGoto ==
    ASSUME RepoInv, NEW r \in Reqs, NEW pc \in Pcs, Goto(r, pc), OutsideMutex, RestUntouched, Quiet,
           pc \notin InsidePcs \cup {"queued"}, reqs[r].pc \in Pcs \ (InsidePcs \cup {"queued"})
    PROVE  StepOK
  BY OutsidePcs, QuietGoto DEF InsidePcs

\* A handler outside runExclusive runs a quiet command and ends.
LEMMA OutsideEnd ==
    ASSUME RepoInv, NEW r \in Reqs, Change(r, Idle), OutsideMutex, RestUntouched, Quiet,
           reqs[r].pc \in Pcs \ (InsidePcs \cup {"queued"})
    PROVE  StepOK
  BY OutsidePcs, QuietEnd, RestKept

\* A handler outside runExclusive keeps what a quiet command answered.
LEMMA OutsideChange ==
    ASSUME RepoInv, NEW r \in Reqs, NEW q, RecordOK(q), Change(r, q), OutsideMutex, RestUntouched,
           Quiet, q.pc \in Pcs \ (InsidePcs \cup {"queued"}),
           reqs[r].pc \in Pcs \ (InsidePcs \cup {"queued"})
    PROVE  StepOK
  BY OutsidePcs, QuietChange, RestKept

\* CommitImportService and runDoltCommitImport.
LEMMA ImportSteps ==
    ASSUME RepoInv, NEW r \in Reqs,
           \/ ImportCheckHead(r) \/ ImportHeadLookupFails(r)
           \/ ImportCheckout(r) \/ ImportCheckoutNew(r)
           \/ \E t \in Tables : ImportTable(r, t) \/ ImportTableBreaks(r, t)
           \/ ImportAdd(r) \/ ImportCommit(r) \/ ImportReadHash(r)
    PROVE  StepOK
  <1> DEFINE b == reqs[r].branch
             q == reqs[r]
  <1>1. OutsideMutex /\ RestUntouched /\ q.op = "push"
    BY DEF ImportCheckHead, ImportHeadLookupFails, ImportCheckout, ImportCheckoutNew,
           ImportTable, ImportTableBreaks, ImportAdd, ImportCommit, ImportReadHash, At
  <1>2. DoltInv /\ q \in Records /\ RecordOK(q) /\ b \in Branches /\ faults \in Nat
        /\ load' = load /\ pref' \subseteq Tables
    BY <1>1, RestKept DEF RepoInv, RequestInv, RecordOK
  <1>3. \A x \in Branches : head[x] \in Int
    BY <1>2 DEF DoltInv, WellFormed
  <1> HIDE DEF b, q
  <1>4. CASE ImportCheckHead(r)
    <2>1. q.pc = "head" /\ Quiet
      BY <1>2, <1>4, QuietCommands DEF ImportCheckHead, At, q
    <2>2. CASE Change(r, Idle)
      BY <1>1, <2>1, <2>2, OutsideEnd DEF q, Pcs, InsidePcs
    <2>3. CASE Change(r, [q EXCEPT !.pc = "checkout", !.base = BranchHead(b)])
      <3>1. RecordOK([q EXCEPT !.pc = "checkout", !.base = BranchHead(b)])
        BY <1>2, <1>3 DEF RecordOK, Records, BranchHead, Pcs
      <3>2. [q EXCEPT !.pc = "checkout", !.base = BranchHead(b)].pc = "checkout"
        BY <1>2 DEF Records
      <3> QED BY <1>1, <2>1, <2>3, <3>1, <3>2, OutsideChange DEF q, Pcs, InsidePcs
    <2> QED BY <1>4, <2>2, <2>3 DEF ImportCheckHead, q, b
  <1>5. CASE ImportHeadLookupFails(r)
    <2>1. q.pc = "head" /\ Quiet /\ faults' = faults + 1
      BY <1>2, <1>5, QuietCommands DEF ImportHeadLookupFails, At, q
    <2>2. reqs' = [reqs EXCEPT ![r] = [q EXCEPT !.pc = "checkout"]]
      BY <1>5 DEF ImportHeadLookupFails, q
    <2>3. RecordOK([q EXCEPT !.pc = "checkout"]) /\ [q EXCEPT !.pc = "checkout"].pc = "checkout"
      BY RecordMoves DEF q, Pcs
    <2>4. \A x \in Reqs : phase'[x] = IF x = r THEN PhaseOf("checkout") ELSE phase[x]
      BY <1>1, <2>1 DEF OutsideMutex, mutexVars, RepoInv, RequestInv, PhaseOf, InsidePcs, q
    <2>5. faults' \in Nat /\ faults' # 0
      BY <1>2, <2>1
    <2>6. RequestInv'
      BY <1>2, <2>2, <2>3, <2>4, <2>5, HandlerStep
    <2> QED BY <2>1, <2>6 DEF StepOK, Quiet
  <1>6. CASE ImportCheckout(r)
    <2>1. q.pc = "checkout" /\ Quiet
      BY <1>2, <1>6, QuietCommands DEF ImportCheckout, At, q, b
    <2>2. Goto(r, "import") \/ Change(r, Idle) \/ Goto(r, "checkoutNew")
      BY <1>6 DEF ImportCheckout
    <2> QED BY <1>1, <2>1, <2>2, OutsideGoto, OutsideEnd DEF q, Pcs, InsidePcs
  <1>7. CASE ImportCheckoutNew(r)
    <2>1. q.pc = "checkoutNew" /\ Quiet
      BY <1>2, <1>7, QuietCommands DEF ImportCheckoutNew, At, q, b
    <2>2. Goto(r, "import") \/ Change(r, Idle)
      BY <1>7 DEF ImportCheckoutNew
    <2> QED BY <1>1, <2>1, <2>2, OutsideGoto, OutsideEnd DEF q, Pcs, InsidePcs
  <1>8. ASSUME NEW t \in Tables, ImportTable(r, t) PROVE StepOK
    <2> DEFINE pc == IF q.todo = {t} THEN "add" ELSE "import"
               n == [q EXCEPT !.todo = @ \ {t}, !.pc = pc]
    <2>1. q.pc = "import" /\ Quiet /\ Change(r, n)
      BY <1>2, <1>8, QuietCommands DEF ImportTable, At, q, AllTables
    <2>2. pc \in {"add", "import"}
      OBVIOUS
    <2> HIDE DEF pc
    <2>3. RecordOK(n) /\ n.pc = pc
      BY <1>1, <1>2, <2>2 DEF RecordOK, Records, Pcs
    <2> HIDE DEF n
    <2> QED BY <1>1, <2>1, <2>2, <2>3, OutsideChange DEF q, Pcs, InsidePcs
  <1>9. ASSUME NEW t \in Tables, ImportTableBreaks(r, t) PROVE StepOK
    <2>1. /\ q.pc = "import" /\ Quiet /\ faults' = faults + 1
          /\ reqs' = [reqs EXCEPT ![r] = Idle]
      BY <1>2, <1>9, QuietCommands DEF ImportTableBreaks, At, q, AllTables
    <2>2. faults' \in Nat /\ faults' # 0
      BY <1>2, <2>1
    <2>3. phase[r] = "out" /\ PhaseOf(q.pc) = "out"
      BY <2>1 DEF RepoInv, RequestInv, PhaseOf, InsidePcs, q
    <2>4. RequestInv'
      BY <1>1, <1>2, <2>1, <2>2, <2>3, EndStep DEF Leave, q
    <2> QED BY <2>1, <2>4 DEF StepOK, Quiet
  <1>10. CASE ImportAdd(r)
    <2>1. q.pc = "add" /\ Quiet /\ Goto(r, "commit")
      BY <1>2, <1>10, QuietCommands DEF ImportAdd, At, q
    <2> QED BY <1>1, <2>1, OutsideGoto DEF q, Pcs, InsidePcs
  <1>11. CASE ImportCommit(r)
    <2>1. q.pc = "commit" /\ Quiet
      BY <1>2, <1>11, QuietCommands DEF ImportCommit, At, q
    <2>2. CASE Change(r, Idle)
      BY <1>1, <2>1, <2>2, OutsideEnd DEF q, Pcs, InsidePcs
    <2>3. CASE Change(r, [q EXCEPT !.pc = "hash", !.made = Append(@, Len(commits) + 1)])
      <3> DEFINE made == Append(q.made, Len(commits) + 1)
      <3>1. made \in Seq(Int)
        <4>1. Len(commits) + 1 \in Int
          BY <1>2 DEF DoltInv, WellFormed
        <4>2. q.made \in Seq(Int)
          BY <1>2 DEF Records
        <4> QED BY <4>1, <4>2
      <3> HIDE DEF made
      <3>2. Change(r, [q EXCEPT !.pc = "hash", !.made = made])
        BY <2>3 DEF made
      <3>3. RecordOK([q EXCEPT !.pc = "hash", !.made = made])
            /\ [q EXCEPT !.pc = "hash", !.made = made].pc = "hash"
        BY <1>2, <3>1 DEF RecordOK, Records, Pcs
      <3> QED BY <1>1, <2>1, <3>2, <3>3, OutsideChange DEF q, Pcs, InsidePcs
    <2> QED BY <1>11, <2>2, <2>3 DEF ImportCommit, q
  <1>12. CASE ImportReadHash(r)
    <2>1. q.pc = "hash" /\ Quiet
      BY <1>2, <1>12, QuietCommands DEF ImportReadHash, At, q
    <2>2. CASE Change(r, Idle)
      BY <1>1, <2>1, <2>2, OutsideEnd DEF q, Pcs, InsidePcs
    <2>3. CASE Change(r, [q EXCEPT !.pc = "checkout", !.left = @ - 1, !.todo = q.tables])
      <3> DEFINE left == q.left - 1
                 ts == q.tables
                 n == [q EXCEPT !.pc = "checkout", !.left = left, !.todo = ts]
      <3>1. left \in Int /\ ts \in SUBSET Tables
        BY <1>2 DEF Records
      <3>2. Change(r, n)
        BY <2>3
      <3> HIDE DEF left, ts
      <3>3. RecordOK(n) /\ n.pc = "checkout"
        BY <1>1, <1>2, <3>1 DEF RecordOK, Records, Pcs
      <3> HIDE DEF n
      <3> QED BY <1>1, <2>1, <3>2, <3>3, OutsideChange DEF q, Pcs, InsidePcs
    <2> QED BY <1>12, <2>2, <2>3 DEF ImportReadHash, q
  <1> QED BY <1>4, <1>5, <1>6, <1>7, <1>8, <1>9, <1>10, <1>11, <1>12

\* buildPlan makes a plan of the requested tables.
LEMMA PlanMade ==
    \A ts \in SUBSET Tables, edges \in SUBSET (Tables \X Tables) : BuildPlan(ts, edges) \in Plans
  BY DEF Plans

\* SyncPreferenceService, CommitService and the head of a pull.
LEMMA PlanSteps ==
    ASSUME RepoInv, NEW r \in Reqs,
           \/ ReadStoredPreference(r)
           \/ \E edges \in load.catalogs \cup {{}} : ReadEdges(r, edges)
           \/ AnswerPreview(r) \/ StorePreference(r) \/ ValidatePushOptions(r)
           \/ RecordInsert(r) \/ RecordAdd(r) \/ RecordCommit(r) \/ RecordReadHash(r)
           \/ PullReadHead(r)
    PROVE  StepOK
  <1> DEFINE q == reqs[r]
  <1>1. DoltInv /\ q \in Records /\ RecordOK(q) /\ pref \in SUBSET Tables
    BY DEF RepoInv, RequestInv
  <1>2. OutsideMutex
    BY DEF ReadStoredPreference, ReadEdges, AnswerPreview, StorePreference, ValidatePushOptions,
           RecordInsert, RecordAdd, RecordCommit, RecordReadHash, PullReadHead
  <1> HIDE DEF q
  <1>3. CASE ReadStoredPreference(r)
    <2> DEFINE n == [q EXCEPT !.pc = "plan", !.tables = pref]
    <2>1. q.pc = "prefs" /\ q.op = "record" /\ Quiet /\ RestUntouched /\ Change(r, n)
      BY <1>1, <1>3, QuietCommands DEF ReadStoredPreference, At, q
    <2>2. RecordOK(n) /\ n.pc = "plan"
      BY <1>1, <2>1 DEF RecordOK, Records, Pcs
    <2> HIDE DEF n
    <2> QED BY <1>2, <2>1, <2>2, OutsideChange DEF q, Pcs, InsidePcs
  <1>4. ASSUME NEW edges \in load.catalogs \cup {{}}, ReadEdges(r, edges) PROVE StepOK
    <2> DEFINE plan == BuildPlan(q.tables, edges)
               n == [q EXCEPT !.plan = plan, !.pc = "planned"]
    <2>1. q.pc = "plan" /\ Quiet /\ RestUntouched /\ Change(r, n)
      BY <1>1, <1>4, QuietCommands DEF ReadEdges, q
    <2>2. plan \in Plans
      <3>1. q.tables \in SUBSET Tables /\ edges \in SUBSET (Tables \X Tables)
        BY <1>1, LoadOK DEF Records, RepoInv
      <3> QED BY <3>1, PlanMade
    <2> HIDE DEF plan
    <2>3. RecordOK(n) /\ n.pc = "planned"
      BY <1>1, <2>2 DEF RecordOK, Records, Pcs
    <2> HIDE DEF n
    <2> QED BY <1>2, <2>1, <2>3, OutsideChange DEF q, Pcs, InsidePcs
  <1>5. CASE AnswerPreview(r) \/ RecordReadHash(r)
    <2>1. q.pc \in {"planned", "hash"} /\ Quiet /\ RestUntouched /\ Change(r, Idle)
      BY <1>1, <1>5, QuietCommands DEF AnswerPreview, RecordReadHash, At, q
    <2> QED BY <1>2, <2>1, OutsideEnd DEF q, Pcs, InsidePcs
  <1>6. CASE StorePreference(r)
    <2>1. q.pc = "planned" /\ Quiet /\ Change(r, Idle) /\ load' = load
          /\ pref' \in {q.plan.requested, pref}
      BY <1>1, <1>6, QuietCommands DEF StorePreference, At, q
    <2>2. q.plan.requested \in SUBSET Tables
      <3>1. q.plan \in Plans
        BY <1>1 DEF Records
      <3>2. PICK ts \in SUBSET Tables, es \in SUBSET (Tables \X Tables) : q.plan = BuildPlan(ts, es)
        BY <3>1 DEF Plans
      <3>3. q.plan.requested = ts
        BY <3>2 DEF BuildPlan
      <3> QED BY <3>3
    <2>3. PhaseOf(q.pc) = "out"
      BY <2>1 DEF PhaseOf, InsidePcs
    <2> QED BY <1>1, <1>2, <2>1, <2>2, <2>3, QuietEnd DEF q
  <1>7. CASE ValidatePushOptions(r)
    <2>1. q.pc = "planned" /\ Quiet /\ RestUntouched
      BY <1>1, <1>7, QuietCommands DEF ValidatePushOptions, At, q
    <2>2. Goto(r, "insert") \/ Change(r, Idle)
      BY <1>7 DEF ValidatePushOptions
    <2> QED BY <1>2, <2>1, <2>2, OutsideGoto, OutsideEnd DEF q, Pcs, InsidePcs
  <1>8. CASE RecordInsert(r) \/ RecordAdd(r)
    <2>1. /\ q.pc \in {"insert", "add"} /\ Quiet /\ RestUntouched
          /\ Goto(r, "add") \/ Goto(r, "commit")
      BY <1>1, <1>8, QuietCommands DEF RecordInsert, RecordAdd, At, q, AllTables
    <2> QED BY <1>2, <2>1, OutsideGoto DEF q, Pcs, InsidePcs
  <1>9. CASE RecordCommit(r)
    <2>1. q.pc = "commit" /\ Quiet /\ RestUntouched
      BY <1>1, <1>9, QuietCommands DEF RecordCommit, At, q
    <2>2. Goto(r, "hash") \/ Change(r, Idle)
      BY <1>9 DEF RecordCommit
    <2> QED BY <1>2, <2>1, <2>2, OutsideGoto, OutsideEnd DEF q, Pcs, InsidePcs
  <1>10. CASE PullReadHead(r)
    <2>1. q.pc = "head" /\ q.op = "pull" /\ Quiet /\ RestUntouched /\ q.branch \in Branches
      BY <1>1, <1>10, QuietCommands DEF PullReadHead, At, q, RecordOK
    <2>2. CASE Change(r, Idle)
      BY <1>2, <2>1, <2>2, OutsideEnd DEF q, Pcs, InsidePcs
    <2>3. CASE Change(r, [q EXCEPT !.pc = "stream", !.base = BranchHead(q.branch)])
      <3> DEFINE h == BranchHead(q.branch)
                 n == [q EXCEPT !.pc = "stream", !.base = h]
      <3>1. h \in Int
        BY <1>1, <2>1 DEF DoltInv, WellFormed, BranchHead
      <3>2. Change(r, n)
        BY <2>3
      <3> HIDE DEF h
      <3>3. RecordOK(n) /\ n.pc = "stream"
        BY <1>1, <2>1, <3>1 DEF RecordOK, Records, Pcs
      <3> HIDE DEF n
      <3> QED BY <1>2, <2>1, <3>2, <3>3, OutsideChange DEF q, Pcs, InsidePcs
    <2> QED BY <1>10, <2>2, <2>3 DEF PullReadHead, q
  <1> QED BY <1>3, <1>4, <1>5, <1>6, <1>7, <1>8, <1>9, <1>10

\* The generator of dolt-commit-export-cli.ts.
LEMMA ExportSteps == ASSUME RepoInv, NEW r \in Reqs, Export(r) PROVE StepOK
  <1> DEFINE q == reqs[r]
  <1>1. DoltInv /\ q \in Records /\ faults \in Nat
    BY DEF RepoInv, RequestInv
  <1>2. ReadsOnly /\ q.pc \in StreamPcs
    BY ExportShape
  <1>3. /\ OutsideMutex /\ RestUntouched /\ Quiet /\ load' = load /\ pref' \subseteq Tables
    BY <1>1, <1>2, QuietCommands, RestKept DEF ReadsOnly
  <1> HIDE DEF q
  <1>4. CASE Change(r, Idle)
    BY <1>2, <1>3, <1>4, OutsideEnd DEF q, Pcs, InsidePcs, StreamPcs, ExportPcs
  <1>5. ASSUME NEW pc \in ExportPcs, MovedTo(r, pc), faults' \in {faults, faults + 1}
        PROVE  StepOK
    <2> DEFINE n == [reqs[r] EXCEPT !.pc = pc]
    <2>1. RecordOK(n) /\ n.pc = pc
      <3>1. pc \in Pcs /\ pc # "mergeCheckout"
        BY DEF Pcs, ExportPcs
      <3> QED BY <3>1, RecordMoves
    <2>2. reqs' = [reqs EXCEPT ![r] = n]
      BY <1>5 DEF MovedTo
    <2> HIDE DEF n
    <2>3. faults' \in Nat /\ (faults' = 0 => faults = 0)
      BY <1>1, <1>5
    <2>4. PhaseOf(pc) = "out" /\ PhaseOf(q.pc) = "out" /\ q.pc \notin OwnerPcs
      BY <1>2 DEF PhaseOf, InsidePcs, OwnerPcs, StreamPcs, ExportPcs
    <2>5. \A x \in Reqs : phase'[x] = IF x = r THEN PhaseOf(n.pc) ELSE phase[x]
      BY <1>3, <2>1, <2>4 DEF OutsideMutex, mutexVars, RepoInv, RequestInv, q
    <2>6. InMerge' /\ faults' = 0 => InMerge /\ faults = 0 /\ reqs[r].pc \notin OwnerPcs
      BY <1>3, <2>3, <2>4 DEF Quiet, q
    <2>7. RequestInv'
      BY <1>3, <2>1, <2>2, <2>3, <2>5, <2>6, HandlerStep
    <2> QED BY <1>3, <2>7 DEF StepOK, Quiet
  <1> QED BY <1>4, <1>5, ExportShape

\* runExclusive, and the commands that fail for reasons of their own.
LEMMA MutexAndFaultSteps ==
    ASSUME RepoInv, NEW r \in Reqs, EnterMutex(r) \/ RunAction(r) \/ CommandFails(r)
    PROVE  StepOK
  <1> DEFINE q == reqs[r]
  <1>1. DoltInv /\ q \in Records /\ RecordOK(q) /\ faults \in Nat /\ RestUntouched
        /\ load' = load /\ pref' \subseteq Tables /\ phase \in [Reqs -> Phases] /\ Quiet
    <2>1. RestUntouched /\ RepoUntouched
      BY DEF EnterMutex, RunAction, CommandFails
    <2> QED BY <2>1, RestKept, QuietCommands DEF RepoInv, RequestInv, ChainInv, MutexTypeOK
  <1>2. ASSUME NEW pc \in {"queued", "begin"}, Goto(r, pc),
               phase' = [phase EXCEPT ![r] = PhaseOf(pc)], q.pc \in {"lookup", "queued"}
        PROVE  StepOK
    <2> DEFINE n == [reqs[r] EXCEPT !.pc = pc]
    <2>1. RecordOK(n) /\ n.pc = pc
      <3>1. pc \in Pcs /\ pc # "mergeCheckout"
        BY <1>2 DEF Pcs
      <3> QED BY <3>1, RecordMoves
    <2>2. reqs' = [reqs EXCEPT ![r] = n] /\ faults' = faults /\ faults' \in Nat
      BY <1>1, <1>2 DEF Goto, Change
    <2>3. \A x \in Reqs : phase'[x] = IF x = r THEN PhaseOf(n.pc) ELSE phase[x]
      BY <1>1, <1>2, <2>1
    <2>4. InMerge' /\ faults' = 0 => InMerge /\ faults = 0 /\ reqs[r].pc \notin OwnerPcs
      BY <1>1, <1>2, <2>2 DEF Quiet, OwnerPcs
    <2> HIDE DEF n
    <2>5. RequestInv'
      BY <1>1, <2>1, <2>2, <2>3, <2>4, HandlerStep
    <2> QED BY <1>1, <2>5 DEF StepOK, Quiet
  <1>3. CASE EnterMutex(r)
    BY <1>2, <1>3 DEF EnterMutex, Enter, PhaseOf, InsidePcs
  <1>4. CASE RunAction(r)
    BY <1>2, <1>4 DEF RunAction, Run, PhaseOf, InsidePcs
  <1>5. CASE CommandFails(r)
    <2>1. /\ PhaseOf(q.pc) # "waiting" /\ faults' = faults + 1 /\ Leave(r)
          /\ reqs' = [reqs EXCEPT ![r] = Idle]
      BY <1>5 DEF CommandFails, PhaseOf, InsidePcs
    <2>2. faults' \in Nat /\ faults' # 0
      BY <1>1, <2>1
    <2>3. RequestInv'
      BY <1>1, <2>1, <2>2, EndStep
    <2> QED BY <1>1, <2>3 DEF StepOK, Quiet
  <1> QED BY <1>3, <1>4, <1>5

\* A request is received.
LEMMA ReceiveStep ==
    ASSUME RepoInv, NEW r \in Reqs, NEW q, RecordOK(q), PhaseOf(q.pc) = "out", Receive(r, q)
    PROVE  StepOK
  <1>1. DoltInv /\ reqs \in [Reqs -> Records] /\ RestUntouched /\ OutsideMutex /\ Quiet
        /\ load' = load /\ pref' \subseteq Tables /\ faults' = faults /\ reqs[r].pc = "idle"
    BY RestKept, QuietCommands DEF RepoInv, RequestInv, Receive, Active
  <1> DEFINE alone == \A y \in Reqs : ~Active(y)
             n == [q EXCEPT !.alone = alone]
  <1>2. alone \in BOOLEAN
    BY Zenon
  <1>3. reqs'[r] = n /\ DOMAIN reqs' = Reqs
    BY DEF Receive
  <1>4. ASSUME NEW x \in Reqs, x # r
        PROVE  reqs'[x] = reqs[x] \/ reqs'[x] = [reqs[x] EXCEPT !.alone = FALSE]
    BY <1>4 DEF Receive
  <1> HIDE DEF alone
  <1>5. RecordOK(n) /\ n.pc = q.pc
    BY <1>2 DEF RecordOK, Records
  <1>6. ASSUME NEW x \in Reqs, x # r
        PROVE  RecordOK(reqs'[x]) /\ reqs'[x].pc = reqs[x].pc
    <2>1. RecordOK(reqs[x]) /\ reqs[x] \in Records /\ FALSE \in BOOLEAN
      BY DEF RepoInv, RequestInv
    <2>2. RecordOK([reqs[x] EXCEPT !.alone = FALSE]) /\ [reqs[x] EXCEPT !.alone = FALSE].pc = reqs[x].pc
      BY <2>1 DEF RecordOK, Records
    <2> QED BY <1>4, <1>6, <2>1, <2>2
  <1>7. \A x \in Reqs : RecordOK(reqs'[x]) /\ phase'[x] = PhaseOf(reqs'[x].pc)
    <2>1. phase' = phase /\ phase[r] = "out" /\ \A x \in Reqs : phase[x] = PhaseOf(reqs[x].pc)
      BY <1>1 DEF OutsideMutex, mutexVars, RepoInv, RequestInv, PhaseOf, InsidePcs
    <2> QED BY <1>3, <1>5, <1>6, <2>1
  <1> HIDE DEF n
  <1>8. reqs' \in [Reqs -> Records]
    <2>1. reqs' = [x \in Reqs |-> reqs'[x]]
      BY DEF Receive
    <2> QED BY <1>7, <2>1 DEF RecordOK
  <1>9. InMerge' /\ faults' = 0 => \E x \in Reqs : reqs'[x].pc \in OwnerPcs
    <2>1. InMerge /\ faults = 0 => \E x \in Reqs : reqs[x].pc \in OwnerPcs
      BY DEF RepoInv, RequestInv
    <2>2. reqs[r].pc \notin OwnerPcs
      BY <1>1 DEF OwnerPcs
    <2> QED BY <1>1, <1>6, <2>1, <2>2 DEF Quiet
  <1>10. \A x \in Reqs : RecordOK(reqs[x])' <=> RecordOK(reqs'[x])
    BY DEF RecordOK, Records, Plans
  <1>11. \E s \in Starts : load' = s.load
    BY <1>1 DEF RepoInv, RequestInv
  <1>12. faults' \in Nat
    BY <1>1 DEF RepoInv, RequestInv
  <1> QED BY <1>1, <1>7, <1>8, <1>9, <1>10, <1>11, <1>12 DEF StepOK, Quiet, RequestInv

\* Every request a client can send is sound.
LEMMA ArrivalStep == ASSUME RepoInv, NEW r \in Reqs, Arrival(r) PROVE StepOK
  <1>1. /\ load.lists \subseteq SUBSET Tables /\ load.hashes \subseteq Nat
        /\ load.batch \in Nat
    BY LoadOK, VersioningAssumptions DEF RepoInv, RequestInv
  <1>2. Idle \in Records /\ Idle.op = "none" /\ Idle.pc = "idle" /\ Idle.branch = Nil
    BY IdleOK DEF Idle
  <1>3. ASSUME NEW q \in Records, q.pc \in {"lookup", "checkout", "head", "prefs", "plan"},
               q.op \in {"create", "checkout", "delete", "push", "pull"} => q.branch \in Branches,
               q.op = "merge" => q.other \in Branches, Receive(r, q)
        PROVE  StepOK
    <2>1. RecordOK(q) /\ PhaseOf(q.pc) = "out"
      BY <1>3 DEF RecordOK, PhaseOf, InsidePcs
    <2> QED BY <1>3, <2>1, ReceiveStep
  <1>4. ASSUME NEW b \in Branches, NEW op \in {"create", "checkout", "delete"}, BranchRequest(r, op, b)
        PROVE  StepOK
    <2> DEFINE q == [Idle EXCEPT !.op = op, !.pc = "lookup", !.branch = b]
    <2>1. q \in Records /\ q.pc = "lookup" /\ q.op = op /\ q.branch = b
      BY <1>2 DEF Records, Ops, Pcs
    <2>2. Receive(r, q)
      BY <1>4 DEF BranchRequest
    <2> HIDE DEF q
    <2> QED BY <1>3, <2>1, <2>2
  <1>5. ASSUME NEW b \in Branches, NEW t \in Branches \cup {Nil}, MergeRequest(r, b, t)
        PROVE  StepOK
    <2> DEFINE q == [Idle EXCEPT !.op = "merge", !.pc = "lookup", !.branch = t, !.other = b]
    <2>1. q \in Records /\ q.pc = "lookup" /\ q.op = "merge" /\ q.other = b
      BY <1>2 DEF Records, Ops, Pcs
    <2>2. Receive(r, q)
      BY <1>5 DEF MergeRequest
    <2> HIDE DEF q
    <2> QED BY <1>3, <2>1, <2>2
  <1>6. ASSUME NEW b \in Branches, NEW from \in load.hashes, NEW ts \in load.lists \ {{}},
               NEW n \in 1..load.batch, PushRequest(r, b, from, ts, n)
        PROVE  StepOK
    <2> DEFINE pc == IF from = 0 THEN "checkout" ELSE "head"
               q == [Idle EXCEPT !.op = "push", !.pc = pc, !.branch = b, !.from = from,
                                 !.tables = ts, !.todo = ts, !.left = n]
    <2>1. pc \in {"checkout", "head"}
      OBVIOUS
    <2>2. from \in Nat /\ ts \in SUBSET Tables /\ n \in Int
      BY <1>1
    <2>3. Receive(r, q)
      BY <1>6 DEF PushRequest
    <2> HIDE DEF pc
    <2>4. q \in Records /\ q.pc = pc /\ q.op = "push" /\ q.branch = b
      BY <1>2, <2>1, <2>2 DEF Records, Ops, Pcs
    <2> HIDE DEF q
    <2> QED BY <1>3, <2>1, <2>3, <2>4
  <1>7. ASSUME NEW ts \in load.lists, RecordRequest(r, ts) PROVE StepOK
    <2> DEFINE pc == IF ts = {} THEN "prefs" ELSE "plan"
               q == [Idle EXCEPT !.op = "record", !.pc = pc, !.tables = ts]
    <2>1. pc \in {"prefs", "plan"} /\ ts \in SUBSET Tables
      BY <1>1
    <2>2. Receive(r, q)
      BY <1>7 DEF RecordRequest
    <2> HIDE DEF pc
    <2>3. q \in Records /\ q.pc = pc /\ q.op = "record"
      BY <1>2, <2>1 DEF Records, Ops, Pcs
    <2> HIDE DEF q
    <2> QED BY <1>3, <2>1, <2>2, <2>3
  <1>8. ASSUME NEW op \in {"savePrefs", "preview"}, NEW ts \in load.lists, PreferenceRequest(r, op, ts)
        PROVE  StepOK
    <2> DEFINE q == [Idle EXCEPT !.op = op, !.pc = "plan", !.tables = ts]
    <2>1. ts \in SUBSET Tables
      BY <1>1
    <2>2. q \in Records /\ q.pc = "plan" /\ q.op = op
      BY <1>2, <2>1 DEF Records, Ops, Pcs
    <2>3. Receive(r, q)
      BY <1>8 DEF PreferenceRequest
    <2> HIDE DEF q
    <2> QED BY <1>3, <2>2, <2>3
  <1>9. ASSUME NEW b \in Branches, NEW from \in load.hashes, PullRequest(r, b, from) PROVE StepOK
    <2> DEFINE q == [Idle EXCEPT !.op = "pull", !.pc = "head", !.branch = b, !.from = from]
    <2>1. from \in Nat
      BY <1>1
    <2>2. q \in Records /\ q.pc = "head" /\ q.op = "pull" /\ q.branch = b
      BY <1>2, <2>1 DEF Records, Ops, Pcs
    <2>3. Receive(r, q)
      BY <1>9 DEF PullRequest
    <2> HIDE DEF q
    <2> QED BY <1>3, <2>2, <2>3
  <1> QED BY <1>4, <1>5, <1>6, <1>7, <1>8, <1>9 DEF Arrival

\* A server that starts on a sound repository.
LEMMA RepoInvInit == Init => RepoInv
  <1> SUFFICES ASSUME Init PROVE RepoInv
    OBVIOUS
  <1>1. PICK s \in Starts :
            /\ load = s.load /\ pref = s.pref
            /\ head = s.head /\ commits = s.commits /\ current = Main
            /\ working = {} /\ staged = {} /\ merging = {}
            /\ reqs = [r \in Reqs |-> Idle] /\ faults = 0 /\ MutexInit
    BY DEF Init
  <1>2. DoltInv
    BY <1>1, VersioningAssumptions, DoltAssumptions DEF DoltInv, Exists
  <1>3. RequestInv
    <2>1. reqs \in [Reqs -> Records] /\ \A r \in Reqs : RecordOK(reqs[r]) /\ reqs[r].pc = "idle"
      BY <1>1, IdleOK
    <2>2. \A r \in Reqs : phase[r] = PhaseOf(reqs[r].pc)
      BY <1>1, <2>1 DEF MutexInit, PhaseOf, InsidePcs
    <2> QED BY <1>1, <2>1, <2>2, VersioningAssumptions DEF RequestInv, InMerge
  <1> QED BY <1>1, <1>2, <1>3, ChainInvInit DEF RepoInv

\* Every step keeps the invariant, and every commit that a branch reached.
LEMMA RepoInvStep ==
    RepoInv /\ [Next]_vars => RepoInv' /\ Reachable \subseteq Reachable'
  <1> SUFFICES ASSUME RepoInv, [Next]_vars PROVE RepoInv' /\ Reachable \subseteq Reachable'
    OBVIOUS
  <1>1. ChainInv'
    BY MutexSteps, ChainInvStep DEF RepoInv
  <1>2. CASE UNCHANGED vars
    <2>1. RepoUntouched /\ UNCHANGED <<phase, load, pref, reqs, faults>>
      BY <1>2 DEF vars, RepoUntouched, doltVars
    <2>2. GraphKept /\ (InMerge' <=> InMerge)
      BY <2>1, QuietCommands DEF RepoInv, Quiet
    <2>3. \A x \in Reqs : RecordOK(reqs[x])' <=> RecordOK(reqs[x])
      BY <2>1 DEF RecordOK, Records, Plans
    <2>4. RequestInv'
      BY <2>1, <2>2, <2>3 DEF RepoInv, RequestInv
    <2> QED BY <1>1, <2>2, <2>4 DEF RepoInv, GraphKept
  <1>3. ASSUME NEW r \in Reqs, Handle(r) PROVE StepOK
    BY <1>3, BranchSteps, MergeSteps, ImportSteps, PlanSteps, MutexAndFaultSteps DEF Handle
  <1>4. CASE Next
    <2>1. StepOK
      BY <1>3, <1>4, ArrivalStep, ExportSteps DEF Next, Serve
    <2> QED BY <1>1, <2>1 DEF RepoInv, StepOK, GraphKept
  <1> QED BY <1>2, <1>4

\* The invariant of the repository holds for any workload.
LEMMA RepoInvariant == Spec => []RepoInv
  BY RepoInvInit, RepoInvStep, PTL DEF Spec

\* No interleaving of merges, pushes, deletions and failures drops a commit
\* that some branch reached, whatever the commit graph the server starts
\* from: branch -d asks for a merged branch and everything else moves a
\* branch forward.
THEOREM NoCommitLost == Spec => CommitsStayReachable
  <1>1. RepoInv /\ [Next]_vars => [Reachable \subseteq Reachable']_vars
    BY RepoInvStep
  <1> QED BY <1>1, RepoInvariant, PTL DEF Spec, CommitsStayReachable

\* Unless a command failed, a working copy that is in a merge has a request
\* inside the mutex that will abort it (merge.service.ts).
THEOREM ConflictsAreOwned == Spec => []MergeHasOwner
  <1>1. RepoInv => MergeHasOwner
    BY DEF RepoInv, RequestInv, MergeHasOwner, PhaseOf, InsidePcs, OwnerPcs
  <1> QED BY <1>1, RepoInvariant, PTL

(***************************************************************************)
(* How the commit graph grows.                                             *)
(***************************************************************************)
\* One step of a request runs at most one dolt command.
OneCommand ==
    \/ RepoUntouched /\ deleted' = deleted
    \/ RunCommit /\ deleted' = deleted
    \/ RunMergeAbort /\ deleted' = deleted
    \/ \E b \in Branches :
          /\ RunCreateBranch(b) \/ RunCheckout(b) \/ RunCheckoutNew(b)
             \/ MergeFastForward(b) \/ MergeCommit(b) \/ MergeStops(b)
          /\ deleted' = deleted
    \/ \E b \in Branches : /\ RunDeleteBranch(b) /\ deleted' = deleted \cup {b}
                           /\ \E r \in Reqs : reqs[r].pc = "delete" /\ reqs[r].branch = b
    \/ \E t \in AllTables : WriteTable(t) /\ deleted' = deleted
    \/ \E ts : RunAdd(ts) /\ deleted' = deleted

\* A step of a request is one dolt command or none.
LEMMA StepIsCommand == ASSUME RepoInv, [Next]_vars PROVE OneCommand
  <1>0. ASSUME NEW r \in Reqs
        PROVE  /\ reqs[r].op \in {"create", "checkout", "delete", "push", "pull"} =>
                      reqs[r].branch \in Branches
               /\ reqs[r].op = "merge" => reqs[r].other \in Branches
               /\ reqs[r].pc = "mergeCheckout" => reqs[r].branch \in Branches
    BY DEF RepoInv, RequestInv, RecordOK
  <1>1. CASE UNCHANGED vars
    BY <1>1 DEF vars, OneCommand, RepoUntouched, doltVars
  <1>2. ASSUME NEW r \in Reqs, Arrival(r) PROVE OneCommand
    BY <1>2 DEF Arrival, BranchRequest, MergeRequest, PushRequest, RecordRequest,
                PreferenceRequest, PullRequest, Receive, RestUntouched, OneCommand
  <1>3. ASSUME NEW r \in Reqs, Handle(r) PROVE OneCommand
    <2>1. CASE EnterMutex(r) \/ RunAction(r) \/ CommandFails(r)
      BY <2>1 DEF EnterMutex, RunAction, CommandFails, RestUntouched, OneCommand
    <2>2. CASE CreateBranch(r) \/ CreateReadCurrent(r) \/ CheckoutBranch(r)
               \/ DeleteReadCurrent(r) \/ DeleteBranch(r)
      <3>1. CASE CreateReadCurrent(r) \/ DeleteReadCurrent(r)
        BY <3>1 DEF CreateReadCurrent, DeleteReadCurrent, RestUntouched, OneCommand
      <3>2. CASE CreateBranch(r)
        BY <1>0, <3>2 DEF CreateBranch, At, RestUntouched, OneCommand
      <3>3. CASE CheckoutBranch(r)
        BY <1>0, <3>3 DEF CheckoutBranch, At, RestUntouched, OneCommand
      <3>4. CASE DeleteBranch(r)
        BY <1>0, <3>4 DEF DeleteBranch, At, OneCommand
      <3> QED BY <2>2, <3>1, <3>2, <3>3, <3>4
    <2>3. CASE MergeReadCurrent(r) \/ MergeCheckout(r) \/ Merge(r) \/ MergeReadHash(r)
               \/ ReadConflicts(r) \/ MergeAbort(r)
      <3>1. CASE MergeReadCurrent(r) \/ MergeReadHash(r) \/ ReadConflicts(r) \/ MergeAbort(r)
        BY <3>1 DEF MergeReadCurrent, MergeReadHash, ReadConflicts, MergeAbort, RestUntouched,
                    OneCommand
      <3>2. CASE MergeCheckout(r)
        BY <1>0, <3>2 DEF MergeCheckout, At, RestUntouched, OneCommand
      <3>3. CASE Merge(r)
        BY <1>0, <3>3 DEF Merge, At, RestUntouched, OneCommand
      <3> QED BY <2>3, <3>1, <3>2, <3>3
    <2>4. CASE \/ ImportCheckHead(r) \/ ImportHeadLookupFails(r) \/ ImportAdd(r)
               \/ ImportCommit(r) \/ ImportReadHash(r)
      BY <2>4 DEF ImportCheckHead, ImportHeadLookupFails, ImportAdd, ImportCommit,
                  ImportReadHash, RestUntouched, OneCommand
    <2>5. CASE \/ ImportCheckout(r) \/ ImportCheckoutNew(r)
      BY <1>0, <2>5 DEF ImportCheckout, ImportCheckoutNew, At, RestUntouched, OneCommand
    <2>6. CASE \E t \in Tables : ImportTable(r, t) \/ ImportTableBreaks(r, t)
      <3>1. \E t \in Tables : WriteTable(t) /\ deleted' = deleted
        BY <2>6 DEF ImportTable, ImportTableBreaks, RestUntouched
      <3> QED BY <3>1 DEF OneCommand, AllTables
    <2>7. CASE \/ ReadStoredPreference(r)
               \/ \E edges \in load.catalogs \cup {{}} : ReadEdges(r, edges)
               \/ AnswerPreview(r) \/ StorePreference(r) \/ ValidatePushOptions(r)
               \/ RecordReadHash(r) \/ PullReadHead(r)
      BY <2>7 DEF ReadStoredPreference, ReadEdges, AnswerPreview, StorePreference,
                  ValidatePushOptions, RecordReadHash, PullReadHead, RestUntouched,
                  OneCommand
    <2>8. CASE RecordInsert(r)
      BY <2>8 DEF RecordInsert, RestUntouched, OneCommand, AllTables
    <2>9. CASE RecordAdd(r) \/ RecordCommit(r)
      BY <2>9 DEF RecordAdd, RecordCommit, RestUntouched, OneCommand
    <2> QED BY <1>3, <2>1, <2>2, <2>3, <2>4, <2>5, <2>6, <2>7, <2>8, <2>9 DEF Handle
  <1>4. ASSUME NEW r \in Reqs, Export(r) PROVE OneCommand
    BY <1>4, ExportShape DEF ReadsOnly, RestUntouched, OneCommand
  <1> QED BY <1>1, <1>2, <1>3, <1>4 DEF Next, Serve

\* Commits are never changed, and a branch that nobody deleted only gains
\* history.
GraphGrows ==
    /\ Len(commits) <= Len(commits')
    /\ \A n \in 1..Len(commits) : commits'[n] = commits[n]
    /\ \A b \in Branches : b \notin deleted' => History(b) \subseteq History(b)'
    /\ deleted \subseteq deleted'

\* What Advance does to commits.
LEMMA AdvanceAppends ==
    ASSUME DoltInv, NEW ancestors, NEW ts, Advance(ancestors, ts)
    PROVE  /\ Len(commits) \in Nat /\ Len(commits') = Len(commits) + 1
           /\ \A n \in 1..Len(commits) : commits'[n] = commits[n]
           /\ commits'[Len(commits) + 1].ancestors = ancestors \cup {Len(commits) + 1}
           /\ head'[current] = Len(commits) + 1
           /\ \A b \in Branches : b # current => head'[b] = head[b]
           /\ Len(commits) + 1 \in 1..MaxCommits
  <1> DEFINE c == Len(commits) + 1
             new == [ancestors |-> ancestors \cup {c}, tables |-> ts]
  <1>1. commits \in Seq(Commits) /\ Len(commits) \in Nat
    BY DEF DoltInv, WellFormed
  <1>2. /\ c <= MaxCommits /\ commits' = Append(commits, new)
        /\ head' = [head EXCEPT ![current] = c]
    BY DEF Advance
  <1>3. new.ancestors = ancestors \cup {c}
    OBVIOUS
  <1> HIDE DEF new
  <1>4. /\ Len(commits') = c /\ \A n \in 1..Len(commits) : commits'[n] = commits[n]
        /\ commits'[c] = new
    BY <1>1, <1>2
  <1>5. head'[current] = c /\ \A b \in Branches : b # current => head'[b] = head[b]
    BY <1>2 DEF DoltInv, WellFormed
  <1>6. c \in 1..MaxCommits
    BY <1>1, <1>2, DoltAssumptions
  <1> QED BY <1>1, <1>3, <1>4, <1>5, <1>6

\* A new commit on the branch that is checked out.
LEMMA AdvanceGrows ==
    ASSUME DoltInv, NEW ancestors, NEW ts, Advance(ancestors, ts),
           History(current) \subseteq ancestors, deleted' = deleted
    PROVE  GraphGrows
  <1>1. /\ Len(commits) \in Nat /\ Len(commits') = Len(commits) + 1
        /\ \A n \in 1..Len(commits) : commits'[n] = commits[n]
        /\ commits'[Len(commits) + 1].ancestors = ancestors \cup {Len(commits) + 1}
        /\ head'[current] = Len(commits) + 1
        /\ \A b \in Branches : b # current => head'[b] = head[b]
    BY AdvanceAppends
  <1>2. ASSUME NEW b \in Branches PROVE History(b) \subseteq History(b)'
    <2>1. CASE b = current
      <3>1. History(b)' = ancestors \cup {Len(commits) + 1}
        BY <1>1, <2>1 DEF History, Exists
      <3> QED BY <2>1, <3>1
    <2>2. CASE b # current /\ Exists(b)
      <3>1. head[b] \in 1..Len(commits) /\ History(b) = commits[head[b]].ancestors
        BY <2>2, HistoryOfBranch
      <3> QED BY <1>1, <2>2, <3>1 DEF History, Exists
    <2>3. CASE ~Exists(b)
      BY <2>3 DEF History
    <2> QED BY <2>1, <2>2, <2>3
  <1> QED BY <1>1, <1>2 DEF GraphGrows

\* No dolt command changes a commit or takes history from a branch it keeps.
LEMMA CommandGrows == ASSUME DoltInv, OneCommand PROVE GraphGrows
  <1>0. Len(commits) \in Nat /\ head \in [Branches -> 0..Len(commits)] /\ current \in Branches
    BY DEF DoltInv, WellFormed
  <1>1. CASE UNCHANGED <<head, commits>> /\ deleted' = deleted
    BY <1>0, <1>1 DEF GraphGrows, History, Exists
  <1>2. CASE RunCommit /\ deleted' = deleted
    BY <1>2, AdvanceGrows DEF RunCommit
  <1>3. ASSUME NEW b \in Branches, RunCreateBranch(b) \/ RunCheckoutNew(b), deleted' = deleted
        PROVE  GraphGrows
    <2>1. /\ ~Exists(b) /\ commits' = commits /\ \A a \in Branches : a # b => head'[a] = head[a]
      BY <1>0, <1>3 DEF RunCreateBranch, RunCheckoutNew
    <2> QED BY <1>0, <1>3, <2>1 DEF GraphGrows, History, Exists
  <1>4. ASSUME NEW b \in Branches, MergeFastForward(b), deleted' = deleted PROVE GraphGrows
    <2>1. /\ Exists(b) /\ commits' = commits /\ head[current] \in History(b)
          /\ head'[current] = head[b] /\ \A a \in Branches : a # current => head'[a] = head[a]
      BY <1>0, <1>4 DEF MergeFastForward, MayMerge, FastForwards
    <2>2. History(current) \subseteq History(b)
      <3>1. History(current) = commits[head[current]].ancestors
        BY HistoryOfBranch DEF DoltInv
      <3> QED BY <2>1, <3>1, HistoryOfBranch
    <2>3. ASSUME NEW a \in Branches PROVE History(a) \subseteq History(a)'
      <3>1. CASE a = current
        <4>1. History(a)' = History(b)
          BY <2>1, <3>1 DEF History, Exists
        <4> QED BY <2>2, <3>1, <4>1
      <3>2. CASE a # current
        BY <2>1, <3>2 DEF History, Exists
      <3> QED BY <3>1, <3>2
    <2> QED BY <1>0, <1>4, <2>1, <2>3 DEF GraphGrows
  <1>5. ASSUME NEW b \in Branches, MergeCommit(b), deleted' = deleted PROVE GraphGrows
    BY <1>5, AdvanceGrows DEF MergeCommit
  <1>6. ASSUME NEW b \in Branches, RunDeleteBranch(b), deleted' = deleted \cup {b} PROVE GraphGrows
    <2>1. commits' = commits /\ \A a \in Branches : a # b => head'[a] = head[a]
      BY <1>0, <1>6 DEF RunDeleteBranch
    <2> QED BY <1>0, <1>6, <2>1 DEF GraphGrows, History, Exists
  <1> QED BY <1>1, <1>2, <1>3, <1>4, <1>5, <1>6
          DEF OneCommand, RepoUntouched, doltVars, RunMergeAbort, RunCheckout, MergeStops,
              WriteTable, RunAdd

(***************************************************************************)
(* How a request moves on.                                                 *)
(***************************************************************************)
\* Where the code of a push can be.
PushPcs == {"head", "checkout", "checkoutNew", "import", "add", "commit", "hash"}

\* A handler that goes on: what it keeps of its request p and what of q is new.
Moves(p, q) ==
    /\ q.pc # "idle"
    /\ q.op = p.op /\ q.branch = p.branch /\ q.from = p.from /\ q.alone = p.alone
    /\ q.left = p.left \/ (p.op = "push" /\ p.left # 1 /\ q.left = p.left - 1)
    /\ q.made = p.made \/ (RunCommit /\ q.made = Append(p.made, Len(commits) + 1))
    /\ q.base = p.base \/ (p.branch \in Branches /\ q.base = head[p.branch])
    /\ q.plan = p.plan \/ (p.pc = "plan" /\ q.pc = "planned")
    /\ q.pc = "delete" => q.branch # Main
    /\ q.pc = "insert" => NothingExcluded(q.plan)
    /\ q.pc \in {"add", "commit", "hash"} =>
          p.op = "push" \/ (p.pc \in {"insert", "add", "commit"} /\ q.plan = p.plan)
    /\ q.pc = "stream" => Exists(p.branch) /\ p.branch \in Branches /\ q.base = head[p.branch]
    /\ q.pc \notin {"diff", "export", "data"}
    /\ p.op = "push" => p.pc \in {"lookup", "queued", "plan"} \/ q.pc \in PushPcs

\* One handler takes a step: it ends or moves on, and the others stay.
HandlerMoves(r) ==
    /\ reqs[r].pc # "idle"
    /\ \A x \in Reqs : x # r => reqs'[x] = reqs[x]
    /\ reqs'[r] = Idle \/ Moves(reqs[r], reqs'[r])

\* A handler ends.
LEMMA EndMoves ==
    ASSUME RepoInv, NEW r \in Reqs, reqs' = [reqs EXCEPT ![r] = Idle], reqs[r].pc # "idle"
    PROVE  HandlerMoves(r)
  BY DEF RepoInv, RequestInv, HandlerMoves

\* A handler that only moves on in its code.
LEMMA GotoMoves ==
    ASSUME RepoInv, NEW r \in Reqs, NEW pc \in Pcs \ {"stream", "diff", "export", "data", "idle"},
           MovedTo(r, pc), reqs[r].pc # "idle",
           pc = "delete" => reqs[r].branch # Main,
           pc = "insert" => NothingExcluded(reqs[r].plan),
           pc \in {"add", "commit", "hash"} =>
              reqs[r].op = "push" \/ reqs[r].pc \in {"insert", "add", "commit"},
           reqs[r].op = "push" => reqs[r].pc \in {"lookup", "queued"} \/ pc \in PushPcs
    PROVE  HandlerMoves(r)
  <1> DEFINE p == reqs[r]
             q == [reqs[r] EXCEPT !.pc = pc]
  <1>1. p \in Records /\ reqs \in [Reqs -> Records]
    BY DEF RepoInv, RequestInv
  <1>2. /\ q.op = p.op /\ q.branch = p.branch /\ q.from = p.from /\ q.alone = p.alone
        /\ q.left = p.left /\ q.made = p.made /\ q.base = p.base /\ q.plan = p.plan /\ q.pc = pc
    BY <1>1 DEF Records
  <1>3. reqs'[r] = q /\ \A x \in Reqs : x # r => reqs'[x] = reqs[x]
    BY <1>1 DEF MovedTo
  <1> HIDE DEF q
  <1>4. Moves(p, q)
    BY <1>2 DEF Moves
  <1> QED BY <1>3, <1>4 DEF HandlerMoves

\* Every step of a handler ends it or moves it on.
LEMMA HandleMoves == ASSUME RepoInv, NEW r \in Reqs, Handle(r) PROVE HandlerMoves(r)
  <1> DEFINE p == reqs[r]
  <1>0. /\ p \in Records /\ reqs \in [Reqs -> Records] /\ RecordOK(p) /\ DoltInv
        /\ \A x \in Branches : head[x] \in Int
    BY DEF RepoInv, RequestInv, DoltInv, WellFormed
  <1>1. CASE EnterMutex(r) \/ RunAction(r)
    <2>1. PICK pc \in {"queued", "begin"} : Goto(r, pc)
      BY <1>1 DEF EnterMutex, RunAction
    <2>2. p.pc \in {"lookup", "queued"}
      BY <1>1 DEF EnterMutex, RunAction
    <2> QED BY <2>1, <2>2, GotoIs, GotoMoves DEF Pcs
  <1>2. CASE CommandFails(r)
    BY <1>2, EndMoves DEF CommandFails, Active
  <1>3. CASE CreateBranch(r) \/ CreateReadCurrent(r) \/ CheckoutBranch(r)
             \/ DeleteReadCurrent(r) \/ DeleteBranch(r)
    <2>1. p.pc # "idle" /\ p.op # "push"
      BY <1>3 DEF CreateBranch, CreateReadCurrent, CheckoutBranch, DeleteReadCurrent, DeleteBranch, At
    <2>2. CASE Change(r, Idle)
      BY <2>1, <2>2, EndMoves DEF Change
    <2>3. CASE Goto(r, "readCurrent")
      BY <2>1, <2>3, GotoIs, GotoMoves DEF Pcs
    <2>4. CASE Goto(r, "delete") /\ p.branch # Main
      BY <2>1, <2>4, GotoIs, GotoMoves DEF Pcs
    <2> QED
      BY <1>3, <2>2, <2>3, <2>4
         DEF CreateBranch, CreateReadCurrent, CheckoutBranch, DeleteReadCurrent, DeleteBranch, Answer
  <1>4. CASE MergeReadCurrent(r) \/ MergeCheckout(r) \/ Merge(r) \/ MergeReadHash(r)
             \/ ReadConflicts(r) \/ MergeAbort(r)
    <2>1. p.pc # "idle" /\ p.op # "push"
      BY <1>4 DEF MergeReadCurrent, MergeCheckout, Merge, MergeReadHash, ReadConflicts, MergeAbort, At
    <2>2. CASE Change(r, Idle)
      BY <2>1, <2>2, EndMoves DEF Change
    <2>3. ASSUME NEW pc \in {"merge", "mergeCheckout", "mergeHash", "conflicts", "abort"}, Goto(r, pc)
          PROVE  HandlerMoves(r)
      BY <2>1, <2>3, GotoIs, GotoMoves DEF Pcs
    <2>4. CASE MergeReadCurrent(r)
      BY <2>3, <2>4 DEF MergeReadCurrent
    <2>5. CASE MergeCheckout(r) \/ Merge(r) \/ MergeReadHash(r) \/ ReadConflicts(r) \/ MergeAbort(r)
      BY <2>2, <2>3, <2>5
         DEF MergeCheckout, Merge, MergeReadHash, ReadConflicts, MergeAbort, Answer
    <2> QED BY <1>4, <2>4, <2>5
  <1>5. ASSUME NEW pc \in PushPcs, MovedTo(r, pc),
               p.op = "push", p.pc # "idle"
        PROVE  HandlerMoves(r)
    BY <1>5, GotoMoves DEF Pcs, PushPcs
  <1>6. CASE \/ ImportHeadLookupFails(r) \/ ImportCheckout(r) \/ ImportCheckoutNew(r)
             \/ ImportAdd(r) \/ \E t \in Tables : ImportTableBreaks(r, t)
    <2>1. p.op = "push" /\ p.pc # "idle"
      BY <1>6 DEF ImportHeadLookupFails, ImportCheckout, ImportCheckoutNew, ImportAdd,
                  ImportTableBreaks, At
    <2>2. \/ reqs' = [reqs EXCEPT ![r] = Idle]
          \/ \E pc \in {"checkout", "import", "checkoutNew", "commit"} : MovedTo(r, pc)
      <3>1. CASE ImportHeadLookupFails(r)
        BY <3>1 DEF ImportHeadLookupFails, MovedTo
      <3>2. CASE ImportCheckout(r)
        BY <3>2, GotoIs DEF ImportCheckout, Change, Pcs
      <3>3. CASE ImportCheckoutNew(r)
        BY <3>3, GotoIs DEF ImportCheckoutNew, Change, Pcs
      <3>4. CASE ImportAdd(r) \/ \E t \in Tables : ImportTableBreaks(r, t)
        BY <3>4, GotoIs DEF ImportAdd, ImportTableBreaks, Change, Pcs
      <3> QED BY <1>6, <3>1, <3>2, <3>3, <3>4
    <2> QED BY <1>5, <2>1, <2>2, EndMoves DEF PushPcs
  <1>7. CASE ImportCheckHead(r)
    <2> DEFINE h == head[p.branch]
               q == [p EXCEPT !.pc = "checkout", !.base = h]
    <2>1. p.op = "push" /\ p.pc = "head" /\ p.branch \in Branches
      BY <1>0, <1>7 DEF ImportCheckHead, At, RecordOK
    <2>2. CASE Change(r, Idle)
      BY <2>1, <2>2, EndMoves DEF Change
    <2>3. CASE Change(r, q)
      <3>1. reqs'[r] = q /\ \A x \in Reqs : x # r => reqs'[x] = reqs[x]
        BY <1>0, <2>3 DEF Change
      <3> HIDE DEF h
      <3>2. /\ q.op = p.op /\ q.branch = p.branch /\ q.from = p.from /\ q.alone = p.alone
            /\ q.left = p.left /\ q.made = p.made /\ q.base = h /\ q.plan = p.plan /\ q.pc = "checkout"
        BY <1>0 DEF Records
      <3> HIDE DEF q
      <3>3. Moves(p, q)
        BY <2>1, <3>2 DEF Moves, PushPcs, h
      <3> QED BY <2>1, <3>1, <3>3 DEF HandlerMoves
    <2> QED BY <1>7, <2>2, <2>3 DEF ImportCheckHead, BranchHead
  <1>8. ASSUME NEW t \in Tables, ImportTable(r, t) PROVE HandlerMoves(r)
    <2> DEFINE pc == IF p.todo = {t} THEN "add" ELSE "import"
               q == [p EXCEPT !.todo = @ \ {t}, !.pc = pc]
    <2>1. p.op = "push" /\ p.pc = "import" /\ Change(r, q)
      BY <1>8 DEF ImportTable, At
    <2>2. pc \in {"add", "import"}
      OBVIOUS
    <2> HIDE DEF pc
    <2>3. reqs'[r] = q /\ \A x \in Reqs : x # r => reqs'[x] = reqs[x]
      BY <1>0, <2>1 DEF Change
    <2>4. /\ q.op = p.op /\ q.branch = p.branch /\ q.from = p.from /\ q.alone = p.alone
          /\ q.left = p.left /\ q.made = p.made /\ q.base = p.base /\ q.plan = p.plan /\ q.pc = pc
      BY <1>0 DEF Records
    <2> HIDE DEF q
    <2>5. Moves(p, q)
      BY <2>1, <2>2, <2>4 DEF Moves, PushPcs
    <2> QED BY <2>1, <2>3, <2>5 DEF HandlerMoves
  <1>9. CASE ImportCommit(r)
    <2> DEFINE m == Append(p.made, Len(commits) + 1)
               q == [p EXCEPT !.pc = "hash", !.made = m]
    <2>1. p.op = "push" /\ p.pc = "commit"
      BY <1>9 DEF ImportCommit, At
    <2>2. CASE Change(r, Idle)
      BY <2>1, <2>2, EndMoves DEF Change
    <2>3. CASE RunCommit /\ Change(r, q)
      <3>1. reqs'[r] = q /\ \A x \in Reqs : x # r => reqs'[x] = reqs[x]
        BY <1>0, <2>3 DEF Change
      <3> HIDE DEF m
      <3>2. /\ q.op = p.op /\ q.branch = p.branch /\ q.from = p.from /\ q.alone = p.alone
            /\ q.left = p.left /\ q.made = m /\ q.base = p.base /\ q.plan = p.plan /\ q.pc = "hash"
        BY <1>0 DEF Records
      <3> HIDE DEF q
      <3>3. Moves(p, q)
        BY <2>1, <2>3, <3>2 DEF Moves, PushPcs, m
      <3> QED BY <2>1, <3>1, <3>3 DEF HandlerMoves
    <2> QED BY <1>9, <2>2, <2>3 DEF ImportCommit
  <1>10. CASE ImportReadHash(r)
    <2> DEFINE n == p.left - 1
               ts == p.tables
               q == [p EXCEPT !.pc = "checkout", !.left = n, !.todo = ts]
    <2>1. p.op = "push" /\ p.pc = "hash"
      BY <1>10 DEF ImportReadHash, At
    <2>2. CASE Change(r, Idle)
      BY <2>1, <2>2, EndMoves DEF Change
    <2>3. CASE p.left # 1 /\ Change(r, q)
      <3>1. reqs'[r] = q /\ \A x \in Reqs : x # r => reqs'[x] = reqs[x]
        BY <1>0, <2>3 DEF Change
      <3> HIDE DEF n, ts
      <3>2. /\ q.op = p.op /\ q.branch = p.branch /\ q.from = p.from /\ q.alone = p.alone
            /\ q.left = n /\ q.made = p.made /\ q.base = p.base /\ q.plan = p.plan /\ q.pc = "checkout"
        BY <1>0 DEF Records
      <3> HIDE DEF q
      <3>3. Moves(p, q)
        BY <2>1, <2>3, <3>2 DEF Moves, PushPcs, n
      <3> QED BY <2>1, <3>1, <3>3 DEF HandlerMoves
    <2> QED BY <1>10, <2>2, <2>3 DEF ImportReadHash
  <1>11. CASE ReadStoredPreference(r)
    <2> DEFINE q == [p EXCEPT !.pc = "plan", !.tables = pref]
    <2>1. p.op = "record" /\ p.pc = "prefs" /\ Change(r, q)
      BY <1>11 DEF ReadStoredPreference, At
    <2>2. reqs'[r] = q /\ \A x \in Reqs : x # r => reqs'[x] = reqs[x]
      BY <1>0, <2>1 DEF Change
    <2>3. /\ q.op = p.op /\ q.branch = p.branch /\ q.from = p.from /\ q.alone = p.alone
          /\ q.left = p.left /\ q.made = p.made /\ q.base = p.base /\ q.plan = p.plan /\ q.pc = "plan"
      BY <1>0 DEF Records
    <2> HIDE DEF q
    <2>4. Moves(p, q)
      BY <2>1, <2>3 DEF Moves
    <2> QED BY <2>1, <2>2, <2>4 DEF HandlerMoves
  <1>12. ASSUME NEW edges \in load.catalogs \cup {{}}, ReadEdges(r, edges) PROVE HandlerMoves(r)
    <2> DEFINE plan == BuildPlan(p.tables, edges)
               q == [p EXCEPT !.plan = plan, !.pc = "planned"]
    <2>1. p.pc = "plan" /\ Change(r, q)
      BY <1>12 DEF ReadEdges
    <2>2. reqs'[r] = q /\ \A x \in Reqs : x # r => reqs'[x] = reqs[x]
      BY <1>0, <2>1 DEF Change
    <2> HIDE DEF plan
    <2>3. /\ q.op = p.op /\ q.branch = p.branch /\ q.from = p.from /\ q.alone = p.alone
          /\ q.left = p.left /\ q.made = p.made /\ q.base = p.base /\ q.pc = "planned"
      BY <1>0 DEF Records
    <2> HIDE DEF q
    <2>4. Moves(p, q)
      BY <2>1, <2>3 DEF Moves
    <2> QED BY <2>1, <2>2, <2>4 DEF HandlerMoves
  <1>13. CASE AnswerPreview(r) \/ StorePreference(r) \/ RecordReadHash(r)
    BY <1>13, EndMoves DEF AnswerPreview, StorePreference, RecordReadHash, Change, At
  <1>14. CASE ValidatePushOptions(r) \/ RecordInsert(r) \/ RecordAdd(r) \/ RecordCommit(r)
    <2>1. p.op = "record" /\ p.pc # "idle"
      BY <1>14 DEF ValidatePushOptions, RecordInsert, RecordAdd, RecordCommit, At
    <2>2. CASE Change(r, Idle)
      BY <2>1, <2>2, EndMoves DEF Change
    <2>3. CASE ValidatePushOptions(r) /\ NothingExcluded(p.plan) /\ Goto(r, "insert")
      BY <2>1, <2>3, GotoIs, GotoMoves DEF Pcs
    <2>4. CASE p.pc = "insert" /\ Goto(r, "add")
      BY <2>1, <2>4, GotoIs, GotoMoves DEF Pcs
    <2>5. CASE p.pc = "add" /\ Goto(r, "commit")
      BY <2>1, <2>5, GotoIs, GotoMoves DEF Pcs
    <2>6. CASE p.pc = "commit" /\ Goto(r, "hash")
      BY <2>1, <2>6, GotoIs, GotoMoves DEF Pcs
    <2> QED BY <1>14, <2>2, <2>3, <2>4, <2>5, <2>6
            DEF ValidatePushOptions, RecordInsert, RecordAdd, RecordCommit, At
  <1>15. CASE PullReadHead(r)
    <2> DEFINE h == head[p.branch]
               q == [p EXCEPT !.pc = "stream", !.base = h]
    <2>1. p.op = "pull" /\ p.pc = "head" /\ p.branch \in Branches
      BY <1>0, <1>15 DEF PullReadHead, At, RecordOK
    <2>2. CASE Change(r, Idle)
      BY <2>1, <2>2, EndMoves DEF Change
    <2>3. CASE Exists(p.branch) /\ Change(r, q)
      <3>1. reqs'[r] = q /\ \A x \in Reqs : x # r => reqs'[x] = reqs[x]
        BY <1>0, <2>3 DEF Change
      <3> HIDE DEF h
      <3>2. /\ q.op = p.op /\ q.branch = p.branch /\ q.from = p.from /\ q.alone = p.alone
            /\ q.left = p.left /\ q.made = p.made /\ q.base = h /\ q.plan = p.plan /\ q.pc = "stream"
        BY <1>0 DEF Records
      <3> HIDE DEF q
      <3>3. Moves(p, q)
        BY <2>1, <2>3, <3>2 DEF Moves, h
      <3> QED BY <2>1, <3>1, <3>3 DEF HandlerMoves
    <2> QED BY <1>15, <2>2, <2>3 DEF PullReadHead, BranchHead
  <1> QED BY <1>1, <1>2, <1>3, <1>4, <1>6, <1>7, <1>8, <1>9, <1>10, <1>11, <1>12, <1>13, <1>14, <1>15
          DEF Handle

\* A request as it is received.
New(q) ==
    /\ q.made = <<>> /\ q.base = -1 /\ q.plan = NoPlan
    /\ q.pc \in {"lookup", "checkout", "head", "prefs", "plan"} /\ q.left \in Nat
    /\ q.op = "push" => q.pc \in {"checkout", "head"} /\ q.left >= 1

\* A request is received: the ones under way are no longer alone.
ArrivalMoves(r) ==
    /\ reqs[r].pc = "idle" /\ New(reqs'[r])
    /\ reqs'[r].alone => \A y \in Reqs : reqs[y].pc = "idle"
    /\ \A x \in Reqs : x # r =>
          \/ reqs[x].pc = "idle" /\ reqs'[x] = reqs[x]
          \/ reqs[x].pc # "idle" /\ reqs'[x] = [reqs[x] EXCEPT !.alone = FALSE]
    /\ received < load.requests /\ received' = received + 1 /\ faults' = faults
    /\ load' = load /\ RepoUntouched

\* Receive puts a new request in place of an idle one.
LEMMA ReceiveMoves ==
    ASSUME RepoInv, NEW r \in Reqs, NEW q \in Records, New(q), Receive(r, q)
    PROVE  ArrivalMoves(r)
  <1> DEFINE alone == \A y \in Reqs : ~Active(y)
             n == [q EXCEPT !.alone = alone]
  <1>1. alone \in BOOLEAN
    BY Zenon
  <1>2. reqs'[r] = n
    BY DEF Receive
  <1>3. ASSUME NEW x \in Reqs, x # r
        PROVE  \/ reqs[x].pc = "idle" /\ reqs'[x] = reqs[x]
               \/ reqs[x].pc # "idle" /\ reqs'[x] = [reqs[x] EXCEPT !.alone = FALSE]
    BY <1>3 DEF Receive, Active
  <1>4. alone => \A y \in Reqs : reqs[y].pc = "idle"
    BY DEF Active
  <1> HIDE DEF alone
  <1>5. /\ n.made = q.made /\ n.base = q.base /\ n.plan = q.plan /\ n.pc = q.pc
        /\ n.left = q.left /\ n.op = q.op /\ n.alone = alone
    BY <1>1 DEF Records
  <1> HIDE DEF n
  <1>6. New(n) /\ (n.alone => \A y \in Reqs : reqs[y].pc = "idle")
    BY <1>4, <1>5 DEF New
  <1> QED BY <1>2, <1>3, <1>6 DEF ArrivalMoves, Receive, Active, RestUntouched

\* Every request is received so.
LEMMA ArrivalMove == ASSUME RepoInv, NEW r \in Reqs, Arrival(r) PROVE ArrivalMoves(r)
  <1>1. /\ load.lists \subseteq SUBSET Tables /\ load.hashes \subseteq Nat
        /\ load.batch \in Nat
    BY LoadOK, VersioningAssumptions DEF RepoInv, RequestInv
  <1>2. Idle \in Records
    BY IdleOK
  <1>3. Idle.made = <<>> /\ Idle.base = -1 /\ Idle.plan = NoPlan /\ Idle.left = 0
    BY DEF Idle
  <1>4. ASSUME NEW q \in Records, Receive(r, q), q.made = Idle.made, q.base = Idle.base,
               q.plan = Idle.plan, q.pc \in {"lookup", "checkout", "head", "prefs", "plan"},
               q.left \in Nat, q.op = "push" => q.pc \in {"checkout", "head"} /\ q.left >= 1
        PROVE  ArrivalMoves(r)
    <2>1. New(q)
      BY <1>3, <1>4 DEF New
    <2> QED BY <1>4, <2>1, ReceiveMoves
  <1>5. ASSUME NEW b \in Branches, NEW op \in {"create", "checkout", "delete"}, BranchRequest(r, op, b)
        PROVE  ArrivalMoves(r)
    <2> DEFINE q == [Idle EXCEPT !.op = op, !.pc = "lookup", !.branch = b]
    <2>1. /\ q \in Records /\ q.pc = "lookup" /\ q.op = op /\ q.left = Idle.left
          /\ q.made = Idle.made /\ q.base = Idle.base /\ q.plan = Idle.plan
      BY <1>2 DEF Records, Ops, Pcs
    <2>2. Receive(r, q)
      BY <1>5 DEF BranchRequest
    <2> HIDE DEF q
    <2> QED BY <1>3, <1>4, <2>1, <2>2
  <1>6. ASSUME NEW b \in Branches, NEW t \in Branches \cup {Nil}, MergeRequest(r, b, t)
        PROVE  ArrivalMoves(r)
    <2> DEFINE q == [Idle EXCEPT !.op = "merge", !.pc = "lookup", !.branch = t, !.other = b]
    <2>1. /\ q \in Records /\ q.pc = "lookup" /\ q.op = "merge" /\ q.left = Idle.left
          /\ q.made = Idle.made /\ q.base = Idle.base /\ q.plan = Idle.plan
      BY <1>2 DEF Records, Ops, Pcs
    <2>2. Receive(r, q)
      BY <1>6 DEF MergeRequest
    <2> HIDE DEF q
    <2> QED BY <1>3, <1>4, <2>1, <2>2
  <1>7. ASSUME NEW b \in Branches, NEW from \in load.hashes, NEW ts \in load.lists \ {{}},
               NEW n \in 1..load.batch, PushRequest(r, b, from, ts, n)
        PROVE  ArrivalMoves(r)
    <2> DEFINE pc == IF from = 0 THEN "checkout" ELSE "head"
               q == [Idle EXCEPT !.op = "push", !.pc = pc, !.branch = b, !.from = from,
                                 !.tables = ts, !.todo = ts, !.left = n]
    <2>1. pc \in {"checkout", "head"}
      OBVIOUS
    <2>2. from \in Nat /\ ts \in SUBSET Tables /\ n \in Nat /\ n >= 1
      BY <1>1
    <2>3. Receive(r, q)
      BY <1>7 DEF PushRequest
    <2> HIDE DEF pc
    <2>4. pc \in Pcs /\ n \in Int /\ "push" \in Ops
      BY <2>1, <2>2 DEF Pcs, Ops
    <2>5. q \in Records
      BY <1>2, <2>2, <2>4 DEF Records
    <2>6. q.pc = pc /\ q.op = "push" /\ q.left = n
      BY <1>2 DEF Records
    <2>7. q.made = Idle.made /\ q.base = Idle.base /\ q.plan = Idle.plan
      BY <1>2 DEF Records
    <2> HIDE DEF q
    <2> QED BY <1>4, <2>1, <2>2, <2>3, <2>5, <2>6, <2>7
  <1>8. ASSUME NEW ts \in load.lists, RecordRequest(r, ts) PROVE ArrivalMoves(r)
    <2> DEFINE pc == IF ts = {} THEN "prefs" ELSE "plan"
               q == [Idle EXCEPT !.op = "record", !.pc = pc, !.tables = ts]
    <2>1. pc \in {"prefs", "plan"} /\ ts \in SUBSET Tables
      BY <1>1
    <2>2. Receive(r, q)
      BY <1>8 DEF RecordRequest
    <2> HIDE DEF pc
    <2>3. /\ q \in Records /\ q.pc = pc /\ q.op = "record" /\ q.left = Idle.left
          /\ q.made = Idle.made /\ q.base = Idle.base /\ q.plan = Idle.plan
      BY <1>2, <2>1 DEF Records, Ops, Pcs
    <2> HIDE DEF q
    <2> QED BY <1>3, <1>4, <2>1, <2>2, <2>3
  <1>9. ASSUME NEW op \in {"savePrefs", "preview"}, NEW ts \in load.lists, PreferenceRequest(r, op, ts)
        PROVE  ArrivalMoves(r)
    <2> DEFINE q == [Idle EXCEPT !.op = op, !.pc = "plan", !.tables = ts]
    <2>1. ts \in SUBSET Tables
      BY <1>1
    <2>2. /\ q \in Records /\ q.pc = "plan" /\ q.op = op /\ q.left = Idle.left
          /\ q.made = Idle.made /\ q.base = Idle.base /\ q.plan = Idle.plan
      BY <1>2, <2>1 DEF Records, Ops, Pcs
    <2>3. Receive(r, q)
      BY <1>9 DEF PreferenceRequest
    <2> HIDE DEF q
    <2> QED BY <1>3, <1>4, <2>2, <2>3
  <1>10. ASSUME NEW b \in Branches, NEW from \in load.hashes, PullRequest(r, b, from)
        PROVE  ArrivalMoves(r)
    <2> DEFINE q == [Idle EXCEPT !.op = "pull", !.pc = "head", !.branch = b, !.from = from]
    <2>1. from \in Nat
      BY <1>1
    <2>2. /\ q \in Records /\ q.pc = "head" /\ q.op = "pull" /\ q.left = Idle.left
          /\ q.made = Idle.made /\ q.base = Idle.base /\ q.plan = Idle.plan
      BY <1>2, <2>1 DEF Records, Ops, Pcs
    <2>3. Receive(r, q)
      BY <1>10 DEF PullRequest
    <2> HIDE DEF q
    <2> QED BY <1>3, <1>4, <2>2, <2>3
  <1> QED BY <1>5, <1>6, <1>7, <1>8, <1>9, <1>10 DEF Arrival

\* The counters of a step that receives nothing.
LEMMA HandleCounts ==
    ASSUME NEW r \in Reqs, Handle(r)
    PROVE  /\ received' = received /\ load' = load
           /\ faults' = faults \/ (faults < MaxFaults /\ faults' = faults + 1)
  <1>1. CASE EnterMutex(r) \/ RunAction(r) \/ CommandFails(r)
    BY <1>1 DEF EnterMutex, RunAction, CommandFails, RestUntouched, Goto, Change
  <1>2. CASE CreateBranch(r) \/ CreateReadCurrent(r) \/ CheckoutBranch(r)
             \/ DeleteReadCurrent(r) \/ DeleteBranch(r)
    BY <1>2 DEF CreateBranch, CreateReadCurrent, CheckoutBranch, DeleteReadCurrent,
                DeleteBranch, RestUntouched, Goto, Change, Answer
  <1>3. CASE MergeReadCurrent(r) \/ MergeCheckout(r) \/ Merge(r) \/ MergeReadHash(r)
             \/ ReadConflicts(r) \/ MergeAbort(r)
    BY <1>3 DEF MergeReadCurrent, MergeCheckout, Merge, MergeReadHash, ReadConflicts,
                MergeAbort, RestUntouched, Goto, Change, Answer
  <1>4. CASE \/ ImportCheckHead(r) \/ ImportHeadLookupFails(r)
             \/ ImportCheckout(r) \/ ImportCheckoutNew(r)
             \/ \E t \in Tables : ImportTable(r, t) \/ ImportTableBreaks(r, t)
             \/ ImportAdd(r) \/ ImportCommit(r) \/ ImportReadHash(r)
    BY <1>4 DEF ImportCheckHead, ImportHeadLookupFails, ImportCheckout, ImportCheckoutNew,
                ImportTable, ImportTableBreaks, ImportAdd, ImportCommit, ImportReadHash,
                RestUntouched, Goto, Change
  <1>5. CASE \/ ReadStoredPreference(r)
             \/ \E edges \in load.catalogs \cup {{}} : ReadEdges(r, edges)
             \/ AnswerPreview(r) \/ StorePreference(r) \/ ValidatePushOptions(r)
             \/ RecordInsert(r) \/ RecordAdd(r) \/ RecordCommit(r) \/ RecordReadHash(r)
             \/ PullReadHead(r)
    BY <1>5 DEF ReadStoredPreference, ReadEdges, AnswerPreview, StorePreference,
                ValidatePushOptions, RecordInsert, RecordAdd, RecordCommit, RecordReadHash,
                PullReadHead, RestUntouched, Goto, Change
  <1> QED BY <1>1, <1>2, <1>3, <1>4, <1>5 DEF Handle

\* The generator of a pull goes on, and its request holds what it held.
Streams(p, q) ==
    /\ p.op = "pull" /\ p.pc \in StreamPcs /\ q.pc \in ExportPcs
    /\ q.op = p.op /\ q.branch = p.branch /\ q.from = p.from /\ q.alone = p.alone
    /\ q.left = p.left /\ q.made = p.made /\ q.base = p.base /\ q.plan = p.plan

\* Every step of the generator ends the pull or goes on with it.
LEMMA ExportMoves ==
    ASSUME RepoInv, NEW r \in Reqs, Export(r)
    PROVE  /\ \A x \in Reqs : x # r => reqs'[x] = reqs[x]
           /\ reqs'[r] = Idle \/ Streams(reqs[r], reqs'[r])
           /\ received' = received /\ load' = load
           /\ faults' = faults \/ (faults < MaxFaults /\ faults' = faults + 1)
  <1>1. reqs[r] \in Records /\ reqs \in [Reqs -> Records]
    BY DEF RepoInv, RequestInv
  <1>2. load' = load /\ reqs[r].op = "pull" /\ reqs[r].pc \in StreamPcs
    BY ExportShape DEF ReadsOnly, RestUntouched
  <1>3. CASE Change(r, Idle)
    BY <1>1, <1>2, <1>3 DEF Change
  <1>4. ASSUME NEW pc \in ExportPcs, MovedTo(r, pc)
        PROVE  Streams(reqs[r], reqs'[r]) /\ \A x \in Reqs : x # r => reqs'[x] = reqs[x]
    <2> DEFINE p == reqs[r]
               q == [reqs[r] EXCEPT !.pc = pc]
    <2>1. /\ q.op = p.op /\ q.branch = p.branch /\ q.from = p.from /\ q.alone = p.alone
          /\ q.left = p.left /\ q.made = p.made /\ q.base = p.base /\ q.plan = p.plan /\ q.pc = pc
      BY <1>1 DEF Records
    <2>2. reqs'[r] = q /\ \A x \in Reqs : x # r => reqs'[x] = reqs[x]
      BY <1>1, <1>4 DEF MovedTo
    <2> HIDE DEF q
    <2> QED BY <1>2, <2>1, <2>2 DEF Streams
  <1> QED BY <1>2, <1>3, <1>4, ExportShape

(***************************************************************************)
(* What a request holds is what the code can hold.                         *)
(***************************************************************************)
\* The counters and the plan of a request.
ReqOK(q) ==
    /\ q.left \in Nat /\ q.made \in Seq(1..MaxCommits) /\ q.base \in -1..MaxCommits
    /\ q.op = "push" => q.plan = NoPlan /\ q.left >= 1 /\ q.pc \in PushPcs
    /\ q.pc = "delete" => q.branch # Main
    /\ q.pc = "idle" => ~q.alone
    /\ q.pc \in {"insert", "add", "commit", "hash"} => NothingExcluded(q.plan)

\* A pull was told a head that its branch has kept, unless it was deleted.
PullOK(q) ==
    q.op = "pull" /\ q.pc \in StreamPcs /\ q.branch \notin deleted =>
        /\ q.base \in 1..Len(commits)
        /\ commits[q.base].ancestors \subseteq History(q.branch)

\* A request that is alone has the server to itself.
AloneInv == \A r, x \in Reqs : reqs[r].alone /\ x # r => reqs[x].pc = "idle"

\* The inductive invariant of what the requests hold.
ReqInv ==
    /\ \A r \in Reqs : ReqOK(reqs[r]) /\ PullOK(reqs[r])
    /\ AloneInv
    /\ Main \notin deleted /\ Exists(Main)
    /\ merging = {} \/ \E w : merging = {w}
    /\ received \in 0..load.requests /\ faults \in 0..MaxFaults

\* Commits are within their bound, because every commit is its own ancestor.
LEMMA CommitsBounded == ASSUME DoltInv PROVE Len(commits) \in 1..MaxCommits
  <1>1. head[current] \in 1..Len(commits) /\ Len(commits) \in Nat
    BY HistoryOfBranch DEF DoltInv, WellFormed
  <1>2. Len(commits) \in 1..Len(commits)
    BY <1>1
  <1>3. commits[Len(commits)] \in Commits
    BY <1>1, <1>2 DEF DoltInv, WellFormed
  <1>4. Len(commits) \in commits[Len(commits)].ancestors
    BY <1>2 DEF DoltInv, WellFormed
  <1> QED BY <1>3, <1>4 DEF Commits

\* A request that is answered holds nothing.
LEMMA IdleReqOK == ReqOK(Idle) /\ Idle.op = "none" /\ ~Idle.alone
  <1>1. /\ Idle.left = 0 /\ Idle.made = <<>> /\ Idle.base = -1 /\ Idle.op = "none"
        /\ Idle.pc = "idle" /\ Idle.alone = FALSE
    BY DEF Idle
  <1>2. -1 \in -1..MaxCommits /\ <<>> \in Seq(1..MaxCommits)
    BY DoltAssumptions
  <1> QED BY <1>1, <1>2 DEF ReqOK

\* No plan leaves nothing out.
LEMMA NoPlanOK == NothingExcluded(NoPlan)
  <1>1. NoPlan.requested = {}
    BY DEF NoPlan, BuildPlan
  <1> QED BY <1>1 DEF NothingExcluded

\* A request that moves on keeps its counters and its plan sound.
LEMMA MovesReqOK ==
    ASSUME DoltInv, NEW p, NEW q, ReqOK(p), Moves(p, q) PROVE ReqOK(q)
  <1>1. Len(commits) \in 1..MaxCommits
    BY CommitsBounded
  <1>2. q.left \in Nat /\ (q.op = "push" => q.left >= 1)
    BY DEF ReqOK, Moves
  <1>3. q.made \in Seq(1..MaxCommits)
    <2>1. CASE q.made = p.made
      BY <2>1 DEF ReqOK
    <2>2. CASE RunCommit /\ q.made = Append(p.made, Len(commits) + 1)
      <3>1. Len(commits) + 1 \in 1..MaxCommits
        BY <2>2, AdvanceAppends DEF RunCommit
      <3> QED BY <2>2, <3>1 DEF ReqOK
    <2> QED BY <2>1, <2>2 DEF Moves
  <1>4. q.base \in -1..MaxCommits
    <2>1. \A b \in Branches : head[b] \in 0..Len(commits)
      BY DEF DoltInv, WellFormed
    <2>2. q.base = p.base \/ q.base \in 0..Len(commits)
      BY <2>1 DEF Moves
    <2> QED BY <1>1, <2>2, DoltAssumptions DEF ReqOK
  <1>5. q.op = "push" => q.plan = NoPlan /\ q.pc \in PushPcs
    BY DEF ReqOK, Moves, PushPcs
  <1>6. q.pc \in {"insert", "add", "commit", "hash"} => NothingExcluded(q.plan)
    BY <1>5, NoPlanOK DEF ReqOK, Moves
  <1> QED BY <1>2, <1>3, <1>4, <1>5, <1>6 DEF ReqOK, Moves

\* A request as it is received is sound.
LEMMA NewReqOK == ASSUME NEW q, New(q) PROVE ReqOK(q)
  <1>1. -1 \in -1..MaxCommits /\ <<>> \in Seq(1..MaxCommits)
    BY DoltAssumptions
  <1> QED BY <1>1 DEF ReqOK, New, PushPcs

\* The repository's own part of the invariant.
LEMMA MainStays ==
    ASSUME RepoInv, ReqInv, OneCommand, GraphGrows
    PROVE  /\ Main \notin deleted' /\ Exists(Main)'
           /\ merging' = {} \/ \E w : merging' = {w}
  <1>1. Main \notin deleted'
    BY DEF ReqInv, ReqOK, OneCommand
  <1>2. head[Main] \in History(Main) /\ Main \in Branches
    BY HistoryOfBranch, DoltAssumptions DEF RepoInv, ReqInv
  <1>3. Exists(Main)'
    <2>1. head[Main] \in History(Main)'
      BY <1>1, <1>2 DEF GraphGrows
    <2> QED BY <2>1 DEF History
  <1>4. merging' = merging \/ merging' = {} \/ merging' = {working}
    BY DEF OneCommand, RepoUntouched, doltVars, RunCommit, RunMergeAbort, RunCreateBranch,
           RunCheckout, RunCheckoutNew, MergeFastForward, MergeCommit, MergeStops,
           RunDeleteBranch, WriteTable, RunAdd
  <1> QED BY <1>1, <1>3, <1>4 DEF ReqInv

\* A pull that goes on keeps the head it was told.
LEMMA PullStays ==
    ASSUME RepoInv, GraphGrows, NEW r \in Reqs, PullOK(reqs[r]),
           reqs'[r].op = reqs[r].op, reqs'[r].pc \in StreamPcs => reqs[r].pc \in StreamPcs,
           reqs'[r].branch = reqs[r].branch, reqs'[r].base = reqs[r].base
    PROVE  PullOK(reqs[r])'
  <1> DEFINE p == reqs[r]
  <1>1. CASE ~(p.op = "pull" /\ p.pc \in StreamPcs /\ p.branch \notin deleted')
    BY <1>1 DEF PullOK
  <1>2. CASE p.op = "pull" /\ p.pc \in StreamPcs /\ p.branch \notin deleted'
    <2>1. p.branch \in Branches
      BY <1>2 DEF RepoInv, RequestInv, RecordOK
    <2>2. p.base \in 1..Len(commits) /\ commits[p.base].ancestors \subseteq History(p.branch)
      BY <1>2 DEF PullOK, GraphGrows
    <2>3. History(p.branch) \subseteq History(p.branch)' /\ commits'[p.base] = commits[p.base]
      BY <1>2, <2>1, <2>2 DEF GraphGrows
    <2> QED BY <2>2, <2>3 DEF PullOK, GraphGrows
  <1> QED BY <1>1, <1>2

\* A step of one handler, whose request stays sound.
LEMMA ServedReqInv ==
    ASSUME RepoInv, ReqInv, OneCommand, GraphGrows, NEW r \in Reqs,
           \A x \in Reqs : x # r => reqs'[x] = reqs[x],
           reqs[r].pc # "idle",
           ReqOK(reqs'[r]), PullOK(reqs[r])', reqs'[r].alone => reqs[r].alone,
           received' = received, load' = load,
           faults' = faults \/ (faults < MaxFaults /\ faults' = faults + 1)
    PROVE  ReqInv'
  <1>1. ASSUME NEW x \in Reqs PROVE ReqOK(reqs'[x]) /\ PullOK(reqs[x])'
    <2>1. CASE x = r
      BY <2>1
    <2>2. CASE x # r
      <3>1. reqs'[x] = reqs[x]
        BY <2>2
      <3>2. PullOK(reqs[x])'
        BY <3>1, PullStays DEF ReqInv
      <3> QED BY <3>1, <3>2 DEF ReqInv
    <2> QED BY <2>1, <2>2
  <1>2. AloneInv'
    <2> SUFFICES ASSUME NEW y \in Reqs, NEW x \in Reqs, reqs'[y].alone, x # y
                 PROVE  reqs'[x].pc = "idle"
      BY DEF AloneInv
    <2>1. CASE y = r
      BY <2>1 DEF ReqInv, AloneInv
    <2>2. CASE y # r
      BY <2>2 DEF ReqInv, AloneInv
    <2> QED BY <2>1, <2>2
  <1>3. received' \in 0..load'.requests /\ faults' \in 0..MaxFaults
    BY VersioningAssumptions DEF ReqInv
  <1>4. \A x \in Reqs : ReqOK(reqs[x])'
    BY <1>1 DEF ReqOK
  <1> QED BY <1>1, <1>2, <1>3, <1>4, MainStays DEF ReqInv

\* A step of a handler.
LEMMA HandlerReqInv ==
    ASSUME RepoInv, ReqInv, RepoInv', OneCommand, GraphGrows, NEW r \in Reqs, HandlerMoves(r),
           received' = received, load' = load,
           faults' = faults \/ (faults < MaxFaults /\ faults' = faults + 1)
    PROVE  ReqInv'
  <1>1. reqs'[r] = Idle \/ Moves(reqs[r], reqs'[r])
    BY DEF HandlerMoves
  <1>2. DoltInv /\ DoltInv'
    BY DEF RepoInv
  <1>3. ReqOK(reqs'[r])
    BY <1>1, <1>2, IdleReqOK, MovesReqOK DEF ReqInv
  <1>4. PullOK(reqs[r])'
    <2>1. CASE reqs'[r] = Idle
      BY <2>1, IdleReqOK DEF PullOK
    <2>2. CASE Moves(reqs[r], reqs'[r]) /\ reqs'[r].pc # "stream"
      BY <2>2 DEF PullOK, Moves, StreamPcs, ExportPcs
    <2>3. CASE Moves(reqs[r], reqs'[r]) /\ reqs'[r].pc = "stream"
      <3>1. PICK b \in Branches :
                Exists(b) /\ reqs'[r].base = head[b] /\ reqs'[r].branch = b
        BY <2>3 DEF Moves
      <3>2. head[b] \in 1..Len(commits) /\ History(b) = commits[head[b]].ancestors
        BY <1>2, <3>1, HistoryOfBranch
      <3>3. /\ head[b] \in 1..Len(commits') /\ commits'[head[b]] = commits[head[b]]
            /\ b \notin deleted' => History(b) \subseteq History(b)'
        <4>1. Len(commits) \in Nat /\ Len(commits') \in Nat
          BY <1>2 DEF DoltInv, WellFormed
        <4> QED BY <3>1, <3>2, <4>1 DEF GraphGrows
      <3> QED BY <3>1, <3>2, <3>3 DEF PullOK
    <2> QED BY <1>1, <2>1, <2>2, <2>3
  <1>5. reqs'[r].alone => reqs[r].alone
    BY <1>1, IdleReqOK DEF Moves
  <1>6. reqs[r].pc # "idle" /\ \A x \in Reqs : x # r => reqs'[x] = reqs[x]
    BY DEF HandlerMoves
  <1> QED BY <1>3, <1>4, <1>5, <1>6, ServedReqInv

\* A step of the generator of a pull.
LEMMA ExportReqInv ==
    ASSUME RepoInv, ReqInv, OneCommand, GraphGrows, NEW r \in Reqs, Export(r)
    PROVE  ReqInv'
  <1>1. /\ \A x \in Reqs : x # r => reqs'[x] = reqs[x]
        /\ reqs'[r] = Idle \/ Streams(reqs[r], reqs'[r])
        /\ received' = received /\ load' = load
        /\ faults' = faults \/ (faults < MaxFaults /\ faults' = faults + 1)
        /\ reqs[r].pc # "idle"
    BY ExportMoves, ExportShape DEF StreamPcs, ExportPcs
  <1>2. CASE reqs'[r] = Idle
    <2>1. ReqOK(reqs'[r]) /\ PullOK(reqs[r])' /\ ~reqs'[r].alone
      BY <1>2, IdleReqOK DEF PullOK
    <2> QED BY <1>1, <2>1, ServedReqInv
  <1>3. CASE Streams(reqs[r], reqs'[r])
    <2>1. ReqOK(reqs'[r])
      BY <1>3 DEF Streams, ReqInv, ReqOK, ExportPcs
    <2>2. PullOK(reqs[r])'
      BY <1>3, PullStays DEF Streams, ReqInv
    <2>3. reqs'[r].alone => reqs[r].alone
      BY <1>3 DEF Streams
    <2> QED BY <1>1, <2>1, <2>2, <2>3, ServedReqInv
  <1> QED BY <1>1, <1>2, <1>3

\* A request is received.
LEMMA ArrivalReqInv ==
    ASSUME RepoInv, ReqInv, RepoInv', OneCommand, GraphGrows, NEW r \in Reqs, ArrivalMoves(r)
    PROVE  ReqInv'
  <1>1. reqs[r].pc = "idle" /\ New(reqs'[r])
    BY DEF ArrivalMoves
  <1>2. ASSUME NEW x \in Reqs, x # r, reqs[x].pc # "idle"
        PROVE  /\ reqs'[x].op = reqs[x].op /\ reqs'[x].pc = reqs[x].pc
               /\ reqs'[x].branch = reqs[x].branch /\ reqs'[x].base = reqs[x].base
               /\ reqs'[x].left = reqs[x].left /\ reqs'[x].made = reqs[x].made
               /\ reqs'[x].plan = reqs[x].plan /\ reqs'[x].alone = FALSE
    <2>1. reqs'[x] = [reqs[x] EXCEPT !.alone = FALSE]
      BY <1>2 DEF ArrivalMoves
    <2>2. reqs[x] \in Records
      BY DEF RepoInv, RequestInv
    <2> QED BY <2>1, <2>2 DEF Records
  <1>3. ASSUME NEW x \in Reqs PROVE ReqOK(reqs'[x]) /\ PullOK(reqs[x])'
    <2>1. CASE x = r
      <3>1. ReqOK(reqs'[r])
        BY <1>1, NewReqOK
      <3>2. PullOK(reqs[r])'
        BY <1>1 DEF New, PullOK, StreamPcs, ExportPcs
      <3> QED BY <2>1, <3>1, <3>2
    <2>2. CASE x # r /\ reqs[x].pc = "idle"
      <3>1. reqs'[x] = reqs[x]
        BY <2>2 DEF ArrivalMoves
      <3>2. PullOK(reqs[x])'
        BY <3>1, PullStays DEF ReqInv
      <3> QED BY <3>1, <3>2 DEF ReqInv
    <2>3. CASE x # r /\ reqs[x].pc # "idle"
      <3>1. PullOK(reqs[x])'
        BY <1>2, <2>3, PullStays DEF ReqInv
      <3>2. ReqOK(reqs[x])
        BY DEF ReqInv
      <3>3. ReqOK(reqs'[x])
        BY <1>2, <2>3, <3>2 DEF ReqOK
      <3> QED BY <3>1, <3>3
    <2> QED BY <2>1, <2>2, <2>3
  <1>4. AloneInv'
    <2> SUFFICES ASSUME NEW y \in Reqs, NEW x \in Reqs, reqs'[y].alone, x # y
                 PROVE  reqs'[x].pc = "idle"
      BY DEF AloneInv
    <2>1. y = r
      <3>1. y # r /\ reqs[y].pc = "idle" => ~reqs'[y].alone
        BY DEF ArrivalMoves, ReqInv, ReqOK
      <3> QED BY <1>2, <3>1
    <2> QED BY <2>1 DEF ArrivalMoves
  <1>5. received' \in 0..load'.requests /\ faults' \in 0..MaxFaults
    <2>1. load.requests \in Nat
      BY VersioningAssumptions DEF RepoInv, RequestInv
    <2> QED BY <2>1 DEF ReqInv, ArrivalMoves
  <1>6. \A x \in Reqs : ReqOK(reqs[x])'
    BY <1>3 DEF ReqOK
  <1> QED BY <1>3, <1>4, <1>5, <1>6, MainStays DEF ReqInv

\* Nothing has been received.
LEMMA ReqInvInit == Init => ReqInv
  <1> SUFFICES ASSUME Init PROVE ReqInv
    OBVIOUS
  <1>1. PICK s \in Starts :
            /\ load = s.load /\ head = s.head /\ merging = {} /\ deleted = {}
            /\ reqs = [r \in Reqs |-> Idle] /\ received = 0 /\ faults = 0
    BY DEF Init
  <1>2. ASSUME NEW r \in Reqs PROVE ReqOK(reqs[r]) /\ PullOK(reqs[r]) /\ ~reqs[r].alone
    BY <1>1, IdleReqOK DEF PullOK
  <1>3. Exists(Main) /\ received \in 0..load.requests /\ faults \in 0..MaxFaults
    BY <1>1, VersioningAssumptions DEF Exists
  <1> QED BY <1>1, <1>2, <1>3 DEF ReqInv, AloneInv

\* Every step keeps it.
LEMMA ReqInvStep == RepoInv /\ ReqInv /\ [Next]_vars => ReqInv'
  <1> SUFFICES ASSUME RepoInv, ReqInv, [Next]_vars PROVE ReqInv'
    OBVIOUS
  <1>1. RepoInv' /\ OneCommand /\ GraphGrows
    BY RepoInvStep, StepIsCommand, CommandGrows DEF RepoInv
  <1>2. CASE UNCHANGED vars
    BY <1>2 DEF vars, ReqInv, ReqOK, PullOK, AloneInv, Exists, History
  <1>3. ASSUME NEW r \in Reqs, Arrival(r) PROVE ReqInv'
    BY <1>1, <1>3, ArrivalMove, ArrivalReqInv
  <1>4. ASSUME NEW r \in Reqs, Handle(r) PROVE ReqInv'
    BY <1>1, <1>4, HandleMoves, HandleCounts, HandlerReqInv
  <1>5. ASSUME NEW r \in Reqs, Export(r) PROVE ReqInv'
    BY <1>1, <1>5, ExportReqInv
  <1> QED BY <1>2, <1>3, <1>4, <1>5 DEF Next, Serve

\* It holds for any workload.
LEMMA ReqInvariant == Spec => [](RepoInv /\ ReqInv)
  <1>1. Init => RepoInv /\ ReqInv
    BY RepoInvInit, ReqInvInit
  <1>2. (RepoInv /\ ReqInv) /\ [Next]_vars => (RepoInv /\ ReqInv)'
    BY RepoInvStep, ReqInvStep
  <1> QED BY <1>1, <1>2, PTL DEF Spec

(***************************************************************************)
(* What the generator of a pull has seen to.                               *)
(***************************************************************************)
\* The client of q has commit c, or the generator, which is at x, has yet to
\* look at it, has sent its tables, or is at work on it.
Covered(q, x, c) ==
    \/ q.from \in DOMAIN commits /\ c \in commits[q.from].ancestors
    \/ c \in x.list
    \/ {c} \X commits[c].tables \subseteq x.sent
    \/ q.pc \in {"export", "data"} /\ c = x.commit /\ commits[c].tables \subseteq x.todo \cup x.got

\* The generator lists commits there are, and none is forgotten but when a
\* look-up failed.
ExportOK(q, x) ==
    /\ x \in Exports /\ x.list \subseteq 1..Len(commits)
    /\ q.pc \in {"export", "data"} => x.commit # 0
    /\ q.op = "pull" /\ q.pc \in ExportPcs /\ q.branch \notin deleted /\ ~x.cut =>
          \A c \in commits[q.base].ancestors : Covered(q, x, c)

ExportInv ==
    /\ exports \in [Reqs -> Exports]
    /\ \A r \in Reqs : ExportOK(reqs[r], exports[r])

\* Nothing is listed before the generator starts.
LEMMA NoExportOK ==
    /\ NoExport \in Exports /\ NoExport.list = {} /\ NoExport.sent = {}
    /\ NoExport.todo = {} /\ NoExport.got = {} /\ ~NoExport.cut
  <1>1. 0 \in 0..MaxCommits
    BY DoltAssumptions
  <1>2. {} \in SUBSET (1..MaxCommits) /\ {} \in SUBSET AllTables
        /\ {} \in SUBSET ((1..MaxCommits) \X AllTables) /\ FALSE \in BOOLEAN
    BY Zenon
  <1>3. NoExport \in Exports
    BY <1>1, <1>2, Zenon DEF NoExport, Exports
  <1> QED BY <1>3 DEF NoExport

\* Commits that exist, and their histories, stay what they are.
LEMMA CommitsStay ==
    ASSUME DoltInv, DoltInv', GraphGrows, NEW c \in 1..Len(commits)
    PROVE  /\ c \in 1..Len(commits') /\ commits'[c] = commits[c]
           /\ commits[c].ancestors \subseteq 1..Len(commits)
           /\ commits[c].tables \subseteq AllTables /\ DOMAIN commits = 1..Len(commits)
           /\ DOMAIN commits' = 1..Len(commits') /\ Len(commits) \in Nat /\ Len(commits') \in Nat
  <1>1. commits \in Seq(Commits) /\ commits[c].ancestors \subseteq 1..c
    BY DEF DoltInv, WellFormed
  <1>2. commits' \in Seq(Commits)
    BY DEF DoltInv, WellFormed, Commits, AllTables
  <1>3. Len(commits) \in Nat /\ DOMAIN commits = 1..Len(commits) /\ commits[c] \in Commits
    BY <1>1
  <1>4. Len(commits') \in Nat /\ DOMAIN commits' = 1..Len(commits')
    BY <1>2
  <1>5. commits[c].ancestors \subseteq 1..Len(commits)
    BY <1>1, <1>3
  <1>6. c \in 1..Len(commits') /\ commits'[c] = commits[c]
    BY <1>3, <1>4 DEF GraphGrows
  <1>7. commits[c].tables \subseteq AllTables
    BY <1>3 DEF Commits
  <1> QED BY <1>3, <1>4, <1>5, <1>6, <1>7

\* What was covered stays covered while the generator is where it was.
LEMMA CoveredStays ==
    ASSUME DoltInv, DoltInv', GraphGrows, NEW c \in 1..Len(commits), NEW p, NEW q, NEW x,
           Covered(p, x, c), q.from = p.from, q.pc = p.pc
    PROVE  Covered(q, x, c)'
  <1>1. c \in 1..Len(commits') /\ commits'[c] = commits[c]
    BY CommitsStay
  <1>2. CASE p.from \in DOMAIN commits /\ c \in commits[p.from].ancestors
    <2>1. p.from \in DOMAIN commits' /\ commits'[p.from] = commits[p.from]
      BY <1>2, CommitsStay DEF GraphGrows
    <2> QED BY <1>2, <2>1 DEF Covered
  <1> QED BY <1>1, <1>2 DEF Covered

\* A request whose export is left alone, and that stays where it is or is
\* not a pull that streams.
LEMMA ExportStays ==
    ASSUME RepoInv, ReqInv, RepoInv', GraphGrows, NEW r \in Reqs, NEW q, ExportOK(reqs[r], exports[r]),
           exports'[r] = exports[r], reqs'[r] = q,
           \/ q.pc \notin ExportPcs
           \/ /\ q.op = reqs[r].op /\ q.pc = reqs[r].pc /\ q.branch = reqs[r].branch
              /\ q.from = reqs[r].from /\ q.base = reqs[r].base
    PROVE  ExportOK(reqs[r], exports[r])'
  <1> DEFINE p == reqs[r]
             x == exports[r]
  <1>1. DoltInv /\ DoltInv' /\ Len(commits) \in Nat /\ Len(commits') \in Nat
    BY DEF RepoInv, DoltInv, WellFormed
  <1>2. x \in Exports /\ x.list \subseteq 1..Len(commits')
    BY <1>1 DEF ExportOK, GraphGrows
  <1>3. q.pc \in {"export", "data"} => x.commit # 0
    BY DEF ExportOK, ExportPcs
  <1>4. ASSUME q.op = "pull", q.pc \in ExportPcs, q.branch \notin deleted', ~x.cut,
               NEW c \in commits'[q.base].ancestors
        PROVE  Covered(q, x, c)'
    <2>1. /\ p.op = "pull" /\ p.pc \in ExportPcs /\ p.branch \notin deleted /\ q.base = p.base
          /\ q.from = p.from /\ q.pc = p.pc
      BY <1>4 DEF GraphGrows
    <2>2. p.base \in 1..Len(commits)
      BY <2>1 DEF ReqInv, PullOK, StreamPcs
    <2>3. c \in commits[p.base].ancestors /\ c \in 1..Len(commits)
      BY <1>1, <1>4, <2>1, <2>2, CommitsStay
    <2>4. Covered(p, x, c)
      BY <1>4, <2>1, <2>3 DEF ExportOK
    <2> QED BY <1>1, <2>1, <2>3, <2>4, CoveredStays
  <1>5. \A c : Covered(q, x, c)' <=> Covered(reqs[r], exports[r], c)'
    BY DEF Covered
  <1> QED BY <1>2, <1>3, <1>4, <1>5 DEF ExportOK

\* A pull may go on as if nothing had happened: what it holds beside its
\* place in the code and its export.
LEMMA ExportGoes ==
    ASSUME RepoInv, ReqInv, RepoInv', GraphGrows, NEW r \in Reqs, ExportOK(reqs[r], exports[r]),
           ReadsOnly, NEW pc \in ExportPcs, MovedTo(r, pc), reqs[r].op = "pull",
           reqs[r].pc \in StreamPcs, NEW x \in Exports, exports'[r] = x,
           x.list \subseteq 1..Len(commits), pc \in {"export", "data"} => x.commit # 0,
           \/ x.cut
           \/ reqs[r].branch \in deleted
           \/ \A c \in commits[reqs[r].base].ancestors :
                 \/ reqs[r].from \in DOMAIN commits /\ c \in commits[reqs[r].from].ancestors
                 \/ c \in x.list
                 \/ {c} \X commits[c].tables \subseteq x.sent
                 \/ /\ pc \in {"export", "data"} /\ c = x.commit
                    /\ commits[c].tables \subseteq x.todo \cup x.got
    PROVE  ExportOK(reqs[r], exports[r])'
  <1>1. /\ reqs'[r].op = "pull" /\ reqs'[r].branch = reqs[r].branch
        /\ reqs'[r].from = reqs[r].from /\ reqs'[r].base = reqs[r].base /\ reqs'[r].pc = pc
    <2>1. reqs[r] \in Records /\ reqs \in [Reqs -> Records]
      BY DEF RepoInv, RequestInv
    <2> QED BY <2>1 DEF MovedTo, Records
  <1>2. commits' = commits /\ deleted' = deleted
    BY DEF ReadsOnly, RepoUntouched, doltVars, RestUntouched
  <1>3. reqs[r].branch \notin deleted /\ ~x.cut =>
            \A c \in commits[reqs[r].base].ancestors : Covered(reqs[r], exports[r], c)'
    BY <1>1, <1>2 DEF Covered
  <1> QED BY <1>1, <1>2, <1>3 DEF ExportOK

\* The oldest commit of the list is looked at, and leaves it.
LEMMA ListShrinks ==
    ASSUME NEW x \in Exports, NEW c \in x.list, NEW ts \in SUBSET AllTables
    PROVE  /\ [x EXCEPT !.list = @ \ {c}, !.commit = c, !.todo = ts, !.got = {}] \in Exports
           /\ [x EXCEPT !.list = @ \ {c}, !.cut = TRUE] \in Exports
           /\ c \in 1..MaxCommits
  <1>1. x.list \ {c} \in SUBSET (1..MaxCommits) /\ c \in 1..MaxCommits
    BY DEF Exports
  <1>2. c \in 0..MaxCommits /\ TRUE \in BOOLEAN /\ {} \in SUBSET AllTables
    BY <1>1
  <1> QED BY <1>1, <1>2 DEF Exports

\* The step of a generator leaves its own export sound.
LEMMA ExportAdvances ==
    ASSUME RepoInv, ReqInv, RepoInv', GraphGrows, NEW r \in Reqs, exports \in [Reqs -> Exports],
           ExportOK(reqs[r], exports[r]), Export(r)
    PROVE  exports' \in [Reqs -> Exports] /\ ExportOK(reqs[r], exports[r])'
  <1> DEFINE p == reqs[r]
             x == exports[r]
             b == reqs[r].branch
  <1>0. /\ x \in Exports /\ x.list \subseteq 1..Len(commits) /\ DoltInv
        /\ p.op = "pull" /\ p.pc \in StreamPcs /\ b \in Branches /\ ReadsOnly
        /\ reqs \in [Reqs -> Records] /\ p \in Records
        /\ \A c \in 1..Len(commits) : commits[c] \in Commits
        /\ commits' = commits /\ deleted' = deleted /\ Len(commits) \in 1..MaxCommits
    <2>1. p.op = "pull" /\ p.pc \in StreamPcs /\ ReadsOnly
      BY ExportShape
    <2>2. p \in Records /\ RecordOK(p) /\ DoltInv /\ reqs \in [Reqs -> Records]
      BY DEF RepoInv, RequestInv
    <2>3. \A c \in 1..Len(commits) : commits[c] \in Commits
      BY <2>2 DEF DoltInv, WellFormed
    <2> QED BY <2>1, <2>2, <2>3, CommitsBounded
            DEF RecordOK, ExportOK, ReadsOnly, RepoUntouched, doltVars, RestUntouched
  <1>1. ASSUME NEW pc \in ExportPcs, Goto(r, pc) \/ Swallow(r, pc) PROVE MovedTo(r, pc)
    BY <1>1, GotoIs DEF Swallow, MovedTo, ExportPcs, Pcs
  <1>2. ASSUME reqs'[r] = Idle, NEW y \in Exports, exports'[r] = y, y.list = {} \/ y = x
        PROVE  ExportOK(reqs[r], exports[r])'
    <2>1. Idle.pc = "idle"
      BY IdleOK
    <2>2. y.list \subseteq 1..Len(commits)
      BY <1>0, <1>2
    <2> QED BY <1>0, <1>2, <2>1, <2>2 DEF ExportOK, ExportPcs
  <1>3. CASE PullList(r) /\ ~Exists(b)
    <2>1. Change(r, Idle) /\ exports' = exports
      BY <1>3 DEF PullList
    <2>2. reqs'[r] = Idle
      BY <1>0, <2>1 DEF Change
    <2> QED BY <1>0, <1>2, <2>1, <2>2
  <1>4. ASSUME NEW list, SetExport(r, [NoExport EXCEPT !.list = list]),
               MovedTo(r, "diff"), p.pc = "stream", Exists(b),
               list \subseteq History(b),
               \A c \in History(b) : c \in list \/ (p.from \in DOMAIN commits /\ c \in commits[p.from].ancestors)
        PROVE  exports' \in [Reqs -> Exports] /\ ExportOK(reqs[r], exports[r])'
    <2> DEFINE y == [NoExport EXCEPT !.list = list]
    <2>1. list \subseteq 1..Len(commits) /\ list \subseteq 1..MaxCommits
      <3>1. head[b] \in 1..Len(commits) /\ History(b) = commits[head[b]].ancestors
        BY <1>0, <1>4, HistoryOfBranch
      <3>2. commits[head[b]].ancestors \subseteq 1..head[b]
        BY <1>0, <3>1 DEF DoltInv, WellFormed
      <3>3. \A c \in 1..head[b] : c \in 1..Len(commits) /\ c \in 1..MaxCommits
        BY <1>0, <3>1, DoltAssumptions
      <3> QED BY <1>4, <3>1, <3>2, <3>3
    <2>2. y \in Exports /\ y.list = list
      BY <2>1, NoExportOK DEF Exports
    <2> HIDE DEF y
    <2>3. exports' \in [Reqs -> Exports] /\ exports'[r] = y
      BY <1>4, <2>2 DEF SetExport, y
    <2>4. b \notin deleted => commits[p.base].ancestors \subseteq History(b)
      BY <1>0 DEF ReqInv, PullOK
    <2>5. \/ b \in deleted
          \/ \A c \in commits[p.base].ancestors :
                (p.from \in DOMAIN commits /\ c \in commits[p.from].ancestors) \/ c \in y.list
      BY <1>4, <2>2, <2>4
    <2>6. "diff" \in ExportPcs /\ "diff" \notin {"export", "data"}
      BY DEF ExportPcs
    <2>7. ExportOK(reqs[r], exports[r])'
      BY <1>0, <1>4, <2>1, <2>2, <2>3, <2>5, <2>6, ExportGoes
    <2> QED BY <2>3, <2>7
  <1>5. CASE PullList(r) /\ Exists(b)
    <2>1. /\ MovedTo(r, "diff") /\ p.pc = "stream"
          /\ SetExport(r, [NoExport EXCEPT !.list = CommitsSince(b, p.from)])
      BY <1>1, <1>5 DEF PullList, At, ExportPcs
    <2>2. /\ CommitsSince(b, p.from) \subseteq History(b)
          /\ \A c \in History(b) : c \in CommitsSince(b, p.from)
                                  \/ (p.from \in DOMAIN commits /\ c \in commits[p.from].ancestors)
      BY DEF CommitsSince
    <2> QED BY <1>4, <1>5, <2>1, <2>2
  <1>6. CASE PullListAll(r)
    <2>1. /\ MovedTo(r, "diff") /\ p.pc = "stream" /\ Exists(b)
          /\ SetExport(r, [NoExport EXCEPT !.list = History(b)])
      BY <1>1, <1>6 DEF PullListAll, At, ExportPcs
    <2> QED BY <1>4, <2>1
  <1>7. ASSUME NEW pc \in ExportPcs, MovedTo(r, pc), NEW y \in Exports, SetExport(r, y),
               y.list \subseteq x.list, pc \in {"export", "data"} => y.commit # 0,
               p.pc \in ExportPcs,
               y.cut \/ (~x.cut /\ \A c \in 1..Len(commits) : Covered(p, x, c) =>
                           \/ p.from \in DOMAIN commits /\ c \in commits[p.from].ancestors
                           \/ c \in y.list
                           \/ {c} \X commits[c].tables \subseteq y.sent
                           \/ /\ pc \in {"export", "data"} /\ c = y.commit
                              /\ commits[c].tables \subseteq y.todo \cup y.got)
        PROVE  exports' \in [Reqs -> Exports] /\ ExportOK(reqs[r], exports[r])'
    <2>1. exports' \in [Reqs -> Exports] /\ exports'[r] = y /\ y.list \subseteq 1..Len(commits)
      BY <1>0, <1>7 DEF SetExport
    <2>2. \/ y.cut
          \/ b \in deleted
          \/ \A c \in commits[p.base].ancestors :
                \/ p.from \in DOMAIN commits /\ c \in commits[p.from].ancestors
                \/ c \in y.list
                \/ {c} \X commits[c].tables \subseteq y.sent
                \/ /\ pc \in {"export", "data"} /\ c = y.commit
                   /\ commits[c].tables \subseteq y.todo \cup y.got
      <3> SUFFICES ASSUME ~y.cut, b \notin deleted, NEW c \in commits[p.base].ancestors
                   PROVE  \/ p.from \in DOMAIN commits /\ c \in commits[p.from].ancestors
                          \/ c \in y.list
                          \/ {c} \X commits[c].tables \subseteq y.sent
                          \/ /\ pc \in {"export", "data"} /\ c = y.commit
                             /\ commits[c].tables \subseteq y.todo \cup y.got
        OBVIOUS
      <3>1. p.base \in 1..Len(commits)
        BY <1>0 DEF ReqInv, PullOK
      <3>2. c \in 1..Len(commits)
        <4>1. commits[p.base].ancestors \subseteq 1..p.base
          BY <1>0, <3>1 DEF DoltInv, WellFormed
        <4> QED BY <1>0, <3>1, <4>1
      <3>3. Covered(p, x, c)
        BY <1>0, <1>7 DEF ExportOK
      <3> QED BY <1>7, <3>2, <3>3
    <2>3. ExportOK(reqs[r], exports[r])'
      BY <1>0, <1>7, <2>1, <2>2, ExportGoes
    <2> QED BY <2>1, <2>3
  <1>8. ASSUME NEW c \in x.list, PullDiff(r, c)
        PROVE  exports' \in [Reqs -> Exports] /\ ExportOK(reqs[r], exports[r])'
    <2> DEFINE pc == IF commits[c].tables = {} THEN "diff" ELSE "export"
               ts == commits[c].tables
               y == [x EXCEPT !.list = @ \ {c}, !.commit = c, !.todo = ts, !.got = {}]
    <2>1. c \in 1..Len(commits) /\ ts \in SUBSET AllTables
      BY <1>0 DEF Commits
    <2>2. pc \in ExportPcs /\ (pc = "export" \/ ts = {})
      BY DEF ExportPcs
    <2>3. Goto(r, pc) /\ SetExport(r, y) /\ p.pc = "diff"
      BY <1>8 DEF PullDiff, At
    <2>4. y \in Exports /\ c # 0
      <3>1. c # 0
        BY <2>1
      <3> QED BY <1>0, <2>1, <3>1, ListShrinks
    <2> HIDE DEF ts, pc
    <2>5. /\ y.list = x.list \ {c} /\ y.commit = c /\ y.todo = ts /\ y.got = {}
          /\ y.sent = x.sent /\ y.cut = x.cut
      BY <1>0 DEF Exports
    <2> HIDE DEF y
    <2>6. ASSUME NEW d \in 1..Len(commits), Covered(p, x, d)
          PROVE  \/ p.from \in DOMAIN commits /\ d \in commits[p.from].ancestors
                 \/ d \in y.list
                 \/ {d} \X commits[d].tables \subseteq y.sent
                 \/ /\ pc \in {"export", "data"} /\ d = y.commit
                    /\ commits[d].tables \subseteq y.todo \cup y.got
      <3>1. CASE d = c /\ ts = {}
        <4>1. {d} \X commits[d].tables = {}
          BY <3>1 DEF ts
        <4> QED BY <4>1
      <3>2. CASE d = c /\ ts # {}
        BY <2>2, <2>5, <3>2 DEF ts
      <3>3. CASE d # c
        BY <2>3, <2>5, <2>6, <3>3 DEF Covered
      <3> QED BY <3>1, <3>2, <3>3
    <2>7. y.cut \/ ~x.cut
      BY <2>5
    <2> QED BY <1>1, <1>7, <2>2, <2>3, <2>4, <2>5, <2>6, <2>7 DEF ExportPcs
  <1>9. ASSUME NEW c \in x.list, PullDiffSwallowed(r, c)
        PROVE  exports' \in [Reqs -> Exports] /\ ExportOK(reqs[r], exports[r])'
    <2> DEFINE y == [x EXCEPT !.list = @ \ {c}, !.cut = TRUE]
    <2>1. Swallow(r, "diff") /\ SetExport(r, y) /\ p.pc = "diff"
      BY <1>9 DEF PullDiffSwallowed, At
    <2>2. y \in Exports /\ y.list \subseteq x.list /\ y.cut
      BY <1>0, ListShrinks DEF Exports
    <2> HIDE DEF y
    <2> QED BY <1>1, <1>7, <2>1, <2>2 DEF ExportPcs
  <1>10. ASSUME NEW t \in x.todo, PullSchema(r, t)
         PROVE  exports' \in [Reqs -> Exports] /\ ExportOK(reqs[r], exports[r])'
    <2> DEFINE todo == x.todo \ {t}
               got == x.got \cup {t}
               y == [x EXCEPT !.todo = todo, !.got = got]
    <2>1. Goto(r, "data") /\ SetExport(r, y) /\ p.pc = "export"
      BY <1>10 DEF PullSchema, At
    <2>2. todo \in SUBSET AllTables /\ got \in SUBSET AllTables /\ x.todo \cup x.got \subseteq todo \cup got
      BY <1>0 DEF Exports
    <2> HIDE DEF todo, got
    <2>3. /\ y \in Exports /\ y.list = x.list /\ y.commit = x.commit /\ y.todo = todo
          /\ y.got = got /\ y.sent = x.sent /\ y.cut = x.cut
      BY <1>0, <2>2 DEF Exports
    <2> HIDE DEF y
    <2>4. x.commit # 0
      BY <2>1 DEF ExportOK
    <2>5. ASSUME NEW d \in 1..Len(commits), Covered(p, x, d)
          PROVE  \/ p.from \in DOMAIN commits /\ d \in commits[p.from].ancestors
                 \/ d \in y.list
                 \/ {d} \X commits[d].tables \subseteq y.sent
                 \/ /\ "data" \in {"export", "data"} /\ d = y.commit
                    /\ commits[d].tables \subseteq y.todo \cup y.got
      BY <2>2, <2>3, <2>5 DEF Covered
    <2>6. y.cut \/ ~x.cut
      BY <2>3
    <2> QED BY <1>1, <1>7, <2>1, <2>3, <2>4, <2>5, <2>6 DEF ExportPcs
  <1>11. ASSUME NEW t \in x.todo, PullSchemaSwallowed(r, t)
         PROVE  exports' \in [Reqs -> Exports] /\ ExportOK(reqs[r], exports[r])'
    <2> DEFINE todo == x.todo \ {t}
               y == [x EXCEPT !.todo = todo, !.cut = TRUE]
    <2>1. Swallow(r, "export") /\ SetExport(r, y) /\ p.pc = "export"
      BY <1>11 DEF PullSchemaSwallowed, At
    <2>2. todo \in SUBSET AllTables /\ TRUE \in BOOLEAN
      BY <1>0 DEF Exports
    <2> HIDE DEF todo
    <2>3. y \in Exports /\ y.list = x.list /\ y.commit = x.commit /\ y.cut
      BY <1>0, <2>2 DEF Exports
    <2> HIDE DEF y
    <2>4. x.commit # 0
      BY <2>1 DEF ExportOK
    <2> QED BY <1>1, <1>7, <2>1, <2>3, <2>4 DEF ExportPcs
  <1>12. CASE PullData(r)
    <2>1. MovedTo(r, "export") /\ p.pc = "data" /\ exports' = exports
      BY <1>1, <1>12 DEF PullData, At, ExportPcs
    <2>2. SetExport(r, x) /\ x.commit # 0
      BY <2>1 DEF SetExport, ExportOK
    <2>3. ASSUME NEW d \in 1..Len(commits), Covered(p, x, d)
          PROVE  \/ p.from \in DOMAIN commits /\ d \in commits[p.from].ancestors
                 \/ d \in x.list
                 \/ {d} \X commits[d].tables \subseteq x.sent
                 \/ /\ "export" \in {"export", "data"} /\ d = x.commit
                    /\ commits[d].tables \subseteq x.todo \cup x.got
      BY <2>3 DEF Covered
    <2> QED BY <1>0, <1>7, <2>1, <2>2, <2>3 DEF ExportPcs
  <1>13. CASE PullYield(r)
    <2> DEFINE sent == x.sent \cup ({x.commit} \X x.got)
               y == [x EXCEPT !.sent = sent]
    <2>1. MovedTo(r, "diff") /\ p.pc = "export" /\ x.todo = {} /\ SetExport(r, y)
      BY <1>1, <1>13 DEF PullYield, At, ExportPcs
    <2>2. sent \in SUBSET ((1..MaxCommits) \X AllTables)
      <3>1. x.commit \in 1..MaxCommits
        <4>1. x.commit \in 0..MaxCommits /\ x.commit # 0
          BY <1>0, <2>1 DEF ExportOK, Exports
        <4> QED BY <4>1, DoltAssumptions
      <3>2. x.got \subseteq AllTables /\ x.sent \subseteq (1..MaxCommits) \X AllTables
        BY <1>0 DEF Exports
      <3> QED BY <3>1, <3>2
    <2>3. \A d : commits[d].tables \subseteq x.got /\ d = x.commit => {d} \X commits[d].tables \subseteq sent
      OBVIOUS
    <2>4. x.sent \subseteq sent
      OBVIOUS
    <2> HIDE DEF sent
    <2>5. y \in Exports /\ y.list = x.list /\ y.sent = sent /\ y.cut = x.cut
      BY <1>0, <2>2 DEF Exports
    <2> HIDE DEF y
    <2>6. ASSUME NEW d \in 1..Len(commits), Covered(p, x, d)
          PROVE  \/ p.from \in DOMAIN commits /\ d \in commits[p.from].ancestors
                 \/ d \in y.list
                 \/ {d} \X commits[d].tables \subseteq y.sent
      <3>1. CASE d = x.commit /\ commits[d].tables \subseteq x.todo \cup x.got
        <4>1. commits[d].tables \subseteq x.got
          BY <2>1, <3>1
        <4> QED BY <2>3, <2>5, <3>1, <4>1
      <3>2. CASE {d} \X commits[d].tables \subseteq x.sent
        BY <2>4, <2>5, <3>2
      <3> QED BY <2>5, <2>6, <3>1, <3>2 DEF Covered
    <2>7. y.cut \/ ~x.cut
      BY <2>5
    <2> QED BY <1>7, <2>1, <2>5, <2>6, <2>7 DEF ExportPcs
  <1>14. CASE PullClose(r)
    <2>1. Change(r, Idle) /\ SetExport(r, NoExport)
      BY <1>14 DEF PullClose
    <2>2. reqs'[r] = Idle /\ exports' \in [Reqs -> Exports] /\ exports'[r] = NoExport
      BY <1>0, <2>1, NoExportOK DEF Change, SetExport
    <2> QED BY <1>2, <2>2, NoExportOK
  <1> QED BY <1>3, <1>5, <1>6, <1>8, <1>9, <1>10, <1>11, <1>12, <1>13, <1>14 DEF Export

\* A step of the generator leaves the exports of the others alone.
LEMMA ExportAlone ==
    ASSUME NEW r \in Reqs, Export(r), exports \in [Reqs -> Exports]
    PROVE  \A x \in Reqs : x # r => exports'[x] = exports[x]
  BY DEF Export, PullList, PullListAll, PullData, PullYield, PullClose, PullDiff,
         PullDiffSwallowed, PullSchema, PullSchemaSwallowed, SetExport

\* Every step keeps the account of what the generators have seen to.
LEMMA ExportInvStep == RepoInv /\ ReqInv /\ ExportInv /\ [Next]_vars => ExportInv'
  <1> SUFFICES ASSUME RepoInv, ReqInv, ExportInv, [Next]_vars PROVE ExportInv'
    OBVIOUS
  <1>1. RepoInv' /\ GraphGrows
    BY RepoInvStep, StepIsCommand, CommandGrows DEF RepoInv
  <1>2. CASE UNCHANGED vars
    <2>1. ASSUME NEW r \in Reqs PROVE ExportOK(reqs[r], exports[r])'
      BY <1>1, <1>2, ExportStays DEF vars, ExportInv
    <2> QED BY <1>2, <2>1 DEF vars, ExportInv
  <1>3. ASSUME NEW r \in Reqs, Arrival(r), exports' = exports PROVE ExportInv'
    <2>1. ArrivalMoves(r)
      BY <1>3, ArrivalMove
    <2>2. ASSUME NEW x \in Reqs PROVE ExportOK(reqs[x], exports[x])'
      <3>1. CASE x = r
        <4>1. reqs'[x].pc \notin ExportPcs
          BY <2>1, <3>1 DEF ArrivalMoves, New, ExportPcs
        <4> QED BY <1>1, <1>3, <4>1, ExportStays DEF ExportInv
      <3>2. CASE x # r
        <4>1. reqs[x] \in Records /\ (reqs'[x] = reqs[x] \/ reqs'[x] = [reqs[x] EXCEPT !.alone = FALSE])
          BY <2>1, <3>2 DEF ArrivalMoves, RepoInv, RequestInv
        <4>2. /\ reqs'[x].op = reqs[x].op /\ reqs'[x].pc = reqs[x].pc
              /\ reqs'[x].branch = reqs[x].branch
              /\ reqs'[x].from = reqs[x].from /\ reqs'[x].base = reqs[x].base
          BY <4>1 DEF Records
        <4> QED BY <1>1, <1>3, <4>2, ExportStays DEF ExportInv
      <3> QED BY <3>1, <3>2
    <2> QED BY <1>3, <2>2 DEF ExportInv
  <1>4. ASSUME NEW r \in Reqs, Handle(r), exports' = exports PROVE ExportInv'
    <2>1. HandlerMoves(r)
      BY <1>4, HandleMoves
    <2>2. ASSUME NEW x \in Reqs PROVE ExportOK(reqs[x], exports[x])'
      <3>1. reqs'[x].pc \notin ExportPcs \/ reqs'[x] = reqs[x]
        BY <2>1, IdleOK DEF HandlerMoves, Moves, ExportPcs
      <3> QED BY <1>1, <1>4, <3>1, ExportStays DEF ExportInv
    <2> QED BY <1>4, <2>2 DEF ExportInv
  <1>5. ASSUME NEW r \in Reqs, Export(r) PROVE ExportInv'
    <2>1. exports' \in [Reqs -> Exports] /\ ExportOK(reqs[r], exports[r])'
      BY <1>1, <1>5, ExportAdvances DEF ExportInv
    <2>2. ASSUME NEW x \in Reqs, x # r PROVE ExportOK(reqs[x], exports[x])'
      <3>1. reqs'[x] = reqs[x] /\ exports'[x] = exports[x]
        BY <1>5, <2>2, ExportMoves, ExportAlone DEF ExportInv
      <3> QED BY <1>1, <3>1, ExportStays DEF ExportInv
    <2> QED BY <2>1, <2>2 DEF ExportInv
  <1> QED BY <1>2, <1>3, <1>4, <1>5 DEF Next, Serve

\* It holds for any workload.
LEMMA ExportInvariant == Spec => [](RepoInv /\ ReqInv /\ ExportInv)
  <1>1. Init => ExportInv
    <2> SUFFICES ASSUME Init PROVE ExportInv
      OBVIOUS
    <2>1. exports = [r \in Reqs |-> NoExport] /\ reqs = [r \in Reqs |-> Idle]
      BY DEF Init
    <2> QED BY <2>1, NoExportOK, IdleOK DEF ExportInv, ExportOK, ExportPcs
  <1>2. (RepoInv /\ ReqInv /\ ExportInv) /\ [Next]_vars => (RepoInv /\ ReqInv /\ ExportInv)'
    BY RepoInvStep, ReqInvStep, ExportInvStep
  <1>3. Init => RepoInv /\ ReqInv /\ ExportInv
    BY <1>1, RepoInvInit, ReqInvInit
  <1> QED BY <1>2, <1>3, PTL DEF Spec

\* A plan the code can hold is the least closure, over the tables there are.
LEMMA PlanFacts ==
    ASSUME NEW plan \in Plans
    PROVE  /\ plan \in [requested : SUBSET Tables, edges : SUBSET (Tables \X Tables),
                        resolved : SUBSET Tables]
           /\ plan.resolved = IF plan.requested = {} THEN {}
                              ELSE LeastClosure(plan.requested, plan.edges)
           /\ NothingExcluded(plan) =>
                 Closed(plan.resolved, plan.edges) /\ plan.resolved = plan.requested
  <1>1. PICK ts \in SUBSET Tables, edges \in SUBSET (Tables \X Tables) : plan = BuildPlan(ts, edges)
    BY DEF Plans
  <1>2. plan.requested = ts /\ plan.edges = edges
    BY <1>1 DEF BuildPlan
  <1>3. plan.resolved = IF ts = {} THEN {} ELSE ComputeClosure(ts, edges)
    BY <1>1 DEF BuildPlan
  <1>4. plan = [requested |-> ts, edges |-> edges, resolved |-> plan.resolved]
    BY <1>1 DEF BuildPlan
  <1>5. TablesOf(ts, edges) \subseteq Tables
    BY DEF TablesOf
  <1>6. IsFiniteSet(TablesOf(ts, edges))
    BY <1>5, DoltAssumptions, FS_Subset
  <1>7. /\ ComputeClosure(ts, edges) = LeastClosure(ts, edges)
        /\ Closed(ComputeClosure(ts, edges), edges)
        /\ ComputeClosure(ts, edges) \subseteq Tables
        /\ ts \subseteq ComputeClosure(ts, edges)
    BY <1>5, <1>6, ClosureIsLeast
  <1>8. plan.resolved \subseteq Tables
    BY <1>3, <1>7
  <1>9. NothingExcluded(plan) =>
            Closed(plan.resolved, plan.edges) /\ plan.resolved = plan.requested
    <2>1. CASE ts = {}
      <3>1. plan.resolved = {}
        BY <1>3, <2>1
      <3> QED BY <1>2, <2>1, <3>1 DEF Closed, References
    <2>2. CASE ts # {}
      <3>1. plan.resolved = ComputeClosure(ts, edges)
        BY <1>3, <2>2
      <3>2. NothingExcluded(plan) => plan.resolved \ ts = {}
        BY <1>2, <2>2 DEF NothingExcluded, AutoIncluded
      <3> QED BY <1>2, <1>7, <3>1, <3>2
    <2> QED BY <2>1, <2>2
  <1>10. plan \in [requested : SUBSET Tables, edges : SUBSET (Tables \X Tables),
                   resolved : SUBSET Tables]
    BY <1>4, <1>8
  <1>11. plan.resolved = IF ts = {} THEN {} ELSE LeastClosure(ts, edges)
    BY <1>3, <1>7
  <1> QED BY <1>2, <1>9, <1>10, <1>11

\* What a handler holds is always what its code can hold, for any workload:
\* main is there and a branch is checked out, counters stay in their
\* bounds and a plan names tables there are.
THEOREM RequestsTyped == Spec => []VersioningTypeOK
  <1>1. RepoInv /\ ReqInv /\ ExportInv => VersioningTypeOK
    <2> SUFFICES ASSUME RepoInv, ReqInv, ExportInv PROVE VersioningTypeOK
      OBVIOUS
    <2>1. DoltTypeOK
      <3>1. Cardinality(merging) <= 1
        <4>1. CASE merging = {}
          BY <4>1, FS_EmptySet
        <4>2. ASSUME NEW w, merging = {w} PROVE Cardinality(merging) <= 1
          BY <4>2, FS_Singleton
        <4> QED BY <4>1, <4>2 DEF ReqInv
      <3> QED BY <3>1, CommitsBounded DEF DoltTypeOK, RepoInv, DoltInv, WellFormed, Exists
    <2>2. MutexTypeOK /\ pref \subseteq Tables
      BY DEF RepoInv, ChainInv, RequestInv
    <2>3. ASSUME NEW r \in Reqs PROVE reqs[r] \in Requests
      <3> DEFINE q == reqs[r]
      <3>1. q \in Records /\ ReqOK(q)
        BY DEF RepoInv, RequestInv, ReqInv
      <3>2. q.plan \in [requested : SUBSET Tables, edges : SUBSET (Tables \X Tables),
                        resolved : SUBSET Tables]
        BY <3>1, PlanFacts DEF Records
      <3>3. q.left \in Nat /\ q.made \in Seq(1..MaxCommits) /\ q.base \in -1..MaxCommits
        BY <3>1 DEF ReqOK
      <3>4. q.pc \in Pcs
        BY <3>1 DEF Records
      <3> HIDE DEF q
      <3>5. q = [op |-> q.op, pc |-> q.pc, branch |-> q.branch, other |-> q.other,
                 from |-> q.from, tables |-> q.tables, todo |-> q.todo, left |-> q.left,
                 plan |-> q.plan, made |-> q.made, alone |-> q.alone, base |-> q.base]
        BY <3>1 DEF Records
      <3>6. /\ q.op \in Ops /\ q.branch \in Branches \cup {Nil} /\ q.other \in Branches \cup {Nil}
            /\ q.from \in Nat /\ q.tables \in SUBSET Tables /\ q.todo \in SUBSET Tables
            /\ q.alone \in BOOLEAN
        BY <3>1 DEF Records
      <3>7. q \in Requests
        BY <3>2, <3>3, <3>4, <3>5, <3>6, Zenon DEF Requests
      <3> QED BY <3>7 DEF q
    <2>4. reqs \in [Reqs -> Requests]
      BY <2>3 DEF RepoInv, RequestInv
    <2> QED BY <2>1, <2>2, <2>4 DEF VersioningTypeOK, ReqInv, ExportInv
  <1> QED BY <1>1, ExportInvariant, PTL

\* Whatever moves the branch between the head a pull announces and the
\* commits it sends, and whichever look-up fails, a pull that ends well has
\* sent every table of every commit of that head its client lacks, or its
\* generator has swallowed the failure of a look-up of its own.
THEOREM PullsAreComplete == Spec => []PullCoversHead
  <1>1. RepoInv /\ ReqInv /\ ExportInv => PullCoversHead
    <2> SUFFICES ASSUME RepoInv, ReqInv, ExportInv, NEW r \in Reqs, PullDone(r),
                        ~exports[r].cut, reqs[r].branch \notin deleted,
                        NEW c \in commits[reqs[r].base].ancestors
                 PROVE  \/ reqs[r].from \in DOMAIN commits /\ c \in commits[reqs[r].from].ancestors
                        \/ {c} \X commits[c].tables \subseteq exports[r].sent
      BY DEF PullCoversHead
    <2>1. reqs[r].op = "pull" /\ reqs[r].pc = "diff" /\ exports[r].list = {}
      BY DEF PullDone, At
    <2>2. Covered(reqs[r], exports[r], c)
      BY <2>1 DEF ExportInv, ExportOK, ExportPcs
    <2> QED BY <2>1, <2>2 DEF Covered
  <1> QED BY <1>1, ExportInvariant, PTL

\* Every plan computeClosure builds, for every catalog of foreign keys, is
\* the least closed set, and no push whose plan leaves a table out is recorded.
THEOREM PlansAreClosed == Spec => []PlanIsLeastClosure
  <1>1. RepoInv /\ ReqInv => PlanIsLeastClosure
    <2> SUFFICES ASSUME RepoInv, ReqInv, NEW r \in Reqs
                 PROVE  LET plan == reqs[r].plan IN
                        /\ plan.resolved = IF plan.requested = {} THEN {}
                                           ELSE LeastClosure(plan.requested, plan.edges)
                        /\ reqs[r].pc \in {"insert", "add", "commit", "hash"} =>
                              Closed(plan.resolved, plan.edges) /\ plan.resolved = plan.requested
      BY DEF PlanIsLeastClosure
    <2>1. reqs[r].plan \in Plans
      BY DEF RepoInv, RequestInv, Records
    <2>2. reqs[r].pc \in {"insert", "add", "commit", "hash"} => NothingExcluded(reqs[r].plan)
      BY DEF ReqInv, ReqOK
    <2> QED BY <2>1, <2>2, PlanFacts
  <1> QED BY <1>1, ReqInvariant, PTL

(***************************************************************************)
(* A push that runs alone.                                                 *)
(***************************************************************************)
\* Where a push works on the branch that it checked out.
OnBranchPcs == {"import", "add", "commit", "hash"}

\* The branch is still where the push saw it, or at the last commit it made,
\* the first of which follows the head it was checked against.
SoloOK(q) ==
    q.op = "push" /\ q.alone =>
        /\ q.pc = "head" => q.base = -1 /\ q.made = <<>>
        /\ q.pc = "hash" => q.made # <<>>
        /\ q.pc \in OnBranchPcs => current = q.branch
        /\ q.made = <<>> /\ q.base > 0 => head[q.branch] = q.from /\ q.base = q.from
        /\ q.made # <<>> =>
              /\ head[q.branch] = q.made[Len(q.made)]
              /\ q.made[1] \in 1..Len(commits)
              /\ q.base > 0 =>
                    /\ q.from \in 1..Len(commits)
                    /\ commits[q.made[1]].ancestors = commits[q.from].ancestors \cup {q.made[1]}

\* The same of every request.
SoloInv == \A r \in Reqs : SoloOK(reqs[r])

\* What a handler keeps when it only moves on in its code.
LEMMA MovedFields ==
    ASSUME RepoInv, NEW r \in Reqs, NEW pc, MovedTo(r, pc)
    PROVE  /\ reqs'[r].pc = pc /\ reqs'[r].op = reqs[r].op /\ reqs'[r].alone = reqs[r].alone
           /\ reqs'[r].branch = reqs[r].branch /\ reqs'[r].from = reqs[r].from
           /\ reqs'[r].made = reqs[r].made /\ reqs'[r].base = reqs[r].base
  <1>1. reqs[r] \in Records /\ reqs \in [Reqs -> Records]
    BY DEF RepoInv, RequestInv
  <1>2. reqs'[r] = [reqs[r] EXCEPT !.pc = pc]
    BY <1>1 DEF MovedTo
  <1> QED BY <1>1, <1>2 DEF Records

\* A step that leaves the branches and what the push remembers of them alone.
LEMMA SoloKept ==
    ASSUME NEW r \in Reqs, SoloOK(reqs[r]), head' = head, commits' = commits,
           reqs'[r].op = reqs[r].op, reqs'[r].alone = reqs[r].alone,
           reqs'[r].branch = reqs[r].branch, reqs'[r].from = reqs[r].from,
           reqs'[r].made = reqs[r].made, reqs'[r].base = reqs[r].base,
           reqs'[r].pc \notin {"head", "hash"},
           reqs'[r].pc \in OnBranchPcs /\ reqs[r].op = "push" /\ reqs[r].alone =>
              current' = reqs[r].branch
    PROVE  SoloOK(reqs[r])'
  BY DEF SoloOK

\* The push finds its branch at the head it named, or does not find it.
LEMMA SoloCheckHead ==
    ASSUME RepoInv, ReqInv, NEW r \in Reqs, SoloOK(reqs[r]), ImportCheckHead(r)
    PROVE  SoloOK(reqs[r])'
  <1> DEFINE p == reqs[r]
             h == head[p.branch]
             q == [p EXCEPT !.pc = "checkout", !.base = h]
  <1>0. p \in Records /\ reqs \in [Reqs -> Records]
    BY DEF RepoInv, RequestInv
  <1>1. CASE Change(r, Idle)
    <2>1. reqs'[r] = Idle
      BY <1>0, <1>1 DEF Change
    <2> QED BY <2>1, IdleReqOK DEF SoloOK
  <1>2. CASE HeadMatches(p) /\ Change(r, q)
    <2>1. reqs'[r] = q /\ p.pc = "head" /\ p.op = "push" /\ h \in {0, p.from}
      BY <1>0, <1>2 DEF Change, ImportCheckHead, At, HeadMatches, BranchHead
    <2>2. head' = head /\ p.branch \in Branches /\ h \in Int
      BY <2>1 DEF ImportCheckHead, RepoUntouched, doltVars, RepoInv, RequestInv, RecordOK, DoltInv, WellFormed
    <2> HIDE DEF h
    <2>3. /\ q.pc = "checkout" /\ q.op = p.op /\ q.alone = p.alone /\ q.branch = p.branch
          /\ q.from = p.from /\ q.made = p.made /\ q.base = h
      BY <1>0 DEF Records
    <2> HIDE DEF q
    <2>4. p.alone => p.made = <<>>
      BY <2>1 DEF SoloOK
    <2>5. head'[q.branch] = h
      BY <2>2, <2>3 DEF h
    <2> QED BY <2>1, <2>2, <2>3, <2>4, <2>5 DEF SoloOK, OnBranchPcs
  <1> QED BY <1>1, <1>2 DEF ImportCheckHead, BranchHead

\* The last member of a sequence that has one.
LEMMA LastOfSeq == ASSUME NEW S, NEW s \in Seq(S), s # <<>> PROVE s[Len(s)] \in S
  OBVIOUS

\* checkout, or checkout -b of a branch that was not there.
LEMMA SoloCheckout ==
    ASSUME RepoInv, ReqInv, NEW r \in Reqs, SoloOK(reqs[r]),
           ImportCheckout(r) \/ ImportCheckoutNew(r)
    PROVE  SoloOK(reqs[r])'
  <1> DEFINE b == reqs[r].branch
  <1>0. /\ reqs[r] \in Records /\ reqs \in [Reqs -> Records] /\ b \in Branches
        /\ reqs[r].op = "push"
    BY DEF RepoInv, RequestInv, RecordOK, ImportCheckout, ImportCheckoutNew, At
  <1>1. CASE Change(r, Idle)
    <2>1. reqs'[r] = Idle
      BY <1>0, <1>1 DEF Change
    <2> QED BY <2>1, IdleReqOK DEF SoloOK
  <1>2. CASE RunCheckout(b) /\ Goto(r, "import")
    <2>1. MovedTo(r, "import")
      BY <1>2, GotoIs DEF Pcs
    <2>2. head' = head /\ commits' = commits /\ current' = b
      BY <1>2 DEF RunCheckout
    <2> QED BY <2>1, <2>2, MovedFields, SoloKept
  <1>3. CASE RepoUntouched /\ Goto(r, "checkoutNew")
    <2>1. MovedTo(r, "checkoutNew")
      BY <1>3, GotoIs DEF Pcs
    <2>2. head' = head /\ commits' = commits
      BY <1>3 DEF RepoUntouched, doltVars
    <2> QED BY <2>1, <2>2, MovedFields, SoloKept DEF OnBranchPcs
  <1>4. CASE RunCheckoutNew(b) /\ Goto(r, "import")
    <2>1. MovedTo(r, "import")
      BY <1>4, GotoIs DEF Pcs
    <2>2. /\ reqs'[r].pc = "import" /\ reqs'[r].branch = b /\ reqs'[r].made = reqs[r].made
          /\ reqs'[r].base = reqs[r].base /\ reqs'[r].alone = reqs[r].alone
      BY <2>1, MovedFields
    <2>3. current' = b /\ head[b] = 0
      BY <1>4 DEF RunCheckoutNew, Exists
    <2>4. reqs[r].made \in Seq(1..MaxCommits) /\ reqs[r].base \in -1..MaxCommits
      BY DEF ReqInv, ReqOK
    <2>5. reqs[r].alone => reqs[r].made = <<>>
      <3>1. reqs[r].made # <<>> => reqs[r].made[Len(reqs[r].made)] \in 1..MaxCommits
        BY <2>4, LastOfSeq
      <3>2. 0 \notin 1..MaxCommits
        OBVIOUS
      <3> QED BY <1>0, <2>3, <3>1, <3>2 DEF SoloOK
    <2>6. reqs[r].alone => ~(reqs[r].base > 0)
      BY <1>0, <2>3, <2>4, <2>5 DEF SoloOK
    <2> QED BY <2>2, <2>3, <2>5, <2>6 DEF SoloOK
  <1> QED BY <1>1, <1>2, <1>3, <1>4 DEF ImportCheckout, ImportCheckoutNew

\* A commit on the branch that the push checked out.
LEMMA SoloCommit ==
    ASSUME RepoInv, ReqInv, NEW r \in Reqs, SoloOK(reqs[r]), ImportCommit(r)
    PROVE  SoloOK(reqs[r])'
  <1> DEFINE p == reqs[r]
             c == Len(commits) + 1
             m == Append(p.made, c)
             q == [p EXCEPT !.pc = "hash", !.made = m]
  <1>0. /\ p \in Records /\ reqs \in [Reqs -> Records] /\ p.branch \in Branches
        /\ p.op = "push" /\ p.pc = "commit"
    BY DEF RepoInv, RequestInv, RecordOK, ImportCommit, At
  <1>1. CASE Change(r, Idle)
    <2>1. reqs'[r] = Idle
      BY <1>0, <1>1 DEF Change
    <2> QED BY <2>1, IdleReqOK DEF SoloOK
  <1>2. CASE RunCommit /\ Change(r, q)
    <2>1. reqs'[r] = q
      BY <1>0, <1>2 DEF Change
    <2>2. DoltInv
      BY DEF RepoInv
    <2>3. /\ Len(commits) \in Nat /\ Len(commits') = c
          /\ \A n \in 1..Len(commits) : commits'[n] = commits[n]
          /\ commits'[c].ancestors = History(current) \cup {c}
          /\ head'[current] = c
      BY <1>2, <2>2, AdvanceAppends DEF RunCommit
    <2>4. /\ head[current] \in 1..Len(commits) /\ History(current) = commits[head[current]].ancestors
      BY <2>2, HistoryOfBranch DEF DoltInv
    <2>5. p.made \in Seq(1..MaxCommits) /\ p.base \in -1..MaxCommits
      BY DEF ReqInv, ReqOK
    <2> HIDE DEF c
    <2>6. /\ m # <<>> /\ m[Len(m)] = c /\ (p.made = <<>> => m[1] = c)
          /\ p.made # <<>> => m[1] = p.made[1]
      BY <2>3, <2>5 DEF c
    <2> HIDE DEF m
    <2>7. /\ q.pc = "hash" /\ q.op = p.op /\ q.alone = p.alone /\ q.branch = p.branch
          /\ q.from = p.from /\ q.made = m /\ q.base = p.base
      BY <1>0 DEF Records
    <2> HIDE DEF q
    <2>8. CASE ~p.alone
      BY <2>1, <2>7, <2>8 DEF SoloOK
    <2>9. CASE p.alone
      <3>1. current = p.branch /\ current' = p.branch
        BY <1>0, <1>2, <2>9 DEF SoloOK, OnBranchPcs, RunCommit
      <3>2. c \in 1..Len(commits') /\ 1..Len(commits) \subseteq 1..Len(commits')
        BY <2>3 DEF c
      <3>3. CASE p.made = <<>>
        <4>1. p.base > 0 => head[current] = p.from
          BY <1>0, <2>9, <3>1, <3>3 DEF SoloOK
        <4>2. p.base > 0 => /\ p.from \in 1..Len(commits')
                            /\ commits'[c].ancestors = commits'[p.from].ancestors \cup {c}
          BY <2>3, <2>4, <3>2, <4>1
        <4> QED BY <2>1, <2>3, <2>6, <2>7, <3>1, <3>2, <3>3, <4>2 DEF SoloOK
      <3>4. CASE p.made # <<>>
        <4>1. /\ p.made[1] \in 1..Len(commits)
              /\ p.base > 0 =>
                    /\ p.from \in 1..Len(commits)
                    /\ commits[p.made[1]].ancestors = commits[p.from].ancestors \cup {p.made[1]}
          BY <1>0, <2>9, <3>4 DEF SoloOK
        <4>2. /\ m[1] \in 1..Len(commits')
              /\ p.base > 0 =>
                    /\ p.from \in 1..Len(commits')
                    /\ commits'[m[1]].ancestors = commits'[p.from].ancestors \cup {m[1]}
          BY <2>3, <2>6, <3>2, <3>4, <4>1
        <4> QED BY <2>1, <2>3, <2>6, <2>7, <3>1, <4>2 DEF SoloOK
      <3> QED BY <3>3, <3>4
    <2> QED BY <2>8, <2>9
  <1> QED BY <1>1, <1>2 DEF ImportCommit

\* The handler of a push takes a step while nothing else runs.
LEMMA SoloHandle ==
    ASSUME RepoInv, ReqInv, NEW r \in Reqs, SoloOK(reqs[r]), Handle(r), reqs[r].op = "push"
    PROVE  SoloOK(reqs[r])'
  <1> DEFINE p == reqs[r]
  <1>0. p \in Records /\ reqs \in [Reqs -> Records] /\ p.pc \in PushPcs
    BY DEF RepoInv, RequestInv, ReqInv, ReqOK
  <1>1. CASE reqs' = [reqs EXCEPT ![r] = Idle]
    <2>1. reqs'[r] = Idle
      BY <1>0, <1>1
    <2> QED BY <2>1, IdleReqOK DEF SoloOK
  <1>2. CASE ImportHeadLookupFails(r)
    <2>1. MovedTo(r, "checkout") /\ head' = head /\ commits' = commits
      BY <1>2 DEF ImportHeadLookupFails, MovedTo, RepoUntouched, doltVars
    <2> QED BY <2>1, MovedFields, SoloKept DEF OnBranchPcs
  <1>3. ASSUME NEW t \in Tables, ImportTable(r, t) PROVE SoloOK(reqs[r])'
    <2> DEFINE pc == IF p.todo = {t} THEN "add" ELSE "import"
               q == [p EXCEPT !.todo = @ \ {t}, !.pc = pc]
    <2>1. /\ p.pc = "import" /\ Change(r, q) /\ head' = head /\ commits' = commits
          /\ current' = current
      BY <1>3 DEF ImportTable, At, WriteTable
    <2>2. pc \in {"add", "import"}
      OBVIOUS
    <2> HIDE DEF pc
    <2>3. reqs'[r] = q
      BY <1>0, <2>1 DEF Change
    <2>4. /\ q.pc = pc /\ q.op = p.op /\ q.alone = p.alone /\ q.branch = p.branch
          /\ q.from = p.from /\ q.made = p.made /\ q.base = p.base
      BY <1>0 DEF Records
    <2> HIDE DEF q
    <2>5. p.op = "push" /\ p.alone => current' = p.branch
      BY <2>1 DEF SoloOK, OnBranchPcs
    <2> QED BY <2>1, <2>2, <2>3, <2>4, <2>5, SoloKept
  <1>4. CASE ImportAdd(r)
    <2>1. MovedTo(r, "commit") /\ head' = head /\ commits' = commits /\ current' = current
      BY <1>4, GotoIs DEF ImportAdd, RunAdd, Pcs
    <2>2. p.op = "push" /\ p.alone => current' = p.branch
      BY <1>4, <2>1 DEF SoloOK, OnBranchPcs, ImportAdd, At
    <2> QED BY <2>1, <2>2, MovedFields, SoloKept
  <1>5. CASE ImportReadHash(r)
    <2> DEFINE n == p.left - 1
               ts == p.tables
               q == [p EXCEPT !.pc = "checkout", !.left = n, !.todo = ts]
    <2>1. CASE Change(r, Idle)
      BY <1>1, <2>1 DEF Change
    <2>2. CASE Change(r, q)
      <3>1. reqs'[r] = q /\ head' = head /\ commits' = commits
        BY <1>0, <1>5, <2>2 DEF Change, ImportReadHash, RepoUntouched, doltVars
      <3> HIDE DEF n, ts
      <3>2. /\ q.pc = "checkout" /\ q.op = p.op /\ q.alone = p.alone /\ q.branch = p.branch
            /\ q.from = p.from /\ q.made = p.made /\ q.base = p.base
        BY <1>0 DEF Records
      <3> HIDE DEF q
      <3> QED BY <3>1, <3>2, SoloKept DEF OnBranchPcs
    <2> QED BY <1>5, <2>1, <2>2 DEF ImportReadHash
  <1>6. CASE CommandFails(r) \/ \E t \in Tables : ImportTableBreaks(r, t)
    BY <1>1, <1>6 DEF CommandFails, ImportTableBreaks
  <1>7. /\ ~EnterMutex(r) /\ ~RunAction(r)
        /\ ~(\E edges \in load.catalogs \cup {{}} : ReadEdges(r, edges))
    BY <1>0 DEF EnterMutex, RunAction, ReadEdges, PushPcs
  <1>8. ~(CreateBranch(r) \/ CreateReadCurrent(r) \/ CheckoutBranch(r)
          \/ DeleteReadCurrent(r) \/ DeleteBranch(r)
          \/ MergeReadCurrent(r) \/ MergeCheckout(r) \/ Merge(r) \/ MergeReadHash(r)
          \/ ReadConflicts(r) \/ MergeAbort(r))
    BY DEF CreateBranch, CreateReadCurrent, CheckoutBranch, DeleteReadCurrent, DeleteBranch,
           MergeReadCurrent, MergeCheckout, Merge, MergeReadHash, ReadConflicts, MergeAbort, At
  <1>9. ~(ReadStoredPreference(r) \/ AnswerPreview(r) \/ StorePreference(r)
          \/ ValidatePushOptions(r) \/ RecordInsert(r) \/ RecordAdd(r) \/ RecordCommit(r)
          \/ RecordReadHash(r) \/ PullReadHead(r))
    BY DEF ReadStoredPreference, AnswerPreview, StorePreference, ValidatePushOptions,
           RecordInsert, RecordAdd, RecordCommit, RecordReadHash, PullReadHead, At
  <1> QED BY <1>2, <1>3, <1>4, <1>5, <1>6, <1>7, <1>8, <1>9, SoloCheckHead, SoloCheckout, SoloCommit
          DEF Handle

\* Every step keeps the account of the pushes that run alone.
LEMMA SoloInvStep == RepoInv /\ ReqInv /\ SoloInv /\ [Next]_vars => SoloInv'
  <1> SUFFICES ASSUME RepoInv, ReqInv, SoloInv, [Next]_vars, NEW r \in Reqs
               PROVE  SoloOK(reqs[r])'
    BY DEF SoloInv
  <1>1. CASE UNCHANGED vars
    BY <1>1 DEF vars, SoloInv, SoloOK
  <1>2. ASSUME NEW x \in Reqs, Arrival(x) PROVE SoloOK(reqs[r])'
    <2>0. ArrivalMoves(x)
      BY <1>2, ArrivalMove
    <2>1. CASE r = x
      <3>1. New(reqs'[r])
        BY <2>0, <2>1 DEF ArrivalMoves
      <3> QED BY <3>1 DEF New, SoloOK, OnBranchPcs
    <2>2. CASE r # x /\ reqs[r].pc = "idle"
      <3>1. reqs'[r] = reqs[r] /\ ~reqs[r].alone
        BY <2>0, <2>2 DEF ArrivalMoves, ReqInv, ReqOK
      <3> QED BY <3>1 DEF SoloOK
    <2>3. CASE r # x /\ reqs[r].pc # "idle"
      <3>1. reqs[r] \in Records /\ reqs'[r] = [reqs[r] EXCEPT !.alone = FALSE]
        BY <2>0, <2>3 DEF ArrivalMoves, RepoInv, RequestInv
      <3>2. ~reqs'[r].alone
        BY <3>1 DEF Records
      <3> QED BY <3>2 DEF SoloOK
    <2> QED BY <2>1, <2>2, <2>3
  <1>3. ASSUME NEW x \in Reqs, Handle(x) PROVE SoloOK(reqs[r])'
    <2>0. HandlerMoves(x)
      BY <1>3, HandleMoves
    <2>1. CASE r = x /\ reqs[r].op = "push"
      BY <1>3, <2>1, SoloHandle DEF SoloInv
    <2>2. CASE r = x /\ reqs[r].op # "push"
      <3>1. reqs'[r].op # "push"
        BY <2>0, <2>2, IdleReqOK DEF HandlerMoves, Moves
      <3> QED BY <3>1 DEF SoloOK
    <2>3. CASE r # x
      <3>1. reqs'[r] = reqs[r] /\ ~reqs[r].alone
        BY <2>0, <2>3 DEF HandlerMoves, ReqInv, AloneInv
      <3> QED BY <3>1 DEF SoloOK
    <2> QED BY <2>1, <2>2, <2>3
  <1>4. ASSUME NEW x \in Reqs, Export(x) PROVE SoloOK(reqs[r])'
    <2>0. /\ \A y \in Reqs : y # x => reqs'[y] = reqs[y]
          /\ reqs'[x] = Idle \/ Streams(reqs[x], reqs'[x])
          /\ reqs[x].op = "pull" /\ reqs[x].pc \in StreamPcs
      BY <1>4, ExportMoves, ExportShape
    <2>1. CASE r = x
      <3>1. reqs'[r].op # "push"
        BY <2>0, <2>1, IdleReqOK DEF Streams
      <3> QED BY <3>1 DEF SoloOK
    <2>2. CASE r # x
      <3>1. reqs'[r] = reqs[r] /\ ~reqs[r].alone
        BY <2>0, <2>2 DEF ReqInv, AloneInv, StreamPcs, ExportPcs
      <3> QED BY <3>1 DEF SoloOK
    <2> QED BY <2>1, <2>2
  <1> QED BY <1>1, <1>2, <1>3, <1>4 DEF Next, Serve

\* The newest commit of the branch that is checked out is its head.
LEMMA LatestIsHead == ASSUME DoltInv PROVE LatestCommitHash = head[current]
  <1> DEFINE h == head[current]
             H == History(current)
  <1>1. h \in H /\ H = commits[h].ancestors /\ h \in 1..Len(commits)
    BY HistoryOfBranch DEF DoltInv
  <1>2. H \subseteq 1..h
    BY <1>1 DEF DoltInv, WellFormed
  <1> HIDE DEF h, H
  <1>3. h \in H /\ \A d \in H : d <= h
    BY <1>1, <1>2
  <1>4. \A c \in H : (\A d \in H : d <= c) => c = h
    BY <1>1, <1>2
  <1>5. (CHOOSE c \in H : \A d \in H : d <= c) = h
    BY <1>3, <1>4
  <1> QED BY <1>5 DEF LatestCommitHash, h, H

\* A push that overlaps with no other request, from any commit graph and
\* whatever fails, commits on its own branch, on top of the head it was
\* checked against, and answers the hash of its last commit, although
\* dolt-commit-import-cli.ts works on whatever branch is checked out.
THEOREM SoloPushesLand == Spec => []SoloPushLands
  <1>1. Init => SoloInv
    <2> SUFFICES ASSUME Init, NEW r \in Reqs PROVE SoloOK(reqs[r])
      BY DEF SoloInv
    <2>1. reqs[r] = Idle
      BY DEF Init
    <2> QED BY <2>1, IdleReqOK DEF SoloOK
  <1>2. RepoInv /\ ReqInv /\ SoloInv => SoloPushLands
    <2> SUFFICES ASSUME RepoInv, ReqInv, SoloInv, NEW r \in Reqs, At(r, "push", "hash"), reqs[r].alone
                 PROVE  LET made == reqs[r].made IN
                        /\ head[reqs[r].branch] = made[Len(made)]
                        /\ LatestCommitHash = made[Len(made)]
                        /\ reqs[r].base > 0 =>
                              commits[made[1]].ancestors = commits[reqs[r].from].ancestors \cup {made[1]}
      BY DEF SoloPushLands
    <2>1. LatestCommitHash = head[current]
      BY LatestIsHead DEF RepoInv
    <2> QED BY <2>1 DEF SoloInv, SoloOK, At, OnBranchPcs
  <1> QED BY <1>1, <1>2, SoloInvStep, ReqInvariant, PTL DEF Spec

=============================================================================
