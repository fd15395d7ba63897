----------------------------- MODULE Versioning -----------------------------
(***************************************************************************)
(* The requests on one repository: branches and merges, which the mutex    *)
(* serialises, and the commits of pushes, sync preferences and pulls,      *)
(* which it does not.  Every dolt command is a step of its own; what was   *)
(* read is kept in the request until the code uses it.  Requests that the  *)
(* role check of their route refuses (AuthAccounts) are left out.          *)
(***************************************************************************)
EXTENDS DoltRepo, RepoBranchMutex, SyncPreferences

CONSTANTS
    Starts,         \* situations a behaviour may start in
    MaxFaults       \* bound: commands that fail for reasons of their own

ASSUME VersioningAssumptions ==
    /\ MaxFaults \in Nat
    /\ \A s \in Starts :
          /\ s.load.ops \subseteq STRING /\ s.load.lists \subseteq SUBSET Tables
          /\ s.load.hashes \subseteq Nat /\ s.load.batch \in Nat /\ s.load.requests \in Nat
          /\ s.load.catalogs \subseteq SUBSET (Tables \X Tables)
          /\ s.pref \subseteq Tables
          /\ WellFormed(s.head, s.commits) /\ s.head[Main] # 0

VARIABLES
    load,           \* the workload: operations received, what they may name, foreign-key
                    \* catalogs met, bounds on commits of a push and on requests received
    pref,           \* tables of the stored sync preference, {} for none
    reqs,           \* reqs[r]: the request r is handling
    exports,        \* exports[r]: what the generator of a pull has listed and sent
    received, faults,
    deleted         \* history: branches that were deleted

vars == <<head, commits, current, working, staged, merging,
          tail, waitsFor, phase, line, load, pref, reqs, exports, received, faults, deleted>>

NoPlan == BuildPlan({}, {})

\* branch: the branch named; other: merge source or the branch that was
\* read; from: push or pull base, 0 when omitted; tables: tables of the
\* request; todo: tables left to import; left: commits left to import;
\* made: commits made; alone: no other request ran meanwhile (history);
\* base: the head that was read, -1 before.
Idle ==
    [op |-> "none", pc |-> "idle", branch |-> Nil, other |-> Nil, from |-> 0,
     tables |-> {}, todo |-> {}, left |-> 0, plan |-> NoPlan, made |-> <<>>,
     alone |-> FALSE, base |-> -1]

\* list: commits left; commit: the one being exported; todo: its tables left;
\* got: its tables whose schema was read; sent: the tables of the commits that
\* were yielded; cut: a failed look-up was swallowed (history).
NoExport ==
    [list |-> {}, commit |-> 0, todo |-> {}, got |-> {}, sent |-> {}, cut |-> FALSE]

At(r, op, pc) == reqs[r].op = op /\ reqs[r].pc = pc

Active(r) == reqs[r].pc # "idle"

Change(r, q) == reqs' = [reqs EXCEPT ![r] = q] /\ UNCHANGED <<received, faults>>

Goto(r, pc) == Change(r, [reqs[r] EXCEPT !.pc = pc])

OutsideMutex == UNCHANGED mutexVars

RepoUntouched == UNCHANGED doltVars

RestUntouched == UNCHANGED <<load, pref, deleted>>

\* Mutant of Leave.
LeaveHolding(r) == OutsideMutex

\* The handler ends: an action that ran under the mutex releases it.
Leave(r) == IF phase[r] = "inside" THEN Release(r) ELSE OutsideMutex

Answer(r) == Change(r, Idle) /\ Leave(r)

(***************************************************************************)
(* Receiving a request.                                                    *)
(***************************************************************************)
Receive(r, q) ==
    /\ ~Active(r) /\ q.op \in load.ops /\ received < load.requests
    /\ reqs' = [x \in Reqs |->
                   IF x = r THEN [q EXCEPT !.alone = \A y \in Reqs : ~Active(y)]
                   ELSE IF Active(x) THEN [reqs[x] EXCEPT !.alone = FALSE] ELSE reqs[x]]
    /\ received' = received + 1
    /\ UNCHANGED faults /\ OutsideMutex /\ RepoUntouched /\ RestUntouched

BranchRequest(r, op, b) == Receive(r, [Idle EXCEPT !.op = op, !.pc = "lookup", !.branch = b])

\* A merge without a target goes into the branch that is checked out.
MergeRequest(r, source, target) ==
    Receive(r, [Idle EXCEPT !.op = "merge", !.pc = "lookup", !.branch = target, !.other = source])

\* Without `from` the head of the branch is not looked at.
PushRequest(r, b, from, ts, count) ==
    Receive(r, [Idle EXCEPT !.op = "push", !.pc = IF from = 0 THEN "checkout" ELSE "head",
                            !.branch = b, !.from = from, !.tables = ts, !.todo = ts,
                            !.left = count])

\* onBeforePush and onPushCommitted of a gRPC push; its own table list, or
\* the stored one.
RecordRequest(r, ts) ==
    Receive(r, [Idle EXCEPT !.op = "record", !.pc = IF ts = {} THEN "prefs" ELSE "plan",
                            !.tables = ts])

PreferenceRequest(r, op, ts) ==
    Receive(r, [Idle EXCEPT !.op = op, !.pc = "plan", !.tables = ts])

PullRequest(r, b, from) ==
    Receive(r, [Idle EXCEPT !.op = "pull", !.pc = "head", !.branch = b, !.from = from])

(***************************************************************************)
(* runExclusive around the branch and merge operations.                    *)
(***************************************************************************)
EnterMutex(r) ==
    /\ reqs[r].pc = "lookup"
    /\ Enter(r) /\ Goto(r, "queued")
    /\ RepoUntouched /\ RestUntouched

RunAction(r) ==
    /\ reqs[r].pc = "queued"
    /\ Run(r) /\ Goto(r, "begin")
    /\ RepoUntouched /\ RestUntouched

(***************************************************************************)
(* BranchService                                                           *)
(***************************************************************************)
CreateBranch(r) ==
    /\ At(r, "create", "begin")
    /\ \/ RunCreateBranch(reqs[r].branch) /\ Goto(r, "readCurrent") /\ OutsideMutex
       \/ CreateBranchRefused(reqs[r].branch) /\ RepoUntouched /\ Answer(r)
    /\ RestUntouched

CreateReadCurrent(r) ==
    /\ At(r, "create", "readCurrent")
    /\ Answer(r)
    /\ RepoUntouched /\ RestUntouched

CheckoutBranch(r) ==
    /\ At(r, "checkout", "begin")
    /\ \/ RunCheckout(reqs[r].branch)
       \/ CheckoutRefused(reqs[r].branch) /\ RepoUntouched
    /\ Answer(r)
    /\ RestUntouched

\* Mutant of DeleteReadCurrent.
DeleteUnprotected(r) ==
    /\ At(r, "delete", "begin")
    /\ IF reqs[r].branch = current THEN Answer(r)
       ELSE Goto(r, "delete") /\ OutsideMutex
    /\ RepoUntouched /\ RestUntouched

\* Neither the branch that is checked out nor main may go.
DeleteReadCurrent(r) ==
    /\ At(r, "delete", "begin")
    /\ IF reqs[r].branch \in {current, Main} THEN Answer(r)
       ELSE Goto(r, "delete") /\ OutsideMutex
    /\ RepoUntouched /\ RestUntouched

DeleteBranch(r) ==
    /\ At(r, "delete", "delete")
    /\ \/ RunDeleteBranch(reqs[r].branch) /\ deleted' = deleted \cup {reqs[r].branch}
       \/ ~MayDelete(reqs[r].branch) /\ RepoUntouched /\ UNCHANGED deleted
    /\ Answer(r)
    /\ UNCHANGED <<load, pref>>

(***************************************************************************)
(* MergeService                                                            *)
(***************************************************************************)
MergeReadCurrent(r) ==
    /\ At(r, "merge", "begin")
    /\ Goto(r, IF reqs[r].branch \in {Nil, current} THEN "merge" ELSE "mergeCheckout")
    /\ OutsideMutex /\ RepoUntouched /\ RestUntouched

MergeCheckout(r) ==
    /\ At(r, "merge", "mergeCheckout")
    /\ \/ RunCheckout(reqs[r].branch) /\ Goto(r, "merge") /\ OutsideMutex
       \/ CheckoutRefused(reqs[r].branch) /\ RepoUntouched /\ Answer(r)
    /\ RestUntouched

Merge(r) ==
    /\ At(r, "merge", "merge")
    /\ \/ MergeRefused(reqs[r].other) /\ RepoUntouched /\ Answer(r)
       \/ /\ MayMerge(reqs[r].other) /\ UpToDate(reqs[r].other)
          /\ RepoUntouched /\ Answer(r)
       \/ /\ MergeFastForward(reqs[r].other) \/ MergeCommit(reqs[r].other)
          /\ Goto(r, "mergeHash") /\ OutsideMutex
       \/ MergeStops(reqs[r].other) /\ Goto(r, "conflicts") /\ OutsideMutex
    /\ RestUntouched

MergeReadHash(r) ==
    /\ At(r, "merge", "mergeHash")
    /\ Answer(r)
    /\ RepoUntouched /\ RestUntouched

\* Mutant of ReadConflicts.
ReadConflictsAndAnswer(r) ==
    /\ At(r, "merge", "conflicts")
    /\ Answer(r)
    /\ RepoUntouched /\ RestUntouched

ReadConflicts(r) ==
    /\ At(r, "merge", "conflicts")
    /\ Goto(r, "abort")
    /\ OutsideMutex /\ RepoUntouched /\ RestUntouched

\* MergeConflictError is thrown once the merge is aborted.
MergeAbort(r) ==
    /\ At(r, "merge", "abort")
    /\ RunMergeAbort
    /\ Answer(r)
    /\ RestUntouched

(***************************************************************************)
(* CommitImportService and runDoltCommitImport, outside the mutex.         *)
(***************************************************************************)
\* Mutant of HeadMatches.
HeadIsKnown(q) == BranchHead(q.branch) # 0

HeadMatches(q) == BranchHead(q.branch) \in {0, q.from}

ImportCheckHead(r) ==
    /\ At(r, "push", "head")
    /\ IF HeadMatches(reqs[r])
       THEN Change(r, [reqs[r] EXCEPT !.pc = "checkout", !.base = BranchHead(reqs[r].branch)])
       ELSE Change(r, Idle)
    /\ OutsideMutex /\ RepoUntouched /\ RestUntouched

\* A head look-up that fails returns null, and null is not compared.
ImportHeadLookupFails(r) ==
    /\ At(r, "push", "head") /\ faults < MaxFaults
    /\ faults' = faults + 1 /\ UNCHANGED received
    /\ reqs' = [reqs EXCEPT ![r].pc = "checkout"]
    /\ OutsideMutex /\ RepoUntouched /\ RestUntouched

\* Only a missing branch is created; any other refusal ends the push.
ImportCheckout(r) ==
    /\ At(r, "push", "checkout")
    /\ \/ RunCheckout(reqs[r].branch) /\ Goto(r, "import")
       \/ /\ CheckoutRefused(reqs[r].branch) /\ RepoUntouched
          /\ IF Exists(reqs[r].branch) THEN Change(r, Idle) ELSE Goto(r, "checkoutNew")
    /\ OutsideMutex /\ RestUntouched

ImportCheckoutNew(r) ==
    /\ At(r, "push", "checkoutNew")
    /\ \/ RunCheckoutNew(reqs[r].branch) /\ Goto(r, "import")
       \/ CheckoutNewRefused(reqs[r].branch) /\ RepoUntouched /\ Change(r, Idle)
    /\ OutsideMutex /\ RestUntouched

\* importTable: create or truncate, then load the rows.
ImportTable(r, t) ==
    /\ At(r, "push", "import") /\ t \in reqs[r].todo
    /\ WriteTable(t)
    /\ Change(r, [reqs[r] EXCEPT !.todo = @ \ {t},
                                 !.pc = IF reqs[r].todo = {t} THEN "add" ELSE "import"])
    /\ OutsideMutex /\ RestUntouched

\* A table was truncated and its rows cannot be loaded.
ImportTableBreaks(r, t) ==
    /\ At(r, "push", "import") /\ t \in reqs[r].todo /\ faults < MaxFaults
    /\ WriteTable(t)
    /\ faults' = faults + 1 /\ UNCHANGED received
    /\ reqs' = [reqs EXCEPT ![r] = Idle]
    /\ OutsideMutex /\ RestUntouched

ImportAdd(r) ==
    /\ At(r, "push", "add")
    /\ RunAdd(reqs[r].tables) /\ Goto(r, "commit")
    /\ OutsideMutex /\ RestUntouched

ImportCommit(r) ==
    /\ At(r, "push", "commit")
    /\ \/ RunCommit /\ Change(r, [reqs[r] EXCEPT !.pc = "hash", !.made = Append(@, Len(commits) + 1)])
       \/ CommitRefused /\ RepoUntouched /\ Change(r, Idle)
    /\ OutsideMutex /\ RestUntouched

\* The next commit of the batch starts at the checkout again.
ImportReadHash(r) ==
    /\ At(r, "push", "hash")
    /\ IF reqs[r].left = 1 THEN Change(r, Idle)
       ELSE Change(r, [reqs[r] EXCEPT !.pc = "checkout", !.left = @ - 1, !.todo = reqs[r].tables])
    /\ OutsideMutex /\ RepoUntouched /\ RestUntouched

(***************************************************************************)
(* SyncPreferenceService: upsert, preview, and the validation of a gRPC    *)
(* push, whose commit CommitService records.                               *)
(***************************************************************************)
ReadStoredPreference(r) ==
    /\ At(r, "record", "prefs")
    /\ Change(r, [reqs[r] EXCEPT !.pc = "plan", !.tables = pref])
    /\ OutsideMutex /\ RepoUntouched /\ RestUntouched

\* The catalog is that of the tables checked out when it is read; it is
\* not read for a plan without a table list.
ReadEdges(r, edges) ==
    /\ reqs[r].pc = "plan"
    /\ edges \in IF reqs[r].tables = {} THEN {{}} ELSE load.catalogs
    /\ Change(r, [reqs[r] EXCEPT !.plan = BuildPlan(reqs[r].tables, edges), !.pc = "planned"])
    /\ OutsideMutex /\ RepoUntouched /\ RestUntouched

AnswerPreview(r) ==
    /\ At(r, "preview", "planned")
    /\ Change(r, Idle)
    /\ OutsideMutex /\ RepoUntouched /\ RestUntouched

StorePreference(r) ==
    /\ At(r, "savePrefs", "planned")
    /\ pref' = IF NothingExcluded(reqs[r].plan) THEN reqs[r].plan.requested ELSE pref
    /\ Change(r, Idle)
    /\ OutsideMutex /\ RepoUntouched /\ UNCHANGED <<load, deleted>>

ValidatePushOptions(r) ==
    /\ At(r, "record", "planned")
    /\ IF NothingExcluded(reqs[r].plan) THEN Goto(r, "insert") ELSE Change(r, Idle)
    /\ OutsideMutex /\ RepoUntouched /\ RestUntouched

\* CREATE TABLE IF NOT EXISTS deltix_push_log, then the row of the push.
RecordInsert(r) ==
    /\ At(r, "record", "insert")
    /\ WriteTable(PushLog) /\ Goto(r, "add")
    /\ OutsideMutex /\ RestUntouched

\* add the resolved tables, or add -A.
RecordAdd(r) ==
    /\ At(r, "record", "add")
    /\ RunAdd(IF reqs[r].plan.resolved # {} THEN reqs[r].plan.resolved ELSE AllTables)
    /\ Goto(r, "commit")
    /\ OutsideMutex /\ RestUntouched

RecordCommit(r) ==
    /\ At(r, "record", "commit")
    /\ \/ RunCommit /\ Goto(r, "hash")
       \/ CommitRefused /\ RepoUntouched /\ Change(r, Idle)
    /\ OutsideMutex /\ RestUntouched

RecordReadHash(r) ==
    /\ At(r, "record", "hash")
    /\ Change(r, Idle)
    /\ OutsideMutex /\ RepoUntouched /\ RestUntouched

(***************************************************************************)
(* CommitExportService: the head that is announced, then the generator of  *)
(* dolt-commit-export-cli.ts, a query at a time.                           *)
(***************************************************************************)
PullReadHead(r) ==
    /\ At(r, "pull", "head")
    /\ IF Exists(reqs[r].branch)
       THEN Change(r, [reqs[r] EXCEPT !.pc = "stream", !.base = BranchHead(reqs[r].branch)])
       ELSE Change(r, Idle)
    /\ OutsideMutex /\ RepoUntouched /\ RestUntouched

ReadsOnly == OutsideMutex /\ RepoUntouched /\ RestUntouched

SetExport(r, x) == exports' = [exports EXCEPT ![r] = x]

\* The query fails; the generator goes on at pc without its result.
Swallow(r, pc) ==
    /\ faults < MaxFaults
    /\ faults' = faults + 1 /\ UNCHANGED received
    /\ reqs' = [reqs EXCEPT ![r].pc = pc]

\* queryCommitsSince; without the branch the stream ends in an error.
PullList(r) ==
    LET b == reqs[r].branch IN
    /\ At(r, "pull", "stream")
    /\ \/ ~Exists(b) /\ Change(r, Idle) /\ UNCHANGED exports
       \/ /\ Exists(b) /\ Goto(r, "diff")
          /\ SetExport(r, [NoExport EXCEPT !.list = CommitsSince(b, reqs[r].from)])
    /\ ReadsOnly

\* The filtered query fails for a reason of its own: the whole history is listed.
PullListAll(r) ==
    LET b == reqs[r].branch IN
    /\ At(r, "pull", "stream") /\ reqs[r].from # 0 /\ Exists(b)
    /\ Swallow(r, "diff")
    /\ SetExport(r, [NoExport EXCEPT !.list = History(b)])
    /\ ReadsOnly

\* The oldest commit left.
NextCommit(r, c) == c \in exports[r].list /\ \A d \in exports[r].list : c <= d

\* changedTables; a commit without a diff (dolt init) is skipped.
PullDiff(r, c) ==
    /\ At(r, "pull", "diff") /\ NextCommit(r, c)
    /\ Goto(r, IF commits[c].tables = {} THEN "diff" ELSE "export")
    /\ SetExport(r, [exports[r] EXCEPT !.list = @ \ {c}, !.commit = c,
                                       !.todo = commits[c].tables, !.got = {}])
    /\ ReadsOnly

\* The catch of changedTables takes any failure for the root commit's.
PullDiffSwallowed(r, c) ==
    /\ At(r, "pull", "diff") /\ NextCommit(r, c)
    /\ Swallow(r, "diff")
    /\ SetExport(r, [exports[r] EXCEPT !.list = @ \ {c}, !.cut = TRUE])
    /\ ReadsOnly

\* exportTable: the schema, then (PullData) the rows.
PullSchema(r, t) ==
    /\ At(r, "pull", "export") /\ t \in exports[r].todo
    /\ Goto(r, "data")
    /\ SetExport(r, [exports[r] EXCEPT !.todo = @ \ {t}, !.got = @ \cup {t}])
    /\ ReadsOnly

\* A table whose schema cannot be read is left out, with a warning in the log.
PullSchemaSwallowed(r, t) ==
    /\ At(r, "pull", "export") /\ t \in exports[r].todo
    /\ Swallow(r, "export")
    /\ SetExport(r, [exports[r] EXCEPT !.todo = @ \ {t}, !.cut = TRUE])
    /\ ReadsOnly

PullData(r) ==
    /\ At(r, "pull", "data")
    /\ Goto(r, "export") /\ UNCHANGED exports
    /\ ReadsOnly

\* The line of the commit is written to the stream.
PullYield(r) ==
    /\ At(r, "pull", "export") /\ exports[r].todo = {}
    /\ Goto(r, "diff")
    /\ SetExport(r, [exports[r] EXCEPT !.sent = @ \cup ({exports[r].commit} \X exports[r].got)])
    /\ ReadsOnly

\* Every commit has been seen to: the stream ends well.
PullDone(r) == At(r, "pull", "diff") /\ exports[r].list = {}

PullClose(r) ==
    /\ PullDone(r)
    /\ Change(r, Idle) /\ SetExport(r, NoExport)
    /\ ReadsOnly

(***************************************************************************)
(* A dolt command fails for a reason of its own (its lock is held, the     *)
(* disk is full, its output cannot be parsed): the wrapper throws and the  *)
(* handler ends where it is.                                               *)
(***************************************************************************)
CommandFails(r) ==
    /\ Active(r) /\ reqs[r].pc \notin {"lookup", "queued"}
    /\ ~(At(r, "push", "head") \/ At(r, "record", "planned") \/ At(r, "preview", "planned"))
    /\ faults < MaxFaults
    /\ faults' = faults + 1 /\ UNCHANGED received
    /\ reqs' = [reqs EXCEPT ![r] = Idle]
    /\ Leave(r)
    /\ RepoUntouched /\ RestUntouched

(***************************************************************************)
(* The repository's requests.                                              *)
(***************************************************************************)
Init ==
    \E s \in Starts :
        /\ load = s.load /\ pref = s.pref
        /\ head = s.head /\ commits = s.commits /\ current = Main
        /\ working = {} /\ staged = {} /\ merging = {} /\ deleted = {}
        /\ reqs = [r \in Reqs |-> Idle] /\ received = 0 /\ faults = 0
        /\ exports = [r \in Reqs |-> NoExport]
        /\ MutexInit

Arrival(r) ==
    \/ \E b \in Branches, op \in {"create", "checkout", "delete"} : BranchRequest(r, op, b)
    \/ \E b \in Branches, t \in Branches \cup {Nil} : MergeRequest(r, b, t)
    \/ \E b \in Branches, from \in load.hashes, ts \in load.lists \ {{}}, n \in 1..load.batch :
          PushRequest(r, b, from, ts, n)
    \/ \E ts \in load.lists : RecordRequest(r, ts)
    \/ \E op \in {"savePrefs", "preview"}, ts \in load.lists : PreferenceRequest(r, op, ts)
    \/ \E b \in Branches, from \in load.hashes : PullRequest(r, b, from)

Handle(r) ==
    \/ EnterMutex(r) \/ RunAction(r)
    \/ CreateBranch(r) \/ CreateReadCurrent(r) \/ CheckoutBranch(r)
    \/ DeleteReadCurrent(r) \/ DeleteBranch(r)
    \/ MergeReadCurrent(r) \/ MergeCheckout(r) \/ Merge(r) \/ MergeReadHash(r)
    \/ ReadConflicts(r) \/ MergeAbort(r)
    \/ ImportCheckHead(r) \/ ImportHeadLookupFails(r)
    \/ ImportCheckout(r) \/ ImportCheckoutNew(r)
    \/ \E t \in Tables : ImportTable(r, t) \/ ImportTableBreaks(r, t)
    \/ ImportAdd(r) \/ ImportCommit(r) \/ ImportReadHash(r)
    \/ ReadStoredPreference(r) \/ \E edges \in load.catalogs \cup {{}} : ReadEdges(r, edges)
    \/ AnswerPreview(r) \/ StorePreference(r) \/ ValidatePushOptions(r)
    \/ RecordInsert(r) \/ RecordAdd(r) \/ RecordCommit(r) \/ RecordReadHash(r)
    \/ PullReadHead(r) \/ CommandFails(r)

Export(r) ==
    \/ PullList(r) \/ PullListAll(r) \/ PullData(r) \/ PullYield(r) \/ PullClose(r)
    \/ \E c \in exports[r].list : PullDiff(r, c) \/ PullDiffSwallowed(r, c)
    \/ \E t \in exports[r].todo : PullSchema(r, t) \/ PullSchemaSwallowed(r, t)

Serve(r) == (Handle(r) /\ UNCHANGED exports) \/ Export(r)

Next == \E r \in Reqs : (Arrival(r) /\ UNCHANGED exports) \/ Serve(r)

Spec == Init /\ [][Next]_vars

\* The event loop resumes every handler and every dolt process ends.
FairSpec == Spec /\ \A r \in Reqs : WF_vars(Serve(r))

(***************************************************************************)
(* Properties.                                                             *)
(***************************************************************************)
Ops == {"none", "create", "checkout", "delete", "merge", "push", "record",
        "savePrefs", "preview", "pull"}

\* Where the code of a handler can be.
Pcs == {"idle", "lookup", "queued", "begin", "readCurrent", "delete", "mergeCheckout", "merge",
        "mergeHash", "conflicts", "abort", "head", "checkout", "checkoutNew", "import", "add",
        "commit", "hash", "prefs", "plan", "planned", "insert", "stream",
        "diff", "export", "data"}

Requests ==
    [op : Ops, pc : Pcs, branch : Branches \cup {Nil}, other : Branches \cup {Nil},
     from : Nat, tables : SUBSET Tables, todo : SUBSET Tables, left : Nat,
     plan : [requested : SUBSET Tables, edges : SUBSET (Tables \X Tables),
             resolved : SUBSET Tables],
     made : Seq(1..MaxCommits), alone : BOOLEAN, base : -1..MaxCommits]

Exports ==
    [list : SUBSET (1..MaxCommits), commit : 0..MaxCommits, todo : SUBSET AllTables,
     got : SUBSET AllTables, sent : SUBSET ((1..MaxCommits) \X AllTables), cut : BOOLEAN]

\* State is what the code can hold; a branch is always checked out and main
\* is always there.
VersioningTypeOK ==
    /\ DoltTypeOK /\ Exists(Main)
    /\ MutexTypeOK
    /\ pref \subseteq Tables
    /\ reqs \in [Reqs -> Requests] /\ exports \in [Reqs -> Exports]
    /\ received \in 0..load.requests /\ faults \in 0..MaxFaults

\* A commit that a branch reached stays reachable from a branch: no merge,
\* push or delete loses what another developer committed.
CommitsStayReachable == [][Reachable \subseteq Reachable']_vars

\* A push that no other request overlaps lands where it was sent: its
\* commits end on its branch, the hash it answers is its last commit, and
\* its first commit follows the head it was checked against.
SoloPushLands ==
    \A r \in Reqs :
        At(r, "push", "hash") /\ reqs[r].alone =>
            LET made == reqs[r].made IN
            /\ head[reqs[r].branch] = made[Len(made)]
            /\ LatestCommitHash = made[Len(made)]
            /\ reqs[r].base > 0 =>
                  commits[made[1]].ancestors = commits[reqs[r].from].ancestors \cup {made[1]}

\* A merge with conflicts belongs to the request that will abort it: it
\* outlives that request only when a command failed.
MergeHasOwner ==
    InMerge /\ faults = 0 =>
        \E r \in Reqs : phase[r] = "inside" /\ reqs[r].pc \in {"conflicts", "abort"}

\* commit-export.service.ts:69-74: a pull that ends well, and whose look-ups
\* did not fail, has sent every table of every commit of the head it announced
\* that its client does not have, whatever moved the branch in between.
PullCoversHead ==
    \A r \in Reqs :
        PullDone(r) /\ ~exports[r].cut /\ reqs[r].branch \notin deleted =>
            \A c \in commits[reqs[r].base].ancestors :
                \/ reqs[r].from \in DOMAIN commits /\ c \in commits[reqs[r].from].ancestors
                \/ {c} \X commits[c].tables \subseteq exports[r].sent

\* A plan holds exactly what the requested tables reference, directly or
\* not, and a push or a preference that is accepted leaves none of it out.
PlanIsLeastClosure ==
    \A r \in Reqs :
        LET plan == reqs[r].plan IN
        /\ plan.resolved = IF plan.requested = {} THEN {}
                           ELSE LeastClosure(plan.requested, plan.edges)
        /\ reqs[r].pc \in {"insert", "add", "commit", "hash"} => Closed(plan.resolved, plan.edges)
                                                             /\ plan.resolved = plan.requested

\* Every request is answered: nobody waits for the mutex for ever.
EveryRequestAnswered == \A r \in Reqs : Active(r) ~> ~Active(r)

=============================================================================
