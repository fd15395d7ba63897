------------------------------- MODULE NasSync -------------------------------
(***************************************************************************)
(* SSD staging -> NAS sync (contexts/storage): NasSyncWorker instances     *)
(* drain transfer jobs through NasSyncService, LibsqlTransferJobStore and  *)
(* LocalFsNasAdapter, while push sessions insert jobs and operators        *)
(* requeue dead letters.  A step is what happens between two awaits; each  *)
(* SQL statement is atomic.                                                *)
(***************************************************************************)
EXTENDS Integers, FiniteSets

CONSTANTS
    Jobs,           \* transfer job ids
    Workers,        \* NasSyncWorker instances (one per server process)
    Repos,          \* repositories
    MaxRetries,     \* DELTIX_TRANSFER_JOB_MAX_RETRIES
    ClaimBatch,     \* LIMIT of the candidate query (5)
    ClaimAttempts,  \* rounds of the claim loop (5)
    BackoffBase, BackoffMax,
    MaxTime,        \* bound: the clock, and every retry time, stop here
    MaxRequeues,    \* bound: operator requeues
    MaxFaults,      \* bound: crashes and failing SQL statements
    Nil

ASSUME NasAssumptions ==
    /\ MaxRetries \in Nat \ {0}
    /\ ClaimBatch \in Nat \ {0} /\ ClaimAttempts \in Nat \ {0}
    /\ BackoffBase \in Nat /\ BackoffMax \in Nat
    /\ MaxTime \in Nat /\ MaxRequeues \in Nat /\ MaxFaults \in Nat
    /\ Nil \notin Jobs \cup Repos /\ Nil \notin [job : Jobs, intact : BOOLEAN]
    /\ \A n \in 0..MaxRetries : 2 ^ n \in Nat

VARIABLES
    clock,          \* Date.now()
    jobs,           \* table transfer_jobs
    workers,        \* the call of processNext each worker is in
    nas,            \* per repository: the upload repo.dolt holds
    requeues, faults

nasVars == <<clock, jobs, workers, nas, requeues, faults>>

JobStatus == {"absent", "staged", "syncing", "synced", "sync_failed", "dead_letter"}

\* whole: the staging file holds all the bytes the job's checksum was taken of.
Job ==
    [status : JobStatus, repo : Repos \cup {Nil}, retry : Nat,
     nextRetry : Nat, createdAt : Nat, whole : BOOLEAN]

NoJob ==
    [status |-> "absent", repo |-> Nil, retry |-> 0, nextRetry |-> 0, createdAt |-> 0,
     whole |-> FALSE]

Worker ==
    [pc : {"idle", "select", "try", "read", "copy", "rename", "markSynced", "markFailed"},
     now : Nat, attempt : Nat, cand : SUBSET Jobs,
     job : Jobs \cup {Nil}, retry : Nat, intact : BOOLEAN]

IdleWorker ==
    [pc |-> "idle", now |-> 0, attempt |-> 0, cand |-> {}, job |-> Nil,
     retry |-> 0, intact |-> FALSE]

NasFile == [job : Jobs, intact : BOOLEAN]

Owning == {"read", "copy", "rename", "markSynced", "markFailed"}

\* Worker w has claimed job j and still works on it.
Owns(w, j) == workers[w].pc \in Owning /\ workers[w].job = j

Owned(j) == \E w \in Workers : Owns(w, j)

\* A claimed job that nobody works on any more.
Stranded(j) == jobs[j].status = "syncing" /\ ~Owned(j)

Minimum(a, b) == IF a <= b THEN a ELSE b

\* computeBackoffMs
Backoff(retryCount) == Minimum(BackoffBase * 2 ^ retryCount, BackoffMax)

Step(w, wk) == workers' = [workers EXCEPT ![w] = wk]

SetStatus(j, status) == jobs' = [jobs EXCEPT ![j].status = status]

----------------------------------------------------------------------------
(* PushSessionHandler.finish inserts the row of a completed upload.        *)

\* created_at was read before onBeforePush ran, so rows may appear out of order;
\* the staging sink was ended but not awaited, so its file is whole only later,
\* be it at once (FlushStaging).
Create(j, r, at) ==
    /\ jobs[j].status = "absent"
    /\ at <= clock
    /\ jobs' = [jobs EXCEPT ![j] =
            [status |-> "staged", repo |-> r, retry |-> 0,
             nextRetry |-> 0, createdAt |-> at, whole |-> FALSE]]
    /\ UNCHANGED <<clock, workers, nas, requeues, faults>>

\* What the sink still buffered reaches the disk; a failed write never does.
FlushStaging(j) ==
    /\ jobs[j].status # "absent" /\ ~jobs[j].whole
    /\ jobs' = [jobs EXCEPT ![j].whole = TRUE]
    /\ UNCHANGED <<clock, workers, nas, requeues, faults>>

----------------------------------------------------------------------------
(* NasSyncWorker.drainOnce and claimNextEligible.                          *)

\* Mutant: only fresh jobs are selected.
EligibleStaged(j, now) == jobs[j].status = "staged"

\* The WHERE clause of the candidate query and of the claiming UPDATE.
Eligible(j, now) ==
    \/ jobs[j].status = "staged"
    \/ jobs[j].status = "sync_failed" /\ jobs[j].nextRetry <= now

\* The timer fires or the drain loop goes round; `draining` keeps a worker
\* from starting a second drain.
Poll(w) ==
    /\ workers[w].pc = "idle"
    /\ Step(w, [IdleWorker EXCEPT !.pc = "select", !.now = clock])
    /\ UNCHANGED <<clock, jobs, nas, requeues, faults>>

\* C is what ORDER BY created_at LIMIT ClaimBatch may return.
Candidates(C, now) ==
    LET E == {j \in Jobs : Eligible(j, now)} IN
    /\ C \subseteq E
    /\ Cardinality(C) = Minimum(ClaimBatch, Cardinality(E))
    /\ \A j \in C, k \in E \ C : jobs[j].createdAt <= jobs[k].createdAt

ClaimSelect(w) ==
    /\ workers[w].pc = "select"
    /\ \E C \in SUBSET Jobs :
        /\ Candidates(C, workers[w].now)
        /\ Step(w, IF C = {} THEN IdleWorker
                   ELSE [workers[w] EXCEPT !.pc = "try", !.cand = C])
    /\ UNCHANGED <<clock, jobs, nas, requeues, faults>>

\* Candidate j is the next row of the loop.
NextCandidate(w, j) ==
    /\ workers[w].pc = "try"
    /\ j \in workers[w].cand
    /\ \A k \in workers[w].cand : jobs[j].createdAt <= jobs[k].createdAt

\* Mutant: UPDATE ... WHERE id = ? without the status condition.
ClaimTryUnconditional(w, j) ==
    /\ NextCandidate(w, j)
    /\ SetStatus(j, "syncing")
    /\ Step(w, [IdleWorker EXCEPT !.pc = "read", !.job = j])
    /\ UNCHANGED <<clock, nas, requeues, faults>>

\* The conditional UPDATE; a job another worker took meanwhile is skipped.
ClaimTry(w, j) ==
    /\ NextCandidate(w, j)
    /\ \/ /\ Eligible(j, workers[w].now)
          /\ SetStatus(j, "syncing")
          /\ Step(w, [IdleWorker EXCEPT !.pc = "read", !.job = j])
       \/ /\ ~Eligible(j, workers[w].now)
          /\ Step(w, [workers[w] EXCEPT !.cand = @ \ {j}])
          /\ UNCHANGED jobs
    /\ UNCHANGED <<clock, nas, requeues, faults>>

\* Every candidate was lost: another round with the same `now`, or give up.
ClaimNextRound(w) ==
    /\ workers[w].pc = "try" /\ workers[w].cand = {}
    /\ Step(w, IF workers[w].attempt + 1 < ClaimAttempts
                 THEN [workers[w] EXCEPT !.pc = "select", !.attempt = @ + 1]
                 ELSE IdleWorker)
    /\ UNCHANGED <<clock, jobs, nas, requeues, faults>>

\* `return this.get(id)` after the claim.
ClaimRead(w) ==
    /\ workers[w].pc = "read"
    /\ Step(w, [workers[w] EXCEPT !.pc = "copy", !.retry = jobs[workers[w].job].retry])
    /\ UNCHANGED <<clock, jobs, nas, requeues, faults>>

----------------------------------------------------------------------------
(* NasSyncService.processNext and LocalFsNasAdapter.copyToNas.             *)

\* What the staging file holds reaches the temporary file intact or not, or an
\* error is thrown; a copy of an unfinished staging file is not intact.
Copy(w) ==
    /\ workers[w].pc = "copy"
    /\ \/ \E good \in BOOLEAN :
            /\ good => jobs[workers[w].job].whole
            /\ Step(w, [workers[w] EXCEPT !.pc = "rename", !.intact = good])
       \/ Step(w, [workers[w] EXCEPT !.pc = "markFailed"])
    /\ UNCHANGED <<clock, jobs, nas, requeues, faults>>

\* Mutant: processNext does not compare the checksums.
RenameUnchecked(w) ==
    LET j == workers[w].job IN
    /\ workers[w].pc = "rename"
    /\ nas' = [nas EXCEPT ![jobs[j].repo] = [job |-> j, intact |-> workers[w].intact]]
    /\ Step(w, [workers[w] EXCEPT !.pc = "markSynced"])
    /\ UNCHANGED <<clock, jobs, requeues, faults>>

\* rename() makes the copy visible; only then does the service compare the
\* checksum of the copied bytes with the job's.
Rename(w) ==
    LET j == workers[w].job IN
    /\ workers[w].pc = "rename"
    /\ nas' = [nas EXCEPT ![jobs[j].repo] = [job |-> j, intact |-> workers[w].intact]]
    /\ Step(w, [workers[w] EXCEPT !.pc = IF workers[w].intact THEN "markSynced" ELSE "markFailed"])
    /\ UNCHANGED <<clock, jobs, requeues, faults>>

\* The second mkdir, or rename() itself, threw; the temporary file is unlinked.
RenameFails(w) ==
    /\ workers[w].pc = "rename"
    /\ Step(w, [workers[w] EXCEPT !.pc = "markFailed"])
    /\ UNCHANGED <<clock, jobs, nas, requeues, faults>>

\* UPDATE ... WHERE id = ? AND status = 'syncing'; the boolean is not looked at.
MarkSynced(w) ==
    LET j == workers[w].job IN
    /\ workers[w].pc = "markSynced"
    /\ IF jobs[j].status = "syncing" THEN SetStatus(j, "synced") ELSE UNCHANGED jobs
    /\ Step(w, IdleWorker)
    /\ UNCHANGED <<clock, nas, requeues, faults>>

\* The catch clause covers markSynced too.
MarkSyncedThrows(w) ==
    /\ workers[w].pc = "markSynced"
    /\ Step(w, [workers[w] EXCEPT !.pc = "markFailed"])
    /\ UNCHANGED <<clock, jobs, nas, requeues, faults>>

\* Mutant: the budget is compared with > instead of >=.
MarkFailedLate(w) ==
    LET j == workers[w].job IN
    /\ workers[w].pc = "markFailed"
    /\ IF jobs[j].status = "syncing"
         THEN jobs' = [jobs EXCEPT ![j] =
                [jobs[j] EXCEPT
                    !.status = IF jobs[j].retry + 1 > MaxRetries
                                 THEN "dead_letter" ELSE "sync_failed",
                    !.retry = @ + 1,
                    !.nextRetry = Minimum(clock + Backoff(workers[w].retry), MaxTime)]]
         ELSE UNCHANGED jobs
    /\ Step(w, IdleWorker)
    /\ UNCHANGED <<clock, nas, requeues, faults>>

\* The row's own counters decide; the backoff uses the count read at the claim.
MarkFailed(w) ==
    LET j == workers[w].job IN
    /\ workers[w].pc = "markFailed"
    /\ IF jobs[j].status = "syncing"
         THEN jobs' = [jobs EXCEPT ![j] =
                [jobs[j] EXCEPT
                    !.status = IF jobs[j].retry + 1 >= MaxRetries
                                 THEN "dead_letter" ELSE "sync_failed",
                    !.retry = @ + 1,
                    !.nextRetry = Minimum(clock + Backoff(workers[w].retry), MaxTime)]]
         ELSE UNCHANGED jobs
    /\ Step(w, IdleWorker)
    /\ UNCHANGED <<clock, nas, requeues, faults>>

----------------------------------------------------------------------------
(* Operators, failures, time.                                              *)

\* Mutant: the counter of the previous life is kept.
RequeueKeepsCount(j) ==
    /\ jobs[j].status = "dead_letter"
    /\ requeues < MaxRequeues
    /\ SetStatus(j, "staged")
    /\ requeues' = requeues + 1
    /\ UNCHANGED <<clock, workers, nas, faults>>

\* Mutant: a job that looks stuck may be requeued as well.
RequeueStuck(j) ==
    /\ jobs[j].status \in {"syncing", "dead_letter"}
    /\ requeues < MaxRequeues
    /\ jobs' = [jobs EXCEPT ![j].status = "staged", ![j].retry = 0]
    /\ requeues' = requeues + 1
    /\ UNCHANGED <<clock, workers, nas, faults>>

\* POST /transfer-jobs/dead-letter/retry; 404 when the job is not a dead letter.
RequeueDeadLetter(j) ==
    /\ jobs[j].status = "dead_letter"
    /\ requeues < MaxRequeues
    /\ jobs' = [jobs EXCEPT ![j].status = "staged", ![j].retry = 0]
    /\ requeues' = requeues + 1
    /\ UNCHANGED <<clock, workers, nas, faults>>

\* The process dies, or a claim, the read after it or markFailed throws
\* (drainOnce logs it and waits for the next tick): the call is lost.  No code
\* path looks at 'syncing' rows again, at boot or later.
Abandon(w) ==
    /\ workers[w].pc # "idle"
    /\ faults < MaxFaults
    /\ Step(w, IdleWorker)
    /\ faults' = faults + 1
    /\ UNCHANGED <<clock, jobs, nas, requeues>>

Tick ==
    /\ clock < MaxTime
    /\ clock' = clock + 1
    /\ UNCHANGED <<jobs, workers, nas, requeues, faults>>

NasInit ==
    /\ clock = 0
    /\ jobs = [j \in Jobs |-> NoJob]
    /\ workers = [w \in Workers |-> IdleWorker]
    /\ nas = [r \in Repos |-> Nil]
    /\ requeues = 0
    /\ faults = 0

WorkerStep(w) ==
    \/ Poll(w) \/ ClaimSelect(w) \/ (\E j \in Jobs : ClaimTry(w, j))
    \/ ClaimNextRound(w) \/ ClaimRead(w)
    \/ Copy(w) \/ Rename(w) \/ RenameFails(w)
    \/ MarkSynced(w) \/ MarkSyncedThrows(w) \/ MarkFailed(w)

NasNext ==
    \/ \E j \in Jobs, r \in Repos, at \in 0..MaxTime : Create(j, r, at)
    \/ \E w \in Workers : WorkerStep(w) \/ Abandon(w)
    \/ \E j \in Jobs : FlushStaging(j) \/ RequeueDeadLetter(j)
    \/ Tick

\* setInterval keeps polling, awaits resolve and time passes.
NasFairness == WF_nasVars(Tick) /\ \A w \in Workers : WF_nasVars(WorkerStep(w))

NasSpec == NasInit /\ [][NasNext]_nasVars

NasFairSpec == NasSpec /\ NasFairness

----------------------------------------------------------------------------
(* Properties.                                                             *)

\* Rows, worker calls and NAS files are well formed, within the bounds.
NasTypeOK ==
    /\ clock \in 0..MaxTime
    /\ jobs \in [Jobs -> Job]
    /\ \A j \in Jobs : jobs[j].retry <= MaxRetries /\ jobs[j].nextRetry <= MaxTime
    /\ workers \in [Workers -> Worker]
    /\ nas \in [Repos -> NasFile \cup {Nil}]
    /\ requeues \in 0..MaxRequeues /\ faults \in 0..MaxFaults

\* storage/README.md:28-32 "without double-processing": a worker past its
\* claim is the only one on the job, the row is still 'syncing', and the retry
\* count it will compute the backoff from is still the row's.  This is why
\* processNext may ignore the booleans of markSynced and markFailed.
ClaimExclusive ==
    \A w \in Workers, j \in Jobs :
        Owns(w, j) =>
            /\ jobs[j].status = "syncing"
            /\ \A v \in Workers : Owns(v, j) => v = w
            /\ workers[w].pc # "read" => workers[w].retry = jobs[j].retry

\* markFailed's CASE (libsql-transfer-job-store.ts:142-157): a job gets exactly
\* MaxRetries attempts per life.  It is retried while some are left, is a dead
\* letter when they are used up, and starts afresh after a requeue.
RetryBudget ==
    \A j \in Jobs :
        /\ jobs[j].status \in {"absent", "staged"} => jobs[j].retry = 0
        /\ jobs[j].status \in {"syncing", "synced"} => jobs[j].retry < MaxRetries
        /\ jobs[j].status = "sync_failed" => jobs[j].retry \in 1..MaxRetries - 1
        /\ jobs[j].status = "dead_letter" => jobs[j].retry = MaxRetries

\* pull-session-handler.ts:7-14: once a job is synced its repository can be
\* pulled, and what is pulled is not a damaged copy of that job.  A job whose
\* row was inserted before its staging file was flushed, or whose flush failed,
\* is never taken for synced: only a whole staging file passes the checksum.
SyncedIsReadable ==
    \A j \in Jobs :
        jobs[j].status = "synced" =>
            /\ jobs[j].whole
            /\ nas[jobs[j].repo] # Nil
            /\ nas[jobs[j].repo].job = j => nas[jobs[j].repo].intact

\* The store and its users implement the abstract life of a job.
Lifecycle ==
    INSTANCE TransferJobLifecycle WITH
        status <- [j \in Jobs |-> jobs[j].status],
        retry <- [j \in Jobs |-> jobs[j].retry],
        inFlight <- {j \in Jobs : Owned(j)}

RefinesLifecycle == Lifecycle!LifecycleSpec

\* nas-sync.service.ts:7-9: a job waiting to be synced is synced, or ends on
\* the operator's list, unless the worker that claimed it died.
JobSettles ==
    \A j \in Jobs :
        jobs[j].status \in {"staged", "sync_failed"} ~>
            (jobs[j].status \in {"synced", "dead_letter"} \/ Stranded(j))

\* storage/README.md:28-32 "without double-processing or losing one" and l.51
\* "data is never silently dropped; an operator must act": a job that is being
\* synced always leaves that state, for synced, a retry or the dead letters.
SyncingEnds ==
    \A j \in Jobs : jobs[j].status = "syncing" ~> jobs[j].status # "syncing"

\* local-fs-nas-adapter.ts:32-34 "Write to a temp path first, verify, THEN
\* atomically rename into place": repo.dolt never holds an unverified copy.
NasShowsVerifiedBytes ==
    \A r \in Repos : nas[r] # Nil => nas[r].intact

=============================================================================
