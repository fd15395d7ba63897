---------------------------- MODULE NasSyncProofs ----------------------------
(***************************************************************************)
(* Proofs about the NAS sync pipeline, for any number of jobs, workers and *)
(* repositories, any retry budget and any number of crashes.               *)
(***************************************************************************)
EXTENDS NasSync, TLAPS

----------------------------------------------------------------------------
(* The inductive invariant: the properties, and what a worker knows of its *)
(* job in each phase.                                                      *)

\* A worker past its claim names a job; a job that exists has a repository.
NasShape ==
    /\ \A w \in Workers : workers[w].pc \in Owning => workers[w].job \in Jobs
    /\ \A j \in Jobs : jobs[j].status # "absent" => jobs[j].repo \in Repos

\* A worker about to mark a job synced has put an intact copy on the NAS; only
\* a copy of another job can have replaced it.  An intact copy comes from a
\* whole staging file, which stays whole.
MarkReady ==
    \A w \in Workers :
        LET j == workers[w].job IN
        /\ workers[w].pc = "rename" /\ workers[w].intact => jobs[j].whole
        /\ workers[w].pc = "markSynced" =>
            /\ jobs[j].whole
            /\ nas[jobs[j].repo] # Nil
            /\ nas[jobs[j].repo].job = j => nas[jobs[j].repo].intact

NasIInv ==
    /\ NasTypeOK
    /\ NasShape
    /\ ClaimExclusive
    /\ RetryBudget
    /\ MarkReady
    /\ SyncedIsReadable

----------------------------------------------------------------------------
(* The helpers.                                                            *)

\* The smaller of two numbers is a number, and at most each of them.
LEMMA MinimumType ==
  ASSUME NEW a \in Nat, NEW b \in Nat
  PROVE  Minimum(a, b) \in Nat /\ Minimum(a, b) <= a /\ Minimum(a, b) <= b
  BY DEF Minimum

\* The delay before a retry is a number.
LEMMA BackoffType ==
  ASSUME NEW n \in 0..MaxRetries
  PROVE  Backoff(n) \in Nat
<1>1. BackoffBase * 2 ^ n \in Nat
  <2> DEFINE p == 2 ^ n
  <2>1. p \in Nat /\ BackoffBase \in Nat
    BY NasAssumptions
  <2> HIDE DEF p
  <2>2. BackoffBase * p \in Nat
    BY <2>1
  <2>3. QED BY <2>2 DEF p
<1> DEFINE q == BackoffBase * 2 ^ n
<1> HIDE DEF q
<1>2. Minimum(q, BackoffMax) \in Nat
  BY <1>1, NasAssumptions, MinimumType DEF q
<1>3. QED BY <1>2 DEF Backoff, q

\* A worker between two calls of processNext.
LEMMA IdleWorkerType ==
  /\ IdleWorker \in Worker /\ IdleWorker.pc = "idle" /\ IdleWorker.pc \notin Owning
  /\ IdleWorker.pc # "rename" /\ IdleWorker.pc # "markSynced"
  BY DEF IdleWorker, Worker, Owning

\* The invariant holds when the pipeline starts.
LEMMA NasIInvInit == NasInit => NasIInv
<1> SUFFICES ASSUME NasInit PROVE NasIInv
  OBVIOUS
<1>1. NasTypeOK
  <2>1. NoJob \in Job
    BY DEF NoJob, Job, JobStatus
  <2>2. jobs \in [Jobs -> Job]
    BY <2>1 DEF NasInit
  <2>3. \A j \in Jobs : jobs[j].retry = 0 /\ jobs[j].nextRetry = 0
    BY DEF NasInit, NoJob
  <2>4. workers \in [Workers -> Worker]
    BY IdleWorkerType DEF NasInit
  <2>5. nas \in [Repos -> NasFile \cup {Nil}]
    BY DEF NasInit
  <2>6. \A j \in Jobs : jobs[j].retry <= MaxRetries /\ jobs[j].nextRetry <= MaxTime
    BY <2>3, NasAssumptions
  <2>7. clock \in 0..MaxTime /\ requeues \in 0..MaxRequeues /\ faults \in 0..MaxFaults
    BY NasAssumptions DEF NasInit
  <2>8. QED BY <2>2, <2>4, <2>5, <2>6, <2>7 DEF NasTypeOK
<1>2. \A w \in Workers : workers[w] = IdleWorker
  BY DEF NasInit
<1>3. \A j \in Jobs : jobs[j].status = "absent" /\ jobs[j].retry = 0
  BY DEF NasInit, NoJob
<1>4. ClaimExclusive /\ MarkReady
  BY <1>2, IdleWorkerType DEF ClaimExclusive, MarkReady, Owns
<1>5. RetryBudget /\ SyncedIsReadable
  BY <1>3 DEF RetryBudget, SyncedIsReadable
<1>6. NasShape
  BY <1>2, <1>3, IdleWorkerType DEF NasShape
<1>7. QED BY <1>1, <1>4, <1>5, <1>6 DEF NasIInv

----------------------------------------------------------------------------
(* Most steps only move one worker, either out of its job or on with it.   *)

\* A worker that goes on within its call leaves the others alone.
LEMMA WorkerMoves ==
  ASSUME NasIInv, NEW w \in Workers, NEW wk \in Worker, Step(w, wk),
         UNCHANGED <<clock, jobs, nas, requeues>>, faults' \in 0..MaxFaults,
         wk.pc # "markSynced",
         wk.pc = "rename" /\ wk.intact => jobs[wk.job].whole,
         wk.pc \in Owning =>
            /\ workers[w].pc \in Owning /\ wk.job = workers[w].job
            /\ wk.pc # "read" => wk.retry = jobs[wk.job].retry
  PROVE  NasIInv'
<1> USE DEF NasIInv
<1>1. /\ workers' \in [Workers -> Worker] /\ workers'[w] = wk
      /\ \A v \in Workers \ {w} : workers'[v] = workers[v]
  BY DEF Step, NasTypeOK
<1>2. NasTypeOK'
  BY <1>1 DEF NasTypeOK
<1>3. NasShape'
  BY <1>1 DEF NasShape
<1>4. \A v \in Workers, j \in Jobs : Owns(v, j)' => Owns(v, j)
  BY <1>1 DEF Owns
<1>5. ClaimExclusive'
  <2> SUFFICES ASSUME NEW v \in Workers, NEW j \in Jobs, Owns(v, j)'
               PROVE  /\ jobs[j].status = "syncing"
                      /\ \A u \in Workers : Owns(u, j)' => u = v
                      /\ workers'[v].pc # "read" => workers'[v].retry = jobs[j].retry
    BY DEF ClaimExclusive
  <2>1. Owns(v, j)
    BY <1>4
  <2>2. jobs[j].status = "syncing" /\ \A u \in Workers : Owns(u, j)' => u = v
    BY <1>4, <2>1 DEF ClaimExclusive
  <2>3. workers'[v].pc # "read" => workers'[v].retry = jobs[j].retry
    <3>1. CASE v = w
      BY <1>1, <3>1 DEF Owns
    <3>2. CASE v # w
      BY <1>1, <2>1, <3>2 DEF ClaimExclusive
    <3>3. QED BY <3>1, <3>2
  <2>4. QED BY <2>2, <2>3
<1>6. MarkReady'
  BY <1>1 DEF MarkReady
<1>7. RetryBudget' /\ SyncedIsReadable'
  BY DEF RetryBudget, SyncedIsReadable
<1>8. QED BY <1>2, <1>3, <1>5, <1>6, <1>7

\* Steps that write no row: polls and reads, the copy, failures, a crash.
LEMMA QuietStep ==
  ASSUME NasIInv, NEW w \in Workers,
         \/ Poll(w) \/ ClaimSelect(w) \/ ClaimNextRound(w) \/ ClaimRead(w) \/ Copy(w)
         \/ RenameFails(w) \/ MarkSyncedThrows(w) \/ Abandon(w)
  PROVE  NasIInv'
<1>t. workers[w] \in Worker /\ clock \in Nat /\ faults \in 0..MaxFaults /\ MaxFaults \in Nat
  BY NasAssumptions DEF NasIInv, NasTypeOK
<1>o. workers[w].pc \in Owning =>
        /\ workers[w].job \in Jobs
        /\ workers[w].pc # "read" => workers[w].retry = jobs[workers[w].job].retry
  BY DEF NasIInv, NasShape, ClaimExclusive, Owns
<1> USE <1>t DEF Owning
<1>1. CASE Poll(w)
  <2> DEFINE wk == [IdleWorker EXCEPT !.pc = "select", !.now = clock]
  <2>1. wk \in Worker /\ wk.pc = "select"
    BY DEF IdleWorker, Worker
  <2>2. Step(w, wk) /\ UNCHANGED <<clock, jobs, nas, requeues, faults>>
    BY <1>1 DEF Poll
  <2> HIDE DEF wk
  <2>3. QED BY <2>1, <2>2, WorkerMoves
<1>2. CASE ClaimSelect(w)
  <2>1. PICK C \in SUBSET Jobs :
          Step(w, IF C = {} THEN IdleWorker ELSE [workers[w] EXCEPT !.pc = "try", !.cand = C])
    BY <1>2 DEF ClaimSelect
  <2> DEFINE wk == [workers[w] EXCEPT !.pc = "try", !.cand = C]
  <2>2. wk \in Worker /\ wk.pc = "try"
    BY DEF Worker
  <2>3. (Step(w, IdleWorker) \/ Step(w, wk)) /\ UNCHANGED <<clock, jobs, nas, requeues, faults>>
    BY <1>2, <2>1 DEF ClaimSelect
  <2> HIDE DEF wk
  <2>4. QED BY <2>2, <2>3, WorkerMoves, IdleWorkerType
<1>3. CASE ClaimNextRound(w)
  <2> DEFINE wk == [workers[w] EXCEPT !.pc = "select", !.attempt = @ + 1]
  <2>1. wk \in Worker /\ wk.pc = "select"
    <3>1. workers[w].attempt + 1 \in Nat
      BY DEF Worker
    <3>2. QED BY <3>1 DEF Worker
  <2>2. (Step(w, IdleWorker) \/ Step(w, wk)) /\ UNCHANGED <<clock, jobs, nas, requeues, faults>>
    BY <1>3 DEF ClaimNextRound
  <2> HIDE DEF wk
  <2>3. QED BY <2>1, <2>2, WorkerMoves, IdleWorkerType
<1>4. CASE ClaimRead(w)
  <2> DEFINE n == jobs[workers[w].job].retry
             wk == [workers[w] EXCEPT !.pc = "copy", !.retry = n]
  <2>1. n \in Nat
    BY <1>4, <1>o DEF ClaimRead, NasIInv, NasTypeOK, Job
  <2>2. /\ wk \in Worker /\ wk.pc = "copy" /\ wk.job = workers[w].job
        /\ wk.retry = jobs[workers[w].job].retry
    BY <2>1 DEF Worker
  <2>3. Step(w, wk) /\ UNCHANGED <<clock, jobs, nas, requeues, faults>> /\ workers[w].pc \in Owning
    BY <1>4 DEF ClaimRead
  <2> HIDE DEF wk, n
  <2>4. QED BY <2>2, <2>3, WorkerMoves
<1>5. CASE Copy(w)
  <2>1. workers[w].pc = "copy" /\ UNCHANGED <<clock, jobs, nas, requeues, faults>>
    BY <1>5 DEF Copy
  <2>2. CASE \E good \in BOOLEAN :
            /\ good => jobs[workers[w].job].whole
            /\ Step(w, [workers[w] EXCEPT !.pc = "rename", !.intact = good])
    <3>1. PICK good \in BOOLEAN :
            /\ good => jobs[workers[w].job].whole
            /\ Step(w, [workers[w] EXCEPT !.pc = "rename", !.intact = good])
      BY <2>2
    <3> DEFINE wk == [workers[w] EXCEPT !.pc = "rename", !.intact = good]
    <3>2. /\ wk \in Worker /\ wk.pc = "rename" /\ wk.job = workers[w].job
          /\ wk.retry = workers[w].retry /\ wk.intact = good
      BY DEF Worker
    <3> HIDE DEF wk
    <3>3. QED BY <1>o, <2>1, <3>1, <3>2, WorkerMoves DEF wk
  <2>3. CASE Step(w, [workers[w] EXCEPT !.pc = "markFailed"])
    <3> DEFINE wk == [workers[w] EXCEPT !.pc = "markFailed"]
    <3>1. /\ wk \in Worker /\ wk.pc = "markFailed" /\ wk.job = workers[w].job
          /\ wk.retry = workers[w].retry
      BY DEF Worker
    <3>2. Step(w, wk)
      BY <2>3
    <3> HIDE DEF wk
    <3>3. QED BY <1>o, <2>1, <3>1, <3>2, WorkerMoves
  <2>4. QED BY <1>5, <2>2, <2>3 DEF Copy
<1>6. CASE RenameFails(w) \/ MarkSyncedThrows(w)
  <2> DEFINE wk == [workers[w] EXCEPT !.pc = "markFailed"]
  <2>1. /\ wk \in Worker /\ wk.pc = "markFailed" /\ wk.job = workers[w].job
        /\ wk.retry = workers[w].retry
    BY DEF Worker
  <2>2. /\ Step(w, wk) /\ UNCHANGED <<clock, jobs, nas, requeues, faults>>
        /\ workers[w].pc \in {"rename", "markSynced"}
    BY <1>6 DEF RenameFails, MarkSyncedThrows
  <2> HIDE DEF wk
  <2>3. QED BY <1>o, <2>1, <2>2, WorkerMoves
<1>7. CASE Abandon(w)
  <2>1. Step(w, IdleWorker) /\ UNCHANGED <<clock, jobs, nas, requeues>> /\ faults' \in 0..MaxFaults
    BY <1>7 DEF Abandon
  <2>2. QED BY <2>1, WorkerMoves, IdleWorkerType
<1>8. QED BY <1>1, <1>2, <1>3, <1>4, <1>5, <1>6, <1>7

----------------------------------------------------------------------------
(* Steps that move a job.                                                  *)

\* The conditional UPDATE that claims a candidate, or loses the race.
LEMMA ClaimTryStep ==
  ASSUME NasIInv, NEW w \in Workers, NEW j \in Jobs, ClaimTry(w, j)
  PROVE  NasIInv'
<1> USE DEF NasIInv
<1>t. workers[w] \in Worker /\ faults \in 0..MaxFaults
  BY DEF NasTypeOK
<1>1. CASE ~Eligible(j, workers[w].now)
  <2> DEFINE wk == [workers[w] EXCEPT !.cand = @ \ {j}]
  <2>1. wk \in Worker /\ wk.pc = workers[w].pc
    BY <1>t DEF Worker
  <2>2. Step(w, wk) /\ UNCHANGED <<clock, jobs, nas, requeues, faults>> /\ workers[w].pc = "try"
    BY <1>1 DEF ClaimTry, NextCandidate
  <2> HIDE DEF wk
  <2>3. QED BY <1>t, <2>1, <2>2, WorkerMoves DEF Owning
<1>2. CASE Eligible(j, workers[w].now)
  <2> DEFINE wk == [IdleWorker EXCEPT !.pc = "read", !.job = j]
  <2>1. wk \in Worker /\ wk.pc = "read" /\ wk.job = j
    BY DEF IdleWorker, Worker
  <2>2. Step(w, wk) /\ SetStatus(j, "syncing") /\ UNCHANGED <<clock, nas, requeues, faults>>
    BY <1>2 DEF ClaimTry
  <2> HIDE DEF wk
  <2>3. /\ workers' \in [Workers -> Worker] /\ workers'[w].pc = "read" /\ workers'[w].job = j
        /\ \A v \in Workers \ {w} : workers'[v] = workers[v]
    BY <2>1, <2>2 DEF Step, NasTypeOK
  <2>4. /\ jobs' \in [Jobs -> Job] /\ jobs'[j].status = "syncing"
        /\ jobs'[j].repo = jobs[j].repo /\ jobs'[j].retry = jobs[j].retry
        /\ jobs'[j].nextRetry = jobs[j].nextRetry
        /\ \A k \in Jobs \ {j} : jobs'[k] = jobs[k]
    BY <2>2 DEF SetStatus, NasTypeOK, Job, JobStatus
  <2>5. jobs[j].status \in {"staged", "sync_failed"}
    BY <1>2 DEF Eligible
  <2>6. \A v \in Workers : ~Owns(v, j)
    BY <2>5 DEF ClaimExclusive
  <2>7. NasTypeOK'
    BY <2>2, <2>3, <2>4 DEF NasTypeOK
  <2>8. NasShape'
    BY <2>3, <2>4, <2>5 DEF NasShape
  <2>9. ClaimExclusive'
    <3> SUFFICES ASSUME NEW v \in Workers, NEW k \in Jobs, Owns(v, k)'
                 PROVE  /\ jobs'[k].status = "syncing"
                        /\ \A u \in Workers : Owns(u, k)' => u = v
                        /\ workers'[v].pc # "read" => workers'[v].retry = jobs'[k].retry
      BY DEF ClaimExclusive
    <3>1. CASE k = j
      <4>1. v = w /\ \A u \in Workers : Owns(u, k)' => u = w
        BY <2>3, <2>6, <3>1 DEF Owns
      <4>2. QED BY <2>3, <2>4, <3>1, <4>1
    <3>2. CASE k # j
      <4>1. v # w /\ Owns(v, k)
        BY <2>3, <3>2 DEF Owns
      <4>2. \A u \in Workers : Owns(u, k)' => Owns(u, k)
        BY <2>3, <3>2 DEF Owns
      <4>3. QED BY <2>3, <2>4, <3>2, <4>1, <4>2 DEF ClaimExclusive
    <3>3. QED BY <3>1, <3>2
  <2>10. RetryBudget'
    BY <2>4, <2>5, NasAssumptions DEF RetryBudget, NasTypeOK, Job
  <2>11. MarkReady'
    <3>1. \A v \in Workers : workers'[v].pc \in {"rename", "markSynced"} =>
              /\ v # w /\ workers'[v] = workers[v]
              /\ workers[v].job \in Jobs \ {j}
      BY <2>3, <2>6 DEF NasShape, Owns, Owning
    <3>2. QED BY <2>2, <2>4, <3>1 DEF MarkReady
  <2>12. SyncedIsReadable'
    BY <2>2, <2>4 DEF SyncedIsReadable
  <2>13. QED BY <2>7, <2>8, <2>9, <2>10, <2>11, <2>12
<1>3. QED BY <1>1, <1>2

\* The invariant's demands on the row of job j.
GoodRow(j, row) ==
    /\ row \in Job
    /\ row.retry <= MaxRetries /\ row.nextRetry <= MaxTime
    /\ row.status # "absent" => row.repo \in Repos
    /\ row.status \in {"absent", "staged"} => row.retry = 0
    /\ row.status \in {"syncing", "synced"} => row.retry < MaxRetries
    /\ row.status = "sync_failed" => row.retry \in 1..MaxRetries - 1
    /\ row.status = "dead_letter" => row.retry = MaxRetries
    /\ row.status = "synced" =>
            /\ row.whole
            /\ nas[row.repo] # Nil
            /\ nas[row.repo].job = j => nas[row.repo].intact

\* A job row changes, its owner, if any, lets go of it.
LEMMA JobReleased ==
  ASSUME NasIInv, NEW j \in Jobs, NEW new, GoodRow(j, new),
         jobs' = [jobs EXCEPT ![j] = new],
         workers' \in [Workers -> Worker],
         \A v \in Workers : \/ workers'[v] = workers[v] /\ ~Owns(v, j)
                            \/ workers'[v] = IdleWorker,
         UNCHANGED <<clock, nas, faults>>, requeues' \in 0..MaxRequeues
  PROVE  NasIInv'
<1> USE DEF NasIInv, GoodRow
<1>1. /\ jobs' \in [Jobs -> Job] /\ jobs'[j] = new
      /\ \A k \in Jobs \ {j} : jobs'[k] = jobs[k]
  BY DEF NasTypeOK
<1>2. NasTypeOK'
  BY <1>1 DEF NasTypeOK
<1>i. IdleWorker.pc \notin Owning /\ IdleWorker.pc \notin {"rename", "markSynced"}
  BY IdleWorkerType DEF Owning
<1>3. NasShape'
  BY <1>1, <1>i DEF NasShape
<1>4. \A v \in Workers, k \in Jobs : Owns(v, k)' =>
          k # j /\ Owns(v, k) /\ workers'[v] = workers[v]
  BY <1>i DEF Owns
<1>5. ClaimExclusive'
  BY <1>1, <1>4 DEF ClaimExclusive
<1>6. RetryBudget'
  BY <1>1 DEF RetryBudget
<1>7. MarkReady'
  <2>1. \A v \in Workers : workers'[v].pc \in {"rename", "markSynced"} =>
            /\ workers'[v] = workers[v] /\ workers[v].job \in Jobs \ {j}
    BY <1>i DEF NasShape, Owns, Owning
  <2>2. QED BY <1>1, <2>1 DEF MarkReady
<1>8. SyncedIsReadable'
  BY <1>1 DEF SyncedIsReadable
<1>9. QED BY <1>2, <1>3, <1>5, <1>6, <1>7, <1>8

\* The UPDATE that ends an attempt: synced, failed or dead letter.
LEMMA MarkStep ==
  ASSUME NasIInv, NEW w \in Workers, MarkSynced(w) \/ MarkFailed(w)
  PROVE  NasIInv'
<1> USE DEF NasIInv
<1> DEFINE j == workers[w].job
<1>1. /\ workers[w].pc \in {"markSynced", "markFailed"} /\ Step(w, IdleWorker)
      /\ UNCHANGED <<clock, nas, requeues, faults>>
  BY DEF MarkSynced, MarkFailed
<1>2. j \in Jobs /\ Owns(w, j)
  BY <1>1 DEF NasShape, Owns, Owning
<1>3. /\ jobs[j].status = "syncing" /\ \A v \in Workers : Owns(v, j) => v = w
      /\ workers[w].retry = jobs[j].retry
  BY <1>1, <1>2 DEF ClaimExclusive
<1>4. jobs[j] \in Job /\ jobs[j].retry < MaxRetries /\ jobs[j].repo \in Repos
      /\ jobs[j].retry \in Nat /\ jobs[j].nextRetry <= MaxTime
      /\ MaxRetries \in Nat /\ MaxTime \in Nat /\ clock \in Nat /\ requeues \in 0..MaxRequeues
  BY <1>2, <1>3, NasAssumptions DEF NasTypeOK, RetryBudget, NasShape, Job
<1>5. /\ workers' \in [Workers -> Worker]
      /\ \A v \in Workers : \/ workers'[v] = workers[v] /\ ~Owns(v, j)
                            \/ workers'[v] = IdleWorker
  <2>1. workers' \in [Workers -> Worker] /\ workers'[w] = IdleWorker
        /\ \A v \in Workers \ {w} : workers'[v] = workers[v]
    BY <1>1, IdleWorkerType DEF Step, NasTypeOK
  <2>2. QED BY <1>3, <2>1
<1>6. CASE MarkSynced(w)
  <2> DEFINE new == [jobs[j] EXCEPT !.status = "synced"]
  <2>1. jobs' = [jobs EXCEPT ![j] = new]
    BY <1>3, <1>6 DEF MarkSynced, SetStatus
  <2>2. /\ new \in Job /\ new.status = "synced" /\ new.repo = jobs[j].repo
        /\ new.retry = jobs[j].retry /\ new.nextRetry = jobs[j].nextRetry
        /\ new.whole = jobs[j].whole
    BY <1>4 DEF Job, JobStatus
  <2>3. jobs[j].whole /\ nas[jobs[j].repo] # Nil /\ (nas[jobs[j].repo].job = j => nas[jobs[j].repo].intact)
    BY <1>6 DEF MarkReady, MarkSynced
  <2> HIDE DEF new, j
  <2>4. GoodRow(j, new)
    BY <1>4, <2>2, <2>3 DEF GoodRow
  <2>5. QED BY <1>1, <1>2, <1>4, <1>5, <2>1, <2>4, JobReleased
<1>7. CASE MarkFailed(w)
  <2> DEFINE st == IF jobs[j].retry + 1 >= MaxRetries THEN "dead_letter" ELSE "sync_failed"
             n == jobs[j].retry + 1
             t == Minimum(clock + Backoff(workers[w].retry), MaxTime)
             new == [jobs[j] EXCEPT !.status = st, !.retry = n, !.nextRetry = t]
  <2>1. jobs' = [jobs EXCEPT ![j] = new]
    BY <1>3, <1>7 DEF MarkFailed
  <2>2. n \in 1..MaxRetries /\ n \in Nat
    BY <1>4
  <2>3. t \in Nat /\ t <= MaxTime
    <3> DEFINE b == Backoff(workers[w].retry)
    <3>1. b \in Nat
      BY <1>3, <1>4, BackoffType
    <3> HIDE DEF b
    <3>2. clock + b \in Nat
      BY <1>4, <3>1
    <3>3. QED BY <1>4, <3>2, MinimumType DEF b
  <2>4. /\ st \in {"dead_letter", "sync_failed"}
        /\ st = "dead_letter" => n = MaxRetries
        /\ st = "sync_failed" => n \in 1..MaxRetries - 1
    BY <1>4
  <2> HIDE DEF st, n, t
  <2>5. /\ new \in Job /\ new.status = st /\ new.retry = n /\ new.nextRetry = t
        /\ new.repo = jobs[j].repo
    BY <1>4, <2>2, <2>3, <2>4 DEF Job, JobStatus
  <2> HIDE DEF new, j
  <2>6. GoodRow(j, new)
    BY <1>4, <2>2, <2>3, <2>4, <2>5 DEF GoodRow
  <2>7. QED BY <1>1, <1>2, <1>4, <1>5, <2>1, <2>6, JobReleased
<1>8. QED BY <1>6, <1>7

\* A push inserts a job.
LEMMA CreateStep ==
  ASSUME NasIInv, NEW j \in Jobs, NEW r \in Repos, NEW at \in 0..MaxTime, Create(j, r, at)
  PROVE  NasIInv'
<1> USE DEF NasIInv
<1> DEFINE new == [status |-> "staged", repo |-> r, retry |-> 0,
                   nextRetry |-> 0, createdAt |-> at, whole |-> FALSE]
<1>1. jobs' = [jobs EXCEPT ![j] = new] /\ UNCHANGED <<clock, workers, nas, requeues, faults>>
  BY DEF Create
<1>2. MaxTime \in Nat /\ MaxRetries \in Nat /\ requeues \in 0..MaxRequeues
  BY NasAssumptions DEF NasTypeOK
<1>3. new \in Job /\ new.status = "staged" /\ new.retry = 0 /\ new.repo = r /\ new.nextRetry = 0
  BY <1>2 DEF Job, JobStatus
<1>4. \A v \in Workers : workers'[v] = workers[v] /\ ~Owns(v, j)
  BY <1>1 DEF ClaimExclusive, Create
<1>5. workers' \in [Workers -> Worker]
  BY <1>1 DEF NasTypeOK
<1> HIDE DEF new
<1>6. GoodRow(j, new)
  BY <1>2, <1>3, NasAssumptions DEF GoodRow
<1>7. QED BY <1>1, <1>2, <1>4, <1>5, <1>6, JobReleased

\* A staging file is flushed to its end, claimed or not.
LEMMA FlushStagingStep ==
  ASSUME NasIInv, NEW j \in Jobs, FlushStaging(j)
  PROVE  NasIInv'
<1> USE DEF NasIInv
<1>1. jobs \in [Jobs -> Job] /\ UNCHANGED <<clock, workers, nas, requeues, faults>>
  BY DEF FlushStaging, NasTypeOK
<1> DEFINE new == [jobs[j] EXCEPT !.whole = TRUE]
<1>2. jobs' = [jobs EXCEPT ![j] = new]
  BY DEF FlushStaging
<1>3. /\ new \in Job /\ new.status = jobs[j].status /\ new.repo = jobs[j].repo
      /\ new.retry = jobs[j].retry /\ new.nextRetry = jobs[j].nextRetry /\ new.whole
  BY <1>1 DEF Job
<1> HIDE DEF new
<1>4. /\ jobs' \in [Jobs -> Job]
      /\ \A k \in Jobs : /\ jobs'[k].status = jobs[k].status /\ jobs'[k].repo = jobs[k].repo
                         /\ jobs'[k].retry = jobs[k].retry
                         /\ jobs'[k].nextRetry = jobs[k].nextRetry
                         /\ jobs[k].whole => jobs'[k].whole
  BY <1>1, <1>2, <1>3
<1>5. NasTypeOK' /\ NasShape' /\ RetryBudget'
  BY <1>1, <1>4 DEF NasTypeOK, NasShape, RetryBudget
<1>6. ClaimExclusive'
  BY <1>1, <1>4 DEF ClaimExclusive, Owns
<1>7. SyncedIsReadable'
  BY <1>1, <1>4 DEF SyncedIsReadable
<1>8. MarkReady'
  <2>1. \A w \in Workers : workers[w].pc \in {"rename", "markSynced"} => workers[w].job \in Jobs
    BY DEF NasShape, Owning
  <2>2. QED BY <1>1, <1>4, <2>1 DEF MarkReady
<1>9. QED BY <1>5, <1>6, <1>7, <1>8

\* An operator requeues a dead letter.
LEMMA RequeueStep ==
  ASSUME NasIInv, NEW j \in Jobs, RequeueDeadLetter(j)
  PROVE  NasIInv'
<1> USE DEF NasIInv
<1> DEFINE new == [jobs[j] EXCEPT !.status = "staged", !.retry = 0]
<1>1. jobs[j] \in Job /\ jobs[j].repo \in Repos /\ jobs[j].nextRetry <= MaxTime
      /\ MaxRetries \in Nat /\ requeues \in Nat /\ MaxRequeues \in Nat
  BY NasAssumptions DEF RequeueDeadLetter, NasTypeOK, NasShape
<1>2. jobs' = [jobs EXCEPT ![j] = new] /\ UNCHANGED <<clock, workers, nas, faults>>
  BY DEF RequeueDeadLetter, NasTypeOK
<1>3. requeues' \in 0..MaxRequeues
  BY <1>1 DEF RequeueDeadLetter
<1>4. /\ new \in Job /\ new.status = "staged" /\ new.retry = 0 /\ new.repo = jobs[j].repo
      /\ new.nextRetry = jobs[j].nextRetry
  BY <1>1 DEF Job, JobStatus
<1>5. \A v \in Workers : workers'[v] = workers[v] /\ ~Owns(v, j)
  BY <1>2 DEF ClaimExclusive, RequeueDeadLetter
<1>6. workers' \in [Workers -> Worker]
  BY <1>2 DEF NasTypeOK
<1> HIDE DEF new
<1>7. GoodRow(j, new)
  BY <1>1, <1>4 DEF GoodRow
<1>8. QED BY <1>2, <1>3, <1>5, <1>6, <1>7, JobReleased

\* The copy is renamed over repo.dolt.
LEMMA RenameStep ==
  ASSUME NasIInv, NEW w \in Workers, Rename(w)
  PROVE  NasIInv'
<1> USE DEF NasIInv
<1> DEFINE j == workers[w].job
           r == jobs[j].repo
           file == [job |-> j, intact |-> workers[w].intact]
           p == IF workers[w].intact THEN "markSynced" ELSE "markFailed"
           wk == [workers[w] EXCEPT !.pc = p]
<1>1. /\ workers[w].pc = "rename" /\ nas' = [nas EXCEPT ![r] = file]
      /\ workers' = [workers EXCEPT ![w] = wk]
      /\ UNCHANGED <<clock, jobs, requeues, faults>>
  BY DEF Rename, Step
<1>2. workers[w] \in Worker /\ j \in Jobs /\ Owns(w, j)
  BY <1>1 DEF NasTypeOK, NasShape, Owns, Owning
<1>3. /\ jobs[j].status = "syncing" /\ \A v \in Workers : Owns(v, j) => v = w
      /\ workers[w].retry = jobs[j].retry /\ r \in Repos
  BY <1>1, <1>2 DEF ClaimExclusive, NasShape
<1>4. file \in NasFile /\ file # Nil /\ file.job = j /\ file.intact = workers[w].intact
  BY <1>2, NasAssumptions DEF NasFile, Worker
<1>5. /\ p \in {"markSynced", "markFailed"} /\ (p = "markSynced" => workers[w].intact)
  BY <1>2 DEF Worker
<1> HIDE DEF p
<1>6. wk \in Worker /\ wk.pc = p /\ wk.job = j /\ wk.retry = workers[w].retry
  BY <1>2, <1>5 DEF Worker
<1> HIDE DEF wk, file, r, j
<1>7. /\ workers' \in [Workers -> Worker] /\ workers'[w] = wk
      /\ \A v \in Workers \ {w} : workers'[v] = workers[v]
  BY <1>1, <1>6 DEF NasTypeOK
<1>8. /\ nas' \in [Repos -> NasFile \cup {Nil}] /\ nas'[r] = file
      /\ \A q \in Repos \ {r} : nas'[q] = nas[q]
  BY <1>1, <1>3, <1>4 DEF NasTypeOK
<1>9. NasTypeOK'
  BY <1>1, <1>7, <1>8 DEF NasTypeOK
<1>10. NasShape'
  BY <1>1, <1>2, <1>6, <1>7 DEF NasShape
<1>11. \A v \in Workers, k \in Jobs : Owns(v, k)' => Owns(v, k)
  BY <1>1, <1>2, <1>6, <1>7 DEF Owns
<1>12. ClaimExclusive'
  <2> SUFFICES ASSUME NEW v \in Workers, NEW k \in Jobs, Owns(v, k)'
               PROVE  /\ jobs[k].status = "syncing"
                      /\ \A u \in Workers : Owns(u, k)' => u = v
                      /\ workers'[v].pc # "read" => workers'[v].retry = jobs[k].retry
    BY <1>1 DEF ClaimExclusive
  <2>1. jobs[k].status = "syncing" /\ \A u \in Workers : Owns(u, k)' => u = v
    BY <1>11 DEF ClaimExclusive
  <2>2. CASE v = w
    BY <1>3, <1>6, <1>7, <2>1, <2>2 DEF Owns
  <2>3. CASE v # w
    BY <1>7, <1>11, <2>1, <2>3 DEF ClaimExclusive
  <2>4. QED BY <2>2, <2>3
<1>13. RetryBudget'
  BY <1>1 DEF RetryBudget
<1>14. MarkReady'
  <2> SUFFICES ASSUME NEW v \in Workers, workers'[v].pc = "markSynced"
               PROVE  LET k == workers'[v].job IN
                      /\ jobs[k].whole
                      /\ nas'[jobs[k].repo] # Nil
                      /\ nas'[jobs[k].repo].job = k => nas'[jobs[k].repo].intact
    <3>1. ASSUME NEW v \in Workers, workers'[v].pc = "rename", workers'[v].intact
          PROVE  jobs[workers'[v].job].whole
      <4>1. v # w /\ workers'[v] = workers[v]
        BY <1>5, <1>6, <1>7, <3>1
      <4>2. QED BY <3>1, <4>1 DEF MarkReady
    <3>2. QED BY <1>1, <3>1 DEF MarkReady
  <2>1. CASE v = w
    <3>1. jobs[j].whole
      BY <1>1, <1>5, <1>6, <1>7, <2>1 DEF MarkReady, j
    <3>2. QED BY <1>4, <1>5, <1>6, <1>7, <1>8, <2>1, <3>1 DEF r
  <2>2. CASE v # w
    <3>1. /\ workers'[v] = workers[v] /\ workers[v].pc = "markSynced"
          /\ workers[v].job \in Jobs /\ Owns(v, workers[v].job)
      BY <1>7, <2>2 DEF NasShape, Owns, Owning
    <3>2. workers[v].job # j
      BY <1>3, <2>2, <3>1
    <3>3. jobs[workers[v].job].repo \in Repos
      BY <3>1 DEF ClaimExclusive, NasShape
    <3>4. QED BY <1>4, <1>8, <3>1, <3>2, <3>3 DEF MarkReady
  <2>3. QED BY <2>1, <2>2
<1>15. SyncedIsReadable'
  <2> SUFFICES ASSUME NEW k \in Jobs, jobs[k].status = "synced"
               PROVE  /\ jobs[k].whole
                      /\ nas'[jobs[k].repo] # Nil
                      /\ nas'[jobs[k].repo].job = k => nas'[jobs[k].repo].intact
    BY <1>1 DEF SyncedIsReadable
  <2>1. k # j /\ jobs[k].repo \in Repos
    BY <1>3 DEF NasShape
  <2>2. QED BY <1>4, <1>8, <2>1 DEF SyncedIsReadable
<1>16. QED BY <1>9, <1>10, <1>12, <1>13, <1>14, <1>15

\* Every step of the pipeline keeps the invariant.
LEMMA NasIInvStep == NasIInv /\ [NasNext]_nasVars => NasIInv'
<1> SUFFICES ASSUME NasIInv, [NasNext]_nasVars PROVE NasIInv'
  OBVIOUS
<1>1. ASSUME NEW w \in Workers, WorkerStep(w) \/ Abandon(w) PROVE NasIInv'
  BY <1>1, QuietStep, ClaimTryStep, RenameStep, MarkStep DEF WorkerStep
<1>2. CASE Tick
  <2>1. clock' \in 0..MaxTime /\ UNCHANGED <<jobs, workers, nas, requeues, faults>>
    BY <1>2, NasAssumptions DEF Tick, NasIInv, NasTypeOK
  <2>2. QED BY <2>1 DEF NasIInv, NasTypeOK, NasShape, ClaimExclusive, Owns, RetryBudget,
     MarkReady, SyncedIsReadable
<1>3. CASE UNCHANGED nasVars
  BY <1>3 DEF nasVars, NasIInv, NasTypeOK, NasShape, ClaimExclusive, Owns, RetryBudget,
     MarkReady, SyncedIsReadable
<1>4. QED BY <1>1, <1>2, <1>3, CreateStep, FlushStagingStep, RequeueStep DEF NasNext

\* The invariant holds in every state the pipeline reaches.
LEMMA NasIInvCorrect == NasSpec => []NasIInv
  BY NasIInvInit, NasIInvStep, PTL DEF NasSpec

----------------------------------------------------------------------------
(* Refinement.  A step that leaves every row's status and count and the    *)
(* set of owned jobs alone is a stutter; the others move exactly one job.  *)

\* A step that changes no status, count or owner is no step of the life cycle.
LEMMA LifecycleStutter ==
  ASSUME \A j \in Jobs : jobs'[j].status = jobs[j].status /\ jobs'[j].retry = jobs[j].retry,
         \A j \in Jobs : Owned(j)' <=> Owned(j)
  PROVE  UNCHANGED Lifecycle!lifecycleVars
<1>1. [j \in Jobs |-> jobs'[j].status] = [j \in Jobs |-> jobs[j].status]
  OBVIOUS
<1>2. [j \in Jobs |-> jobs'[j].retry] = [j \in Jobs |-> jobs[j].retry]
  OBVIOUS
<1>3. {j \in Jobs : Owned(j)'} = {j \in Jobs : Owned(j)}
  OBVIOUS
<1>4. QED BY <1>1, <1>2, <1>3 DEF Lifecycle!lifecycleVars

\* A worker that keeps its job, or that had none and takes none.
LEMMA OwnedKept ==
  ASSUME NEW w \in Workers, workers \in [Workers -> Worker], NEW wk, Step(w, wk),
         \/ wk.pc \in Owning /\ workers[w].pc \in Owning /\ wk.job = workers[w].job
         \/ wk.pc \notin Owning /\ workers[w].pc \notin Owning
  PROVE  \A j \in Jobs : Owned(j)' <=> Owned(j)
<1>1. workers'[w] = wk /\ \A v \in Workers \ {w} : workers'[v] = workers[v]
  BY DEF Step
<1>2. \A v \in Workers, j \in Jobs : Owns(v, j)' <=> Owns(v, j)
  BY <1>1 DEF Owns
<1>3. QED BY <1>2 DEF Owned

\* A worker that lets go of its job j: nobody else owned it.
LEMMA OwnedReleased ==
  ASSUME NasIInv, NEW w \in Workers, Step(w, IdleWorker), workers[w].pc \in Owning
  PROVE  {j \in Jobs : Owned(j)}' = {j \in Jobs : Owned(j)} \ {workers[w].job}
<1>1. /\ workers'[w] = IdleWorker /\ \A v \in Workers \ {w} : workers'[v] = workers[v]
      /\ IdleWorker.pc \notin Owning
  BY IdleWorkerType DEF Step, NasIInv, NasTypeOK, Owning
<1>2. \A v \in Workers, j \in Jobs : Owns(v, j)' <=> v # w /\ Owns(v, j)
  BY <1>1 DEF Owns
<1>3. \A j \in Jobs : Owned(j)' <=> Owned(j) /\ j # workers[w].job
  <2> SUFFICES ASSUME NEW j \in Jobs PROVE Owned(j)' <=> Owned(j) /\ j # workers[w].job
    OBVIOUS
  <2>1. ASSUME Owned(j)' PROVE Owned(j) /\ j # workers[w].job
    <3>1. PICK v \in Workers : v # w /\ Owns(v, j)
      BY <1>2, <2>1 DEF Owned
    <3>2. j = workers[w].job => Owns(w, j)
      BY DEF Owns
    <3>3. QED BY <3>1, <3>2 DEF Owned, NasIInv, ClaimExclusive
  <2>2. ASSUME Owned(j), j # workers[w].job PROVE Owned(j)'
    <3>1. PICK v \in Workers : Owns(v, j)
      BY <2>2 DEF Owned
    <3>2. v # w
      BY <2>2, <3>1 DEF Owns
    <3>3. QED BY <1>2, <3>1, <3>2 DEF Owned
  <2>3. QED BY <2>1, <2>2
<1>4. QED BY <1>3

\* Every step of the pipeline is a step of the life cycle or a stutter.
LEMMA NasRefinesStep ==
  ASSUME NasIInv, [NasNext]_nasVars
  PROVE  [Lifecycle!LifecycleNext]_(Lifecycle!lifecycleVars)
<1> DEFINE Goal == [Lifecycle!LifecycleNext]_(Lifecycle!lifecycleVars)
<1>t. jobs \in [Jobs -> Job] /\ workers \in [Workers -> Worker]
  BY DEF NasIInv, NasTypeOK
<1>1. ASSUME NEW j \in Jobs, NEW r \in Repos, NEW at \in 0..MaxTime, Create(j, r, at)
      PROVE  Goal
  <2>1. /\ jobs[j].status = "absent" /\ jobs[j].retry = 0 /\ UNCHANGED workers
        /\ jobs'[j].status = "staged" /\ jobs'[j].retry = 0
        /\ \A k \in Jobs \ {j} : jobs'[k] = jobs[k]
    BY <1>1, <1>t DEF Create, NasIInv, RetryBudget
  <2>2. {k \in Jobs : Owned(k)}' = {k \in Jobs : Owned(k)}
    BY <2>1 DEF Owned, Owns
  <2>3. [k \in Jobs |-> jobs'[k].status] = [[k \in Jobs |-> jobs[k].status] EXCEPT ![j] = "staged"]
    BY <2>1
  <2>4. [k \in Jobs |-> jobs'[k].retry] = [k \in Jobs |-> jobs[k].retry]
    BY <2>1
  <2>5. Lifecycle!Stage(j)
    BY <2>1, <2>2, <2>3, <2>4 DEF Lifecycle!Stage
  <2>6. QED BY <2>5 DEF Lifecycle!LifecycleNext
<1>2. ASSUME NEW j \in Jobs, RequeueDeadLetter(j) PROVE Goal
  <2>1. /\ jobs[j].status = "dead_letter" /\ UNCHANGED workers
        /\ jobs'[j].status = "staged" /\ jobs'[j].retry = 0
        /\ \A k \in Jobs \ {j} : jobs'[k] = jobs[k]
    BY <1>2, <1>t DEF RequeueDeadLetter, Job
  <2>2. {k \in Jobs : Owned(k)}' = {k \in Jobs : Owned(k)}
    BY <2>1 DEF Owned, Owns
  <2>3. [k \in Jobs |-> jobs'[k].status] = [[k \in Jobs |-> jobs[k].status] EXCEPT ![j] = "staged"]
    BY <2>1
  <2>4. [k \in Jobs |-> jobs'[k].retry] = [[k \in Jobs |-> jobs[k].retry] EXCEPT ![j] = 0]
    BY <2>1
  <2>5. Lifecycle!Requeue(j)
    BY <2>1, <2>2, <2>3, <2>4 DEF Lifecycle!Requeue
  <2>6. QED BY <2>5 DEF Lifecycle!LifecycleNext
<1>3. ASSUME NEW w \in Workers, NEW j \in Jobs, ClaimTry(w, j) PROVE Goal
  <2>0. workers[w].pc = "try" /\ workers[w] \in Worker
    BY <1>3, <1>t DEF ClaimTry, NextCandidate
  <2>1. CASE ~Eligible(j, workers[w].now)
    <3> DEFINE wk == [workers[w] EXCEPT !.cand = @ \ {j}]
    <3>1. wk.pc \notin Owning /\ workers[w].pc \notin Owning
      BY <2>0 DEF Worker, Owning
    <3>2. Step(w, wk) /\ UNCHANGED jobs
      BY <1>3, <2>1 DEF ClaimTry
    <3> HIDE DEF wk
    <3>3. QED BY <1>t, <3>1, <3>2, OwnedKept, LifecycleStutter
  <2>2. CASE Eligible(j, workers[w].now)
    <3>1. /\ Step(w, [IdleWorker EXCEPT !.pc = "read", !.job = j]) /\ SetStatus(j, "syncing")
          /\ jobs[j].status \in {"staged", "sync_failed"}
      BY <1>3, <2>2 DEF ClaimTry, Eligible
    <3>2. /\ jobs'[j].status = "syncing" /\ jobs'[j].retry = jobs[j].retry
          /\ \A k \in Jobs \ {j} : jobs'[k] = jobs[k]
      BY <1>t, <3>1 DEF SetStatus, Job
    <3>3. \A v \in Workers : ~Owns(v, j)
      BY <3>1 DEF NasIInv, ClaimExclusive
    <3>4. /\ workers'[w].pc = "read" /\ workers'[w].job = j
          /\ \A v \in Workers \ {w} : workers'[v] = workers[v]
      BY <1>t, <3>1 DEF Step, IdleWorker
    <3>5. \A v \in Workers, k \in Jobs : Owns(v, k)' <=> (v = w /\ k = j) \/ Owns(v, k)
      BY <2>0, <3>4 DEF Owns, Owning
    <3>6. {k \in Jobs : Owned(k)}' = {k \in Jobs : Owned(k)} \cup {j} /\ ~Owned(j)
      BY <3>3, <3>5 DEF Owned
    <3>7. [k \in Jobs |-> jobs'[k].status] = [[k \in Jobs |-> jobs[k].status] EXCEPT ![j] = "syncing"]
      BY <3>2
    <3>8. [k \in Jobs |-> jobs'[k].retry] = [k \in Jobs |-> jobs[k].retry]
      BY <3>2
    <3>9. Lifecycle!Claim(j)
      BY <3>1, <3>6, <3>7, <3>8 DEF Lifecycle!Claim
    <3>10. QED BY <3>9 DEF Lifecycle!LifecycleNext
  <2>3. QED BY <2>1, <2>2
<1>4. ASSUME NEW w \in Workers, MarkSynced(w) \/ MarkFailed(w) PROVE Goal
  <2>1. Step(w, IdleWorker) /\ workers[w].pc \in Owning /\ workers[w].pc # "read"
    BY <1>4 DEF MarkSynced, MarkFailed, Owning
  <2>j. PICK j \in Jobs : j = workers[w].job
    BY <2>1 DEF NasIInv, NasShape
  <2>2. Owns(w, j) /\ Owned(j)
    BY <2>1, <2>j DEF Owns, Owned
  <2>3. jobs[j].status = "syncing" /\ jobs[j].retry < MaxRetries /\ jobs[j] \in Job
    BY <1>t, <2>2 DEF NasIInv, ClaimExclusive, RetryBudget
  <2>4. {k \in Jobs : Owned(k)}' = {k \in Jobs : Owned(k)} \ {j}
    BY <2>1, <2>j, OwnedReleased
  <2>5. CASE MarkSynced(w)
    <3>1. /\ jobs'[j].status = "synced" /\ jobs'[j].retry = jobs[j].retry
          /\ \A k \in Jobs \ {j} : jobs'[k] = jobs[k]
      BY <1>t, <2>j, <2>3, <2>5 DEF MarkSynced, SetStatus, Job
    <3>2. [k \in Jobs |-> jobs'[k].status] = [[k \in Jobs |-> jobs[k].status] EXCEPT ![j] = "synced"]
      BY <2>2, <3>1
    <3>3. [k \in Jobs |-> jobs'[k].retry] = [k \in Jobs |-> jobs[k].retry]
      BY <2>2, <3>1
    <3>4. Lifecycle!Succeed(j)
      BY <2>2, <2>3, <2>4, <3>2, <3>3 DEF Lifecycle!Succeed
    <3>5. QED BY <3>4 DEF Lifecycle!LifecycleNext
  <2>6. CASE MarkFailed(w)
    <3> DEFINE st == IF jobs[j].retry + 1 = MaxRetries THEN "dead_letter" ELSE "sync_failed"
    <3>1. /\ jobs'[j].status = st /\ jobs'[j].retry = jobs[j].retry + 1
          /\ \A k \in Jobs \ {j} : jobs'[k] = jobs[k]
      <4>0. jobs' = [jobs EXCEPT ![j] =
                [jobs[j] EXCEPT
                    !.status = IF jobs[j].retry + 1 >= MaxRetries
                                 THEN "dead_letter" ELSE "sync_failed",
                    !.retry = @ + 1,
                    !.nextRetry = Minimum(clock + Backoff(workers[w].retry), MaxTime)]]
        BY <2>j, <2>3, <2>6 DEF MarkFailed
      <4>1. jobs[j].retry + 1 >= MaxRetries <=> jobs[j].retry + 1 = MaxRetries
        BY <2>3, NasAssumptions DEF Job
      <4> DEFINE t == Minimum(clock + Backoff(workers[w].retry), MaxTime)
                 st0 == IF jobs[j].retry + 1 >= MaxRetries THEN "dead_letter" ELSE "sync_failed"
                 new == [jobs[j] EXCEPT !.status = st0, !.retry = @ + 1, !.nextRetry = t]
      <4>2. jobs' = [jobs EXCEPT ![j] = new]
        BY <4>0
      <4>3. st0 = st
        BY <4>1
      <4> HIDE DEF t, st0
      <4>4. new.status = st0 /\ new.retry = jobs[j].retry + 1
        BY <2>3 DEF Job
      <4> HIDE DEF new, st
      <4>5. QED BY <1>t, <2>2, <4>2, <4>3, <4>4
    <3> HIDE DEF st
    <3>2. [k \in Jobs |-> jobs'[k].status] = [[k \in Jobs |-> jobs[k].status] EXCEPT ![j] = st]
      BY <2>2, <3>1
    <3>3. [k \in Jobs |-> jobs'[k].retry] = [[k \in Jobs |-> jobs[k].retry] EXCEPT ![j] = @ + 1]
      BY <2>2, <3>1
    <3>4. Lifecycle!Fail(j)
      BY <2>2, <2>3, <2>4, <3>2, <3>3 DEF Lifecycle!Fail, st
    <3>5. QED BY <3>4 DEF Lifecycle!LifecycleNext
  <2>7. QED BY <1>4, <2>5, <2>6
<1>5. ASSUME NEW w \in Workers, Abandon(w) PROVE Goal
  <2>1. Step(w, IdleWorker) /\ UNCHANGED jobs /\ IdleWorker.pc \notin Owning
    BY <1>5, IdleWorkerType DEF Abandon, Owning
  <2>2. CASE workers[w].pc \notin Owning
    BY <1>t, <2>1, <2>2, OwnedKept, LifecycleStutter
  <2>3. CASE workers[w].pc \in Owning
    <3> DEFINE j == workers[w].job
    <3>1. j \in Jobs /\ Owned(j)
      BY <2>3 DEF NasIInv, NasShape, Owns, Owned
    <3>2. {k \in Jobs : Owned(k)}' = {k \in Jobs : Owned(k)} \ {j}
      BY <2>1, <2>3, OwnedReleased
    <3> HIDE DEF j
    <3>3. Lifecycle!Vanish(j)
      BY <2>1, <3>1, <3>2 DEF Lifecycle!Vanish
    <3>4. QED BY <3>1, <3>3 DEF Lifecycle!LifecycleNext
  <2>4. QED BY <2>2, <2>3
<1>6. ASSUME NEW w \in Workers,
             \/ Poll(w) \/ ClaimSelect(w) \/ ClaimNextRound(w) \/ ClaimRead(w) \/ Copy(w)
             \/ Rename(w) \/ RenameFails(w) \/ MarkSyncedThrows(w)
      PROVE  Goal
  <2>1. UNCHANGED jobs /\ workers[w] \in Worker
    BY <1>6, <1>t DEF Poll, ClaimSelect, ClaimNextRound, ClaimRead, Copy, Rename, RenameFails,
       MarkSyncedThrows
  <2>2. \E wk : /\ Step(w, wk)
                /\ \/ wk.pc \in Owning /\ workers[w].pc \in Owning /\ wk.job = workers[w].job
                   \/ wk.pc \notin Owning /\ workers[w].pc \notin Owning
    <3>1. CASE Poll(w)
      <4> DEFINE wk == [IdleWorker EXCEPT !.pc = "select", !.now = clock]
      <4>1. wk.pc = "select" /\ workers[w].pc = "idle" /\ Step(w, wk)
        BY <3>1 DEF Poll, IdleWorker
      <4> HIDE DEF wk
      <4>2. QED BY <4>1 DEF Owning
    <3>2. CASE ClaimSelect(w) \/ ClaimNextRound(w)
      <4>1. workers[w].pc \notin Owning
        BY <3>2 DEF ClaimSelect, ClaimNextRound, Owning
      <4>2. \E wk : Step(w, wk) /\ wk.pc \in {"idle", "try", "select"}
        <5>1. IdleWorker.pc = "idle"
          BY IdleWorkerType
        <5>2. CASE ClaimSelect(w)
          <6>1. PICK C \in SUBSET Jobs :
                  Step(w, IF C = {} THEN IdleWorker
                          ELSE [workers[w] EXCEPT !.pc = "try", !.cand = C])
            BY <5>2 DEF ClaimSelect
          <6> DEFINE wk == [workers[w] EXCEPT !.pc = "try", !.cand = C]
          <6>2. wk.pc = "try" /\ (Step(w, IdleWorker) \/ Step(w, wk))
            BY <2>1, <6>1 DEF Worker
          <6> HIDE DEF wk
          <6>3. QED BY <5>1, <6>2
        <5>3. CASE ClaimNextRound(w)
          <6> DEFINE wk == [workers[w] EXCEPT !.pc = "select", !.attempt = @ + 1]
          <6>1. wk.pc = "select" /\ (Step(w, IdleWorker) \/ Step(w, wk))
            BY <2>1, <5>3 DEF ClaimNextRound, Worker
          <6> HIDE DEF wk
          <6>2. QED BY <5>1, <6>1
        <5>4. QED BY <3>2, <5>2, <5>3
      <4>3. QED BY <4>1, <4>2 DEF Owning
    <3>3. CASE ClaimRead(w) \/ Copy(w) \/ Rename(w) \/ RenameFails(w) \/ MarkSyncedThrows(w)
      <4>1. workers[w].pc \in Owning
        BY <3>3 DEF ClaimRead, Copy, Rename, RenameFails, MarkSyncedThrows, Owning
      <4>2. \E wk : Step(w, wk) /\ wk.pc \in Owning /\ wk.job = workers[w].job
        <5>1. CASE ClaimRead(w)
          <6> DEFINE wk == [workers[w] EXCEPT !.pc = "copy", !.retry = jobs[workers[w].job].retry]
          <6>1. wk.pc = "copy" /\ wk.job = workers[w].job /\ Step(w, wk)
            BY <2>1, <5>1 DEF ClaimRead, Worker
          <6> HIDE DEF wk
          <6>2. QED BY <6>1 DEF Owning
        <5>2. CASE Copy(w)
          <6>1. CASE Step(w, [workers[w] EXCEPT !.pc = "markFailed"])
            BY <2>1, <6>1 DEF Worker, Owning
          <6>2. ASSUME NEW good \in BOOLEAN,
                       Step(w, [workers[w] EXCEPT !.pc = "rename", !.intact = good])
                PROVE  \E wk : Step(w, wk) /\ wk.pc \in Owning /\ wk.job = workers[w].job
            <7> DEFINE wk == [workers[w] EXCEPT !.pc = "rename", !.intact = good]
            <7>1. wk.pc = "rename" /\ wk.job = workers[w].job /\ Step(w, wk)
              BY <2>1, <6>2 DEF Worker
            <7> HIDE DEF wk
            <7>2. QED BY <7>1 DEF Owning
          <6>3. QED BY <5>2, <6>1, <6>2 DEF Copy
        <5>3. CASE Rename(w)
          BY <2>1, <5>3 DEF Rename, Worker, Owning
        <5>4. CASE RenameFails(w) \/ MarkSyncedThrows(w)
          BY <2>1, <5>4 DEF RenameFails, MarkSyncedThrows, Worker, Owning
        <5>5. QED BY <3>3, <5>1, <5>2, <5>3, <5>4
      <4>3. QED BY <4>1, <4>2
    <3>4. QED BY <1>6, <3>1, <3>2, <3>3
  <2>3. \A j \in Jobs : Owned(j)' <=> Owned(j)
    BY <1>t, <2>2, OwnedKept
  <2>4. QED BY <2>1, <2>3, LifecycleStutter
<1>f. ASSUME NEW j \in Jobs, FlushStaging(j) PROVE Goal
  <2>1. /\ UNCHANGED workers
        /\ \A k \in Jobs : jobs'[k].status = jobs[k].status /\ jobs'[k].retry = jobs[k].retry
    BY <1>f, <1>t DEF FlushStaging, Job
  <2>2. \A k \in Jobs : Owned(k)' <=> Owned(k)
    BY <2>1 DEF Owned, Owns
  <2>3. QED BY <2>1, <2>2, LifecycleStutter
<1>7. ASSUME Tick \/ UNCHANGED nasVars PROVE Goal
  <2>1. UNCHANGED <<jobs, workers>>
    BY <1>7 DEF Tick, nasVars
  <2>2. \A j \in Jobs : Owned(j)' <=> Owned(j)
    BY <2>1 DEF Owned, Owns
  <2>3. QED BY <2>1, <2>2, LifecycleStutter
<1>8. Goal
  BY <1>1, <1>2, <1>3, <1>4, <1>5, <1>6, <1>7, <1>f DEF NasNext, WorkerStep
<1>9. QED BY <1>8

----------------------------------------------------------------------------
(* The theorems.                                                           *)

\* Rows, worker calls and NAS files keep their types and bounds.
THEOREM NasTypeCorrect == NasSpec => []NasTypeOK
<1>1. NasIInv => NasTypeOK
  BY DEF NasIInv
<1>2. QED BY <1>1, NasIInvCorrect, PTL

\* However many workers race for however many jobs, with however many crashes,
\* no job is processed twice at a time and none is moved under its owner
\* (claimNextEligible, libsql-transfer-job-store.ts:100-131).
THEOREM ClaimExclusiveAlways == NasSpec => []ClaimExclusive
<1>1. NasIInv => ClaimExclusive
  BY DEF NasIInv
<1>2. QED BY <1>1, NasIInvCorrect, PTL

\* A job is retried exactly as often as its budget says
\* (markFailed, libsql-transfer-job-store.ts:142-157).
THEOREM RetryBudgetAlways == NasSpec => []RetryBudget
<1>1. NasIInv => RetryBudget
  BY DEF NasIInv
<1>2. QED BY <1>1, NasIInvCorrect, PTL

\* A synced job's repository can be pulled, and not in a damaged copy of that
\* job or one of a staging file that was never flushed to its end (processNext's
\* checksum comparison, nas-sync.service.ts:49-54).
THEOREM SyncedIsReadableAlways == NasSpec => []SyncedIsReadable
<1>1. NasIInv => SyncedIsReadable
  BY DEF NasIInv
<1>2. QED BY <1>1, NasIInvCorrect, PTL

\* Refinement: workers, crashes and the NAS forgotten, the pipeline is the
\* state machine of storage/README.md.
THEOREM NasRefinesLifecycle == NasSpec => RefinesLifecycle
<1>1. NasInit => Lifecycle!LifecycleInit
  <2> SUFFICES ASSUME NasInit PROVE Lifecycle!LifecycleInit
    OBVIOUS
  <2>1. \A j \in Jobs : jobs[j].status = "absent" /\ jobs[j].retry = 0 /\ ~Owned(j)
    BY IdleWorkerType DEF NasInit, NoJob, Owned, Owns, Owning
  <2>2. QED BY <2>1 DEF Lifecycle!LifecycleInit
<1>2. NasIInv /\ [NasNext]_nasVars => [Lifecycle!LifecycleNext]_(Lifecycle!lifecycleVars)
  BY NasRefinesStep
<1>3. QED
  BY <1>1, <1>2, NasIInvCorrect, PTL DEF NasSpec, RefinesLifecycle, Lifecycle!LifecycleSpec

=============================================================================
