-------------------------- MODULE RepositoryProofs --------------------------
(***************************************************************************)
(* The parts the requests on a repository are built from: the promise      *)
(* chain of repo-branch-mutex.ts is a first-come first-served lock, for    *)
(* any number of requests; no dolt command the wrappers run makes the      *)
(* commit graph ill formed or drops a commit that a branch reached; and    *)
(* computeClosure finds the least closed set of tables.                    *)
(***************************************************************************)
EXTENDS RepoBranchMutex, DoltRepo, SyncPreferences, FiniteSetTheorems, WellFoundedInduction, TLAPS

----------------------------------------------------------------------------
(* The mutex.                                                              *)

\* The inductive invariant: the promises that are waited for link the
\* requests in the order of their calls, and the tail is the last of them.
ChainInv == MutexTypeOK /\ ChainIsLine

\* The tail of the chain is Nil and nobody is in line when the server starts.
LEMMA ChainInvInit == MutexInit => ChainInv
  BY DEF MutexInit, ChainInv, MutexTypeOK, ChainIsLine, Queued, Phases

\* What Append does to the line.
LEMMA LineGrows ==
    ASSUME ChainInv, NEW r \in Reqs, line' = Append(line, r)
    PROVE  /\ line' \in Seq(Reqs) /\ Len(line') = Len(line) + 1 /\ Len(line) \in Nat
           /\ \A i \in 1..Len(line) : line'[i] = line[i]
           /\ line'[Len(line) + 1] = r
  BY DEF ChainInv, MutexTypeOK

\* What Tail does to the line.
LEMMA LineShrinks ==
    ASSUME ChainInv, line # <<>>, line' = Tail(line)
    PROVE  /\ line' \in Seq(Reqs) /\ Len(line') = Len(line) - 1 /\ Len(line) \in Nat \ {0}
           /\ \A i \in 1..Len(line') : line'[i] = line[i + 1]
  BY DEF ChainInv, MutexTypeOK

\* The synchronous part of runExclusive puts the caller at the end.
LEMMA EnterKeepsChain == ASSUME ChainInv, NEW r \in Reqs, Enter(r) PROVE ChainInv'
  <1> USE DEF Enter
  <1>1. /\ line' \in Seq(Reqs) /\ Len(line') = Len(line) + 1 /\ Len(line) \in Nat
        /\ \A i \in 1..Len(line) : line'[i] = line[i]
        /\ line'[Len(line) + 1] = r
    BY LineGrows
  <1>2. MutexTypeOK'
    BY <1>1 DEF ChainInv, MutexTypeOK, Phases
  <1>3. \A i \in 1..Len(line) : line[i] # r /\ line[i] \in Reqs
    BY DEF ChainInv, MutexTypeOK, ChainIsLine, Queued
  <1>4. \A i \in 1..Len(line') : i \in 1..Len(line) \/ i = Len(line) + 1
    BY <1>1
  <1>5. \A i, j \in 1..Len(line') : line'[i] = line'[j] => i = j
    BY <1>1, <1>3, <1>4 DEF ChainInv, ChainIsLine
  <1>6. ASSUME NEW x \in Reqs PROVE phase'[x] # "out" <=> Queued(x)'
    <2>1. Queued(x)' <=> Queued(x) \/ x = r
      BY <1>1, <1>4 DEF Queued
    <2> QED BY <2>1 DEF ChainInv, MutexTypeOK, ChainIsLine
  <1>7. tail' = IF line' = <<>> THEN Nil ELSE line'[Len(line')]
    BY <1>1
  <1>8. \A i \in 1..Len(line') :
            waitsFor'[line'[i]] = IF i = 1 THEN Nil ELSE line'[i - 1]
    <2>1. ASSUME NEW i \in 1..Len(line)
          PROVE  waitsFor'[line'[i]] = IF i = 1 THEN Nil ELSE line'[i - 1]
      <3>1. line'[i] = line[i] /\ waitsFor'[line[i]] = waitsFor[line[i]]
        BY <1>1, <1>3 DEF ChainInv, MutexTypeOK
      <3>2. i # 1 => line'[i - 1] = line[i - 1]
        BY <1>1
      <3> QED BY <3>1, <3>2 DEF ChainInv, ChainIsLine
    <2>2. waitsFor'[r] = tail
      BY DEF ChainInv, MutexTypeOK
    <2>3. tail = IF Len(line) + 1 = 1 THEN Nil ELSE line'[Len(line)]
      BY <1>1 DEF ChainInv, MutexTypeOK, ChainIsLine
    <2> QED BY <1>1, <1>4, <2>1, <2>2, <2>3
  <1>9. \A x \in Reqs : phase'[x] = "out" => waitsFor'[x] = Nil
    BY DEF ChainInv, MutexTypeOK, ChainIsLine
  <1>10. \A x \in Reqs : phase'[x] = "inside" => line' # <<>> /\ line'[1] = x
    BY <1>1 DEF ChainInv, MutexTypeOK, ChainIsLine
  <1> QED BY <1>2, <1>5, <1>6, <1>7, <1>8, <1>9, <1>10 DEF ChainInv, ChainIsLine

\* Only the first request of the line waits for nobody.
LEMMA RunIsFirst ==
    ASSUME ChainInv, NEW r \in Reqs, Run(r)
    PROVE  /\ line # <<>> /\ line[1] = r
           /\ \A x \in Reqs : phase[x] # "inside"
  <1>1. PICK i \in 1..Len(line) : line[i] = r
    BY DEF Run, ChainInv, ChainIsLine, Queued
  <1>2. i = 1
    <2>1. i # 1 => line[i - 1] \in Reqs
      BY DEF ChainInv, MutexTypeOK
    <2> QED BY <1>1, <2>1, MutexAssumption DEF Run, ChainInv, ChainIsLine
  <1>3. line # <<>> /\ line[1] = r
    BY <1>1, <1>2
  <1> QED BY <1>3 DEF Run, ChainInv, ChainIsLine

\* The awaited promise is settled and the action runs.
LEMMA RunKeepsChain == ASSUME ChainInv, NEW r \in Reqs, Run(r) PROVE ChainInv'
  <1>1. line # <<>> /\ line[1] = r /\ \A x \in Reqs : phase[x] # "inside"
    BY RunIsFirst
  <1>2. MutexTypeOK'
    BY DEF Run, ChainInv, MutexTypeOK, Phases
  <1>3. \A x \in Reqs : phase'[x] # "out" <=> phase[x] # "out"
    BY DEF Run, ChainInv, MutexTypeOK
  <1>4. \A x \in Reqs : phase'[x] = "inside" => x = r
    BY <1>1 DEF Run, ChainInv, MutexTypeOK
  <1> QED BY <1>1, <1>2, <1>3, <1>4 DEF Run, ChainInv, ChainIsLine, Queued

\* The finally block removes the first request of the line.
LEMMA ReleaseKeepsChain == ASSUME ChainInv, NEW r \in Reqs, Release(r) PROVE ChainInv'
  <1> USE DEF Release
  <1>1. line # <<>> /\ line[1] = r
    BY DEF ChainInv, ChainIsLine
  <1>2. /\ line' \in Seq(Reqs) /\ Len(line') = Len(line) - 1 /\ Len(line) \in Nat \ {0}
        /\ \A i \in 1..Len(line') : line'[i] = line[i + 1]
    BY <1>1, LineShrinks
  <1>3. MutexTypeOK'
    BY <1>2 DEF ChainInv, MutexTypeOK, Phases, Settle
  <1>4. \A i \in 1..Len(line) : line[i] \in Reqs /\ (line[i] = r => i = 1)
    BY <1>1, <1>2 DEF ChainInv, MutexTypeOK, ChainIsLine
  <1>5. \A i, j \in 1..Len(line') : line'[i] = line'[j] => i = j
    BY <1>2 DEF ChainInv, ChainIsLine
  <1>6. ASSUME NEW x \in Reqs PROVE phase'[x] # "out" <=> Queued(x)'
    <2>1. ASSUME Queued(x), x # r PROVE Queued(x)'
      <3>1. PICK i \in 1..Len(line) : line[i] = x
        BY <2>1 DEF Queued
      <3>2. i - 1 \in 1..Len(line') /\ line'[i - 1] = x
        BY <1>1, <1>2, <2>1, <3>1
      <3> QED BY <3>2 DEF Queued
    <2>2. ASSUME Queued(x)' PROVE Queued(x) /\ x # r
      <3>1. PICK i \in 1..Len(line') : line'[i] = x
        BY <2>2 DEF Queued
      <3>2. i + 1 \in 1..Len(line) /\ line[i + 1] = x
        BY <1>2, <3>1
      <3> QED BY <1>4, <3>1, <3>2 DEF Queued
    <2> QED BY <2>1, <2>2 DEF ChainInv, MutexTypeOK, ChainIsLine
  <1>7. tail' = IF line' = <<>> THEN Nil ELSE line'[Len(line')]
    <2>1. tail = line[Len(line)]
      BY <1>1 DEF ChainInv, ChainIsLine
    <2>2. CASE Len(line) = 1
      BY <1>1, <1>2, <2>1, <2>2 DEF Settle
    <2>3. CASE Len(line) # 1
      <3>0. Len(line') \in 1..Len(line')
        <4> HIDE DEF Release
        <4> QED BY <1>2, <2>3
      <3>1. line' # <<>>
        <4> HIDE DEF Release
        <4> QED BY <1>2, <3>0
      <3>2. line'[Len(line')] = line[Len(line)]
        BY <1>2, <3>0
      <3>3. line[Len(line)] # r
        BY <1>2, <1>4, <2>3
      <3> QED BY <2>1, <3>1, <3>2, <3>3 DEF Settle
    <2> QED BY <2>2, <2>3
  <1>8. ASSUME NEW i \in 1..Len(line')
        PROVE  waitsFor'[line'[i]] = IF i = 1 THEN Nil ELSE line'[i - 1]
    <2>1. i + 1 \in 1..Len(line) /\ line'[i] = line[i + 1] /\ line[i + 1] \in Reqs
      BY <1>2, <1>4
    <2>2. waitsFor[line[i + 1]] = line[i]
      BY <1>2, <2>1 DEF ChainInv, ChainIsLine
    <2>3. waitsFor'[line'[i]] = IF line[i] = r THEN Nil ELSE line[i]
      BY <2>1, <2>2 DEF Settle
    <2>4. line[i] = r <=> i = 1
      BY <1>1, <1>2, <1>4
    <2>5. i # 1 => line'[i - 1] = line[i]
      BY <1>2
    <2> QED BY <2>3, <2>4, <2>5
  <1>9. \A x \in Reqs : phase'[x] = "out" => waitsFor'[x] = Nil
    <2>1. waitsFor[r] = Nil
      BY <1>1, <1>2 DEF ChainInv, ChainIsLine
    <2>2. \A x \in Reqs : phase'[x] = "out" => phase[x] = "out" \/ x = r
      BY DEF ChainInv, MutexTypeOK
    <2> QED BY <2>1, <2>2 DEF ChainInv, MutexTypeOK, ChainIsLine, Settle
  <1>10. \A x \in Reqs : phase'[x] # "inside"
    BY <1>1 DEF ChainInv, MutexTypeOK, ChainIsLine
  <1> QED BY <1>3, <1>5, <1>6, <1>7, <1>8, <1>9, <1>10 DEF ChainInv, ChainIsLine

\* Every step of the mutex keeps the chain.
LEMMA ChainInvStep == ChainInv /\ [MutexNext]_mutexVars => ChainInv'
  <1> SUFFICES ASSUME ChainInv, [MutexNext]_mutexVars PROVE ChainInv'
    OBVIOUS
  <1>1. CASE UNCHANGED mutexVars
    BY <1>1 DEF mutexVars, ChainInv, MutexTypeOK, ChainIsLine, Queued
  <1>2. CASE MutexNext
    BY <1>2, EnterKeepsChain, RunKeepsChain, ReleaseKeepsChain DEF MutexNext
  <1> QED BY <1>1, <1>2

\* The chain lets in only the request that called first.
LEMMA ChainAdmitsFirst == ChainInv => HolderIsFirst
  <1> SUFFICES ASSUME ChainInv, NEW r \in Reqs, phase[r] = "inside"
               PROVE  line # <<>> /\ Head(line) = r
    BY DEF HolderIsFirst
  <1> QED BY DEF ChainInv, MutexTypeOK, ChainIsLine

\* No two actions on a repository overlap and none overtakes another,
\* however many requests call runExclusive.
THEOREM MutexSafety == MutexSpec => []HolderIsFirst
  <1>1. MutexSpec => []ChainInv
    BY ChainInvInit, ChainInvStep, PTL DEF MutexSpec
  <1> QED BY <1>1, ChainAdmitsFirst, PTL

\* A step of the chain is a step of the lock or none of its business.
LEMMA LockStep ==
    ChainInv /\ [MutexNext]_mutexVars => [Lock!LockNext]_(Lock!lockVars)
  <1> SUFFICES ASSUME ChainInv, [MutexNext]_mutexVars
               PROVE  [Lock!LockNext]_(Lock!lockVars)
    OBVIOUS
  <1> DEFINE busy == \E x \in Reqs : phase[x] = "inside"
  <1>1. CASE UNCHANGED mutexVars
    BY <1>1 DEF mutexVars, Lock!lockVars
  <1>2. ASSUME NEW r \in Reqs, Enter(r) PROVE Lock!LockNext
    <2>1. ~Lock!InLine(r)
      BY <1>2 DEF Enter, ChainInv, MutexTypeOK, ChainIsLine, Queued, Lock!InLine
    <2>2. busy' <=> busy
      BY <1>2 DEF Enter, ChainInv, MutexTypeOK
    <2>3. Lock!Arrive(r)
      BY <1>2, <2>1, <2>2 DEF Enter, Lock!Arrive
    <2> QED BY <2>3 DEF Lock!LockNext
  <1>3. ASSUME NEW r \in Reqs, Run(r) PROVE Lock!LockNext
    <2>1. line # <<>> /\ ~busy
      BY <1>3, RunIsFirst
    <2>2. phase'[r] = "inside" /\ line' = line
      BY <1>3 DEF Run, ChainInv, MutexTypeOK
    <2>3. Lock!Admit
      BY <2>1, <2>2 DEF Lock!Admit
    <2> QED BY <2>3 DEF Lock!LockNext
  <1>4. ASSUME NEW r \in Reqs, Release(r) PROVE Lock!LockNext
    <2>1. busy
      BY <1>4 DEF Release
    <2>2. ~busy'
      BY <1>4 DEF Release, ChainInv, MutexTypeOK, ChainIsLine
    <2>3. line' = Tail(line)
      BY <1>4 DEF Release
    <2>4. Lock!Leave
      BY <2>1, <2>2, <2>3 DEF Lock!Leave
    <2> QED BY <2>4 DEF Lock!LockNext
  <1> QED BY <1>1, <1>2, <1>3, <1>4 DEF MutexNext

\* The promise chain implements the first-come first-served lock RepoLock.
THEOREM MutexImplementsLock == MutexSpec => LockImplemented
  <1>1. MutexSpec => []ChainInv
    BY ChainInvInit, ChainInvStep, PTL DEF MutexSpec
  <1>2. MutexInit => Lock!LockInit
    BY DEF MutexInit, Lock!LockInit
  <1> QED BY <1>1, <1>2, LockStep, PTL DEF MutexSpec, LockImplemented, Lock!LockSpec

----------------------------------------------------------------------------
(* The commit graph.                                                       *)

\* The graph is well formed, and a branch that exists is checked out.
DoltInv ==
    /\ WellFormed(head, commits)
    /\ current \in Branches /\ Exists(current)
    /\ working \subseteq AllTables /\ staged \subseteq AllTables
    /\ merging \subseteq SUBSET AllTables

\* What a command must keep.
GraphKept == DoltInv' /\ Reachable \subseteq Reachable'

\* A branch that exists points to a commit, which is in its history.
LEMMA HistoryOfBranch ==
    ASSUME DoltInv, NEW b \in Branches, Exists(b)
    PROVE  /\ head[b] \in 1..Len(commits) /\ head[b] \in History(b)
           /\ History(b) = commits[head[b]].ancestors
           /\ History(b) \subseteq 1..Len(commits)
           /\ \A c \in History(b) : commits[c].ancestors \subseteq History(b)
  <1>1. head[b] \in 1..Len(commits)
    BY DEF DoltInv, WellFormed, Exists
  <1>2. History(b) = commits[head[b]].ancestors
    BY DEF History
  <1>3. Len(commits) \in Nat
    BY DEF DoltInv, WellFormed
  <1> QED BY <1>1, <1>2, <1>3 DEF DoltInv, WellFormed

\* No commit is lost when every history is part of a history afterwards.
LEMMA HistoriesCovered ==
    ASSUME \A a \in Branches : \E b \in Branches : History(a) \subseteq History(b)'
    PROVE  Reachable \subseteq Reachable'
  BY DEF Reachable

\* A command that moves no branch loses no commit.
LEMMA SameGraph ==
    ASSUME DoltInv, UNCHANGED <<head, commits>>, current' \in Branches, Exists(current'),
           working' \subseteq AllTables, staged' \subseteq AllTables,
           merging' \subseteq SUBSET AllTables
    PROVE  GraphKept
  <1>1. Reachable \subseteq Reachable'
    BY DEF Reachable, History, Exists
  <1> QED BY <1>1 DEF GraphKept, DoltInv, WellFormed, Exists, AllTables, Commits

\* A new branch points to the commit that is checked out.
LEMMA NewBranch ==
    ASSUME DoltInv, NEW b \in Branches, ~Exists(b), current' \in {b, current},
           head' = [head EXCEPT ![b] = head[current]],
           UNCHANGED <<commits, working, staged, merging>>
    PROVE  GraphKept
  <1>1. head'[b] = head[current] /\ \A a \in Branches : a # b => head'[a] = head[a]
    BY DEF DoltInv, WellFormed
  <1>2. WellFormed(head, commits)'
    BY DEF DoltInv, WellFormed, Commits, AllTables
  <1>3. current' \in Branches /\ Exists(current)'
    BY <1>1 DEF DoltInv, Exists
  <1>4. ASSUME NEW a \in Branches PROVE History(a) \subseteq History(a)'
    BY <1>1 DEF History, Exists
  <1> QED BY <1>2, <1>3, <1>4, HistoriesCovered DEF GraphKept, DoltInv, AllTables

\* A branch may go because its history is part of the one checked out.
LEMMA DeleteKeepsGraph ==
    ASSUME DoltInv, NEW b \in Branches, RunDeleteBranch(b) PROVE GraphKept
  <1>1. head'[b] = 0 /\ b # current /\ \A a \in Branches : a # b => head'[a] = head[a]
    BY DEF RunDeleteBranch, MayDelete, DoltInv, WellFormed
  <1>2. WellFormed(head, commits)'
    <2>1. Len(commits) \in Nat
      BY DEF DoltInv, WellFormed
    <2> QED BY <2>1 DEF RunDeleteBranch, DoltInv, WellFormed, Commits, AllTables
  <1>3. current' \in Branches /\ Exists(current)'
    BY <1>1 DEF RunDeleteBranch, DoltInv, Exists
  <1>4. History(b) \subseteq History(current)
    BY HistoryOfBranch DEF RunDeleteBranch, MayDelete, DoltInv
  <1>5. ASSUME NEW a \in Branches, a # b PROVE History(a)' = History(a)
    BY <1>1, <1>5 DEF RunDeleteBranch, History, Exists
  <1>6. \A a \in Branches : \E c \in Branches : History(a) \subseteq History(c)'
    BY <1>1, <1>4, <1>5 DEF DoltInv
  <1> QED BY <1>2, <1>3, <1>6, HistoriesCovered
          DEF GraphKept, DoltInv, RunDeleteBranch, AllTables

\* A new commit on the branch that is checked out extends its history.
LEMMA AdvanceKeepsGraph ==
    ASSUME DoltInv, NEW ancestors, NEW ts \in SUBSET AllTables, Advance(ancestors, ts),
           History(current) \subseteq ancestors, ancestors \subseteq 1..Len(commits),
           \A d \in ancestors : commits[d].ancestors \subseteq ancestors,
           UNCHANGED <<current, merging>>,
           working' \subseteq AllTables, staged' \subseteq AllTables
    PROVE  GraphKept
  <1> DEFINE c == Len(commits) + 1
             new == [ancestors |-> ancestors \cup {c}, tables |-> ts]
  <1>1. /\ commits \in Seq(Commits) /\ Len(commits) \in Nat /\ c \in 1..MaxCommits
        /\ commits' = Append(commits, new) /\ head' = [head EXCEPT ![current] = c]
    <2>1. commits \in Seq(Commits) /\ Len(commits) \in Nat
      BY DEF DoltInv, WellFormed
    <2>2. /\ c <= MaxCommits /\ commits' = Append(commits, new)
          /\ head' = [head EXCEPT ![current] = c]
      BY DEF Advance
    <2>3. c \in 1..MaxCommits
      BY <2>1, <2>2, DoltAssumptions
    <2> QED BY <2>1, <2>2, <2>3
  <1>2. new \in Commits
    <2>1. ancestors \cup {c} \in SUBSET (1..MaxCommits)
      <3>1. 1..Len(commits) \subseteq 1..MaxCommits
        BY <1>1, DoltAssumptions
      <3> QED BY <1>1, <3>1
    <2> QED BY <2>1 DEF Commits
  <1>3. /\ commits' \in Seq(Commits) /\ Len(commits') = c
        /\ \A n \in 1..Len(commits) : commits'[n] = commits[n]
        /\ commits'[c] = new
    <2> HIDE DEF new
    <2> QED BY <1>1, <1>2
  <1>4. ASSUME NEW n \in 1..Len(commits')
        PROVE  /\ n \in commits'[n].ancestors /\ commits'[n].ancestors \subseteq 1..n
               /\ \A d \in commits'[n].ancestors : commits'[d].ancestors \subseteq commits'[n].ancestors
    <2>1. CASE n \in 1..Len(commits)
      BY <1>1, <1>3, <2>1 DEF DoltInv, WellFormed
    <2>2. CASE n = c
      <3>1. commits'[n].ancestors = ancestors \cup {c}
        BY <1>3, <2>2
      <3>2. \A d \in ancestors : commits'[d].ancestors \subseteq ancestors
        BY <1>3
      <3>3. commits'[c].ancestors = ancestors \cup {c}
        BY <1>3
      <3>4. ancestors \cup {c} \subseteq 1..c
        <4>1. 1..Len(commits) \subseteq 1..c /\ c \in 1..c
          BY <1>1
        <4> QED BY <4>1
      <3> QED BY <2>2, <3>1, <3>2, <3>3, <3>4
    <2> QED BY <1>1, <1>3, <2>1, <2>2
  <1>5. head' \in [Branches -> 0..Len(commits')]
    BY <1>1, <1>3 DEF DoltInv, WellFormed
  <1>6. WellFormed(head, commits)'
    BY <1>3, <1>4, <1>5 DEF WellFormed, Commits, AllTables
  <1>7. head'[current] = c /\ \A a \in Branches : a # current => head'[a] = head[a]
    BY <1>1 DEF DoltInv, WellFormed
  <1>8. Exists(current)'
    BY <1>1, <1>7 DEF Exists
  <1>9. ASSUME NEW a \in Branches PROVE History(a) \subseteq History(a)'
    <2>1. CASE a = current
      <3>1. History(a)' = ancestors \cup {c}
        BY <1>1, <1>3, <1>7, <2>1 DEF History, Exists
      <3> QED BY <2>1, <3>1
    <2>2. CASE a # current /\ Exists(a)
      <3>1. head[a] \in 1..Len(commits) /\ History(a) = commits[head[a]].ancestors
        BY <2>2, HistoryOfBranch
      <3> QED BY <1>3, <1>7, <2>2, <3>1 DEF History, Exists
    <2>3. CASE ~Exists(a)
      BY <2>3 DEF History
    <2> QED BY <2>1, <2>2, <2>3
  <1> QED BY <1>6, <1>8, <1>9, HistoriesCovered DEF GraphKept, DoltInv, AllTables

\* A commit, and its parent is the head that is checked out.
LEMMA CommitKeepsGraph == ASSUME DoltInv, RunCommit PROVE GraphKept
  <1>1. /\ History(current) \subseteq 1..Len(commits)
        /\ \A d \in History(current) : commits[d].ancestors \subseteq History(current)
    BY HistoryOfBranch DEF DoltInv
  <1>2. staged \in SUBSET AllTables /\ working' \subseteq AllTables /\ staged' \subseteq AllTables
    BY DEF RunCommit, DoltInv
  <1> QED BY <1>1, <1>2, AdvanceKeepsGraph DEF RunCommit

\* A merge that makes a commit has both heads as parents.
LEMMA MergeCommitKeepsGraph ==
    ASSUME DoltInv, NEW b \in Branches, MergeCommit(b) PROVE GraphKept
  <1>1. /\ History(current) \subseteq 1..Len(commits)
        /\ \A d \in History(current) : commits[d].ancestors \subseteq History(current)
    BY HistoryOfBranch DEF DoltInv
  <1>2. /\ History(b) \subseteq 1..Len(commits)
        /\ \A d \in History(b) : commits[d].ancestors \subseteq History(b)
    BY HistoryOfBranch DEF MergeCommit, MayMerge
  <1>3. ChangedIn(History(b) \ History(current)) \in SUBSET AllTables
    <2>1. \A n \in 1..Len(commits) : commits[n].tables \subseteq AllTables
      <3>1. \A n \in 1..Len(commits) : commits[n] \in Commits
        BY DEF DoltInv, WellFormed
      <3> QED BY <3>1 DEF Commits
    <2> QED BY <1>2, <2>1 DEF ChangedIn
  <1> DEFINE both == History(current) \cup History(b)
  <1>4. /\ History(current) \subseteq both /\ both \subseteq 1..Len(commits)
        /\ \A d \in both : commits[d].ancestors \subseteq both
    BY <1>1, <1>2
  <1>5. /\ UNCHANGED <<current, merging>>
        /\ working' \subseteq AllTables /\ staged' \subseteq AllTables
    BY DEF MergeCommit, DoltInv, AllTables
  <1>6. Advance(both, ChangedIn(History(b) \ History(current)))
    BY DEF MergeCommit
  <1> HIDE DEF both
  <1> QED BY <1>3, <1>4, <1>5, <1>6, AdvanceKeepsGraph

\* A fast-forward moves the branch to a commit that has its head as ancestor.
LEMMA FastForwardKeepsGraph ==
    ASSUME DoltInv, NEW b \in Branches, MergeFastForward(b) PROVE GraphKept
  <1>1. Exists(b) /\ head[current] \in History(b) /\ head' = [head EXCEPT ![current] = head[b]]
        /\ UNCHANGED <<commits, current, working, staged, merging>>
    BY DEF MergeFastForward, MayMerge, FastForwards
  <1>2. head'[current] = head[b] /\ \A a \in Branches : a # current => head'[a] = head[a]
    BY <1>1 DEF DoltInv, WellFormed
  <1>3. WellFormed(head, commits)'
    BY <1>1 DEF DoltInv, WellFormed, Commits, AllTables
  <1>4. Exists(current)'
    BY <1>1, <1>2 DEF Exists
  <1>5. History(current) \subseteq History(b)
    BY <1>1, HistoryOfBranch DEF DoltInv
  <1>6. History(current)' = History(b)
    BY <1>1, <1>2 DEF History, Exists
  <1>7. ASSUME NEW a \in Branches PROVE History(a) \subseteq History(a)'
    <2>1. CASE a = current
      BY <1>1, <1>5, <1>6, <2>1
    <2>2. CASE a # current
      BY <1>1, <1>2, <2>2 DEF History, Exists
    <2> QED BY <2>1, <2>2
  <1> QED BY <1>1, <1>3, <1>4, <1>7, HistoriesCovered DEF GraphKept, DoltInv, AllTables

----------------------------------------------------------------------------
(* The table plan.  Induction over the natural numbers is stated with sets *)
(* instead of predicates, so that the provers can instantiate it.          *)

\* A set that holds 0 and the successor of its members holds every number.
LEMMA NatSetInduction ==
    ASSUME NEW S, 0 \in S, \A n \in Nat : n \in S => n + 1 \in S
    PROVE  Nat \subseteq S
  <1> DEFINE R == {ss \in Nat \X Nat : ss[1] < ss[2]}
             B == Nat \ S
  <1>1. IsWellFoundedOn(R, Nat)
    BY NatLessThanWellFounded DEF OpToRel
  <1>2. SUFFICES ASSUME B # {} PROVE FALSE
    OBVIOUS
  <1>3. PICK x \in B : \A y \in B : <<y, x>> \notin R
    <2> HIDE DEF R, B
    <2>1. B \subseteq Nat
      BY DEF B
    <2> QED BY <1>1, <1>2, <2>1, WFMin
  <1>4. x \in Nat /\ x # 0 /\ x - 1 \in Nat
    OBVIOUS
  <1>5. x - 1 \notin S
    BY <1>4
  <1>6. <<x - 1, x>> \in R
    BY <1>4
  <1> QED BY <1>3, <1>4, <1>5, <1>6

\* One round of the queue of computeClosure.
Grow(ts, edges) == ts \cup References(ts, edges)

\* The rounds of computeClosure, up to the n-th.
IsRounds(g, n, requested, edges) ==
    g = [k \in 0..n |-> IF k = 0 THEN requested ELSE g[k - 1] \cup References(g[k - 1], edges)]

\* What the equation of the recursive function says of every round.
LEMMA RoundsFacts ==
    ASSUME NEW n \in Nat, NEW g, NEW requested, NEW edges
    PROVE  IsRounds(g, n, requested, edges) <=>
              /\ g = [k \in 0..n |-> g[k]]
              /\ g[0] = requested
              /\ \A k \in 0..n : k # 0 => g[k] = Grow(g[k - 1], edges)
  <1> DEFINE F(k) == IF k = 0 THEN requested ELSE g[k - 1] \cup References(g[k - 1], edges)
  <1>1. ASSUME IsRounds(g, n, requested, edges)
        PROVE  /\ g = [k \in 0..n |-> g[k]] /\ g[0] = requested
               /\ \A k \in 0..n : k # 0 => g[k] = Grow(g[k - 1], edges)
    <2>1. g = [k \in 0..n |-> F(k)]
      BY <1>1 DEF IsRounds
    <2>2. \A k \in 0..n : g[k] = F(k)
      BY <2>1
    <2> QED BY <2>1, <2>2 DEF Grow
  <1>2. ASSUME g = [k \in 0..n |-> g[k]], g[0] = requested,
               \A k \in 0..n : k # 0 => g[k] = Grow(g[k - 1], edges)
        PROVE  IsRounds(g, n, requested, edges)
    <2>1. \A k \in 0..n : g[k] = F(k)
      BY <1>2 DEF Grow
    <2>2. g = [k \in 0..n |-> F(k)]
      BY <1>2, <2>1
    <2> QED BY <2>2 DEF IsRounds
  <1> QED BY <1>1, <1>2

\* The equation has a solution for any number of rounds.
LEMMA RoundsExist ==
    ASSUME NEW requested, NEW edges
    PROVE  \A n \in Nat : \E g : IsRounds(g, n, requested, edges)
  <1> DEFINE S == {n \in Nat : \E g : IsRounds(g, n, requested, edges)}
  <1>1. 0 \in S
    <2> DEFINE g == [k \in 0..0 |-> requested]
    <2>1. IsRounds(g, 0, requested, edges)
      <3>1. g = [k \in 0..0 |-> g[k]] /\ g[0] = requested
        OBVIOUS
      <3> HIDE DEF g
      <3>2. 0 \in Nat /\ \A k \in 0..0 : k # 0 => g[k] = Grow(g[k - 1], edges)
        OBVIOUS
      <3> QED BY <3>1, <3>2, RoundsFacts
    <2> QED BY <2>1
  <1>2. ASSUME NEW n \in Nat, n \in S PROVE n + 1 \in S
    <2>1. PICK g : IsRounds(g, n, requested, edges)
      BY <1>2
    <2>2. /\ g[0] = requested
          /\ \A k \in 0..n : k # 0 => g[k] = Grow(g[k - 1], edges)
      BY <2>1, RoundsFacts
    <2> DEFINE h == [k \in 0..(n + 1) |-> IF k = n + 1 THEN Grow(g[n], edges) ELSE g[k]]
    <2>3. h = [k \in 0..(n + 1) |-> h[k]]
      OBVIOUS
    <2>4. h[n + 1] = Grow(g[n], edges) /\ \A k \in 0..n : h[k] = g[k]
      OBVIOUS
    <2> HIDE DEF h
    <2>5. h[0] = requested /\ \A k \in 0..(n + 1) : k # 0 => h[k] = Grow(h[k - 1], edges)
      <3>1. h[0] = requested
        BY <2>2, <2>4
      <3>2. ASSUME NEW k \in 0..(n + 1), k # 0 PROVE h[k] = Grow(h[k - 1], edges)
        <4>1. CASE k = n + 1
          BY <2>4, <4>1
        <4>2. CASE k # n + 1
          <5>1. k \in 0..n /\ k - 1 \in 0..n
            BY <3>2, <4>2
          <5> QED BY <2>2, <2>4, <3>2, <5>1
        <4> QED BY <4>1, <4>2
      <3> QED BY <3>1, <3>2
    <2>6. IsRounds(h, n + 1, requested, edges)
      <3>1. n + 1 \in Nat
        OBVIOUS
      <3> QED BY <2>3, <2>5, <3>1, RoundsFacts
    <2> QED BY <2>6
  <1> HIDE DEF S
  <1>3. Nat \subseteq S
    BY <1>1, <1>2, NatSetInduction
  <1> QED BY <1>3 DEF S

\* As many rounds as there are tables.
Bound(requested, edges) == Cardinality(TablesOf(requested, edges))

\* The rounds that computeClosure runs.
Rounds(requested, edges) == CHOOSE g : IsRounds(g, Bound(requested, edges), requested, edges)

\* computeClosure answers what its last round found.
LEMMA ClosureIsLastRound ==
    ASSUME NEW requested, NEW edges
    PROVE  ComputeClosure(requested, edges) = Rounds(requested, edges)[Bound(requested, edges)]
  BY Zenon DEF ComputeClosure, Rounds, Bound, IsRounds

\* After k rounds: nothing a closed superset lacks, and either closed or grown k times.
RoundOK(k, ts, requested, edges) ==
    /\ requested \subseteq ts /\ ts \subseteq TablesOf(requested, edges)
    /\ \A t : requested \subseteq t /\ Closed(t, edges) => ts \subseteq t
    /\ Closed(ts, edges) \/ k <= Cardinality(ts)

\* One more round keeps RoundOK: a set that is not closed grows.
LEMMA RoundGrows ==
    ASSUME NEW k \in Nat, NEW ts, NEW requested, NEW edges,
           IsFiniteSet(TablesOf(requested, edges)), RoundOK(k, ts, requested, edges)
    PROVE  RoundOK(k + 1, Grow(ts, edges), requested, edges)
  <1> DEFINE all == TablesOf(requested, edges)
             next == Grow(ts, edges)
  <1>1. ts \subseteq next /\ next \subseteq all
    BY DEF RoundOK, Grow, References, TablesOf
  <1>2. ASSUME NEW t, requested \subseteq t, Closed(t, edges) PROVE next \subseteq t
    <2>1. ts \subseteq t
      BY <1>2 DEF RoundOK
    <2>2. References(ts, edges) \subseteq References(t, edges)
      BY <2>1 DEF References
    <2> QED BY <1>2, <2>1, <2>2 DEF Closed, Grow
  <1>3. Closed(next, edges) \/ k + 1 <= Cardinality(next)
    <2>1. CASE Closed(ts, edges)
      <3>1. next = ts
        BY <2>1 DEF Closed, Grow
      <3> QED BY <2>1, <3>1
    <2>2. CASE ~Closed(ts, edges)
      <3>1. next # ts /\ k <= Cardinality(ts)
        BY <2>2 DEF Closed, Grow, RoundOK
      <3>2. IsFiniteSet(next)
        BY <1>1, FS_Subset
      <3> HIDE DEF next
      <3>3. IsFiniteSet(ts) /\ Cardinality(ts) <= Cardinality(next) /\ Cardinality(ts) # Cardinality(next)
        BY <1>1, <3>1, <3>2, FS_Subset
      <3>4. Cardinality(ts) \in Nat /\ Cardinality(next) \in Nat
        BY <3>2, <3>3, FS_CardinalityType
      <3> QED BY <3>1, <3>3, <3>4
    <2> QED BY <2>1, <2>2
  <1>4. requested \subseteq next
    BY <1>1 DEF RoundOK
  <1> QED BY <1>1, <1>2, <1>3, <1>4 DEF RoundOK

\* computeClosure ends with the least closed set that holds the requested tables.
LEMMA ClosureIsLeast ==
    ASSUME NEW requested, NEW edges, IsFiniteSet(TablesOf(requested, edges))
    PROVE  /\ ComputeClosure(requested, edges) = LeastClosure(requested, edges)
           /\ Closed(ComputeClosure(requested, edges), edges)
           /\ ComputeClosure(requested, edges) \subseteq TablesOf(requested, edges)
           /\ requested \subseteq ComputeClosure(requested, edges)
  <1> DEFINE all == TablesOf(requested, edges)
             n == Bound(requested, edges)
             g == Rounds(requested, edges)
             S == {k \in Nat : k <= n => RoundOK(k, g[k], requested, edges)}
  <1>1. n \in Nat /\ n = Cardinality(all)
    BY FS_CardinalityType DEF Bound
  <1>2. IsRounds(g, n, requested, edges)
    <2>1. \E h : IsRounds(h, n, requested, edges)
      BY <1>1, RoundsExist
    <2> QED BY <2>1, Zenon DEF Rounds
  <1> HIDE DEF n, g
  <1>3. /\ g[0] = requested
        /\ \A k \in 0..n : k # 0 => g[k] = Grow(g[k - 1], edges)
    BY <1>1, <1>2, RoundsFacts
  <1>4. 0 \in S
    <2>1. IsFiniteSet(requested)
      BY FS_Subset DEF TablesOf
    <2>2. 0 <= Cardinality(requested)
      BY <2>1, FS_CardinalityType
    <2>3. RoundOK(0, requested, requested, edges)
      BY <2>2 DEF RoundOK, TablesOf
    <2> QED BY <1>3, <2>3
  <1>5. ASSUME NEW k \in Nat, k \in S PROVE k + 1 \in S
    <2> SUFFICES ASSUME k + 1 <= n PROVE RoundOK(k + 1, g[k + 1], requested, edges)
      OBVIOUS
    <2>1. RoundOK(k, g[k], requested, edges)
      BY <1>1, <1>5
    <2>2. g[k + 1] = Grow(g[k], edges)
      <3>1. k + 1 \in 0..n /\ k + 1 # 0 /\ (k + 1) - 1 = k
        BY <1>1
      <3> QED BY <1>3, <3>1
    <2> QED BY <2>1, <2>2, RoundGrows
  <1>6. RoundOK(n, g[n], requested, edges)
    <2> HIDE DEF S
    <2>1. Nat \subseteq S
      BY <1>4, <1>5, NatSetInduction
    <2> QED BY <1>1, <2>1 DEF S
  <1> DEFINE c == g[n]
  <1>7. ComputeClosure(requested, edges) = c
    BY ClosureIsLastRound DEF n, g
  <1> HIDE DEF c
  <1>8. RoundOK(n, c, requested, edges)
    BY <1>6 DEF c
  <1>9. Closed(c, edges) /\ c \subseteq all /\ requested \subseteq c
    <2>1. c \subseteq all /\ requested \subseteq c
      BY <1>8 DEF RoundOK
    <2>2. CASE n <= Cardinality(c)
      <3>1. IsFiniteSet(c) /\ Cardinality(c) <= n
        BY <1>1, <2>1, FS_Subset
      <3>2. Cardinality(c) \in Nat
        BY <3>1, FS_CardinalityType
      <3>3. Cardinality(all) = Cardinality(c)
        BY <1>1, <2>2, <3>1, <3>2
      <3>4. c = all
        BY <2>1, <3>3, FS_Subset
      <3> QED BY <2>1, <3>4 DEF Closed, References, TablesOf
    <2> QED BY <1>8, <2>1, <2>2 DEF RoundOK
  <1>10. c = LeastClosure(requested, edges)
    <2> DEFINE Least(s) ==
                  /\ requested \subseteq s /\ Closed(s, edges)
                  /\ \A t \in SUBSET all : requested \subseteq t /\ Closed(t, edges) => s \subseteq t
    <2>1. c \in SUBSET all /\ Least(c)
      BY <1>8, <1>9 DEF RoundOK
    <2>2. LeastClosure(requested, edges) = CHOOSE s \in SUBSET all : Least(s)
      BY Zenon DEF LeastClosure
    <2> HIDE DEF Least
    <2>3. LeastClosure(requested, edges) \in SUBSET all /\ Least(LeastClosure(requested, edges))
      BY <2>1, <2>2, Zenon
    <2> QED BY <2>1, <2>3 DEF Least
  <1> QED BY <1>7, <1>9, <1>10

=============================================================================
