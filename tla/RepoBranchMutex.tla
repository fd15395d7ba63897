-------------------------- MODULE RepoBranchMutex --------------------------
(***************************************************************************)
(* The mutex of one repository (repo-branch-mutex.ts): a chain of          *)
(* promises.  runExclusive waits for the promise that was the tail of the  *)
(* chain when it was called and puts its own at the tail; the promise of a *)
(* request is settled when its action ends, whichever way it ends.         *)
(***************************************************************************)
EXTENDS Naturals, Sequences

CONSTANTS
    Reqs,       \* requests the server is handling
    Nil         \* no promise, or one that is settled

ASSUME MutexAssumption == Nil \notin Reqs

VARIABLES
    tail,       \* whose promise tails holds for the repository
    waitsFor,   \* waitsFor[r]: whose promise `await previous` of r waits for
    phase,      \* phase[r]: where r is in runExclusive
    line        \* history: requests in runExclusive, in order of their calls

mutexVars == <<tail, waitsFor, phase, line>>

Phases == {"out", "waiting", "inside"}

MutexInit ==
    /\ tail = Nil
    /\ waitsFor = [r \in Reqs |-> Nil]
    /\ phase = [r \in Reqs |-> "out"]
    /\ line = <<>>

\* Mutant of Enter.
EnterUnchained(r) ==
    /\ phase[r] = "out"
    /\ waitsFor' = [waitsFor EXCEPT ![r] = IF tail # Nil THEN waitsFor[tail] ELSE Nil]
    /\ tail' = r
    /\ phase' = [phase EXCEPT ![r] = "waiting"]
    /\ line' = Append(line, r)

\* The synchronous part of runExclusive, up to `await previous`.
Enter(r) ==
    /\ phase[r] = "out"
    /\ waitsFor' = [waitsFor EXCEPT ![r] = tail]
    /\ tail' = r
    /\ phase' = [phase EXCEPT ![r] = "waiting"]
    /\ line' = Append(line, r)

Run(r) ==
    /\ phase[r] = "waiting" /\ waitsFor[r] = Nil
    /\ phase' = [phase EXCEPT ![r] = "inside"]
    /\ UNCHANGED <<tail, waitsFor, line>>

Settle(promise, r) == IF promise = r THEN Nil ELSE promise

\* Mutant of Release: the entry is deleted whoever owns the tail.
ReleaseAndDelete(r) ==
    /\ phase[r] = "inside"
    /\ tail' = Nil
    /\ waitsFor' = [x \in Reqs |-> Settle(waitsFor[x], r)]
    /\ phase' = [phase EXCEPT ![r] = "out"]
    /\ line' = Tail(line)

\* The finally block.  tails never holds `current` itself but the promise
\* chained on it, so the entry of the map is never deleted.
Release(r) ==
    /\ phase[r] = "inside"
    /\ tail' = Settle(tail, r)
    /\ waitsFor' = [x \in Reqs |-> Settle(waitsFor[x], r)]
    /\ phase' = [phase EXCEPT ![r] = "out"]
    /\ line' = Tail(line)

MutexNext == \E r \in Reqs : Enter(r) \/ Run(r) \/ Release(r)

MutexSpec == MutexInit /\ [][MutexNext]_mutexVars

(***************************************************************************)
(* Properties.                                                             *)
(***************************************************************************)

\* Only the request that called runExclusive first is inside: no two
\* actions on a repository overlap, and none overtakes another.
HolderIsFirst == \A r \in Reqs : phase[r] = "inside" => line # <<>> /\ Head(line) = r

Lock == INSTANCE RepoLock WITH busy <- (\E r \in Reqs : phase[r] = "inside")

\* The promise chain implements a first-come first-served lock.
LockImplemented == Lock!LockSpec

(***************************************************************************)
(* The chain links every request to the one that called before it.  It is  *)
(* what makes HolderIsFirst inductive.                                     *)
(***************************************************************************)
MutexTypeOK ==
    /\ tail \in Reqs \cup {Nil}
    /\ waitsFor \in [Reqs -> Reqs \cup {Nil}]
    /\ phase \in [Reqs -> Phases]
    /\ line \in Seq(Reqs)

Queued(r) == \E i \in 1..Len(line) : line[i] = r

ChainIsLine ==
    /\ \A i, j \in 1..Len(line) : line[i] = line[j] => i = j
    /\ \A r \in Reqs : phase[r] # "out" <=> Queued(r)
    /\ tail = IF line = <<>> THEN Nil ELSE line[Len(line)]
    /\ \A i \in 1..Len(line) : waitsFor[line[i]] = IF i = 1 THEN Nil ELSE line[i - 1]
    /\ \A r \in Reqs : phase[r] = "out" => waitsFor[r] = Nil
    /\ \A r \in Reqs : phase[r] = "inside" => line # <<>> /\ line[1] = r

=============================================================================
