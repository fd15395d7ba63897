------------------------------ MODULE DoltRepo ------------------------------
(***************************************************************************)
(* One repository as the dolt-*-cli.ts wrappers see it.  Dolt is a black   *)
(* box: every command is one atomic step of another process, and only what *)
(* the wrappers rely on is said of it.                                     *)
(***************************************************************************)
EXTENDS Integers, FiniteSets, Sequences

CONSTANTS
    Branches, Main,     \* branch names; the branch dolt init creates
    Tables, PushLog,    \* user tables; deltix_push_log
    MaxCommits          \* bound: commits made

ASSUME DoltAssumptions ==
    /\ Main \in Branches /\ PushLog \notin Tables
    /\ IsFiniteSet(Tables) /\ MaxCommits \in Nat

VARIABLES
    head,       \* head[b]: the commit b points to, 0 when there is no such branch
    commits,    \* commits[c]: its ancestors, itself included, and the tables it changed
    current,    \* the branch that is checked out
    working,    \* tables with uncommitted changes
    staged,     \* tables added for the next commit
    merging     \* {} or the working set a merge with conflicts was started from

doltVars == <<head, commits, current, working, staged, merging>>

AllTables == Tables \cup {PushLog}

Commits == [ancestors : SUBSET (1..MaxCommits), tables : SUBSET AllTables]

DoltTypeOK ==
    /\ head \in [Branches -> 0..Len(commits)]
    /\ commits \in Seq(Commits) /\ Len(commits) \in 1..MaxCommits
    /\ current \in Branches /\ head[current] # 0
    /\ working \subseteq AllTables /\ staged \subseteq AllTables
    /\ merging \subseteq SUBSET AllTables /\ Cardinality(merging) <= 1

\* Commits are numbered by date and hold their whole history; a branch
\* points to one of them.
WellFormed(h, cs) ==
    /\ cs \in Seq(Commits) /\ h \in [Branches -> 0..Len(cs)]
    /\ \A c \in 1..Len(cs) :
          /\ c \in cs[c].ancestors /\ cs[c].ancestors \subseteq 1..c
          /\ \A d \in cs[c].ancestors : cs[d].ancestors \subseteq cs[c].ancestors

Exists(b) == head[b] # 0

History(b) == IF Exists(b) THEN commits[head[b]].ancestors ELSE {}

Reachable == UNION {History(b) : b \in Branches}

InMerge == merging # {}

Uncommitted == working \cup staged # {}

\* SELECT commit_hash FROM dolt_log ORDER BY date DESC LIMIT 1, on the branch
\* that is checked out: commits are numbered by date.
LatestCommitHash == CHOOSE c \in History(current) : \A d \in History(current) : d <= c

(***************************************************************************)
(* Branch commands.                                                        *)
(***************************************************************************)
BranchHead(b) == head[b]

RunCreateBranch(b) ==
    /\ ~Exists(b)
    /\ head' = [head EXCEPT ![b] = head[current]]
    /\ UNCHANGED <<commits, current, working, staged, merging>>

CreateBranchRefused(b) == Exists(b)

\* Uncommitted changes travel with the checkout when they do not collide
\* with the other branch, and make it fail when they do.
RunCheckout(b) ==
    /\ Exists(b) /\ ~InMerge
    /\ current' = b
    /\ UNCHANGED <<head, commits, working, staged, merging>>

CheckoutRefused(b) == ~Exists(b) \/ InMerge \/ (Uncommitted /\ current # b)

\* checkout -b
RunCheckoutNew(b) ==
    /\ ~Exists(b) /\ ~InMerge
    /\ head' = [head EXCEPT ![b] = head[current]]
    /\ current' = b
    /\ UNCHANGED <<commits, working, staged, merging>>

CheckoutNewRefused(b) == Exists(b) \/ InMerge

\* Mutant of MayDelete: branch -D.
MayForceDelete(b) == Exists(b) /\ current # b

\* branch -d wants the branch merged into the one that is checked out.
MayDelete(b) == Exists(b) /\ current # b /\ head[b] \in History(current)

RunDeleteBranch(b) ==
    /\ MayDelete(b)
    /\ head' = [head EXCEPT ![b] = 0]
    /\ UNCHANGED <<commits, current, working, staged, merging>>

(***************************************************************************)
(* Table data, add and commit.                                             *)
(***************************************************************************)
WriteTable(t) ==
    /\ working' = working \cup {t}
    /\ UNCHANGED <<head, commits, current, staged, merging>>

RunAdd(ts) ==
    /\ staged' = staged \cup (ts \cap working)
    /\ UNCHANGED <<head, commits, current, working, merging>>

\* The new commit of the branch that is checked out.
Advance(ancestors, ts) ==
    LET c == Len(commits) + 1 IN
    /\ c <= MaxCommits
    /\ commits' = Append(commits, [ancestors |-> ancestors \cup {c}, tables |-> ts])
    /\ head' = [head EXCEPT ![current] = c]

RunCommit ==
    /\ staged # {} /\ ~InMerge
    /\ Advance(History(current), staged)
    /\ staged' = {} /\ working' = working \ staged
    /\ UNCHANGED <<current, merging>>

CommitRefused == staged = {} \/ InMerge

(***************************************************************************)
(* Merge.                                                                  *)
(***************************************************************************)
UpToDate(source) == History(source) \subseteq History(current)

FastForwards(source) == head[current] \in History(source) /\ ~UpToDate(source)

Diverged(source) == ~UpToDate(source) /\ ~FastForwards(source)

MergeRefused(source) == ~Exists(source) \/ InMerge \/ Uncommitted

\* Tables that differ between the branches.
ChangedIn(cs) == UNION {commits[c].tables : c \in cs}

MayMerge(source) == Exists(source) /\ ~InMerge

MergeFastForward(source) ==
    /\ MayMerge(source) /\ FastForwards(source)
    /\ head' = [head EXCEPT ![current] = head[source]]
    /\ UNCHANGED <<commits, current, working, staged, merging>>

MergeCommit(source) ==
    /\ MayMerge(source) /\ Diverged(source)
    /\ Advance(History(current) \cup History(source),
               ChangedIn(History(source) \ History(current)))
    /\ UNCHANGED <<current, working, staged, merging>>

MergeStops(source) ==
    /\ MayMerge(source) /\ Diverged(source)
    /\ merging' = {working}
    /\ UNCHANGED <<head, commits, current, working, staged>>

\* merge --abort restores the working set the merge was started from.
RunMergeAbort ==
    /\ InMerge
    /\ working' \in merging /\ staged' = {} /\ merging' = {}
    /\ UNCHANGED <<head, commits, current>>

(***************************************************************************)
(* Reading commits.                                                        *)
(***************************************************************************)
\* Mutant of CommitsSince.
CommitsSinceKnown(b, from) ==
    {c \in History(b) : from \in DOMAIN commits /\ c \notin commits[from].ancestors}

\* The commits of b that `from` does not reach.  Without a `from`, and when it
\* is a hash nobody knows and the filtered query fails, that is the whole history.
CommitsSince(b, from) ==
    History(b) \ (IF from \in DOMAIN commits THEN commits[from].ancestors ELSE {})

=============================================================================
