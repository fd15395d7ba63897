-------------------------- MODULE SyncPreferences --------------------------
(***************************************************************************)
(* The table plan of a push (sync-preference.service.ts).  A foreign-key   *)
(* catalog is a set of pairs <<table, referenced table>>; the empty set of *)
(* tables stands for no table list (null): everything is synced.           *)
(***************************************************************************)
EXTENDS Integers, FiniteSets

References(ts, edges) == {e[2] : e \in {d \in edges : d[1] \in ts}}

TablesOf(ts, edges) == ts \cup {e[1] : e \in edges} \cup {e[2] : e \in edges}

\* Mutant of ComputeClosure.
DirectReferences(requested, edges) == requested \cup References(requested, edges)

\* The queue of computeClosure, taken level by level.
ComputeClosure(requested, edges) ==
    LET resolved[n \in 0..Cardinality(TablesOf(requested, edges))] ==
            IF n = 0 THEN requested
            ELSE resolved[n - 1] \cup References(resolved[n - 1], edges)
    IN  resolved[Cardinality(TablesOf(requested, edges))]

BuildPlan(requested, edges) ==
    [requested |-> requested, edges |-> edges,
     resolved |-> IF requested = {} THEN {} ELSE ComputeClosure(requested, edges)]

AutoIncluded(plan) == plan.resolved \ plan.requested

\* assertNoExcludedDependencies
NothingExcluded(plan) == AutoIncluded(plan) = {} \/ plan.requested = {}

\* Reference definition: the least set that holds the requested tables and
\* every table one of its members references.
Closed(ts, edges) == References(ts, edges) \subseteq ts

LeastClosure(requested, edges) ==
    CHOOSE s \in SUBSET TablesOf(requested, edges) :
        /\ requested \subseteq s /\ Closed(s, edges)
        /\ \A t \in SUBSET TablesOf(requested, edges) :
              requested \subseteq t /\ Closed(t, edges) => s \subseteq t

=============================================================================
