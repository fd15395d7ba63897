------------------------------ MODULE RepoLock ------------------------------
(***************************************************************************)
(* What a lock on a repository promises: requests are let in one at a      *)
(* time, in the order in which they arrived.                               *)
(***************************************************************************)
EXTENDS Sequences

CONSTANT Reqs

VARIABLES
    line,       \* requests that arrived and have not left, oldest first
    busy        \* the oldest one has been let in

lockVars == <<line, busy>>

InLine(r) == \E i \in DOMAIN line : line[i] = r

LockInit == line = <<>> /\ busy = FALSE

Arrive(r) ==
    /\ ~InLine(r)
    /\ line' = Append(line, r)
    /\ UNCHANGED busy

Admit ==
    /\ line # <<>> /\ ~busy
    /\ busy' = TRUE
    /\ UNCHANGED line

Leave ==
    /\ busy
    /\ line' = Tail(line) /\ busy' = FALSE

LockNext == (\E r \in Reqs : Arrive(r)) \/ Admit \/ Leave

LockSpec == LockInit /\ [][LockNext]_lockVars

=============================================================================
