------------------------ MODULE TransferJobLifecycle ------------------------
(***************************************************************************)
(* What the transfer-job store promises (contexts/storage/README.md, "Job  *)
(* state machine"; transfer-job-store.ts): a job goes through the states   *)
(* of the diagram only, and whoever claimed it is the only one to move it  *)
(* on.  A claimer may also disappear; its job then keeps its state.        *)
(***************************************************************************)
EXTENDS Integers

CONSTANTS Jobs, MaxRetries

VARIABLES
    status,       \* the status column, "absent" before the INSERT
    retry,        \* the retry_count column
    inFlight      \* jobs somebody has claimed and still works on

lifecycleVars == <<status, retry, inFlight>>

Stage(j) ==
    /\ status[j] = "absent"
    /\ status' = [status EXCEPT ![j] = "staged"]
    /\ UNCHANGED <<retry, inFlight>>

Claim(j) ==
    /\ status[j] \in {"staged", "sync_failed"}
    /\ j \notin inFlight
    /\ status' = [status EXCEPT ![j] = "syncing"]
    /\ inFlight' = inFlight \cup {j}
    /\ UNCHANGED retry

Succeed(j) ==
    /\ status[j] = "syncing" /\ j \in inFlight
    /\ status' = [status EXCEPT ![j] = "synced"]
    /\ inFlight' = inFlight \ {j}
    /\ UNCHANGED retry

\* The last permitted attempt escalates to the dead-letter list.
Fail(j) ==
    /\ status[j] = "syncing" /\ j \in inFlight
    /\ retry' = [retry EXCEPT ![j] = @ + 1]
    /\ status' = [status EXCEPT ![j] =
            IF retry[j] + 1 = MaxRetries THEN "dead_letter" ELSE "sync_failed"]
    /\ inFlight' = inFlight \ {j}

Vanish(j) ==
    /\ j \in inFlight
    /\ inFlight' = inFlight \ {j}
    /\ UNCHANGED <<status, retry>>

Requeue(j) ==
    /\ status[j] = "dead_letter"
    /\ status' = [status EXCEPT ![j] = "staged"]
    /\ retry' = [retry EXCEPT ![j] = 0]
    /\ UNCHANGED inFlight

LifecycleInit ==
    /\ status = [j \in Jobs |-> "absent"]
    /\ retry = [j \in Jobs |-> 0]
    /\ inFlight = {}

LifecycleNext ==
    \E j \in Jobs :
        Stage(j) \/ Claim(j) \/ Succeed(j) \/ Fail(j) \/ Vanish(j) \/ Requeue(j)

LifecycleSpec == LifecycleInit /\ [][LifecycleNext]_lifecycleVars

=============================================================================
