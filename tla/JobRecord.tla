------------------------------ MODULE JobRecord ------------------------------
(***************************************************************************)
(* What a job's row promises to every reader of it, whoever writes it: the *)
(* order of its states, that a terminal state is left only by retention,   *)
(* and that a result is there exactly when the job SUCCEEDED.  JobLifecycle *)
(* shows that the server, the worker and the watchdog together keep it.    *)
(***************************************************************************)

VARIABLES state,   \* "ABSENT" before the row is written, "PURGED" after its deletion
          result   \* whether the row carries a result

vars == <<state, result>>

\* jobs.py TERMINAL_STATES and ACTIVE_STATES.
TERMINAL_STATES == {"CANCELLED", "SUCCEEDED", "FAILED", "TIMED_OUT", "ORPHANED"}
ACTIVE_STATES   == {"QUEUED", "RUNNING", "CANCEL_REQUESTED"}
STATES          == TERMINAL_STATES \cup ACTIVE_STATES \cup {"ABSENT", "PURGED"}

Init == state = "ABSENT" /\ result = FALSE

Create        == state = "ABSENT" /\ state' = "QUEUED" /\ UNCHANGED result
Run           == state = "QUEUED" /\ state' = "RUNNING" /\ UNCHANGED result
RequestCancel == state \in ACTIVE_STATES /\ state' = "CANCEL_REQUESTED" /\ UNCHANGED result
Cancelled     == state = "CANCEL_REQUESTED" /\ state' = "CANCELLED" /\ UNCHANGED result
Succeed       == state = "RUNNING" /\ state' = "SUCCEEDED" /\ result' = TRUE

\* The three ways a job ends without its own answer.
GiveUp == /\ state \in ACTIVE_STATES
          /\ state' \in {"FAILED", "TIMED_OUT", "ORPHANED"}
          /\ UNCHANGED result

Purge == state \in TERMINAL_STATES /\ state' = "PURGED" /\ result' = FALSE

Next == Create \/ Run \/ RequestCancel \/ Cancelled \/ Succeed \/ GiveUp \/ Purge

Spec == Init /\ [][Next]_vars
=============================================================================
