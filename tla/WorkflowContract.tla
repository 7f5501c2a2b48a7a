--------------------------- MODULE WorkflowContract ---------------------------
(***************************************************************************)
(* What execute_dag promises the caller of a workflow, without layers,     *)
(* gates, stores or retries: steps finish one at a time, each after all    *)
(* the steps it depends on; the outcome is reported once, after which      *)
(* nothing finishes any more; and `completed` is reported of a run in      *)
(* which every step finished.                                              *)
(***************************************************************************)
EXTENDS Integers

CONSTANTS Step, Deps

VARIABLES
  status,    \* what the caller has been told
  finished   \* the steps that have finished in this run

vars == <<status, finished>>

Outcome == {"completed", "error", "paused", "down"}
Ending  == Outcome \cup {"hung"}

Init == status = "idle" /\ finished = {}

Start ==
  /\ status = "idle"
  /\ status' \in {"running", "error"}
  /\ UNCHANGED finished

Finish(s) ==
  /\ status = "running"
  /\ s \notin finished /\ Deps[s] \subseteq finished
  /\ finished' = finished \cup {s}
  /\ UNCHANGED status

Report ==
  /\ status = "running"
  /\ status' \in Ending
  /\ status' = "completed" => finished = Step
  /\ UNCHANGED finished

(* What hangs reports nothing more until its process is stopped.            *)
Stop ==
  /\ status = "hung"
  /\ status' = "down"
  /\ UNCHANGED finished

(* A completed workflow is not started again.                               *)
Again ==
  /\ status \in Outcome \ {"completed"}
  /\ status' = "idle" /\ finished' = {}

Next == Start \/ (\E s \in Step : Finish(s)) \/ Report \/ Stop \/ Again

Spec == Init /\ [][Next]_vars

=============================================================================
