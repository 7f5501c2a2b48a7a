---------------------------- MODULE LinearEngine ----------------------------
(* CompositionEngine.execute, the sequential way to run a workflow, under a  *)
(* caller that executes, resets, checkpoints and restores one engine in any  *)
(* order.  Results stay in the engine from one execution to the next, and    *)
(* the order of the dict they are in decides what a rollback takes away.     *)
EXTENDS Naturals, Sequences, FiniteSets

CONSTANTS
    NSteps,         \* number of steps of the workflow, in the order of its list
    DependsOn,      \* step -> the steps it names in depends_on
    Gatings,        \* gates, rollback targets and reset points of the workflows
    Retries,        \* max_retries of every gate
    MaxCalls        \* bound on executions begun

ASSUME StepsAssumption == NSteps \in Nat \ {0} /\ Retries \in Nat
ASSUME GatingsAssumption == \A c \in Gatings : c.target \in [1..NSteps -> 0..NSteps]

VARIABLES
    gate,           \* step -> on_fail or type of its gate
    target,         \* step -> rollback_to of its gate, 0 if that is no step
    resetPoints,    \* _reset_points
    results,        \* _step_results in insertion order: [step, call, from]
    calls,          \* agent calls made so far, which number the results
    since,          \* calls made when this execution began
    pc,             \* idle, or the step at work and its retry
    status,         \* status and failed step of the last execution
    saved,          \* the checkpoint of the caller
    approval        \* step -> request in the store under the empty workflow id

linearVars == <<gate, target, resetPoints, results, calls, since, pc, status, saved, approval>>
config == <<gate, target, resetPoints>>

List == 1..NSteps
Gates == {"none", "retry", "retry_fresh", "rollback", "abort", "escalate_human", "degrade", "router", "approval"}
Idle0 == [at |-> 0, attempt |-> 0]
Has(r, s) == \E i \in DOMAIN r : r[i].step = s
CallOf(r, s) == IF Has(r, s) THEN (CHOOSE i \in DOMAIN r : r[i].step = s) ELSE 0

(* A key that is there keeps its place in a dict.                            *)
Put1(r, new) ==
    IF Has(r, new.step) THEN [i \in DOMAIN r |-> IF r[i].step = new.step THEN new ELSE r[i]]
    ELSE Append(r, new)

(* Variant: the rollback takes away the result it goes back to.              *)
DropFrom1Alone(r, s) == SelectSeq(r, LAMBDA x : x.step # s)

DropFrom1(r, s) == SubSeq(r, 1, CallOf(r, s) - 1)

(* validate_reset_points, when the workflow is loaded.                       *)
ResetPointsValid(g, t, points) ==
    points = {} \/ \A s \in List : g[s] = "rollback" /\ t[s] # 0 => t[s] \in points

LinearAt(c) ==
    /\ gate = c.gate /\ target = c.target /\ resetPoints = c.points
    /\ results = <<>> /\ calls = 0 /\ since = 0 /\ pc = Idle0 /\ saved = <<>>
    /\ status = [is |-> "new", step |-> 0]
    /\ approval = [s \in List |-> "none"]

LinearInit == \E c \in Gatings : ResetPointsValid(c.gate, c.target, c.points) /\ LinearAt(c)

Execute ==
    /\ pc = Idle0 /\ calls < MaxCalls
    /\ pc' = [at |-> 1, attempt |-> 0] /\ since' = calls
    /\ status' = [is |-> "running", step |-> 0]
    /\ UNCHANGED <<config, results, calls, saved, approval>>

Finish(how, s) == pc' = Idle0 /\ status' = [is |-> how, step |-> s]
Proceed(s) ==
    IF s = NSteps THEN Finish("completed", s)
    ELSE pc' = [at |-> s + 1, attempt |-> 0] /\ UNCHANGED status

(* The agent is called with the results its dependencies have by now.        *)
Made1(s) == [step |-> s, call |-> calls + 1,
             from |-> {results[i].call : i \in {j \in DOMAIN results : results[j].step \in DependsOn[s]}}]

(* A result that the gate accepts, or a step without one.                    *)
StepPasses ==
    LET s == pc.at IN
    /\ s # 0 /\ gate[s] # "approval"
    /\ calls' = calls + 1 /\ results' = Put1(results, Made1(s))
    /\ Proceed(s)
    /\ UNCHANGED <<config, since, saved, approval>>

StepRaises ==
    /\ pc.at # 0 /\ calls' = calls + 1
    /\ Finish("error", pc.at)
    /\ UNCHANGED <<config, results, since, saved, approval>>

Retrying(s) == gate[s] \in {"retry", "retry_fresh"} /\ pc.attempt < Retries

(* A result that the gate does not accept.                                   *)
StepFailsGate ==
    LET s == pc.at
        after == Put1(results, Made1(s))
    IN
    /\ s # 0 /\ gate[s] \notin {"none", "approval"}
    /\ calls' = calls + 1
    /\ results' = IF gate[s] = "rollback" /\ Has(after, target[s]) THEN DropFrom1(after, target[s]) ELSE after
    /\ IF Retrying(s) THEN pc' = [pc EXCEPT !.attempt = @ + 1] /\ UNCHANGED status
       ELSE IF gate[s] = "degrade" THEN Proceed(s)
       ELSE Finish(IF gate[s] \in {"abort", "escalate_human"} THEN "error" ELSE "gate_failed", s)
    /\ UNCHANGED <<config, since, saved, approval>>

(* The request is made under the workflow id "", and the exception that      *)
(* should pause the workflow ends it as an error.                            *)
StepAsks ==
    LET s == pc.at IN
    /\ s # 0 /\ gate[s] = "approval"
    /\ calls' = calls + 1 /\ results' = Put1(results, Made1(s))
    /\ IF approval[s] = "approved" THEN Proceed(s) /\ UNCHANGED approval
       ELSE /\ approval' = [approval EXCEPT ![s] = "pending"]
            /\ Finish("error", s)
    /\ UNCHANGED <<config, since, saved>>

Approve1(s) ==
    /\ approval[s] = "pending" /\ approval' = [approval EXCEPT ![s] = "approved"]
    /\ UNCHANGED <<config, results, calls, since, pc, status, saved>>

Reset ==
    /\ pc = Idle0 /\ results' = <<>> /\ status' = [is |-> "new", step |-> 0]
    /\ UNCHANGED <<config, calls, since, pc, saved, approval>>

Checkpoint ==
    /\ pc = Idle0 /\ saved' = results
    /\ UNCHANGED <<config, results, calls, since, pc, status, approval>>

Restore ==
    /\ pc = Idle0 /\ results' = saved /\ status' = [is |-> "new", step |-> 0]
    /\ UNCHANGED <<config, calls, since, pc, saved, approval>>

LinearStep ==
    \/ Execute \/ StepPasses \/ StepRaises \/ StepFailsGate \/ StepAsks
    \/ Reset \/ Checkpoint \/ Restore
    \/ \E s \in List : Approve1(s)

LinearSpec == LinearInit /\ [][LinearStep]_linearVars

---------------------------------------------------------------------------
Fresh(s) == \E i \in DOMAIN results : results[i].step = s /\ results[i].call > since

(* A rollback leaves no result of its target or of a step after it in the    *)
(* list, keeps all before it, and goes to a reset point if there are any,    *)
(* whatever executions, rollbacks, resets and restores came before.          *)
RollbackIsExact ==
    status.is = "gate_failed" /\ gate[status.step] = "rollback" /\ target[status.step] # 0 =>
        LET t == target[status.step] IN
        /\ t <= status.step => \A s \in List : Has(results, s) => s < t
        /\ t <= status.step => \A s \in 1..(t - 1) : Fresh(s)
        /\ resetPoints # {} => t \in resetPoints

(* A completed execution has made every result itself, each from the results *)
(* its earlier dependencies still have; one that has stopped has made none   *)
(* after the step that failed.                                               *)
CompletedIsOwn ==
    /\ status.is = "completed" =>
          \A s \in List : Fresh(s) /\ \A d \in DependsOn[s] \cap (1..(s - 1)) :
              results[CallOf(results, d)].call \in results[CallOf(results, s)].from
    /\ status.is \in {"gate_failed", "error"} =>
          \A s \in List : s > status.step => ~Fresh(s)

(* The two sides of what an execution tells its caller.                      *)
LinearOutcome == RollbackIsExact /\ CompletedIsOwn
=============================================================================
