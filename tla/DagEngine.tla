------------------------------ MODULE DagEngine ------------------------------
(***************************************************************************)
(* CompositionEngine.execute_dag: the layered, concurrent execution of a   *)
(* workflow, with its gates, feedback loops, approval records, persisted   *)
(* step results and resumption of an earlier run under the same            *)
(* workflow_id.                                                            *)
(*                                                                         *)
(* One run is one engine object driving one execute_dag call.  The tasks   *)
(* of a layer share one asyncio event loop, so a task is only interleaved  *)
(* with its siblings where it awaits an agent: an action below is what a   *)
(* task does from the return of one agent call to the next await.          *)
(***************************************************************************)
EXTENDS Integers, Sequences, FiniteSets

CONSTANTS
  N,           \* number of steps; a step is its rank in the order of names
  Deps,        \* depends_on
  Gate,        \* the gate of a step, by type and on_fail strategy
  MaxRetries,  \* max_retries of the gate
  RollbackTo,  \* rollback_to (or fallback_step) of the gate, 0 when absent
  Loops,       \* registered FeedbackLoops
  StoreKind,   \* which WorkflowStateStore the successive engines are given
  PreApproved, \* steps whose approval record is already in the store, approved
  MaxRuns      \* bound: number of execute_dag calls for this workflow_id

Step      == 1..N
RetryGate == {"retry", "retry_fresh"}
CondGate  == RetryGate \cup {"abort", "escalate_human", "rollback", "router"}
GateKind  == CondGate \cup {"none", "degrade", "approval"}
Loop      == [from: Step, to: Step, max: Nat]

ASSUME NAssumption     == N \in Nat \ {0}
ASSUME DepsAssumption  == Deps \in [Step -> SUBSET Int]
ASSUME GateAssumption  == /\ Gate \in [Step -> GateKind]
                          /\ MaxRetries \in [Step -> Nat]
                          /\ RollbackTo \in [Step -> Step \cup {0}]
ASSUME LoopAssumption  == Loops \subseteq Loop
ASSUME StoreAssumption == /\ StoreKind \in {"fresh", "shared", "file"}
                          /\ PreApproved \subseteq Step
ASSUME RunsAssumption  == MaxRuns \in Nat \ {0}

VARIABLES
  run,       \* what the caller of execute_dag sees
  resolved,  \* steps of the layers that were gathered without an exception
  pc,        \* where the coroutine of each step is
  results,   \* _step_results: values, keys in insertion order, and the keys
             \* whose _artifact was read back from JSON
  input,     \* version of each dependency handed to the call in flight
  poisoned,  \* tasks handed a dependency whose _artifact is a string
  attempt,   \* loop variable of the retry strategies
  via,       \* to_step of the feedback a task is waiting for
  fired,     \* _iteration_count of each FeedbackLoop
  store,     \* the state store: step results
  approval,  \* the state store: "_approval_<step>" records
  calls,     \* history: agent executions that returned a result, per step
  runs       \* history: execute_dag calls so far

task == <<input, poisoned, attempt, via>>
disk == <<store, approval>>
vars == <<run, resolved, pc, results, task, fired, disk, calls, runs>>

(***************************************************************************)
(* A result is reduced to whether it satisfies the condition of the step's *)
(* gate, which execution of the step produced it (0: there is none), and   *)
(* which version of each dependency that execution was handed.             *)
(***************************************************************************)
Zero     == [s \in Step |-> 0]
NoResult == [pass |-> FALSE, ver |-> 0, used |-> Zero]
Result   == [pass: BOOLEAN, ver: Nat, used: [Step -> Nat]]

(* Bug: only a pause ends the run.                                          *)
RaisedPaused == {s \in Step : pc[s] = "paused"}

Finished == {s \in Step : pc[s] \in {"done", "restored"}}
Raised   == {s \in Step : pc[s] \in {"failed", "paused"}}
Present  == {s \in Step : results.val[s] # NoResult}

(* A task whose agent is at work.  Bug: retries are left to run by          *)
(* themselves.                                                              *)
InFlightOnce == {s \in Step : pc[s] \in {"run", "loop"}}
InFlight     == {s \in Step : pc[s] \in {"run", "loop", "retry"}}

(* What gather waits for.  Bug: a task waits for its approval in its place.  *)
AwaitedPaused == InFlight \cup {s \in Step : pc[s] = "paused"}
Awaited       == InFlight

(***************************************************************************)
(* topological_sort succeeds: no set of steps blocks itself, and no step   *)
(* waits for a name that is not a step.  The layer that comes after the    *)
(* steps in `resolved` is then the set of steps they leave unblocked.      *)
(* (Module TopoSort checks the loop of the code against both.)             *)
(***************************************************************************)
Sortable ==
  /\ \A s \in Step : Deps[s] \subseteq Step
  /\ \A T \in (SUBSET Step) \ {{}} : \E s \in T : Deps[s] \cap T = {}

(* Bug: every step is unblocked at once.                                    *)
LayerAtOnce == Step \ resolved

Layer == {s \in Step \ resolved : Deps[s] \subseteq resolved}

(* A layer is a sorted list; its steps are visited and judged in order.     *)
First(s, S) == s \in S /\ \A t \in S : s <= t

-----------------------------------------------------------------------------
(***************************************************************************)
(* _step_results is a Python dict: assigning a new key appends it, an old  *)
(* key keeps its place.  A result made in this process carries a           *)
(* StepArtifact; one that went through FileStateStore's JSON a string.     *)
(***************************************************************************)
Dict      == [val: [Step -> Result], keys: Seq(Step), untyped: SUBSET Step]
EmptyDict == [val |-> [s \in Step |-> NoResult], keys |-> <<>>, untyped |-> {}]

(* Bugs: a task writes to a copy of its own; a new result does not replace. *)
PutAlone(d, s, r, fromJson) ==
  [val |-> [EmptyDict.val EXCEPT ![s] = r], keys |-> <<s>>, untyped |-> {}]
PutFirst(d, s, r, fromJson) ==
  IF d.val[s] # NoResult THEN d
  ELSE [d EXCEPT !.val = [@ EXCEPT ![s] = r], !.keys = Append(@, s)]

Put(d, s, r, fromJson) ==
  [ val     |-> [d.val EXCEPT ![s] = r],
    keys    |-> IF \E i \in DOMAIN d.keys : d.keys[i] = s
                  THEN d.keys ELSE Append(d.keys, s),
    untyped |-> IF fromJson THEN d.untyped \cup {s} ELSE d.untyped \ {s} ]

(* Rollback drops the target and every key inserted after it.               *)
Place(d, t)   == CHOOSE i \in DOMAIN d.keys : d.keys[i] = t
From(d, t)    == {d.keys[i] : i \in Place(d, t)..Len(d.keys)}

DropFrom(d, t) ==
  [ val     |-> [s \in Step |-> IF s \in From(d, t) THEN NoResult ELSE d.val[s]],
    keys    |-> SubSeq(d.keys, 1, Place(d, t) - 1),
    untyped |-> d.untyped \ From(d, t) ]

(* The dep_artifacts a call of s is handed, and whether propagate_confidence *)
(* will then read .confidence of a string.                                   *)
DepVersions(d, s) == [t \in Step |-> IF t \in Deps[s] THEN d.val[t].ver ELSE 0]
Poisons(d, s)     == Deps[s] \cap d.untyped # {}

Handed(d, s) ==
  /\ input' = [input EXCEPT ![s] = DepVersions(d, s)]
  /\ poisoned' = IF Poisons(d, s) THEN poisoned \cup {s} ELSE poisoned

-----------------------------------------------------------------------------
NoStore     == [s \in Step |-> NoResult]
NoApprovals == [s \in Step |-> IF s \in PreApproved THEN "approved" ELSE "none"]

(* A new CompositionEngine, and the store it is given.                      *)
Init ==
  /\ run = "idle"             /\ resolved = {}
  /\ pc = [s \in Step |-> "new"]
  /\ results = EmptyDict
  /\ input = [s \in Step |-> Zero]
  /\ poisoned = {}            /\ attempt = Zero        /\ via = Zero
  /\ fired = [l \in Loops |-> 0]
  /\ store = NoStore          /\ approval = NoApprovals
  /\ calls = Zero             /\ runs = 1

(* topological_sort runs first; a cycle or an unknown name ends the run.    *)
Begin ==
  /\ run = "idle"
  /\ run' = IF Sortable THEN "running" ELSE "error"
  /\ UNCHANGED <<resolved, pc, results, task, fired, disk, calls, runs>>

(***************************************************************************)
(* One iteration of the loop over the layer.  A step with a stored result  *)
(* is skipped, its gate included; any other is started with the results    *)
(* its dependencies have at that moment.                                   *)
(***************************************************************************)
Unvisited == {s \in Layer : pc[s] = "new"}

(* Bug: the store is not consulted.                                         *)
SavedNever(s) == FALSE
Saved(s)      == store[s] # NoResult

Skip(s) ==
  /\ Saved(s)
  /\ results' = Put(results, s, store[s], StoreKind = "file")
  /\ pc' = [pc EXCEPT ![s] = "restored"]
  /\ UNCHANGED task

Launch(s) ==
  /\ ~Saved(s)
  /\ Handed(results, s)
  /\ pc' = [pc EXCEPT ![s] = "run"]
  /\ UNCHANGED <<results, attempt, via>>

Visit(s) ==
  /\ run = "running"
  /\ First(s, Unvisited)
  /\ Skip(s) \/ Launch(s)
  /\ UNCHANGED <<run, resolved, fired, disk, calls, runs>>

(* asyncio.gather: the tasks run once the whole layer has been visited.     *)
Gathering == run = "running" /\ Unvisited = {}

-----------------------------------------------------------------------------
(***************************************************************************)
(* _check_gate, from the state of the dict the task left it in (d) and     *)
(* whether the first result of s satisfies the gate's condition.  x is the *)
(* step whose execution has just returned.                                 *)
(***************************************************************************)
(* Bug: nothing is checked.                                                 *)
MayPassBlind(s, pass) == TRUE

MayPass(s, pass) ==
  \/ Gate[s] \in {"none", "degrade"}
  \/ Gate[s] \in CondGate /\ pass
  \/ Gate[s] = "approval" /\ approval[s] = "approved"

GatePasses(s, pass, d) ==
  /\ MayPass(s, pass)
  /\ pc' = [pc EXCEPT ![s] = "done"]
  /\ results' = d
  /\ UNCHANGED <<input, poisoned, attempt, approval>>

(* First encounter: the request is saved; any encounter raises.             *)
Request(s) == [approval EXCEPT ![s] = "pending"]

GatePauses(s, d) ==
  /\ Gate[s] = "approval" /\ approval[s] # "approved"
  /\ approval' = Request(s)
  /\ pc' = [pc EXCEPT ![s] = "paused"]
  /\ results' = d
  /\ UNCHANGED <<input, poisoned, attempt>>

(* The dependencies are collected anew, and once for all attempts.          *)
GateRetries(s, d) ==
  /\ Gate[s] \in RetryGate /\ MaxRetries[s] > 0
  /\ pc' = [pc EXCEPT ![s] = "retry"]
  /\ attempt' = [attempt EXCEPT ![s] = 1]
  /\ Handed(d, s)
  /\ results' = d
  /\ UNCHANGED approval

(* Bug: a step goes on after its rollback.                                  *)
GateRollsBackOn(s, d) ==
  /\ Gate[s] = "rollback" /\ RollbackTo[s] # 0
  /\ d.val[RollbackTo[s]] # NoResult
  /\ pc' = [pc EXCEPT ![s] = "done"]
  /\ results' = DropFrom(d, RollbackTo[s])
  /\ UNCHANGED <<input, poisoned, attempt, approval>>

GateRollsBack(s, d) ==
  /\ Gate[s] = "rollback" /\ RollbackTo[s] # 0
  /\ d.val[RollbackTo[s]] # NoResult
  /\ pc' = [pc EXCEPT ![s] = "failed"]
  /\ results' = DropFrom(d, RollbackTo[s])
  /\ UNCHANGED <<input, poisoned, attempt, approval>>

(* abort, escalate_human, no route, no retries allowed, no rollback target.  *)
GateRaises(s, d) ==
  /\ Gate[s] # "approval"
  /\ Gate[s] \in RetryGate => MaxRetries[s] = 0
  /\ Gate[s] = "rollback" => \/ RollbackTo[s] = 0
                             \/ d.val[RollbackTo[s]] = NoResult
  /\ pc' = [pc EXCEPT ![s] = "failed"]
  /\ results' = d
  /\ UNCHANGED <<input, poisoned, attempt, approval>>

CheckGate(s, pass, d) ==
  \/ GatePasses(s, pass, d)
  \/ /\ ~MayPass(s, pass)
     /\ \/ GatePauses(s, d)
        \/ GateRetries(s, d)
        \/ GateRollsBack(s, d)
        \/ GateRaises(s, d)

MayFire(l)     == fired[l] < l.max

(* The first registered loop from s whose condition holds of the result.    *)
Feedback(s, d) ==
  /\ \E l \in Loops :
       /\ l.from = s /\ MayFire(l)
       /\ fired' = [fired EXCEPT ![l] = @ + 1]
       /\ via' = [via EXCEPT ![s] = l.to]
  /\ pc' = [pc EXCEPT ![s] = "loop"]
  /\ results' = d
  /\ UNCHANGED <<input, poisoned, attempt, approval>>

-----------------------------------------------------------------------------
Made(s, pass, used) == [pass |-> pass, ver |-> calls[s] + 1, used |-> used]

(***************************************************************************)
(* The first execution of s returns: its result is put in the dict and     *)
(* persisted, then the feedback loops and the gate look at it.             *)
(***************************************************************************)
CallReturns(s) ==
  /\ Gathering /\ pc[s] = "run" /\ s \notin poisoned
  /\ \E pass \in BOOLEAN :
       LET r == Made(s, pass, input[s])
           d == Put(results, s, r, FALSE)
       IN  /\ store' = [store EXCEPT ![s] = r]
           /\ \/ Feedback(s, d)
              \/ CheckGate(s, pass, d) /\ UNCHANGED <<fired, via>>
  /\ calls' = [calls EXCEPT ![s] = @ + 1]
  /\ UNCHANGED <<run, resolved, runs>>

(* The re-execution a feedback loop asked for, without dependencies; the    *)
(* gate of s is then checked on the first result of s, the one persisted.   *)
FeedbackReturns(s) ==
  /\ Gathering /\ pc[s] = "loop"
  /\ LET to == via[s] IN
       /\ \E pass \in BOOLEAN :
            CheckGate(s, store[s].pass, Put(results, to, Made(to, pass, Zero), FALSE))
       /\ calls' = [calls EXCEPT ![to] = @ + 1]
  /\ UNCHANGED <<run, resolved, via, fired, store, runs>>

(* Bug: one attempt too many.                                               *)
LastAttemptLate(s) == attempt[s] > MaxRetries[s]
LastAttempt(s)     == attempt[s] >= MaxRetries[s]

RetryReturns(s) ==
  /\ Gathering /\ pc[s] = "retry" /\ s \notin poisoned
  /\ \E pass \in BOOLEAN :
       /\ results' = Put(results, s, Made(s, pass, input[s]), FALSE)
       /\ \/ /\ pass
             /\ pc' = [pc EXCEPT ![s] = "done"]
             /\ UNCHANGED attempt
          \/ /\ ~pass /\ ~LastAttempt(s)
             /\ attempt' = [attempt EXCEPT ![s] = @ + 1]
             /\ UNCHANGED pc
          \/ /\ ~pass /\ LastAttempt(s)
             /\ pc' = [pc EXCEPT ![s] = "failed"]
             /\ UNCHANGED attempt
  /\ calls' = [calls EXCEPT ![s] = @ + 1]
  /\ UNCHANGED <<run, resolved, input, poisoned, via, fired, disk, runs>>

(* An execution that raises ends the task; with a poisoned input it must.   *)
CallRaises(s) ==
  /\ Gathering /\ s \in InFlight
  /\ pc' = [pc EXCEPT ![s] = "failed"]
  /\ UNCHANGED <<run, resolved, results, task, fired, disk, calls, runs>>

(* A hook that does not return is waited for although it has timed out, and *)
(* on the event loop of all tasks: nothing of this process moves any more.  *)
HookHangs(s) ==
  /\ Gathering /\ s \in InFlight
  /\ run' = "hung"
  /\ UNCHANGED <<resolved, pc, results, task, fired, disk, calls, runs>>

(***************************************************************************)
(* gather returns when every task has ended; the exception of the first    *)
(* step in the layer's order decides what the caller gets.                 *)
(***************************************************************************)
EndLayer ==
  /\ Gathering /\ Awaited = {}
  /\ LET raised == Layer \cap Raised IN
       IF raised = {}
         THEN /\ resolved' = resolved \cup Layer
              /\ run' = IF resolved' = Step THEN "completed" ELSE "running"
         ELSE /\ \E s \in raised :
                   /\ First(s, raised)
                   /\ run' = IF pc[s] = "paused" THEN "paused" ELSE "error"
              /\ UNCHANGED resolved
  /\ UNCHANGED <<pc, results, task, fired, disk, calls, runs>>

-----------------------------------------------------------------------------
(* approve_step: a pending record, and only that, becomes approved.         *)
Approve(s) ==
  /\ approval[s] = "pending"
  /\ approval' = [approval EXCEPT ![s] = "approved"]
  /\ UNCHANGED <<run, resolved, pc, results, task, fired, store, calls, runs>>

(* The process stops: only a store on disk survives it.                     *)
Crash ==
  /\ run \in {"running", "hung"} /\ runs < MaxRuns
  /\ run' = "down"
  /\ store' = IF StoreKind = "file" THEN store ELSE NoStore
  /\ approval' = IF StoreKind = "file" THEN approval ELSE NoApprovals
  /\ UNCHANGED <<resolved, pc, results, task, fired, calls, runs>>

(* The process stops after save_step and before the feedback and the gate.  *)
CrashAfterSave(s) ==
  /\ Gathering /\ pc[s] = "run" /\ s \notin poisoned
  /\ StoreKind = "file" /\ runs < MaxRuns
  /\ \E pass \in BOOLEAN : store' = [store EXCEPT ![s] = Made(s, pass, input[s])]
  /\ calls' = [calls EXCEPT ![s] = @ + 1]
  /\ run' = "down"
  /\ UNCHANGED <<resolved, pc, results, task, fired, approval, runs>>

(* A new engine executes the same workflow under the same workflow_id.      *)
Resume ==
  /\ run \in {"error", "paused", "down"} /\ runs < MaxRuns
  /\ run' = "idle"             /\ resolved' = {}
  /\ pc' = [s \in Step |-> "new"]
  /\ results' = EmptyDict
  /\ input' = [s \in Step |-> Zero]
  /\ poisoned' = {}            /\ attempt' = Zero        /\ via' = Zero
  /\ fired' = [l \in Loops |-> 0]
  /\ store' = IF StoreKind = "fresh" THEN NoStore ELSE store
  /\ approval' = IF StoreKind = "fresh" THEN NoApprovals ELSE approval
  /\ runs' = runs + 1
  /\ UNCHANGED calls

-----------------------------------------------------------------------------
(* The run has ended or hangs, and nobody resumes it.                       *)
Over ==
  /\ \/ run = "completed"
     \/ run \in {"error", "paused", "hung"} /\ runs = MaxRuns
  /\ UNCHANGED vars

StepNext(s) ==
  \/ Visit(s)
  \/ CallReturns(s) \/ FeedbackReturns(s) \/ RetryReturns(s) \/ CallRaises(s)
  \/ HookHangs(s)
  \/ Approve(s)
  \/ CrashAfterSave(s)

Next ==
  \/ Begin
  \/ \E s \in Step : StepNext(s)
  \/ EndLayer
  \/ Crash \/ Resume
  \/ Over

Spec == Init /\ [][Next]_vars

(***************************************************************************)
(* The event loop runs a coroutine that can proceed, and an agent call     *)
(* returns, raises or is kept for ever by a hook (HookHangs disables the    *)
(* others): the strategies are bounded by max_steps and the providers by   *)
(* their HTTP timeouts.  A person approving a request, a crash and a       *)
(* caller resuming a run are never assumed.                                *)
(***************************************************************************)
Ends(s) == CallReturns(s) \/ FeedbackReturns(s) \/ RetryReturns(s) \/ CallRaises(s)

Fairness ==
  /\ WF_vars(Begin) /\ WF_vars(EndLayer)
  /\ \A s \in Step : WF_vars(Visit(s)) /\ WF_vars(Ends(s))

FairSpec == Spec /\ Fairness

-----------------------------------------------------------------------------
(* Every variable stays within the values the code can give it.             *)
TypeOK ==
  /\ run \in {"idle", "running", "completed", "error", "paused", "down", "hung"}
  /\ resolved \in SUBSET Step
  /\ pc \in [Step -> {"new", "run", "loop", "retry", "done", "restored",
                      "failed", "paused"}]
  /\ results \in Dict
  /\ input \in [Step -> [Step -> Nat]]
  /\ poisoned \in SUBSET Step
  /\ attempt \in [Step -> Nat]
  /\ via \in [Step -> Step \cup {0}]
  /\ fired \in [Loops -> Nat]
  /\ store \in [Step -> Result]
  /\ approval \in [Step -> {"none", "pending", "approved"}]
  /\ calls \in [Step -> Nat]
  /\ runs \in Nat

(***************************************************************************)
(* execute_dag visits a step only after the layers of all its dependencies *)
(* have been gathered, and a layer counts as gathered only when each of    *)
(* its steps ended well, whatever the order its tasks returned in.         *)
(***************************************************************************)
DepsEndedWell ==
  /\ \A s \in Step : pc[s] # "new" => Deps[s] \subseteq resolved
  /\ resolved \subseteq Finished

(***************************************************************************)
(* A rollback deletes by insertion order, so it also deletes results of    *)
(* concurrent siblings; a step that has had a result and not failed lacks  *)
(* it only while another task of the layer has raised, so that the run     *)
(* cannot go on to use it.                                                 *)
(***************************************************************************)
HadResult == {s \in Step : pc[s] \in {"loop", "retry", "done", "restored", "paused"}}

DroppedOnlyIfDoomed ==
  \A s \in HadResult \ Present : \E t \in Layer : pc[t] = "failed"

(* `completed` is reported with the result of every step in step_results,   *)
(* rollbacks of siblings, feedback loops and resumed runs included.         *)
CompletedHasAll == run = "completed" => Present = Step

(* gather waits for all its tasks: when execute_dag has returned or raised  *)
(* no agent of the workflow is still at work.                               *)
NoOrphans ==
  run \in {"completed", "error", "paused"} =>
    \A s \in Step : pc[s] \notin {"run", "loop", "retry"}

(* A caller that sees HumanApprovalRequired finds the request in the store, *)
(* and the result it is about, though siblings failed or paused meanwhile.  *)
PauseHasRecord ==
  run = "paused" =>
    \E s \in Step : /\ Gate[s] = "approval" /\ approval[s] \in {"pending", "approved"}
                    /\ store[s] # NoResult

(* However execute_dag ends, its caller may rely on what it is told:        *)
(* everything is there, or nothing is at work, or a request can be approved. *)
OutcomeHolds == CompletedHasAll /\ NoOrphans /\ PauseHasRecord

(* A task gets past an approval gate only when a person has approved, and    *)
(* no later request of the same step takes the approval back under it.      *)
DoneIsApproved ==
  run # "down" =>
    \A s \in Step : pc[s] = "done" /\ Gate[s] = "approval" => approval[s] = "approved"

(* When `completed` is reported the result of every step with a conditional *)
(* gate satisfies its condition: for a retried step, the last attempt's.    *)
CompletedPassesGates ==
  run = "completed" =>
    \A s \in Step : Gate[s] \in CondGate => results.val[s].pass

(* When `completed` is reported every result was computed from the results  *)
(* its dependencies have in the end, not from an attempt given up since.    *)
CompletedIsConsistent ==
  run = "completed" =>
    \A s \in Step : \A d \in Deps[s] :
      results.val[s].used[d] = results.val[d].ver

(* Every call of a step, retries included, is handed all its dependencies.  *)
InputsComplete ==
  \A s \in Step : pc[s] \in {"run", "retry"} => \A d \in Deps[s] : input[s][d] > 0

(* Without a rollback no step works on less than its workflow gives it, and *)
(* none counts whose last attempt failed the gate.                          *)
ResultsAreSound == InputsComplete /\ CompletedPassesGates

(* The agent executions a workflow can cost: in each run one and the        *)
(* retries of every step, and one for every step with a loop back to it,    *)
(* however many loops that has and whatever max_iterations they allow.      *)
LoopSources(s) == {l.from : l \in {k \in Loops : k.to = s /\ k.max > 0}}
Cost(s)        == 1 + MaxRetries[s] + Cardinality(LoopSources(s))
CallsBounded   == \A s \in Step : calls[s] <= runs * Cost(s)

(* Without retries and loops, the work of a step whose result has been      *)
(* saved is never done again, across crashes and resumed runs.              *)
SavedWorkNotRedone == \A s \in Step : calls[s] <= 1

(* Every run ends, unless a hook hangs: siblings that retry, loop, pause    *)
(* and fail side by side are all gathered, in every layer.                  *)
RunEnds == (run = "running") ~> (run # "running")

(***************************************************************************)
(* The inductive invariant behind the theorems of DagEngineProofs.  A task *)
(* past its first call has its result in the store; a paused one has its   *)
(* request there too (a crash may take both, and the run with them); what  *)
(* _step_results holds is found under its key.                             *)
(***************************************************************************)
Found(d) ==
  \A s \in Step : d.val[s] # NoResult => \E i \in DOMAIN d.keys : d.keys[i] = s

KeysMatch == Found(results)

TasksPersisted ==
  run # "down" =>
    \A s \in Step :
      /\ pc[s] \in {"loop", "retry", "paused"} => store[s] # NoResult
      /\ pc[s] = "paused" => /\ Gate[s] = "approval"
                             /\ approval[s] \in {"pending", "approved"}
      /\ pc[s] = "loop" => via[s] \in Step

NotStarted == run = "idle" => pc = [s \in Step |-> "new"] /\ resolved = {}

IInv ==
  /\ TypeOK
  /\ KeysMatch
  /\ NotStarted
  /\ DepsEndedWell
  /\ DroppedOnlyIfDoomed
  /\ run = "completed" => resolved = Step
  /\ NoOrphans
  /\ TasksPersisted
  /\ PauseHasRecord

(* What the code's own documentation says of it and the code does not do.   *)

(* HumanApprovalRequired: the workflow is paused until the approve endpoint *)
(* is called, so it does not complete with a request nobody has approved.   *)
CompletedIsApproved ==
  run = "completed" =>
    \A s \in Step : Gate[s] = "approval" => approval[s] = "approved"

(* FileStateStore: steps completed before a crash survive it and the        *)
(* workflow can resume; no task is started that can only fail on them.      *)
SurvivorsAreUsable == poisoned = {}

(* The engine implements the contract of WorkflowContract.                  *)
Contract == INSTANCE WorkflowContract WITH status <- run, finished <- Finished
KeepsContract == Contract!Spec

=============================================================================
