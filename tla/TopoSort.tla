------------------------------- MODULE TopoSort -------------------------------
(***************************************************************************)
(* CompositionEngine.topological_sort, one action per iteration of its     *)
(* loop, and the two checks an author can run on a workflow beforehand:    *)
(* lint_topology and Validator.validate_workflow.  The engine turns the    *)
(* ValueError of an unsortable workflow into an error result.              *)
(***************************************************************************)
EXTENDS Integers, Sequences

CONSTANTS
  Step,     \* names of the steps
  Unknown   \* names depends_on may hold that are no step

ASSUME UnknownAssumption == Unknown \cap Step = {}

VARIABLES
  deps,       \* depends_on of each step, as sets
  remaining,  \* name_to_deps: the steps not yet in a layer
  resolved,
  layers,
  verdict     \* "sorting", then "sorted" or "refused"

sortVars == <<deps, remaining, resolved, layers, verdict>>

SortInit ==
  /\ deps \in [Step -> SUBSET (Step \cup Unknown)]
  /\ remaining = Step /\ resolved = {} /\ layers = <<>>
  /\ verdict = "sorting"

(* Bugs: names that are no steps do not count; steps go one at a time.       *)
ReadyLax   == {s \in remaining : deps[s] \cap Step \subseteq resolved}
ReadyOne   == LET R == {s \in remaining : deps[s] \subseteq resolved}
              IN  IF R = {} THEN {} ELSE {CHOOSE s \in R : TRUE}

Ready      == {s \in remaining : deps[s] \subseteq resolved}

TakeLayer ==
  /\ verdict = "sorting" /\ Ready # {}
  /\ layers' = Append(layers, Ready)
  /\ resolved' = resolved \cup Ready
  /\ remaining' = remaining \ Ready
  /\ UNCHANGED <<deps, verdict>>

(* Bug: an empty layer is not noticed and the loop spins.                   *)
RefuseNever == verdict = "sorting" /\ remaining # {} /\ Ready = {} /\ UNCHANGED sortVars

Refuse ==
  /\ verdict = "sorting" /\ remaining # {} /\ Ready = {}
  /\ verdict' = "refused"
  /\ UNCHANGED <<deps, remaining, resolved, layers>>

ReturnLayers ==
  /\ verdict = "sorting" /\ remaining = {}
  /\ verdict' = "sorted"
  /\ UNCHANGED <<deps, remaining, resolved, layers>>

SortNext == TakeLayer \/ Refuse \/ ReturnLayers

SortSpec == SortInit /\ [][SortNext]_sortVars
SortFairness == WF_sortVars(SortNext)

(* lint_topology reports "topology valid": every name is known.  The        *)
(* validator adds that no step depends on itself.                           *)
(* Bug: a step is expected to have one dependency.                          *)
LintSingle       == \A s \in Step : \E t \in Step : deps[s] \subseteq {t}
LintValid        == \A s \in Step : deps[s] \subseteq Step
ValidatorAccepts == LintValid /\ \A s \in Step : s \notin deps[s]

-----------------------------------------------------------------------------
(* What "can be executed" means, without layers: every name is a step, and  *)
(* in no group of steps does each one wait for another of the group.        *)
Unblocked(T) == \E s \in T : deps[s] \cap T = {}
Sortable     == LintValid /\ \A T \in (SUBSET Step) \ {{}} : Unblocked(T)

TypeOK ==
  /\ deps \in [Step -> SUBSET (Step \cup Unknown)]
  /\ remaining \in SUBSET Step
  /\ resolved \in SUBSET Step
  /\ layers \in Seq(SUBSET Step)
  /\ verdict \in {"sorting", "sorted", "refused"}

(* The loop refuses a workflow exactly when nothing could execute it: a     *)
(* cycle of any length or an unknown name, wherever it hides.               *)
SortIsRight == verdict # "sorting" => (verdict = "sorted" <=> Sortable)

(* A chain of n steps, each of which waits for the one before it, ends in s. *)
EndsIn(s, n) == \E c \in [1..n -> Step] :
  c[n] = s /\ \A k \in 1..(n - 1) : c[k] \in deps[c[k + 1]]

(* A step is in the layer its longest chain of dependencies calls for: no    *)
(* earlier, so gather may start a layer at once, and no later, so a workflow *)
(* has no more layers than its longest chain has steps and nothing waits for *)
(* a step it does not depend on.                                             *)
LayersAreEarliest == \A i \in DOMAIN layers : \A s \in layers[i] : EndsIn(s, i) /\ ~EndsIn(s, i + 1)

(* The checks an author runs never reject what the engine executes.         *)
NoFalseAlarm == verdict = "sorted" => ValidatorAccepts

(* What the engine, the lint and the validator say of a workflow fits.      *)
VerdictsAgree == SortIsRight /\ NoFalseAlarm

(* The loop ends: it takes at least one step each time.                     *)
SortEnds == <>(verdict # "sorting")

(***************************************************************************)
(* The inductive invariant of the loop.                                    *)
(***************************************************************************)
Loop ==
  /\ TypeOK
  /\ remaining = Step \ resolved
  /\ \A s \in resolved : deps[s] \subseteq resolved
  /\ \A T \in SUBSET Step : T \cap resolved # {} => Unblocked(T)
  /\ verdict = "sorted" => remaining = {}
  /\ verdict = "refused" => remaining # {} /\ Ready = {}
=============================================================================
