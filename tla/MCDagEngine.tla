----------------------------- MODULE MCDagEngine -----------------------------
(***************************************************************************)
(* Workflows on which TLC checks DagEngine.                                *)
(***************************************************************************)
EXTENDS DagEngine

(* 1 first, 2 and 3 side by side after it, 4 after both; every step but 2   *)
(* may be retried or routed.                                                *)
Diamond        == <<{}, {1}, {1}, {2, 3}>>
DiamondGates   == <<"retry", "abort", "retry_fresh", "router">>
DiamondRetries == <<1, 0, 2, 0>>

Nothing4 == <<0, 0, 0, 0>>

(* An ungated step beside an approval that was given before; after them a   *)
(* rollback to the first layer beside two approvals nobody has given yet.   *)
(* A run that goes on after the pauses finds all their results saved.       *)
Resumed      == <<{}, {}, {1}, {1}, {1, 2}>>
ResumedGates == <<"none", "approval", "rollback", "approval", "approval">>
ResumedBack  == <<0, 0, 1, 0, 0>>
Nothing5     == <<0, 0, 0, 0, 0>>

(* A retry beside an approval that was given before, and an approval nobody *)
(* has given after both; with loops back by a layer, to a sibling and to    *)
(* the step itself.                                                         *)
Looping        == <<{}, {1}, {1}, {2, 3}>>
LoopingGates   == <<"degrade", "retry", "approval", "approval">>
LoopingRetries == <<0, 1, 0, 0>>
LoopingLoops   == { [from |-> 3, to |-> 1, max |-> 2], [from |-> 2, to |-> 3, max |-> 1],
                    [from |-> 4, to |-> 4, max |-> 1] }

(* Two steps in a row, for the runs that show where code and docs part.     *)
Pair          == <<{}, {1}>>
ApprovalFirst == <<"approval", "none">>
Ungated       == <<"none", "none">>
Nothing2      == <<0, 0>>
ReviewLoop    == { [from |-> 2, to |-> 1, max |-> 1] }
=============================================================================
