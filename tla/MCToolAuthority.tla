--------------------------- MODULE MCToolAuthority ---------------------------
(***************************************************************************)
(* A reviewer that may not write, a builder that may, and a builder        *)
(* retrying with an allowlist of one file, two of them in a layer.         *)
(***************************************************************************)
EXTENDS ToolAuthority, TLC

CONSTANTS review, build, retry, write, search, unknown, flagged, other

Unset == [x \in Tool |-> "unset"]

TaskPermissions ==
  (review :> [Unset EXCEPT ![write] = "deny"]) @@ (build :> [Unset EXCEPT ![write] = "allow"])
    @@ (retry :> [Unset EXCEPT ![write] = "ask"])
TaskTargets == (review :> {}) @@ (build :> {}) @@ (retry :> {flagged})

Asks == [NoRules EXCEPT !.default = [@ EXCEPT ![search] = "allow"]]
(* A forbidden file, and no searches for the category of the reviewer.      *)
Strict == [ blocked |-> {[tool |-> write, path |-> other]},
            category |-> [NoRules.category EXCEPT ![review] = [@ EXCEPT ![search] = "deny"]],
            default |-> Asks.default ]
TwoFiles == {Asks, Strict}
=============================================================================
