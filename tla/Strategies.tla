----------------------------- MODULE Strategies -----------------------------
(* The other execution strategies, over the variables of ReActLoop: plan and *)
(* execute, self-ask, tree of thought, chain of thought.  They await the     *)
(* same provider, but an error of theirs is never retried or swallowed,      *)
(* except in the final structured call of plan-execute.                      *)
EXTENDS ReActLoop

VARIABLE inner      \* how many calls the current step has made: the inner
                    \* loop of a plan step, the branches of a tree

thought == <<loop, inner>>

(* A chat that just adds what was said and the next prompt.                  *)
Continues(where, h) == pc' = where /\ history' = h

Raises(at) ==
    /\ pc \in at /\ GivesUp
    /\ pc' = "raised"
    /\ UNCHANGED <<step, history, promoted, answer, inner>>

---------------------------------------------------------------------------
(* Plan and execute.  The flat tool list is offered in every execution call, *)
(* the planning call has neither tools nor schema.                           *)
PlanTools == IF cfg.executor THEN (cfg.level1 \cup cfg.level2) \cap Tools ELSE {}

PlanEnds(h) == IF cfg.schema THEN Continues("planfinal", Append(h, Prompt))
               ELSE Continues("ended", h)

PlanReplies ==
    /\ pc = "plan"
    /\ \E blocks \in Replies :
          /\ Hears(blocks, {}, FALSE)
          /\ answer' = Reply(FALSE, blocks).says
    /\ LET h == Append(history, Answer) IN
       IF cfg.max > 0 THEN Continues("exec", Append(h, Prompt)) ELSE PlanEnds(h)
    /\ UNCHANGED <<step, promoted, inner>>

(* After a plan step: done when the text of its last call says so.           *)
PlanStepEnds(h) ==
    /\ inner' = 0
    /\ \E done \in BOOLEAN :
          IF done \/ step + 1 >= cfg.max THEN PlanEnds(h) /\ UNCHANGED step
          ELSE step' = step + 1 /\ Continues("exec", Append(h, Prompt))

ExecReplies ==
    /\ pc = "exec"
    /\ \E blocks \in Replies :
          LET r == Reply(cfg.schema, blocks) IN
          /\ Hears(blocks, PlanTools, cfg.schema)
          /\ answer' = r.says
          /\ IF r.calls = {} THEN PlanStepEnds(history)
             ELSE /\ Continues("exectools", Append(history, Act(step, r.calls)))
                  /\ UNCHANGED <<step, inner>>
    /\ UNCHANGED promoted

ExecToolsReturn ==
    /\ pc = "exectools"
    /\ LET h == Append(history, Results(step, Last(history).calls)) IN
       IF inner + 1 < cfg.inner
       THEN Continues("exec", h) /\ inner' = inner + 1 /\ UNCHANGED step
       ELSE PlanStepEnds(h)
    /\ UNCHANGED <<cfg, promoted, tries, chats, counted, answer>>

ExecToolRaises ==
    /\ pc = "exectools" /\ cfg.executor
    /\ pc' = "raised"
    /\ UNCHANGED <<cfg, step, history, promoted, tries, chats, counted, answer, inner>>

PlanFinalReplies ==
    /\ pc = "planfinal"
    /\ \E blocks \in Replies :
          /\ Hears(blocks, {}, TRUE)
          /\ answer' = Reply(TRUE, blocks).says
    /\ pc' = "ended"
    /\ UNCHANGED <<step, history, promoted, inner>>

PlanFinalFails ==
    /\ pc = "planfinal" /\ GivesUp
    /\ pc' = "ended"
    /\ UNCHANGED <<step, history, promoted, answer, inner>>

---------------------------------------------------------------------------
(* Self-ask.  A decomposition that asks nothing, or that says it has enough, *)
(* ends the rounds; the composition has the schema.                          *)
Composes(h) == Continues("compose", Append(h, Prompt))

DecomposeReplies ==
    /\ pc = "decompose"
    /\ \E blocks \in Replies :
          /\ Hears(blocks, {}, FALSE)
          /\ answer' = Reply(FALSE, blocks).says
    /\ LET h == Append(history, Answer) IN
       \/ Continues("subanswer", Append(h, Prompt))
       \/ Composes(h)
    /\ UNCHANGED <<step, promoted, inner>>

SubAnswerReplies ==
    /\ pc = "subanswer"
    /\ \E blocks \in Replies :
          /\ Hears(blocks, {}, FALSE)
          /\ answer' = Reply(FALSE, blocks).says
    /\ step' = step + 1
    /\ LET h == Append(history, Answer) IN
       IF step + 1 < cfg.max THEN Continues("decompose", h) ELSE Composes(h)
    /\ UNCHANGED <<promoted, inner>>

---------------------------------------------------------------------------
(* Tree of thought.  Every branch is asked from the same messages, the vote  *)
(* from the original ones; an answer outside 1..n is clamped into it.        *)
BranchReplies ==
    /\ pc = "branch"
    /\ \E blocks \in Replies :
          /\ Hears(blocks, {}, FALSE)
          /\ answer' = Reply(FALSE, blocks).says
    /\ inner' = inner + 1
    /\ IF inner + 1 < cfg.branches THEN Continues("branch", history)
       ELSE IF cfg.vote THEN Continues("vote", history) ELSE Composes(history)
    /\ UNCHANGED <<step, promoted>>

VoteReplies ==
    /\ pc = "vote"
    /\ \E blocks \in Replies : Hears(blocks, {}, FALSE)
    /\ Composes(history)
    /\ UNCHANGED <<step, promoted, answer, inner>>

(* Chain of thought is one call, like the composition of the other two.      *)
ComposeReplies ==
    /\ pc = "compose"
    /\ \E blocks \in Replies :
          /\ Hears(blocks, {}, cfg.schema)
          /\ answer' = Reply(cfg.schema, blocks).says
    /\ Continues("ended", history)
    /\ UNCHANGED <<step, promoted, inner>>

---------------------------------------------------------------------------
Waiting == {"plan", "exec", "decompose", "subanswer", "branch", "vote", "compose"}

Requesting == Asking \/ pc \in Waiting \cup {"planfinal"}

StrategyStep ==
    \/ Requesting /\ Blip /\ UNCHANGED inner
    \/ ReActStep /\ UNCHANGED inner
    \/ PlanReplies \/ ExecReplies \/ ExecToolsReturn \/ ExecToolRaises
    \/ PlanFinalReplies \/ PlanFinalFails
    \/ DecomposeReplies \/ SubAnswerReplies
    \/ BranchReplies \/ VoteReplies \/ ComposeReplies
    \/ Raises(Waiting)

(* ModeDispatcher.dispatch: where each strategy starts; a strategy it does   *)
(* not know is react.                                                        *)
FirstChat ==
    CASE cfg.strategy = "plan_execute" -> "plan"
      [] cfg.strategy = "self_ask" -> "decompose"
      [] cfg.strategy = "tree_of_thought" -> "branch"
      [] cfg.strategy = "chain_of_thought" -> "compose"
      [] OTHER -> IF cfg.max > 0 THEN "chat" ELSE "final"

(* Their constructors refuse fewer than two branches, or than one round.     *)
CanDispatch == /\ cfg.strategy = "tree_of_thought" => cfg.branches >= 2
               /\ cfg.strategy = "self_ask" => cfg.max >= 1

FirstMessages(messages) ==
    IF FirstChat = "final" THEN Append(messages, Prompt) ELSE messages

StrategyBegins(messages) ==
    /\ pc' = FirstChat /\ history' = FirstMessages(messages)
    /\ step' = 0 /\ promoted' = {} /\ tries' = 0 /\ inner' = 0 /\ answer' = "none"
    /\ UNCHANGED <<cfg, chats, counted>>
=============================================================================
