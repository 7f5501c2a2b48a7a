----------------------------- MODULE MCAgentRun -----------------------------
(* Agents and model responses for the AgentRun module.                       *)
EXTENDS AgentRun

CONSTANTS read, write   \* two tools: one of level L2, one of level L1

MCTools == {read, write}

Says(t, names) == [kind |-> "text", says |-> t, names |-> names]
Uses(t)    == [kind |-> "tool_use", name |-> t]
Submits(t) == [kind |-> "submit", says |-> t]
Xml(t)     == [kind |-> "xml", name |-> t]

MCReplies ==
    { <<>>, <<Says("prose", {})>>, <<Says("json", {})>>, <<Says("prose", {write})>>,
      <<Uses(read)>>, <<Says("prose", {}), Uses(read), Uses(write)>>,
      <<Submits("bare")>>, <<Uses(read), Submits("json")>>,
      <<Submits("json"), Says("prose", {})>>,
      <<Xml(write)>>, <<Xml("submit_output")>> }

Base ==
    [strategy |-> "react", max |-> 2, inner |-> 2, branches |-> 2, vote |-> TRUE,
     schema |-> FALSE, executor |-> TRUE, level1 |-> {write}, level2 |-> {read},
     trigger |-> FALSE, compaction |-> "summarize_oldest", keep |-> 1,
     prehook |-> FALSE, posthook |-> FALSE, memory |-> FALSE,
     graded |-> FALSE, rounds |-> 1, budget |-> 100]

Compacting == [Base EXCEPT !.trigger = TRUE]
Reflecting == [Base EXCEPT !.prehook = TRUE, !.posthook = TRUE, !.memory = TRUE,
                           !.graded = TRUE, !.rounds = 3, !.budget = 2]

(* One agent whose history is compacted by dropping the oldest messages.     *)
Dropping == {[Compacting EXCEPT !.max = 4, !.compaction = "drop_oldest"]}

(* react in all its shapes, with up to four steps, so that a history is      *)
(* compacted twice; the other strategies with and without a schema; a runner *)
(* with everything switched on around a short strategy.                      *)
MCConfigs ==
    {[Base EXCEPT !.max = m, !.schema = s, !.executor = e] :
        m \in 0..2, s \in BOOLEAN, e \in BOOLEAN}
    \cup {[Compacting EXCEPT !.max = 4, !.keep = k, !.schema = (k = 1)] : k \in 0..2}
    \cup Dropping
    \cup {[Base EXCEPT !.strategy = n, !.schema = s] :
        n \in {"plan_execute", "self_ask", "tree_of_thought", "chain_of_thought"},
        s \in BOOLEAN}
    \cup {[Base EXCEPT !.strategy = "plan_execute", !.max = 0]}
    \cup {[Base EXCEPT !.strategy = "tree_of_thought", !.branches = b, !.vote = FALSE] : b \in {1, 3}}
    \cup {[Reflecting EXCEPT !.strategy = "chain_of_thought"],
          [Reflecting EXCEPT !.strategy = "self_ask"]}

(* Whatever is compacted, the model is still asked with the task before it   *)
(* (_compact_message_history keeps "the head (initial task)", react.py:168). *)
TaskInView == pc \in {"chat", "final"} => <<"task">> \in Conveyed(history)
=============================================================================
