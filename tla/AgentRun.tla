------------------------------ MODULE AgentRun ------------------------------
(* AgentRunner: run takes one agent from its manifest to a result, through   *)
(* the hooks, the memory, the prompt, the strategy and the budget;           *)
(* run_with_reflexion grades the result and runs again with a critique.      *)
EXTENDS Strategies

CONSTANT Configs    \* the agents considered

ASSUME ConfigsAssumption ==
    \A c \in Configs : /\ c.max \in Nat /\ c.branches \in Nat
                       /\ c.inner \in Nat \ {0} /\ c.rounds \in Nat \ {0}
                       /\ c.keep \in Nat

VARIABLES
    round,      \* round_num of run_with_reflexion, 1 where it is not used
    context,    \* what the context items of this run stem from
    memory,     \* rounds whose output the memory store holds
    state,      \* the last state of the state log
    status,     \* the status of the wrapper run returned
    grades      \* for each graded round, whether it reached the threshold

runner == <<round, context, memory, state, status, grades>>
vars == <<thought, runner>>

Init ==
    /\ cfg \in Configs
    /\ pc = "idle" /\ step = 0 /\ history = <<>> /\ promoted = {} /\ tries = 0
    /\ inner = 0 /\ chats = 0 /\ counted = 0 /\ answer = "none"
    /\ round = 1 /\ context = {<<"given">>} /\ memory = {}
    /\ state = "none" /\ status = "none" /\ grades = <<>>

(* The runner moves while the strategy rests, and the other way round.       *)
At(where) == pc = where /\ UNCHANGED <<cfg, step, promoted, tries, inner>>
Keeping == UNCHANGED <<history, chats, counted, answer>>

---------------------------------------------------------------------------
(* run up to the strategy.                                                   *)
Spawn ==
    /\ At("idle") /\ Keeping
    /\ state' = "spawning" /\ status' = "none"
    /\ pc' = IF cfg.prehook THEN "prehook" ELSE "prompt"
    /\ UNCHANGED <<round, context, memory, grades>>

(* _call_hook_safe: a hook that raises, or that returns after the timeout,   *)
(* leaves its last argument as it was; leaving the pool waits for a hook     *)
(* that never returns, and the run with it.                                  *)
Heard == {"returned", "raised", "late"}

PreHookEnds ==
    /\ At("prehook") /\ Keeping
    /\ \E heard \in Heard :
          context' = IF heard = "returned" THEN context \cup {<<"hook">>} ELSE context
    /\ pc' = "prompt"
    /\ UNCHANGED <<round, memory, state, status, grades>>

PostHookEnds ==
    /\ At("posthook") /\ UNCHANGED <<history, chats, counted>>
    /\ \E heard \in Heard :
          \/ answer' = answer /\ pc' = "close"
          \/ heard = "returned" /\ answer' \in {"none", "json"} /\ pc' \in {"close", "closeerror"}
    /\ UNCHANGED runner

HookHangs ==
    /\ At(pc) /\ pc \in {"prehook", "posthook"} /\ Keeping
    /\ pc' = "hung"
    /\ UNCHANGED runner

(* Recall, assemble and dispatch are not in the try block of run.            *)
PrepareRaises ==
    /\ At("prompt") /\ Keeping
    /\ pc' = "crashed"
    /\ UNCHANGED runner

Prepare ==
    /\ pc = "prompt" /\ CanDispatch
    /\ context' = IF memory = {} THEN context ELSE context \cup {<<"memory">>}
    /\ state' = "running"
    /\ StrategyBegins(<<System, Task>>)
    /\ UNCHANGED <<round, memory, status, grades>>

---------------------------------------------------------------------------
(* run after the strategy.                                                   *)
Fails == /\ pc' = "returned" /\ state' = "failed" /\ status' = "error"

StrategyRaised ==
    /\ At("raised") /\ Keeping
    /\ Fails
    /\ UNCHANGED <<round, context, memory, grades>>

(* record_usage, once for the whole execution.                               *)
RecordUsage ==
    /\ At("ended") /\ Keeping
    /\ IF counted > cfg.budget THEN Fails
       ELSE pc' = (IF cfg.posthook THEN "posthook" ELSE "close") /\ UNCHANGED <<state, status>>
    /\ UNCHANGED <<round, context, memory, grades>>

(* Files persisted, output remembered, then the error in the result decides. *)
Close ==
    /\ \/ At("close") \/ At("closeerror")
    /\ Keeping
    /\ memory' = IF cfg.memory /\ answer # "none" THEN memory \cup {round} ELSE memory
    /\ pc' = "returned"
    /\ IF pc = "close" THEN state' = "completed" /\ status' = "completed"
       ELSE state' = "failed" /\ status' = "error"
    /\ UNCHANGED <<round, context, grades>>

StoreRaises ==
    /\ At("close") /\ Keeping /\ cfg.memory /\ answer # "none"
    /\ Fails
    /\ UNCHANGED <<round, context, memory, grades>>

---------------------------------------------------------------------------
(* Variant: critiques pile up.                                               *)
GradePilingUp ==
    /\ At("returned") /\ UNCHANGED <<history, answer, memory, state, status>>
    /\ chats' = 0 /\ counted' = 0
    /\ \E met \in BOOLEAN :
          /\ cfg.graded
          /\ grades' = Append(grades, met)
          /\ IF met \/ round = cfg.rounds THEN pc' = "over" /\ UNCHANGED <<round, context>>
             ELSE /\ pc' = "idle" /\ round' = round + 1
                  /\ context' = context \cup {<<"critique", round>>}

(* run_with_reflexion.  The result of an errored run is graded like any      *)
(* other; a judge that raises ends it all.                                   *)
Grade ==
    /\ At("returned") /\ UNCHANGED <<history, answer, memory, state, status>>
    /\ chats' = 0 /\ counted' = 0
    /\ \E met \in BOOLEAN :
          /\ cfg.graded
          /\ grades' = Append(grades, met)
          /\ IF met \/ round = cfg.rounds THEN pc' = "over" /\ UNCHANGED <<round, context>>
             ELSE /\ pc' = "idle" /\ round' = round + 1
                  /\ context' = {<<"given">>, <<"critique", round>>}

JudgeRaises ==
    /\ At("returned") /\ cfg.graded /\ Keeping
    /\ pc' = "crashed"
    /\ UNCHANGED runner

NoGrading ==
    /\ At("returned") /\ ~cfg.graded /\ Keeping
    /\ pc' = "over"
    /\ UNCHANGED runner

Stops == {"over", "crashed", "hung"}
Done == pc \in Stops /\ UNCHANGED vars

RunnerStep ==
    \/ Spawn \/ PreHookEnds \/ PostHookEnds
    \/ PrepareRaises \/ Prepare
    \/ StrategyRaised \/ RecordUsage \/ Close \/ StoreRaises
    \/ Grade \/ JudgeRaises \/ NoGrading

Next == RunnerStep \/ HookHangs \/ (StrategyStep /\ UNCHANGED runner) \/ Done

(* Everything the runner awaits comes back: API calls have a timeout, tools  *)
(* return.  A hook need not.                                                 *)
Spec == Init /\ [][Next]_vars /\ WF_vars(RunnerStep) /\ WF_vars(StrategyStep /\ UNCHANGED runner)

---------------------------------------------------------------------------
(* Types and ranges of the whole run.                                        *)
TypeOK ==
    /\ cfg \in Configs
    /\ step \in Nat /\ chats \in Nat /\ counted \in 0..chats
    /\ tries \in 0..(MaxTries - 1) /\ inner \in Nat
    /\ promoted \subseteq Tools
    /\ round \in 1..cfg.rounds /\ memory \subseteq 1..cfg.rounds
    /\ status \in {"none", "completed", "error"}

(* Every request that carries the history pairs each assistant message that  *)
(* calls tools with the message that answers exactly those calls, whatever   *)
(* compaction has removed: the API refuses anything else.                    *)
CallsAnswered ==
    Requesting /\ cfg.executor =>
        \A i \in 1..Len(history) :
            /\ history[i].calls # {} =>
                  i < Len(history) /\ history[i+1].answers = history[i].calls
            /\ history[i].answers # {} =>
                  i > 1 /\ history[i-1].calls = history[i].answers

(* Facts of the first n rounds, and those a compaction has to leave alone.   *)
Facts(n)  == {<<"system">>, <<"task">>} \cup ({"call", "result"} \X (0..(n - 1)))
Latest(n) == {<<"system">>} \cup ({"call", "result"} \X {k \in 0..(n - 1) : k >= n - cfg.keep})

(* However often its history is compacted, whichever summaries fail and what *)
(* coercion appends and takes back, a react agent has to the end the system  *)
(* prompt, the calls and the results of its last `keep` rounds word for      *)
(* word; and when it summarises, no other message has disappeared from it    *)
(* that was not given to a summary it still carries.                         *)
HistoryKept ==
    pc \in {"chat", "final", "coerce1", "coerce2", "coerce3"} =>
        /\ Latest(step) \subseteq Conveyed(history)
        /\ cfg.compaction # "drop_oldest" => Facts(step) \subseteq Covered(history)

(* The number of model calls one execution may make: for react, every step   *)
(* but the last may be followed by a summary, and the end takes up to three  *)
(* coercions or one forced answer.                                           *)
ChatBound ==
    CASE cfg.strategy = "plan_execute" -> 2 + cfg.max * cfg.inner
      [] cfg.strategy = "self_ask" -> 2 * cfg.max + 1
      [] cfg.strategy = "tree_of_thought" -> cfg.branches + 2
      [] cfg.strategy = "chain_of_thought" -> 1
      [] OTHER -> IF cfg.max = 0 THEN 1 ELSE 2 * cfg.max + 2
ChatsBounded == chats <= ChatBound

(* A round of reflexion works from the critique of the round before it and   *)
(* of no other, and from nothing a hook or the memory added to that round.   *)
CritiqueIsFresh ==
    /\ round > 1 =>
          context \cap {<<"critique", n>> : n \in 1..cfg.rounds}
              = {<<"critique", round - 1>>}
    /\ pc = "idle" => <<"hook">> \notin context /\ <<"memory">> \notin context

(* A run the runner gave a status to has it for what happened: it ended, or  *)
(* a hook keeps it for ever.                                                 *)
Settles == <>(pc \in Stops)
=============================================================================
