----------------------------- MODULE ReActLoop -----------------------------
(* ReActStrategy.execute: think, call tools, observe, repeat; with the       *)
(* progressive disclosure of tools, the compaction of the history, the       *)
(* coercion of an answer that is not the schema's, and the forced last call. *)
EXTENDS ChatProvider

VARIABLES
    cfg,        \* how the agent is configured, see Configs of the MC module
    pc,         \* which await of the strategy the execution is at
    step,       \* step_num
    history,    \* current_messages
    promoted,   \* tools of level L1 the model has named so far
    tries,      \* API calls of the current chat that failed
    chats,      \* completed chats, the compactor's included
    counted,    \* chats whose tokens are in total_tokens
    answer      \* content, by its kind

loop == <<cfg, pc, step, history, promoted, tries, chats, counted, answer>>

(* A message, by who says it, the facts it says word for word (the system    *)
(* prompt, the task, the calls and the results of a round), those a summary  *)
(* in it was made from, the tool calls it makes and answers.                 *)
Message(role, says, calls, answers) ==
    [role |-> role, says |-> says, sums |-> {}, calls |-> calls, answers |-> answers]
System  == Message("system", {<<"system">>}, {}, {})
Task    == Message("user", {<<"task">>}, {}, {})
Prompt  == Message("user", {}, {}, {})
Answer  == Message("assistant", {}, {}, {})
Act(n, calls)     == Message("assistant", {<<"call", n>>}, {n} \X calls, {})
Results(n, calls) == Message("user", {<<"result", n>>}, {},
                             IF cfg.executor THEN calls ELSE {})
Conveyed(msgs) == UNION {msgs[i].says : i \in 1..Len(msgs)}
Covered(msgs)  == UNION {msgs[i].says \cup msgs[i].sums : i \in 1..Len(msgs)}

---------------------------------------------------------------------------
(* Tools on offer.  Without an executor there are none; without a manifest   *)
(* list all adapters are offered; L1 tools are held back until named.        *)
AlwaysOn  == IF ~cfg.executor THEN {} ELSE cfg.level2 \cap Tools
L1Pending == IF cfg.executor THEN (cfg.level1 \cap Tools) \ promoted ELSE {}
Promotes(r) == promoted' = promoted \cup (L1Pending \cap (r.names \cup r.calls))
Offered   == IF step = cfg.max - 1 THEN {} ELSE AlwaysOn \cup promoted

---------------------------------------------------------------------------
(* One chat: a transient error is tried again, up to MaxTries API calls.     *)
Blip == /\ tries < MaxTries - 1
        /\ \E e \in Errors : _is_transient_error(e)
        /\ tries' = tries + 1
        /\ UNCHANGED <<cfg, pc, step, history, promoted, chats, counted, answer>>

GivesUp == /\ \E e \in Errors : ~_is_transient_error(e) \/ tries = MaxTries - 1
           /\ tries' = 0
           /\ UNCHANGED <<cfg, chats, counted>>

Hears(blocks, offered, schema) ==
    /\ MayAnswer(blocks, offered, schema)
    /\ tries' = 0 /\ chats' = chats + 1 /\ counted' = counted + 1
    /\ UNCHANGED cfg

---------------------------------------------------------------------------
(* Compaction.  The head is the first message, whose text stays; the tail    *)
(* the last rounds.  A summary is made from 600 or 1500 characters of each   *)
(* block between them and says what the model chooses: nothing is counted    *)
(* on but that each of them was given to it.                                 *)
Digest(h, first, keep) ==
    LET tail   == SubSeq(h, Len(h) - keep + 1, Len(h))
        middle == SubSeq(h, first, Len(h) - keep)
        given  == IF cfg.compaction = "drop_oldest" THEN {} ELSE Covered(middle)
    IN <<[Message("user", h[1].says, {}, {}) EXCEPT !.sums = h[1].sums \cup given]>> \o tail

(* Variants: the tail counted in messages, one message forgotten.            *)
CompactedByMessage(h) == Digest(h, 2, 2 * cfg.keep - 1)
CompactedSkipping(h)  == Digest(h, 3, 2 * cfg.keep)

Compacted(h) == Digest(h, 2, 2 * cfg.keep)

(* messages[1:-0] is empty, so nothing is compacted when keep is 0.          *)
Compactable(h) == cfg.keep > 0 /\ Len(h) >= 2 * cfg.keep + 3

(* Variant: a step after the last one.                                       *)
NextStepOnce(h) ==
    /\ step' = step + 1
    /\ IF step < cfg.max
       THEN pc' = "chat"  /\ history' = h
       ELSE pc' = "final" /\ history' = Append(h, Prompt)

(* The end of a step with message list h: the next step, or the last prompt. *)
NextStep(h) ==
    /\ step' = step + 1
    /\ IF step + 1 < cfg.max
       THEN pc' = "chat"  /\ history' = h
       ELSE pc' = "final" /\ history' = Append(h, Prompt)

---------------------------------------------------------------------------
(* No tool calls: the answer is final unless the schema asks for a rewrite.  *)
Concludes(r) ==
    /\ answer' = r.says
    /\ IF cfg.schema /\ r.says # "json"
       THEN pc' = "coerce1" /\ history' = history \o <<Answer, Prompt>>
       ELSE pc' = "ended"   /\ UNCHANGED history

ChatReplies ==
    /\ pc = "chat"
    /\ \E blocks \in Replies :
          LET r == Reply(cfg.schema, blocks) IN
          /\ Hears(blocks, Offered, cfg.schema)
          /\ Promotes(r)
          /\ IF r.calls = {} THEN Concludes(r)
             ELSE /\ pc' = "tools" /\ answer' = r.says
                  /\ history' = Append(history, Act(step, r.calls))
    /\ UNCHANGED step

ChatRaises ==
    /\ pc = "chat" /\ GivesUp
    /\ pc' = "raised"
    /\ UNCHANGED <<step, history, promoted, answer>>

(* The tool results are appended, then the history may be over its budget.   *)
ToolsReturn ==
    /\ pc = "tools"
    /\ LET h == Append(history, Results(step, Last(history).calls)) IN
       \E over \in BOOLEAN :
          IF /\ cfg.trigger /\ step + 1 < cfg.max /\ cfg.compaction # "none"
             /\ over /\ Compactable(h)
          THEN IF cfg.compaction = "drop_oldest" THEN NextStep(Compacted(h))
               ELSE pc' = "summary" /\ history' = h /\ UNCHANGED step
          ELSE NextStep(h)
    /\ UNCHANGED <<cfg, promoted, tries, chats, counted, answer>>

ToolRaises ==
    /\ pc = "tools" /\ cfg.executor
    /\ pc' = "raised"
    /\ UNCHANGED <<cfg, step, history, promoted, tries, chats, counted, answer>>

(* The compactor's own chat: its tokens are not counted; an empty summary or *)
(* an error leaves the history as it is.                                     *)
SummaryReplies ==
    /\ pc = "summary"
    /\ \E empty \in BOOLEAN : NextStep(IF empty THEN history ELSE Compacted(history))
    /\ tries' = 0 /\ chats' = chats + 1
    /\ UNCHANGED <<cfg, promoted, counted, answer>>

(* Variant: the compactor asks until it has a summary.                       *)
SummaryRetries ==
    /\ pc = "summary" /\ GivesUp
    /\ UNCHANGED <<pc, step, history, promoted, answer>>

SummaryFails ==
    /\ pc = "summary" /\ GivesUp
    /\ NextStep(history)
    /\ UNCHANGED <<promoted, answer>>

---------------------------------------------------------------------------
(* Three prompts of rising insistence.  A failed call takes its prompt back. *)
After == [coerce1 |-> "coerce2", coerce2 |-> "coerce3", coerce3 |-> "ended"]
Coercing == pc \in DOMAIN After

NextPrompt(h) ==
    /\ pc' = After[pc]
    /\ history' = IF After[pc] = "ended" THEN h ELSE Append(h, Prompt)

CoerceReplies ==
    /\ Coercing
    /\ \E blocks \in Replies :
          LET r == Reply(TRUE, blocks) IN
          /\ Hears(blocks, {}, TRUE)
          /\ answer' = r.says
          /\ IF r.says = "json" THEN pc' = "ended" /\ UNCHANGED history
             ELSE NextPrompt(Append(history, Answer))
    /\ UNCHANGED <<step, promoted>>

CoerceFails ==
    /\ Coercing /\ GivesUp
    /\ NextPrompt(Front(history))
    /\ UNCHANGED <<step, promoted, answer>>

(* Out of steps: one more call without tools; when it fails, what the last   *)
(* entry of the step log says, which is a tool's output and has no text.     *)
FinalReplies ==
    /\ pc = "final"
    /\ \E blocks \in Replies :
          /\ Hears(blocks, {}, cfg.schema)
          /\ answer' = Reply(cfg.schema, blocks).says
    /\ pc' = "ended"
    /\ UNCHANGED <<step, history, promoted>>

FinalFails ==
    /\ pc = "final" /\ GivesUp
    /\ answer' = IF cfg.executor THEN "none" ELSE answer
    /\ pc' = "ended"
    /\ UNCHANGED <<step, history, promoted>>

Asking == pc \in {"chat", "summary", "final"} \/ Coercing

ReActStep ==
    \/ ChatReplies \/ ChatRaises \/ ToolsReturn \/ ToolRaises
    \/ SummaryReplies \/ SummaryFails
    \/ CoerceReplies \/ CoerceFails
    \/ FinalReplies \/ FinalFails

=============================================================================
