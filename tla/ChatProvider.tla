--------------------------- MODULE ChatProvider ---------------------------
(* What a model call gives the strategies: AnthropicProvider.chat turns the *)
(* content blocks of one response into a text and a set of tool calls, and  *)
(* retries an API error that looks transient.  The model itself is          *)
(* external: Blocks enumerates what it may send.                            *)
EXTENDS Naturals, Sequences, FiniteSets, SequencesExt

CONSTANTS
    Tools,          \* names of the adapters registered in the ToolExecutor
    Replies         \* the responses considered, as sequences of blocks

(* The text of a reply, by what the strategies tell apart: nothing, prose,   *)
(* a JSON object that has a required field ("json") or none ("bare").        *)
Text == {"none", "prose", "json", "bare"}

(* content += block.text : two texts together are never one JSON object.     *)
Join(s, t) == IF s = "none" THEN t ELSE IF t = "none" THEN s ELSE "prose"

(* A response is read block by block.  submit_output is a tool of the        *)
(* provider's own: its argument replaces the text before it.  An <invoke>    *)
(* in the text ("xml") is how MiniMax calls a tool.                          *)
Start0 == [says |-> "none", names |-> {}, calls |-> {}, xml |-> {}, fired |-> FALSE]

Read(schema, r, b) ==
    CASE b.kind = "text" ->
            [r EXCEPT !.says = Join(@, b.says), !.names = @ \cup b.names]
      [] b.kind = "submit" ->
            [r EXCEPT !.says = b.says, !.names = {}, !.fired = TRUE]
      [] b.kind = "xml" -> [r EXCEPT !.xml = @ \cup {b.name}]
      [] OTHER -> [r EXCEPT !.calls = @ \cup {b.name}]

(* The XML calls count only where no tool was called in the proper form; a   *)
(* submission clears the other calls of the same response.                   *)
Reply(schema, blocks) ==
    LET r == FoldLeft(LAMBDA a, b : Read(schema, a, b), Start0, blocks)
        synth == r.calls = {} /\ ~r.fired /\ r.xml # {}
        given == synth /\ schema /\ "submit_output" \in r.xml
    IN [says  |-> IF given THEN "json"
                  ELSE IF r.xml # {} /\ ~synth THEN Join(r.says, "prose") ELSE r.says,
        names |-> IF given THEN {} ELSE r.names \cup r.xml,
        calls |-> IF r.fired \/ given THEN {} ELSE IF synth THEN r.xml ELSE r.calls]

(* The API returns tool_use blocks only for tools of the request, and        *)
(* submit_output only when the request has a schema; text is not bound.      *)
MayAnswer(blocks, offered, schema) ==
    \A i \in 1..Len(blocks) :
        /\ blocks[i].kind = "tool_use" => blocks[i].name \in offered
        /\ blocks[i].kind = "submit" => schema

(* What an API call may fail with.                                           *)
Errors == [status : {"5xx", "429", "408", "401", "403", "404", "other"},
           marker : BOOLEAN]

_is_transient_error(e) ==
    \/ e.status \in {"5xx", "429", "408"}
    \/ e.status = "other" /\ e.marker

MaxTries == 3
=============================================================================
