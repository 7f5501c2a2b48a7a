---------------------------- MODULE ToolAdapters ----------------------------
(* What is behind a tool call: the shell and HTTP adapters of builtin.py and *)
(* the bridge to an MCP server.  The bridge writes JSON-RPC requests to the  *)
(* stdin of the server it has started and takes the next line of its stdout  *)
(* for the answer, whichever id it carries; calls of one layer share it.     *)
EXTENDS Naturals, Sequences, FiniteSets

CONSTANTS
    ToolCalls,      \* calls made through the adapters
    MaxSpawns,      \* bound on the servers a bridge starts
    MaxRedirects    \* policy.max_redirects

ASSUME RedirectsAssumption == MaxRedirects \in Nat /\ MaxSpawns \in Nat \ {0}
ASSUME ToolCallsAssumption == ToolCalls \cap {"initialize", "none", "failed", "ended"} = {}

VARIABLES
    call,           \* call -> [pc, on, got]: where it is, on which process, what it returned
    alive,          \* the started servers that run
    current,        \* _process
    connected,      \* _connected
    asked,          \* process -> the requests written to it, in order
    said,           \* process -> how many of them it has answered
    heard,          \* process -> how many lines have been read
    muddled,        \* processes a reader gave up on, or had two at once
    hop             \* call -> [n, body]: redirects an HTTP call has followed, its body

adapterVars == <<call, alive, current, connected, asked, said, heard, muddled, hop>>
bridge == <<alive, current, connected, asked, said, heard, muddled>>

Hello == "initialize"
Idle3 == [pc |-> "new", on |-> 0, got |-> "none"]
Servers == 1..MaxSpawns

AdaptersInit ==
    /\ call = [c \in ToolCalls |-> Idle3]
    /\ alive = {} /\ current = 0 /\ connected = FALSE /\ muddled = {}
    /\ asked = [p \in Servers |-> <<>>]
    /\ said = [p \in Servers |-> 0] /\ heard = [p \in Servers |-> 0]
    /\ hop = [c \in ToolCalls |-> [n |-> 0, body |-> TRUE]]

Spawned == {p \in Servers : asked[p] # <<>>}
Readers(p) == {c \in ToolCalls : call[c].on = p /\ call[c].pc \in {"greets", "reads"}}
Line(p) == heard[p] < said[p]
Answered(c, what) == [call EXCEPT ![c].pc = "done", ![c].got = what]

---------------------------------------------------------------------------
(* The end of invoke's synchronous part: the request goes to the process the *)
(* bridge has now, unless that has ended.                                    *)
Send(c, up, mud) ==
    IF up \notin alive
    THEN call' = Answered(c, "failed") /\ muddled' = mud /\ UNCHANGED asked
    ELSE /\ asked' = [asked EXCEPT ![up] = Append(@, c)]
         /\ call' = [call EXCEPT ![c] = [pc |-> "reads", on |-> up, got |-> "none"]]
         /\ muddled' = IF Readers(up) \ {c} # {} THEN mud \cup {up} ELSE mud

Invoke(c) ==
    /\ call[c] = Idle3
    /\ IF connected THEN Send(c, current, muddled)
       ELSE call' = [call EXCEPT ![c].pc = "spawns"] /\ UNCHANGED <<asked, muddled>>
    /\ UNCHANGED <<alive, current, connected, said, heard, hop>>

Spawn(c) ==
    /\ call[c].pc = "spawns" /\ Cardinality(Spawned) < MaxSpawns
    /\ LET p == Cardinality(Spawned) + 1 IN
       /\ alive' = alive \cup {p} /\ current' = p
       /\ asked' = [asked EXCEPT ![p] = <<Hello>>]
       /\ call' = [call EXCEPT ![c] = [pc |-> "greets", on |-> p, got |-> "none"]]
    /\ UNCHANGED <<connected, said, heard, muddled, hop>>

(* Variant: the handshake is not awaited.                                    *)
GreetedUnread(c) ==
    /\ call[c].pc = "greets" /\ connected' = TRUE
    /\ Send(c, current, muddled)
    /\ UNCHANGED <<alive, current, said, heard, hop>>

(* Any line ends the handshake, and so does the end of the stream.           *)
Greeted(c) ==
    LET p == call[c].on IN
    /\ call[c].pc = "greets" /\ (Line(p) \/ p \notin alive)
    /\ connected' = TRUE
    /\ heard' = IF Line(p) THEN [heard EXCEPT ![p] = @ + 1] ELSE heard
    /\ Send(c, current, muddled)
    /\ UNCHANGED <<alive, current, said, hop>>

Hear(c) ==
    LET p == call[c].on IN
    /\ call[c].pc = "reads" /\ (Line(p) \/ p \notin alive)
    /\ IF Line(p)
       THEN heard' = [heard EXCEPT ![p] = @ + 1] /\ call' = Answered(c, asked[p][heard[p] + 1])
       ELSE call' = Answered(c, "failed") /\ UNCHANGED heard
    /\ UNCHANGED <<alive, current, connected, asked, said, muddled, hop>>

(* A time-out, or the error of a stream that already has a reader.  A failed *)
(* handshake leaves the process, and the call writes to it all the same.     *)
GivesUp(c) ==
    LET p == call[c].on IN
    /\ call[c].pc \in {"greets", "reads"}
    /\ IF call[c].pc = "greets"
       THEN connected' = FALSE /\ Send(c, current, muddled \cup {p})
       ELSE call' = Answered(c, "failed") /\ muddled' = muddled \cup {p} /\ UNCHANGED <<connected, asked>>
    /\ UNCHANGED <<alive, current, said, heard, hop>>

ServerAnswers(p) ==
    /\ p \in alive /\ said[p] < Len(asked[p])
    /\ said' = [said EXCEPT ![p] = @ + 1]
    /\ UNCHANGED <<call, alive, current, connected, asked, heard, muddled, hop>>

ServerDies(p) ==
    /\ p \in alive /\ alive' = alive \ {p}
    /\ UNCHANGED <<call, current, connected, asked, said, heard, muddled, hop>>

Disconnect ==
    /\ current # 0 /\ alive' = alive \ {current} /\ connected' = FALSE
    /\ UNCHANGED <<call, current, asked, said, heard, muddled, hop>>

---------------------------------------------------------------------------
(* A command that outlives its 120 seconds is answered and goes on.          *)
ShellStarts(c) ==
    /\ call[c] = Idle3 /\ call' = [call EXCEPT ![c].pc = "shell"]
    /\ UNCHANGED <<bridge, hop>>

ShellEnds(c) ==
    /\ call[c].pc \in {"shell", "left"}
    /\ call' = IF call[c].pc = "shell" THEN Answered(c, "ended") ELSE [call EXCEPT ![c].pc = "done"]
    /\ UNCHANGED <<bridge, hop>>

ShellTimesOut(c) ==
    /\ call[c].pc = "shell"
    /\ call' = [call EXCEPT ![c].pc = "left", ![c].got = "failed"]
    /\ UNCHANGED <<bridge, hop>>

---------------------------------------------------------------------------
(* safe_request: each hop is checked before it is asked; 301 to 303 turn the *)
(* request into a GET without a body.                                        *)
HttpStarts(c, safe) ==
    /\ call[c] = Idle3
    /\ call' = IF safe THEN [call EXCEPT ![c].pc = "http"] ELSE Answered(c, "failed")
    /\ UNCHANGED <<bridge, hop>>

Redirected(c, safe, code) ==
    /\ call[c].pc = "http"
    /\ IF safe /\ hop[c].n < MaxRedirects
       THEN hop' = [hop EXCEPT ![c] = [n |-> @.n + 1, body |-> @.body /\ code > 303]] /\ UNCHANGED call
       ELSE call' = Answered(c, "failed") /\ UNCHANGED hop
    /\ UNCHANGED bridge

HttpEnds(c, how) == call[c].pc = "http" /\ call' = Answered(c, how) /\ UNCHANGED <<bridge, hop>>

BridgeStep ==
    \/ \E c \in ToolCalls : Invoke(c) \/ Spawn(c) \/ Greeted(c) \/ Hear(c) \/ GivesUp(c)
    \/ \E p \in Servers : ServerAnswers(p) \/ ServerDies(p)
    \/ Disconnect

(* Calls of the other adapters share nothing with those of the bridge.       *)
LocalStep ==
    \E c \in ToolCalls :
        \/ ShellStarts(c) \/ ShellEnds(c) \/ ShellTimesOut(c)
        \/ \E safe \in BOOLEAN : HttpStarts(c, safe) \/ \E code \in {302, 307} : Redirected(c, safe, code)
        \/ \E how \in {"ended", "failed"} : HttpEnds(c, how)

AdapterStep == BridgeStep \/ LocalStep

AdapterSpec == AdaptersInit /\ [][AdapterStep]_adapterVars

---------------------------------------------------------------------------
(* An MCP call returns the answer to another request only from a process     *)
(* that a reader gave up on, or that had two at once; and no line is given   *)
(* to two callers.                                                           *)
AnswersAreOwn ==
    \A c \in ToolCalls : call[c].pc = "done" /\ call[c].on # 0 /\ call[c].got # "failed" =>
        /\ call[c].got = c \/ call[c].on \in muddled
        /\ \A d \in ToolCalls \ {c} : call[d].on = call[c].on => call[d].got # call[c].got
=============================================================================
