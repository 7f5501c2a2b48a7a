------------------------------ MODULE MCService ------------------------------
(* The parts of the service that several clients or processes use at the     *)
(* same time, each checked by itself: the server, the state files of a       *)
(* workflow, the memory file of an agent; and the loop that layers the steps *)
(* of a workflow, for every workflow of three steps.  They share no variable.*)
EXTENDS ServerApi, FileStateStore, FileMemoryStore, TopoSort

VARIABLE part       \* which one this behaviour is about

vars == <<part, serverVars, stateVars, memoryVars, sortVars>>

Steps3  == 1..3
Nowhere == {0}

AlreadySorted ==
    /\ deps = [s \in Step |-> {}] /\ verdict = "sorted"
    /\ remaining = {} /\ resolved = Step /\ layers = <<Step>>

Init == /\ part \in {"server", "state", "memory", "sort"}
        /\ ServerInit /\ StateInit /\ MemoryInit
        /\ IF part = "sort" THEN SortInit ELSE AlreadySorted

Serve == part = "server" /\ ServerStep /\ UNCHANGED <<stateVars, memoryVars, sortVars>>
Save  == part = "state" /\ StateStep /\ UNCHANGED <<serverVars, memoryVars, sortVars>>
Store == part = "memory" /\ MemoryStep /\ UNCHANGED <<serverVars, stateVars, sortVars>>
Sort  == part = "sort" /\ SortNext /\ UNCHANGED <<serverVars, stateVars, memoryVars>>

Next == UNCHANGED part /\ (Serve \/ Save \/ Store \/ Sort)

Spec == Init /\ [][Next]_vars /\ ServerFairness /\ SortFairness
=============================================================================
