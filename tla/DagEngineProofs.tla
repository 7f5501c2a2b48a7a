--------------------------- MODULE DagEngineProofs ---------------------------
(***************************************************************************)
(* Theorems about DagEngine, for every workflow: any number of steps, any  *)
(* dependencies, gates, loops and stores, any number of resumed runs.      *)
(* First the order of the steps, what a run reports and the contract it    *)
(* keeps; then what its results are worth: approvals are given, saved work *)
(* is not redone, results satisfy their gates and are computed from those  *)
(* their dependencies have in the end; and then what a step costs.         *)
(***************************************************************************)
EXTENDS DagEngine, FiniteSetTheorems, TLAPS

-----------------------------------------------------------------------------
(* Facts about the dict of results.                                         *)

(* A result that an execution has produced is never the absent one.         *)
LEMMA MadeIsResult ==
  ASSUME TypeOK, NEW s \in Step, NEW pass \in BOOLEAN, NEW used \in [Step -> Nat]
  PROVE  /\ Made(s, pass, used) \in Result
         /\ Made(s, pass, used) # NoResult
BY DEF TypeOK, Made, Result, NoResult

(* Putting a result keeps the dict well formed, changes only its key, and   *)
(* leaves every key findable.                                               *)
LEMMA PutDict ==
  ASSUME NEW d \in Dict, NEW s \in Step, NEW r \in Result, NEW b \in BOOLEAN
  PROVE  /\ Put(d, s, r, b) \in Dict
         /\ Put(d, s, r, b).val[s] = r
         /\ \A t \in Step : t # s => Put(d, s, r, b).val[t] = d.val[t]
         /\ Found(d) => Found(Put(d, s, r, b))
<1> DEFINE k == IF \E i \in DOMAIN d.keys : d.keys[i] = s
                  THEN d.keys ELSE Append(d.keys, s)
<1>0. d.keys \in Seq(Step) /\ d.val \in [Step -> Result] /\ d.untyped \in SUBSET Step
  BY DEF Dict
<1>1. k \in Seq(Step)
  BY <1>0
<1>2. \E i \in DOMAIN k : k[i] = s
  <2>1. CASE \E i \in DOMAIN d.keys : d.keys[i] = s
    BY <2>1
  <2>2. CASE ~ \E i \in DOMAIN d.keys : d.keys[i] = s
    <3>1. k = Append(d.keys, s)
      BY <2>2
    <3>2. Len(d.keys) + 1 \in DOMAIN k /\ k[Len(d.keys) + 1] = s
      BY <3>1, <1>0
    <3> QED BY <3>2
  <2> QED BY <2>1, <2>2
<1>3. \A i \in DOMAIN d.keys : i \in DOMAIN k /\ k[i] = d.keys[i]
  BY <1>0
<1>4. Put(d, s, r, b).keys = k /\ Put(d, s, r, b).val = [d.val EXCEPT ![s] = r]
  BY DEF Put
<1>5. Put(d, s, r, b) \in Dict
  BY <1>0, <1>1 DEF Put, Dict
<1>6. /\ Put(d, s, r, b).val[s] = r
      /\ \A t \in Step : t # s => Put(d, s, r, b).val[t] = d.val[t]
  BY <1>0, <1>4
<1> HIDE DEF k
<1>7. Found(d) => Found(Put(d, s, r, b))
  BY <1>2, <1>3, <1>4, <1>6 DEF Found
<1> QED BY <1>5, <1>6, <1>7

(* The same for a result made in this process.                              *)
LEMMA PutMade ==
  ASSUME NEW d \in Dict, NEW s \in Step, NEW r \in Result, Found(d)
  PROVE  /\ Put(d, s, r, FALSE) \in Dict
         /\ Found(Put(d, s, r, FALSE))
         /\ Put(d, s, r, FALSE).val[s] = r
         /\ \A t \in Step : t # s => Put(d, s, r, FALSE).val[t] = d.val[t]
<1>1. FALSE \in BOOLEAN
  OBVIOUS
<1>2. Put(d, s, r, FALSE) \in Dict /\ Found(Put(d, s, r, FALSE))
  BY <1>1, PutDict, Zenon
<1>3. Put(d, s, r, FALSE).val[s] = r
  BY DEF Put, Dict
<1>4. \A t \in Step : t # s => Put(d, s, r, FALSE).val[t] = d.val[t]
  BY DEF Put, Dict
<1> QED BY <1>2, <1>3, <1>4, Zenon

(* Dropping from a key that is there keeps the dict well formed, removes    *)
(* its value, and what is left is found under its old key.                  *)
LEMMA DropDict ==
  ASSUME NEW d \in Dict, NEW t \in Step,
         \E i \in DOMAIN d.keys : d.keys[i] = t
  PROVE  /\ DropFrom(d, t) \in Dict
         /\ \A s \in Step : \/ DropFrom(d, t).val[s] = NoResult
                            \/ DropFrom(d, t).val[s] = d.val[s] /\ s \notin From(d, t)
         /\ Found(d) => Found(DropFrom(d, t))
<1> DEFINE p == Place(d, t)
<1>0. d.keys \in Seq(Step) /\ d.val \in [Step -> Result] /\ d.untyped \in SUBSET Step
  BY DEF Dict
<1>1. p \in DOMAIN d.keys /\ d.keys[p] = t
  BY DEF Place
<1>2. p \in 1..Len(d.keys)
  BY <1>0, <1>1
<1> HIDE DEF p
<1>3. DropFrom(d, t) = [ val     |-> [s \in Step |-> IF s \in From(d, t) THEN NoResult
                                                     ELSE d.val[s]],
                         keys    |-> SubSeq(d.keys, 1, p - 1),
                         untyped |-> d.untyped \ From(d, t) ]
  BY DEF DropFrom, p
<1>4. SubSeq(d.keys, 1, p - 1) \in Seq(Step)
  BY <1>0, <1>2
<1>5. NoResult \in Result
  BY DEF NoResult, Result, Zero
<1>6. DropFrom(d, t) \in Dict
  BY <1>0, <1>3, <1>4, <1>5 DEF Dict
<1>7. ASSUME NEW i \in DOMAIN d.keys, d.keys[i] \notin From(d, t)
      PROVE  /\ i \in DOMAIN SubSeq(d.keys, 1, p - 1)
             /\ SubSeq(d.keys, 1, p - 1)[i] = d.keys[i]
  <2>1. i \in 1..Len(d.keys) /\ i \notin p..Len(d.keys)
    BY <1>0, <1>7 DEF From, p
  <2> QED BY <2>1, <1>0, <1>2
<1>8. DropFrom(d, t).keys = SubSeq(d.keys, 1, p - 1)
  BY DEF DropFrom, p
<1>9. \A s \in Step : DropFrom(d, t).val[s] = IF s \in From(d, t) THEN NoResult
                                                               ELSE d.val[s]
  BY <1>3
<1>10. \A i \in DOMAIN d.keys : d.keys[i] \notin From(d, t) =>
         /\ i \in DOMAIN DropFrom(d, t).keys
         /\ DropFrom(d, t).keys[i] = d.keys[i]
  BY <1>7, <1>8
<1>11. ASSUME Found(d), NEW s \in Step, DropFrom(d, t).val[s] # NoResult
       PROVE  \E i \in DOMAIN DropFrom(d, t).keys : DropFrom(d, t).keys[i] = s
  <2>1. s \notin From(d, t) /\ d.val[s] # NoResult
    BY <1>9, <1>11
  <2>2. PICK i \in DOMAIN d.keys : d.keys[i] = s
    BY <2>1, <1>11 DEF Found
  <2> QED BY <2>1, <2>2, <1>10
<1>12. Found(d) => Found(DropFrom(d, t))
  BY <1>11 DEF Found
<1> QED BY <1>6, <1>9, <1>12

-----------------------------------------------------------------------------
(***************************************************************************)
(* What a task may do between two awaits, whichever of its actions it      *)
(* takes: it moves only itself; it goes on only with its result in the     *)
(* dict, unless it had one before; it takes results away only by failing;  *)
(* and past its first call its result is in the store, with the request    *)
(* when it pauses.                                                         *)
(***************************************************************************)
TaskStep(s, v) ==
  /\ run = "running" /\ run' = run /\ resolved' = resolved
  /\ s \in InFlight
  /\ pc' = [pc EXCEPT ![s] = v]
  /\ v \in {"loop", "done", "paused", "retry", "failed"}
  /\ v # "failed" => /\ Present \subseteq Present'
                     /\ s \in Present' \cup HadResult
  /\ \A t \in Step : store[t] # NoResult => store'[t] # NoResult
  /\ v \in {"loop", "retry", "paused"} => store'[s] # NoResult
  /\ v = "paused" => Gate[s] = "approval" /\ approval'[s] = "pending"
  /\ v = "loop" => via'[s] \in Step
  /\ \A t \in Step : t # s => approval'[t] = approval[t] /\ via'[t] = via[t]

Moves(s) == \E v \in {"loop", "done", "paused", "retry", "failed"} : TaskStep(s, v)

(* Where a task can be when it moves: in the current layer.                 *)
LEMMA InFlightInLayer ==
  ASSUME IInv, NEW s \in InFlight
  PROVE  s \in Layer
BY DEF IInv, TypeOK, DepsEndedWell, InFlight, Finished, Layer

(* A TaskStep preserves the part of the invariant that is not about types.  *)
LEMMA TaskStepSafe ==
  ASSUME IInv, NEW s \in Step, NEW v, TaskStep(s, v), TypeOK', KeysMatch'
  PROVE  IInv'
<1>1. s \in Layer /\ Layer' = Layer
  BY InFlightInLayer DEF TaskStep, Layer
<1>2. pc \in [Step -> {"new", "run", "loop", "retry", "done", "restored", "failed", "paused"}]
  BY DEF IInv, TypeOK
<1>3. pc'[s] = v /\ \A t \in Step : t # s => pc'[t] = pc[t]
  BY <1>2 DEF TaskStep
<1>4. DepsEndedWell'
  <2>1. pc[s] \in {"run", "loop", "retry"}
    BY DEF TaskStep, InFlight
  <2>2. Finished \subseteq Finished'
    BY <1>3, <2>1 DEF Finished
  <2> QED BY <1>3, <2>1, <2>2 DEF IInv, DepsEndedWell, TaskStep
<1>5. DroppedOnlyIfDoomed'
  <2>1. CASE v = "failed"
    BY <2>1, <1>1, <1>3 DEF DroppedOnlyIfDoomed
  <2>2. CASE v # "failed"
    <3> SUFFICES ASSUME NEW u \in (HadResult \ Present)'
                 PROVE  \E t \in Layer' : pc'[t] = "failed"
      BY DEF DroppedOnlyIfDoomed
    <3>1. u \in Step /\ u \notin Present
      BY <2>2 DEF TaskStep, HadResult
    <3>2. u \in HadResult \ Present
      BY <2>2, <3>1, <1>3 DEF HadResult, TaskStep
    <3>3. PICK t \in Layer : pc[t] = "failed"
      BY <3>2 DEF IInv, DroppedOnlyIfDoomed
    <3>4. t \in Step /\ t # s
      BY <3>3 DEF TaskStep, InFlight, Layer
    <3> QED BY <3>3, <3>4, <1>1, <1>3
  <2> QED BY <2>1, <2>2
<1>6. TasksPersisted'
  BY <1>3 DEF IInv, TasksPersisted, TaskStep
<1>7. run' = "running"
  BY DEF TaskStep
<1>8. NotStarted' /\ NoOrphans' /\ PauseHasRecord' /\ (run = "completed" => resolved = Step)'
  BY <1>7 DEF NotStarted, NoOrphans, PauseHasRecord
<1> QED BY <1>4, <1>5, <1>6, <1>8 DEF IInv

-----------------------------------------------------------------------------
(* The dependency versions handed to a call are well typed.                 *)
LEMMA HandedType ==
  ASSUME TypeOK, NEW d \in Dict, NEW s \in Step, Handed(d, s)
  PROVE  input' \in [Step -> [Step -> Nat]] /\ poisoned' \in SUBSET Step
<1>1. DepVersions(d, s) \in [Step -> Nat]
  BY DEF DepVersions, Dict, Result
<1> QED BY <1>1 DEF Handed, TypeOK

(* What _check_gate does to its own task, whatever the kind of gate.        *)
LEMMA GateStep ==
  ASSUME TypeOK, NEW s \in Step, NEW pass \in BOOLEAN,
         NEW d \in Dict, Found(d), CheckGate(s, pass, d)
  PROVE  /\ \E v \in {"done", "paused", "retry", "failed"} :
              /\ pc' = [pc EXCEPT ![s] = v]
              /\ v # "failed" => results' = d
              /\ v = "paused" => Gate[s] = "approval" /\ approval'[s] = "pending"
         /\ results' \in Dict /\ Found(results')
         /\ \A t \in Step : t # s => approval'[t] = approval[t]
         /\ input' \in [Step -> [Step -> Nat]] /\ poisoned' \in SUBSET Step
         /\ attempt' \in [Step -> Nat]
         /\ approval' \in [Step -> {"none", "pending", "approved"}]
<1> USE DEF TypeOK
<1>1. CASE GatePasses(s, pass, d)
  BY <1>1 DEF GatePasses
<1>2. CASE GatePauses(s, d)
  BY <1>2 DEF GatePauses, Request
<1>3. CASE GateRetries(s, d)
  <2>1. input' \in [Step -> [Step -> Nat]] /\ poisoned' \in SUBSET Step
    BY <1>3, HandedType DEF GateRetries
  <2> QED BY <1>3, <2>1 DEF GateRetries
<1>4. CASE GateRollsBack(s, d)
  <2>1. RollbackTo[s] \in Step
    BY <1>4, GateAssumption DEF GateRollsBack
  <2>2. \E i \in DOMAIN d.keys : d.keys[i] = RollbackTo[s]
    BY <1>4, <2>1 DEF GateRollsBack, Found
  <2>3. DropFrom(d, RollbackTo[s]) \in Dict /\ Found(DropFrom(d, RollbackTo[s]))
    BY <2>1, <2>2, DropDict
  <2> QED BY <1>4, <2>1, <2>3 DEF GateRollsBack
<1>5. CASE GateRaises(s, d)
  BY <1>5 DEF GateRaises
<1> QED BY <1>1, <1>2, <1>3, <1>4, <1>5 DEF CheckGate

(***************************************************************************)
(* The four actions of a task.                                             *)
(***************************************************************************)
LEMMA CallReturnsStep ==
  ASSUME IInv, NEW s \in Step, CallReturns(s)
  PROVE  IInv' /\ Moves(s)
<1>0. TypeOK /\ Found(results) /\ results \in Dict
  BY DEF IInv, KeysMatch, TypeOK
<1>1. PICK pass \in BOOLEAN :
        LET r == Made(s, pass, input[s])
            d == Put(results, s, r, FALSE)
        IN  /\ store' = [store EXCEPT ![s] = r]
            /\ \/ Feedback(s, d)
               \/ CheckGate(s, pass, d) /\ UNCHANGED <<fired, via>>
  BY DEF CallReturns
<1> DEFINE r == Made(s, pass, input[s])
           d == Put(results, s, r, FALSE)
<1>2. r \in Result /\ r # NoResult
  BY <1>0, MadeIsResult DEF TypeOK
<1> HIDE DEF r
<1>3. /\ d \in Dict /\ Found(d) /\ d.val[s] = r
      /\ \A t \in Step : t # s => d.val[t] = results.val[t]
  <2>1. d \in Dict /\ d.val[s] = r
    BY <1>0, <1>2, PutMade
  <2>2. Found(d)
    BY <1>0, <1>2, PutMade
  <2>3. ASSUME NEW t \in Step, t # s
        PROVE  d.val[t] = results.val[t]
    BY <1>0, <2>3 DEF Put, Dict
  <2> QED BY <2>1, <2>2, <2>3
<1>4. /\ store' \in [Step -> Result] /\ store'[s] # NoResult
      /\ \A t \in Step : store[t] # NoResult => store'[t] # NoResult
  BY <1>0, <1>1, <1>2 DEF TypeOK, r
<1>5. /\ calls' \in [Step -> Nat] /\ run' = run /\ resolved' = resolved /\ runs' = runs
      /\ s \in InFlight /\ run = "running"
  BY <1>0 DEF CallReturns, TypeOK, Gathering, InFlight
<1> HIDE DEF d
<1>6. results' = d => Present \cup {s} \subseteq Present'
  BY <1>2, <1>3 DEF Present
<1>7. CASE Feedback(s, d)
  <2>1. /\ pc' = [pc EXCEPT ![s] = "loop"] /\ results' = d /\ approval' = approval
        /\ UNCHANGED <<input, poisoned, attempt>>
    BY <1>7, <1>0 DEF Feedback, TypeOK
  <2>2. /\ fired' \in [Loops -> Nat] /\ via' \in [Step -> Step \cup {0}]
        /\ via'[s] \in Step /\ \A t \in Step : t # s => via'[t] = via[t]
    BY <1>7, <1>0, LoopAssumption DEF Feedback, TypeOK, Loop
  <2>3. TypeOK'
    BY <1>0, <1>3, <1>4, <1>5, <2>1, <2>2 DEF TypeOK
  <2>4. TaskStep(s, "loop")
    BY <1>4, <1>5, <1>6, <2>1, <2>2 DEF TaskStep
  <2>5. KeysMatch'
    BY <1>3, <2>1 DEF KeysMatch
  <2> QED BY <2>3, <2>4, <2>5, TaskStepSafe DEF Moves
<1>8. CASE CheckGate(s, pass, d) /\ UNCHANGED <<fired, via>>
  <2>1. PICK v \in {"done", "paused", "retry", "failed"} :
              /\ pc' = [pc EXCEPT ![s] = v]
              /\ v # "failed" => results' = d
              /\ v = "paused" => Gate[s] = "approval" /\ approval'[s] = "pending"
    BY <1>0, <1>3, <1>8, GateStep
  <2>2. /\ results' \in Dict /\ Found(results')
        /\ \A t \in Step : t # s => approval'[t] = approval[t]
        /\ input' \in [Step -> [Step -> Nat]] /\ poisoned' \in SUBSET Step
        /\ attempt' \in [Step -> Nat]
        /\ approval' \in [Step -> {"none", "pending", "approved"}]
    BY <1>0, <1>3, <1>8, GateStep
  <2>3. TypeOK'
    BY <1>0, <1>4, <1>5, <1>8, <2>1, <2>2 DEF TypeOK
  <2>4. TaskStep(s, v)
    BY <1>4, <1>5, <1>6, <1>8, <2>1, <2>2 DEF TaskStep
  <2>5. KeysMatch'
    BY <2>2 DEF KeysMatch
  <2> QED BY <2>3, <2>4, <2>5, TaskStepSafe DEF Moves
<1> QED BY <1>1, <1>7, <1>8 DEF r, d

LEMMA FeedbackReturnsStep ==
  ASSUME IInv, NEW s \in Step, FeedbackReturns(s)
  PROVE  IInv' /\ Moves(s)
<1> DEFINE to == via[s]
<1>0. TypeOK /\ Found(results) /\ results \in Dict /\ to \in Step
  BY DEF IInv, KeysMatch, TypeOK, FeedbackReturns, Gathering, TasksPersisted
<1>1. PICK pass \in BOOLEAN :
        CheckGate(s, store[s].pass, Put(results, to, Made(to, pass, Zero), FALSE))
  BY DEF FeedbackReturns
<1> DEFINE r == Made(to, pass, Zero)
           d == Put(results, to, r, FALSE)
<1>2. r \in Result /\ r # NoResult
  <2>1. Zero \in [Step -> Nat]
    BY DEF Zero
  <2> QED BY <1>0, <2>1, MadeIsResult
<1>2a. store[s].pass \in BOOLEAN
  BY <1>0 DEF TypeOK, Result
<1> HIDE DEF r
<1>3. /\ d \in Dict /\ Found(d) /\ d.val[to] = r
      /\ \A t \in Step : t # to => d.val[t] = results.val[t]
  <2> HIDE DEF to
  <2>1. d \in Dict
    BY <1>0, <1>2, PutMade
  <2>3. d.val[to] = r
    BY <1>0 DEF Put, Dict
  <2>2. Found(d)
    BY <1>0, <1>2, PutMade
  <2>4. ASSUME NEW t \in Step, t # to
        PROVE  d.val[t] = results.val[t]
    BY <1>0, <2>4 DEF Put, Dict
  <2> QED BY <2>1, <2>2, <2>3, <2>4
<1>4. /\ run' = run /\ resolved' = resolved /\ runs' = runs /\ s \in InFlight
      /\ run = "running" /\ UNCHANGED <<via, fired, store>> /\ pc[s] = "loop"
  BY <1>0 DEF FeedbackReturns, TypeOK, Gathering, InFlight
<1>5. calls' \in [Step -> Nat]
  BY <1>0 DEF FeedbackReturns, TypeOK
<1>6. CheckGate(s, store[s].pass, d)
  BY <1>1 DEF r
<1> HIDE DEF d
<1>7. PICK v \in {"done", "paused", "retry", "failed"} :
            /\ pc' = [pc EXCEPT ![s] = v]
            /\ v # "failed" => results' = d
            /\ v = "paused" => Gate[s] = "approval" /\ approval'[s] = "pending"
  BY <1>0, <1>2, <1>2a, <1>3, <1>6, GateStep
<1>8. /\ results' \in Dict /\ Found(results')
      /\ \A t \in Step : t # s => approval'[t] = approval[t]
      /\ input' \in [Step -> [Step -> Nat]] /\ poisoned' \in SUBSET Step
      /\ attempt' \in [Step -> Nat]
      /\ approval' \in [Step -> {"none", "pending", "approved"}]
  BY <1>0, <1>2, <1>2a, <1>3, <1>6, GateStep
<1>9. TypeOK'
  BY <1>0, <1>4, <1>5, <1>7, <1>8 DEF TypeOK
<1>10. store[s] # NoResult
  BY <1>4 DEF IInv, TasksPersisted
<1>11. v # "failed" => Present \subseteq Present' /\ s \in HadResult
  <2>1. s \in HadResult
    BY <1>4 DEF HadResult
  <2> QED BY <2>1, <1>2, <1>3, <1>7 DEF Present
<1>12. TaskStep(s, v)
  BY <1>4, <1>7, <1>8, <1>10, <1>11 DEF TaskStep
<1>13. KeysMatch'
  BY <1>8 DEF KeysMatch
<1> QED BY <1>9, <1>12, <1>13, TaskStepSafe DEF Moves

LEMMA RetryReturnsStep ==
  ASSUME IInv, NEW s \in Step, RetryReturns(s)
  PROVE  IInv' /\ Moves(s)
<1>0. TypeOK /\ Found(results) /\ results \in Dict
  BY DEF IInv, KeysMatch, TypeOK
<1>1. PICK pass \in BOOLEAN : results' = Put(results, s, Made(s, pass, input[s]), FALSE)
  BY DEF RetryReturns
<1> DEFINE r == Made(s, pass, input[s])
<1>2. r \in Result /\ r # NoResult
  BY <1>0, MadeIsResult DEF TypeOK
<1> HIDE DEF r
<1>3. results' = Put(results, s, r, FALSE)
  BY <1>1 DEF r
<1>4. /\ results' \in Dict /\ Found(results') /\ results'.val[s] = r
      /\ \A t \in Step : t # s => results'.val[t] = results.val[t]
  <2>1. results' \in Dict /\ Found(results') /\ results'.val[s] = r
    BY <1>0, <1>2, <1>3, PutMade
  <2>2. ASSUME NEW t \in Step, t # s
        PROVE  results'.val[t] = results.val[t]
    BY <1>0, <1>3, <2>2 DEF Put, Dict
  <2> QED BY <2>1, <2>2
<1>5. /\ run' = run /\ resolved' = resolved /\ runs' = runs /\ s \in InFlight
      /\ run = "running" /\ UNCHANGED <<via, fired, store, approval, input, poisoned>>
      /\ pc[s] = "retry"
  BY <1>0 DEF RetryReturns, TypeOK, Gathering, InFlight, disk
<1>6. calls' \in [Step -> Nat]  /\ attempt' \in [Step -> Nat]
  BY <1>0 DEF RetryReturns, TypeOK
<1>7. PICK v \in {"done", "retry", "failed"} : pc' = [pc EXCEPT ![s] = v]
  <2>1. pc = [pc EXCEPT ![s] = "retry"]
    BY <1>0, <1>5 DEF TypeOK
  <2> QED BY <2>1 DEF RetryReturns
<1>8. TypeOK'
  BY <1>0, <1>4, <1>5, <1>6, <1>7 DEF TypeOK
<1>9. Present \cup {s} \subseteq Present' /\ store[s] # NoResult
  BY <1>2, <1>4, <1>5 DEF Present, IInv, TasksPersisted
<1>10. TaskStep(s, v)
  BY <1>5, <1>7, <1>9 DEF TaskStep
<1>11. KeysMatch'
  BY <1>4 DEF KeysMatch
<1> QED BY <1>8, <1>10, <1>11, TaskStepSafe DEF Moves

LEMMA CallRaisesStep ==
  ASSUME IInv, NEW s \in Step, CallRaises(s)
  PROVE  IInv' /\ Moves(s)
<1>1. /\ pc' = [pc EXCEPT ![s] = "failed"] /\ run = "running" /\ s \in InFlight
      /\ UNCHANGED <<run, resolved, results, input, poisoned, attempt, via, fired,
                     store, approval, calls, runs>>
  BY DEF CallRaises, Gathering, task, disk
<1>2. TypeOK'
  BY <1>1 DEF IInv, TypeOK
<1>3. TaskStep(s, "failed")
  BY <1>1 DEF TaskStep
<1>4. KeysMatch'
  BY <1>1 DEF IInv, KeysMatch, Found
<1> QED BY <1>2, <1>3, <1>4, TaskStepSafe DEF Moves

-----------------------------------------------------------------------------
(***************************************************************************)
(* The actions of the engine between the tasks, of the store and of the    *)
(* world around the engine.                                                *)
(***************************************************************************)
LEMMA InitIInv == Init => IInv
<1> SUFFICES ASSUME Init PROVE IInv
  OBVIOUS
<1>1. NoResult \in Result /\ Zero \in [Step -> Nat]
  BY DEF NoResult, Result, Zero
<1>2. EmptyDict \in Dict
  BY <1>1 DEF EmptyDict, Dict
<1>3. TypeOK
  BY <1>1, <1>2 DEF Init, TypeOK, NoStore, NoApprovals, Zero
<1>4. KeysMatch
  BY DEF Init, KeysMatch, Found, EmptyDict
<1> QED BY <1>3, <1>4 DEF Init, IInv, NotStarted, DepsEndedWell, DroppedOnlyIfDoomed,
           HadResult, Finished, NoOrphans, TasksPersisted, PauseHasRecord

LEMMA BeginStep == ASSUME IInv, Begin PROVE IInv'
<1>1. /\ run = "idle" /\ run' \in {"running", "error"}
      /\ UNCHANGED <<resolved, pc, results, input, poisoned, attempt, via, fired,
                     store, approval, calls, runs>>
  BY DEF Begin, task, disk
<1>2. InFlight' = {}
  BY <1>1 DEF IInv, NotStarted, InFlight
<1>3. TypeOK' /\ KeysMatch' /\ DepsEndedWell' /\ DroppedOnlyIfDoomed'
  BY <1>1 DEF IInv, TypeOK, KeysMatch, Found, DepsEndedWell, DroppedOnlyIfDoomed,
              HadResult, Present, Finished, Layer
<1> QED BY <1>1, <1>2, <1>3 DEF IInv, NotStarted, NoOrphans, InFlight, TasksPersisted, PauseHasRecord

LEMMA VisitStep == ASSUME IInv, NEW s \in Step, Visit(s) PROVE IInv'
<1>0. TypeOK /\ Found(results) /\ results \in Dict /\ s \in Layer /\ pc[s] = "new"
  BY DEF IInv, KeysMatch, TypeOK, Visit, Unvisited, First
<1>1. /\ run = "running"
      /\ UNCHANGED <<run, resolved, fired, store, approval, calls, runs>>
      /\ UNCHANGED <<attempt, via>>
  BY DEF Visit, Skip, Launch, task, disk
<1>2. Layer' = Layer
  BY <1>1 DEF Layer
<1>3. PICK v \in {"restored", "run"} : pc' = [pc EXCEPT ![s] = v]
  BY DEF Visit, Skip, Launch
<1>4. pc'[s] = v /\ \A t \in Step : t # s => pc'[t] = pc[t]
  BY <1>0, <1>3 DEF TypeOK
<1>5. /\ results' \in Dict /\ Found(results')
      /\ v = "restored" => s \in Present'
      /\ Present \subseteq Present'
      /\ input' \in [Step -> [Step -> Nat]] /\ poisoned' \in SUBSET Step
  <2>1. CASE Skip(s)
    <3> DEFINE b == StoreKind = "file"
    <3>1. store[s] \in Result /\ b \in BOOLEAN /\ results' = Put(results, s, store[s], b)
      BY <2>1, <1>0 DEF TypeOK, Skip
    <3> HIDE DEF b
    <3>2. results' \in Dict /\ Found(results') /\ results'.val[s] = store[s]
      BY <1>0, <3>1, PutDict
    <3>3. ASSUME NEW t \in Step, t # s
          PROVE  results'.val[t] = results.val[t]
      BY <1>0, <3>1, <3>3 DEF Put, Dict
    <3>4. store[s] # NoResult /\ UNCHANGED <<input, poisoned>>
      BY <2>1 DEF Skip, Saved, task
    <3> QED BY <1>0, <3>2, <3>3, <3>4 DEF Present, TypeOK
  <2>2. CASE Launch(s)
    <3>1. input' \in [Step -> [Step -> Nat]] /\ poisoned' \in SUBSET Step
      BY <2>2, <1>0, HandedType DEF Launch
    <3>2. results' = results /\ pc' = [pc EXCEPT ![s] = "run"]
      BY <2>2 DEF Launch
    <3>3. v = "run"
      BY <3>2, <1>4, <1>0 DEF TypeOK
    <3> QED BY <1>0, <3>1, <3>2, <3>3 DEF Present
  <2> QED BY <2>1, <2>2 DEF Visit
<1>6. TypeOK'
  BY <1>0, <1>1, <1>3, <1>5 DEF TypeOK
<1>7. DepsEndedWell'
  <2>1. Deps[s] \subseteq resolved
    BY <1>0 DEF Layer
  <2>2. Finished \subseteq Finished'
    BY <1>0, <1>4 DEF Finished
  <2> QED BY <1>1, <1>4, <2>1, <2>2 DEF IInv, DepsEndedWell
<1>8. DroppedOnlyIfDoomed'
  <2> SUFFICES ASSUME NEW u \in (HadResult \ Present)'
               PROVE  \E t \in Layer : pc'[t] = "failed"
    BY <1>2 DEF DroppedOnlyIfDoomed
  <2>1. u \in HadResult \ Present
    BY <1>4, <1>5 DEF HadResult
  <2>2. PICK t \in Layer : pc[t] = "failed"
    BY <2>1 DEF IInv, DroppedOnlyIfDoomed
  <2> QED BY <2>2, <1>0, <1>4 DEF Layer
<1>9. TasksPersisted'
  BY <1>1, <1>4 DEF IInv, TasksPersisted
<1> QED BY <1>1, <1>5, <1>6, <1>7, <1>8, <1>9
        DEF IInv, KeysMatch, NotStarted, NoOrphans, PauseHasRecord

LEMMA EndLayerStep == ASSUME IInv, EndLayer PROVE IInv'
<1>0. /\ TypeOK /\ run = "running" /\ InFlight = {} /\ Unvisited = {}
      /\ UNCHANGED <<pc, results, input, poisoned, attempt, via, fired,
                     store, approval, calls, runs>>
  BY DEF IInv, EndLayer, Gathering, Awaited, task, disk
<1>1. InFlight' = {} /\ Finished' = Finished /\ KeysMatch' /\ Present' = Present
  BY <1>0 DEF IInv, InFlight, Finished, KeysMatch, Found, Present
<1>2. CASE Layer \cap Raised = {}
  <2>1. /\ resolved' = resolved \cup Layer
        /\ run' \in {"completed", "running"}
        /\ run' = "completed" => resolved' = Step
    BY <1>2 DEF EndLayer
  <2>2. Layer \subseteq Finished
    <3> SUFFICES ASSUME NEW s \in Layer PROVE s \in Finished
      OBVIOUS
    <3>1. s \in Step /\ pc[s] # "new" /\ s \notin InFlight /\ s \notin Raised
      BY <1>0, <1>2 DEF Layer, Unvisited
    <3> QED BY <3>1, <1>0 DEF TypeOK, InFlight, Raised, Finished
  <2>3. TypeOK'
    <3>1. Layer \subseteq Step /\ resolved \subseteq Step
      BY <1>0 DEF TypeOK, Layer
    <3>2. resolved' \in SUBSET Step
      BY <2>1, <3>1
    <3>3. run' \in {"idle", "running", "completed", "error", "paused", "down", "hung"}
      BY <2>1
    <3> QED BY <1>0, <3>2, <3>3 DEF TypeOK
  <2>4. DepsEndedWell'
    BY <1>0, <1>1, <2>1, <2>2 DEF IInv, DepsEndedWell
  <2>5. DroppedOnlyIfDoomed'
    <3>1. HadResult \subseteq Present
      BY <1>2 DEF IInv, DroppedOnlyIfDoomed, Raised, Layer
    <3> QED BY <3>1, <1>0, <1>1 DEF DroppedOnlyIfDoomed, HadResult
  <2>6. TasksPersisted'
    BY <1>0 DEF IInv, TasksPersisted
  <2>7. NotStarted' /\ NoOrphans' /\ PauseHasRecord'
    BY <1>1, <2>1 DEF NotStarted, NoOrphans, InFlight, PauseHasRecord
  <2>8. (run = "completed" => resolved = Step)'
    BY <2>1
  <2> QED BY <1>1, <2>3, <2>4, <2>5, <2>6, <2>7, <2>8 DEF IInv
<1>3. CASE Layer \cap Raised # {}
  <2>0. resolved' = resolved
    BY <1>3 DEF EndLayer
  <2>1. PICK first \in Step : run' = IF pc[first] = "paused" THEN "paused" ELSE "error"
    BY <1>3 DEF EndLayer, Raised
  <2>2. Layer' = Layer
    BY <2>0 DEF Layer
  <2>3. TypeOK' /\ DepsEndedWell' /\ DroppedOnlyIfDoomed' /\ TasksPersisted'
    BY <1>0, <1>1, <2>0, <2>1, <2>2
       DEF IInv, TypeOK, DepsEndedWell, DroppedOnlyIfDoomed, HadResult, TasksPersisted
  <2>4. PauseHasRecord'
    <3> SUFFICES ASSUME run' = "paused" PROVE PauseHasRecord'
      BY DEF PauseHasRecord
    <3>1. pc[first] = "paused"
      BY <2>1
    <3> QED BY <1>0, <3>1 DEF IInv, TasksPersisted, PauseHasRecord
  <2> QED BY <1>1, <2>1, <2>3, <2>4 DEF IInv, NotStarted, NoOrphans, InFlight
<1> QED BY <1>2, <1>3

LEMMA ApproveStep == ASSUME IInv, NEW s \in Step, Approve(s) PROVE IInv'
<1>1. /\ approval' = [approval EXCEPT ![s] = "approved"]
      /\ UNCHANGED <<run, resolved, pc, results, input, poisoned, attempt, via, fired,
                     store, calls, runs>>
  BY DEF Approve, task
<1>2. TypeOK /\ TypeOK'
  BY <1>1 DEF IInv, TypeOK
<1>3. \A t \in Step : approval'[t] \in {approval[t], "approved"}
  BY <1>1, <1>2 DEF TypeOK
<1>4. KeysMatch' /\ NotStarted' /\ DepsEndedWell' /\ DroppedOnlyIfDoomed' /\ NoOrphans'
  BY <1>1 DEF IInv, KeysMatch, Found, NotStarted, DepsEndedWell, DroppedOnlyIfDoomed,
              HadResult, Present, Finished, Layer, NoOrphans, InFlight
<1>5. TasksPersisted'
  BY <1>1, <1>3 DEF IInv, TasksPersisted
<1>6. PauseHasRecord'
  BY <1>1, <1>3 DEF IInv, PauseHasRecord
<1> QED BY <1>1, <1>2, <1>4, <1>5, <1>6 DEF IInv

LEMMA HookHangsStep == ASSUME IInv, NEW s \in Step, HookHangs(s) PROVE IInv'
<1>1. /\ run' = "hung" /\ run = "running"
      /\ UNCHANGED <<resolved, pc, results, input, poisoned, attempt, via, fired,
                     store, approval, calls, runs>>
  BY DEF HookHangs, Gathering, task, disk
<1>2. TypeOK'
  BY <1>1 DEF IInv, TypeOK
<1>3. KeysMatch' /\ NotStarted' /\ DepsEndedWell' /\ DroppedOnlyIfDoomed'
  BY <1>1 DEF IInv, KeysMatch, Found, NotStarted, DepsEndedWell, DroppedOnlyIfDoomed,
              HadResult, Present, Finished, Layer
<1>4. TasksPersisted'
  BY <1>1 DEF IInv, TasksPersisted
<1> QED BY <1>1, <1>2, <1>3, <1>4 DEF IInv, NoOrphans, PauseHasRecord

LEMMA CrashStep == ASSUME IInv, Crash \/ \E s \in Step : CrashAfterSave(s) PROVE IInv'
<1>1. /\ run' = "down"
      /\ UNCHANGED <<resolved, pc, results, input, poisoned, attempt, via, fired,
                     runs>>
  BY DEF Crash, CrashAfterSave, task
<1>2. NoResult \in Result /\ Zero \in [Step -> Nat]
  BY DEF NoResult, Result, Zero
<1>3. TypeOK'
  <2>1. CASE Crash
    BY <1>1, <1>2, <2>1 DEF IInv, TypeOK, Crash, NoStore, NoApprovals
  <2>2. CASE \E s \in Step : CrashAfterSave(s)
    <3>1. PICK s \in Step : CrashAfterSave(s)
      BY <2>2
    <3>2. store' \in [Step -> Result]
      BY <3>1, MadeIsResult DEF IInv, TypeOK, CrashAfterSave
    <3> QED BY <1>1, <3>1, <3>2 DEF IInv, TypeOK, CrashAfterSave
  <2> QED BY <2>1, <2>2
<1>4. KeysMatch' /\ NotStarted' /\ DepsEndedWell' /\ DroppedOnlyIfDoomed'
  BY <1>1 DEF IInv, KeysMatch, Found, NotStarted, DepsEndedWell, DroppedOnlyIfDoomed,
              HadResult, Present, Finished, Layer
<1> QED BY <1>1, <1>3, <1>4 DEF IInv, NoOrphans, TasksPersisted, PauseHasRecord

LEMMA ResumeStep == ASSUME IInv, Resume PROVE IInv'
<1>1. NoResult \in Result /\ Zero \in [Step -> Nat]
  BY DEF NoResult, Result, Zero
<1>2. EmptyDict \in Dict
  BY <1>1 DEF EmptyDict, Dict
<1>3. store' \in [Step -> Result] /\ approval' \in [Step -> {"none", "pending", "approved"}]
  BY <1>1 DEF IInv, TypeOK, Resume, NoStore, NoApprovals
<1>4. TypeOK'
  BY <1>1, <1>2, <1>3 DEF IInv, TypeOK, Resume, Zero
<1>5. KeysMatch'
  BY DEF Resume, KeysMatch, Found, EmptyDict
<1> QED BY <1>4, <1>5 DEF Resume, IInv, NotStarted, DepsEndedWell, DroppedOnlyIfDoomed,
           HadResult, Finished, NoOrphans, TasksPersisted, PauseHasRecord

-----------------------------------------------------------------------------
(* Every step of the engine preserves the invariant.                        *)
LEMMA NextStep == ASSUME IInv, [Next]_vars PROVE IInv'
<1>1. CASE Begin
  BY <1>1, BeginStep
<1>2. CASE \E s \in Step : StepNext(s)
  <2>1. PICK s \in Step : StepNext(s)
    BY <1>2
  <2>2. CASE Visit(s)
    BY <2>2, VisitStep
  <2>3. CASE CallReturns(s)
    BY <2>3, CallReturnsStep
  <2>4. CASE FeedbackReturns(s)
    BY <2>4, FeedbackReturnsStep
  <2>5. CASE RetryReturns(s)
    BY <2>5, RetryReturnsStep
  <2>6. CASE CallRaises(s)
    BY <2>6, CallRaisesStep
  <2>7. CASE Approve(s)
    BY <2>7, ApproveStep
  <2>8. CASE CrashAfterSave(s)
    BY <2>8, CrashStep
  <2>9. CASE HookHangs(s)
    BY <2>9, HookHangsStep
  <2> QED BY <2>1, <2>2, <2>3, <2>4, <2>5, <2>6, <2>7, <2>8, <2>9 DEF StepNext
<1>3. CASE EndLayer
  BY <1>3, EndLayerStep
<1>4. CASE Crash
  BY <1>4, CrashStep
<1>5. CASE Resume
  BY <1>5, ResumeStep
<1>6. CASE UNCHANGED vars
  BY <1>6 DEF vars, task, disk, IInv, TypeOK, KeysMatch, Found, NotStarted, DepsEndedWell,
              DroppedOnlyIfDoomed, HadResult, Present, Finished, InFlight, Layer,
              NoOrphans, TasksPersisted, PauseHasRecord
<1> QED BY <1>1, <1>2, <1>3, <1>4, <1>5, <1>6 DEF Next, Over

(* The invariant holds throughout: of every workflow, under any order of    *)
(* returns of its agents, with crashes, approvals and resumed runs.         *)
THEOREM Invariance == Spec => []IInv
<1>1. Init => IInv
  BY InitIInv
<1>2. IInv /\ [Next]_vars => IInv'
  BY NextStep
<1> QED BY <1>1, <1>2, PTL DEF Spec

(* No step of the engine takes a variable out of its type.                  *)
THEOREM TypeCorrect == Spec => []TypeOK
<1>1. IInv => TypeOK
  BY DEF IInv
<1> QED BY <1>1, Invariance, PTL

(* A step is visited only after the layers of all its dependencies have     *)
(* ended well, however the tasks of the layers are interleaved.             *)
THEOREM LayersInOrder == Spec => []DepsEndedWell
<1>1. IInv => DepsEndedWell
  BY DEF IInv
<1> QED BY <1>1, Invariance, PTL

(* A rollback that deletes the results of concurrent siblings dooms the     *)
(* run: a result is missing only while a task of the layer has failed.      *)
THEOREM RollbackDooms == Spec => []DroppedOnlyIfDoomed
<1>1. IInv => DroppedOnlyIfDoomed
  BY DEF IInv
<1> QED BY <1>1, Invariance, PTL

(* `completed` is reported with the result of every step: no rollback,      *)
(* loop, retry or resumption leaves a completed run without one.            *)
THEOREM CompletedRunHasAllResults == Spec => []CompletedHasAll
<1>1. IInv => CompletedHasAll
  <2> SUFFICES ASSUME IInv, run = "completed" PROVE Present = Step
    BY DEF CompletedHasAll
  <2>1. Finished = Step /\ Layer = {}
    BY DEF IInv, DepsEndedWell, Finished, Layer
  <2>2. HadResult = Step
    BY <2>1 DEF Finished, HadResult
  <2> QED BY <2>1, <2>2 DEF IInv, DroppedOnlyIfDoomed, Present
<1> QED BY <1>1, Invariance, PTL

(* When execute_dag returns or raises no agent of its is still at work.     *)
THEOREM GatherLeavesNoOrphans == Spec => []NoOrphans
<1>1. IInv => NoOrphans
  BY DEF IInv
<1> QED BY <1>1, Invariance, PTL

(* A caller told to wait for an approval finds the request in the store.    *)
THEOREM PausedRunHasRequest == Spec => []PauseHasRecord
<1>1. IInv => PauseHasRecord
  BY DEF IInv
<1> QED BY <1>1, Invariance, PTL

(* Whatever execute_dag reports holds: completed, paused or failed, after    *)
(* rollbacks of siblings, crashes and resumed runs.                         *)
THEOREM ReportedOutcomeHolds == Spec => []OutcomeHolds
<1>1. CompletedHasAll /\ NoOrphans /\ PauseHasRecord => OutcomeHolds
  BY DEF OutcomeHolds
<1> QED BY <1>1, CompletedRunHasAllResults, GatherLeavesNoOrphans, PausedRunHasRequest, PTL

-----------------------------------------------------------------------------
(***************************************************************************)
(* The engine implements the contract of WorkflowContract: a skip or a     *)
(* gate that passes finishes a step, the end of the last layer or of a     *)
(* failed one reports, and everything else is invisible to the caller.     *)
(***************************************************************************)
LEMMA MovesFinish ==
  ASSUME IInv, NEW s \in Step, Moves(s)
  PROVE  Contract!Finish(s) \/ UNCHANGED Contract!vars
<1>1. PICK v \in {"loop", "done", "paused", "retry", "failed"} : TaskStep(s, v)
  BY DEF Moves
<1>2. s \in Step /\ s \notin Finished /\ run = "running" /\ run' = run
  BY <1>1 DEF TaskStep, InFlight, Finished
<1>3. Finished' = IF v = "done" THEN Finished \cup {s} ELSE Finished
  <2>1. pc \in [Step -> {"new", "run", "loop", "retry", "done", "restored", "failed", "paused"}]
    BY DEF IInv, TypeOK
  <2>2. pc'[s] = v /\ \A t \in Step : t # s => pc'[t] = pc[t]
    BY <1>1, <2>1 DEF TaskStep
  <2> QED BY <1>2, <2>2 DEF Finished
<1>4. Deps[s] \subseteq Finished
  BY <1>1 DEF IInv, DepsEndedWell, TaskStep, InFlight
<1> QED BY <1>2, <1>3, <1>4 DEF Contract!Finish, Contract!vars

LEMMA VisitFinishes ==
  ASSUME IInv, NEW s \in Step, Visit(s)
  PROVE  Contract!Finish(s) \/ UNCHANGED Contract!vars
<1>1. s \in Layer /\ pc[s] = "new" /\ run = "running" /\ run' = run
  BY DEF Visit, Unvisited, First
<1>2. PICK v \in {"restored", "run"} : pc' = [pc EXCEPT ![s] = v]
  BY DEF Visit, Skip, Launch
<1>3. Finished' = IF v = "restored" THEN Finished \cup {s} ELSE Finished
  <2>1. pc \in [Step -> {"new", "run", "loop", "retry", "done", "restored", "failed", "paused"}]
    BY DEF IInv, TypeOK
  <2>2. pc'[s] = v /\ \A t \in Step : t # s => pc'[t] = pc[t]
    BY <1>2, <2>1
  <2> QED BY <1>1, <2>2 DEF Finished
<1>4. s \notin Finished /\ Deps[s] \subseteq Finished
  BY <1>1 DEF IInv, DepsEndedWell, Layer, Finished
<1> QED BY <1>1, <1>3, <1>4 DEF Contract!Finish, Contract!vars

LEMMA EndLayerReports ==
  ASSUME IInv, IInv', EndLayer
  PROVE  Contract!Report \/ UNCHANGED Contract!vars
<1>1. run = "running" /\ Finished' = Finished
  BY DEF EndLayer, Gathering, Finished
<1>2. run' \in {"running", "completed", "paused", "error"}
  BY DEF EndLayer, Raised
<1>3. run' = "completed" => Finished = Step
  BY <1>1 DEF IInv, DepsEndedWell, Finished
<1> QED BY <1>1, <1>2, <1>3 DEF Contract!Report, Contract!Ending, Contract!Outcome, Contract!vars

LEMMA RefinesNext ==
  ASSUME IInv, IInv', [Next]_vars
  PROVE  [Contract!Next]_(Contract!vars)
<1>1. CASE Begin
  BY <1>1 DEF Begin, Finished, Contract!Next, Contract!Start
<1>2. CASE \E s \in Step : StepNext(s)
  <2>1. PICK s \in Step : StepNext(s)
    BY <1>2
  <2>2. CASE Visit(s)
    BY <2>2, VisitFinishes DEF Contract!Next
  <2>3. CASE CallReturns(s) \/ FeedbackReturns(s) \/ RetryReturns(s) \/ CallRaises(s)
    <3>1. Moves(s)
      BY <2>3, CallReturnsStep, FeedbackReturnsStep, RetryReturnsStep, CallRaisesStep
    <3> QED BY <3>1, MovesFinish DEF Contract!Next
  <2>4. CASE Approve(s)
    BY <2>4 DEF Approve, Finished, Contract!vars
  <2>5. CASE CrashAfterSave(s)
    BY <2>5 DEF CrashAfterSave, Gathering, Finished, Contract!Next, Contract!Report,
                Contract!Ending, Contract!Outcome
  <2>6. CASE HookHangs(s)
    BY <2>6 DEF HookHangs, Gathering, Finished, Contract!Next, Contract!Report, Contract!Ending
  <2> QED BY <2>1, <2>2, <2>3, <2>4, <2>5, <2>6 DEF StepNext
<1>3. CASE EndLayer
  BY <1>3, EndLayerReports DEF Contract!Next
<1>4. CASE Crash
  BY <1>4 DEF Crash, Finished, Contract!Next, Contract!Report, Contract!Stop,
              Contract!Ending, Contract!Outcome
<1>5. CASE Resume
  BY <1>5 DEF Resume, Finished, Contract!Next, Contract!Again, Contract!Outcome
<1>6. CASE UNCHANGED vars
  BY <1>6 DEF vars, Finished, Contract!vars
<1> QED BY <1>1, <1>2, <1>3, <1>4, <1>5, <1>6 DEF Next, Over

(* What execute_dag tells its caller, seen from outside, is a behaviour of  *)
(* WorkflowContract: every step finishes once per run, after its            *)
(* dependencies, and only a run with every step finished completes.         *)
THEOREM Refinement == Spec => KeepsContract
<1>1. Init => Contract!Init
  BY DEF Init, Contract!Init, Finished
<1>2. IInv /\ IInv' /\ [Next]_vars => [Contract!Next]_(Contract!vars)
  BY RefinesNext
<1> QED BY <1>1, <1>2, Invariance, PTL DEF Spec, KeepsContract, Contract!Spec

-----------------------------------------------------------------------------
(* A task that retries is at a conditional gate, so only an approval in the  *)
(* store lets one through an approval gate.                                  *)
RetriesAtGates == run # "down" => \A s \in Step : pc[s] = "retry" => Gate[s] \in RetryGate

Approvals == DoneIsApproved /\ RetriesAtGates

LEMMA GateApproves ==
  ASSUME TypeOK, Approvals, run # "down", NEW s \in Step, NEW pass, NEW d, CheckGate(s, pass, d)
  PROVE  Approvals'
<1>1. /\ pc \in [Step -> {"new", "run", "loop", "retry", "done", "restored", "failed", "paused"}]
      /\ DOMAIN approval = Step
  BY DEF TypeOK
<1>2. CASE GatePasses(s, pass, d)
  <2>1. pc' = [pc EXCEPT ![s] = "done"] /\ approval' = approval
    BY <1>2 DEF GatePasses
  <2>2. Gate[s] = "approval" => approval[s] = "approved"
    BY <1>2 DEF GatePasses, MayPass, CondGate, RetryGate
  <2> QED BY <1>1, <2>1, <2>2 DEF Approvals, DoneIsApproved, RetriesAtGates
<1>3. CASE GatePauses(s, d)
  <2>1. pc' = [pc EXCEPT ![s] = "paused"] /\ approval' = [approval EXCEPT ![s] = "pending"]
    BY <1>3 DEF GatePauses, Request
  <2> QED BY <1>1, <2>1 DEF Approvals, DoneIsApproved, RetriesAtGates
<1>4. CASE GateRetries(s, d)
  <2>1. pc' = [pc EXCEPT ![s] = "retry"] /\ approval' = approval /\ Gate[s] \in RetryGate
    BY <1>4 DEF GateRetries
  <2> QED BY <1>1, <2>1 DEF Approvals, DoneIsApproved, RetriesAtGates
<1>5. CASE GateRollsBack(s, d) \/ GateRaises(s, d)
  <2>1. pc' = [pc EXCEPT ![s] = "failed"] /\ approval' = approval
    BY <1>5 DEF GateRollsBack, GateRaises
  <2> QED BY <1>1, <2>1 DEF Approvals, DoneIsApproved, RetriesAtGates
<1> QED BY <1>2, <1>3, <1>4, <1>5 DEF CheckGate

LEMMA ApprovalsStep == ASSUME TypeOK, Approvals, [Next]_vars PROVE Approvals'
<1>0. pc \in [Step -> {"new", "run", "loop", "retry", "done", "restored", "failed", "paused"}]
  BY DEF TypeOK
<1>1. CASE Begin
  <2>1. run # "down" /\ pc' = pc /\ approval' = approval
    BY <1>1 DEF Begin, disk
  <2> QED BY <2>1 DEF Approvals, DoneIsApproved, RetriesAtGates
<1>2. CASE \E s \in Step : StepNext(s)
  <2>0. PICK s \in Step : StepNext(s)
    BY <1>2
  <2>1. CASE Visit(s)
    <3>1. run # "down" /\ approval' = approval
      BY <2>1 DEF Visit, disk
    <3>2. pc' = [pc EXCEPT ![s] = "restored"] \/ pc' = [pc EXCEPT ![s] = "run"]
      BY <2>1 DEF Visit, Skip, Launch
    <3> QED BY <1>0, <3>1, <3>2 DEF Approvals, DoneIsApproved, RetriesAtGates
  <2>2. CASE CallReturns(s)
    <3>1. run # "down"
      BY <2>2 DEF CallReturns, Gathering
    <3>2. PICK pass, d : \/ Feedback(s, d)
                         \/ CheckGate(s, pass, d)
      BY <2>2 DEF CallReturns
    <3>3. CASE Feedback(s, d)
      <4>1. pc' = [pc EXCEPT ![s] = "loop"] /\ approval' = approval
        BY <3>3 DEF Feedback
      <4> QED BY <1>0, <3>1, <4>1 DEF Approvals, DoneIsApproved, RetriesAtGates
    <3> QED BY <3>1, <3>2, <3>3, GateApproves
  <2>3. CASE FeedbackReturns(s)
    <3>1. run # "down"
      BY <2>3 DEF FeedbackReturns, Gathering
    <3>2. PICK pass, d : CheckGate(s, pass, d)
      BY <2>3 DEF FeedbackReturns
    <3> QED BY <3>1, <3>2, GateApproves
  <2>4. CASE RetryReturns(s)
    <3>1. run # "down" /\ pc[s] = "retry" /\ approval' = approval
      BY <2>4 DEF RetryReturns, Gathering, disk
    <3>2. \/ pc' = [pc EXCEPT ![s] = "done"]
          \/ pc' = pc
          \/ pc' = [pc EXCEPT ![s] = "failed"]
      BY <2>4 DEF RetryReturns
    <3>3. Gate[s] # "approval"
      BY <3>1 DEF Approvals, RetriesAtGates, RetryGate
    <3> QED BY <1>0, <3>1, <3>2, <3>3 DEF Approvals, DoneIsApproved, RetriesAtGates
  <2>5. CASE CallRaises(s)
    <3>1. run # "down" /\ pc' = [pc EXCEPT ![s] = "failed"] /\ approval' = approval
      BY <2>5 DEF CallRaises, Gathering, disk
    <3> QED BY <1>0, <3>1 DEF Approvals, DoneIsApproved, RetriesAtGates
  <2>6. CASE Approve(s)
    <3>1. approval \in [Step -> {"none", "pending", "approved"}]
      BY DEF TypeOK
    <3>2. run' = run /\ pc' = pc /\ approval' = [approval EXCEPT ![s] = "approved"]
      BY <2>6 DEF Approve
    <3> QED BY <3>1, <3>2 DEF Approvals, DoneIsApproved, RetriesAtGates
  <2>7. CASE CrashAfterSave(s)
    BY <2>7 DEF CrashAfterSave, Approvals, DoneIsApproved, RetriesAtGates
  <2>8. CASE HookHangs(s)
    <3>1. run # "down" /\ pc' = pc /\ approval' = approval
      BY <2>8 DEF HookHangs, Gathering, disk
    <3> QED BY <3>1 DEF Approvals, DoneIsApproved, RetriesAtGates
  <2> QED BY <2>0, <2>1, <2>2, <2>3, <2>4, <2>5, <2>6, <2>7, <2>8 DEF StepNext
<1>3. CASE EndLayer
  <2>1. run # "down" /\ pc' = pc /\ approval' = approval
    BY <1>3 DEF EndLayer, Gathering, disk
  <2> QED BY <2>1 DEF Approvals, DoneIsApproved, RetriesAtGates
<1>4. CASE Crash
  BY <1>4 DEF Crash, Approvals, DoneIsApproved, RetriesAtGates
<1>5. CASE Resume
  <2>1. \A s \in Step : pc'[s] = "new"
    BY <1>5 DEF Resume
  <2> QED BY <2>1 DEF Approvals, DoneIsApproved, RetriesAtGates
<1>6. CASE UNCHANGED vars
  BY <1>6 DEF vars, disk, Approvals, DoneIsApproved, RetriesAtGates
<1> QED BY <1>1, <1>2, <1>3, <1>4, <1>5, <1>6 DEF Next, Over

(* For any workflow, stores and crashes: a task gets past an approval gate   *)
(* only with the approval of a person in the store, and it stays there.      *)
THEOREM ApprovalsAreGiven == Spec => []DoneIsApproved
<1>1. Init => Approvals
  <2> SUFFICES ASSUME Init PROVE Approvals
    OBVIOUS
  <2>1. \A s \in Step : pc[s] = "new"
    BY DEF Init
  <2> QED BY <2>1 DEF Approvals, DoneIsApproved, RetriesAtGates
<1>2. IInv => TypeOK
  BY DEF IInv
<1>3. TypeOK /\ Approvals /\ [Next]_vars => Approvals'
  BY ApprovalsStep
<1>4. Approvals => DoneIsApproved
  BY DEF Approvals
<1> QED BY <1>1, <1>2, <1>3, <1>4, Invariance, PTL DEF Spec

-----------------------------------------------------------------------------
(* Workflows in which nothing is executed twice on purpose.                  *)
NoRepeats ==
  /\ StoreKind = "file" /\ Loops = {}
  /\ \A s \in Step : Gate[s] \in RetryGate => MaxRetries[s] = 0

(* What has been made is in the store, and what is being made is not.        *)
WorkIsSaved ==
  \A s \in Step :
    /\ calls[s] = 0 \/ (calls[s] = 1 /\ store[s] # NoResult)
    /\ run # "down" => /\ pc[s] \notin {"loop", "retry"}
                       /\ pc[s] = "run" => calls[s] = 0

LEMMA WorkIsSavedStep ==
  ASSUME TypeOK, NoRepeats, WorkIsSaved, [Next]_vars
  PROVE  WorkIsSaved'
<1>0. /\ pc \in [Step -> {"new", "run", "loop", "retry", "done", "restored", "failed", "paused"}]
      /\ calls \in [Step -> Nat] /\ DOMAIN store = Step
  BY DEF TypeOK
<1>1. CASE Begin
  <2>1. run # "down" /\ pc' = pc /\ store' = store /\ calls' = calls
    BY <1>1 DEF Begin, disk
  <2> QED BY <2>1 DEF WorkIsSaved
<1>2. CASE \E s \in Step : StepNext(s)
  <2>0. PICK s \in Step : StepNext(s)
    BY <1>2
  <2>1. CASE Visit(s)
    <3>1. run # "down" /\ store' = store /\ calls' = calls
      BY <2>1 DEF Visit, disk
    <3>2. \/ pc' = [pc EXCEPT ![s] = "restored"]
          \/ pc' = [pc EXCEPT ![s] = "run"] /\ store[s] = NoResult
      BY <2>1 DEF Visit, Skip, Launch, Saved
    <3> QED BY <1>0, <3>1, <3>2 DEF WorkIsSaved
  <2>2. CASE CallReturns(s)
    <3>1. run # "down" /\ pc[s] = "run" /\ calls' = [calls EXCEPT ![s] = @ + 1]
      BY <2>2 DEF CallReturns, Gathering
    <3>0. PICK pass \in BOOLEAN :
             /\ store' = [store EXCEPT ![s] = Made(s, pass, input[s])]
             /\ \/ Feedback(s, Put(results, s, Made(s, pass, input[s]), FALSE))
                \/ CheckGate(s, pass, Put(results, s, Made(s, pass, input[s]), FALSE))
      BY <2>2 DEF CallReturns
    <3>2. PICK d : Feedback(s, d) \/ CheckGate(s, pass, d)
      BY <3>0
    <3>3. Made(s, pass, input[s]) # NoResult
      <4>1. input[s] \in [Step -> Nat]
        BY DEF TypeOK
      <4> QED BY <4>1, MadeIsResult
    <3>4. ~Feedback(s, d) /\ ~GateRetries(s, d)
      BY DEF NoRepeats, Feedback, GateRetries
    <3>5. \E v \in {"done", "paused", "failed"} : pc' = [pc EXCEPT ![s] = v]
      BY <3>2, <3>4 DEF CheckGate, GatePasses, GatePauses, GateRollsBack, GateRaises
    <3>6. calls[s] = 0
      BY <3>1 DEF WorkIsSaved
    <3> QED BY <1>0, <3>0, <3>1, <3>3, <3>5, <3>6 DEF WorkIsSaved
  <2>3. CASE FeedbackReturns(s) \/ RetryReturns(s)
    <3>1. run # "down" /\ pc[s] \in {"loop", "retry"}
      BY <2>3 DEF FeedbackReturns, RetryReturns, Gathering
    <3> QED BY <3>1 DEF WorkIsSaved
  <2>4. CASE CallRaises(s)
    <3>1. /\ run # "down" /\ pc' = [pc EXCEPT ![s] = "failed"]
          /\ store' = store /\ calls' = calls
      BY <2>4 DEF CallRaises, Gathering, disk
    <3> QED BY <1>0, <3>1 DEF WorkIsSaved
  <2>5. CASE Approve(s)
    <3>1. run' = run /\ pc' = pc /\ store' = store /\ calls' = calls
      BY <2>5 DEF Approve
    <3> QED BY <3>1 DEF WorkIsSaved
  <2>6. CASE CrashAfterSave(s)
    <3>1. /\ run # "down" /\ run' = "down" /\ pc[s] = "run" /\ pc' = pc
          /\ calls' = [calls EXCEPT ![s] = @ + 1]
      BY <2>6 DEF CrashAfterSave, Gathering
    <3>2. PICK pass \in BOOLEAN : store' = [store EXCEPT ![s] = Made(s, pass, input[s])]
      BY <2>6 DEF CrashAfterSave
    <3>3. Made(s, pass, input[s]) # NoResult
      <4>1. input[s] \in [Step -> Nat]
        BY DEF TypeOK
      <4> QED BY <4>1, MadeIsResult
    <3>4. calls[s] = 0
      BY <3>1 DEF WorkIsSaved
    <3> QED BY <1>0, <3>1, <3>2, <3>3, <3>4 DEF WorkIsSaved
  <2>7. CASE HookHangs(s)
    <3>1. run # "down" /\ pc' = pc /\ store' = store /\ calls' = calls
      BY <2>7 DEF HookHangs, Gathering, disk
    <3> QED BY <3>1 DEF WorkIsSaved
  <2> QED BY <2>0, <2>1, <2>2, <2>3, <2>4, <2>5, <2>6, <2>7 DEF StepNext
<1>3. CASE EndLayer
  <2>1. run # "down" /\ pc' = pc /\ store' = store /\ calls' = calls
    BY <1>3 DEF EndLayer, Gathering, disk
  <2> QED BY <2>1 DEF WorkIsSaved
<1>4. CASE Crash
  <2>1. run' = "down" /\ store' = store /\ calls' = calls
    BY <1>4 DEF Crash, NoRepeats
  <2> QED BY <2>1 DEF WorkIsSaved
<1>5. CASE Resume
  <2>1. store' = store /\ calls' = calls /\ \A s \in Step : pc'[s] = "new"
    BY <1>5 DEF Resume, NoRepeats
  <2> QED BY <2>1 DEF WorkIsSaved
<1>6. CASE UNCHANGED vars
  BY <1>6 DEF vars, disk, WorkIsSaved
<1> QED BY <1>1, <1>2, <1>3, <1>4, <1>5, <1>6 DEF Next, Over

(* For any workflow without retries and loops over files: what is saved is   *)
(* not made again, in however many runs and crashes, also where a process    *)
(* died between the save and the gate.                                       *)
THEOREM SavedOnce == NoRepeats /\ Spec => []SavedWorkNotRedone
<1> SUFFICES ASSUME NoRepeats PROVE Spec => []SavedWorkNotRedone
  OBVIOUS
<1>1. Init => WorkIsSaved
  BY DEF Init, WorkIsSaved, Zero
<1>2. IInv => TypeOK
  BY DEF IInv
<1>3. TypeOK /\ WorkIsSaved /\ [Next]_vars => WorkIsSaved'
  BY WorkIsSavedStep
<1>4. WorkIsSaved => SavedWorkNotRedone
  BY DEF WorkIsSaved, SavedWorkNotRedone
<1> QED BY <1>1, <1>2, <1>3, <1>4, Invariance, PTL DEF Spec

-----------------------------------------------------------------------------
(* Workflows in which only a step itself writes its result: no rollback, no  *)
(* feedback loop, and every run with a store of its own.                     *)
OwnResults ==
  /\ StoreKind = "fresh" /\ Loops = {}
  /\ \A s \in Step : Gate[s] # "rollback"

(* A step that is done has what its gate asks for, made from what its        *)
(* dependencies have; one at work has been handed that.                      *)
AtWork == {s \in Step : pc[s] \in {"run", "retry"}}
Judged(s)  == Gate[s] \in CondGate => results.val[s].pass
Based(s)   == \A e \in Deps[s] : results.val[s].used[e] = results.val[e].ver
Current(s) == \A e \in Deps[s] : /\ input[s][e] = results.val[e].ver
                                 /\ input[s][e] > 0

ResultsAreOwn ==
  /\ run # "down" => \A s \in Step : pc[s] = "new" => store[s] = NoResult
  /\ \A s \in Step : pc[s] \notin {"restored", "loop"}
  /\ \A s \in Step : pc[s] = "done" => results.val[s].ver > 0 /\ Judged(s) /\ Based(s)
  /\ \A s \in AtWork : Current(s)

(* What a step has been handed is final by then.                             *)
LEMMA DependenciesAreDone ==
  ASSUME IInv, ResultsAreOwn, NEW s \in Step, pc[s] # "new", NEW e \in Deps[s]
  PROVE  e \in Step /\ pc[e] = "done"
<1>1. e \in resolved
  BY DEF IInv, DepsEndedWell
<1>2. e \in Finished
  BY <1>1 DEF IInv, DepsEndedWell
<1> QED BY <1>2 DEF Finished, ResultsAreOwn

LEMMA ResultReplaced ==
  ASSUME IInv, ResultsAreOwn, run = "running", run' = run,
         NEW s \in AtWork, NEW pass \in BOOLEAN, NEW v \in {"done", "retry", "paused", "failed"},
         results' = Put(results, s, Made(s, pass, input[s]), FALSE),
         pc' = [pc EXCEPT ![s] = v],
         v = "done" /\ Gate[s] \in CondGate => pass,
         \/ input' = input
         \/ input' = [input EXCEPT ![s] = DepVersions(results', s)],
         \A t \in Step : t # s => store'[t] = store[t]
  PROVE  ResultsAreOwn'
<1>r. PICK r : r = Made(s, pass, input[s])
  OBVIOUS
<1>0. /\ pc \in [Step -> {"new", "run", "loop", "retry", "done", "restored", "failed", "paused"}]
      /\ input \in [Step -> [Step -> Nat]] /\ results \in Dict /\ calls \in [Step -> Nat]
      /\ s \in Step /\ pc[s] # "new" /\ pc[s] # "done"
  BY DEF IInv, TypeOK, AtWork
<1>1. r \in Result
  BY <1>0, <1>r, MadeIsResult DEF IInv
<1>2. r.ver > 0 /\ r.pass = pass /\ r.used = input[s]
  BY <1>0, <1>r DEF Made
<1>3. results'.val[s] = r /\ \A t \in Step : t # s => results'.val[t] = results.val[t]
  <2>1. results' = Put(results, s, r, FALSE)
    BY <1>r
  <2>2. /\ Put(results, s, r, FALSE).val[s] = r
        /\ \A t \in Step : t # s => Put(results, s, r, FALSE).val[t] = results.val[t]
    <3>1. results.val \in [Step -> Result]
      BY <1>0 DEF Dict
    <3>2. Put(results, s, r, FALSE).val = [results.val EXCEPT ![s] = r]
      BY DEF Put
    <3> QED BY <1>0, <3>1, <3>2
  <2> QED BY <2>1, <2>2
<1>4. ASSUME NEW t \in Step, pc[t] # "new", NEW e \in Deps[t]
      PROVE  e \in Step /\ e # s /\ results'.val[e] = results.val[e] /\ results.val[e].ver > 0
  <2>1. e \in Step /\ pc[e] = "done"
    BY <1>4, DependenciesAreDone
  <2> QED BY <1>0, <1>3, <2>1 DEF ResultsAreOwn
<1>5. \A t \in Step : pc'[t] = IF t = s THEN v ELSE pc[t]
  BY <1>0
<1>6. \A t \in Step : pc'[t] = "new" => store'[t] = NoResult
  BY <1>0, <1>5 DEF ResultsAreOwn
<1>7. \A t \in Step : pc'[t] \notin {"restored", "loop"}
  BY <1>0, <1>5 DEF ResultsAreOwn
<1>8. ASSUME NEW t \in Step, pc'[t] = "done"
      PROVE  results'.val[t].ver > 0 /\ Judged(t)' /\ Based(t)'
  <2>1. CASE t = s
    <3>1. v = "done" /\ results'.val[t] = r
      BY <1>3, <1>5, <1>8, <2>1
    <3>2. Judged(t)'
      BY <1>2, <2>1, <3>1 DEF Judged
    <3>3. ASSUME NEW e \in Deps[t] PROVE results'.val[t].used[e] = results'.val[e].ver
      <4>1. results'.val[e] = results.val[e]
        BY <1>0, <1>4, <2>1
      <4>2. input[s][e] = results.val[e].ver
        BY <2>1 DEF ResultsAreOwn, Current
      <4> QED BY <1>2, <2>1, <3>1, <4>1, <4>2
    <3>4. Based(t)'
      BY <3>3 DEF Based
    <3> QED BY <1>2, <3>1, <3>2, <3>4
  <2>2. CASE t # s
    <3>1. pc[t] = "done" /\ results'.val[t] = results.val[t]
      BY <1>3, <1>5, <1>8, <2>2
    <3>2. results.val[t].ver > 0 /\ Judged(t) /\ Based(t)
      BY <3>1 DEF ResultsAreOwn
    <3>3. Judged(t)'
      BY <3>1, <3>2 DEF Judged
    <3>4. Based(t)'
      <4>1. ASSUME NEW e \in Deps[t] PROVE results'.val[t].used[e] = results'.val[e].ver
        <5>1. results'.val[e] = results.val[e]
          BY <1>4, <3>1
        <5> QED BY <3>1, <3>2, <5>1 DEF Based
      <4> QED BY <4>1 DEF Based
    <3> QED BY <3>1, <3>2, <3>3, <3>4
  <2> QED BY <2>1, <2>2
<1>9. ASSUME NEW t \in Step, pc'[t] \in {"run", "retry"}
      PROVE  Current(t)'
  <2>1. pc[t] \in {"run", "retry"} /\ pc[t] # "new"
    BY <1>5, <1>9 DEF AtWork
  <2>2. ASSUME NEW e \in Deps[t]
        PROVE  input'[t][e] = results'.val[e].ver /\ input'[t][e] > 0
    <3>1. e \in Step /\ results'.val[e] = results.val[e] /\ results.val[e].ver > 0
      BY <1>4, <2>1
    <3>2. input[t][e] = results.val[e].ver
      BY <2>1 DEF ResultsAreOwn, AtWork, Current
    <3>3. CASE input'[t] = input[t]
      BY <3>1, <3>2, <3>3
    <3>4. CASE t = s /\ input' = [input EXCEPT ![s] = DepVersions(results', s)]
      <4>1. input'[t] = DepVersions(results', t)
        BY <1>0, <3>4
      <4>2. DepVersions(results', t)[e] = results'.val[e].ver
        BY <3>1 DEF DepVersions
      <4> QED BY <3>1, <4>1, <4>2
    <3>5. input'[t] = input[t] \/ (t = s /\ input' = [input EXCEPT ![s] = DepVersions(results', s)])
      BY <1>0
    <3> QED BY <3>3, <3>4, <3>5
  <2> QED BY <2>2 DEF Current
<1>10. ResultsAreOwn'
  BY <1>6, <1>7, <1>8, <1>9 DEF ResultsAreOwn, AtWork
<1> QED BY <1>10

(* Steps that touch neither the results nor what is handed.                  *)
LEMMA NothingWritten ==
  ASSUME ResultsAreOwn, run # "down", results' = results, input' = input, store' = store,
         pc \in [Step -> {"new", "run", "loop", "retry", "done", "restored", "failed", "paused"}],
         pc' = pc \/ \E s \in Step : pc' = [pc EXCEPT ![s] = "failed"]
  PROVE  ResultsAreOwn'
<1>1. \A s \in Step : pc'[s] = pc[s] \/ pc'[s] = "failed"
  OBVIOUS
<1>2. \A s \in Step : (Judged(s) => Judged(s)') /\ (Based(s) => Based(s)') /\ (Current(s) => Current(s)')
  BY DEF Judged, Based, Current
<1>3. AtWork' \subseteq AtWork
  BY <1>1 DEF AtWork
<1> QED BY <1>1, <1>2, <1>3 DEF ResultsAreOwn, AtWork

LEMMA LaunchKeeps ==
  ASSUME IInv, OwnResults, ResultsAreOwn, NEW s \in Step, Visit(s)
  PROVE  ResultsAreOwn'
<1>0. /\ pc \in [Step -> {"new", "run", "loop", "retry", "done", "restored", "failed", "paused"}]
      /\ input \in [Step -> [Step -> Nat]] /\ run = "running" /\ pc[s] = "new" /\ s \in Layer
  BY DEF IInv, TypeOK, Visit, First, Unvisited
<1>1. store[s] = NoResult
  BY <1>0 DEF ResultsAreOwn
<1>2. Launch(s) /\ run' = run /\ store' = store
  BY <1>1 DEF Visit, Skip, Saved, disk
<1>3. /\ pc' = [pc EXCEPT ![s] = "run"] /\ results' = results
      /\ input' = [input EXCEPT ![s] = DepVersions(results, s)]
  BY <1>2 DEF Launch, Handed
<1>4. \A t \in Step : pc'[t] = IF t = s THEN "run" ELSE pc[t]
  BY <1>0, <1>3
<1>5. ASSUME NEW e \in Deps[s]
      PROVE  DepVersions(results, s)[e] = results.val[e].ver /\ results.val[e].ver > 0
  <2>1. e \in Step /\ pc[e] = "done"
    <3>1. e \in Finished
      BY <1>0 DEF Layer, IInv, DepsEndedWell
    <3> QED BY <3>1 DEF Finished, ResultsAreOwn
  <2> QED BY <2>1 DEF DepVersions, ResultsAreOwn
<1>6. Current(s)'
  BY <1>0, <1>3, <1>5 DEF Current
<1>7. \A t \in Step : t # s => (Current(t) => Current(t)')
  BY <1>0, <1>3 DEF Current
<1>8. \A t \in Step : (Judged(t) => Judged(t)') /\ (Based(t) => Based(t)')
  BY <1>3 DEF Judged, Based
<1>9. \A t \in Step : pc'[t] \in {"run", "retry"} => Current(t)'
  BY <1>4, <1>6, <1>7 DEF ResultsAreOwn, AtWork
<1>10. \A t \in Step : pc'[t] = "done" => results'.val[t].ver > 0 /\ Judged(t)' /\ Based(t)'
  BY <1>3, <1>4, <1>8 DEF ResultsAreOwn
<1>11. /\ \A t \in Step : pc'[t] = "new" => store'[t] = NoResult
       /\ \A t \in Step : pc'[t] \notin {"restored", "loop"}
  BY <1>0, <1>2, <1>4 DEF ResultsAreOwn
<1> QED BY <1>9, <1>10, <1>11 DEF ResultsAreOwn, AtWork

LEMMA CallKeeps ==
  ASSUME IInv, OwnResults, ResultsAreOwn, NEW s \in Step, CallReturns(s) \/ RetryReturns(s)
  PROVE  ResultsAreOwn'
<1>0. s \in AtWork /\ run = "running" /\ run' = run /\ DOMAIN store = Step /\ DOMAIN pc = Step
  BY DEF AtWork, CallReturns, RetryReturns, Gathering, IInv, TypeOK
<1>1. CASE CallReturns(s)
  <2>1. PICK pass \in BOOLEAN :
           /\ store' = [store EXCEPT ![s] = Made(s, pass, input[s])]
           /\ \/ Feedback(s, Put(results, s, Made(s, pass, input[s]), FALSE))
              \/ CheckGate(s, pass, Put(results, s, Made(s, pass, input[s]), FALSE))
    BY <1>1 DEF CallReturns
  <2>2. PICK d : d = Put(results, s, Made(s, pass, input[s]), FALSE)
    OBVIOUS
  <2>3. ~Feedback(s, d) /\ ~GateRollsBack(s, d)
    BY DEF OwnResults, Feedback, GateRollsBack
  <2>4. GatePasses(s, pass, d) \/ GatePauses(s, d) \/ GateRetries(s, d) \/ GateRaises(s, d)
    BY <2>1, <2>2, <2>3 DEF CheckGate
  <2>5. \A t \in Step : t # s => store'[t] = store[t]
    BY <1>0, <2>1
  <2>6. results' = d
    BY <2>4 DEF GatePasses, GatePauses, GateRetries, GateRaises
  <2>7. input' = input \/ input' = [input EXCEPT ![s] = DepVersions(results', s)]
    BY <2>4, <2>6 DEF GatePasses, GatePauses, GateRetries, GateRaises, Handed
  <2>8. PICK v \in {"done", "retry", "paused", "failed"} :
           pc' = [pc EXCEPT ![s] = v] /\ (v = "done" /\ Gate[s] \in CondGate => pass)
    <3>1. CASE GatePasses(s, pass, d)
      <4>1. pc' = [pc EXCEPT ![s] = "done"] /\ (Gate[s] \in CondGate => pass)
        BY <3>1 DEF GatePasses, MayPass, CondGate, RetryGate
      <4> QED BY <4>1
    <3>2. CASE GatePauses(s, d) \/ GateRetries(s, d) \/ GateRaises(s, d)
      BY <3>2 DEF GatePauses, GateRetries, GateRaises
    <3> QED BY <2>4, <3>1, <3>2
  <2> QED BY <1>0, <2>2, <2>5, <2>6, <2>7, <2>8, ResultReplaced
<1>2. CASE RetryReturns(s)
  <2>1. PICK pass \in BOOLEAN :
           /\ results' = Put(results, s, Made(s, pass, input[s]), FALSE)
           /\ \/ pass /\ pc' = [pc EXCEPT ![s] = "done"]
              \/ pc' = pc
              \/ pc' = [pc EXCEPT ![s] = "failed"]
    BY <1>2 DEF RetryReturns
  <2>2. input' = input /\ store' = store /\ pc[s] = "retry"
    BY <1>2 DEF RetryReturns, disk
  <2>3. pc' = pc => pc' = [pc EXCEPT ![s] = "retry"]
    <3>1. pc \in [Step -> {"new", "run", "loop", "retry", "done", "restored", "failed", "paused"}]
      BY DEF IInv, TypeOK
    <3> QED BY <1>0, <2>2, <3>1
  <2>4. PICK v \in {"done", "retry", "paused", "failed"} :
           pc' = [pc EXCEPT ![s] = v] /\ (v = "done" /\ Gate[s] \in CondGate => pass)
    BY <2>1, <2>3
  <2> QED BY <1>0, <2>1, <2>2, <2>4, ResultReplaced
<1> QED BY <1>1, <1>2

LEMMA ResultsAreOwnStep ==
  ASSUME IInv, OwnResults, ResultsAreOwn, [Next]_vars
  PROVE  ResultsAreOwn'
<1>0. pc \in [Step -> {"new", "run", "loop", "retry", "done", "restored", "failed", "paused"}]
  BY DEF IInv, TypeOK
<1>1. CASE Begin \/ EndLayer
  <2>1. run # "down" /\ pc' = pc /\ results' = results /\ input' = input /\ store' = store
    BY <1>1 DEF Begin, EndLayer, Gathering, task, disk
  <2> QED BY <1>0, <2>1, NothingWritten
<1>2. CASE \E s \in Step : StepNext(s)
  <2>0. PICK s \in Step : StepNext(s)
    BY <1>2
  <2>1. CASE CallRaises(s)
    <3>1. /\ run # "down" /\ pc' = [pc EXCEPT ![s] = "failed"]
          /\ results' = results /\ input' = input /\ store' = store
      BY <2>1 DEF CallRaises, Gathering, task, disk
    <3> QED BY <1>0, <3>1, NothingWritten
  <2>2. CASE FeedbackReturns(s)
    BY <2>2 DEF FeedbackReturns, ResultsAreOwn
  <2>3. CASE Approve(s)
    <3>1. /\ run' = run /\ pc' = pc /\ results' = results /\ input' = input /\ store' = store
      BY <2>3 DEF Approve, task
    <3> QED BY <3>1 DEF ResultsAreOwn, AtWork, Judged, Based, Current
  <2>4. CASE CrashAfterSave(s)
    BY <2>4 DEF CrashAfterSave, OwnResults
  <2>5. CASE HookHangs(s)
    <3>1. run # "down" /\ pc' = pc /\ results' = results /\ input' = input /\ store' = store
      BY <2>5 DEF HookHangs, Gathering, task, disk
    <3> QED BY <1>0, <3>1, NothingWritten
  <2> QED BY <2>0, <2>1, <2>2, <2>3, <2>4, <2>5, LaunchKeeps, CallKeeps DEF StepNext
<1>3. CASE Crash
  <2>1. /\ run' = "down" /\ pc' = pc /\ results' = results /\ input' = input
    BY <1>3 DEF Crash, task
  <2> QED BY <2>1 DEF ResultsAreOwn, AtWork, Judged, Based, Current
<1>4. CASE Resume
  <2>1. (\A s \in Step : pc'[s] = "new") /\ store' = NoStore
    BY <1>4 DEF Resume, OwnResults
  <2> QED BY <2>1 DEF ResultsAreOwn, AtWork, NoStore
<1>5. CASE UNCHANGED vars
  BY <1>5 DEF vars, task, disk, ResultsAreOwn, AtWork, Judged, Based, Current
<1> QED BY <1>1, <1>2, <1>3, <1>4, <1>5 DEF Next, Over

LEMMA OwnResultsInduction == OwnResults /\ Spec => [](IInv /\ ResultsAreOwn)
<1> SUFFICES ASSUME OwnResults PROVE Spec => [](IInv /\ ResultsAreOwn)
  OBVIOUS
<1>1. Init => ResultsAreOwn
  BY DEF Init, ResultsAreOwn, AtWork, NoStore
<1>2. IInv /\ ResultsAreOwn /\ [Next]_vars => ResultsAreOwn'
  BY ResultsAreOwnStep
<1> QED BY <1>1, <1>2, Invariance, PTL DEF Spec

LEMMA CompletedIsDone ==
  ASSUME IInv, ResultsAreOwn, run = "completed", NEW s \in Step
  PROVE  pc[s] = "done"
<1>1. s \in Finished
  BY DEF IInv, DepsEndedWell
<1> QED BY <1>1 DEF Finished, ResultsAreOwn

(* For any workflow without rollbacks and feedback loops, with a store of    *)
(* its own: however the tasks of a layer interleave, every call is handed    *)
(* all its dependencies, and a completed run has results that pass.          *)
THEOREM OwnResultsAreSound == OwnResults /\ Spec => []ResultsAreSound
<1>1. IInv /\ ResultsAreOwn => ResultsAreSound
  <2> SUFFICES ASSUME IInv, ResultsAreOwn PROVE ResultsAreSound
    OBVIOUS
  <2>1. InputsComplete
    BY DEF ResultsAreOwn, AtWork, Current, InputsComplete
  <2>2. CompletedPassesGates
    BY CompletedIsDone DEF ResultsAreOwn, Judged, CompletedPassesGates
  <2> QED BY <2>1, <2>2 DEF ResultsAreSound
<1> QED BY <1>1, OwnResultsInduction, PTL

(* ... and every result was made from those its dependencies have at the     *)
(* end, retries of a dependency included.                                    *)
THEOREM OwnResultsAreConsistent == OwnResults /\ Spec => []CompletedIsConsistent
<1>1. IInv /\ ResultsAreOwn => CompletedIsConsistent
  BY CompletedIsDone DEF ResultsAreOwn, Based, CompletedIsConsistent
<1> QED BY <1>1, OwnResultsInduction, PTL

-----------------------------------------------------------------------------
(* What a run has spent on a step so far: its own calls, and the steps whose *)
(* feedback has executed it again.                                          *)
Spent(s) ==
  CASE pc[s] \in {"new", "restored"} -> 0
    [] pc[s] = "run"   -> IF run = "down" THEN 1 ELSE 0
    [] pc[s] = "loop"  -> 1
    [] pc[s] = "retry" -> attempt[s]
    [] OTHER           -> 1 + MaxRetries[s]

Returned(s) == {t \in Step : via[t] = s /\ pc[t] # "loop"}

Costs ==
  \A s \in Step :
    /\ pc[s] = "retry" => attempt[s] <= MaxRetries[s]
    /\ pc[s] \in {"new", "run", "restored"} => via[s] = 0
    /\ via[s] \in Step => s \in LoopSources(via[s])
    /\ calls[s] <= (runs - 1) * Cost(s) + Spent(s) + Cardinality(Returned(s))

(* There are finitely many steps, so the sets that are counted are finite.   *)
LEMMA StepsAreFinite ==
  ASSUME NEW T \in SUBSET Step
  PROVE  IsFiniteSet(T) /\ Cardinality(T) \in Nat
<1>1. IsFiniteSet(Step)
  BY FS_Interval, NAssumption DEF Step
<1>2. IsFiniteSet(T)
  BY <1>1, FS_Subset
<1> QED BY <1>2, FS_CardinalityType

LEMMA CostIsNat ==
  ASSUME NEW s \in Step
  PROVE  /\ LoopSources(s) \subseteq Step
         /\ Cardinality(LoopSources(s)) \in Nat
         /\ Cost(s) \in Nat
<1>1. LoopSources(s) \in SUBSET Step
  BY LoopAssumption DEF LoopSources, Loop
<1>2. Cardinality(LoopSources(s)) \in Nat
  BY <1>1, StepsAreFinite
<1> QED BY <1>1, <1>2, GateAssumption DEF Cost

(* A run spends no more than its budget.                                     *)
LEMMA SpentIsBounded ==
  ASSUME TypeOK, Costs, NEW s \in Step
  PROVE  /\ Spent(s) \in 0..(1 + MaxRetries[s])
         /\ Cardinality(Returned(s)) \in 0..Cardinality(LoopSources(s))
<1>1. MaxRetries[s] \in Nat /\ attempt[s] \in Nat
  BY GateAssumption DEF TypeOK
<1>2. Spent(s) \in 0..(1 + MaxRetries[s])
  BY <1>1 DEF Spent, Costs
<1>3. Returned(s) \subseteq LoopSources(s)
  BY DEF Returned, Costs
<1>4. IsFiniteSet(LoopSources(s))
  BY CostIsNat, StepsAreFinite
<1>5. Cardinality(Returned(s)) <= Cardinality(LoopSources(s))
  BY <1>3, <1>4, FS_Subset
<1>6. Cardinality(Returned(s)) \in Nat /\ Cardinality(LoopSources(s)) \in Nat
  BY StepsAreFinite, CostIsNat DEF Returned
<1> QED BY <1>2, <1>5, <1>6

LEMMA CostsBound ==
  ASSUME TypeOK, runs \in Nat \ {0}, Costs
  PROVE  CallsBounded
<1> SUFFICES ASSUME NEW s \in Step PROVE calls[s] <= runs * Cost(s)
  BY DEF CallsBounded
<1> PICK c : c = Cost(s)
  OBVIOUS
<1>1. c \in Nat /\ Spent(s) + Cardinality(Returned(s)) <= c /\ Spent(s) + Cardinality(Returned(s)) \in Nat
  BY CostIsNat, SpentIsBounded, GateAssumption DEF Cost
<1>2. calls[s] \in Nat /\ calls[s] <= (runs - 1) * c + Spent(s) + Cardinality(Returned(s))
  BY DEF Costs, TypeOK
<1>3. (runs - 1) * c + c = runs * c
  BY <1>1
<1>4. (runs - 1) * c \in Nat
  BY <1>1
<1>5. Spent(s) \in Nat /\ Cardinality(Returned(s)) \in Nat
  BY SpentIsBounded, GateAssumption, CostIsNat
<1> QED BY <1>1, <1>2, <1>3, <1>4, <1>5

(* A call of a step is paid for by what its run has spent on the step, or by *)
(* one more step whose feedback has come back.                              *)
LEMMA CallIsPaid ==
  ASSUME TypeOK, TypeOK', Costs, NEW t \in Step, runs' = runs, Spent(t)' \in Nat,
         Returned(t) \subseteq Returned(t)',
         \/ calls'[t] = calls[t] /\ Spent(t)' >= Spent(t)
         \/ calls'[t] = calls[t] + 1 /\ Spent(t)' >= Spent(t) + 1
         \/ /\ calls'[t] = calls[t] + 1 /\ Spent(t)' >= Spent(t)
            /\ \E u \in Returned(t)' : u \notin Returned(t)
  PROVE  calls'[t] <= (runs' - 1) * Cost(t) + Spent(t)' + Cardinality(Returned(t)')
<1> PICK k : k = (runs - 1) * Cost(t)
  OBVIOUS
<1> PICK m : m = Cardinality(Returned(t))
  OBVIOUS
<1> PICK n : n = Cardinality(Returned(t)')
  OBVIOUS
<1>1. k \in Int /\ calls[t] \in Nat /\ Spent(t) \in Nat
  BY CostIsNat, SpentIsBounded, GateAssumption DEF TypeOK
<1>2. Returned(t)' \in SUBSET Step /\ Returned(t) \in SUBSET Step
  BY DEF Returned
<1>3. IsFiniteSet(Returned(t)') /\ m \in Nat /\ n \in Nat /\ IsFiniteSet(Returned(t))
  BY <1>2, StepsAreFinite
<1>4. m <= n
  BY <1>3, FS_Subset
<1>5. ASSUME NEW u \in Returned(t)', u \notin Returned(t)
      PROVE  m + 1 <= n
  <2>1. Returned(t) \cup {u} \in SUBSET Returned(t)'
    BY <1>5
  <2>2. Cardinality(Returned(t) \cup {u}) = m + 1
    BY <1>3, <1>5, FS_AddElement
  <2>3. Cardinality(Returned(t) \cup {u}) <= n
    BY <2>1, <1>3, FS_Subset
  <2> QED BY <2>2, <2>3
<1>6. calls[t] <= k + Spent(t) + m
  BY DEF Costs
<1>7. calls'[t] <= k + Spent(t)' + n
  BY <1>1, <1>3, <1>4, <1>5, <1>6
<1> QED BY <1>7

(* What _check_gate leaves its own task with.                                *)
LEMMA GateSpends ==
  ASSUME TypeOK, NEW s \in Step, NEW pass, NEW d, CheckGate(s, pass, d)
  PROVE  \/ \E v \in {"done", "paused", "failed"} : pc' = [pc EXCEPT ![s] = v] /\ attempt' = attempt
         \/ /\ pc' = [pc EXCEPT ![s] = "retry"] /\ attempt' = [attempt EXCEPT ![s] = 1]
            /\ MaxRetries[s] > 0
BY DEF CheckGate, GatePasses, GatePauses, GateRetries, GateRollsBack, GateRaises

(* The steps that a task takes.                                              *)
LEMMA CostsOfTask ==
  ASSUME IInv, IInv', Costs, NEW s \in Step, StepNext(s)
  PROVE  Costs'
<1>0. /\ pc \in [Step -> {"new", "run", "loop", "retry", "done", "restored", "failed", "paused"}]
      /\ attempt \in [Step -> Nat] /\ via \in [Step -> Step \cup {0}] /\ calls \in [Step -> Nat]
      /\ TypeOK /\ TypeOK' /\ MaxRetries \in [Step -> Nat] /\ 0 \notin Step
  <2>1. TypeOK /\ TypeOK'
    BY DEF IInv
  <2>2. 0 \notin Step
    BY DEF Step
  <2> QED BY <2>1, <2>2, GateAssumption DEF TypeOK
<1> SUFFICES ASSUME runs' = runs, NEW t \in Step
             PROVE  /\ pc'[t] = "retry" => attempt'[t] <= MaxRetries[t]
                    /\ pc'[t] \in {"new", "run", "restored"} => via'[t] = 0
                    /\ via'[t] \in Step => t \in LoopSources(via'[t])
                    /\ calls'[t] <= (runs' - 1) * Cost(t) + Spent(t)' + Cardinality(Returned(t)')
  BY DEF Costs, StepNext, Visit, CallReturns, FeedbackReturns, RetryReturns, CallRaises,
         HookHangs, Approve, CrashAfterSave
<1>a. /\ pc[t] = "retry" => attempt[t] <= MaxRetries[t]
      /\ pc[t] \in {"new", "run", "restored"} => via[t] = 0
      /\ via[t] \in Step => t \in LoopSources(via[t])
      /\ pc[s] = "retry" => attempt[s] <= MaxRetries[s]
      /\ pc[s] \in {"new", "run", "restored"} => via[s] = 0
  BY DEF Costs
<1>1. CASE Visit(s)
  <2>1. /\ run = "running" /\ run' = run /\ calls' = calls /\ attempt' = attempt /\ via' = via
        /\ pc[s] = "new" /\ \E v \in {"run", "restored"} : pc' = [pc EXCEPT ![s] = v]
    BY <1>1 DEF Visit, Skip, Launch, task, First, Unvisited
  <2>2. Spent(t)' = Spent(t) /\ Spent(t) \in Nat
    BY <2>1, <1>0 DEF Spent
  <2>3. Returned(t)' = Returned(t)
    BY <2>1, <1>0, <1>a DEF Returned
  <2> QED BY <2>1, <2>2, <2>3, <1>0, <1>a, CallIsPaid
<1>2. CASE CallReturns(s)
  <2>1. /\ run = "running" /\ run' = run /\ pc[s] = "run" /\ calls' = [calls EXCEPT ![s] = @ + 1]
    BY <1>2 DEF CallReturns, Gathering
  <2>2. PICK pass \in BOOLEAN :
           \/ Feedback(s, Put(results, s, Made(s, pass, input[s]), FALSE))
           \/ /\ CheckGate(s, pass, Put(results, s, Made(s, pass, input[s]), FALSE))
              /\ UNCHANGED <<fired, via>>
    BY <1>2 DEF CallReturns
  <2>3. CASE Feedback(s, Put(results, s, Made(s, pass, input[s]), FALSE))
    <3>1. PICK l \in Loops : l.from = s /\ MayFire(l) /\ via' = [via EXCEPT ![s] = l.to]
      BY <2>3 DEF Feedback
    <3>2. pc' = [pc EXCEPT ![s] = "loop"] /\ attempt' = attempt
      BY <2>3 DEF Feedback
    <3>3. l.to \in Step /\ l.max \in Nat /\ fired[l] \in Nat
      BY LoopAssumption, <1>0 DEF Loop, TypeOK
    <3>4. s \in LoopSources(l.to)
      BY <3>1, <3>3 DEF LoopSources, MayFire
    <3>5. Spent(t)' = (IF t = s THEN 1 ELSE Spent(t)) /\ Spent(t) \in Nat /\ Spent(s) = 0
      BY <2>1, <3>2, <1>0 DEF Spent
    <3>6. Returned(t) \subseteq Returned(t)'
      BY <2>1, <3>1, <3>2, <1>0, <1>a DEF Returned
    <3>7. calls'[t] = (IF t = s THEN calls[t] + 1 ELSE calls[t])
      BY <2>1, <1>0
    <3>8. calls'[t] <= (runs' - 1) * Cost(t) + Spent(t)' + Cardinality(Returned(t)')
      BY <3>5, <3>6, <3>7, <1>0, CallIsPaid
    <3> QED BY <3>1, <3>2, <3>3, <3>4, <3>8, <1>0, <1>a
  <2>4. CASE CheckGate(s, pass, Put(results, s, Made(s, pass, input[s]), FALSE)) /\ UNCHANGED <<fired, via>>
    <3>1. \/ \E v \in {"done", "paused", "failed"} : pc' = [pc EXCEPT ![s] = v] /\ attempt' = attempt
          \/ /\ pc' = [pc EXCEPT ![s] = "retry"] /\ attempt' = [attempt EXCEPT ![s] = 1]
             /\ MaxRetries[s] > 0
      BY <2>4, <1>0, GateSpends
    <3>2. Spent(t)' \in Nat /\ Spent(t) \in Nat /\ (t = s => Spent(t)' >= Spent(t) + 1) /\ (t # s => Spent(t)' = Spent(t))
      BY <2>1, <3>1, <1>0 DEF Spent
    <3>3. Returned(t) \subseteq Returned(t)'
      BY <2>1, <2>4, <3>1, <1>0, <1>a DEF Returned
    <3>4. calls'[t] = (IF t = s THEN calls[t] + 1 ELSE calls[t])
      BY <2>1, <1>0
    <3>5. calls'[t] <= (runs' - 1) * Cost(t) + Spent(t)' + Cardinality(Returned(t)')
      BY <3>2, <3>3, <3>4, <1>0, CallIsPaid
    <3> QED BY <2>1, <2>4, <3>1, <3>5, <1>0, <1>a
  <2> QED BY <2>2, <2>3, <2>4
<1>3. CASE FeedbackReturns(s)
  <2>1. /\ run = "running" /\ run' = run /\ pc[s] = "loop" /\ via' = via
        /\ calls' = [calls EXCEPT ![via[s]] = @ + 1]
    BY <1>3 DEF FeedbackReturns, Gathering
  <2>2. \E pass : \E d : CheckGate(s, pass, d)
    BY <1>3 DEF FeedbackReturns
  <2>3. \/ \E v \in {"done", "paused", "failed"} : pc' = [pc EXCEPT ![s] = v] /\ attempt' = attempt
        \/ /\ pc' = [pc EXCEPT ![s] = "retry"] /\ attempt' = [attempt EXCEPT ![s] = 1]
           /\ MaxRetries[s] > 0
    BY <2>2, <1>0, GateSpends
  <2>4. via[s] \in Step
    BY <2>1 DEF IInv, TasksPersisted
  <2>5. Spent(t)' \in Nat /\ Spent(t) \in Nat /\ Spent(t)' >= Spent(t)
    BY <2>1, <2>3, <1>0 DEF Spent
  <2>6. Returned(t) \subseteq Returned(t)' /\ (t = via[s] => s \in Returned(t)' /\ s \notin Returned(t))
    BY <2>1, <2>3, <1>0 DEF Returned
  <2>7. calls'[t] = (IF t = via[s] THEN calls[t] + 1 ELSE calls[t])
    BY <2>1, <2>4, <1>0
  <2>8. calls'[t] <= (runs' - 1) * Cost(t) + Spent(t)' + Cardinality(Returned(t)')
    BY <2>5, <2>6, <2>7, <1>0, CallIsPaid
  <2> QED BY <2>1, <2>3, <2>8, <1>0, <1>a
<1>4. CASE RetryReturns(s)
  <2>1. /\ run = "running" /\ run' = run /\ pc[s] = "retry" /\ via' = via
        /\ calls' = [calls EXCEPT ![s] = @ + 1]
    BY <1>4 DEF RetryReturns, Gathering
  <2>2. \/ \E v \in {"done", "failed"} : pc' = [pc EXCEPT ![s] = v] /\ attempt' = attempt
        \/ attempt[s] < MaxRetries[s] /\ attempt' = [attempt EXCEPT ![s] = @ + 1] /\ pc' = pc
    BY <1>4, <1>0 DEF RetryReturns, LastAttempt
  <2>3. Spent(t)' \in Nat /\ Spent(t) \in Nat /\ (t = s => Spent(t)' >= Spent(t) + 1) /\ (t # s => Spent(t)' = Spent(t))
    BY <2>1, <2>2, <1>0, <1>a DEF Spent
  <2>4. Returned(t) \subseteq Returned(t)'
    BY <2>1, <2>2, <1>0 DEF Returned
  <2>5. calls'[t] = (IF t = s THEN calls[t] + 1 ELSE calls[t])
    BY <2>1, <1>0
  <2>6. calls'[t] <= (runs' - 1) * Cost(t) + Spent(t)' + Cardinality(Returned(t)')
    BY <2>3, <2>4, <2>5, <1>0, CallIsPaid
  <2>7. pc'[t] = "retry" => attempt'[t] <= MaxRetries[t]
    BY <2>1, <2>2, <1>0, <1>a
  <2> QED BY <2>1, <2>2, <2>6, <2>7, <1>0, <1>a
<1>5. CASE CallRaises(s)
  <2>1. /\ run' = run /\ pc[s] \in {"run", "loop", "retry"} /\ via' = via /\ attempt' = attempt
        /\ calls' = calls /\ pc' = [pc EXCEPT ![s] = "failed"] /\ run = "running"
    BY <1>5 DEF CallRaises, InFlight, task, Gathering
  <2>2. Spent(t)' \in Nat /\ Spent(t) \in Nat /\ Spent(t)' >= Spent(t)
    BY <2>1, <1>0, <1>a DEF Spent
  <2>3. Returned(t) \subseteq Returned(t)'
    BY <2>1, <1>0 DEF Returned
  <2>4. calls'[t] <= (runs' - 1) * Cost(t) + Spent(t)' + Cardinality(Returned(t)')
    BY <2>1, <2>2, <2>3, <1>0, CallIsPaid
  <2> QED BY <2>1, <2>4, <1>0, <1>a
<1>6. CASE Approve(s)
  <2>1. run' = run /\ pc' = pc /\ via' = via /\ attempt' = attempt /\ calls' = calls
    BY <1>6 DEF Approve, task
  <2>2. Spent(t)' = Spent(t) /\ Returned(t)' = Returned(t)
    BY <2>1 DEF Spent, Returned
  <2> QED BY <2>1, <2>2, <1>a DEF Costs
<1>7. CASE CrashAfterSave(s)
  <2>1. /\ run = "running" /\ run' = "down" /\ pc[s] = "run" /\ pc' = pc /\ via' = via /\ attempt' = attempt
        /\ calls' = [calls EXCEPT ![s] = @ + 1]
    BY <1>7 DEF CrashAfterSave, Gathering, task
  <2>2. Spent(t)' \in Nat /\ Spent(t) \in Nat /\ (t = s => Spent(t)' >= Spent(t) + 1) /\ Spent(t)' >= Spent(t)
    BY <2>1, <1>0 DEF Spent
  <2>3. Returned(t)' = Returned(t)
    BY <2>1 DEF Returned
  <2>4. calls'[t] = (IF t = s THEN calls[t] + 1 ELSE calls[t])
    BY <2>1, <1>0
  <2>5. calls'[t] <= (runs' - 1) * Cost(t) + Spent(t)' + Cardinality(Returned(t)')
    BY <2>2, <2>3, <2>4, <1>0, CallIsPaid
  <2> QED BY <2>1, <2>5, <1>a
<1>8. CASE HookHangs(s)
  <2>1. /\ run # "down" /\ run' # "down"
        /\ pc' = pc /\ via' = via /\ attempt' = attempt /\ calls' = calls
    BY <1>8 DEF HookHangs, Gathering, task
  <2>2. Spent(t)' = Spent(t) /\ Returned(t)' = Returned(t)
    BY <2>1 DEF Spent, Returned
  <2> QED BY <2>1, <2>2, <1>a DEF Costs
<1> QED BY <1>1, <1>2, <1>3, <1>4, <1>5, <1>6, <1>7, <1>8 DEF StepNext

(* Every other step; a new run starts with all that its predecessors could   *)
(* spend behind it.                                                          *)
LEMMA CostsStep ==
  ASSUME IInv, IInv', runs \in Nat \ {0}, Costs, [Next]_vars
  PROVE  Costs' /\ runs' \in Nat \ {0}
<1>0. /\ pc \in [Step -> {"new", "run", "loop", "retry", "done", "restored", "failed", "paused"}]
      /\ attempt \in [Step -> Nat] /\ calls \in [Step -> Nat] /\ TypeOK /\ TypeOK'
      /\ MaxRetries \in [Step -> Nat] /\ 0 \notin Step
  <2>1. TypeOK /\ TypeOK'
    BY DEF IInv
  <2>2. 0 \notin Step
    BY DEF Step
  <2> QED BY <2>1, <2>2, GateAssumption DEF TypeOK
<1>1. CASE Begin \/ EndLayer \/ Crash \/ UNCHANGED vars
  <2>1. /\ pc' = pc /\ via' = via /\ attempt' = attempt /\ calls' = calls /\ runs' = runs
        /\ run' = run \/ run # "down"
    BY <1>1 DEF Begin, EndLayer, Crash, vars, task, Gathering
  <2>2. ASSUME NEW t \in Step
        PROVE  calls'[t] <= (runs' - 1) * Cost(t) + Spent(t)' + Cardinality(Returned(t)')
    <3>1. Spent(t)' \in Nat /\ Spent(t) \in Nat /\ Spent(t)' >= Spent(t)
      BY <2>1, <1>0 DEF Spent
    <3>2. Returned(t)' = Returned(t)
      BY <2>1 DEF Returned
    <3> QED BY <2>1, <3>1, <3>2, <1>0, CallIsPaid
  <2> QED BY <2>1, <2>2 DEF Costs
<1>2. CASE \E s \in Step : StepNext(s)
  <2>1. runs' = runs
    BY <1>2 DEF StepNext, Visit, CallReturns, FeedbackReturns, RetryReturns, CallRaises,
                HookHangs, Approve, CrashAfterSave
  <2> QED BY <1>2, <2>1, CostsOfTask
<1>3. CASE Resume
  <2>1. /\ runs' = runs + 1 /\ calls' = calls
        /\ \A t \in Step : pc'[t] = "new" /\ via'[t] = 0
    BY <1>3 DEF Resume, Zero
  <2>2. CallsBounded
    BY <1>0, CostsBound
  <2>3. ASSUME NEW t \in Step
        PROVE  calls'[t] <= (runs' - 1) * Cost(t) + Spent(t)' + Cardinality(Returned(t)')
    <3>1. Spent(t)' = 0
      BY <2>1 DEF Spent
    <3>2. Returned(t)' = {}
      BY <2>1, <1>0 DEF Returned
    <3>3. Cardinality(Returned(t)') = 0
      BY <3>2, FS_EmptySet
    <3>4. PICK k : k = runs * Cost(t)
      OBVIOUS
    <3>5. k \in Nat /\ calls[t] <= k /\ calls[t] \in Nat
      BY <2>2, <3>4, <1>0, CostIsNat DEF CallsBounded
    <3>6. (runs' - 1) * Cost(t) = k
      BY <2>1, <3>4
    <3> QED BY <2>1, <3>1, <3>3, <3>5, <3>6
  <2> QED BY <2>1, <2>3, <1>0 DEF Costs
<1> QED BY <1>1, <1>2, <1>3 DEF Next, Over

(* Whatever gates retry, loops feed back and runs are resumed, the calls of  *)
(* a step stay within what its workflow allows for each run.                 *)
THEOREM CostIsBounded == Spec => []CallsBounded
<1>1. Init => Costs /\ runs \in Nat \ {0}
  <2> SUFFICES ASSUME Init PROVE Costs /\ runs \in Nat \ {0}
    OBVIOUS
  <2>1. /\ runs = 1 /\ 0 \notin Step
        /\ \A t \in Step : pc[t] = "new" /\ via[t] = 0 /\ calls[t] = 0
    BY DEF Init, Zero, Step
  <2>2. ASSUME NEW t \in Step
        PROVE  calls[t] <= (runs - 1) * Cost(t) + Spent(t) + Cardinality(Returned(t))
    <3>1. Spent(t) = 0
      BY <2>1 DEF Spent
    <3>2. Returned(t) = {}
      BY <2>1 DEF Returned
    <3>3. Cardinality(Returned(t)) = 0
      BY <3>2, FS_EmptySet
    <3>4. (runs - 1) * Cost(t) = 0
      BY <2>1, CostIsNat
    <3> QED BY <2>1, <3>1, <3>3, <3>4
  <2> QED BY <2>1, <2>2 DEF Costs
<1>2. IInv /\ IInv' /\ runs \in Nat \ {0} /\ Costs /\ [Next]_vars => Costs' /\ (runs \in Nat \ {0})'
  BY CostsStep
<1>3. IInv /\ runs \in Nat \ {0} /\ Costs => CallsBounded
  BY CostsBound DEF IInv
<1> QED BY <1>1, <1>2, <1>3, Invariance, PTL DEF Spec
=============================================================================
