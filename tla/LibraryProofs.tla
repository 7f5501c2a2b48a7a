--------------------------- MODULE LibraryProofs ----------------------------
(***************************************************************************)
(* Theorems about the parts around the engine: the linear engine, the      *)
(* adapters that call tools, the selection of models, the commands and the *)
(* boot of an engine.                                                      *)
(***************************************************************************)
EXTENDS LinearEngine, ToolAdapters, Commands, EngineBoot, SequenceTheorems, FiniteSetTheorems, WellFoundedInduction, TLAPS

---------------------------------------------------------------------------
(* The linear engine.  The dict of results lists the steps in their order,   *)
(* from the first on, whatever was restored or rolled back: so a rollback    *)
(* that cuts the dict at its target takes away the target and what comes     *)
(* after it.                                                                 *)
Entries == [step : List, call : Nat, from : SUBSET Nat]
Ordered(r, n) ==
    /\ r \in Seq(Entries) /\ Len(r) <= NSteps
    /\ \A i \in 1..Len(r) : r[i].step = i /\ r[i].call <= n

LinearTypeOK ==
    /\ calls \in Nat /\ since \in Nat /\ since <= calls
    /\ pc \in [at : 0..NSteps, attempt : Nat]
    /\ Ordered(results, calls) /\ Ordered(saved, calls)
    /\ target \in [List -> 0..NSteps] /\ ResetPointsValid(gate, target, resetPoints)

(* What the execution at work has made and what it has left alone.           *)
MadeNow(r, n, s) ==
    /\ s <= Len(r) /\ r[s].call > n
    /\ \A d \in DependsOn[s] \cap (1..(s - 1)) : r[d].call \in r[s].from
OldAfter(r, n, s) == \A j \in 1..Len(r) : j > s => r[j].call <= n

AtStep ==
    pc.at # 0 =>
        /\ status.is = "running" /\ OldAfter(results, since, pc.at)
        /\ \A j \in 1..(pc.at - 1) : MadeNow(results, since, j)

RollsBack == status.is = "gate_failed" /\ gate[status.step] = "rollback" /\ target[status.step] # 0
CutAt(r, n, t) == Len(r) = t - 1 /\ \A j \in 1..(t - 1) : r[j].call > n

AtEnd ==
    /\ status.is = "completed" => \A s \in List : MadeNow(results, since, s)
    /\ status.is \in {"gate_failed", "error"} => status.step \in List /\ OldAfter(results, since, status.step)
    /\ RollsBack /\ target[status.step] <= status.step => CutAt(results, since, target[status.step])

LinearInv == LinearTypeOK /\ AtStep /\ AtEnd

---------------------------------------------------------------------------
LEMMA ElementsAreEntries ==
    ASSUME NEW r \in Seq(Entries)
    PROVE  \A i \in 1..Len(r) : r[i] \in Entries /\ r[i].call \in Nat
<1> TAKE i \in 1..Len(r)
<1>1. r[i] \in Entries BY ElementOfSeq
<1> QED BY <1>1 DEF Entries

(* In such a dict a step is at its own place, and only there.                *)
LEMMA StepAtItsPlace ==
    ASSUME NEW r, NEW n, Ordered(r, n), NEW s \in List
    PROVE  /\ Has(r, s) <=> s <= Len(r)
           /\ s <= Len(r) => CallOf(r, s) = s
<1>1. DOMAIN r = 1..Len(r) /\ Len(r) \in Nat BY LenProperties DEF Ordered
<1>2. \A i \in 1..Len(r) : r[i].step = i BY DEF Ordered
<1>3. s \in Nat /\ s >= 1 BY StepsAssumption DEF List
<1>4. Has(r, s) <=> s <= Len(r) BY <1>1, <1>2, <1>3 DEF Has
<1>5. ASSUME s <= Len(r) PROVE CallOf(r, s) = s
    <2>1. s \in DOMAIN r /\ r[s].step = s BY <1>1, <1>2, <1>3, <1>5
    <2>2. \A i \in DOMAIN r : r[i].step = s => i = s BY <1>1, <1>2
    <2>3. (CHOOSE i \in DOMAIN r : r[i].step = s) = s BY <2>1, <2>2
    <2> QED BY <1>4, <1>5, <2>3 DEF CallOf
<1> QED BY <1>4, <1>5

(* A result takes the place of the one before it, or the next free one.      *)
LEMMA PutsInOrder ==
    ASSUME NEW r, NEW n \in Nat, NEW m \in Nat, n <= m, Ordered(r, n), NEW new \in Entries,
           new.step <= Len(r) + 1, new.call <= m
    PROVE  /\ Ordered(Put1(r, new), m)
           /\ new.step <= Len(Put1(r, new)) /\ Put1(r, new)[new.step] = new
           /\ Len(r) <= Len(Put1(r, new))
           /\ Len(Put1(r, new)) = IF new.step <= Len(r) THEN Len(r) ELSE new.step
           /\ \A j \in 1..Len(r) : j # new.step => Put1(r, new)[j] = r[j]
<1> DEFINE s == new.step
           q == Put1(r, new)
<1>1. r \in Seq(Entries) /\ Len(r) \in Nat /\ DOMAIN r = 1..Len(r) /\ Len(r) <= NSteps
    BY LenProperties DEF Ordered
<1>2. \A i \in 1..Len(r) : r[i].step = i /\ r[i].call <= n BY DEF Ordered
<1>3. s \in List /\ s \in Nat /\ s >= 1 /\ s <= NSteps /\ new.call \in Nat BY StepsAssumption DEF Entries, List
<1>4. Has(r, s) <=> s <= Len(r) BY <1>3, StepAtItsPlace
<1>5. \A i \in 1..Len(r) : r[i] \in Entries /\ r[i].call \in Nat BY <1>1, ElementsAreEntries
<1>6. CASE s <= Len(r)
    <2>1. q = [i \in DOMAIN r |-> IF r[i].step = s THEN new ELSE r[i]] BY <1>4, <1>6 DEF Put1
    <2>2. q = [i \in 1..Len(r) |-> IF i = s THEN new ELSE r[i]] BY <1>1, <1>2, <2>1
    <2>3. s \in 1..Len(r) BY <1>1, <1>3, <1>6
    <2>4. q = [r EXCEPT ![s] = new] BY <1>1, <2>2
    <2>5. q \in Seq(Entries) /\ Len(q) = Len(r) /\ \A j \in 1..Len(r) : q[j] = IF j = s THEN new ELSE r[j]
        <3>1. PICK v : v = [r EXCEPT ![s] = new] OBVIOUS
        <3>2. v \in Seq(Entries) /\ Len(v) = Len(r) /\ \A j \in 1..Len(r) : v[j] = IF j = s THEN new ELSE r[j]
            BY <1>1, <2>3, <3>1, ExceptSeq
        <3> QED BY <2>4, <3>1, <3>2
    <2>6. q[s] = new BY <2>3, <2>5
    <2>7. \A j \in 1..Len(r) : j # s => q[j] = r[j] BY <2>5
    <2>8. \A i \in 1..Len(q) : q[i].step = i /\ q[i].call <= m BY <2>5, <2>6, <2>7, <1>2, <1>5, <1>3
    <2> QED BY <2>5, <2>6, <2>7, <2>8, <1>6, <1>1 DEF Ordered
<1>7. CASE s > Len(r)
    <2>1. s = Len(r) + 1 BY <1>1, <1>3, <1>7
    <2>0. ~Has(r, new.step) BY <1>1, <1>3, <1>4, <1>7
    <2>2. q = Append(r, new) BY <2>0 DEF Put1
    <2>3. q \in Seq(Entries) /\ Len(q) = Len(r) + 1 /\ q[s] = new BY <2>1, <2>2, <1>1, AppendProperties
    <2>4. \A j \in 1..Len(r) : q[j] = r[j] BY <2>2, <1>1, AppendProperties
    <2>5. \A i \in 1..Len(q) : q[i].step = i /\ q[i].call <= m
        <3> TAKE i \in 1..Len(q)
        <3>1. CASE i = s BY <3>1, <2>3
        <3>2. CASE i # s
            <4>1. i \in 1..Len(r) BY <3>2, <2>1, <2>3, <1>1
            <4> QED BY <4>1, <2>4, <1>2, <1>5
        <3> QED BY <3>1, <3>2
    <2> QED BY <2>1, <2>3, <2>4, <2>5, <1>1, <1>3, <1>7 DEF Ordered
<1> QED BY <1>1, <1>3, <1>6, <1>7

(* A cut keeps what is before it.                                            *)
LEMMA CutsInOrder ==
    ASSUME NEW r, NEW n, Ordered(r, n), NEW t \in List, t <= Len(r)
    PROVE  /\ Ordered(DropFrom1(r, t), n) /\ Len(DropFrom1(r, t)) = t - 1
           /\ \A j \in 1..(t - 1) : DropFrom1(r, t)[j] = r[j]
<1>1. r \in Seq(Entries) /\ Len(r) \in Nat /\ Len(r) <= NSteps BY LenProperties DEF Ordered
<1>2. t \in Nat /\ t >= 1 BY StepsAssumption DEF List
<1>3. PICK q : q = DropFrom1(r, t) OBVIOUS
<1>4. q = SubSeq(r, 1, t - 1) BY <1>3, StepAtItsPlace DEF DropFrom1
<1>5. \A i \in 1..(t - 1) : r[i] \in Entries BY <1>1, <1>2, ElementOfSeq
<1>6. q \in Seq(Entries) /\ Len(q) = t - 1
    <2>1. q \in Seq(Entries) /\ Len(q) = IF 1 <= t - 1 THEN (t - 1) - 1 + 1 ELSE 0 BY <1>2, <1>4, <1>5, SubSeqProperties
    <2> QED BY <1>2, <2>1
<1>7. \A i \in 1..(t - 1) : q[i] = r[i]
    <2>1. \A i \in 1..((t - 1) - 1 + 1) : q[i] = r[1 + i - 1] BY <1>2, <1>4, <1>5, SubSeqProperties
    <2> QED BY <1>2, <2>1
<1>8. \A i \in 1..Len(q) : q[i].step = i /\ q[i].call <= n BY <1>1, <1>2, <1>6, <1>7 DEF Ordered
<1>9. Len(q) <= NSteps BY <1>1, <1>2, <1>6, StepsAssumption
<1>10. Ordered(q, n) BY <1>6, <1>8, <1>9 DEF Ordered
<1> QED BY <1>3, <1>6, <1>7, <1>10

(* What a step has made by the time its gate is asked.                       *)
LEMMA StepMakes ==
    ASSUME LinearInv, pc.at # 0, NEW after, after = Put1(results, Made1(pc.at))
    PROVE  /\ Ordered(after, calls + 1)
           /\ \A j \in 1..pc.at : MadeNow(after, since, j)
           /\ OldAfter(after, since, pc.at)
<1> DEFINE s == pc.at
           new == Made1(s)
<1>1. s \in List /\ s \in Nat /\ s >= 1 /\ s <= NSteps BY StepsAssumption DEF LinearInv, LinearTypeOK, List
<1>2. Ordered(results, calls) /\ calls \in Nat /\ since \in Nat /\ since <= calls BY DEF LinearInv, LinearTypeOK
<1>3. results \in Seq(Entries) /\ Len(results) \in Nat /\ DOMAIN results = 1..Len(results)
    BY <1>2, LenProperties DEF Ordered
<1>4. \A i \in 1..Len(results) : results[i].step = i /\ results[i].call \in Nat
    BY <1>2, <1>3, ElementsAreEntries DEF Ordered
<1>5. \A j \in 1..(s - 1) : MadeNow(results, since, j) BY DEF LinearInv, AtStep
<1>6. s <= Len(results) + 1
    <2>1. CASE s = 1 BY <2>1, <1>3
    <2>2. CASE s # 1
        <3>1. s - 1 \in 1..(s - 1) BY <2>2, <1>1
        <3>2. s - 1 <= Len(results) BY <3>1, <1>5 DEF MadeNow
        <3> QED BY <3>2, <1>1, <1>3
    <2> QED BY <2>1, <2>2
<1>7. new.step = s /\ new.call = calls + 1 /\ new \in Entries
    <2>1. {results[i].call : i \in {j \in DOMAIN results : results[j].step \in DependsOn[s]}} \in SUBSET Nat
        BY <1>3, <1>4
    <2> QED BY <2>1, <1>1, <1>2 DEF Made1, Entries
<1>8. \A d \in DependsOn[s] \cap (1..(s - 1)) : results[d].call \in new.from
    <2> TAKE d \in DependsOn[s] \cap (1..(s - 1))
    <2>1. d \in DOMAIN results /\ results[d].step \in DependsOn[s] BY <1>1, <1>3, <1>4, <1>6
    <2> QED BY <2>1 DEF Made1
<1>9. /\ Ordered(after, calls + 1) /\ s <= Len(after) /\ after[s] = new /\ Len(results) <= Len(after)
      /\ Len(after) = IF s <= Len(results) THEN Len(results) ELSE s
      /\ \A j \in 1..Len(results) : j # s => after[j] = results[j]
    <2>1. calls + 1 \in Nat /\ calls <= calls + 1 BY <1>2
    <2>2. new.step <= Len(results) + 1 /\ new.call <= calls + 1 BY <1>6, <1>7, <1>2
    <2> HIDE DEF new
    <2> QED BY <1>2, <1>7, <2>1, <2>2, PutsInOrder DEF new
<1>10. Len(after) \in Nat BY <1>9, LenProperties DEF Ordered
<1>11. \A j \in 1..(s - 1) : after[j] = results[j] BY <1>1, <1>3, <1>6, <1>9
<1>12. MadeNow(after, since, s)
    <2>1. after[s].call > since BY <1>2, <1>7, <1>9
    <2> QED BY <1>8, <1>9, <1>11, <2>1 DEF MadeNow
<1>13. ASSUME NEW j \in 1..(s - 1) PROVE MadeNow(after, since, j)
    <2>1. MadeNow(results, since, j) BY <1>5
    <2>2. after[j] = results[j] BY <1>11
    <2>3. \A d \in DependsOn[j] \cap (1..(j - 1)) : after[d] = results[d] BY <1>1, <1>11
    <2>4. j <= Len(after) BY <1>1, <1>9, <1>10
    <2> QED BY <2>1, <2>2, <2>3, <2>4 DEF MadeNow
<1>14. OldAfter(after, since, s)
    <2> SUFFICES ASSUME NEW j \in 1..Len(after), j > s PROVE after[j].call <= since BY DEF OldAfter
    <2>1. j \in 1..Len(results) /\ j # s BY <1>1, <1>3, <1>9, <1>10
    <2>2. results[j].call <= since BY <2>1 DEF LinearInv, AtStep, OldAfter
    <2> QED BY <1>9, <2>1, <2>2
<1> QED BY <1>1, <1>9, <1>12, <1>13, <1>14

(* The next step, or a workflow that is complete.                            *)
LEMMA ProceedKeeps ==
    ASSUME LinearInv, pc.at # 0, calls' = calls + 1, results' = Put1(results, Made1(pc.at)),
           Proceed(pc.at), UNCHANGED <<config, since, saved>>
    PROVE  LinearInv'
<1> DEFINE s == pc.at
<1>1. s \in Nat /\ s >= 1 /\ s <= NSteps /\ NSteps \in Nat BY StepsAssumption DEF LinearInv, LinearTypeOK
<1>2. calls \in Nat /\ since \in Nat /\ since <= calls BY DEF LinearInv, LinearTypeOK
<1>3. /\ Ordered(results', calls') /\ \A j \in 1..s : MadeNow(results', since', j)
      /\ OldAfter(results', since', s)
    BY StepMakes DEF config
<1>4. Ordered(saved', calls')
    <2>1. \A i \in 1..Len(saved) : saved[i].call \in Nat
        BY ElementsAreEntries DEF LinearInv, LinearTypeOK, Ordered
    <2> QED BY <1>2, <2>1 DEF LinearInv, LinearTypeOK, Ordered
<1>5. pc' \in [at : 0..NSteps, attempt : Nat] BY <1>1 DEF Proceed, Finish, Idle0
<1>6. LinearTypeOK' BY <1>2, <1>3, <1>4, <1>5 DEF LinearInv, LinearTypeOK, config, ResetPointsValid
<1>7. CASE s = NSteps
    <2>1. pc' = Idle0 /\ status' = [is |-> "completed", step |-> s] BY <1>7 DEF Proceed, Finish
    <2>2. AtStep' BY <2>1 DEF AtStep, Idle0
    <2>3. AtEnd' BY <1>3, <1>7, <2>1 DEF AtEnd, RollsBack, List
    <2> QED BY <1>6, <2>2, <2>3 DEF LinearInv
<1>8. CASE s # NSteps
    <2>1. pc' = [at |-> s + 1, attempt |-> 0] /\ status' = status BY <1>8 DEF Proceed
    <2>2. status.is = "running" BY DEF LinearInv, AtStep
    <2>3. OldAfter(results', since', s + 1) BY <1>1, <1>3 DEF OldAfter
    <2>4. \A j \in 1..((s + 1) - 1) : MadeNow(results', since', j) BY <1>1, <1>3
    <2>5. AtStep' BY <2>1, <2>2, <2>3, <2>4 DEF AtStep
    <2>6. AtEnd' BY <2>1, <2>2 DEF AtEnd, RollsBack
    <2> QED BY <1>6, <2>5, <2>6 DEF LinearInv
<1> QED BY <1>7, <1>8

(* A result that the gate does not accept: again, degraded, or the end.      *)
LEMMA FailedGateKeeps ==
    ASSUME LinearInv, StepFailsGate
    PROVE  LinearInv'
<1> DEFINE s == pc.at
<1>1. PICK after : after = Put1(results, Made1(s)) OBVIOUS
<1>2. s # 0 /\ s \in List /\ s \in Nat /\ s >= 1 /\ s <= NSteps /\ NSteps \in Nat
    BY StepsAssumption DEF LinearInv, LinearTypeOK, StepFailsGate, List
<1>3. calls \in Nat /\ since \in Nat /\ since <= calls /\ calls' = calls + 1 /\ since' = since /\ saved' = saved
    BY DEF LinearInv, LinearTypeOK, StepFailsGate
<1>4. Ordered(after, calls + 1) /\ OldAfter(after, since, s) /\ \A j \in 1..s : MadeNow(after, since, j)
    BY <1>1, <1>2, StepMakes
<1>5. Ordered(saved', calls')
    <2>1. \A i \in 1..Len(saved) : saved[i].call \in Nat
        BY ElementsAreEntries DEF LinearInv, LinearTypeOK, Ordered
    <2> QED BY <1>3, <2>1 DEF LinearInv, LinearTypeOK, Ordered
<1>6. gate' = gate /\ target' = target /\ resetPoints' = resetPoints BY DEF StepFailsGate, config
<1>7. after \in Seq(Entries) /\ Len(after) \in Nat BY <1>4, LenProperties DEF Ordered
<1>8. s <= Len(after)
    <2>1. s \in 1..s BY <1>2
    <2> QED BY <1>4, <2>1 DEF MadeNow
<1>9. target[s] \in 0..NSteps BY <1>2 DEF LinearInv, LinearTypeOK
<1>10. CASE gate[s] = "rollback"
    <2> DEFINE t == target[s]
    <2>1. pc' = Idle0 /\ status' = [is |-> "gate_failed", step |-> s]
        BY <1>10 DEF StepFailsGate, Retrying, Finish
    <2>2. results' = IF Has(after, t) THEN DropFrom1(after, t) ELSE after BY <1>1, <1>10 DEF StepFailsGate
    <2>4. t \in Nat /\ (t # 0 => t \in List) BY <1>2, <1>9 DEF List
    <2>3. Has(after, t) <=> t # 0 /\ t <= Len(after)
        <3>1. CASE t # 0 BY <1>4, <2>4, <3>1, StepAtItsPlace
        <3>2. CASE t = 0
            <4>1. DOMAIN after = 1..Len(after) BY <1>7, LenProperties
            <4>2. \A i \in DOMAIN after : after[i].step = i BY <1>4, <4>1 DEF Ordered
            <4> QED BY <1>7, <3>2, <4>1, <4>2 DEF Has
        <3> QED BY <3>1, <3>2
    <2>5. CASE t # 0 /\ t <= Len(after)
        <3>1. /\ Ordered(results', calls + 1) /\ Len(results') = t - 1
              /\ \A j \in 1..(t - 1) : results'[j] = after[j]
            BY <1>4, <2>2, <2>3, <2>4, <2>5, CutsInOrder
        <3>2. OldAfter(results', since', s)
            <4> SUFFICES ASSUME NEW j \in 1..Len(results)', j > s PROVE results'[j].call <= since' BY DEF OldAfter
            <4>1. j \in 1..Len(after) /\ results'[j] = after[j] BY <1>7, <2>4, <2>5, <3>1
            <4> QED BY <1>3, <1>4, <4>1 DEF OldAfter
        <3>3. ASSUME t <= s PROVE CutAt(results', since', t)
            <4>1. \A j \in 1..(t - 1) : after[j].call > since BY <1>2, <1>4, <2>4, <3>3 DEF MadeNow
            <4> QED BY <1>3, <3>1, <4>1 DEF CutAt
        <3>4. LinearTypeOK'
            BY <1>2, <1>3, <1>5, <1>6, <2>1, <3>1 DEF LinearInv, LinearTypeOK, ResetPointsValid, Idle0
        <3>5. AtStep' BY <2>1 DEF AtStep, Idle0
        <3>6. AtEnd' BY <1>2, <1>6, <2>1, <3>2, <3>3 DEF AtEnd, RollsBack
        <3> QED BY <3>4, <3>5, <3>6 DEF LinearInv
    <2>6. CASE ~(t # 0 /\ t <= Len(after))
        <3>1. results' = after BY <2>2, <2>3, <2>6
        <3>2. t = 0 \/ ~(t <= s) BY <1>2, <1>7, <1>8, <2>4, <2>6
        <3>4. LinearTypeOK'
            BY <1>2, <1>3, <1>4, <1>5, <1>6, <2>1, <3>1 DEF LinearInv, LinearTypeOK, ResetPointsValid, Idle0
        <3>5. AtStep' BY <2>1 DEF AtStep, Idle0
        <3>6. AtEnd' BY <1>2, <1>3, <1>4, <1>6, <2>1, <3>1, <3>2 DEF AtEnd, RollsBack
        <3> QED BY <3>4, <3>5, <3>6 DEF LinearInv
    <2> QED BY <2>5, <2>6
<1>11. CASE gate[s] # "rollback"
    <2>1. results' = after BY <1>1, <1>11 DEF StepFailsGate
    <2>2. CASE Retrying(s)
        <3>1. pc' = [pc EXCEPT !.attempt = @ + 1] /\ status' = status BY <2>2 DEF StepFailsGate
        <3>2. pc' \in [at : 0..NSteps, attempt : Nat] /\ pc'.at = s BY <3>1 DEF LinearInv, LinearTypeOK
        <3>3. LinearTypeOK'
            BY <1>3, <1>4, <1>5, <1>6, <2>1, <3>2 DEF LinearInv, LinearTypeOK, ResetPointsValid
        <3>4. status.is = "running" BY <1>2 DEF LinearInv, AtStep
        <3>5. \A j \in 1..(s - 1) : MadeNow(after, since, j) BY <1>2, <1>4
        <3>6. AtStep' BY <1>3, <1>4, <2>1, <3>1, <3>2, <3>4, <3>5 DEF AtStep
        <3>7. AtEnd' BY <3>1, <3>4 DEF AtEnd, RollsBack
        <3> QED BY <3>3, <3>6, <3>7 DEF LinearInv
    <2>3. CASE ~Retrying(s) /\ gate[s] = "degrade"
        <3>1. Proceed(s) BY <2>3 DEF StepFailsGate
        <3>2. UNCHANGED <<config, since, saved>> BY DEF StepFailsGate
        <3> QED BY <1>1, <1>2, <1>3, <2>1, <3>1, <3>2, ProceedKeeps
    <2>4. CASE ~Retrying(s) /\ gate[s] # "degrade"
        <3>1. /\ pc' = Idle0 /\ status'.step = s /\ status'.is \in {"error", "gate_failed"}
            BY <2>4 DEF StepFailsGate, Finish
        <3>2. LinearTypeOK'
            BY <1>2, <1>3, <1>4, <1>5, <1>6, <2>1, <3>1 DEF LinearInv, LinearTypeOK, ResetPointsValid, Idle0
        <3>3. AtStep' BY <3>1 DEF AtStep, Idle0
        <3>4. AtEnd' BY <1>2, <1>3, <1>4, <1>6, <1>11, <2>1, <3>1 DEF AtEnd, RollsBack
        <3> QED BY <3>2, <3>3, <3>4 DEF LinearInv
    <2> QED BY <2>2, <2>3, <2>4
<1> QED BY <1>10, <1>11

(* A step that ends the execution with an error keeps what it made.          *)
LEMMA ErrorKeeps ==
    ASSUME LinearInv, pc.at # 0, calls' = calls + 1, Finish("error", pc.at),
           UNCHANGED <<config, since, saved>>,
           results' = results \/ results' = Put1(results, Made1(pc.at))
    PROVE  LinearInv'
<1> DEFINE s == pc.at
<1>1. s \in List /\ NSteps \in Nat BY StepsAssumption DEF LinearInv, LinearTypeOK, List
<1>2. calls \in Nat /\ since \in Nat /\ since <= calls /\ since' = since /\ saved' = saved
    BY DEF LinearInv, LinearTypeOK
<1>3. ASSUME NEW r, Ordered(r, calls) PROVE Ordered(r, calls')
    <2>1. \A i \in 1..Len(r) : r[i].call \in Nat BY <1>3, ElementsAreEntries DEF Ordered
    <2> QED BY <1>2, <1>3, <2>1 DEF Ordered
<1>4. Ordered(results', calls') /\ OldAfter(results', since', s)
    <2>1. CASE results' = results BY <1>2, <1>3, <2>1 DEF LinearInv, LinearTypeOK, AtStep
    <2>2. CASE results' = Put1(results, Made1(s)) BY <1>2, <2>2, StepMakes
    <2> QED BY <2>1, <2>2
<1>5. Ordered(saved', calls') BY <1>2, <1>3 DEF LinearInv, LinearTypeOK
<1>6. pc' = Idle0 /\ status' = [is |-> "error", step |-> s] BY DEF Finish
<1>7. gate' = gate /\ target' = target /\ resetPoints' = resetPoints BY DEF config
<1>8. LinearTypeOK'
    BY <1>1, <1>2, <1>4, <1>5, <1>6, <1>7 DEF LinearInv, LinearTypeOK, ResetPointsValid, Idle0
<1>9. AtStep' BY <1>6 DEF AtStep, Idle0
<1>10. AtEnd' BY <1>1, <1>4, <1>6 DEF AtEnd, RollsBack
<1> QED BY <1>8, <1>9, <1>10 DEF LinearInv

LEMMA LinearInvStep ==
    ASSUME LinearInv, [LinearStep]_linearVars
    PROVE  LinearInv'
<1>1. NSteps \in Nat /\ calls \in Nat /\ since \in Nat /\ since <= calls
    BY StepsAssumption DEF LinearInv, LinearTypeOK
<1>2. ASSUME Execute PROVE LinearInv'
    <2>1. pc' = [at |-> 1, attempt |-> 0] /\ status'.is = "running" /\ since' = calls /\ calls' = calls
        /\ results' = results /\ saved' = saved /\ gate' = gate /\ target' = target /\ resetPoints' = resetPoints
        BY <1>2 DEF Execute, config
    <2>2. 1 \in 0..NSteps BY StepsAssumption
    <2>3. LinearTypeOK' BY <1>1, <2>1, <2>2 DEF LinearInv, LinearTypeOK, ResetPointsValid
    <2>4. AtStep' BY <2>1 DEF LinearInv, LinearTypeOK, Ordered, AtStep, OldAfter
    <2>5. AtEnd' BY <2>1 DEF AtEnd, RollsBack
    <2> QED BY <2>3, <2>4, <2>5 DEF LinearInv
<1>3. ASSUME StepPasses PROVE LinearInv' BY <1>3, ProceedKeeps DEF StepPasses
<1>4. ASSUME StepRaises PROVE LinearInv' BY <1>4, ErrorKeeps DEF StepRaises
<1>5. ASSUME StepFailsGate PROVE LinearInv' BY <1>5, FailedGateKeeps
<1>6. ASSUME StepAsks PROVE LinearInv'
    <2>1. CASE approval[pc.at] = "approved" BY <1>6, <2>1, ProceedKeeps DEF StepAsks
    <2>2. CASE approval[pc.at] # "approved" BY <1>6, <2>2, ErrorKeeps DEF StepAsks
    <2> QED BY <2>1, <2>2
<1>7. ASSUME Reset \/ Restore PROVE LinearInv'
    <2>1. /\ pc' = pc /\ pc = Idle0 /\ status'.is = "new" /\ since' = since /\ calls' = calls /\ saved' = saved
          /\ gate' = gate /\ target' = target /\ resetPoints' = resetPoints
        BY <1>7 DEF Reset, Restore, config
    <2>2. Ordered(results', calls')
        <3>1. CASE Reset
            <4>1. results' = <<>> BY <3>1 DEF Reset
            <4>2. <<>> \in Seq(Entries) /\ Len(<<>>) = 0 BY EmptySeq
            <4>3. Ordered(<<>>, calls) BY <1>1, <4>2 DEF Ordered
            <4> QED BY <2>1, <4>1, <4>3
        <3>2. CASE Restore BY <2>1, <3>2 DEF Restore, LinearInv, LinearTypeOK
        <3> QED BY <1>7, <3>1, <3>2
    <2>3. LinearTypeOK' BY <2>1, <2>2 DEF LinearInv, LinearTypeOK, ResetPointsValid
    <2>4. AtStep' BY <2>1 DEF AtStep, Idle0
    <2>5. AtEnd' BY <2>1 DEF AtEnd, RollsBack
    <2> QED BY <2>3, <2>4, <2>5 DEF LinearInv
<1>8. ASSUME Checkpoint PROVE LinearInv'
    BY <1>8 DEF Checkpoint, config, LinearInv, LinearTypeOK, AtStep, AtEnd, RollsBack, ResetPointsValid
<1>9. ASSUME NEW s \in List, Approve1(s) PROVE LinearInv'
    BY <1>9 DEF Approve1, config, LinearInv, LinearTypeOK, AtStep, AtEnd, RollsBack, ResetPointsValid
<1>10. ASSUME UNCHANGED linearVars PROVE LinearInv'
    BY <1>10 DEF linearVars, LinearInv, LinearTypeOK, AtStep, AtEnd, RollsBack, ResetPointsValid
<1> QED BY <1>2, <1>3, <1>4, <1>5, <1>6, <1>7, <1>8, <1>9, <1>10 DEF LinearStep

LEMMA LinearInvInit ==
    ASSUME LinearInit
    PROVE  LinearInv
<1>1. PICK c \in Gatings : ResetPointsValid(c.gate, c.target, c.points) /\ LinearAt(c) BY DEF LinearInit
<1>2. <<>> \in Seq(Entries) /\ Len(<<>>) = 0 BY EmptySeq
<1>3. NSteps \in Nat /\ 0 \in 0..NSteps BY StepsAssumption
<1>4. Ordered(<<>>, 0) BY <1>2, <1>3 DEF Ordered
<1>5. pc = Idle0 /\ status.is = "new" /\ results = <<>> /\ saved = <<>> /\ calls = 0 /\ since = 0 BY <1>1 DEF LinearAt
<1>6. target \in [List -> 0..NSteps] /\ ResetPointsValid(gate, target, resetPoints)
    BY <1>1, GatingsAssumption DEF LinearAt, List
<1>7. LinearTypeOK BY <1>3, <1>4, <1>5, <1>6 DEF LinearTypeOK, Idle0
<1>8. AtStep BY <1>5 DEF AtStep, Idle0
<1>9. AtEnd BY <1>5 DEF AtEnd, RollsBack
<1> QED BY <1>7, <1>8, <1>9 DEF LinearInv

(* What an execution tells its caller follows.                               *)
LEMMA LinearInvTells ==
    ASSUME LinearInv
    PROVE  LinearOutcome
<1>1. Ordered(results, calls) BY DEF LinearInv, LinearTypeOK
<1>2. results \in Seq(Entries) /\ Len(results) \in Nat /\ DOMAIN results = 1..Len(results)
    BY <1>1, LenProperties DEF Ordered
<1>3. NSteps \in Nat /\ since \in Nat /\ \A s \in List : s \in Nat /\ s >= 1
    BY StepsAssumption DEF List, LinearInv, LinearTypeOK
<1>4. \A i \in 1..Len(results) : results[i].step = i /\ results[i].call \in Nat
    BY <1>1, <1>2, ElementsAreEntries DEF Ordered
<1>5. \A s \in List : Fresh(s) <=> s <= Len(results) /\ results[s].call > since
    BY <1>2, <1>3, <1>4 DEF Fresh
<1>6. RollbackIsExact
    <2> SUFFICES ASSUME RollsBack
                 PROVE LET t == target[status.step] IN
                       /\ t <= status.step => \A s \in List : Has(results, s) => s < t
                       /\ t <= status.step => \A s \in 1..(t - 1) : Fresh(s)
                       /\ resetPoints # {} => t \in resetPoints
        BY DEF RollbackIsExact, RollsBack
    <2> DEFINE t == target[status.step]
    <2>1. status.step \in List BY DEF RollsBack, LinearInv, AtEnd
    <2>2. t \in List BY <1>3, <2>1 DEF LinearInv, LinearTypeOK, RollsBack, List
    <2>3. resetPoints # {} => t \in resetPoints
        BY <2>1 DEF RollsBack, LinearInv, LinearTypeOK, ResetPointsValid
    <2>4. ASSUME t <= status.step
          PROVE (\A s \in List : Has(results, s) => s < t) /\ \A s \in 1..(t - 1) : Fresh(s)
        <3>1. CutAt(results, since, t) BY <2>4 DEF LinearInv, AtEnd
        <3>2. Len(results) = t - 1 /\ t \in Nat /\ t <= NSteps BY <2>2, <3>1, <1>3 DEF CutAt, List
        <3>3. ASSUME NEW s \in List, Has(results, s) PROVE s < t
            <4>1. s <= Len(results) BY <1>1, <3>3, StepAtItsPlace
            <4> QED BY <4>1, <3>2, <1>3
        <3>4. ASSUME NEW s \in 1..(t - 1) PROVE Fresh(s)
            <4>1. s \in List BY <3>2, <1>3 DEF List
            <4>2. s <= Len(results) /\ results[s].call > since BY <3>1, <3>2 DEF CutAt
            <4> QED BY <4>1, <4>2, <1>5
        <3> QED BY <3>3, <3>4
    <2> QED BY <2>3, <2>4
<1>7. ASSUME status.is = "completed", NEW s \in List
      PROVE  /\ Fresh(s)
             /\ \A d \in DependsOn[s] \cap (1..(s - 1)) :
                    results[CallOf(results, d)].call \in results[CallOf(results, s)].from
    <2>1. MadeNow(results, since, s) BY <1>7 DEF LinearInv, AtEnd
    <2>2. Fresh(s) /\ CallOf(results, s) = s BY <1>1, <1>5, <2>1, StepAtItsPlace DEF MadeNow
    <2>3. ASSUME NEW d \in DependsOn[s] \cap (1..(s - 1))
          PROVE  results[CallOf(results, d)].call \in results[CallOf(results, s)].from
        <3>1. d \in List /\ d <= Len(results) BY <1>2, <1>3, <2>1 DEF List, MadeNow
        <3>2. CallOf(results, d) = d BY <1>1, <3>1, StepAtItsPlace
        <3> QED BY <2>1, <2>2, <3>2 DEF MadeNow
    <2> QED BY <2>2, <2>3
<1>8. ASSUME status.is \in {"gate_failed", "error"}, NEW s \in List, s > status.step
      PROVE  ~Fresh(s)
    <2>1. OldAfter(results, since, status.step) BY <1>8 DEF LinearInv, AtEnd
    <2>2. s \in 1..Len(results) => results[s].call <= since BY <1>8, <2>1 DEF OldAfter
    <2>3. s <= Len(results) => ~(results[s].call > since) BY <1>2, <1>3, <1>4, <2>2
    <2> QED BY <1>5, <2>3
<1>9. CompletedIsOwn BY <1>7, <1>8 DEF CompletedIsOwn
<1> QED BY <1>6, <1>9 DEF LinearOutcome

(* Whatever one caller does with the engine - executions, gates that retry   *)
(* or roll back, resets, checkpoints and restores in any order - an          *)
(* execution that completes has made every result itself and from the ones   *)
(* before it, and a rollback goes back to exactly its target.                *)
THEOREM LinearTells == LinearSpec => []LinearOutcome
<1>1. LinearInit => LinearInv BY LinearInvInit
<1>2. LinearInv /\ [LinearStep]_linearVars => LinearInv' BY LinearInvStep
<1>3. LinearInv => LinearOutcome BY LinearInvTells
<1> QED BY <1>1, <1>2, <1>3, PTL DEF LinearSpec

---------------------------------------------------------------------------
(* Tool adapters.  What a call has and what a server has been asked.         *)
Requests == ToolCalls \cup {Hello}
Answers3 == Requests \cup {"none", "failed", "ended"}
CallPcs == {"new", "spawns", "greets", "reads", "shell", "left", "http", "done"}

AdapterTypeOK ==
    /\ call \in [ToolCalls -> [pc : CallPcs, on : 0..MaxSpawns, got : Answers3]]
    /\ asked \in [Servers -> Seq(Requests)] /\ said \in [Servers -> Nat] /\ heard \in [Servers -> Nat]
    /\ \A p \in Servers : heard[p] <= said[p] /\ said[p] <= Len(asked[p])
    /\ alive \subseteq Spawned /\ \E k \in 0..MaxSpawns : Spawned = 1..k

(* Where a call is, and whether it has been written to a server yet.         *)
CallInOrder(c) ==
    /\ call[c].pc \in {"new", "spawns", "shell", "left", "http"} => call[c].on = 0
    /\ call[c].pc \in {"greets", "reads"} => call[c].on \in Spawned
    /\ call[c].pc \notin {"left", "done"} => call[c].got = "none"
    /\ call[c].pc \in {"new", "spawns", "greets"} =>
          \A p \in Servers : \A i \in 1..Len(asked[p]) : asked[p][i] # c

(* What a call returned is a line of its server that was read, and nobody    *)
(* else's; from a server that is not muddled it is its own.                  *)
Returned(c) == call[c].pc = "done" /\ call[c].on # 0 /\ call[c].got # "failed"
GotItsOwn(c) ==
    Returned(c) =>
        /\ call[c].on \in Spawned
        /\ \E k \in 1..heard[call[c].on] : asked[call[c].on][k] = call[c].got
        /\ call[c].got = c \/ call[c].on \in muddled
        /\ \A d \in ToolCalls \ {c} : call[d].on = call[c].on => call[d].got # call[c].got

(* A server that is not muddled has one reader, who waits for the last line. *)
ServerInOrder(p) ==
    /\ \A i, j \in 1..Len(asked[p]) : asked[p][i] = asked[p][j] => i = j
    /\ p \notin muddled =>
          /\ \A c, d \in Readers(p) : c = d
          /\ \A c \in Readers(p) : Len(asked[p]) = heard[p] + 1 /\
                (call[c].pc = "reads" => asked[p][heard[p] + 1] = c)
          /\ Readers(p) = {} /\ p \in alive => Len(asked[p]) = heard[p]

AdapterInv ==
    /\ AdapterTypeOK
    /\ \A c \in ToolCalls : CallInOrder(c) /\ GotItsOwn(c)
    /\ \A p \in Servers : ServerInOrder(p)

---------------------------------------------------------------------------
(* Types that the steps below keep using.                                    *)
LEMMA AdapterTypes ==
    ASSUME AdapterTypeOK
    PROVE  /\ \A p \in Servers : /\ asked[p] \in Seq(Requests) /\ Len(asked[p]) \in Nat
                                 /\ said[p] \in Nat /\ heard[p] \in Nat
           /\ Spawned \subseteq Servers /\ Servers \subseteq Nat \ {0}
<1>1. ASSUME NEW p \in Servers
      PROVE  asked[p] \in Seq(Requests) /\ Len(asked[p]) \in Nat /\ said[p] \in Nat /\ heard[p] \in Nat
    <2>1. asked[p] \in Seq(Requests) /\ said[p] \in Nat /\ heard[p] \in Nat BY DEF AdapterTypeOK
    <2> QED BY <2>1, LenProperties
<1> QED BY <1>1, RedirectsAssumption DEF Spawned, Servers

(* A call that has nothing to do with a server changes alone.                *)
LEMMA ApartKeeps ==
    ASSUME AdapterInv, NEW c \in ToolCalls, NEW v \in [pc : CallPcs, on : 0..MaxSpawns, got : Answers3],
           call[c].on = 0, call[c].pc \notin {"greets", "reads"},
           v.on = 0, v.pc \notin {"greets", "reads"}, v.pc \notin {"left", "done"} => v.got = "none",
           v.pc \in {"new", "spawns"} => call[c].pc \in {"new", "spawns"},
           call' = [call EXCEPT ![c] = v], UNCHANGED <<alive, asked, said, heard, muddled>>
    PROVE  AdapterInv'
<1>1. call \in [ToolCalls -> [pc : CallPcs, on : 0..MaxSpawns, got : Answers3]] BY DEF AdapterInv, AdapterTypeOK
<1>2. call'[c] = v /\ \A d \in ToolCalls : d # c => call'[d] = call[d] BY <1>1
<1>3. Spawned' = Spawned /\ Spawned \subseteq Servers /\ 0 \notin Servers
    BY AdapterTypes DEF AdapterInv, Spawned
<1>4. AdapterTypeOK'
    <2>1. call' \in [ToolCalls -> [pc : CallPcs, on : 0..MaxSpawns, got : Answers3]] BY <1>1
    <2> QED BY <1>3, <2>1 DEF AdapterInv, AdapterTypeOK
<1>5. ASSUME NEW p \in Servers PROVE Readers(p)' = Readers(p) BY <1>2 DEF Readers
<1>6. ASSUME NEW p \in Servers PROVE ServerInOrder(p)'
    <2>1. \A d \in Readers(p) : d # c BY DEF Readers
    <2>2. \A d \in Readers(p) : call'[d] = call[d] BY <2>1, <1>2 DEF Readers
    <2>3. ServerInOrder(p) BY DEF AdapterInv
    <2> QED BY <1>5, <2>2, <2>3 DEF ServerInOrder
<1>7. ASSUME NEW d \in ToolCalls PROVE CallInOrder(d)'
    <2>1. CallInOrder(d) /\ CallInOrder(c) BY DEF AdapterInv
    <2>2. CASE d = c BY <1>2, <2>1, <2>2 DEF CallInOrder
    <2>3. CASE d # c BY <1>2, <1>3, <2>1, <2>3 DEF CallInOrder
    <2> QED BY <2>2, <2>3
<1>8. ASSUME NEW d \in ToolCalls PROVE GotItsOwn(d)'
    <2> SUFFICES ASSUME Returned(d)' PROVE GotItsOwn(d)' BY DEF GotItsOwn
    <2>1. d # c BY <1>2 DEF Returned
    <2>2. call'[d] = call[d] BY <1>2, <2>1
    <2>3. GotItsOwn(d) /\ Returned(d) BY <2>2 DEF AdapterInv, Returned
    <2>4. ASSUME NEW e \in ToolCalls \ {d}, call'[e].on = call'[d].on PROVE call'[e].got # call'[d].got
        <3>1. e # c BY <2>2, <2>4, <1>2, <2>3 DEF Returned
        <3> QED BY <1>2, <2>2, <2>3, <2>4, <3>1 DEF GotItsOwn
    <2> QED BY <1>3, <2>2, <2>3, <2>4 DEF GotItsOwn
<1> QED BY <1>4, <1>6, <1>7, <1>8 DEF AdapterInv

(* A request goes to the server the bridge has now, after a handshake of     *)
(* another one or of the same.                                               *)
LEMMA SendKeeps ==
    ASSUME AdapterInv, NEW c \in ToolCalls, NEW up, NEW mud, Send(c, up, mud),
           call[c].pc \in {"new", "greets"}, muddled \subseteq mud, UNCHANGED <<alive, said>>,
           heard' \in [Servers -> Nat],
           \A q \in Servers : heard[q] <= heard'[q] /\ heard'[q] <= said[q],
           \A q \in Servers : q # call[c].on => heard'[q] = heard[q],
           call[c].pc = "greets" =>
               \/ call[c].on \in mud \/ heard'[call[c].on] = heard[call[c].on] + 1
               \/ call[c].on \notin alive /\ heard'[call[c].on] = heard[call[c].on]
    PROVE  AdapterInv'
<1> DEFINE p0 == call[c].on
<1>1. call \in [ToolCalls -> [pc : CallPcs, on : 0..MaxSpawns, got : Answers3]] /\ asked \in [Servers -> Seq(Requests)]
    BY DEF AdapterInv, AdapterTypeOK
<1>2. \A q \in Servers : /\ asked[q] \in Seq(Requests) /\ Len(asked[q]) \in Nat
                         /\ said[q] \in Nat /\ heard[q] \in Nat /\ heard'[q] \in Nat
    BY AdapterTypes DEF AdapterInv
<1>3. Spawned \subseteq Servers /\ Servers \subseteq Nat \ {0} BY AdapterTypes DEF AdapterInv
<1>4. CallInOrder(c) /\ call[c].got = "none" BY DEF AdapterInv, CallInOrder
<1>5. p0 = 0 \/ p0 \in Spawned BY <1>4 DEF CallInOrder
<1>6. c \in Requests /\ c # "none" /\ c # "failed" /\ c # Hello BY ToolCallsAssumption DEF Requests, Hello
<1>7. \A q \in Servers : \A i \in 1..Len(asked[q]) : asked[q][i] # c BY <1>4 DEF CallInOrder
<1>8. \A d \in ToolCalls : ~(Returned(d) /\ d = c) BY DEF Returned
<1>9. CASE up \notin alive
    <2>1. call' = Answered(c, "failed") /\ muddled' = mud /\ asked' = asked BY <1>9 DEF Send
    <2>2. PICK v : v = [call[c] EXCEPT !.pc = "done", !.got = "failed"] OBVIOUS
    <2>3. v \in [pc : CallPcs, on : 0..MaxSpawns, got : Answers3] /\ v.pc = "done" /\ v.on = p0 /\ v.got = "failed"
        BY <1>1, <2>2 DEF CallPcs, Answers3
    <2>4. call' = [call EXCEPT ![c] = v] BY <1>1, <2>1, <2>2 DEF Answered
    <2>5. call'[c] = v /\ \A d \in ToolCalls : d # c => call'[d] = call[d] BY <1>1, <2>4
    <2>6. Spawned' = Spawned BY <2>1 DEF Spawned
    <2>7. AdapterTypeOK'
        <3>1. call' \in [ToolCalls -> [pc : CallPcs, on : 0..MaxSpawns, got : Answers3]] BY <1>1, <2>3, <2>4
        <3> QED BY <1>2, <2>1, <2>6, <3>1 DEF AdapterInv, AdapterTypeOK
    <2>8. ASSUME NEW q \in Servers PROVE Readers(q)' = Readers(q) \ {c} BY <2>3, <2>5 DEF Readers
    <2>9. ASSUME NEW q \in Servers PROVE ServerInOrder(q)'
        <3>1. ServerInOrder(q) BY DEF AdapterInv
        <3>2. \A d \in Readers(q)' : d \in Readers(q) /\ d # c /\ call'[d] = call[d] BY <2>5, <2>8 DEF Readers
        <3>3. CASE q # p0
            <4>1. c \notin Readers(q) BY <3>3 DEF Readers
            <4>2. Readers(q)' = Readers(q) /\ heard'[q] = heard[q] BY <2>8, <3>3, <4>1
            <4> QED BY <2>1, <3>1, <3>2, <4>2 DEF ServerInOrder
        <3>4. CASE q = p0 /\ q \in mud BY <2>1, <3>1, <3>4 DEF ServerInOrder
        <3>5. CASE q = p0 /\ q \notin mud
            <4>1. c \in Readers(q) BY <1>3, <1>4, <3>5 DEF Readers, CallInOrder
            <4>2. q \notin muddled BY <3>5
            <4>3. Readers(q) = {c} /\ Len(asked[q]) = heard[q] + 1 BY <3>1, <4>1, <4>2 DEF ServerInOrder
            <4>4. Readers(q)' = {} BY <2>8, <4>3
            <4>5. call[c].pc = "greets" BY <4>1 DEF Readers
            <4>6. q \notin alive \/ heard'[q] = Len(asked[q]) BY <3>5, <4>3, <4>5
            <4> QED BY <2>1, <3>1, <4>4, <4>6 DEF ServerInOrder
        <3> QED BY <3>3, <3>4, <3>5
    <2>10. ASSUME NEW d \in ToolCalls PROVE CallInOrder(d)'
        <3>1. CASE d = c BY <2>3, <2>5, <3>1 DEF CallInOrder
        <3>2. CASE d # c
            <4>1. CallInOrder(d) BY DEF AdapterInv
            <4> QED BY <2>1, <2>5, <2>6, <3>2, <4>1 DEF CallInOrder
        <3> QED BY <3>1, <3>2
    <2>11. ASSUME NEW d \in ToolCalls, Returned(d)' PROVE GotItsOwn(d)'
        <3>1. d # c BY <2>3, <2>5, <2>11 DEF Returned
        <3>2. call'[d] = call[d] /\ Returned(d) BY <2>5, <2>11, <3>1 DEF Returned
        <3>3. GotItsOwn(d) BY DEF AdapterInv
        <3>4. ASSUME NEW e \in ToolCalls \ {d}, call'[e].on = call'[d].on PROVE call'[e].got # call'[d].got
            <4>1. CASE e = c BY <2>3, <2>5, <3>2, <4>1 DEF Returned
            <4>2. CASE e # c BY <2>5, <3>2, <3>3, <3>4, <4>2 DEF GotItsOwn
            <4> QED BY <4>1, <4>2
        <3>5. \E k \in 1..heard'[call[d].on] : asked[call[d].on][k] = call[d].got
            <4>1. PICK k \in 1..heard[call[d].on] : asked[call[d].on][k] = call[d].got BY <3>2, <3>3 DEF GotItsOwn
            <4>2. call[d].on \in Servers BY <1>3, <3>2, <3>3 DEF GotItsOwn
            <4>3. k \in 1..heard'[call[d].on] BY <1>2, <4>1, <4>2
            <4> QED BY <4>1, <4>3
        <3> QED BY <2>1, <2>6, <3>2, <3>3, <3>4, <3>5 DEF GotItsOwn
    <2> QED BY <2>7, <2>9, <2>10, <2>11 DEF AdapterInv, GotItsOwn
<1>10. CASE up \in alive
    <2>1. /\ asked' = [asked EXCEPT ![up] = Append(asked[up], c)]
          /\ call' = [call EXCEPT ![c] = [pc |-> "reads", on |-> up, got |-> "none"]]
          /\ muddled' = IF Readers(up) \ {c} # {} THEN mud \cup {up} ELSE mud
        BY <1>10 DEF Send
    <2>2. PICK v : v = [pc |-> "reads", on |-> up, got |-> "none"] OBVIOUS
    <2>3. up \in Spawned /\ up \in Servers BY <1>3, <1>10 DEF AdapterInv, AdapterTypeOK
    <2>4. v \in [pc : CallPcs, on : 0..MaxSpawns, got : Answers3] /\ v.pc = "reads" /\ v.on = up /\ v.got = "none"
        BY <2>2, <2>3 DEF CallPcs, Answers3, Servers
    <2>5. call'[c] = v /\ \A d \in ToolCalls : d # c => call'[d] = call[d] BY <1>1, <2>1, <2>2
    <2>6. /\ asked'[up] \in Seq(Requests) /\ Len(asked'[up]) = Len(asked[up]) + 1
          /\ asked'[up][Len(asked[up]) + 1] = c /\ \A i \in 1..Len(asked[up]) : asked'[up][i] = asked[up][i]
        <3>1. PICK z : z = Append(asked[up], c) OBVIOUS
        <3>2. asked'[up] = z BY <1>1, <2>1, <2>3, <3>1
        <3>3. /\ z \in Seq(Requests) /\ Len(z) = Len(asked[up]) + 1 /\ z[Len(asked[up]) + 1] = c
              /\ \A i \in 1..Len(asked[up]) : z[i] = asked[up][i]
            BY <1>2, <1>6, <2>3, <3>1, AppendProperties
        <3> QED BY <3>2, <3>3
    <2>7. \A q \in Servers : q # up => asked'[q] = asked[q] BY <1>1, <2>1
    <2>8. Spawned' = Spawned
        <3>1. asked[up] # <<>> BY <2>3 DEF Spawned
        <3>2. asked'[up] # <<>> BY <1>2, <2>3, <2>6
        <3> QED BY <2>7, <3>1, <3>2 DEF Spawned
    <2>9. AdapterTypeOK'
        <3>1. call' \in [ToolCalls -> [pc : CallPcs, on : 0..MaxSpawns, got : Answers3]] BY <1>1, <2>1, <2>2, <2>4
        <3>2. asked' \in [Servers -> Seq(Requests)] BY <1>1, <2>1, <2>3, <2>6
        <3>3. \A q \in Servers : heard'[q] <= said'[q] /\ said'[q] <= Len(asked'[q])
            <4> TAKE q \in Servers
            <4>1. said[q] <= Len(asked[q]) BY DEF AdapterInv, AdapterTypeOK
            <4>2. CASE q = up BY <1>2, <2>6, <4>1, <4>2
            <4>3. CASE q # up BY <2>7, <4>1, <4>3
            <4> QED BY <4>2, <4>3
        <3> QED BY <2>8, <3>1, <3>2, <3>3 DEF AdapterInv, AdapterTypeOK
    <2>10. ASSUME NEW q \in Servers PROVE Readers(q)' = IF q = up THEN Readers(q) \cup {c} ELSE Readers(q) \ {c}
        BY <2>4, <2>5 DEF Readers
    <2>11. ASSUME NEW q \in Servers PROVE ServerInOrder(q)'
        <3>1. ServerInOrder(q) BY DEF AdapterInv
        <3>2. \A d \in Readers(q)' : d # c => d \in Readers(q) /\ call'[d] = call[d] BY <2>5, <2>10 DEF Readers
        <3>3. muddled \subseteq muddled' /\ mud \subseteq muddled' BY <2>1
        <3>4. \A i, j \in 1..Len(asked'[q]) : asked'[q][i] = asked'[q][j] => i = j
            <4>1. CASE q # up BY <2>7, <3>1, <4>1 DEF ServerInOrder
            <4>2. CASE q = up
                <5>1. \A i \in 1..Len(asked'[q]) : i # Len(asked[q]) + 1 => i \in 1..Len(asked[q])
                    BY <1>2, <2>6, <4>2
                <5>2. \A i \in 1..Len(asked[up]) : asked'[up][i] # c BY <1>7, <2>3, <2>6
                <5>3. \A i, j \in 1..Len(asked[up]) : asked'[up][i] = asked'[up][j] => i = j
                    BY <2>6, <3>1, <4>2 DEF ServerInOrder
                <5> QED BY <5>1, <5>2, <5>3, <2>6, <4>2
            <4> QED BY <4>1, <4>2
        <3>5. ASSUME q \notin muddled', q # up
              PROVE  /\ \A d, e \in Readers(q)' : d = e
                     /\ \A d \in Readers(q)' : Len(asked'[q]) = heard'[q] + 1 /\
                           (call'[d].pc = "reads" => asked'[q][heard'[q] + 1] = d)
                     /\ Readers(q)' = {} /\ q \in alive' => Len(asked'[q]) = heard'[q]
            <4>1. q \notin muddled /\ q \notin mud /\ asked'[q] = asked[q] BY <2>7, <3>3, <3>5
            <4>2. Readers(q)' = Readers(q) \ {c} BY <2>10, <3>5
            <4>3. CASE q # p0
                <5>1. c \notin Readers(q) BY <4>3 DEF Readers
                <5>2. Readers(q)' = Readers(q) /\ heard'[q] = heard[q] BY <4>2, <4>3, <5>1
                <5> QED BY <3>1, <3>2, <4>1, <5>1, <5>2 DEF ServerInOrder
            <4>4. CASE q = p0
                <5>1. c \in Readers(q) BY <1>3, <1>4, <4>4 DEF Readers, CallInOrder
                <5>2. Readers(q) = {c} /\ Len(asked[q]) = heard[q] + 1 BY <3>1, <4>1, <5>1 DEF ServerInOrder
                <5>3. Readers(q)' = {} BY <4>2, <5>2
                <5>4. call[c].pc = "greets" BY <5>1 DEF Readers
                <5>5. q \notin alive \/ heard'[q] = Len(asked[q]) BY <4>1, <4>4, <5>2, <5>4
                <5> QED BY <4>1, <5>3, <5>5
            <4> QED BY <4>3, <4>4
        <3>6. ASSUME up \notin muddled'
              PROVE  Readers(up)' = {c} /\ Len(asked'[up]) = heard'[up] + 1
            <4>1. Readers(up) \ {c} = {} /\ up \notin mud /\ up \notin muddled BY <2>1, <3>6
            <4>2. Readers(up)' = {c} BY <2>3, <2>10, <4>1
            <4>3. ServerInOrder(up) BY <2>3 DEF AdapterInv
            <4>4. CASE p0 = up
                <5>1. call[c].pc = "greets" BY <1>3, <1>4, <2>3, <4>4 DEF CallInOrder
                <5>2. c \in Readers(up) BY <4>4, <5>1 DEF Readers
                <5>3. Len(asked[up]) = heard[up] + 1 BY <4>1, <4>3, <5>2 DEF ServerInOrder
                <5>4. heard'[up] = heard[up] + 1 BY <1>10, <4>1, <4>4, <5>1
                <5> QED BY <1>2, <2>3, <2>6, <4>2, <5>3, <5>4
            <4>5. CASE p0 # up
                <5>1. c \notin Readers(up) BY <4>5 DEF Readers
                <5>2. Readers(up) = {} BY <4>1, <5>1
                <5>3. Len(asked[up]) = heard[up] BY <1>10, <4>1, <4>3, <5>2 DEF ServerInOrder
                <5>4. heard'[up] = heard[up] BY <2>3, <4>5
                <5> QED BY <1>2, <2>3, <2>6, <4>2, <5>3, <5>4
            <4> QED BY <4>4, <4>5
        <3>7. CASE q # up BY <3>4, <3>5, <3>7 DEF ServerInOrder
        <3>8. CASE q = up
            <4>1. ASSUME up \notin muddled' PROVE asked'[up][heard'[up] + 1] = c
                <5>1. heard'[up] = Len(asked[up]) BY <1>2, <2>3, <2>6, <3>6, <4>1
                <5> QED BY <2>6, <5>1
            <4> QED BY <3>4, <3>6, <3>8, <4>1 DEF ServerInOrder
        <3> QED BY <3>7, <3>8
    <2>12. ASSUME NEW d \in ToolCalls PROVE CallInOrder(d)'
        <3>1. CASE d = c BY <2>3, <2>4, <2>5, <2>8, <3>1 DEF CallInOrder
        <3>2. CASE d # c
            <4>1. CallInOrder(d) BY DEF AdapterInv
            <4>2. ASSUME call[d].pc \in {"new", "spawns", "greets"}, NEW q \in Servers, NEW i \in 1..Len(asked'[q])
                  PROVE  asked'[q][i] # d
                <5>1. CASE q # up BY <2>7, <4>1, <4>2, <5>1 DEF CallInOrder
                <5>2. CASE q = up
                    <6>1. i \in 1..Len(asked[up]) \/ i = Len(asked[up]) + 1 BY <1>2, <2>3, <2>6, <4>2, <5>2
                    <6> QED BY <2>3, <2>6, <3>2, <4>1, <4>2, <5>2, <6>1 DEF CallInOrder
                <5> QED BY <5>1, <5>2
            <4> QED BY <2>5, <2>8, <3>2, <4>1, <4>2 DEF CallInOrder
        <3> QED BY <3>1, <3>2
    <2>13. ASSUME NEW d \in ToolCalls, Returned(d)' PROVE GotItsOwn(d)'
        <3>1. d # c BY <2>4, <2>5, <2>13 DEF Returned
        <3>2. call'[d] = call[d] /\ Returned(d) BY <2>5, <2>13, <3>1 DEF Returned
        <3>3. GotItsOwn(d) BY DEF AdapterInv
        <3>4. PICK r \in Spawned : r = call[d].on BY <3>2, <3>3 DEF GotItsOwn
        <3>5. PICK k \in 1..heard[r] : asked[r][k] = call[d].got BY <3>2, <3>3, <3>4 DEF GotItsOwn
        <3>6. heard[r] <= said[r] /\ said[r] <= Len(asked[r]) BY <1>3 DEF AdapterInv, AdapterTypeOK
        <3>7. k \in 1..Len(asked[r]) /\ k \in 1..heard'[r] BY <1>2, <1>3, <3>5, <3>6
        <3>8. asked[r][k] \in Requests BY <1>2, <1>3, <3>7, ElementOfSeq
        <3>9. asked'[r][k] = asked[r][k] BY <1>3, <2>6, <2>7, <3>7
        <3>10. ASSUME NEW e \in ToolCalls \ {d}, call'[e].on = call'[d].on PROVE call'[e].got # call'[d].got
            <4>1. CASE e = c
                <5>1. "none" \notin Requests BY ToolCallsAssumption DEF Requests, Hello
                <5> QED BY <2>4, <2>5, <3>2, <3>5, <3>8, <4>1, <5>1
            <4>2. CASE e # c BY <2>5, <3>2, <3>3, <3>10, <4>2 DEF GotItsOwn
            <4> QED BY <4>1, <4>2
        <3>11. muddled \subseteq muddled' BY <2>1
        <3> QED BY <2>8, <3>2, <3>3, <3>4, <3>5, <3>7, <3>9, <3>10, <3>11 DEF GotItsOwn
    <2> QED BY <2>9, <2>11, <2>12, <2>13 DEF AdapterInv, GotItsOwn
<1> QED BY <1>9, <1>10

(* A new server greets one call.                                             *)
LEMMA SpawnKeeps ==
    ASSUME AdapterInv, NEW c \in ToolCalls, Spawn(c)
    PROVE  AdapterInv'
<1>1. call \in [ToolCalls -> [pc : CallPcs, on : 0..MaxSpawns, got : Answers3]] /\ asked \in [Servers -> Seq(Requests)]
    BY DEF AdapterInv, AdapterTypeOK
<1>2. \A q \in Servers : /\ asked[q] \in Seq(Requests) /\ Len(asked[q]) \in Nat
                         /\ said[q] \in Nat /\ heard[q] \in Nat
    BY AdapterTypes DEF AdapterInv
<1>3. PICK n \in 0..MaxSpawns : Spawned = 1..n BY DEF AdapterInv, AdapterTypeOK
<1>4. n \in Nat /\ MaxSpawns \in Nat /\ Cardinality(Spawned) = n BY <1>3, RedirectsAssumption, FS_Interval
<1>5. PICK p : p = Cardinality(Spawned) + 1 OBVIOUS
<1>6. p = n + 1 /\ p \in Servers /\ p \notin Spawned BY <1>3, <1>4, <1>5 DEF Spawn, Servers
<1>7. PICK v : v = [pc |-> "greets", on |-> p, got |-> "none"] OBVIOUS
<1>8. /\ alive' = alive \cup {p} /\ asked' = [asked EXCEPT ![p] = <<Hello>>] /\ call' = [call EXCEPT ![c] = v]
      /\ said' = said /\ heard' = heard /\ muddled' = muddled
    BY <1>5, <1>7 DEF Spawn
<1>9. v \in [pc : CallPcs, on : 0..MaxSpawns, got : Answers3] /\ v.pc = "greets" /\ v.on = p /\ v.got = "none"
    BY <1>6, <1>7 DEF CallPcs, Answers3, Servers
<1>10. call'[c] = v /\ \A d \in ToolCalls : d # c => call'[d] = call[d] BY <1>1, <1>8
<1>11. asked[p] = <<>> /\ Len(asked[p]) = 0 /\ heard[p] = 0 /\ said[p] = 0
    <2>1. asked[p] = <<>> BY <1>6 DEF Spawned
    <2>2. Len(asked[p]) = 0 BY <2>1, EmptySeq
    <2>3. heard[p] <= said[p] /\ said[p] <= Len(asked[p]) BY <1>6 DEF AdapterInv, AdapterTypeOK
    <2> QED BY <1>2, <1>6, <2>1, <2>2, <2>3
<1>12. asked'[p] = <<Hello>> /\ Len(<<Hello>>) = 1 /\ <<Hello>>[1] = Hello /\ <<Hello>> \in Seq(Requests) /\ <<Hello>> # <<>>
    BY <1>1, <1>6, <1>8 DEF Requests
<1>13. \A q \in Servers : q # p => asked'[q] = asked[q] BY <1>1, <1>8
<1>14. Spawned' = Spawned \cup {p} BY <1>6, <1>12, <1>13 DEF Spawned
<1>15. CallInOrder(c) /\ call[c].pc = "spawns" /\ call[c].on = 0 /\ call[c].got = "none"
    BY DEF AdapterInv, CallInOrder, Spawn
<1>16. AdapterTypeOK'
    <2>1. call' \in [ToolCalls -> [pc : CallPcs, on : 0..MaxSpawns, got : Answers3]] BY <1>1, <1>8, <1>9
    <2>2. asked' \in [Servers -> Seq(Requests)] BY <1>1, <1>8, <1>12
    <2>3. \A q \in Servers : heard'[q] <= said'[q] /\ said'[q] <= Len(asked'[q])
        <3> TAKE q \in Servers
        <3>1. CASE q = p BY <1>8, <1>11, <1>12, <3>1
        <3>2. CASE q # p BY <1>8, <1>13, <3>2 DEF AdapterInv, AdapterTypeOK
        <3> QED BY <3>1, <3>2
    <2>4. n + 1 \in 0..MaxSpawns /\ Spawned' = 1..(n + 1) BY <1>3, <1>4, <1>6, <1>14 DEF Servers
    <2>5. alive' \subseteq Spawned' BY <1>8, <1>14 DEF AdapterInv, AdapterTypeOK
    <2>6. said' \in [Servers -> Nat] /\ heard' \in [Servers -> Nat] BY <1>8 DEF AdapterInv, AdapterTypeOK
    <2> QED BY <2>1, <2>2, <2>3, <2>4, <2>5, <2>6 DEF AdapterTypeOK
<1>17. ASSUME NEW q \in Servers PROVE ServerInOrder(q)'
    <2>1. ServerInOrder(q) BY DEF AdapterInv
    <2>2. CASE q = p
        <3>1. \A d \in ToolCalls : d # c => d \notin Readers(p)'
            <4> SUFFICES ASSUME NEW d \in ToolCalls, d # c, d \in Readers(p)' PROVE FALSE OBVIOUS
            <4>1. d \in Readers(p) BY <1>10 DEF Readers
            <4>2. CallInOrder(d) BY DEF AdapterInv
            <4> QED BY <1>6, <4>1, <4>2 DEF Readers, CallInOrder
        <3>2. Readers(p)' = {c} BY <1>9, <1>10, <3>1 DEF Readers
        <3>3. call'[c].pc # "reads" BY <1>9, <1>10
        <3>4. Len(asked'[p]) = heard'[p] + 1 BY <1>8, <1>11, <1>12
        <3>5. \A i, j \in 1..Len(asked'[p]) : i = j BY <1>12
        <3> QED BY <2>2, <3>2, <3>3, <3>4, <3>5 DEF ServerInOrder
    <2>3. CASE q # p
        <3>1. \A d \in Readers(q) : d # c BY <1>15 DEF Readers
        <3>2. Readers(q)' = Readers(q) BY <1>9, <1>10, <1>15, <2>3 DEF Readers
        <3>3. \A d \in Readers(q) : call'[d] = call[d] BY <1>10, <3>1 DEF Readers
        <3>4. q \in alive' <=> q \in alive BY <1>8, <2>3
        <3> QED BY <1>8, <1>13, <2>1, <2>3, <3>2, <3>3, <3>4 DEF ServerInOrder
    <2> QED BY <2>2, <2>3
<1>18. ASSUME NEW d \in ToolCalls PROVE CallInOrder(d)'
    <2>1. CallInOrder(d) BY DEF AdapterInv
    <2>2. ASSUME call[d].pc \in {"new", "spawns", "greets"}, NEW q \in Servers, NEW i \in 1..Len(asked'[q])
          PROVE  asked'[q][i] # d
        <3>1. CASE q # p BY <1>13, <2>1, <2>2, <3>1 DEF CallInOrder
        <3>2. CASE q = p
            <4>1. asked'[q][i] = Hello BY <1>12, <2>2, <3>2
            <4> QED BY <4>1, ToolCallsAssumption DEF Hello
        <3> QED BY <3>1, <3>2
    <2>3. CASE d = c BY <1>9, <1>10, <1>14, <1>15, <2>2, <2>3 DEF CallInOrder
    <2>4. CASE d # c BY <1>10, <1>14, <2>1, <2>2, <2>4 DEF CallInOrder
    <2> QED BY <2>3, <2>4
<1>19. ASSUME NEW d \in ToolCalls, Returned(d)' PROVE GotItsOwn(d)'
    <2>1. d # c BY <1>9, <1>10, <1>19 DEF Returned
    <2>2. call'[d] = call[d] /\ Returned(d) BY <1>10, <1>19, <2>1 DEF Returned
    <2>3. GotItsOwn(d) BY DEF AdapterInv
    <2>4. call[d].on \in Servers /\ call[d].on # p BY <1>6, <2>2, <2>3 DEF GotItsOwn, Spawned
    <2>5. \A e \in ToolCalls \ {d} : call'[e].on = call'[d].on => call'[e].got # call'[d].got
        BY <1>9, <1>10, <2>2, <2>3, <2>4 DEF GotItsOwn
    <2> QED BY <1>8, <1>13, <1>14, <2>2, <2>3, <2>4, <2>5 DEF GotItsOwn
<1> QED BY <1>16, <1>17, <1>18, <1>19 DEF AdapterInv, GotItsOwn

(* The answer a call reads, or the end of the stream or of its patience.     *)
LEMMA HearKeeps ==
    ASSUME AdapterInv, NEW c \in ToolCalls, call[c].pc = "reads", NEW w,
           call' = Answered(c, w), UNCHANGED <<alive, asked, said>>, muddled \subseteq muddled',
           \/ /\ w = "failed" /\ heard' = heard
              /\ call[c].on \notin alive \/ call[c].on \in muddled'
           \/ /\ heard[call[c].on] < said[call[c].on]
              /\ heard' = [heard EXCEPT ![call[c].on] = heard[call[c].on] + 1]
              /\ w = asked[call[c].on][heard[call[c].on] + 1]
    PROVE  AdapterInv'
<1>1. PICK p : p = call[c].on OBVIOUS
<1>2. call \in [ToolCalls -> [pc : CallPcs, on : 0..MaxSpawns, got : Answers3]] /\ heard \in [Servers -> Nat]
    BY DEF AdapterInv, AdapterTypeOK
<1>3. \A q \in Servers : /\ asked[q] \in Seq(Requests) /\ Len(asked[q]) \in Nat
                         /\ said[q] \in Nat /\ heard[q] \in Nat /\ heard[q] <= said[q] /\ said[q] <= Len(asked[q])
    BY AdapterTypes DEF AdapterInv, AdapterTypeOK
<1>4. p \in Spawned /\ p \in Servers /\ p # 0 /\ Spawned \subseteq Servers
    BY <1>1, AdapterTypes DEF AdapterInv, CallInOrder
<1>5. ASSUME w # "failed"
      PROVE  /\ heard[p] < said[p] /\ heard' = [heard EXCEPT ![p] = heard[p] + 1]
             /\ heard'[p] = heard[p] + 1 /\ heard[p] + 1 \in 1..Len(asked[p]) /\ w = asked[p][heard[p] + 1]
    BY <1>1, <1>2, <1>3, <1>4, <1>5
<1>6. w \in Requests \cup {"failed"}
    <2>1. ASSUME w # "failed" PROVE w \in Requests BY <1>3, <1>4, <1>5, <2>1, ElementOfSeq
    <2> QED BY <2>1
<1>7. PICK v : v = [call[c] EXCEPT !.pc = "done", !.got = w] OBVIOUS
<1>8. v \in [pc : CallPcs, on : 0..MaxSpawns, got : Answers3] /\ v.pc = "done" /\ v.on = p /\ v.got = w
    BY <1>1, <1>2, <1>6, <1>7 DEF CallPcs, Answers3
<1>9. call' = [call EXCEPT ![c] = v] BY <1>2, <1>7 DEF Answered
<1>10. call'[c] = v /\ \A d \in ToolCalls : d # c => call'[d] = call[d] BY <1>2, <1>9
<1>11. heard' \in [Servers -> Nat] /\ \A q \in Servers : q # p => heard'[q] = heard[q]
    BY <1>1, <1>2, <1>3, <1>4
<1>12. \A q \in Servers : heard[q] <= heard'[q] /\ heard'[q] <= said[q]
    <2> TAKE q \in Servers
    <2>1. CASE q # p BY <1>3, <1>11, <2>1
    <2>2. CASE q = p BY <1>1, <1>2, <1>3, <1>4, <2>2
    <2> QED BY <2>1, <2>2
<1>13. Spawned' = Spawned BY DEF Spawned
<1>14. AdapterTypeOK'
    <2>1. call' \in [ToolCalls -> [pc : CallPcs, on : 0..MaxSpawns, got : Answers3]] BY <1>2, <1>8, <1>9
    <2> QED BY <1>3, <1>11, <1>12, <1>13, <2>1 DEF AdapterInv, AdapterTypeOK
<1>15. ASSUME NEW q \in Servers PROVE ServerInOrder(q)'
    <2>1. ServerInOrder(q) BY DEF AdapterInv
    <2>2. Readers(q)' = Readers(q) \ {c} BY <1>8, <1>10 DEF Readers
    <2>3. \A d \in Readers(q)' : d \in Readers(q) /\ d # c /\ call'[d] = call[d] BY <1>10, <2>2 DEF Readers
    <2>4. CASE q # p
        <3>1. c \notin Readers(q) BY <1>1, <2>4 DEF Readers
        <3>2. Readers(q)' = Readers(q) /\ heard'[q] = heard[q] BY <1>11, <2>2, <2>4, <3>1
        <3> QED BY <2>1, <2>3, <3>2 DEF ServerInOrder
    <2>5. CASE q = p
        <3>1. c \in Readers(p) BY <1>1 DEF Readers
        <3>2. ASSUME p \notin muddled'
              PROVE  Readers(p)' = {} /\ (p \in alive' => Len(asked'[p]) = heard'[p])
            <4>1. Readers(p) = {c} /\ Len(asked[p]) = heard[p] + 1
                BY <2>1, <2>5, <3>1, <3>2 DEF ServerInOrder
            <4>2. p \in alive => heard'[p] = heard[p] + 1 BY <1>1, <1>2, <1>4, <3>2
            <4> QED BY <2>2, <2>5, <4>1, <4>2
        <3> QED BY <2>1, <2>5, <3>2 DEF ServerInOrder
    <2> QED BY <2>4, <2>5
<1>16. ASSUME NEW d \in ToolCalls PROVE CallInOrder(d)'
    <2>1. CallInOrder(d) BY DEF AdapterInv
    <2>2. CASE d = c BY <1>8, <1>10, <2>2 DEF CallInOrder
    <2>3. CASE d # c BY <1>10, <1>13, <2>1, <2>3 DEF CallInOrder
    <2> QED BY <2>2, <2>3
<1>17. ASSUME NEW d \in ToolCalls, d # c, call[d].on = p, w # "failed" PROVE call[d].got # w
    <2>1. CASE call[d].pc \notin {"left", "done"}
        <3>1. call[d].got = "none" BY <2>1 DEF AdapterInv, CallInOrder
        <3>2. w \in Requests /\ "none" \notin Requests BY <1>6, <1>17, ToolCallsAssumption DEF Requests, Hello
        <3> QED BY <3>1, <3>2
    <2>2. CASE call[d].pc = "left" BY <1>4, <1>17, <2>2 DEF AdapterInv, CallInOrder
    <2>3. CASE call[d].pc = "done" /\ call[d].got = "failed" BY <1>17, <2>3
    <2>4. CASE call[d].pc = "done" /\ call[d].got # "failed"
        <3>1. Returned(d) BY <1>4, <1>17, <2>4 DEF Returned
        <3>2. PICK k \in 1..heard[p] : asked[p][k] = call[d].got BY <1>17, <3>1 DEF AdapterInv, GotItsOwn
        <3>3. k \in 1..Len(asked[p]) /\ k # heard[p] + 1 BY <1>3, <1>4, <3>2
        <3> QED BY <1>4, <1>5, <1>17, <3>2, <3>3 DEF AdapterInv, ServerInOrder
    <2> QED BY <2>1, <2>2, <2>3, <2>4
<1>18. ASSUME NEW d \in ToolCalls, Returned(d)' PROVE GotItsOwn(d)'
    <2>1. CASE d = c
        <3>1. w # "failed" BY <1>8, <1>10, <1>18, <2>1 DEF Returned
        <3>2. heard'[p] \in Nat /\ heard[p] + 1 \in 1..heard'[p] BY <1>3, <1>4, <1>5, <3>1
        <3>3. \E k \in 1..heard'[p] : asked'[p][k] = w BY <1>5, <3>1, <3>2
        <3>4. w = c \/ p \in muddled'
            <4>1. ASSUME p \notin muddled' PROVE w = c
                <5>1. c \in Readers(p) BY <1>1 DEF Readers
                <5>2. ServerInOrder(p) /\ p \notin muddled BY <1>4, <4>1 DEF AdapterInv
                <5> QED BY <1>5, <3>1, <5>1, <5>2 DEF ServerInOrder
            <4> QED BY <4>1
        <3>5. \A e \in ToolCalls \ {c} : call'[e].on = p => call'[e].got # w BY <1>10, <1>17, <3>1
        <3> QED BY <1>4, <1>8, <1>10, <1>13, <2>1, <3>3, <3>4, <3>5 DEF GotItsOwn
    <2>2. CASE d # c
        <3>1. call'[d] = call[d] /\ Returned(d) BY <1>10, <1>18, <2>2 DEF Returned
        <3>2. GotItsOwn(d) BY DEF AdapterInv
        <3>3. PICK r \in Spawned : r = call[d].on BY <3>1, <3>2 DEF GotItsOwn
        <3>4. PICK k \in 1..heard[r] : asked[r][k] = call[d].got BY <3>1, <3>2, <3>3 DEF GotItsOwn
        <3>5. k \in 1..heard'[r] BY <1>3, <1>4, <1>11, <1>12, <3>4
        <3>6. ASSUME NEW e \in ToolCalls \ {d}, call'[e].on = call'[d].on PROVE call'[e].got # call'[d].got
            <4>1. CASE e # c BY <1>10, <3>1, <3>2, <3>6, <4>1 DEF GotItsOwn
            <4>2. CASE e = c /\ w = "failed" BY <1>8, <1>10, <3>1, <4>2 DEF Returned
            <4>3. CASE e = c /\ w # "failed"
                <5>1. call[d].on = p BY <1>8, <1>10, <3>1, <3>6, <4>3
                <5> QED BY <1>8, <1>10, <1>17, <2>2, <3>1, <4>3, <5>1
            <4> QED BY <4>1, <4>2, <4>3
        <3> QED BY <1>13, <3>1, <3>2, <3>3, <3>4, <3>5, <3>6 DEF GotItsOwn
    <2> QED BY <2>1, <2>2
<1> QED BY <1>14, <1>15, <1>16, <1>18 DEF AdapterInv, GotItsOwn

(* What the servers do, and a bridge that is disconnected.                   *)
LEMMA ServerKeeps ==
    ASSUME AdapterInv, alive' \subseteq alive, UNCHANGED <<call, asked, heard, muddled>>,
           said' \in [Servers -> Nat],
           \A q \in Servers : said[q] <= said'[q] /\ said'[q] <= Len(asked[q])
    PROVE  AdapterInv'
<1>1. Spawned' = Spawned BY DEF Spawned
<1>2. AdapterTypeOK'
    <2>1. \A q \in Servers : heard[q] \in Nat /\ said[q] \in Nat /\ said'[q] \in Nat /\ heard[q] <= said[q]
        BY DEF AdapterInv, AdapterTypeOK
    <2>2. \A q \in Servers : heard'[q] <= said'[q] /\ said'[q] <= Len(asked'[q]) BY <2>1
    <2> QED BY <1>1, <2>2 DEF AdapterInv, AdapterTypeOK
<1>3. ASSUME NEW q \in Servers PROVE ServerInOrder(q)'
    <2>1. ServerInOrder(q) /\ Readers(q)' = Readers(q) BY DEF AdapterInv, Readers
    <2> QED BY <2>1 DEF ServerInOrder
<1>4. ASSUME NEW d \in ToolCalls PROVE CallInOrder(d)' /\ GotItsOwn(d)'
    <2>1. CallInOrder(d) /\ GotItsOwn(d) BY DEF AdapterInv
    <2> QED BY <1>1, <2>1 DEF CallInOrder, GotItsOwn, Returned
<1> QED BY <1>2, <1>3, <1>4 DEF AdapterInv

LEMMA AdapterInvStep ==
    ASSUME AdapterInv, [AdapterStep]_adapterVars
    PROVE  AdapterInv'
<1> DEFINE Record == [pc : CallPcs, on : 0..MaxSpawns, got : Answers3]
<1>1. call \in [ToolCalls -> Record] /\ heard \in [Servers -> Nat] /\ said \in [Servers -> Nat]
    BY DEF AdapterInv, AdapterTypeOK
<1>2. \A q \in Servers : /\ Len(asked[q]) \in Nat /\ said[q] \in Nat /\ heard[q] \in Nat
                         /\ heard[q] <= said[q] /\ said[q] <= Len(asked[q])
    BY AdapterTypes DEF AdapterInv, AdapterTypeOK
<1>3. \A c \in ToolCalls : CallInOrder(c) BY DEF AdapterInv
<1>4. ASSUME NEW c \in ToolCalls, call[c].pc \in {"new", "spawns", "shell", "left", "http"},
             NEW x \in {"spawns", "shell", "left", "http", "done"}, NEW y \in {"none", "failed", "ended"},
             call' = [call EXCEPT ![c].pc = x, ![c].got = y], UNCHANGED bridge,
             x \notin {"left", "done"} => y = "none", x = "spawns" => call[c].pc = "new"
      PROVE  AdapterInv'
    <2>1. PICK v : v = [call[c] EXCEPT !.pc = x, !.got = y] OBVIOUS
    <2>2. call[c].on = 0 BY <1>3, <1>4 DEF CallInOrder
    <2>3. v \in Record /\ v.pc = x /\ v.on = 0 /\ v.got = y BY <1>1, <2>1, <2>2 DEF CallPcs, Answers3
    <2>4. call' = [call EXCEPT ![c] = v] BY <1>1, <1>4, <2>1
    <2> QED BY <1>4, <2>2, <2>3, <2>4, ApartKeeps DEF bridge
<1>5. ASSUME NEW c \in ToolCalls, call[c].got = "none", NEW x
      PROVE  [call EXCEPT ![c].pc = x] = [call EXCEPT ![c].pc = x, ![c].got = "none"]
    <2>1. call[c] = [call[c] EXCEPT !.got = "none"] BY <1>1, <1>5
    <2>2. [call[c] EXCEPT !.pc = x] = [call[c] EXCEPT !.pc = x, !.got = "none"] BY <1>1, <1>5
    <2>3. [call EXCEPT ![c].pc = x] = [call EXCEPT ![c] = [call[c] EXCEPT !.pc = x]] BY <1>1
    <2>4. [call EXCEPT ![c].pc = x, ![c].got = "none"] = [call EXCEPT ![c] = [call[c] EXCEPT !.pc = x, !.got = "none"]]
        BY <1>1
    <2> QED BY <2>2, <2>3, <2>4
<1>6. ASSUME NEW c \in ToolCalls, Invoke(c) PROVE AdapterInv'
    <2>1. call[c].pc = "new" /\ call[c].on = 0 /\ call[c].got = "none" BY <1>6 DEF Invoke, Idle3
    <2>2. CASE connected
        <3>1. Send(c, current, muddled) /\ UNCHANGED <<alive, said, heard>> BY <1>6, <2>2 DEF Invoke
        <3> QED BY <1>1, <1>2, <2>1, <3>1, SendKeeps
    <2>3. CASE ~connected
        <3>1. call' = [call EXCEPT ![c].pc = "spawns", ![c].got = "none"] /\ UNCHANGED bridge
            BY <1>5, <1>6, <2>1, <2>3 DEF Invoke, bridge
        <3> QED BY <1>4, <2>1, <3>1
    <2> QED BY <2>2, <2>3
<1>7. ASSUME NEW c \in ToolCalls, Spawn(c) PROVE AdapterInv' BY <1>7, SpawnKeeps
<1>8. ASSUME NEW c \in ToolCalls, call[c].pc \in {"greets", "reads"} PROVE call[c].on \in Servers
    BY <1>3, <1>8, AdapterTypes DEF AdapterInv, CallInOrder
<1>9. ASSUME NEW c \in ToolCalls, Greeted(c) PROVE AdapterInv'
    <2> DEFINE p == call[c].on
    <2>1. call[c].pc = "greets" /\ p \in Servers BY <1>8, <1>9 DEF Greeted
    <2>2. Send(c, current, muddled) /\ UNCHANGED <<alive, said>> BY <1>9 DEF Greeted
    <2>3. CASE Line(p)
        <3>1. heard' = [heard EXCEPT ![p] = heard[p] + 1] /\ heard[p] < said[p] BY <1>9, <2>3 DEF Greeted, Line
        <3>2. heard' \in [Servers -> Nat] /\ heard'[p] = heard[p] + 1 /\ \A q \in Servers : q # p => heard'[q] = heard[q]
            BY <1>1, <1>2, <2>1, <3>1
        <3>3. \A q \in Servers : heard[q] <= heard'[q] /\ heard'[q] <= said[q] BY <1>2, <3>1, <3>2
        <3> QED BY <2>1, <2>2, <3>2, <3>3, SendKeeps
    <2>4. CASE ~Line(p)
        <3>1. heard' = heard /\ p \notin alive BY <1>9, <2>4 DEF Greeted
        <3> QED BY <1>1, <1>2, <2>1, <2>2, <3>1, SendKeeps
    <2> QED BY <2>3, <2>4
<1>10. ASSUME NEW c \in ToolCalls, Hear(c) PROVE AdapterInv'
    <2> DEFINE p == call[c].on
    <2>1. call[c].pc = "reads" /\ UNCHANGED <<alive, asked, said, muddled>> BY <1>10, SMTT(30) DEF Hear
    <2>2. CASE Line(p)
        <3>1. /\ heard[p] < said[p] /\ heard' = [heard EXCEPT ![p] = heard[p] + 1]
              /\ call' = Answered(c, asked[p][heard[p] + 1])
            BY <1>10, <2>2 DEF Hear, Line
        <3> QED BY <2>1, <3>1, HearKeeps
    <2>3. CASE ~Line(p)
        <3>1. heard' = heard /\ call' = Answered(c, "failed") /\ p \notin alive BY <1>10, <2>3 DEF Hear
        <3> QED BY <2>1, <3>1, HearKeeps
    <2> QED BY <2>2, <2>3
<1>11. ASSUME NEW c \in ToolCalls, GivesUp(c) PROVE AdapterInv'
    <2>1. UNCHANGED <<alive, said, heard>> BY <1>11 DEF GivesUp
    <2>2. CASE call[c].pc = "greets"
        <3>1. Send(c, current, muddled \cup {call[c].on}) BY <1>11, <2>2 DEF GivesUp
        <3> QED BY <1>1, <1>2, <2>1, <2>2, <3>1, SendKeeps
    <2>3. CASE call[c].pc = "reads"
        <3>1. call' = Answered(c, "failed") /\ muddled' = muddled \cup {call[c].on} /\ asked' = asked
            BY <1>11, <2>3 DEF GivesUp
        <3> QED BY <2>1, <2>3, <3>1, HearKeeps
    <2> QED BY <1>11, <2>2, <2>3 DEF GivesUp
<1>12. ASSUME NEW c \in ToolCalls, ShellStarts(c) PROVE AdapterInv'
    <2>1. call[c].pc = "new" /\ call[c].got = "none" BY <1>12 DEF ShellStarts, Idle3
    <2>2. call' = [call EXCEPT ![c].pc = "shell", ![c].got = "none"] /\ UNCHANGED bridge
        BY <1>5, <1>12, <2>1 DEF ShellStarts
    <2> QED BY <1>4, <2>1, <2>2
<1>13. ASSUME NEW c \in ToolCalls, ShellEnds(c) PROVE AdapterInv'
    <2>1. UNCHANGED bridge BY <1>13 DEF ShellEnds
    <2>2. CASE call[c].pc = "shell"
        <3>1. call' = [call EXCEPT ![c].pc = "done", ![c].got = "ended"] BY <1>13, <2>2 DEF ShellEnds, Answered
        <3> QED BY <1>4, <2>1, <2>2, <3>1
    <2>3. CASE call[c].pc = "left"
        <3>1. PICK v : v = [call[c] EXCEPT !.pc = "done"] OBVIOUS
        <3>2. call[c].on = 0 BY <1>3, <2>3 DEF CallInOrder
        <3>3. v \in Record /\ v.pc = "done" /\ v.on = 0 BY <1>1, <3>1, <3>2 DEF CallPcs
        <3>4. call' = [call EXCEPT ![c] = v] BY <1>1, <1>13, <2>3, <3>1 DEF ShellEnds
        <3> QED BY <2>1, <2>3, <3>2, <3>3, <3>4, ApartKeeps DEF bridge
    <2> QED BY <1>13, <2>2, <2>3 DEF ShellEnds
<1>14. ASSUME NEW c \in ToolCalls, ShellTimesOut(c) PROVE AdapterInv'
    <2>1. call[c].pc = "shell" /\ call' = [call EXCEPT ![c].pc = "left", ![c].got = "failed"] /\ UNCHANGED bridge
        BY <1>14 DEF ShellTimesOut
    <2> QED BY <1>4, <2>1
<1>15. ASSUME NEW c \in ToolCalls, NEW safe \in BOOLEAN, HttpStarts(c, safe) PROVE AdapterInv'
    <2>1. call[c].pc = "new" /\ call[c].got = "none" /\ UNCHANGED bridge BY <1>15 DEF HttpStarts, Idle3
    <2>2. CASE safe
        <3>1. call' = [call EXCEPT ![c].pc = "http", ![c].got = "none"] BY <1>5, <1>15, <2>1, <2>2 DEF HttpStarts
        <3> QED BY <1>4, <2>1, <3>1
    <2>3. CASE ~safe
        <3>1. call' = [call EXCEPT ![c].pc = "done", ![c].got = "failed"] BY <1>15, <2>3 DEF HttpStarts, Answered
        <3> QED BY <1>4, <2>1, <3>1
    <2> QED BY <2>2, <2>3
<1>16. ASSUME NEW c \in ToolCalls, NEW safe \in BOOLEAN, NEW code \in {302, 307}, Redirected(c, safe, code)
       PROVE  AdapterInv'
    <2>1. call[c].pc = "http" /\ UNCHANGED bridge BY <1>16 DEF Redirected
    <2>2. CASE call' = call
        <3>1. UNCHANGED <<alive, call, asked, said, heard, muddled>> BY <2>1, <2>2 DEF bridge
        <3> QED BY <1>1, <1>2, <3>1, ServerKeeps
    <2>3. CASE call' = Answered(c, "failed") BY <1>4, <2>1, <2>3 DEF Answered
    <2> QED BY <1>16, <2>2, <2>3 DEF Redirected
<1>17. ASSUME NEW c \in ToolCalls, NEW how \in {"ended", "failed"}, HttpEnds(c, how) PROVE AdapterInv'
    BY <1>4, <1>17 DEF HttpEnds, Answered
<1>18. ASSUME NEW p \in Servers, ServerAnswers(p) PROVE AdapterInv'
    <2>1. said' = [said EXCEPT ![p] = said[p] + 1] /\ said[p] < Len(asked[p]) /\ UNCHANGED <<call, alive, asked, heard, muddled>>
        BY <1>18 DEF ServerAnswers
    <2>2. said' \in [Servers -> Nat] /\ said'[p] = said[p] + 1 /\ \A q \in Servers : q # p => said'[q] = said[q]
        BY <1>1, <1>2, <2>1
    <2>3. \A q \in Servers : said[q] <= said'[q] /\ said'[q] <= Len(asked[q]) BY <1>2, <2>1, <2>2
    <2> QED BY <2>1, <2>2, <2>3, ServerKeeps
<1>19. ASSUME (\E p \in Servers : ServerDies(p)) \/ Disconnect \/ UNCHANGED adapterVars PROVE AdapterInv'
    <2>1. alive' \subseteq alive /\ UNCHANGED <<call, asked, said, heard, muddled>>
        BY <1>19 DEF ServerDies, Disconnect, adapterVars
    <2> QED BY <1>1, <1>2, <2>1, ServerKeeps
<1> QED BY <1>6, <1>7, <1>9, <1>10, <1>11, <1>12, <1>13, <1>14, <1>15, <1>16, <1>17, <1>18, <1>19 DEF AdapterStep, BridgeStep, LocalStep

LEMMA AdapterInvInit ==
    ASSUME AdaptersInit
    PROVE  AdapterInv
<1>1. MaxSpawns \in Nat /\ Servers \subseteq Nat \ {0} BY RedirectsAssumption DEF Servers
<1>2. \A p \in Servers : asked[p] = <<>> /\ said[p] = 0 /\ heard[p] = 0 BY DEF AdaptersInit
<1>3. <<>> \in Seq(Requests) /\ Len(<<>>) = 0 BY EmptySeq
<1>4. Spawned = {} BY <1>2 DEF Spawned
<1>5. \A c \in ToolCalls : call[c].pc = "new" /\ call[c].on = 0 /\ call[c].got = "none" BY DEF AdaptersInit, Idle3
<1>6. AdapterTypeOK
    <2>1. call \in [ToolCalls -> [pc : CallPcs, on : 0..MaxSpawns, got : Answers3]]
        BY <1>1 DEF AdaptersInit, Idle3, CallPcs, Answers3
    <2>2. asked \in [Servers -> Seq(Requests)] BY <1>3 DEF AdaptersInit
    <2>3. said \in [Servers -> Nat] /\ heard \in [Servers -> Nat] BY DEF AdaptersInit
    <2>4. \A p \in Servers : heard[p] <= said[p] /\ said[p] <= Len(asked[p]) BY <1>2, <1>3
    <2>5. 0 \in 0..MaxSpawns /\ Spawned = 1..0 BY <1>1, <1>4
    <2>6. alive \subseteq Spawned BY <1>4 DEF AdaptersInit
    <2> QED BY <2>1, <2>2, <2>3, <2>4, <2>5, <2>6 DEF AdapterTypeOK
<1>7. ASSUME NEW c \in ToolCalls PROVE CallInOrder(c) /\ GotItsOwn(c)
    BY <1>2, <1>3, <1>5 DEF CallInOrder, GotItsOwn, Returned
<1>8. ASSUME NEW p \in Servers PROVE ServerInOrder(p)
    <2>1. Readers(p) = {} BY <1>5 DEF Readers
    <2> QED BY <1>2, <1>3, <2>1 DEF ServerInOrder
<1> QED BY <1>6, <1>7, <1>8 DEF AdapterInv

(* Among calls that share a bridge whose server starts, answers, dies and is *)
(* left unread at any time, a call is answered with another call's line only *)
(* from a server that a reader gave up on or that had two at once, and no    *)
(* line is the answer of two calls; for any number of calls and servers.     *)
THEOREM CallsHearTheirOwn == AdapterSpec => []AnswersAreOwn
<1>1. AdaptersInit => AdapterInv BY AdapterInvInit
<1>2. AdapterInv /\ [AdapterStep]_adapterVars => AdapterInv' BY AdapterInvStep
<1>3. AdapterInv => AnswersAreOwn BY DEF AdapterInv, GotItsOwn, Returned, AnswersAreOwn
<1> QED BY <1>1, <1>2, <1>3, PTL DEF AdapterSpec

---------------------------------------------------------------------------
(* The selection of models.  Numbers have a least one, and counting reaches *)
(* them all: what the loops of the code need, as recursive functions.       *)
LEMMA HasLeast == ASSUME NEW S \in SUBSET Nat, S # {} PROVE \E x \in S : \A y \in S : x <= y
<1>1. PICK x \in S : \A y \in S : <<y, x>> \notin OpToRel(<, Nat)
    BY NatLessThanWellFounded, WFMin
<1>2. \A y \in S : ~(y < x)
    BY <1>1 DEF OpToRel
<1> QED
    BY <1>2

(* Numbers up to n, one after the other.                                     *)
LEMMA Counting ==
    ASSUME NEW n \in Nat, NEW T, 0 \in T, \A k \in 1..n : k - 1 \in T => k \in T
    PROVE  \A k \in 0..n : k \in T
<1> SUFFICES ASSUME NEW m \in 0..n, m \notin T PROVE FALSE
    OBVIOUS
<1>1. PICK S : S = {k \in 0..n : k \notin T}
    OBVIOUS
<1>2. S \in SUBSET Nat /\ S # {}
    BY <1>1
<1>3. PICK x \in S : \A y \in S : x <= y
    BY <1>2, HasLeast
<1>4. x \in 1..n /\ x - 1 \in 0..n /\ ~(x <= x - 1)
    BY <1>1, <1>3
<1>5. x - 1 \notin S
    BY <1>3, <1>4
<1> QED
    BY <1>1, <1>3, <1>4, <1>5

(* A loop over n things that starts with s and makes G of each and of what   *)
(* there is so far: the function of what there is after each exists.         *)
StaysIn(G, n, S) == \A k \in 1..n : \A x \in S : G[<<k, x>>] \in S
IsLoop(f, n, S, s, G) == f \in [0..n -> S] /\ f[0] = s /\ \A k \in 1..n : f[k] = G[<<k, f[k - 1]>>]

LEMMA LoopExists ==
    ASSUME NEW n \in Nat, NEW S, NEW s \in S, NEW G, StaysIn(G, n, S)
    PROVE  \E f : IsLoop(f, n, S, s, G)
<1> USE DEF StaysIn, IsLoop
<1> DEFINE UpTo(f, m) == f \in [0..m -> S] /\ f[0] = s /\ \A k \in 1..m : f[k] = G[<<k, f[k - 1]>>]
           T == {m \in 0..n : \E f : UpTo(f, m)}
<1>1. 0 \in T
    <2>1. PICK f : f = [k \in 0..0 |-> s]
        OBVIOUS
    <2>2. f \in [0..0 -> S] /\ f[0] = s /\ 0 \in 0..n
        BY <2>1
    <2>3. UpTo(f, 0)
        BY <2>2
    <2> QED
        BY <2>2, <2>3
<1>2. ASSUME NEW m \in 1..n, m - 1 \in T PROVE m \in T
    <2>1. PICK f : UpTo(f, m - 1)
        BY <1>2
    <2>2. PICK h : h = [k \in 0..m |-> IF k = m THEN G[<<m, f[m - 1]>>] ELSE f[k]]
        OBVIOUS
    <2>3. m - 1 \in 0..(m - 1) /\ m \in 0..m /\ m # 0 /\ 0 \in 0..(m - 1) /\ \A k \in 0..m : k = m \/ k \in 0..(m - 1)
        OBVIOUS
    <2>4. f[m - 1] \in S /\ G[<<m, f[m - 1]>>] \in S
        BY <2>1, <2>3
    <2>5. \A k \in 0..m : h[k] \in S
        BY <2>1, <2>2, <2>3, <2>4
    <2>6. \A k \in 1..m : h[k] = G[<<k, h[k - 1]>>]
        <3> SUFFICES ASSUME NEW k \in 1..m PROVE h[k] = G[<<k, h[k - 1]>>]
            OBVIOUS
        <3>1. k \in 0..m /\ k - 1 \in 0..m /\ k - 1 # m /\ k - 1 \in 0..(m - 1)
            OBVIOUS
        <3>2. h[k - 1] = f[k - 1]
            BY <3>1, <2>2
        <3>3. CASE k = m
            BY <3>1, <3>2, <3>3, <2>2
        <3>4. CASE k # m
            <4>1. k \in 1..(m - 1) /\ h[k] = f[k]
                BY <3>1, <3>4, <2>2
            <4> QED
                BY <4>1, <3>2, <2>1
        <3> QED
            BY <3>3, <3>4
    <2>7. h \in [0..m -> S] /\ h[0] = s
        BY <2>1, <2>2, <2>3, <2>5
    <2>8. m \in 0..n /\ UpTo(h, m)
        BY <2>6, <2>7
    <2> QED
        BY <2>8
<1>3. n \in T
    <2>1. \A k \in 1..n : k - 1 \in T => k \in T
        BY <1>2
    <2> HIDE DEF T
    <2>2. \A k \in 0..n : k \in T
        BY <1>1, <2>1, Counting
    <2> QED
        BY <2>2
<1> QED
    BY <1>3

(* The loop of coverage_report finds the first spec that can be used.        *)
Tiers1 == [listed : Seq(Specs), avoid : SUBSET STRING]
Fit(tier, n) == {i \in 1..n : Usable(tier.listed[i], tier)}
FirstModel(tier, n) == IF Fit(tier, n) = {} THEN NoModel ELSE tier.listed[Min(Fit(tier, n))].model

LEMMA HasMin == ASSUME NEW S \in SUBSET Nat, S # {} PROVE Min(S) \in S /\ \A y \in S : Min(S) <= y
BY HasLeast DEF Min

LEMMA OneMin == ASSUME NEW S \in SUBSET Nat, NEW x \in S, \A y \in S : x <= y PROVE Min(S) = x
<1>1. PICK m : m = Min(S)
    OBVIOUS
<1>2. m \in S /\ m <= x /\ x <= m
    BY <1>1, HasMin
<1>3. m \in Nat /\ x \in Nat
    BY <1>2
<1> QED
    BY <1>1, <1>2, <1>3

LEMMA CoveredIsFirst ==
    ASSUME NEW tier \in Tiers1
    PROVE  Covered(tier) = FirstModel(tier, Len(tier.listed))
<1> DEFINE n == Len(tier.listed)
           Body(k, x) == IF tier.listed[k].model \in tier.avoid \/ ~Present(tier.listed[k].var) \/ x # NoModel
                         THEN x ELSE tier.listed[k].model
           Eq(f) == f = [k \in 0..n |-> IF k = 0 THEN NoModel ELSE Body(k, f[k - 1])]
<1>1. n \in Nat /\ \A k \in 1..n : tier.listed[k] \in Specs
    BY DEF Tiers1
<1>2. \E f : Eq(f)
    <2> DEFINE S == STRING \cup {NoModel}
               G == [p \in (1..n) \X S |-> Body(p[1], p[2])]
    <2>1. \A k \in 1..n : \A x \in S : G[<<k, x>>] = Body(k, x) /\ Body(k, x) \in S
        BY <1>1 DEF Specs
    <2>2. NoModel \in S
        OBVIOUS
    <2>a. n \in Nat /\ \A k \in 1..n : \A x \in S : G[<<k, x>>] \in S
        BY <1>1, <2>1
    <2>3. PICK g : g = G
        OBVIOUS
    <2> HIDE DEF n, G, Body, S
    <2>4. PICK f \in [0..n -> S] : f[0] = NoModel /\ \A k \in 1..n : f[k] = g[<<k, f[k - 1]>>]
        <3>1. StaysIn(g, n, S)
            BY <2>a, <2>3 DEF StaysIn
        <3>2. \E f : IsLoop(f, n, S, NoModel, g)
            BY <2>a, <2>2, <3>1, LoopExists
        <3> QED
            BY <3>2 DEF IsLoop
    <2>5. \A k \in 0..n : f[k] = IF k = 0 THEN NoModel ELSE Body(k, f[k - 1])
        <3> SUFFICES ASSUME NEW k \in 0..n, k # 0 PROVE f[k] = Body(k, f[k - 1])
            BY <2>4
        <3>1. k \in 1..n /\ k - 1 \in 0..n
            BY <1>1
        <3> QED
            BY <3>1, <2>1, <2>3, <2>4
    <2> QED
        BY <2>4, <2>5
<1>3. PICK f : Eq(f) /\ Covered(tier) = f[n]
    BY <1>2 DEF Covered
<1>4. f[0] = NoModel /\ \A k \in 1..n : f[k] = Body(k, f[k - 1])
    BY <1>1, <1>3, SMTT(30)
<1> DEFINE T == {k \in 0..n : f[k] = FirstModel(tier, k)}
<1>5. 0 \in T
    <2>1. Fit(tier, 0) = {}
        BY DEF Fit
    <2> QED
        BY <2>1, <1>1, <1>4 DEF FirstModel
<1>6. ASSUME NEW k \in 1..n, k - 1 \in T PROVE k \in T
    <2>1. /\ k \in Nat /\ k - 1 \in Nat /\ 1..k = (1..(k - 1)) \cup {k} /\ k \notin 1..(k - 1)
          /\ Fit(tier, k) \in SUBSET Nat /\ Fit(tier, k - 1) \in SUBSET Nat
        BY <1>1 DEF Fit
    <2>2. f[k - 1] = FirstModel(tier, k - 1) /\ f[k] = Body(k, f[k - 1])
        BY <1>4, <1>6
    <2>3. CASE Fit(tier, k - 1) # {}
        <3>1. PICK x : x = Min(Fit(tier, k - 1))
            OBVIOUS
        <3>2. x \in Fit(tier, k - 1) /\ \A y \in Fit(tier, k - 1) : x <= y
            BY <3>1, <2>1, <2>3, HasMin
        <3>3. x \in 1..(k - 1) /\ x <= k /\ tier.listed[x] \in Specs
            BY <3>2, <1>1, <2>1 DEF Fit
        <3>4. x \in Fit(tier, k) /\ \A y \in Fit(tier, k) : x <= y
            BY <3>2, <3>3, <2>1 DEF Fit
        <3>5. Min(Fit(tier, k)) = x
            BY <3>4, <2>1, OneMin
        <3>6. f[k - 1] # NoModel
            BY <3>1, <3>3, <2>2, <2>3 DEF FirstModel, Specs
        <3>7. f[k] = f[k - 1]
            BY <3>6, <2>2
        <3> QED
            BY <3>1, <3>4, <3>5, <3>7, <2>2, <2>3, <1>1 DEF FirstModel
    <2>4. CASE Fit(tier, k - 1) = {}
        <3>1. f[k - 1] = NoModel
            BY <2>2, <2>4 DEF FirstModel
        <3>2. Fit(tier, k) = IF Usable(tier.listed[k], tier) THEN {k} ELSE {}
            BY <2>1, <2>4 DEF Fit
        <3>3. Min({k}) = k
            BY <2>1, OneMin
        <3>4. CASE Usable(tier.listed[k], tier)
            <4>1. f[k] = tier.listed[k].model
                BY <3>1, <3>4, <2>2 DEF Usable
            <4> QED
                <5>1. Fit(tier, k) = {k} /\ Fit(tier, k) # {} /\ Min(Fit(tier, k)) = k
                    BY <3>2, <3>3, <3>4
                <5>2. FirstModel(tier, k) = tier.listed[k].model
                    BY <5>1 DEF FirstModel
                <5> QED
                    BY <5>2, <4>1, <1>1
        <3>5. CASE ~Usable(tier.listed[k], tier)
            <4>1. f[k] = NoModel
                BY <3>1, <3>5, <2>2 DEF Usable
            <4> QED
                BY <3>2, <3>5, <4>1, <1>1 DEF FirstModel
        <3> QED
            BY <3>4, <3>5
    <2> QED
        BY <2>3, <2>4
<1>7. n \in T
    <2> HIDE DEF T, n
    <2> QED
        BY <1>1, <1>5, <1>6, Counting
<1> QED
    BY <1>3, <1>7

(* What the environment and the files say.                                   *)
GivenOK ==
    /\ keys \in [KeyVars -> {"unset", "empty", "foreign", "key"}]
    /\ \A doc \in {registry, domainTiers} : \A t \in DOMAIN doc : doc[t] \in Tiers1
    /\ vendors \in Seq(ToSet(vendors))
    /\ \A v \in ToSet(vendors) :
          /\ v.kind \in STRING /\ v.vars \in Seq(KeyVars) \ {<<>>} /\ v.elsewhere \in BOOLEAN
          /\ v.offers \in Seq([model : STRING \ {NoModel}, tier : STRING])

(* What a detected vendor offers comes with a key that has a value.          *)
WithValue == {s \in Specs : keys[s.var] \notin {"unset", "empty"}}

LEMMA DetectedHaveKeys ==
    ASSUME GivenOK, NEW i \in Detected
    PROVE  /\ i \in DOMAIN vendors /\ vendors[i] \in ToSet(vendors)
           /\ Len(vendors[i].offers) \in Nat
           /\ \A k \in 1..Len(vendors[i].offers) : SpecOf(vendors[i], vendors[i].offers[k]) \in WithValue
<1> PICK v : v = vendors[i]
    OBVIOUS
<1>1. i \in DOMAIN vendors /\ IsDetected(v) /\ v \in ToSet(vendors)
    BY DEF Detected, ToSet
<1>2. /\ v.kind \in STRING /\ v.vars \in Seq(KeyVars) /\ v.vars # <<>>
      /\ v.offers \in Seq([model : STRING \ {NoModel}, tier : STRING])
    BY <1>1 DEF GivenOK
<1>3. 1 \in DOMAIN v.vars /\ v.vars[1] \in KeyVars
    <2>1. PICK w : w = v.vars
        OBVIOUS
    <2>2. w \in Seq(KeyVars) /\ w # <<>>
        BY <1>2, <2>1
    <2>3. Len(w) \in Nat /\ Len(w) # 0 /\ DOMAIN w = 1..Len(w)
        BY <2>2, EmptySeq, LenProperties
    <2>4. 1 \in DOMAIN w
        BY <2>3
    <2>5. w[1] \in KeyVars
        BY <2>2, <2>4, ElementOfSeq, <2>3
    <2> QED
        BY <2>1, <2>4, <2>5
<1>4. keys[v.vars[1]] \notin {"unset", "empty"}
    BY <1>1, <1>3 DEF IsDetected
<1>5. Len(v.offers) \in Nat /\ \A k \in 1..Len(v.offers) : v.offers[k].model \in STRING \ {NoModel}
    <2>1. PICK w : w = v.offers
        OBVIOUS
    <2>2. w \in Seq([model : STRING \ {NoModel}, tier : STRING])
        BY <1>2, <2>1
    <2>3. Len(w) \in Nat /\ \A k \in 1..Len(w) : w[k] \in [model : STRING \ {NoModel}, tier : STRING]
        BY <2>2, ElementOfSeq, LenProperties
    <2> QED
        BY <2>1, <2>3
<1> QED
    BY <1>1, <1>2, <1>3, <1>4, <1>5 DEF SpecOf, Specs, WithValue

LEMMA OffersHaveKeys ==
    ASSUME GivenOK, NEW i \in Detected, NEW t
    PROVE  OffersOf(vendors[i], t) \in Seq(WithValue)
<1> DEFINE v == vendors[i]
           n == Len(v.offers)
           S == Seq(WithValue)
           Body(k, x) == IF v.offers[k].tier = t THEN Append(x, SpecOf(v, v.offers[k])) ELSE x
           G == [p \in (1..n) \X S |-> Body(p[1], p[2])]
           Eq(f) == f = [k \in 0..n |-> IF k = 0 THEN <<>> ELSE Body(k, f[k - 1])]
<1>1. n \in Nat /\ \A k \in 1..n : SpecOf(v, v.offers[k]) \in WithValue
    BY DetectedHaveKeys
<1>2. \A k \in 1..n : \A x \in S : G[<<k, x>>] = Body(k, x) /\ Body(k, x) \in S
    <2> HIDE DEF n, v
    <2> QED
        BY <1>1, AppendProperties
<1>3. <<>> \in S
    BY EmptySeq
<1>4. \E f : Eq(f)
    <2>1. PICK g : g = G
        OBVIOUS
    <2> HIDE DEF n, G, Body, S, v
    <2>2. StaysIn(g, n, S)
        BY <1>2, <2>1 DEF StaysIn
    <2>3. PICK f : IsLoop(f, n, S, <<>>, g)
        BY <1>1, <1>3, <2>2, LoopExists
    <2>4. f \in [0..n -> S] /\ f[0] = <<>> /\ \A k \in 1..n : f[k] = g[<<k, f[k - 1]>>]
        BY <2>3 DEF IsLoop
    <2>5. \A k \in 0..n : f[k] = IF k = 0 THEN <<>> ELSE Body(k, f[k - 1])
        <3> SUFFICES ASSUME NEW k \in 0..n, k # 0 PROVE f[k] = Body(k, f[k - 1])
            BY <2>4
        <3>1. k \in 1..n /\ k - 1 \in 0..n
            BY <1>1
        <3> QED
            BY <3>1, <1>2, <2>1, <2>4
    <2> QED
        BY <2>4, <2>5
<1>5. PICK f : Eq(f) /\ OffersOf(v, t) = f[n]
    BY <1>4 DEF OffersOf
<1> DEFINE T == {k \in 0..n : f[k] \in S}
<1> HIDE DEF n, Body, S, v
<1>6. f[0] = <<>> /\ \A k \in 1..n : f[k] = Body(k, f[k - 1])
    BY <1>1, <1>5
<1>7. 0 \in T /\ \A k \in 1..n : k - 1 \in T => k \in T
    <2>1. 0 \in T
        BY <1>1, <1>3, <1>6
    <2>2. ASSUME NEW k \in 1..n, k - 1 \in T PROVE k \in T
        <3>1. f[k - 1] \in S /\ k \in 0..n
            BY <2>2, <1>1
        <3>2. f[k] \in S
            BY <3>1, <1>2, <1>6
        <3> QED
            BY <3>1, <3>2
    <2> QED
        BY <2>1, <2>2
<1>8. n \in T
    <2> HIDE DEF T
    <2> QED
        BY <1>1, <1>7, Counting
<1> QED
    BY <1>5, <1>8 DEF S, v

LEMMA SpecsHaveKeys ==
    ASSUME GivenOK, NEW t
    PROVE  SpecsFor(t) \in Seq(WithValue)
<1> DEFINE n == Len(vendors)
           S == Seq(WithValue)
           Body(k, x) == IF k \in Detected THEN x \o OffersOf(vendors[k], t) ELSE x
           G == [p \in (1..n) \X S |-> Body(p[1], p[2])]
           Eq(f) == f = [k \in 0..n |-> IF k = 0 THEN <<>> ELSE Body(k, f[k - 1])]
<1>1. n \in Nat /\ \A k \in Detected : OffersOf(vendors[k], t) \in S
    BY OffersHaveKeys, LenProperties DEF GivenOK
<1>2. \A k \in 1..n : \A x \in S : G[<<k, x>>] = Body(k, x) /\ Body(k, x) \in S
    <2> HIDE DEF n
    <2> QED
        BY <1>1, ConcatProperties
<1>3. <<>> \in S
    BY EmptySeq
<1>4. \E f : Eq(f)
    <2>1. PICK g : g = G
        OBVIOUS
    <2> HIDE DEF n, G, Body, S
    <2>2. StaysIn(g, n, S)
        BY <1>2, <2>1 DEF StaysIn
    <2>3. PICK f : IsLoop(f, n, S, <<>>, g)
        BY <1>1, <1>3, <2>2, LoopExists
    <2>4. f \in [0..n -> S] /\ f[0] = <<>> /\ \A k \in 1..n : f[k] = g[<<k, f[k - 1]>>]
        BY <2>3 DEF IsLoop
    <2>5. \A k \in 0..n : f[k] = IF k = 0 THEN <<>> ELSE Body(k, f[k - 1])
        <3> SUFFICES ASSUME NEW k \in 0..n, k # 0 PROVE f[k] = Body(k, f[k - 1])
            BY <2>4
        <3>1. k \in 1..n /\ k - 1 \in 0..n
            BY <1>1
        <3> QED
            BY <3>1, <1>2, <2>1, <2>4
    <2> QED
        BY <2>4, <2>5
<1>5. PICK f : Eq(f) /\ SpecsFor(t) = f[n]
    BY <1>4 DEF SpecsFor
<1> DEFINE T == {k \in 0..n : f[k] \in S}
<1> HIDE DEF n, Body, S
<1>6. f[0] = <<>> /\ \A k \in 1..n : f[k] = Body(k, f[k - 1])
    BY <1>1, <1>5
<1>7. 0 \in T /\ \A k \in 1..n : k - 1 \in T => k \in T
    <2>1. 0 \in T
        BY <1>1, <1>3, <1>6
    <2>2. ASSUME NEW k \in 1..n, k - 1 \in T PROVE k \in T
        <3>1. f[k - 1] \in S /\ k \in 0..n
            BY <2>2, <1>1
        <3>2. f[k] \in S
            BY <3>1, <1>2, <1>6
        <3> QED
            BY <3>1, <3>2
    <2> QED
        BY <2>1, <2>2
<1>8. n \in T
    <2> HIDE DEF T
    <2> QED
        BY <1>1, <1>7, Counting
<1> QED
    BY <1>5, <1>8 DEF S

(* What was listed stays where it is; what comes after it is new, each model *)
(* once, and of all that was offered.                                        *)
AddsTo(l, had, specs, k) ==
    /\ l \in Seq(Specs) /\ Len(had) <= Len(l) /\ \A i \in 1..Len(had) : l[i] = had[i]
    /\ \A i \in 1..Len(l) : Len(had) < i => \E j \in 1..k : l[i] = specs[j]
    /\ \A j \in 1..k : \E i \in 1..Len(l) : l[i].model = specs[j].model
    /\ \A i, j \in 1..Len(l) : i < j /\ l[i].model = l[j].model => j <= Len(had)

LEMMA AddsOne ==
    ASSUME NEW had \in Seq(Specs), NEW specs \in Seq(Specs), NEW k \in 1..Len(specs),
           NEW l, AddsTo(l, had, specs, k - 1)
    PROVE  AddsTo(IF \E i \in DOMAIN l : l[i].model = specs[k].model THEN l ELSE Append(l, specs[k]), had, specs, k)
<1>1. /\ l \in Seq(Specs) /\ Len(l) \in Nat /\ Len(had) \in Nat /\ Len(specs) \in Nat /\ DOMAIN l = 1..Len(l)
      /\ specs[k] \in Specs
    BY LenProperties, ElementOfSeq DEF AddsTo
<1>2. k \in Nat /\ k - 1 \in Nat /\ k \in 1..k /\ \A j \in 1..k : j = k \/ j \in 1..(k - 1)
    BY <1>1
<1>3. \A j \in 1..(k - 1) : j \in 1..k
    BY <1>2
<1>4. CASE \E i \in DOMAIN l : l[i].model = specs[k].model
    <2>1. \A i \in 1..Len(l) : Len(had) < i => \E j \in 1..k : l[i] = specs[j]
        BY <1>3 DEF AddsTo
    <2>2. \A j \in 1..k : \E i \in 1..Len(l) : l[i].model = specs[j].model
        BY <1>1, <1>2, <1>4 DEF AddsTo
    <2> QED
        BY <2>1, <2>2, <1>4 DEF AddsTo
<1>5. CASE ~\E i \in DOMAIN l : l[i].model = specs[k].model
    <2>1. PICK h : h = Append(l, specs[k])
        OBVIOUS
    <2>2. /\ h \in Seq(Specs) /\ Len(h) = Len(l) + 1 /\ h[Len(l) + 1] = specs[k]
          /\ \A i \in 1..Len(l) : h[i] = l[i]
        BY <1>1, <2>1, AppendProperties
    <2>3. \A i \in 1..Len(h) : i = Len(l) + 1 \/ i \in 1..Len(l)
        BY <2>2, <1>1
    <2>4. Len(l) + 1 \in 1..Len(h) /\ \A i \in 1..Len(l) : i \in 1..Len(h)
        BY <2>2, <1>1
    <2>5. Len(had) <= Len(l) /\ \A i \in 1..Len(had) : i \in 1..Len(l) /\ l[i] = had[i]
        BY <1>1 DEF AddsTo
    <2>6. \A i \in 1..Len(h) : Len(had) < i => \E j \in 1..k : h[i] = specs[j]
        <3>1. \A i \in 1..Len(l) : Len(had) < i => \E j \in 1..k : l[i] = specs[j]
            BY <1>3 DEF AddsTo
        <3> QED
            BY <3>1, <2>2, <2>3, <1>2
    <2>7. \A j \in 1..k : \E i \in 1..Len(h) : h[i].model = specs[j].model
        <3>1. \A j \in 1..(k - 1) : \E i \in 1..Len(l) : l[i].model = specs[j].model
            BY DEF AddsTo
        <3> QED
            BY <3>1, <2>2, <2>4, <1>2
    <2>8. ASSUME NEW i \in 1..Len(h), NEW j \in 1..Len(h), i < j, h[i].model = h[j].model PROVE j <= Len(had)
        <3>1. i \in 1..Len(l)
            BY <2>8, <2>2, <1>1
        <3>2. j \in 1..Len(l)
            <4>1. CASE j = Len(l) + 1
                BY <4>1, <3>1, <2>8, <2>2, <1>5, <1>1
            <4> QED
                BY <4>1, <2>3
        <3> QED
            BY <3>1, <3>2, <2>8, <2>2 DEF AddsTo
    <2>9. Len(had) <= Len(h) /\ \A i \in 1..Len(had) : h[i] = had[i]
        BY <2>2, <2>5, <1>1, SMTT(30)
    <2> QED
        BY <2>1, <2>2, <2>6, <2>7, <2>8, <2>9, <1>5 DEF AddsTo
<1> QED
    BY <1>4, <1>5

LEMMA AppendNewAdds ==
    ASSUME NEW had \in Seq(Specs), NEW specs \in Seq(Specs)
    PROVE  AddsTo(AppendNew(had, specs), had, specs, Len(specs))
<1> DEFINE n == Len(specs)
           S == Seq(Specs)
           Body(k, x) == IF \E i \in DOMAIN x : x[i].model = specs[k].model THEN x ELSE Append(x, specs[k])
           G == [p \in (1..n) \X S |-> Body(p[1], p[2])]
           Eq(f) == f = [k \in 0..n |-> IF k = 0 THEN had ELSE Body(k, f[k - 1])]
<1>1. n \in Nat /\ Len(had) \in Nat /\ \A k \in 1..n : specs[k] \in Specs
    BY ElementOfSeq, LenProperties
<1>2. \A k \in 1..n : \A x \in S : G[<<k, x>>] = Body(k, x) /\ Body(k, x) \in S
    <2> HIDE DEF n
    <2> QED
        BY <1>1, AppendProperties
<1>3. had \in S
    OBVIOUS
<1>4. \E f : Eq(f)
    <2>1. PICK g : g = G
        OBVIOUS
    <2> HIDE DEF n, G, Body, S
    <2>2. StaysIn(g, n, S)
        BY <1>2, <2>1 DEF StaysIn
    <2>3. PICK f : IsLoop(f, n, S, had, g)
        BY <1>1, <1>3, <2>2, LoopExists
    <2>4. f \in [0..n -> S] /\ f[0] = had /\ \A k \in 1..n : f[k] = g[<<k, f[k - 1]>>]
        BY <2>3 DEF IsLoop
    <2>5. \A k \in 0..n : f[k] = IF k = 0 THEN had ELSE Body(k, f[k - 1])
        <3> SUFFICES ASSUME NEW k \in 0..n, k # 0 PROVE f[k] = Body(k, f[k - 1])
            BY <2>4
        <3>1. k \in 1..n /\ k - 1 \in 0..n
            BY <1>1
        <3> QED
            BY <3>1, <1>2, <2>1, <2>4
    <2> QED
        BY <2>4, <2>5
<1>5. PICK f : Eq(f) /\ AppendNew(had, specs) = f[n]
    BY <1>4 DEF AppendNew
<1> DEFINE T == {k \in 0..n : AddsTo(f[k], had, specs, k)}
<1> HIDE DEF Body
<1>6. f[0] = had /\ \A k \in 1..n : f[k] = Body(k, f[k - 1])
    <2> HIDE DEF n
    <2> QED
        BY <1>1, <1>5
<1>7. 0 \in T
    <2>1. AddsTo(had, had, specs, 0)
        BY <1>1 DEF AddsTo
    <2> QED
        BY <2>1, <1>1, <1>6
<1>8. ASSUME NEW k \in 1..n, k - 1 \in T PROVE k \in T
    <2>1. AddsTo(Body(k, f[k - 1]), had, specs, k)
        BY <1>8, AddsOne DEF Body
    <2> QED
        BY <2>1, <1>1, <1>6
<1>9. n \in T
    <2> HIDE DEF T, n
    <2>1. n \in Nat /\ 0 \in T /\ \A k \in 1..n : k - 1 \in T => k \in T
        BY <1>1, <1>7, <1>8
    <2>2. \A k \in 0..n : k \in T
        BY <2>1, Counting
    <2> QED
        BY <2>1, <2>2
<1> QED
    BY <1>5, <1>9

LEMMA TierIsOne == ASSUME GivenOK, NEW t PROVE TierIn(Loaded, t) \in Tiers1
<1>1. EmptyTier \in Tiers1
    BY EmptySeq DEF EmptyTier, Tiers1
<1>2. ASSUME t \in DOMAIN Loaded PROVE Loaded[t] \in Tiers1
    BY <1>2 DEF Loaded, GivenOK
<1> QED
    BY <1>1, <1>2 DEF TierIn

LEMMA ResolveIsFirst ==
    ASSUME NEW doc, NEW t, TierIn(doc, t) \in Tiers1
    PROVE  LET tier == TierIn(doc, t)
               F == Fit(tier, Len(tier.listed))
           IN /\ F \in SUBSET Nat /\ \A i \in F : tier.listed[i].model # NoModel
              /\ Resolve(doc, t) = IF F = {} THEN [kind |-> "none", model |-> NoModel, var |-> NoModel]
                                   ELSE tier.listed[Min(F)]
              /\ Resolve(doc, t).model # NoModel <=> F # {}
              /\ Resolve(doc, t).model = FirstModel(tier, Len(tier.listed))
<1> PICK tier \in Tiers1 : tier = TierIn(doc, t)
    OBVIOUS
<1>1. Len(tier.listed) \in Nat /\ DOMAIN tier.listed = 1..Len(tier.listed)
      /\ \A i \in 1..Len(tier.listed) : tier.listed[i] \in Specs
    BY LenProperties, ElementOfSeq DEF Tiers1
<1> PICK F : F = Fit(tier, Len(tier.listed))
    OBVIOUS
<1>2. F \in SUBSET Nat /\ F \subseteq 1..Len(tier.listed) /\ \A i \in F : tier.listed[i].model # NoModel
    BY <1>1 DEF Fit, Specs
<1>3. F = {i \in DOMAIN tier.listed : Usable(tier.listed[i], tier)}
    BY <1>1 DEF Fit
<1>4. Resolve(doc, t) = IF F = {} THEN [kind |-> "none", model |-> NoModel, var |-> NoModel] ELSE tier.listed[Min(F)]
    BY <1>3 DEF Resolve
<1>5. F # {} => Min(F) \in F
    BY <1>2, HasMin
<1> QED
    BY <1>2, <1>4, <1>5 DEF FirstModel

(* Detecting vendors adds to a tier and takes nothing away.                  *)
LEMMA MergeAdds ==
    ASSUME GivenOK
    PROVE  MergeOnlyAdds
<1> DEFINE more == Merge(Loaded)
<1> SUFFICES ASSUME NEW t \in DOMAIN more
             PROVE  /\ IF Resolve(Loaded, t).model # NoModel THEN Resolve(more, t) = Resolve(Loaded, t)
                       ELSE /\ Resolve(more, t).model # NoModel <=> New(t) # {}
                            /\ Resolve(more, t).model # NoModel =>
                                  Resolve(more, t).model \in New(t) /\ keys[Resolve(more, t).var] \notin {"unset", "empty"}
                    /\ \A i, j \in DOMAIN more[t].listed :
                          i < j /\ more[t].listed[i].model = more[t].listed[j].model => j <= Len(TierIn(Loaded, t).listed)
    BY DEF MergeOnlyAdds
<1> PICK old \in Tiers1 : old = TierIn(Loaded, t)
    BY TierIsOne
<1> PICK specs \in Seq(WithValue) : specs = SpecsFor(t)
    BY SpecsHaveKeys
<1> PICK l : l = AppendNew(old.listed, specs)
    OBVIOUS
<1> PICK new : new = [old EXCEPT !.listed = l]
    OBVIOUS
<1>1. more[t] = new /\ TierIn(more, t) = new
    BY DEF Merge, TierIn
<1>2. specs \in Seq(Specs)
    BY DEF WithValue
<1>3. AddsTo(l, old.listed, specs, Len(specs)) /\ l \in Seq(Specs) /\ old.listed \in Seq(Specs)
    <2>1. old.listed \in Seq(Specs)
        BY DEF Tiers1
    <2>2. AddsTo(l, old.listed, specs, Len(specs))
        BY <2>1, <1>2, AppendNewAdds
    <2>3. l \in Seq(Specs)
        BY <2>2 DEF AddsTo
    <2> QED
        BY <2>1, <2>2, <2>3
<1>4. new \in Tiers1 /\ new.listed = l /\ new.avoid = old.avoid
    BY <1>3 DEF Tiers1
<1>5. /\ Len(l) \in Nat /\ DOMAIN l = 1..Len(l) /\ Len(old.listed) \in Nat /\ Len(specs) \in Nat
      /\ \A j \in 1..Len(specs) : specs[j] \in WithValue
    BY <1>3, LenProperties, ElementOfSeq
<1> PICK F : F = Fit(old, Len(old.listed))
    OBVIOUS
<1> PICK H : H = Fit(new, Len(l))
    OBVIOUS
<1>6. /\ F \in SUBSET Nat /\ Resolve(Loaded, t).model # NoModel <=> F # {}
      /\ F # {} => Resolve(Loaded, t) = old.listed[Min(F)]
    BY ResolveIsFirst
<1>7. /\ H \in SUBSET Nat /\ Resolve(more, t).model # NoModel <=> H # {}
      /\ H # {} => Resolve(more, t) = l[Min(H)]
    <2>1. TierIn(more, t) \in Tiers1 /\ H = Fit(TierIn(more, t), Len(TierIn(more, t).listed))
          /\ TierIn(more, t).listed = l
        BY <1>1, <1>4
    <2> HIDE DEF more
    <2> QED
        BY <2>1, ResolveIsFirst
<1>8. F = H \cap (1..Len(old.listed))
    BY <1>3, <1>4, <1>5 DEF Fit, Usable, AddsTo
<1>9. ASSUME F # {} PROVE Resolve(more, t) = Resolve(Loaded, t)
    <2>1. PICK x : x = Min(F)
        OBVIOUS
    <2>2. x \in F /\ \A y \in F : x <= y
        BY <2>1, <1>6, <1>9, HasMin
    <2>3. \A y \in H : x <= y
        <3> SUFFICES ASSUME NEW y \in H, y \notin F PROVE x <= y
            BY <2>2
        <3>1. y \in Nat /\ x \in 1..Len(old.listed) /\ 1 <= y
            BY <2>2, <1>7, <1>8 DEF Fit
        <3>2. ~(y <= Len(old.listed))
            BY <3>1, <1>8, <1>5
        <3> QED
            BY <3>1, <3>2, <1>5
    <2>4. x \in H /\ Min(H) = x
        BY <2>2, <2>3, <1>7, <1>8, OneMin
    <2>5. old.listed[x] = l[x]
        BY <2>2, <1>3, <1>8 DEF AddsTo
    <2>6. Resolve(Loaded, t) = old.listed[x]
        BY <2>1, <1>6, <1>9
    <2>7. Resolve(more, t) = l[x]
        BY <2>4, <1>7
    <2> QED
        BY <2>5, <2>6, <2>7
<1>10. \A i \in H : F = {} => \E j \in 1..Len(specs) : l[i] = specs[j] /\ l[i].model \notin Listed(t) \cup old.avoid
    <2> SUFFICES ASSUME NEW i \in H, F = {}
                 PROVE  \E j \in 1..Len(specs) : l[i] = specs[j] /\ l[i].model \notin Listed(t) \cup old.avoid
        OBVIOUS
    <2>1. i \in 1..Len(l) /\ i \notin 1..Len(old.listed) /\ l[i].model \notin old.avoid
        BY <1>4, <1>8 DEF Fit, Usable
    <2>2. Len(old.listed) < i
        BY <2>1, <1>5
    <2>3. PICK j \in 1..Len(specs) : l[i] = specs[j]
        BY <2>1, <2>2, <1>3 DEF AddsTo
    <2>4. ASSUME l[i].model \in Listed(t) PROVE FALSE
        <3>1. PICK k \in DOMAIN old.listed : old.listed[k].model = l[i].model
            BY <2>4 DEF Listed, ToSet
        <3>2. k \in 1..Len(old.listed) /\ k \in 1..Len(l) /\ l[k] = old.listed[k]
            BY <3>1, <1>3, <1>5, LenProperties DEF AddsTo
        <3>3. k < i /\ l[k].model = l[i].model
            BY <3>1, <3>2, <2>1, <2>2, <1>5
        <3>4. i <= Len(old.listed)
            <4>1. \A a, b \in 1..Len(l) : a < b /\ l[a].model = l[b].model => b <= Len(old.listed)
                BY <1>3 DEF AddsTo
            <4> QED
                BY <4>1, <3>2, <3>3, <2>1
        <3> QED
            BY <3>4, <2>2, <2>1, <1>5
    <2> QED
        BY <2>1, <2>3, <2>4
<1>11. ToSet(specs) = {specs[j] : j \in 1..Len(specs)} /\ Offered(t) = {specs[j].model : j \in 1..Len(specs)}
    <2>1. DOMAIN specs = 1..Len(specs)
        BY LenProperties
    <2> QED
        BY <2>1 DEF ToSet, Offered
<1>n. New(t) = (Offered(t) \ Listed(t)) \ old.avoid
    BY DEF New
<1>12. ASSUME NEW m \in (Offered(t) \ Listed(t)) \ old.avoid PROVE H # {}
    <2>1. PICK j \in 1..Len(specs) : specs[j].model = m
        BY <1>11, <1>12
    <2>2. PICK i \in 1..Len(l) : l[i].model = m
        BY <2>1, <1>3, SMTT(30) DEF AddsTo
    <2>3. i \notin 1..Len(old.listed)
        <3> SUFFICES ASSUME i \in 1..Len(old.listed) PROVE FALSE
            OBVIOUS
        <3>1. old.listed[i].model = m /\ i \in DOMAIN old.listed
            BY <2>2, <1>3, LenProperties DEF AddsTo
        <3>2. m \in Listed(t)
            BY <3>1 DEF Listed, ToSet
        <3> QED
            BY <3>2, <1>12
    <2>4. PICK k \in 1..Len(specs) : l[i] = specs[k]
        BY <2>2, <2>3, <1>3, <1>5 DEF AddsTo
    <2>5. Present(l[i].var)
        BY <2>4, <1>5 DEF WithValue, Present
    <2>6. i \in H
        BY <2>2, <2>5, <1>4, <1>12 DEF Fit, Usable
    <2> QED
        BY <2>6
<1>13. ASSUME F = {}
       PROVE  /\ Resolve(Loaded, t).model = NoModel
              /\ Resolve(more, t).model # NoModel <=> New(t) # {}
              /\ Resolve(more, t).model # NoModel =>
                    Resolve(more, t).model \in New(t) /\ keys[Resolve(more, t).var] \notin {"unset", "empty"}
    <2>1. H # {} => \E j \in 1..Len(specs) : l[Min(H)] = specs[j] /\ l[Min(H)].model \notin Listed(t) \cup old.avoid
        BY <1>7, <1>10, <1>13, HasMin, ZenonT(60)
    <2>2. H # {} <=> New(t) # {}
        BY <2>1, <1>11, <1>12, <1>n
    <2>3. H # {} => l[Min(H)].model \in New(t) /\ keys[l[Min(H)].var] \notin {"unset", "empty"}
        BY <2>1, <1>5, <1>11, <1>n, SMTT(30) DEF WithValue
    <2>4. Resolve(Loaded, t).model = NoModel
        BY <1>6, <1>13
    <2>5. Resolve(more, t).model # NoModel <=> New(t) # {}
        BY <2>2, <1>7
    <2>6. Resolve(more, t).model # NoModel =>
              Resolve(more, t).model \in New(t) /\ keys[Resolve(more, t).var] \notin {"unset", "empty"}
        BY <2>3, <1>7
    <2> QED
        BY <2>4, <2>5, <2>6
<1>14. \A i, j \in DOMAIN more[t].listed :
          i < j /\ more[t].listed[i].model = more[t].listed[j].model => j <= Len(TierIn(Loaded, t).listed)
    BY <1>1, <1>3, <1>4, <1>5 DEF AddsTo
<1>15. Resolve(Loaded, t).model # NoModel => Resolve(more, t) = Resolve(Loaded, t)
    BY <1>6, <1>9
<1>16. Resolve(Loaded, t).model = NoModel =>
          /\ Resolve(more, t).model # NoModel <=> New(t) # {}
          /\ Resolve(more, t).model # NoModel =>
                Resolve(more, t).model \in New(t) /\ keys[Resolve(more, t).var] \notin {"unset", "empty"}
    BY <1>6, <1>13
<1> QED
    BY <1>14, <1>15, <1>16

(* Every tier a command can be shown is well formed, and the report is       *)
(* computed from the tiers of the command that made it.                      *)
DocOK(doc) == \A t \in DOMAIN doc : doc[t] \in Tiers1
ProvidersInv ==
    /\ GivenOK
    /\ \/ report.how = "none" /\ DOMAIN report.rows = {}
       \/ report.how = "status" /\ report.rows = Coverage(Loaded)
       \/ report.how = "detect" /\ report.rows = Coverage(Merge(Loaded))

LEMMA LoadedAreTiers == ASSUME GivenOK PROVE DocOK(Loaded)
    BY DEF GivenOK, DocOK, Loaded

LEMMA MergedAreTiers == ASSUME GivenOK PROVE DocOK(Merge(Loaded))
<1> SUFFICES ASSUME NEW t \in DOMAIN Merge(Loaded) PROVE Merge(Loaded)[t] \in Tiers1
    BY DEF DocOK
<1> PICK old \in Tiers1 : old = TierIn(Loaded, t)
    BY TierIsOne
<1> PICK specs \in Seq(WithValue) : specs = SpecsFor(t)
    BY SpecsHaveKeys
<1>1. Merge(Loaded)[t] = [old EXCEPT !.listed = AppendNew(old.listed, specs)]
    BY DEF Merge
<1>2. old.listed \in Seq(Specs) /\ specs \in Seq(Specs)
    BY DEF Tiers1, WithValue
<1>3. AddsTo(AppendNew(old.listed, specs), old.listed, specs, Len(specs))
    BY <1>2, AppendNewAdds
<1>4. AppendNew(old.listed, specs) \in Seq(Specs)
    BY <1>3 DEF AddsTo
<1> QED
    BY <1>1, <1>4 DEF Tiers1

LEMMA RowsArePicked ==
    ASSUME NEW doc, DocOK(doc), NEW t \in DOMAIN doc
    PROVE  /\ Coverage(doc)[t].by = Resolve(doc, t).model
           /\ \A v \in Coverage(doc)[t].missing : keys[v] = "unset"
<1>1. doc[t] \in Tiers1 /\ TierIn(doc, t) = doc[t]
    BY DEF DocOK, TierIn
<1>2. Coverage(doc)[t].by = Covered(doc[t]) /\ Coverage(doc)[t].missing = Missing(doc[t])
    BY DEF Coverage
<1>3. Resolve(doc, t).model = FirstModel(doc[t], Len(doc[t].listed))
    BY <1>1, ResolveIsFirst
<1>4. Covered(doc[t]) = FirstModel(doc[t], Len(doc[t].listed))
    BY <1>1, CoveredIsFirst
<1>5. \A v \in Missing(doc[t]) : keys[v] = "unset"
    BY DEF Missing, Present
<1> QED
    BY <1>2, <1>3, <1>4, <1>5

LEMMA ReportIsPicked == ASSUME ProvidersInv PROVE ShownIsPicked
<1>0. GivenOK /\ DocOK(Loaded) /\ DocOK(Merge(Loaded)) /\ MergeOnlyAdds
    BY LoadedAreTiers, MergedAreTiers, MergeAdds DEF ProvidersInv
<1>1. CASE report.how = "none" /\ DOMAIN report.rows = {}
    BY <1>1 DEF ShownIsPicked
<1>2. CASE report.how = "status" /\ report.rows = Coverage(Loaded)
    <2> PICK doc : doc = Loaded
        OBVIOUS
    <2>1. DOMAIN report.rows = DOMAIN Loaded
        BY <1>2 DEF Coverage
    <2>2. \A t \in DOMAIN report.rows : /\ report.rows[t].by = Resolve(Loaded, t).model
                                        /\ \A v \in report.rows[t].missing : keys[v] = "unset"
        BY <1>0, <1>2, <2>1, RowsArePicked
    <2> QED
        BY <2>1, <2>2 DEF ShownIsPicked
<1>3. CASE report.how = "detect" /\ report.rows = Coverage(Merge(Loaded))
    <2> PICK doc : doc = Merge(Loaded)
        OBVIOUS
    <2>1. DOMAIN report.rows = DOMAIN doc /\ DOMAIN Loaded \subseteq DOMAIN doc
        BY <1>3 DEF Coverage, Merge
    <2>2. \A t \in DOMAIN doc : /\ report.rows[t].by = Resolve(doc, t).model
                                /\ \A v \in report.rows[t].missing : keys[v] = "unset"
        BY <1>0, <1>3, <2>1, RowsArePicked
    <2>3. \A t \in DOMAIN doc :
              IF Resolve(Loaded, t).model # NoModel THEN Resolve(doc, t) = Resolve(Loaded, t)
              ELSE Resolve(doc, t).model # NoModel => Resolve(doc, t).model \in New(t)
        BY <1>0 DEF MergeOnlyAdds
    <2> QED
        BY <1>3, <2>1, <2>2, <2>3 DEF ShownIsPicked
<1> QED
    BY <1>1, <1>2, <1>3 DEF ProvidersInv

(* For any tiers, vendors, keys and overrides of a domain: status and detect *)
(* show of every tier what commands resolve to, and detect more only where   *)
(* they resolve to nothing; merging what was detected only adds: no pick     *)
(* changes, a tier gains a model exactly when a detected vendor has one it   *)
(* does not list, the key of that model has a value, and none is listed      *)
(* twice.                                                                    *)
THEOREM ReportsAreTrue == ProviderSpec => []ReportIsWhatRuns
<1> USE DEF given
<1>1. (\E c \in Setups : ProvidersAt(c)) => ProvidersInv
    <2> SUFFICES ASSUME NEW c \in Setups, ProvidersAt(c) PROVE ProvidersInv
        OBVIOUS
    <2>1. GivenOK
        BY SetupsAssumption DEF ProvidersAt, GivenOK, Tiers1
    <2>2. report.how = "none" /\ DOMAIN report.rows = {}
        <3>1. report.how = "none" /\ report.rows = <<>>
            BY DEF ProvidersAt
        <3> QED
            BY <3>1, EmptySeq
    <2> QED
        BY <2>1, <2>2 DEF ProvidersInv
<1>2. ProvidersInv /\ [ProviderStep]_providerVars => ProvidersInv'
    <2> SUFFICES ASSUME ProvidersInv, [ProviderStep]_providerVars PROVE ProvidersInv'
        OBVIOUS
    <2>1. ASSUME UNCHANGED given
          PROVE  /\ GivenOK' /\ Coverage(Loaded)' = Coverage(Loaded)
                 /\ Coverage(Merge(Loaded))' = Coverage(Merge(Loaded))
        <3>1. GivenOK'
            BY <2>1 DEF ProvidersInv, GivenOK
        <3>2. Loaded' = Loaded
            BY <2>1 DEF Loaded
        <3>3. \A t : SpecsFor(t)' = SpecsFor(t)
            BY <2>1 DEF SpecsFor, OffersOf, Detected, IsDetected
        <3>4. Merge(Loaded)' = Merge(Loaded)
            BY <3>2, <3>3 DEF Merge, TierIn
        <3>5. \A doc : Coverage(doc)' = Coverage(doc)
            BY <2>1 DEF Coverage, Covered, Missing, Present
        <3> QED
            BY <3>1, <3>2, <3>4, <3>5, <2>1 DEF Coverage, Covered, Missing, Present
    <2>3. CASE Status
        <3>1. UNCHANGED given /\ report' = [how |-> "status", rows |-> Coverage(Loaded)]
            BY <2>3 DEF Status, Shows
        <3> QED
            BY <3>1, <2>1 DEF ProvidersInv
    <2>4. CASE Detect
        <3>1. UNCHANGED given /\ report' = [how |-> "detect", rows |-> Coverage(Merge(Loaded))]
            BY <2>4 DEF Detect, Shows
        <3> QED
            BY <3>1, <2>1 DEF ProvidersInv
    <2>5. ASSUME UNCHANGED <<given, report>> PROVE ProvidersInv'
        <3>1. UNCHANGED given /\ report' = report
            BY <2>5
        <3> QED
            BY <2>1, <3>1 DEF ProvidersInv
    <2>6. CASE \E answers \in SUBSET DOMAIN vendors, apply \in BOOLEAN : Refresh(answers, apply)
        BY <2>5, <2>6 DEF Refresh
    <2>7. CASE UNCHANGED providerVars
        BY <2>5, <2>7 DEF providerVars
    <2> QED
        BY <2>3, <2>4, <2>6, <2>7 DEF ProviderStep
<1>3. ProvidersInv => ReportIsWhatRuns
    BY ReportIsPicked, MergeAdds DEF ProvidersInv, ReportIsWhatRuns
<1> QED
    BY <1>1, <1>2, <1>3, PTL DEF ProviderSpec

---------------------------------------------------------------------------
(* The commands.  The pick of the resolver does not change while a command   *)
(* runs, and the file a build with `auto` uses is that pick.                 *)
PickNow == Resolve(Loaded, PickTier("codegen", "codegen"))
FileIsChosen ==
    line.name = "build" /\ line.gprov = "auto" /\ PickNow.model # NoModel => file = PickNow

(* A provider is the one its file asks for, an engine boots only after the   *)
(* questions, a vendor is called only by an engine that has booted.          *)
CommandInv ==
    /\ line \in Lines \cup {NoLine}
    /\ line = NoLine => stage = "shell" /\ exit = "none"
    /\ exit # "none" => stage = "shell"
    /\ stage = "provider" => FileIsChosen
    /\ stage \in {"asks", "boot", "run", "report"} \/ spent => provider = Make(file) /\ FileIsChosen
    /\ spent => provider.kind # "dry_run"
    /\ booted # "nothing" => stage \in {"run", "report", "shell"} /\ line # NoLine
    /\ stage \in {"boot", "run", "report"} \/ booted # "nothing" => line.name # "build" \/ agreed \/ line.dry
    /\ stage \in {"run", "report"} \/ spent => booted # "nothing"
    /\ stage = "sources" \/ fetched => line.name = "build"
    /\ exit = "ok" /\ booted # "nothing" /\ line.name \in {"workflow", "build", "evolve"} => outcome = "completed"

(* No step of a command changes what the resolver reads.                     *)
LEMMA PickKept == ASSUME UNCHANGED providerVars PROVE PickNow' = PickNow
<1>1. keys' = keys /\ registry' = registry /\ domainTiers' = domainTiers /\ tierOf' = tierOf
    BY DEF providerVars
<1>2. Loaded' = Loaded
    BY <1>1 DEF Loaded
<1>3. PickTier("codegen", "codegen")' = PickTier("codegen", "codegen")
    BY <1>1 DEF PickTier
<1>4. ASSUME NEW d, NEW t PROVE Resolve(d, t)' = Resolve(d, t)
    <2>0. PICK tier : tier = TierIn(d, t)
        OBVIOUS
    <2>1. \A x, y : Usable(x, y)' <=> Usable(x, y)
        BY <1>1 DEF Usable, Present
    <2>2. PICK fit : fit = {i \in DOMAIN tier.listed : Usable(tier.listed[i], tier)}
        OBVIOUS
    <2>3. fit = {i \in DOMAIN tier.listed : Usable(tier.listed[i], tier)'}
        BY <2>1, <2>2
    <2>4. Resolve(d, t) = IF fit = {} THEN [kind |-> "none", model |-> NoModel, var |-> NoModel]
                          ELSE tier.listed[Min(fit)]
        BY <2>0, <2>2 DEF Resolve
    <2>5. Resolve(d, t)' = IF fit = {} THEN [kind |-> "none", model |-> NoModel, var |-> NoModel]
                           ELSE tier.listed[Min(fit)]
        BY <2>0, <2>3 DEF Resolve, TierIn
    <2> QED
        BY <2>4, <2>5
<1> QED
    BY <1>2, <1>3, <1>4 DEF PickNow

LEMMA MakeKept ==
    ASSUME UNCHANGED providerVars, line' = line
    PROVE  /\ \A f : Make(f)' = Make(f)
           /\ file' = file => (FileIsChosen' <=> FileIsChosen)
<1>1. keys' = keys
    BY DEF providerVars
<1>2. \A v : HasValue(v)' <=> HasValue(v)
    BY <1>1 DEF HasValue
<1>3. \A f : Make(f)' = Make(f)
    BY <1>2 DEF Make, Fallback
<1>4. PickNow' = PickNow
    BY PickKept
<1> QED
    BY <1>3, <1>4 DEF FileIsChosen

LEMMA CommandInvInit == CommandsInit => CommandInv
BY DEF CommandsInit, CommandInv, NoLine

(* A step that only moves the stage, or ends the command.                    *)
LEMMA CommandMoves ==
    ASSUME CommandInv, Keeps, line' = line, exit = "none", line # NoLine,
           \/ exit' = "none" /\ stage' \in {"inputs", "sources", "file"}
           \/ exit' = "none" /\ stage' = "provider" /\ FileIsChosen
           \/ exit' = "error" /\ stage' = "shell"
           \/ exit' = "ok" /\ stage' = "shell" /\ booted = "nothing"
           \/ /\ exit' = "ok" /\ stage' = "shell"
              /\ line.name \in {"workflow", "build", "evolve"} => outcome = "completed",
           stage' = "sources" => line.name = "build",
           stage' # "shell" => booted = "nothing"
    PROVE  CommandInv'
<1>1. UNCHANGED <<providerVars, file, provider, booted, fetched, agreed, spent, outcome>>
    BY DEF Keeps
<1>2. \A f : Make(f)' = Make(f)
    BY <1>1, MakeKept
<1>3. FileIsChosen' <=> FileIsChosen
    BY <1>1, MakeKept
<1>4. Make(file)' = Make(file)
    BY <1>1, <1>2
<1> QED
    BY <1>1, <1>3, <1>4 DEF CommandInv

LEMMA CommandInvStep == CommandInv /\ [CommandStep]_<<commandVars, providerVars>> => CommandInv'
<1> SUFFICES ASSUME CommandInv, [CommandStep]_<<commandVars, providerVars>> PROVE CommandInv'
    OBVIOUS
<1> DEFINE Bulk == UNCHANGED providerVars /\ line' = line
<1>k. ASSUME Bulk
      PROVE  (\A f : Make(f)' = Make(f)) /\ (file' = file => Make(file)' = Make(file) /\ (FileIsChosen' <=> FileIsChosen))
    BY <1>k, MakeKept
<1>s. stage # "shell" => exit = "none" /\ line # NoLine
    BY DEF CommandInv
<1>b. stage \notin {"run", "report", "shell"} => booted = "nothing" /\ ~spent
    BY DEF CommandInv
<1>1. ASSUME NEW l \in Lines, Types(l) PROVE CommandInv'
    <2>1. /\ stage = "shell" /\ line = NoLine /\ line' = l /\ stage' = "inputs"
          /\ UNCHANGED <<exit, providerVars, file, provider, booted, fetched, agreed, spent, outcome>>
        BY <1>1 DEF Types
    <2>2. booted = "nothing" /\ ~spent /\ ~fetched /\ exit = "none"
        BY <2>1 DEF CommandInv, NoLine
    <2>3. l # NoLine
        BY LinesAssumption DEF NoLine
    <2> QED
        BY <2>1, <2>2, <2>3 DEF CommandInv
<1>2. ASSUME NEW name, NEW next \in {"provider", "file", "sources"}, Checks(name, next),
             next = "provider" => name # "build", next = "sources" => name = "build"
      PROVE CommandInv'
    <2>1. /\ stage = "inputs" /\ line.name = name /\ Keeps /\ line' = line
          /\ \/ stage' = "shell" /\ exit' = "error"
             \/ stage' = next /\ exit' = exit
        BY <1>2 DEF Checks, Exits, To1
    <2>2. next = "provider" => FileIsChosen
        BY <2>1, <1>2 DEF FileIsChosen
    <2> QED
        BY <2>1, <2>2, <1>2, <1>s, <1>b, CommandMoves
<1>3. CASE Materializes
    <2>1. /\ stage = "sources" /\ fetched' /\ line' = line
          /\ (stage' = "file" /\ exit' = exit) \/ (stage' = "shell" /\ exit' = "error")
          /\ UNCHANGED <<providerVars, file, provider, booted, agreed, spent, outcome>>
        BY <1>3 DEF Materializes, To1, Exits
    <2>2. Make(file)' = Make(file) /\ (FileIsChosen' <=> FileIsChosen)
        BY <2>1, <1>k
    <2> QED
        BY <2>1, <2>2, <1>s, <1>b DEF CommandInv
<1>4. ASSUME NEW f, stage = "file", TakesFile(f),
             line.name = "build" /\ line.gprov = "auto" /\ PickNow.model # NoModel => f = PickNow
      PROVE CommandInv'
    <2>1. /\ file' = f /\ stage' = "provider" /\ exit' = exit /\ line' = line
          /\ UNCHANGED <<providerVars, provider, booted, fetched, agreed, spent, outcome>>
        BY <1>4 DEF TakesFile, To1
    <2>2. PickNow' = PickNow
        BY <2>1, PickKept
    <2>3. FileIsChosen'
        BY <2>1, <2>2, <1>4 DEF FileIsChosen
    <2> QED
        BY <2>1, <2>3, <1>4, <1>s, <1>b DEF CommandInv
<1>5. CASE PathMissing
    <2>1. stage = "file" /\ stage' = "shell" /\ exit' = "error" /\ line' = line /\ Keeps
        BY <1>5 DEF PathMissing, Exits
    <2> QED
        BY <2>1, <1>s, CommandMoves
<1>6. CASE MakesProvider
    <2>1. /\ stage = "provider" /\ provider' = Make(file) /\ line' = line
          /\ UNCHANGED <<providerVars, file, booted, fetched, agreed, spent, outcome>>
          /\ \/ stage' = "shell" /\ exit' = "error"
             \/ stage' = "asks" /\ exit' = exit
             \/ stage' = "boot" /\ exit' = exit /\ (line.name # "build" \/ line.dry)
        BY <1>6 DEF MakesProvider, To1, Exits
    <2>2. Make(file)' = Make(file) /\ (FileIsChosen' <=> FileIsChosen)
        BY <2>1, <1>k
    <2>3. FileIsChosen
        BY <2>1 DEF CommandInv
    <2> QED
        BY <2>1, <2>2, <2>3, <1>s, <1>b DEF CommandInv
<1>7. CASE Agrees
    <2>1. /\ stage = "asks" /\ agreed' /\ stage' = "boot" /\ exit' = exit /\ line' = line
          /\ UNCHANGED <<providerVars, file, provider, booted, fetched, spent, outcome>>
        BY <1>7 DEF Agrees, To1
    <2>2. Make(file)' = Make(file) /\ (FileIsChosen' <=> FileIsChosen)
        BY <2>1, <1>k
    <2> QED
        BY <2>1, <2>2, <1>s, <1>b DEF CommandInv
<1>8. CASE Aborts
    <2>1. stage = "asks" /\ stage' = "shell" /\ exit' = "ok" /\ line' = line /\ Keeps
        BY <1>8 DEF Aborts, Exits
    <2> QED
        BY <2>1, <1>s, <1>b, CommandMoves
<1>9. ASSUME NEW name, NEW root \in {"domain", "framework"}, BootsOn(name, root) PROVE CommandInv'
    <2>1. /\ stage = "boot" /\ line' = line
          /\ UNCHANGED <<providerVars, file, provider, fetched, agreed, outcome, spent>>
          /\ \/ booted' = root /\ stage' = "run" /\ exit' = exit
             \/ booted' = booted /\ stage' = "shell" /\ exit' = "error"
        BY <1>9 DEF BootsOn, To1, Exits
    <2>2. Make(file)' = Make(file) /\ (FileIsChosen' <=> FileIsChosen)
        BY <2>1, <1>k
    <2>3. root # "nothing"
        OBVIOUS
    <2> QED
        BY <2>1, <2>2, <2>3, <1>s, <1>b DEF CommandInv
<1>10. ASSUME NEW how, Runs(how) PROVE CommandInv'
    <2>1. /\ stage = "run" /\ spent' = (provider.kind # "dry_run") /\ stage' = "report"
          /\ exit' = exit /\ line' = line
          /\ UNCHANGED <<providerVars, file, provider, booted, fetched, agreed>>
        BY <1>10 DEF Runs, To1
    <2>2. Make(file)' = Make(file) /\ (FileIsChosen' <=> FileIsChosen)
        BY <2>1, <1>k
    <2> QED
        BY <2>1, <2>2, <1>s DEF CommandInv
<1>11. ASSUME NEW name, NEW code \in {"ok", "error"}, Tells(name, code),
              code = "ok" /\ name \in {"workflow", "build", "evolve"} => outcome = "completed"
       PROVE  CommandInv'
    <2>1. stage = "report" /\ line.name = name /\ stage' = "shell" /\ exit' = code /\ line' = line /\ Keeps
        BY <1>11 DEF Tells, Exits
    <2> QED
        BY <2>1, <1>11, <1>s, CommandMoves
<1>12. CASE UNCHANGED <<commandVars, providerVars>>
    <2>1. UNCHANGED <<line, stage, file, provider, booted, fetched, agreed, spent, outcome, exit, providerVars>>
        BY <1>12 DEF commandVars
    <2>2. Make(file)' = Make(file) /\ (FileIsChosen' <=> FileIsChosen)
        BY <2>1, <1>k
    <2> QED
        BY <2>1, <2>2 DEF CommandInv
<1>13. CASE AgentInputs \/ LearnInputs \/ ScanInputs \/ EvolveInputs \/ WorkflowInputs
    BY <1>13, <1>2 DEF AgentInputs, LearnInputs, ScanInputs, EvolveInputs, WorkflowInputs
<1>14. CASE BuildInputs
    BY <1>14, <1>2 DEF BuildInputs
<1>15. CASE WorkflowFile
    BY <1>15, <1>4 DEF WorkflowFile
<1>16. CASE BuildFile
    BY <1>16, <1>4 DEF BuildFile, PickNow
<1>17. CASE AgentBoots \/ WorkflowBoots \/ LearnBoots \/ ScanBoots \/ EvolveBoots \/ BuildBoots
    BY <1>17, <1>9 DEF AgentBoots, WorkflowBoots, LearnBoots, ScanBoots, EvolveBoots, BuildBoots
<1>18. CASE AgentReports \/ LearnReports \/ ScanReports
    BY <1>18, <1>11 DEF AgentReports, LearnReports, ScanReports
<1>19. CASE WorkflowReports \/ EvolveReports \/ BuildReports
    BY <1>19, <1>11 DEF WorkflowReports, EvolveReports, BuildReports, Judged
<1> QED
    BY <1>1, <1>3, <1>5, <1>6, <1>7, <1>8, <1>10, <1>12, <1>13, <1>14, <1>15, <1>16, <1>17, <1>18, <1>19
       DEF CommandStep

LEMMA CommandInvKeeps == CommandInv => CommandsKeepWord
<1> SUFFICES ASSUME CommandInv PROVE CommandsKeepWord
    OBVIOUS
<1>1. spent => provider = Make(file) /\ provider.kind # "dry_run" /\ FileIsChosen /\ booted # "nothing"
    BY DEF CommandInv
<1>2. spent => ~line.dry /\ ~line.envDry
    BY <1>1 DEF Make, Own
<1>3. CostIsMeant
    BY <1>1, <1>2 DEF CommandInv, CostIsMeant
<1>4. ASSUME spent, NEW f, f = file, f.kind \in Served, HasValue(f.var) PROVE provider = Of(f)
    BY <1>1, <1>2, <1>4 DEF Make, Served
<1>5. ASSUME spent, line.gprov = "auto", PickNow.model # NoModel PROVE file = PickNow
    <2>1. line \in Lines
        BY <1>1, <1>5 DEF CommandInv
    <2>2. line.name = "build"
        BY <2>1, <1>5, LinesAssumption
    <2> QED
        BY <2>2, <1>1, <1>5 DEF FileIsChosen
<1>6. ASSUME spent, line.gprov = "auto", PickNow.model # NoModel, PickNow.kind \in Served, HasValue(PickNow.var)
      PROVE  provider.model = PickNow.model
    <2>1. file = PickNow
        BY <1>5, <1>6
    <2>2. provider = Of(file)
        BY <2>1, <1>4, <1>6
    <2> QED
        BY <2>1, <2>2 DEF Of
<1>7. ProviderIsChosen
    BY <1>4, <1>6 DEF ProviderIsChosen, PickNow
<1>8. ExitTells
    BY DEF CommandInv, ExitTells
<1> QED
    BY <1>3, <1>7, <1>8 DEF CommandsKeepWord

(* Whatever the command lines, files, keys and tools are: a command calls a  *)
(* vendor only where its line and its environment allow it and its user has  *)
(* agreed, with the provider its file or the resolver names, and tells the   *)
(* shell how its workflow ended.                                             *)
THEOREM CommandsAreHonest == CommandSpec => []CommandsKeepWord
<1>1. CommandsInit => CommandInv
    BY CommandInvInit
<1>2. CommandInv /\ [CommandStep]_<<commandVars, providerVars>> => CommandInv'
    BY CommandInvStep
<1>3. CommandInv => CommandsKeepWord
    BY CommandInvKeeps
<1> QED
    BY <1>1, <1>2, <1>3, PTL DEF CommandSpec

---------------------------------------------------------------------------
(* Booting an engine.  What a step is configured with, while it is being put *)
(* together: nothing but the values the loader can give it.                  *)
Sources == {"standards", "best_practice_library"} \cup UNION {Wants[i] : i \in Ids}
Configs == [id : Ids, from : Places \cup {NoPlace}, is : {"invalid", "valid", "stub"},
            context : SUBSET [source : Sources, root : Roots]]

BootTypes ==
    /\ dirs \in [Places -> Contents \cup {Nothing}] /\ strict \in BOOLEAN
    /\ DOMAIN paths \subseteq Ids /\ agents \subseteq Ids /\ listed \in [Ids -> Nat]
    /\ \A i \in DOMAIN paths : paths[i] \in Places
    /\ boot \in [root : Roots, todo : Seq(Ids), edits : Nat, on : BOOLEAN]
    /\ configs \in Seq(Configs) /\ edits \in Nat

(* A path of the registry lies under a root it has looked into, and every    *)
(* agent it knows is in the list of its domain.                              *)
RegistryInv ==
    /\ \A i \in DOMAIN paths : paths[i].root \in visited
    /\ \A i \in Ids : listed[i] > 0 <=> i \in agents

(* A configuration made in this boot: as long as nothing changes on disk its *)
(* directory is the one the id would be given again.                         *)
ConfigIsOwn(c) ==
    /\ IF c.from = NoPlace THEN c.id \in absent ELSE c.from.root \in visited
    /\ boot.edits = edits => c.from = ResolvePath(c.id, boot.root)
    /\ \A x \in c.context : x.root \in {boot.root, Framework}

BootInv ==
    /\ BootTypes /\ RegistryInv
    /\ boot.edits <= edits
    /\ boot.on => \A k \in DOMAIN configs : ConfigIsOwn(configs[k])
    /\ strict => \A k \in DOMAIN configs : configs[k].is \in {"valid", "stub"}

LEMMA PlacesFinite == IsFiniteSet(Places)
<1> DEFINE Subs == {i.sub : i \in Ids}
           Named1 == {i.name : i \in Ids}
           bySub == [i \in Ids |-> i.sub]
           byName == [i \in Ids |-> i.name]
           Triples == (Roots \X (Subs \cup {Flat})) \X Named1
           place == [t \in Triples |-> [root |-> t[1][1], sub |-> t[1][2], name |-> t[2]]]
<1>1. IsFiniteSet(Subs)
    <2>1. bySub \in Surjection(Ids, Subs)
        BY DEF Surjection
    <2> QED
        BY <2>1, BootAssumption, FS_Surjection
<1>2. IsFiniteSet(Named1)
    <2>1. byName \in Surjection(Ids, Named1)
        BY DEF Surjection
    <2> QED
        BY <2>1, BootAssumption, FS_Surjection
<1>3. IsFiniteSet(Roots)
    BY BootAssumption, FS_AddElement DEF Roots
<1>4. IsFiniteSet(Triples)
    BY <1>1, <1>2, <1>3, FS_AddElement, FS_Product
<1>5. place \in Surjection(Triples, Places)
    <2>1. \A t \in Triples : place[t] \in Places
        BY DEF Places
    <2>2. ASSUME NEW p \in Places PROVE \E t \in Triples : place[t] = p
        <3>1. <<<<p.root, p.sub>>, p.name>> \in Triples /\ p = [root |-> p.root, sub |-> p.sub, name |-> p.name]
            BY <2>2 DEF Places
        <3>2. place[<<<<p.root, p.sub>>, p.name>>] = p
            BY <3>1
        <3> QED
            BY <3>1, <3>2
    <2> HIDE DEF place
    <2>3. place \in [Triples -> Places]
        BY <2>1 DEF place
    <2> QED
        BY <2>2, <2>3 DEF Surjection
<1> QED
    BY <1>4, <1>5, FS_Surjection

LEMMA NoPlaceIsNone == NoPlace \notin Places
BY BootAssumption DEF NoPlace, Places, Roots

LEMMA CandidatesAreTheirs ==
    ASSUME NEW i \in Ids, NEW root \in Roots, NEW k \in 1..3
    PROVE  Candidates(i, root)[k] \in Places /\ Candidates(i, root)[k].root \in {root, Framework}
<1>1. Framework \in Roots
    BY DEF Roots
<1> QED
    BY <1>1 DEF Candidates, Places

LEMMA FirstIsThere ==
    ASSUME NEW i \in Ids, NEW root \in Roots
    PROVE  \/ FirstThere(i, root) = NoPlace
           \/ /\ FirstThere(i, root) \in Places /\ ~NotThere(FirstThere(i, root))
              /\ FirstThere(i, root).root \in {root, Framework}
<1>1. PICK there : there = {k \in 1..3 : ~NotThere(Candidates(i, root)[k])}
    OBVIOUS
<1>2. CASE there = {}
    BY <1>1, <1>2 DEF FirstThere
<1>3. CASE there # {}
    <2>1. PICK k : k = Min(there)
        OBVIOUS
    <2>2. \E x \in there : \A y \in there : x <= y
        <3>1. CASE 1 \in there
            BY <3>1, <1>1
        <3>2. CASE 1 \notin there /\ 2 \in there
            BY <3>2, <1>1
        <3>3. CASE 1 \notin there /\ 2 \notin there
            <4>1. there = {3}
                BY <3>3, <1>1, <1>3
            <4> QED
                BY <4>1
        <3> QED
            BY <3>1, <3>2, <3>3
    <2>3. k \in there
        BY <2>1, <2>2 DEF Min
    <2>4. FirstThere(i, root) = Candidates(i, root)[k]
        BY <1>1, <1>3, <2>1 DEF FirstThere
    <2>5. k \in 1..3 /\ ~NotThere(Candidates(i, root)[k])
        BY <2>3, <1>1
    <2> QED
        BY <2>4, <2>5, CandidatesAreTheirs
<1> QED
    BY <1>2, <1>3

LEMMA ResolvedIsThere ==
    ASSUME NEW i \in Ids, NEW root \in Roots, BootTypes, RegistryInv
    PROVE  LET p == ResolvePath(i, root) IN
           \/ p = NoPlace /\ FirstThere(i, root) = NoPlace
           \/ /\ p \in Places /\ ~NotThere(p)
              /\ p.root \in visited \cup {root, Framework}
<1>1. CASE i \in DOMAIN paths /\ ~NotThere(paths[i])
    BY <1>1 DEF ResolvePath, BootTypes, RegistryInv
<1>2. CASE ~(i \in DOMAIN paths /\ ~NotThere(paths[i]))
    BY <1>2, FirstIsThere DEF ResolvePath
<1> QED
    BY <1>1, <1>2

(* What the registry would give for an id depends on the directories and on  *)
(* what is cached for that id.                                               *)
LEMMA FirstKept ==
    ASSUME dirs' = dirs, NEW i, NEW root
    PROVE  FirstThere(i, root)' = FirstThere(i, root)
<1>1. \A p : NotThere(p)' <=> NotThere(p)
    BY DEF NotThere
<1>2. PICK c : c = Candidates(i, root)
    OBVIOUS
<1>3. PICK there : there = {k \in 1..3 : ~NotThere(c[k])}
    OBVIOUS
<1>4. there = {k \in 1..3 : ~NotThere(c[k])'}
    BY <1>1, <1>3
<1>5. FirstThere(i, root) = IF there = {} THEN NoPlace ELSE c[Min(there)]
    BY <1>2, <1>3 DEF FirstThere
<1>6. FirstThere(i, root)' = IF there = {} THEN NoPlace ELSE c[Min(there)]
    BY <1>2, <1>4 DEF FirstThere, Candidates
<1> QED
    BY <1>5, <1>6

LEMMA ResolveKept ==
    ASSUME dirs' = dirs, NEW i, NEW root,
           i \in DOMAIN paths' <=> i \in DOMAIN paths,
           i \in DOMAIN paths => paths'[i] = paths[i]
    PROVE  ResolvePath(i, root)' = ResolvePath(i, root)
<1>1. \A p : NotThere(p)' <=> NotThere(p)
    BY DEF NotThere
<1>2. FirstThere(i, root)' = FirstThere(i, root)
    BY FirstKept
<1>3. ASSUME i \in DOMAIN paths PROVE NotThere(paths[i])' <=> NotThere(paths[i])
    BY <1>3 DEF NotThere
<1> QED
    BY <1>2, <1>3 DEF ResolvePath

LEMMA ContextIsOwn ==
    ASSUME NEW i \in Ids, NEW root \in Roots
    PROVE  /\ Context(i, root) \in SUBSET [source : Sources, root : Roots]
           /\ \A x \in Context(i, root) : x.root \in {root, Framework}
<1> DEFINE Good(S) == \A x \in S : \E s \in Sources, r \in {root, Framework} : x = [source |-> s, root |-> r]
<1>1. \A p \in Sources : Good(FrameworkPreload(p)) /\ Good(DomainPreload(p, root))
    BY DEF FrameworkPreload, DomainPreload
<1>2. "standards" \in Sources /\ "best_practice_library" \in Sources
    BY DEF Sources
<1>3. Good(LibraryPreload(root))
    BY <1>1, <1>2 DEF LibraryPreload
<1>4. \A p \in Sources : Good(Preload(p, root))
    BY <1>1, <1>3 DEF Preload
<1>5. \A p \in Wants[i] : p \in Sources
    BY DEF Sources
<1>6. Good(UNION {Preload(p, root) : p \in Wants[i]})
    BY <1>4, <1>5
<1>7. Good(ContextFiles(i, root))
    BY <1>1, <1>2 DEF ContextFiles
<1>8. Good(Context(i, root))
    BY <1>6, <1>7 DEF Context
<1>9. Framework \in Roots
    BY DEF Roots
<1> QED
    BY <1>8, <1>9

LEMMA BootInvInit == EngineBootInit => BootInv
<1> SUFFICES ASSUME EngineBootInit PROVE BootInv
    OBVIOUS
<1>1. Framework \in Roots /\ <<>> \in Seq(Ids) /\ <<>> \in Seq(Configs)
    BY DEF Roots
<1>2. /\ dirs = [p \in Places |-> Nothing] /\ strict \in BOOLEAN /\ edits = 0 /\ agents = {}
      /\ paths = <<>> /\ listed = [i \in Ids |-> 0] /\ configs = <<>>
      /\ boot = [root |-> Framework, todo |-> <<>>, edits |-> 0, on |-> FALSE]
    BY DEF EngineBootInit, Idle1
<1>3. DOMAIN paths = {} /\ DOMAIN configs = {}
    BY <1>2
<1>4. BootTypes
    BY <1>1, <1>2, <1>3 DEF BootTypes
<1>5. RegistryInv
    BY <1>2, <1>3 DEF RegistryInv
<1> QED
    BY <1>2, <1>3, <1>4, <1>5 DEF BootInv

(* Nothing is being booted, or a change on disk has made the boot a mixed    *)
(* one: the configurations that are there stay what they were.               *)
LEMMA BootRests ==
    ASSUME BootInv, boot' = boot, configs' = configs, strict' = strict, BootTypes', RegistryInv',
           edits' >= edits,
           \/ ~boot.on
           \/ edits' > edits /\ absent' = absent /\ visited' = visited
           \/ edits' = edits /\ UNCHANGED <<dirs, paths, absent, visited>>
    PROVE  BootInv'
<1>0. BootTypes /\ boot.edits \in Nat /\ edits \in Nat /\ edits' \in Nat /\ boot.edits <= edits
    BY DEF BootInv, BootTypes
<1>1. boot'.edits <= edits'
    BY <1>0
<1>2. ASSUME boot.on, NEW k \in DOMAIN configs PROVE ConfigIsOwn(configs[k])'
    <2>1. PICK c, r : c = configs[k] /\ r = boot.root
        OBVIOUS
    <2>2. ConfigIsOwn(c)
        BY <1>2, <2>1 DEF BootInv
    <2>3. absent' = absent /\ visited' = visited
        BY <1>2
    <2>4. boot.edits = edits' => c.from = ResolvePath(c.id, r)'
        <3> SUFFICES ASSUME boot.edits = edits' PROVE c.from = ResolvePath(c.id, r)'
            OBVIOUS
        <3>1. UNCHANGED <<dirs, paths>> /\ edits' = edits
            BY <1>0, <1>2
        <3>2. ResolvePath(c.id, r)' = ResolvePath(c.id, r)
            BY <3>1, ResolveKept
        <3> QED
            BY <2>1, <2>2, <3>1, <3>2 DEF ConfigIsOwn
    <2>5. ConfigIsOwn(c)'
        BY <2>1, <2>2, <2>3, <2>4 DEF ConfigIsOwn
    <2> QED
        BY <2>1, <2>5
<1> QED
    BY <1>1, <1>2 DEF BootInv

LEMMA DirChangesBoot == ASSUME BootInv, NEW p \in Places, NEW c \in Contents \cup {Nothing}, DirChanges(p, c) PROVE BootInv'
<1>1. /\ dirs' = [dirs EXCEPT ![p] = c] /\ edits' = edits + 1
      /\ UNCHANGED <<strict, paths, agents, listed, visited, boot, configs, absent>>
    BY DEF DirChanges, registryVars, loaderVars
<1>2. BootTypes /\ RegistryInv
    BY DEF BootInv
<1>3. BootTypes'
    <2>1. dirs' \in [Places -> Contents \cup {Nothing}] /\ edits' \in Nat
        BY <1>1, <1>2 DEF BootTypes
    <2> QED
        BY <2>1, <1>1, <1>2 DEF BootTypes
<1>4. RegistryInv'
    BY <1>1, <1>2 DEF RegistryInv
<1>5. edits' > edits /\ edits' >= edits
    BY <1>1, <1>2 DEF BootTypes
<1> QED
    BY <1>1, <1>3, <1>4, <1>5, BootRests

LEMMA ScanBoot == ASSUME BootInv, NEW root \in Roots, Scan(root) PROVE BootInv'
<1> DEFINE found == {p \in Places : p.root = root /\ dirs[p].is \in {"valid", "invalid"}}
           ids == {dirs[p].id : p \in found}
<1>3. /\ ~boot.on /\ edits' = edits + 1 /\ agents' = agents \cup ids
      /\ listed' = [i \in Ids |-> listed[i] + Cardinality({p \in found : dirs[p].id = i})]
      /\ visited' = visited \cup {root}
      /\ UNCHANGED <<dirs, strict, boot, configs, absent>>
    <2>1. ~boot.on /\ edits' = edits + 1 /\ visited' = visited \cup {root}
        BY DEF Scan
    <2>2. agents' = agents \cup ids
        BY DEF Scan
    <2>3. listed' = [i \in Ids |-> listed[i] + Cardinality({p \in found : dirs[p].id = i})]
        BY DEF Scan
    <2>4. UNCHANGED <<dirs, strict, boot, configs, absent>>
        BY DEF Scan, loaderVars
    <2> QED
        BY <2>1, <2>2, <2>3, <2>4
<1>4. PICK last \in [ids -> found] : paths' = [i \in ids \cup DOMAIN paths |-> IF i \in ids THEN last[i] ELSE paths[i]]
    BY DEF Scan
<1> HIDE DEF found, ids
<1>1. found = {p \in Places : p.root = root /\ dirs[p].is \in {"valid", "invalid"}}
    BY DEF found
<1>2. ids = {dirs[p].id : p \in found}
    BY DEF ids
<1>5. BootTypes /\ RegistryInv
    BY DEF BootInv
<1>6. ids \subseteq Ids
    <2> SUFFICES ASSUME NEW p \in found PROVE dirs[p].id \in Ids
        BY <1>2
    <2>1. p \in Places /\ dirs[p].is \in {"valid", "invalid"}
        BY <1>1
    <2>2. dirs[p] \in Contents \cup {Nothing}
        BY <2>1, <1>5 DEF BootTypes
    <2>3. dirs[p] # Nothing
        BY <2>1 DEF Nothing
    <2> QED
        BY <2>1, <2>2, <2>3, BootAssumption
<1>7. ASSUME NEW i \in Ids
      PROVE  /\ Cardinality({p \in found : dirs[p].id = i}) \in Nat
             /\ Cardinality({p \in found : dirs[p].id = i}) > 0 <=> i \in ids
    <2>1. PICK here : here = {p \in found : dirs[p].id = i}
        OBVIOUS
    <2>2. here \subseteq Places
        BY <2>1, <1>1
    <2>3. IsFiniteSet(here)
        BY <2>2, PlacesFinite, FS_Subset
    <2>4. Cardinality(here) \in Nat /\ (Cardinality(here) = 0 <=> here = {})
        BY <2>3, FS_CardinalityType, FS_EmptySet
    <2>5. here # {} <=> i \in ids
        BY <2>1, <1>2
    <2> QED
        BY <2>1, <2>4, <2>5
<1>8. /\ DOMAIN paths' = ids \cup DOMAIN paths
      /\ \A i \in ids : paths'[i] \in Places /\ paths'[i].root = root
      /\ \A i \in DOMAIN paths \ ids : paths'[i] = paths[i]
    BY <1>4, <1>1
<1>9. listed' \in [Ids -> Nat] /\ \A i \in Ids : listed'[i] > 0 <=> listed[i] > 0 \/ i \in ids
    <2>1. \A i \in Ids : listed[i] \in Nat /\ listed'[i] = listed[i] + Cardinality({p \in found : dirs[p].id = i})
        BY <1>3, <1>5 DEF BootTypes
    <2>2. ASSUME NEW i \in Ids
          PROVE  listed'[i] \in Nat /\ (listed'[i] > 0 <=> listed[i] > 0 \/ i \in ids)
        <3>1. PICK n : n = Cardinality({p \in found : dirs[p].id = i})
            OBVIOUS
        <3>2. n \in Nat /\ (n > 0 <=> i \in ids)
            BY <3>1, <1>7
        <3>3. listed[i] \in Nat /\ listed'[i] = listed[i] + n
            BY <2>1, <3>1
        <3> QED
            BY <3>2, <3>3
    <2>3. DOMAIN listed' = Ids /\ listed' = [i \in Ids |-> listed'[i]]
        BY <1>3
    <2> QED
        BY <2>2, <2>3
<1>10. edits \in Nat /\ edits' \in Nat /\ edits' >= edits
    BY <1>3, <1>5 DEF BootTypes
<1>11. BootTypes'
    BY <1>3, <1>5, <1>6, <1>8, <1>9, <1>10 DEF BootTypes
<1>12. RegistryInv'
    BY <1>3, <1>5, <1>8, <1>9 DEF RegistryInv
<1> QED
    BY <1>3, <1>10, <1>11, <1>12, BootRests

LEMMA RegisterBoot ==
    ASSUME BootInv, NEW i \in Ids, NEW p \in Places \cup {NoPlace}, RegisterAgent(i, p) PROVE BootInv'
<1>1. /\ ~boot.on /\ edits' = edits + 1 /\ agents' = agents \cup {i}
      /\ listed' = [listed EXCEPT ![i] = @ + 1]
      /\ UNCHANGED <<dirs, strict, boot, configs, absent>>
    BY DEF RegisterAgent, loaderVars
<1>2. BootTypes /\ RegistryInv
    BY DEF BootInv
<1>3. DOMAIN paths' \subseteq Ids /\ \A j \in DOMAIN paths' : paths'[j] \in Places /\ paths'[j].root \in visited'
    <2>1. CASE p = NoPlace
        BY <2>1, <1>2 DEF RegisterAgent, BootTypes, RegistryInv
    <2>2. CASE p # NoPlace
        <3>1. paths' = [j \in DOMAIN paths \cup {i} |-> IF j = i THEN p ELSE paths[j]] /\ visited' = visited \cup {p.root}
            BY <2>2 DEF RegisterAgent
        <3> QED
            BY <3>1, <2>2, <1>2 DEF BootTypes, RegistryInv
    <2> QED
        BY <2>1, <2>2
<1>4. listed' \in [Ids -> Nat] /\ \A j \in Ids : listed'[j] > 0 <=> listed[j] > 0 \/ j = i
    BY <1>1, <1>2 DEF BootTypes
<1>5. edits \in Nat /\ edits' \in Nat /\ edits' >= edits
    BY <1>1, <1>2 DEF BootTypes
<1>6. BootTypes'
    BY <1>1, <1>2, <1>3, <1>4, <1>5 DEF BootTypes
<1>7. RegistryInv'
    BY <1>1, <1>2, <1>3, <1>4 DEF RegistryInv
<1> QED
    BY <1>1, <1>5, <1>6, <1>7, BootRests

LEMMA ClearBoot == ASSUME BootInv, Clear PROVE BootInv'
<1>1. /\ ~boot.on /\ paths' = <<>> /\ agents' = {} /\ listed' = [i \in Ids |-> 0]
      /\ UNCHANGED <<dirs, strict, edits, boot, configs, absent>>
    BY DEF Clear, loaderVars
<1>2. BootTypes /\ edits \in Nat
    BY DEF BootInv, BootTypes
<1>3. DOMAIN paths' = {}
    BY <1>1
<1>4. BootTypes'
    BY <1>1, <1>2, <1>3 DEF BootTypes
<1>5. RegistryInv'
    BY <1>1, <1>3 DEF RegistryInv
<1> QED
    BY <1>1, <1>2, <1>4, <1>5, BootRests

LEMMA BeginsBoot == ASSUME BootInv, NEW w \in Workflows, NEW r \in Roots, BootEngine(w, r) PROVE BootInv'
<1>1. /\ boot' = [root |-> r, todo |-> w, edits |-> edits, on |-> TRUE] /\ configs' = <<>>
      /\ UNCHANGED <<dirs, strict, paths, agents, listed, visited, edits>>
    BY DEF BootEngine, registryVars
<1>2. BootTypes /\ RegistryInv /\ edits \in Nat
    BY DEF BootInv, BootTypes
<1>3. w \in Seq(Ids)
    BY BootAssumption
<1>4. boot' \in [root : Roots, todo : Seq(Ids), edits : Nat, on : BOOLEAN] /\ boot'.edits = edits
    BY <1>1, <1>2, <1>3
<1>5. configs' \in Seq(Configs) /\ DOMAIN configs' = {}
    BY <1>1
<1>6. BootTypes'
    BY <1>1, <1>2, <1>4, <1>5 DEF BootTypes
<1>7. RegistryInv'
    BY <1>1, <1>2 DEF RegistryInv
<1> QED
    BY <1>1, <1>2, <1>4, <1>5, <1>6, <1>7 DEF BootInv

(* The boot is over, with its configurations or without.                     *)
LEMMA BootEnds ==
    ASSUME BootInv, boot' = Idle1, configs' = <<>>, UNCHANGED <<dirs, strict, agents, listed, edits>>,
           DOMAIN paths' \subseteq Ids,
           \A i \in DOMAIN paths' : paths'[i] \in Places /\ paths'[i].root \in visited'
    PROVE  BootInv'
<1>1. BootTypes /\ RegistryInv /\ edits \in Nat
    BY DEF BootInv, BootTypes
<1>2. /\ boot' \in [root : Roots, todo : Seq(Ids), edits : Nat, on : BOOLEAN]
      /\ boot'.edits = 0 /\ ~boot'.on
    <2>1. Framework \in Roots /\ <<>> \in Seq(Ids)
        BY DEF Roots
    <2> QED
        BY <2>1 DEF Idle1
<1>3. configs' \in Seq(Configs) /\ DOMAIN configs' = {}
    OBVIOUS
<1>4. BootTypes'
    BY <1>1, <1>2, <1>3 DEF BootTypes
<1>5. RegistryInv'
    BY <1>1 DEF RegistryInv
<1> QED
    BY <1>1, <1>2, <1>3, <1>4, <1>5 DEF BootInv

LEMMA StepConfigBoot == ASSUME BootInv, BuildStepConfig PROVE BootInv'
<1>0. BootTypes /\ RegistryInv
    BY DEF BootInv
<1>1. PICK i, r : i = Head(boot.todo) /\ r = boot.root
    OBVIOUS
<1>2. PICK p : p = ResolvePath(i, r)
    OBVIOUS
<1>3. /\ boot.on /\ boot.todo # <<>>
      /\ paths' = IF p = NoPlace THEN paths ELSE [j \in DOMAIN paths \cup {i} |-> IF j = i THEN p ELSE paths[j]]
      /\ visited' = visited \cup {r, Framework}
      /\ UNCHANGED <<dirs, strict, agents, listed, edits>>
    BY <1>1, <1>2 DEF BuildStepConfig
<1>4. i \in Ids /\ r \in Roots /\ boot.todo \in Seq(Ids) /\ boot.edits \in Nat
    <2>1. boot.todo \in Seq(Ids) /\ boot.root \in Roots /\ boot.edits \in Nat
        BY <1>0 DEF BootTypes
    <2> QED
        BY <2>1, <1>1, <1>3, HeadTailProperties
<1>5. \/ p = NoPlace /\ FirstThere(i, r) = NoPlace
      \/ p \in Places /\ ~NotThere(p) /\ p.root \in visited \cup {r, Framework}
    BY <1>0, <1>2, <1>4, ResolvedIsThere
<1>6. DOMAIN paths' \subseteq Ids /\ \A j \in DOMAIN paths' : paths'[j] \in Places /\ paths'[j].root \in visited'
    <2>1. CASE p = NoPlace
        BY <2>1, <1>0, <1>3 DEF BootTypes, RegistryInv
    <2>2. CASE p # NoPlace
        BY <2>2, <1>0, <1>3, <1>4, <1>5 DEF BootTypes, RegistryInv
    <2> QED
        BY <2>1, <2>2
<1>7. ASSUME NEW j \in Ids PROVE ResolvePath(j, r)' = ResolvePath(j, r)
    <2>1. CASE p = NoPlace \/ j # i
        <3>1. (j \in DOMAIN paths' <=> j \in DOMAIN paths) /\ (j \in DOMAIN paths => paths'[j] = paths[j])
            BY <2>1, <1>3
        <3> QED
            BY <3>1, <1>3, ResolveKept
    <2>2. CASE p # NoPlace /\ j = i
        <3>1. i \in DOMAIN paths' /\ paths'[i] = p
            BY <2>2, <1>3
        <3>2. ~NotThere(p)'
            BY <2>2, <1>3, <1>5 DEF NotThere
        <3>3. ResolvePath(i, r)' = p
            BY <3>1, <3>2 DEF ResolvePath, NotThere
        <3> QED
            BY <2>2, <3>3, <1>2
    <2> QED
        BY <2>1, <2>2
<1>8. ASSUME NEW c \in Configs, Adds(c), ConfigIsOwn(c)', strict => c.is \in {"valid", "stub"}, absent \subseteq absent'
      PROVE  BootInv'
    <2>1. configs' = Append(configs, c) /\ boot' = [boot EXCEPT !.todo = Tail(@)]
        BY <1>8 DEF Adds
    <2>2. configs \in Seq(Configs) /\ boot \in [root : Roots, todo : Seq(Ids), edits : Nat, on : BOOLEAN]
        BY <1>0 DEF BootTypes
    <2>3. /\ configs' \in Seq(Configs)
          /\ \A k \in DOMAIN configs' : configs'[k] = c \/ (k \in DOMAIN configs /\ configs'[k] = configs[k])
        BY <2>1, <2>2, AppendProperties
    <2>4. Tail(boot.todo) \in Seq(Ids)
        BY <1>3, <1>4, HeadTailProperties
    <2>5. /\ boot' \in [root : Roots, todo : Seq(Ids), edits : Nat, on : BOOLEAN]
          /\ boot'.root = r /\ boot'.edits = boot.edits /\ boot'.on
        BY <2>1, <2>2, <2>4, <1>1, <1>3
    <2>6. BootTypes'
        BY <2>3, <2>5, <1>0, <1>3, <1>6 DEF BootTypes
    <2>7. RegistryInv'
        BY <1>0, <1>3, <1>6 DEF RegistryInv
    <2>8. ASSUME NEW k \in DOMAIN configs', NEW d, d = configs'[k] PROVE ConfigIsOwn(d)'
        <3>1. CASE d = c
            BY <3>1, <1>8
        <3>2. CASE k \in DOMAIN configs /\ d = configs[k]
            <4>1. d = configs[k]
                BY <3>2
            <4>2. ConfigIsOwn(d)
                BY <4>1, <3>2, <1>3 DEF BootInv
            <4>3. d.id \in Ids
                <5>1. d \in Configs
                    BY <4>1, <3>2, <2>2, ElementOfSeq
                <5> QED
                    BY <5>1 DEF Configs
            <4>4. boot.edits = edits => d.from = ResolvePath(d.id, r)'
                BY <4>2, <4>3, <1>1, <1>7 DEF ConfigIsOwn
            <4>5. ConfigIsOwn(d)'
                BY <4>2, <4>4, <2>5, <1>1, <1>3, <1>8 DEF ConfigIsOwn
            <4> QED
                BY <4>5
        <3> QED
            BY <3>1, <3>2, <2>3, <2>8
    <2>9. \A k \in DOMAIN configs' : strict' => configs'[k].is \in {"valid", "stub"}
        BY <2>3, <1>3, <1>8 DEF BootInv
    <2>10. boot'.edits <= edits'
        BY <2>5, <1>3 DEF BootInv
    <2> QED
        BY <2>6, <2>7, <2>8, <2>9, <2>10 DEF BootInv
<1>9. CASE p = NoPlace
    <2>1. PICK c : c = [id |-> i, from |-> NoPlace, is |-> "stub", context |-> {}]
        OBVIOUS
    <2>2. Adds(c) /\ absent' = IF FirstThere(i, r) = NoPlace THEN absent \cup {i} ELSE absent
        BY <2>1, <1>1, <1>2, <1>9 DEF BuildStepConfig
    <2>3. absent' = absent \cup {i}
        BY <2>2, <1>5, <1>9, NoPlaceIsNone
    <2>4. c \in Configs
        BY <2>1, <1>4 DEF Configs
    <2>5. boot'.root = r
        BY <2>2, <1>0, <1>1 DEF Adds, BootTypes
    <2>6. ResolvePath(i, r)' = NoPlace
        BY <1>2, <1>4, <1>7, <1>9
    <2>7. ConfigIsOwn(c)'
        BY <2>1, <2>3, <2>5, <2>6 DEF ConfigIsOwn
    <2> QED
        BY <2>1, <2>2, <2>3, <2>4, <2>7, <1>8
<1>10. CASE p # NoPlace /\ Loads(dirs[p])
    <2>1. PICK c : c = [id |-> i, from |-> p, is |-> dirs[p].is, context |-> Context(i, r)]
        OBVIOUS
    <2>2. Adds(c) /\ absent' = absent
        BY <2>1, <1>1, <1>2, <1>10 DEF BuildStepConfig
    <2>3. p \in Places /\ p.root \in visited'
        BY <1>3, <1>5, <1>10
    <2>4. dirs[p].is \in {"valid", "invalid"} /\ (strict => dirs[p].is = "valid")
        BY <1>10 DEF Loads
    <2>5. c \in Configs
        BY <2>1, <2>3, <2>4, <1>4, ContextIsOwn DEF Configs
    <2>6. boot'.root = r
        BY <2>2, <1>0, <1>1 DEF Adds, BootTypes
    <2>7. ResolvePath(i, r)' = p
        BY <1>2, <1>4, <1>7
    <2>8. \A x \in c.context : x.root \in {r, Framework}
        BY <2>1, <1>4, ContextIsOwn
    <2>9. ConfigIsOwn(c)'
        BY <2>1, <2>3, <2>6, <2>7, <2>8, <1>10 DEF ConfigIsOwn
    <2> QED
        BY <2>1, <2>2, <2>4, <2>5, <2>9, <1>8
<1>11. CASE p # NoPlace /\ ~Loads(dirs[p])
    <2>1. boot' = Idle1 /\ configs' = <<>>
        BY <1>1, <1>2, <1>11 DEF BuildStepConfig
    <2> QED
        BY <2>1, <1>3, <1>6, BootEnds
<1> QED
    BY <1>9, <1>10, <1>11

LEMMA BootInvStep == BootInv /\ [EngineBootStep]_bootVars => BootInv'
<1> SUFFICES ASSUME BootInv, [EngineBootStep]_bootVars PROVE BootInv'
    OBVIOUS
<1>1. CASE \E p \in Places, c \in Contents \cup {Nothing} : DirChanges(p, c)
    BY <1>1, DirChangesBoot
<1>2. CASE \E r \in Roots : Scan(r)
    BY <1>2, ScanBoot
<1>3. CASE \E i \in Ids, p \in {NoPlace} \cup {q \in Places : dirs[q].is = "valid"} : RegisterAgent(i, p)
    BY <1>3, RegisterBoot
<1>4. CASE Clear
    BY <1>4, ClearBoot
<1>5. CASE \E w \in Workflows, r \in Roots : BootEngine(w, r)
    BY <1>5, BeginsBoot
<1>6. CASE BuildStepConfig
    BY <1>6, StepConfigBoot
<1>7. CASE Booted
    <2>1. boot' = Idle1 /\ configs' = <<>> /\ UNCHANGED <<dirs, strict, paths, agents, listed, visited, edits>>
        BY <1>7 DEF Booted, Leaves, registryVars
    <2>2. BootTypes /\ RegistryInv
        BY DEF BootInv
    <2> QED
        BY <2>1, <2>2, BootEnds DEF BootTypes, RegistryInv
<1>8. CASE UNCHANGED bootVars
    <2>1. UNCHANGED <<dirs, strict, paths, agents, listed, boot, configs, edits, visited, absent>>
        BY <1>8 DEF bootVars
    <2>2. BootTypes /\ RegistryInv /\ edits \in Nat
        BY DEF BootInv, BootTypes
    <2>3. BootTypes'
        BY <2>1, <2>2 DEF BootTypes
    <2>4. RegistryInv'
        BY <2>1, <2>2 DEF RegistryInv
    <2> QED
        BY <2>1, <2>2, <2>3, <2>4, BootRests
<1> QED
    BY <1>1, <1>2, <1>3, <1>4, <1>5, <1>6, <1>7, <1>8 DEF EngineBootStep

LEMMA BootInvBoots == BootInv => BootsOwnAgents
<1> SUFFICES ASSUME BootInv PROVE BootsOwnAgents
    OBVIOUS
<1>1. boot.on => \A k \in DOMAIN configs : ConfigIsOwn(configs[k])
    BY DEF BootInv
<1>2. ComesFromKnown
    BY <1>1 DEF ComesFromKnown, ConfigIsOwn
<1>3. OneAgentPerId
    <2>1. ASSUME boot.on, boot.edits = edits, NEW j \in DOMAIN configs, NEW k \in DOMAIN configs,
                 configs[j].id = configs[k].id
          PROVE  configs[j].from = configs[k].from
        <3>1. PICK i : i = configs[j].id
            OBVIOUS
        <3>2. configs[j].from = ResolvePath(i, boot.root) /\ configs[k].from = ResolvePath(i, boot.root)
            BY <1>1, <2>1, <3>1 DEF ConfigIsOwn
        <3> QED
            BY <3>2
    <2>2. ASSUME boot.on, NEW k \in DOMAIN configs, NEW c \in configs[k].context
          PROVE  c.root \in {boot.root, Framework}
        BY <1>1, <2>2 DEF ConfigIsOwn
    <2> QED
        BY <2>1, <2>2 DEF OneAgentPerId
<1>4. RegistryAgrees
    BY DEF BootInv, RegistryInv, RegistryAgrees
<1> QED
    BY <1>2, <1>3, <1>4 DEF BootsOwnAgents

(* Whatever directories come and go, and whatever is scanned, registered and *)
(* cleared: a step of a boot is a stub only if none of its three places was  *)
(* there, and otherwise its directory is of a root that the registry has     *)
(* looked into since it was cleared, which need not be the first of the      *)
(* places; in strict mode its manifest is valid; while nothing changes two   *)
(* steps of one id get one directory; and what is put into its context comes *)
(* from the root of the boot or from the framework.                          *)
THEOREM AgentsAreTheirOwn == EngineBootSpec => []BootsOwnAgents
<1>1. EngineBootInit => BootInv
    BY BootInvInit
<1>2. BootInv /\ [EngineBootStep]_bootVars => BootInv'
    BY BootInvStep
<1>3. BootInv => BootsOwnAgents
    BY BootInvBoots
<1> QED
    BY <1>1, <1>2, <1>3, PTL DEF EngineBootSpec
=============================================================================
