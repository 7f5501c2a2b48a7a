------------------------- MODULE ToolAuthorityProofs -------------------------
(***************************************************************************)
(* What ToolAuthority guarantees for any tasks, tools, permissions, rules  *)
(* and any number of executions in flight together.                        *)
(***************************************************************************)
EXTENDS ToolAuthority, TLAPS

USE DEF rules

LEMMA JudgeType ==
  \A c, w, call, r : Judge(c, w, call, r) \in Verdict
BY DEF Judge, Verdict

LEMMA NoRulesType == NoRules \in Rules
BY DEF NoRules, Rules, Setting, Decision

(* Whatever the hot reload finds, the engine goes on with a content the     *)
(* file had, or with none.                                                  *)
LEMMA ReloadType ==
  ASSUME file \in File, loaded \in [data: RuleSet \cup {NoRules}, mtime: Nat],
         checked \in BOOLEAN, edited \in BOOLEAN, missed \in BOOLEAN,
         HotReload \/ ReloadFails
  PROVE  /\ file' \in File /\ loaded' \in [data: RuleSet \cup {NoRules}, mtime: Nat]
         /\ checked' \in BOOLEAN /\ edited' \in BOOLEAN /\ missed' \in BOOLEAN
<1>1. CASE LooksAway \/ FindsNothing \/ ReloadFails
  BY <1>1 DEF LooksAway, FindsNothing, ReloadFails
<1>2. CASE Reloads
  <2>1. file.content \in RuleSet /\ file.mtime \in Nat
    BY <1>2 DEF Reloads, Newer, File
  <2>2. file' \in File
    BY <1>2, <2>1 DEF Reloads, Replacement, File
  <2>3. file'.mtime \in Nat
    BY <2>2 DEF File
  <2>4. \E m \in {file.mtime, file'.mtime, loaded.mtime} :
           loaded' = [data |-> file.content, mtime |-> m]
    BY <1>2 DEF Reloads
  <2>5. loaded' \in [data: RuleSet \cup {NoRules}, mtime: Nat]
    BY <2>1, <2>3, <2>4
  <2>6. checked' \in BOOLEAN /\ edited' \in BOOLEAN /\ missed' \in BOOLEAN
    BY <1>2 DEF Reloads
  <2> QED
    BY <2>2, <2>5, <2>6
<1> QED
  BY <1>1, <1>2 DEF HotReload

(* The file and what is in memory of it, over one look at the file.         *)
LEMMA ReloadCurrent ==
  ASSUME file \in File, loaded \in [data: RuleSet \cup {NoRules}, mtime: Nat],
         Current, HotReload \/ ReloadFails
  PROVE  Current'
<1> USE DEF Current, Readable
<1>1. file.mtime \in Nat /\ loaded.mtime \in Nat
  BY DEF File
<1>2. CASE LooksAway
  BY <1>2 DEF LooksAway
<1>3. CASE FindsNothing
  BY <1>1, <1>3 DEF FindsNothing, Newer
<1>4. CASE ReloadFails
  BY <1>4 DEF ReloadFails
<1>5. CASE Reloads
  <2>1. CASE /\ loaded' = [data |-> file.content, mtime |-> file.mtime]
             /\ missed' = FALSE /\ UNCHANGED file
    BY <1>1, <2>1
  <2>2. CASE missed' = TRUE
    BY <2>2
  <2> QED
    BY <1>5, <2>1, <2>2 DEF Reloads
<1> QED
  BY <1>2, <1>3, <1>4, <1>5 DEF HotReload

LEMMA InitIInv == Init => IInv
<1> SUFFICES ASSUME Init PROVE IInv
  OBVIOUS
<1>1. file \in File
  BY RulesAssumption DEF Init, File
<1>2. loaded \in [data: RuleSet \cup {NoRules}, mtime: Nat]
  BY RulesAssumption DEF Init
<1>3. Current
  BY RulesAssumption DEF Init, Current, Readable
<1> QED
  BY <1>1, <1>2, <1>3, TaskAssumption DEF Init, IInv, TypeOK, Installed, NoCall, Verdict

(* An execution that ends takes its allowlist away, so what is left was     *)
(* installed by another that is still in flight.                            *)
LEMMA LeaveInv ==
  ASSUME TypeOK, Installed, NEW t \in active, Leave(t), waiting' = waiting \ {t}
  PROVE  /\ active' \in SUBSET Task /\ waiting' \in SUBSET active' /\ mixed' \in SUBSET active'
         /\ context' \in Task \cup {NoTask} /\ targeted' \in Task \cup {NoTask}
         /\ Installed'
<1>1. active' = active \ {t} /\ mixed' = mixed \ {t} /\ context' = NoTask
  BY DEF Leave
<1>2. /\ active' \in SUBSET Task /\ waiting' \in SUBSET active' /\ mixed' \in SUBSET active'
      /\ context' \in Task \cup {NoTask} /\ targeted' \in Task \cup {NoTask}
  BY <1>1 DEF Leave, TypeOK
<1>3. targeted' # NoTask => \E u \in active' : Targets[u] # {}
  BY <1>1 DEF Leave, Installed
<1>4. active' \ mixed' = {}
  <2> SUFFICES ASSUME NEW u \in active' \ mixed' PROVE FALSE
    OBVIOUS
  <2>1. u \in active \ mixed /\ u # t
    BY <1>1
  <2> QED
    BY <2>1 DEF Installed
<1> QED
  BY <1>1, <1>2, <1>3, <1>4 DEF Installed

LEMMA NextIInv == IInv /\ [Next]_vars => IInv'
<1> SUFFICES ASSUME TypeOK, Installed, Current, [Next]_vars PROVE IInv'
  BY DEF IInv
<1>0. UNCHANGED rules => Current'
  BY DEF Current, Readable
<1>1. ASSUME NEW t \in Task, Begin(t) PROVE IInv'
  <2>1. active' = active \cup {t} /\ context' = t /\ UNCHANGED <<waiting, rules, last>>
    BY <1>1 DEF Begin
  <2>2. mixed' \in SUBSET active' /\ targeted' \in Task \cup {NoTask}
    BY <1>1 DEF Begin, TypeOK
  <2>3. TypeOK'
    BY <2>1, <2>2 DEF TypeOK
  <2>4. targeted' # NoTask => \E u \in active' : Targets[u] # {}
    BY <1>1 DEF Begin, Installed
  <2>5. ASSUME NEW u \in active' \ mixed'
        PROVE  active' = {u} /\ context' = u /\ targeted' = OwnTarget(u)
    <3>1. active = {} /\ u = t
      BY <1>1, <2>5 DEF Begin
    <3>2. targeted = NoTask
      BY <3>1 DEF Installed
    <3> QED
      BY <1>1, <2>1, <3>1, <3>2 DEF Begin, OwnTarget
  <2> QED
    BY <1>0, <2>1, <2>3, <2>4, <2>5 DEF IInv, Installed
<1>2. ASSUME NEW t \in Task, CallTool(t) PROVE IInv'
  <2>1. UNCHANGED <<active, context, targeted, mixed>> /\ waiting' \in SUBSET active'
    BY <1>2 DEF CallTool, TypeOK
  <2>2. last' \in [task: Task \cup {NoTask}, verdict: Verdict, own: Verdict]
    BY <1>2, JudgeType DEF CallTool
  <2>3. /\ file' \in File /\ loaded' \in [data: RuleSet \cup {NoRules}, mtime: Nat]
        /\ checked' \in BOOLEAN /\ edited' \in BOOLEAN /\ missed' \in BOOLEAN
    BY <1>2, ReloadType DEF CallTool, TypeOK
  <2>4. Current'
    BY <1>2, ReloadCurrent DEF CallTool, TypeOK
  <2> QED
    BY <2>1, <2>2, <2>3, <2>4 DEF IInv, TypeOK, Installed
<1>3. ASSUME NEW t \in Task, ToolReturns(t) PROVE IInv'
  BY <1>0, <1>3 DEF ToolReturns, IInv, TypeOK, Installed
<1>4. ASSUME NEW t \in Task, CallRaises(t) PROVE IInv'
  <2>1. t \in active /\ Leave(t) /\ waiting' = waiting \ {t} /\ UNCHANGED last
    BY <1>4 DEF CallRaises
  <2>2. /\ file' \in File /\ loaded' \in [data: RuleSet \cup {NoRules}, mtime: Nat]
        /\ checked' \in BOOLEAN /\ edited' \in BOOLEAN /\ missed' \in BOOLEAN
    BY <1>4, ReloadType DEF CallRaises, TypeOK
  <2>3. Current'
    BY <1>4, ReloadCurrent DEF CallRaises, TypeOK
  <2> QED
    BY <2>1, <2>2, <2>3, LeaveInv DEF IInv, TypeOK
<1>5. ASSUME NEW t \in Task, End(t) PROVE IInv'
  <2>1. t \in active /\ Leave(t) /\ waiting' = waiting \ {t} /\ UNCHANGED <<rules, last>>
    BY <1>5 DEF End
  <2> QED
    BY <1>0, <2>1, LeaveInv DEF IInv, TypeOK
<1>6. CASE EditRules
  <2>1. file' \in File
    BY <1>6 DEF EditRules, Replacement, File, TypeOK
  <2>2. Current'
    <3>1. file'.mtime \in Nat /\ loaded.mtime \in Nat /\ loaded' = loaded
      BY <1>6, <2>1 DEF EditRules, File, TypeOK
    <3>2. missed' = (file'.mtime <= loaded.mtime) /\ edited' = TRUE
      BY <1>6 DEF EditRules
    <3> SUFFICES ASSUME ~missed' PROVE Current'
      BY DEF Current
    <3>3. ~(file'.mtime <= loaded.mtime)
      BY <3>2, Zenon
    <3> QED
      BY <3>1, <3>2, <3>3 DEF Current
  <2> QED
    BY <1>6, <2>1, <2>2 DEF EditRules, IInv, TypeOK, Installed
<1>7. CASE WindowEnds
  BY <1>7 DEF WindowEnds, IInv, TypeOK, Installed, Current, Readable
<1>8. CASE UNCHANGED vars
  BY <1>0, <1>8 DEF vars, IInv, TypeOK, Installed
<1> QED
  BY <1>1, <1>2, <1>3, <1>4, <1>5, <1>6, <1>7, <1>8 DEF Next

(* The invariant of ToolAuthority holds in every reachable state.           *)
THEOREM AuthorityInvariance == Spec => []IInv
BY InitIInv, NextIInv, PTL DEF Spec

(* Nobody's permissions and nobody's allowlist outlive the executions, in   *)
(* whatever order those of a layer end.                                     *)
THEOREM NothingLeftBehind == Spec => []CleanWhenIdle
<1>1. IInv => CleanWhenIdle
  BY DEF IInv, Installed, CleanWhenIdle
<1> QED
  BY <1>1, AuthorityInvariance, PTL

(* One look at rules.yaml after a change is enough, whatever came before    *)
(* it, but for a change during a look and one that bears no newer time.     *)
THEOREM RulesAreCurrent == Spec => []EditsTakeEffect
<1>1. IInv => EditsTakeEffect
  BY DEF IInv, Current, Readable, EditsTakeEffect
<1> QED
  BY <1>1, AuthorityInvariance, PTL

(* An execution that no other overlaps is judged by its own manifest and    *)
(* task, whatever went before it: the serial engine never mixes agents up.  *)
THEOREM SerialIsOwn == Spec => AloneIsJudgedByOwn
<1>1. ASSUME IInv, NEW t \in Task \ mixed, CallTool(t)
      PROVE  last'.verdict = last'.own
  <2>1. t \in active \ mixed
    BY <1>1 DEF CallTool
  <2>2. context = t /\ targeted = OwnTarget(t)
    BY <1>1, <2>1 DEF IInv, Installed
  <2> QED
    BY <1>1, <2>2 DEF CallTool
<1>2. IInv /\ [Next]_vars => [\A t \in Task \ mixed : CallTool(t) => last'.verdict = last'.own]_vars
  BY <1>1
<1> QED
  BY <1>2, AuthorityInvariance, PTL DEF Spec, AloneIsJudgedByOwn
=============================================================================
