--------------------------- MODULE ServiceProofs ----------------------------
(***************************************************************************)
(* Theorems about the server of the engine, for any finite number of       *)
(* requests and any limit, and about the order of steps it runs them in,   *)
(* for any set of steps and any dependencies, and about what agents        *)
(* exchange, for any ports, checkpoints and domains.                       *)
(***************************************************************************)
EXTENDS ServerApi, TopoSort, Exchange, SequenceTheorems, FiniteSetTheorems, WellFoundedInduction, TLAPS

---------------------------------------------------------------------------
(* What the semaphore counts, and where a request can be.                   *)
Phases == {"new", "queued", "admitted", "running", "cancelling", "answered"}

Inv ==
  /\ phase \in [Requests -> Phases]
  /\ PermitsConserved

(* Holders is finite, and a request is one of them by its phase.            *)
LEMMA HoldersFinite == IsFiniteSet(Holders) /\ Cardinality(Holders) \in Nat
<1>1. Holders \subseteq Requests
  BY DEF Holders
<1>2. IsFiniteSet(Holders)
  BY <1>1, RequestsAssumption, FS_Subset
<1> QED BY <1>2, FS_CardinalityType

LEMMA InitInv == ServerInit => Inv
<1> SUFFICES ASSUME ServerInit PROVE Inv
  OBVIOUS
<1>1. Holders = {}
  BY DEF ServerInit, Holders, Holding
<1>2. Cardinality(Holders) = 0
  BY <1>1, FS_EmptySet
<1> QED BY <1>2, LimitAssumption DEF ServerInit, Inv, PermitsConserved, Phases

(* A request that is answered gives back the permit it has, if it has one.  *)
LEMMA AnswerInv == ASSUME Inv, NEW r \in Requests, Answer(r) PROVE Inv'
<1>1. phase' = [phase EXCEPT ![r] = "answered"] /\ phase \in [Requests -> Phases]
  BY DEF Answer, To, Inv
<1>2. Holders' = Holders \ {r}
  BY <1>1 DEF Holders, Holding
<1>3. Cardinality(Holders') = IF r \in Holders THEN Cardinality(Holders) - 1 ELSE Cardinality(Holders)
  BY <1>2, HoldersFinite, FS_RemoveElement
<1>4. Cardinality(Holders') \in Nat
  BY <1>2, HoldersFinite, FS_RemoveElement, FS_CardinalityType
<1>5. r \in Holders <=> phase[r] \in Holding
  BY DEF Holders
<1>6. PermitsConserved'
  BY <1>3, <1>4, <1>5, LimitAssumption, HoldersFinite DEF Answer, Inv, PermitsConserved
<1> QED BY <1>1, <1>6 DEF Inv, Phases

(* A request that takes a permit had none, and there was one.               *)
LEMMA TakeInv == ASSUME Inv, NEW r \in Requests, phase[r] \notin Holding, permits > 0, Take(r) PROVE Inv'
<1>1. phase' = [phase EXCEPT ![r] = "admitted"] /\ phase \in [Requests -> Phases] /\ permits' = permits - 1
  BY DEF Take, To, Inv
<1>2. Holders' = Holders \cup {r} /\ r \notin Holders
  BY <1>1 DEF Holders, Holding
<1>3. Cardinality(Holders') = Cardinality(Holders) + 1
  BY <1>2, HoldersFinite, FS_AddElement
<1>4. PermitsConserved'
  BY <1>1, <1>3, LimitAssumption, HoldersFinite DEF Inv, PermitsConserved
<1> QED BY <1>1, <1>4 DEF Inv, Phases

(* Any other step of a request keeps its permit, or goes on without one.    *)
LEMMA MoveInv ==
  ASSUME Inv, NEW r \in Requests, NEW p \in Phases, To(r, p), UNCHANGED permits,
         p \in Holding <=> phase[r] \in Holding
  PROVE  Inv'
<1>1. phase' = [phase EXCEPT ![r] = p] /\ phase \in [Requests -> Phases]
  BY DEF To, Inv
<1>2. Holders' = Holders
  BY <1>1 DEF Holders
<1> QED BY <1>1, <1>2 DEF Inv, PermitsConserved

LEMMA ArriveInv == ASSUME Inv, NEW r \in Requests, Arrive(r) PROVE Inv'
<1>1. phase[r] \notin Holding
  BY DEF Arrive, Holding
<1>2. CASE Free /\ Take(r)
  BY <1>1, <1>2, TakeInv DEF Free
<1>3. CASE To(r, "queued") /\ UNCHANGED permits
  <2>1. "queued" \in Phases /\ "queued" \notin Holding
    BY DEF Phases, Holding
  <2> QED BY <1>1, <1>3, <2>1, MoveInv
<1>4. CASE Answer(r)
  BY <1>4, AnswerInv
<1> QED BY <1>2, <1>3, <1>4 DEF Arrive

LEMMA HandleInv == ASSUME Inv, NEW r \in Requests, Handle(r) PROVE Inv'
<1>1. CASE Admit(r)
  <2>1. phase[r] \notin Holding /\ permits > 0 /\ Take(r)
    BY <1>1 DEF Admit, Holding
  <2> QED BY <2>1, TakeInv
<1>2. CASE Answer(r)
  BY <1>2, AnswerInv
<1>3. CASE Start(r) /\ ~Answer(r)
  <2>1. "running" \in Phases /\ "running" \in Holding /\ phase[r] \in Holding /\ To(r, "running") /\ UNCHANGED permits
    BY <1>3 DEF Start, Phases, Holding
  <2> QED BY <2>1, MoveInv
<1>4. CASE Expire(r)
  <2>1. "cancelling" \in Phases /\ "cancelling" \in Holding /\ phase[r] \in Holding /\ To(r, "cancelling") /\ UNCHANGED permits
    BY <1>4 DEF Expire, Phases, Holding
  <2> QED BY <2>1, MoveInv
<1> QED BY <1>1, <1>2, <1>3, <1>4 DEF Handle, TurnAway, Return, Unwind

LEMMA StepInv == ASSUME Inv, [ServerStep]_serverVars PROVE Inv'
<1>1. CASE UNCHANGED <<phase, permits>>
  BY <1>1 DEF Inv, PermitsConserved, Holders
<1>2. ASSUME NEW r \in Requests, Arrive(r) \/ Handle(r) PROVE Inv'
  BY <1>2, ArriveInv, HandleInv
<1> QED BY <1>1, <1>2 DEF ServerStep, serverVars

(* Permits are conserved whatever requests arrive, expire and are cancelled, *)
(* for any number of them: the limit holds, and no permit is ever lost.      *)
THEOREM NoPermitLost == ServerSpec => []PermitsConserved
<1>1. Inv => PermitsConserved
  BY DEF Inv
<1> QED BY <1>1, InitInv, StepInv, PTL DEF ServerSpec

---------------------------------------------------------------------------
(* A group of steps that the new layer touches has a step none of whose     *)
(* dependencies is in the group.                                            *)
LEMMA LayerUnblocks ==
  ASSUME Loop, NEW T \in SUBSET Step, T \cap (resolved \cup Ready) # {}
  PROVE  Unblocked(T)
<1>1. CASE T \cap resolved # {}
  BY <1>1 DEF Loop
<1>2. CASE T \cap resolved = {}
  <2>1. PICK s \in T \cap Ready : TRUE
    BY <1>2
  <2>2. deps[s] \subseteq resolved
    BY <2>1 DEF Ready
  <2> QED BY <1>2, <2>1, <2>2 DEF Unblocked
<1> QED BY <1>1, <1>2

LEMMA InitLoop == SortInit => Loop
BY DEF SortInit, Loop, TypeOK

LEMMA TakeLayerStep == ASSUME Loop, TakeLayer PROVE Loop'
<1>0. TypeOK /\ Ready \subseteq Step /\ UNCHANGED <<deps, verdict>> /\ verdict = "sorting"
  BY DEF Loop, TypeOK, TakeLayer, Ready
<1>1. resolved' = resolved \cup Ready /\ remaining' = Step \ resolved'
  BY DEF Loop, TakeLayer
<1>2. layers' \in Seq(SUBSET Step)
  BY <1>0 DEF TakeLayer, TypeOK
<1>3. TypeOK'
  BY <1>0, <1>1, <1>2 DEF TypeOK
<1>4. \A s \in resolved' : deps'[s] \subseteq resolved'
  BY <1>0, <1>1 DEF Loop, Ready
<1>5. \A T \in SUBSET Step : T \cap resolved' # {} => Unblocked(T)'
  BY <1>0, <1>1, LayerUnblocks DEF Unblocked
<1> QED BY <1>0, <1>1, <1>3, <1>4, <1>5 DEF Loop

LEMMA OtherSteps == ASSUME Loop, Refuse \/ ReturnLayers \/ UNCHANGED sortVars PROVE Loop'
<1>1. UNCHANGED <<deps, remaining, resolved, layers>> /\ Ready' = Ready
  BY DEF Refuse, ReturnLayers, sortVars, Ready
<1>2. /\ verdict' \in {"sorting", "sorted", "refused"}
      /\ verdict' = "sorted" => remaining = {}
      /\ verdict' = "refused" => remaining # {} /\ Ready = {}
  BY DEF Loop, TypeOK, Refuse, ReturnLayers, sortVars
<1>3. \A T \in SUBSET Step : T \cap resolved' # {} => Unblocked(T)'
  BY <1>1 DEF Loop, Unblocked
<1> QED BY <1>1, <1>2, <1>3 DEF Loop, TypeOK

(* The invariant of topological_sort's loop.                                *)
THEOREM LoopInvariant == SortSpec => []Loop
<1>1. Loop /\ [SortNext]_sortVars => Loop'
  BY TakeLayerStep, OtherSteps DEF SortNext
<1> QED BY <1>1, InitLoop, PTL DEF SortSpec

(* topological_sort returns layers exactly for the workflows that can be    *)
(* executed: it finds a cycle of any length and a name that is no step.     *)
THEOREM SortDecides == SortSpec => []SortIsRight
<1>1. Loop => SortIsRight
  <2> SUFFICES ASSUME Loop, verdict # "sorting"
               PROVE  verdict = "sorted" <=> Sortable
    BY DEF SortIsRight
  <2>1. CASE verdict = "sorted"
    <3>1. resolved = Step
      BY <2>1 DEF Loop, TypeOK
    <3>2. LintValid
      BY <3>1 DEF Loop, LintValid
    <3>3. ASSUME NEW T \in (SUBSET Step) \ {{}} PROVE Unblocked(T)
      <4>1. T \in SUBSET Step /\ T \cap resolved # {}
        BY <3>1
      <4> QED BY <4>1 DEF Loop
    <3> QED BY <2>1, <3>2, <3>3 DEF Sortable
  <2>2. CASE verdict = "refused"
    <3>1. /\ remaining \in (SUBSET Step) \ {{}}
          /\ Ready = {} /\ remaining = Step \ resolved
      BY <2>2 DEF Loop, TypeOK
    <3>2. SUFFICES ASSUME Sortable PROVE FALSE
      BY <2>2
    <3>3. PICK s \in remaining : deps[s] \cap remaining = {}
      BY <3>1, <3>2 DEF Sortable, Unblocked
    <3>4. deps[s] \subseteq resolved
      BY <3>1, <3>2, <3>3 DEF Sortable, LintValid
    <3> QED BY <3>1, <3>3, <3>4 DEF Ready
  <2> QED BY <2>1, <2>2 DEF Loop, TypeOK
<1> QED BY <1>1, LoopInvariant, PTL

(* The checks an author runs on a workflow beforehand do not reject what    *)
(* the engine would execute.                                                *)
THEOREM ChecksNeverCryWolf == SortSpec => []NoFalseAlarm
<1>1. Loop => NoFalseAlarm
  <2> SUFFICES ASSUME Loop, verdict = "sorted" PROVE ValidatorAccepts
    BY DEF NoFalseAlarm
  <2>1. resolved = Step
    BY DEF Loop, TypeOK
  <2>2. LintValid
    BY <2>1 DEF Loop, LintValid
  <2>3. ASSUME NEW s \in Step PROVE s \notin deps[s]
    <3>1. Unblocked({s})
      BY <2>1 DEF Loop
    <3> QED BY <3>1 DEF Unblocked
  <2> QED BY <2>2, <2>3 DEF ValidatorAccepts
<1> QED BY <1>1, LoopInvariant, PTL

(* What the engine, the lint and the validator say of a workflow fits.      *)
THEOREM VerdictsFit == SortSpec => []VerdictsAgree
<1>1. SortIsRight /\ NoFalseAlarm => VerdictsAgree
  BY DEF VerdictsAgree
<1> QED BY <1>1, SortDecides, ChecksNeverCryWolf, PTL

-----------------------------------------------------------------------------
(* What is resolved is what the layers hold, and a step that still waits was *)
(* not ready when the last layer was taken: it waits for a step of it.       *)
Placed(i) == UNION {layers[j] : j \in 1..(i - 1)}

Earliest ==
  /\ LayersAreEarliest
  /\ resolved = Placed(Len(layers) + 1)
  /\ Len(layers) > 0 => \A s \in remaining : ~(deps[s] \subseteq Placed(Len(layers)))

LEMMA InitEarliest == SortInit => Earliest
<1> SUFFICES ASSUME SortInit PROVE Earliest
  OBVIOUS
<1>1. layers = <<>> /\ resolved = {}
  BY DEF SortInit
<1>2. Placed(1) = {}
  BY DEF Placed
<1> QED BY <1>1, <1>2 DEF Earliest, LayersAreEarliest

(* A chain goes on to any step that waits for its last one.                  *)
LEMMA ChainExtends ==
  ASSUME NEW n \in Nat \ {0}, NEW s \in Step, NEW t \in deps[s], EndsIn(t, n)
  PROVE  EndsIn(s, n + 1)
<1>1. PICK c \in [1..n -> Step] : c[n] = t /\ \A k \in 1..(n - 1) : c[k] \in deps[c[k + 1]]
  BY DEF EndsIn
<1> DEFINE d == [k \in 1..(n + 1) |-> IF k = n + 1 THEN s ELSE c[k]]
<1>2. d \in [1..(n + 1) -> Step] /\ d[n + 1] = s
  OBVIOUS
<1>3. ASSUME NEW k \in 1..((n + 1) - 1) PROVE d[k] \in deps[d[k + 1]]
  <2>1. CASE k = n
    BY <1>1, <2>1
  <2>2. CASE k # n
    <3>1. k \in 1..(n - 1) /\ k + 1 \in 1..n /\ k # n + 1 /\ k + 1 # n + 1
      BY <2>2
    <3>2. d[k] = c[k] /\ d[k + 1] = c[k + 1]
      BY <3>1
    <3> QED BY <1>1, <3>1, <3>2
  <2> QED BY <2>1, <2>2
<1> QED BY <1>2, <1>3 DEF EndsIn

(* The last m steps but one of a chain are a chain.                          *)
LEMMA ChainCuts ==
  ASSUME NEW n \in Nat, NEW j \in 1..n, NEW c \in [1..(n + 2) -> Step],
         \A k \in 1..(n + 1) : c[k] \in deps[c[k + 1]]
  PROVE  EndsIn(c[n + 1], j + 1)
<1> DEFINE d == [k \in 1..(j + 1) |-> c[k + (n - j)]]
<1>1. \A k \in 1..(j + 1) : k + (n - j) \in 1..(n + 2)
  OBVIOUS
<1>2. d \in [1..(j + 1) -> Step]
  BY <1>1
<1>3. d[j + 1] = c[n + 1]
  <2>1. j + 1 \in 1..(j + 1) /\ (j + 1) + (n - j) = n + 1
    OBVIOUS
  <2> QED BY <2>1
<1>4. ASSUME NEW k \in 1..((j + 1) - 1) PROVE d[k] \in deps[d[k + 1]]
  <2>1. /\ k \in 1..(j + 1) /\ k + 1 \in 1..(j + 1)
        /\ k + (n - j) \in 1..(n + 1) /\ (k + 1) + (n - j) = (k + (n - j)) + 1
    OBVIOUS
  <2>2. d[k] = c[k + (n - j)] /\ d[k + 1] = c[(k + (n - j)) + 1]
    BY <2>1
  <2> QED BY <2>1, <2>2
<1> HIDE DEF d
<1> QED BY <1>2, <1>3, <1>4 DEF EndsIn

LEMMA TakeLayerEarliest == ASSUME Loop, Earliest, TakeLayer PROVE Earliest'
<1>1. layers \in Seq(SUBSET Step) /\ Ready \subseteq Step /\ remaining = Step \ resolved
  BY DEF Loop, TypeOK, Ready
<1>2. /\ layers' = Append(layers, Ready) /\ resolved' = resolved \cup Ready /\ deps' = deps
      /\ remaining' = remaining \ Ready
  BY DEF TakeLayer
<1> PICK n \in Nat : n = Len(layers)
  BY <1>1
<1>3. /\ Len(layers') = n + 1
      /\ \A j \in 1..n : layers'[j] = layers[j]
      /\ layers'[n + 1] = Ready
  BY <1>1, <1>2
<1>4. ASSUME NEW i \in 1..(n + 1) PROVE Placed(i)' = Placed(i)
  <2>1. \A j \in 1..(i - 1) : layers'[j] = layers[j]
    BY <1>3
  <2> QED BY <2>1 DEF Placed
<1>5. ASSUME NEW i \in 1..n PROVE Placed(i + 1) = Placed(i) \cup layers[i]
  <2>1. 1..((i + 1) - 1) = (1..(i - 1)) \cup {i}
    OBVIOUS
  <2> QED BY <2>1 DEF Placed
<1>6. Placed(n + 2)' = Placed(n + 1) \cup Ready
  <2>1. 1..((n + 2) - 1) = (1..((n + 1) - 1)) \cup {n + 1}
    OBVIOUS
  <2>2. \A j \in 1..((n + 1) - 1) : layers'[j] = layers[j]
    BY <1>3
  <2> QED BY <1>3, <2>1, <2>2 DEF Placed
<1>7. ASSUME NEW s \in Ready PROVE EndsIn(s, n + 1)
  <2>1. CASE n = 0
    <3>1. [k \in 1..1 |-> s] \in [1..1 -> Step] /\ [k \in 1..1 |-> s][1] = s /\ 1..(1 - 1) = {}
      BY <1>1
    <3>2. EndsIn(s, 1)
      BY <3>1 DEF EndsIn
    <3>3. n + 1 = 1
      BY <2>1
    <3> QED BY <3>2, <3>3
  <2>2. CASE n # 0
    <3>1. PICK t \in deps[s] : t \notin Placed(n)
      BY <2>2 DEF Earliest, Ready
    <3>2. t \in Placed(n + 1)
      BY <3>1 DEF Earliest, Ready
    <3>3. t \in layers[n] /\ n \in DOMAIN layers
      BY <2>2, <3>1, <3>2, <1>5, <1>1
    <3>4. EndsIn(t, n)
      BY <3>3 DEF Earliest, LayersAreEarliest
    <3> QED BY <2>2, <3>4, <1>1, ChainExtends
  <2> QED BY <2>1, <2>2
<1>8. ASSUME NEW s \in Ready PROVE ~EndsIn(s, n + 2)
  <2> SUFFICES ASSUME EndsIn(s, n + 2) PROVE FALSE
    OBVIOUS
  <2>1. PICK c \in [1..(n + 2) -> Step] : c[n + 2] = s /\ \A k \in 1..((n + 2) - 1) : c[k] \in deps[c[k + 1]]
    BY DEF EndsIn
  <2>2. \A k \in 1..(n + 1) : c[k] \in deps[c[k + 1]]
    BY <2>1
  <2>3. c[n + 1] \in deps[s]
    BY <2>1, <2>2
  <2>4. c[n + 1] \in Placed(n + 1)
    BY <2>3 DEF Earliest, Ready
  <2>5. PICK j \in 1..n : c[n + 1] \in layers[j]
    BY <2>4 DEF Placed
  <2>6. ~EndsIn(c[n + 1], j + 1)
    BY <2>5, <1>1 DEF Earliest, LayersAreEarliest
  <2> QED BY <2>2, <2>6, ChainCuts
<1>9. ASSUME NEW i \in DOMAIN layers', NEW s \in layers'[i] PROVE (EndsIn(s, i) /\ ~EndsIn(s, i + 1))'
  <2>1. i \in 1..(n + 1)
    BY <1>1, <1>2
  <2>2. (EndsIn(s, i) /\ ~EndsIn(s, i + 1))' <=> (EndsIn(s, i) /\ ~EndsIn(s, i + 1))
    BY <1>2 DEF EndsIn
  <2>3. CASE i = n + 1
    <3>1. s \in Ready /\ i + 1 = n + 2
      BY <2>3, <1>3
    <3> QED BY <2>2, <2>3, <3>1, <1>7, <1>8
  <2>4. CASE i # n + 1
    <3>1. i \in DOMAIN layers /\ s \in layers[i]
      BY <2>1, <2>4, <1>1, <1>3
    <3> QED BY <2>2, <3>1 DEF Earliest, LayersAreEarliest
  <2> QED BY <2>3, <2>4
<1>10. resolved' = Placed(Len(layers) + 1)'
  <2>1. (Len(layers) + 1)' = n + 2
    BY <1>3
  <2>2. Placed(Len(layers) + 1)' = Placed(n + 2)'
    BY <2>1 DEF Placed
  <2> QED BY <1>2, <1>6, <2>2 DEF Earliest
<1>11. ASSUME NEW s \in remaining' PROVE ~(deps[s] \subseteq Placed(Len(layers)))'
  <2>1. Placed(Len(layers))' = Placed(n + 1)'
    BY <1>3 DEF Placed
  <2>2. Placed(Len(layers))' = resolved
    BY <2>1, <1>4 DEF Earliest
  <2>3. ~(deps[s] \subseteq resolved)
    BY <1>2 DEF Ready
  <2> QED BY <1>2, <2>2, <2>3
<1>12. LayersAreEarliest'
  BY <1>9 DEF LayersAreEarliest
<1> QED BY <1>10, <1>11, <1>12 DEF Earliest

(* topological_sort puts every step in the layer its longest chain of        *)
(* dependencies calls for, for any workflow, cyclic ones included: what a    *)
(* step waits for is in earlier layers, and no step waits longer than that.  *)
THEOREM LayersEarliest == SortSpec => []LayersAreEarliest
<1>1. Loop /\ Earliest /\ [SortNext]_sortVars => Earliest'
  <2> SUFFICES ASSUME Loop, Earliest, [SortNext]_sortVars PROVE Earliest'
    OBVIOUS
  <2>1. CASE TakeLayer
    BY <2>1, TakeLayerEarliest
  <2>2. CASE Refuse \/ ReturnLayers \/ UNCHANGED sortVars
    <3>1. UNCHANGED <<deps, remaining, resolved, layers>>
      BY <2>2 DEF Refuse, ReturnLayers, sortVars
    <3> QED BY <3>1 DEF Earliest, LayersAreEarliest, EndsIn, Placed
  <2> QED BY <2>1, <2>2 DEF SortNext
<1>2. Earliest => LayersAreEarliest
  BY DEF Earliest
<1> QED BY <1>1, <1>2, InitEarliest, LoopInvariant, PTL DEF SortSpec

---------------------------------------------------------------------------
LEMMA HasLeast == ASSUME NEW S \in SUBSET Nat, S # {} PROVE \E x \in S : \A y \in S : x <= y
<1>1. PICK x \in S : \A y \in S : <<y, x>> \notin OpToRel(<, Nat)
    BY NatLessThanWellFounded, WFMin
<1>2. \A y \in S : ~(y < x)
    BY <1>1 DEF OpToRel
<1> QED
    BY <1>2

LEMMA HasMin == ASSUME NEW S \in SUBSET Nat, S # {} PROVE Min(S) \in S /\ \A y \in S : Min(S) <= y
BY HasLeast DEF Min

LEMMA HasMax == ASSUME NEW n \in Nat, NEW S \in SUBSET (0..n), S # {} PROVE Max(S) \in S /\ \A y \in S : y <= Max(S)
<1> DEFINE T == {n - x : x \in S}
<1>1. T \in SUBSET Nat /\ T # {}
    <2>1. \A x \in S : x \in Int /\ 0 <= x /\ x <= n /\ n - x \in Nat
        OBVIOUS
    <2>2. \A y \in T : y \in Nat
        BY <2>1
    <2>3. PICK x \in S : TRUE
        OBVIOUS
    <2>4. n - x \in T
        BY <2>3
    <2> QED
        BY <2>2, <2>4
<1>2. PICK t \in T : \A y \in T : t <= y
    BY <1>1, HasLeast
<1>3. PICK m \in S : t = n - m
    BY <1>2
<1>4. \A y \in S : y <= m
    <2> SUFFICES ASSUME NEW y \in S PROVE y <= m
        OBVIOUS
    <2>1. t <= n - y
        BY <1>2
    <2> QED
        BY <2>1, <1>3
<1>5. \E m1 \in S : \A y \in S : m1 >= y
    BY <1>4
<1> QED
    BY <1>5 DEF Max

LEMMA ToSetOfAppend ==
    ASSUME NEW S, NEW s \in Seq(S), NEW x \in S
    PROVE  Append(s, x) \in Seq(S) /\ ToSet(Append(s, x)) = ToSet(s) \cup {x}
<1>1. PICK t : t = Append(s, x) OBVIOUS
<1>2. /\ t \in Seq(S) /\ Len(t) = Len(s) + 1 /\ t[Len(s) + 1] = x /\ Len(s) \in Nat
      /\ \A i \in 1..Len(s) : t[i] = s[i]
    BY <1>1, AppendProperties, LenProperties
<1>3. DOMAIN s = 1..Len(s) /\ DOMAIN t = 1..(Len(s) + 1) BY <1>2, LenProperties
<1>4. ToSet(t) = ToSet(s) \cup {x}
    <2>1. \A i \in DOMAIN t : i = Len(s) + 1 \/ i \in DOMAIN s BY <1>2, <1>3
    <2>2. Len(s) + 1 \in DOMAIN t /\ \A i \in DOMAIN s : i \in DOMAIN t BY <1>2, <1>3
    <2> QED BY <1>2, <1>3, <2>1, <2>2 DEF ToSet
<1> QED BY <1>1, <1>2, <1>4
---------------------------------------------------------------------------
(* The message bus.  What was received from a port and what still waits.     *)
Waiting(p) == Get(queues, p, <<>>)
Got(p) == taken[p] \o Waiting(p)
Up(s) == \A k, l \in DOMAIN s : k < l => s[k] < s[l]
Numbers(p) == {m.nr : m \in {n \in ToSet(sent) : n.port = p}}

BusInv ==
    /\ messages \in Nat /\ sent \in Seq([port : BusPorts, nr : Nat])
    /\ taken \in [BusPorts -> Seq(Nat)] /\ \A p \in BusPorts : Waiting(p) \in Seq(Nat)
    /\ \A p \in BusPorts : \A n \in ToSet(Got(p)) : n <= messages
    /\ \A p \in BusPorts : ToSet(Got(p)) = Numbers(p) /\ Up(Got(p))

LEMMA WithGives ==
    ASSUME NEW f, NEW x, NEW v
    PROVE  /\ DOMAIN With(f, x, v) = DOMAIN f \cup {x} /\ With(f, x, v)[x] = v
           /\ \A y \in DOMAIN f : y # x => With(f, x, v)[y] = f[y]
           /\ \A d : Get(With(f, x, v), x, d) = v
           /\ \A y, d : y # x => Get(With(f, x, v), y, d) = Get(f, y, d)
BY DEF With, Get

(* One more message at the end of a port, a number above all others.         *)
LEMMA OneMore ==
    ASSUME NEW a \in Seq(Nat), NEW b \in Seq(Nat), NEW m \in Nat,
           Up(a \o b), \A n \in ToSet(a \o b) : n < m
    PROVE  /\ Append(b, m) \in Seq(Nat)
           /\ ToSet(a \o Append(b, m)) = ToSet(a \o b) \cup {m} /\ Up(a \o Append(b, m))
<1>1. PICK s : s = a \o b
    OBVIOUS
<1>2. s \in Seq(Nat) /\ Len(s) \in Nat
    BY <1>1, ConcatProperties, LenProperties
<1>3. a \o Append(b, m) = Append(s, m)
    <2>1. Append(b, m) = b \o <<m>> /\ <<m>> \in Seq(Nat)
        BY AppendIsConcat
    <2>2. Append(s, m) = s \o <<m>>
        BY <1>2, AppendIsConcat
    <2>3. (a \o b) \o <<m>> = a \o (b \o <<m>>)
        BY <2>1, ConcatAssociative
    <2> QED
        BY <1>1, <2>1, <2>2, <2>3
<1>4. Append(b, m) \in Seq(Nat)
    BY AppendProperties
<1>5. PICK t : t = Append(s, m)
    OBVIOUS
<1>6. t \in Seq(Nat) /\ ToSet(t) = ToSet(s) \cup {m}
    BY <1>2, <1>5, ToSetOfAppend
<1>7. Len(t) = Len(s) + 1 /\ t[Len(s) + 1] = m /\ \A i \in 1..Len(s) : t[i] = s[i]
    BY <1>2, <1>5, AppendProperties
<1>8. DOMAIN t = 1..(Len(s) + 1) /\ DOMAIN s = 1..Len(s)
    BY <1>2, <1>6, <1>7, LenProperties
<1>9. Up(t)
    <2> SUFFICES ASSUME NEW k \in DOMAIN t, NEW l \in DOMAIN t, k < l PROVE t[k] < t[l]
        BY DEF Up
    <2>1. k \in 1..Len(s) /\ k \in DOMAIN s /\ t[k] = s[k]
        BY <1>2, <1>7, <1>8
    <2>2. CASE l = Len(s) + 1
        <3>1. s[k] \in ToSet(s)
            BY <2>1 DEF ToSet
        <3> QED
            BY <2>1, <2>2, <3>1, <1>1, <1>7
    <2>3. CASE l # Len(s) + 1
        <3>1. l \in 1..Len(s) /\ l \in DOMAIN s /\ t[l] = s[l]
            BY <2>3, <1>2, <1>7, <1>8
        <3> QED
            BY <2>1, <3>1, <1>1 DEF Up
    <2> QED
        BY <2>2, <2>3
<1> QED
    BY <1>1, <1>3, <1>4, <1>5, <1>6, <1>9

LEMMA NothingSaid ==
    /\ <<>> \in Seq(Nat) /\ <<>> \in Seq([port : BusPorts, nr : Nat])
    /\ <<>> \o <<>> = <<>> /\ ToSet(<<>>) = {} /\ Up(<<>>) /\ DOMAIN <<>> = {}
<1>1. <<>> \in Seq(Nat) /\ <<>> \in Seq([port : BusPorts, nr : Nat]) /\ DOMAIN <<>> = {}
    BY EmptySeq
<1>2. <<>> \o <<>> = <<>>
    BY <1>1, ConcatEmptySeq
<1> QED
    BY <1>1, <1>2 DEF ToSet, Up

(* A port nobody has sent to since the bus was cleared.                      *)
LEMMA BusEmpty ==
    ASSUME messages \in Nat, queues = <<>>, sent = <<>>, taken = [p \in BusPorts |-> <<>>]
    PROVE  BusInv
<1>1. \A p \in BusPorts : Waiting(p) = <<>> /\ taken[p] = <<>>
    BY NothingSaid DEF Waiting, Get
<1>2. \A p \in BusPorts : Got(p) = <<>> /\ Numbers(p) = {}
    BY <1>1, NothingSaid DEF Got, Numbers
<1>3. taken \in [BusPorts -> Seq(Nat)]
    BY NothingSaid
<1> QED
    BY <1>1, <1>2, <1>3, NothingSaid DEF BusInv

LEMMA BusStays ==
    ASSUME BusInv, UNCHANGED <<sent, taken, messages>>, \A p \in BusPorts : Waiting(p)' = Waiting(p)
    PROVE  BusInv'
<1>1. \A p \in BusPorts : Got(p)' = Got(p) /\ Numbers(p)' = Numbers(p)
    BY DEF Got, Numbers
<1>2. \A p \in BusPorts : Waiting(p)' \in Seq(Nat)
    BY DEF BusInv
<1>3. \A p \in BusPorts : ToSet(Got(p)') = Numbers(p)' /\ Up(Got(p)') /\ \A n \in ToSet(Got(p)') : n <= messages'
    <2> SUFFICES ASSUME NEW p \in BusPorts
                 PROVE  ToSet(Got(p)') = Numbers(p)' /\ Up(Got(p)') /\ \A n \in ToSet(Got(p)') : n <= messages'
        OBVIOUS
    <2>1. PICK s : s = Got(p)
        OBVIOUS
    <2>2. Got(p)' = s /\ Numbers(p)' = Numbers(p)
        BY <1>1, <2>1
    <2>3. ToSet(s) = Numbers(p) /\ Up(s) /\ \A n \in ToSet(s) : n <= messages
        BY <2>1 DEF BusInv
    <2> QED
        BY <2>2, <2>3
<1> QED
    BY <1>2, <1>3 DEF BusInv, Up, ToSet

LEMMA NumbersAreNat ==
    ASSUME BusInv, NEW p \in BusPorts
    PROVE  Numbers(p) \subseteq Nat /\ \A n \in ToSet(Got(p)) : n \in Nat /\ n <= messages
<1>1. sent \in Seq([port : BusPorts, nr : Nat])
    BY DEF BusInv
<1>2. \A k \in DOMAIN sent : sent[k] \in [port : BusPorts, nr : Nat]
    <2>1. DOMAIN sent = 1..Len(sent)
        BY <1>1, LenProperties
    <2> QED
        BY <1>1, <2>1, ElementOfSeq
<1>3. ToSet(sent) \subseteq [port : BusPorts, nr : Nat]
    BY <1>2 DEF ToSet
<1>4. Numbers(p) \subseteq Nat
    BY <1>3 DEF Numbers
<1> QED
    BY <1>4 DEF BusInv

LEMMA OnePort ==
    ASSUME NEW p \in BusPorts, NEW v, queues' = With(queues, p, v)
    PROVE  Waiting(p)' = v /\ \A q \in BusPorts \ {p} : Waiting(q)' = Waiting(q)
<1>1. PICK w, was : w = With(queues, p, v) /\ was = queues
    OBVIOUS
<1>2. Get(w, p, <<>>) = v /\ \A q \in BusPorts \ {p} : Get(w, q, <<>>) = Get(was, q, <<>>)
    <2>1. Get(With(queues, p, v), p, <<>>) = v
        BY DEF With, Get
    <2>2. \A q \in BusPorts \ {p} : Get(With(queues, p, v), q, <<>>) = Get(queues, q, <<>>)
        BY DEF With, Get
    <2> QED
        BY <1>1, <2>1, <2>2
<1>3. queues' = w /\ queues = was
    BY <1>1
<1>4. \A q \in BusPorts : Waiting(q)' = Get(w, q, <<>>) /\ Waiting(q) = Get(was, q, <<>>)
    BY <1>3 DEF Waiting
<1> QED
    BY <1>2, <1>4

LEMMA RegisterPortKeeps == ASSUME BusInv, NEW p \in BusPorts, NEW k, RegisterPort(p, k) PROVE BusInv'
<1>1. queues' = With(queues, p, Get(queues, p, <<>>)) /\ UNCHANGED <<sent, taken, messages>>
    BY DEF RegisterPort
<1>2. \A q \in BusPorts : Waiting(q)' = Waiting(q)
    <2>1. queues' = With(queues, p, Waiting(p))
        BY <1>1 DEF Waiting
    <2>2. PICK v : v = Waiting(p)
        OBVIOUS
    <2> QED
        BY <2>1, <2>2, OnePort
<1> QED
    BY <1>1, <1>2, BusStays

LEMMA SendKeeps == ASSUME BusInv, NEW p \in BusPorts, NEW fits, SendMessage(p, fits) PROVE BusInv'
<1>0. /\ messages \in Nat /\ sent \in Seq([port : BusPorts, nr : Nat])
      /\ taken \in [BusPorts -> Seq(Nat)]
    BY DEF BusInv
<1>1. PICK m : m = messages + 1
    OBVIOUS
<1>2. m \in Nat /\ messages < m /\ messages' = m /\ taken' = taken
    BY <1>0, <1>1 DEF SendMessage
<1>3. CASE ~Accepts(p, fits)
    <2>1. queues' = queues /\ sent' = sent
        BY <1>3 DEF SendMessage
    <2>2. \A q \in BusPorts : Waiting(q)' = Waiting(q) /\ Got(q)' = Got(q) /\ Numbers(q)' = Numbers(q)
        BY <2>1, <1>2 DEF Waiting, Got, Numbers, Get
    <2>3. ASSUME NEW q \in BusPorts
          PROVE  /\ Waiting(q)' \in Seq(Nat) /\ \A n \in ToSet(Got(q)') : n <= messages'
                 /\ ToSet(Got(q)') = Numbers(q)' /\ Up(Got(q)')
        <3>1. PICK s : s = Got(q)
            OBVIOUS
        <3>2. ToSet(s) = Numbers(q) /\ Up(s) /\ \A n \in ToSet(s) : n \in Nat /\ n <= messages
            BY <3>1, NumbersAreNat DEF BusInv
        <3>3. Got(q)' = s /\ Numbers(q)' = Numbers(q) /\ Waiting(q)' = Waiting(q) /\ Waiting(q) \in Seq(Nat)
            BY <3>1, <2>2 DEF BusInv
        <3>4. \A n \in ToSet(s) : n <= m
            BY <3>2, <1>0, <1>2
        <3> QED
            BY <3>2, <3>3, <3>4, <1>2
    <2> QED
        BY <2>1, <2>3, <1>0, <1>2 DEF BusInv, ToSet, Up
<1>4. CASE Accepts(p, fits)
    <2>1. PICK a, b, now : a = taken[p] /\ b = Waiting(p) /\ now = Append(b, m)
        OBVIOUS
    <2>2. queues' = With(queues, p, now) /\ sent' = Append(sent, [port |-> p, nr |-> m])
        BY <1>1, <1>4, <2>1, <1>2 DEF SendMessage, Waiting
    <2>3. Waiting(p)' = now /\ \A q \in BusPorts \ {p} : Waiting(q)' = Waiting(q)
        BY <2>2, OnePort
    <2>4. a \in Seq(Nat) /\ b \in Seq(Nat) /\ Up(a \o b) /\ \A n \in ToSet(a \o b) : n <= messages
        BY <2>1 DEF BusInv, Got
    <2>5. \A n \in ToSet(a \o b) : n < m
        <3>1. PICK s : s = a \o b
            OBVIOUS
        <3>2. s \in Seq(Nat)
            BY <2>4, <3>1, ConcatProperties
        <3>3. ToSet(s) \subseteq Nat
            BY <3>2, ElementOfSeq DEF ToSet
        <3> QED
            BY <2>4, <3>1, <3>3, <1>0, <1>2
    <2>6. now \in Seq(Nat) /\ ToSet(a \o now) = ToSet(a \o b) \cup {m} /\ Up(a \o now)
        BY <2>1, <2>4, <2>5, <1>2, OneMore
    <2>7. Got(p)' = a \o now /\ Got(p) = a \o b /\ \A q \in BusPorts \ {p} : Got(q)' = Got(q)
        BY <2>1, <2>3, <1>2 DEF Got
    <2>8. PICK e : e = [port |-> p, nr |-> m]
        OBVIOUS
    <2>9. e \in [port : BusPorts, nr : Nat] /\ e.port = p /\ e.nr = m
        BY <2>8, <1>2
    <2>10. sent' \in Seq([port : BusPorts, nr : Nat]) /\ ToSet(sent') = ToSet(sent) \cup {e}
        <3>1. sent' = Append(sent, e)
            BY <2>2, <2>8
        <3>2. PICK S, was : S = [port : BusPorts, nr : Nat] /\ was = sent
            OBVIOUS
        <3>3. was \in Seq(S) /\ e \in S
            BY <3>2, <2>9, <1>0
        <3>4. Append(was, e) \in Seq(S) /\ ToSet(Append(was, e)) = ToSet(was) \cup {e}
            BY <3>3, ToSetOfAppend
        <3> QED
            BY <3>1, <3>2, <3>4
    <2>11. Numbers(p)' = Numbers(p) \cup {m} /\ \A q \in BusPorts \ {p} : Numbers(q)' = Numbers(q)
        BY <2>9, <2>10 DEF Numbers
    <2>12. ASSUME NEW q \in BusPorts
           PROVE  /\ Waiting(q)' \in Seq(Nat) /\ \A n \in ToSet(Got(q)') : n <= messages'
                  /\ ToSet(Got(q)') = Numbers(q)' /\ Up(Got(q)')
        <3>1. CASE q = p
            <4>1. \A n \in ToSet(a \o now) : n <= m
                <5>1. \A n \in ToSet(a \o b) : n \in Nat /\ n < m
                    BY <2>5, <2>7, NumbersAreNat
                <5> QED
                    BY <5>1, <2>6, <1>2
            <4>2. ToSet(a \o b) = Numbers(p)
                BY <2>7 DEF BusInv
            <4> QED
                BY <3>1, <4>1, <4>2, <2>3, <2>6, <2>7, <2>11, <1>2
        <3>2. CASE q # p
            <4>1. PICK s : s = Got(q)
                OBVIOUS
            <4>2. ToSet(s) = Numbers(q) /\ Up(s) /\ \A n \in ToSet(s) : n <= messages
                BY <4>1 DEF BusInv
            <4>3. Got(q)' = s /\ Numbers(q)' = Numbers(q) /\ Waiting(q)' = Waiting(q)
                BY <3>2, <4>1, <2>3, <2>7, <2>11
            <4>4. ToSet(s) \subseteq Nat
                BY <4>2, NumbersAreNat
            <4>5. \A n \in ToSet(s) : n <= m
                BY <4>2, <4>4, <1>0, <1>2
            <4>6. Waiting(q) \in Seq(Nat)
                BY DEF BusInv
            <4> QED
                BY <4>2, <4>3, <4>5, <4>6, <1>2
        <3> QED
            BY <3>1, <3>2
    <2> QED
        BY <2>10, <2>12, <1>0, <1>2 DEF BusInv, Up, ToSet
<1> QED
    BY <1>3, <1>4

LEMMA ReceiveKeeps == ASSUME BusInv, NEW p \in BusPorts, Receive(p) PROVE BusInv'
<1>1. PICK a, b : a = taken[p] /\ b = Waiting(p)
    OBVIOUS
<1>2. a \in Seq(Nat) /\ b \in Seq(Nat) /\ taken \in [BusPorts -> Seq(Nat)]
    BY <1>1 DEF BusInv
<1>3. /\ taken' = [taken EXCEPT ![p] = a \o b] /\ queues' = With(queues, p, <<>>)
      /\ UNCHANGED <<sent, messages>>
    BY <1>1 DEF Receive, Waiting
<1>4. Waiting(p)' = <<>> /\ \A q \in BusPorts \ {p} : Waiting(q)' = Waiting(q)
    BY <1>3, OnePort
<1>5. a \o b \in Seq(Nat) /\ (a \o b) \o <<>> = a \o b
    BY <1>2, ConcatProperties, ConcatEmptySeq
<1>6. taken' \in [BusPorts -> Seq(Nat)] /\ taken'[p] = a \o b /\ \A q \in BusPorts \ {p} : taken'[q] = taken[q]
    BY <1>2, <1>3, <1>5
<1>7. \A q \in BusPorts : Got(q)' = Got(q) /\ Numbers(q)' = Numbers(q)
    BY <1>1, <1>3, <1>4, <1>5, <1>6 DEF Got, Numbers
<1>8. \A q \in BusPorts : Waiting(q)' \in Seq(Nat)
    BY <1>4, NothingSaid DEF BusInv
<1>9. ASSUME NEW q \in BusPorts
      PROVE  ToSet(Got(q)') = Numbers(q)' /\ Up(Got(q)') /\ \A n \in ToSet(Got(q)') : n <= messages'
    <2>1. PICK s : s = Got(q)
        OBVIOUS
    <2>2. ToSet(s) = Numbers(q) /\ Up(s) /\ \A n \in ToSet(s) : n <= messages
        BY <2>1 DEF BusInv
    <2>3. Got(q)' = s /\ Numbers(q)' = Numbers(q)
        BY <2>1, <1>7
    <2> QED
        BY <2>2, <2>3, <1>3
<1> QED
    BY <1>3, <1>6, <1>8, <1>9 DEF BusInv, Up, ToSet

LEMMA BusInvStep == BusInv /\ (BusStep \/ UNCHANGED busVars) => BusInv'
<1>1. ASSUME BusInv, ClearBus PROVE BusInv'
    <2>1. messages' \in Nat /\ queues' = <<>> /\ sent' = <<>> /\ taken' = [p \in BusPorts |-> <<>>]
        BY <1>1 DEF ClearBus, BusInv
    <2>2. (messages \in Nat /\ queues = <<>> /\ sent = <<>> /\ taken = [p \in BusPorts |-> <<>> ] => BusInv)'
        BY BusEmpty, PTL
    <2> QED
        BY <2>1, <2>2
<1>2. ASSUME BusInv, UNCHANGED busVars PROVE BusInv'
    BY <1>2, BusStays DEF busVars, Waiting, Get
<1> QED
    BY <1>1, <1>2, RegisterPortKeeps, SendKeeps, ReceiveKeeps DEF BusStep

---------------------------------------------------------------------------
(* Checkpoints.  Each is of an object; one that was read from text, and that *)
(* nobody has resumed, is of an object nobody else has.                      *)
Alone(c) == /\ checkpoints[c] \notin inHands
            /\ \A d \in DOMAIN checkpoints : d # c => checkpoints[d] # checkpoints[c]

HandoffInv ==
    /\ content \in [StateObjects -> Nat] /\ text.content \in Nat
    /\ DOMAIN kept = DOMAIN checkpoints
    /\ \A c \in DOMAIN checkpoints : checkpoints[c] \in StateObjects /\ kept[c] \in Nat
    /\ \A c \in DOMAIN checkpoints : c \notin live => Alone(c)
    /\ CheckpointsKeep

LEMMA HandoffInvInit == ExchangeInit => HandoffInv
<1> SUFFICES ASSUME ExchangeInit PROVE HandoffInv
    OBVIOUS
<1>1. content = [o \in StateObjects |-> 0] /\ checkpoints = <<>> /\ kept = <<>> /\ text = NoText
    BY DEF ExchangeInit
<1> QED
    BY <1>1, NothingSaid DEF HandoffInv, CheckpointsKeep, NoText

LEMMA WorkKeeps == ASSUME HandoffInv, NEW o \in StateObjects, Work(o) PROVE HandoffInv'
<1>1. /\ content' = [content EXCEPT ![o] = @ + 1] /\ UNCHANGED <<inHands, checkpoints, text, kept, live>>
      /\ o \in inHands
    BY DEF Work
<1>2. /\ content' \in [StateObjects -> Nat] /\ content'[o] = content[o] + 1 /\ content[o] \in Nat
      /\ \A u \in StateObjects : u # o => content'[u] = content[u]
    BY <1>1 DEF HandoffInv
<1>3. ASSUME NEW c \in DOMAIN checkpoints
      PROVE  content'[checkpoints[c]] >= kept[c] /\ (c \notin live => content'[checkpoints[c]] = kept[c])
    <2>1. /\ checkpoints[c] \in StateObjects /\ kept[c] \in Nat /\ content[checkpoints[c]] >= kept[c]
          /\ c \notin live => content[checkpoints[c]] = kept[c] /\ checkpoints[c] \notin inHands
        BY DEF HandoffInv, CheckpointsKeep, Alone
    <2>2. CASE checkpoints[c] = o
        BY <2>1, <2>2, <1>1, <1>2
    <2>3. CASE checkpoints[c] # o
        BY <2>1, <2>3, <1>2
    <2> QED
        BY <2>2, <2>3
<1>4. CheckpointsKeep'
    BY <1>1, <1>3 DEF CheckpointsKeep
<1> QED
    BY <1>1, <1>2, <1>4 DEF HandoffInv, Alone

(* A checkpoint of an object that is given the content that is kept of it.   *)
LEMMA CheckpointKeeps ==
    ASSUME HandoffInv, NEW c, NEW o \in StateObjects, NEW v \in Nat,
           checkpoints' = With(checkpoints, c, o), kept' = With(kept, c, v),
           content' \in [StateObjects -> Nat], content'[o] = v, text' = text, inHands' = inHands,
           live' \in {live \cup {c}, live \ {c}},
           c \notin live' => o \notin inHands,
           \A d \in DOMAIN checkpoints : checkpoints[d] = o => c \in live' /\ d \in live,
           \A u \in StateObjects : u # o => content'[u] = content[u],
           content' = content \/ (\A d \in DOMAIN checkpoints : checkpoints[d] # o)
    PROVE  HandoffInv'
<1>1. DOMAIN checkpoints' = DOMAIN checkpoints \cup {c} /\ DOMAIN kept' = DOMAIN kept \cup {c}
    BY DEF With
<1>2. checkpoints'[c] = o /\ kept'[c] = v
    BY DEF With
<1>3. \A d \in DOMAIN checkpoints : d # c => checkpoints'[d] = checkpoints[d]
    BY DEF With
<1>4. \A d \in DOMAIN kept : d # c => kept'[d] = kept[d]
    BY DEF With
<1>5. /\ DOMAIN kept = DOMAIN checkpoints
      /\ \A d \in DOMAIN checkpoints : checkpoints[d] \in StateObjects /\ kept[d] \in Nat
      /\ \A d \in DOMAIN checkpoints : d \notin live => Alone(d)
    BY DEF HandoffInv
<1>6. \A d : d # c => (d \in live' <=> d \in live)
    OBVIOUS
<1>7. ASSUME NEW d \in DOMAIN checkpoints'
      PROVE  /\ checkpoints'[d] \in StateObjects /\ kept'[d] \in Nat
             /\ content'[checkpoints'[d]] >= kept'[d]
             /\ d \notin live' => content'[checkpoints'[d]] = kept'[d]
    <2>1. CASE d = c
        BY <2>1, <1>2
    <2>2. CASE d # c
        <3>1. /\ d \in DOMAIN checkpoints /\ checkpoints'[d] = checkpoints[d] /\ kept'[d] = kept[d]
              /\ checkpoints[d] \in StateObjects /\ kept[d] \in Nat
            BY <2>2, <1>1, <1>3, <1>4, <1>5
        <3>2. content'[checkpoints[d]] = content[checkpoints[d]]
            BY <3>1
        <3>3. content[checkpoints[d]] >= kept[d] /\ (d \notin live => content[checkpoints[d]] = kept[d])
            BY <3>1 DEF HandoffInv, CheckpointsKeep
        <3> QED
            BY <2>2, <3>1, <3>2, <3>3, <1>6
    <2> QED
        BY <2>1, <2>2
<1>8. ASSUME NEW d \in DOMAIN checkpoints', d \notin live' PROVE Alone(d)'
    <2>1. CASE d = c
        <3>1. \A e \in DOMAIN checkpoints : checkpoints[e] # o
            BY <2>1, <1>8
        <3>2. \A e \in DOMAIN checkpoints' : e # c => checkpoints'[e] # o
            BY <3>1, <1>1, <1>3
        <3>3. o \notin inHands
            BY <2>1, <1>8
        <3> QED
            BY <2>1, <3>2, <3>3, <1>2 DEF Alone
    <2>2. CASE d # c
        <3>1. d \in DOMAIN checkpoints /\ d \notin live /\ checkpoints'[d] = checkpoints[d]
            BY <2>2, <1>1, <1>3, <1>6, <1>8
        <3>2. checkpoints[d] \notin inHands /\ \A e \in DOMAIN checkpoints : e # d => checkpoints[e] # checkpoints[d]
            BY <3>1, <1>5 DEF Alone
        <3>3. checkpoints[d] # o
            BY <3>1
        <3>4. \A e \in DOMAIN checkpoints' : e # d => checkpoints'[e] # checkpoints[d]
            BY <3>2, <3>3, <1>1, <1>2, <1>3
        <3> QED
            BY <3>1, <3>2, <3>4 DEF Alone
    <2> QED
        BY <2>1, <2>2
<1>9. CheckpointsKeep'
    BY <1>7 DEF CheckpointsKeep
<1>10. DOMAIN kept' = DOMAIN checkpoints' /\ text'.content \in Nat
    BY <1>1, <1>5 DEF HandoffInv
<1>11. \A d \in DOMAIN checkpoints' : checkpoints'[d] \in StateObjects /\ kept'[d] \in Nat
    BY <1>7
<1> QED
    BY <1>8, <1>9, <1>10, <1>11 DEF HandoffInv

LEMMA DeserializeKeeps == ASSUME HandoffInv, Deserialize PROVE HandoffInv'
<1>1. PICK o \in Unused : Register(o)
    BY DEF Deserialize
<1>2. o \in StateObjects /\ o \notin inHands /\ \A c \in DOMAIN checkpoints : checkpoints[c] # o
    BY DEF Unused
<1>3. PICK c, v : c = text.id /\ v = text.content
    OBVIOUS
<1>4. /\ checkpoints' = With(checkpoints, c, o) /\ content' = [content EXCEPT ![o] = v]
      /\ kept' = With(kept, c, v) /\ live' = live \ {c} /\ inHands' = inHands /\ text' = text
    BY <1>1, <1>3 DEF Register
<1>5. v \in Nat /\ content \in [StateObjects -> Nat]
    BY <1>3 DEF HandoffInv
<1>6. content' \in [StateObjects -> Nat] /\ content'[o] = v /\ \A u \in StateObjects : u # o => content'[u] = content[u]
    BY <1>2, <1>4, <1>5
<1> QED
    BY <1>2, <1>4, <1>5, <1>6, CheckpointKeeps

LEMMA HandoffInvStep == HandoffInv /\ (HandoffStep \/ UNCHANGED handoffVars) => HandoffInv'
<1>1. ASSUME HandoffInv, NEW c \in Checkpoints, NEW o \in StateObjects, CreateCheckpoint(c, o) PROVE HandoffInv'
    <2>1. PICK v : v = content[o]
        OBVIOUS
    <2>2. /\ checkpoints' = With(checkpoints, c, o) /\ kept' = With(kept, c, v) /\ live' = live \cup {c}
          /\ UNCHANGED <<content, inHands, text>> /\ v \in Nat /\ o \in inHands
        BY <2>1, <1>1 DEF CreateCheckpoint, HandoffInv
    <2>3. content' \in [StateObjects -> Nat] /\ content'[o] = v
        BY <2>1, <2>2, <1>1 DEF HandoffInv
    <2>4. \A d \in DOMAIN checkpoints : checkpoints[d] = o => d \in live
        BY <2>2, <1>1 DEF HandoffInv, Alone
    <2> QED
        BY <2>2, <2>3, <2>4, <1>1, CheckpointKeeps
<1>2. ASSUME HandoffInv, NEW c \in Checkpoints, ResumeFrom(c) PROVE HandoffInv'
    <2>1. /\ c \in DOMAIN checkpoints /\ inHands' = inHands \cup {checkpoints[c]} /\ live' = live \cup {c}
          /\ UNCHANGED <<content, checkpoints, text, kept>>
        BY <1>2 DEF ResumeFrom
    <2>2. ASSUME NEW d \in DOMAIN checkpoints, d \notin live' PROVE Alone(d)'
        <3>1. d # c /\ Alone(d)
            BY <2>1, <2>2, <1>2 DEF HandoffInv
        <3> QED
            BY <2>1, <3>1 DEF Alone
    <2>3. CheckpointsKeep'
        BY <2>1, <1>2 DEF HandoffInv, CheckpointsKeep
    <2> QED
        BY <2>1, <2>2, <2>3, <1>2 DEF HandoffInv
<1>3. ASSUME HandoffInv, NEW c \in Checkpoints, Serialize(c) PROVE HandoffInv'
    <2>1. /\ c \in DOMAIN checkpoints /\ text' = [id |-> c, content |-> content[checkpoints[c]]]
          /\ UNCHANGED <<content, inHands, checkpoints, kept, live>>
        BY <1>3 DEF Serialize
    <2>2. text'.content \in Nat
        BY <2>1, <1>3 DEF HandoffInv
    <2> QED
        BY <2>1, <2>2, <1>3 DEF HandoffInv, CheckpointsKeep, Alone
<1>4. ASSUME HandoffInv, NewManager PROVE HandoffInv'
    <2>1. content' = [o \in StateObjects |-> 0] /\ checkpoints' = <<>> /\ kept' = <<>> /\ text' = text
        BY <1>4 DEF NewManager
    <2> QED
        BY <2>1, <1>4, NothingSaid DEF HandoffInv, CheckpointsKeep
<1>5. ASSUME HandoffInv, UNCHANGED handoffVars PROVE HandoffInv'
    BY <1>5 DEF handoffVars, HandoffInv, CheckpointsKeep, Alone
<1> QED
    BY <1>1, <1>2, <1>3, <1>4, <1>5, WorkKeeps, DeserializeKeeps DEF HandoffStep

---------------------------------------------------------------------------
(* Ports of domains.                                                         *)
PortRecords == [name : Seq(STRING), schema : STRING]

DomainInv ==
    /\ manifests \in [DomainDirs -> Manifests \cup {NoManifest}]
    /\ DOMAIN loads = DOMAIN domains /\ \A n \in DOMAIN loads : loads[n] \in Nat \ {0}
    /\ PortsAreOfDomains

LEMMA LastIsOne ==
    ASSUME NEW ports \in Seq(PortRecords), NEW name, NEW id, Having(name, ports, id) # {}
    PROVE  /\ LastHaving(name, ports, id) \in ToSet(ports)
           /\ PortId(name, LastHaving(name, ports, id).name) = id
<1>1. DOMAIN ports = 1..Len(ports) /\ Len(ports) \in Nat
    BY LenProperties
<1>2. PICK S : S = Having(name, ports, id)
    OBVIOUS
<1>3. S \subseteq DOMAIN ports
    BY <1>2 DEF Having, Indexed
<1>4. S \in SUBSET (0..Len(ports)) /\ S # {}
    BY <1>1, <1>2, <1>3
<1>5. Max(S) \in S
    BY <1>1, <1>4, HasMax
<1>6. LastHaving(name, ports, id) = ports[Max(S)]
    BY <1>2 DEF LastHaving
<1>7. PortId(name, ports[Max(S)].name) = id
    BY <1>2, <1>5 DEF Having
<1> QED
    BY <1>3, <1>5, <1>6, <1>7 DEF ToSet

LEMMA EnteredKeeps ==
    ASSUME DomainInv, NEW name, NEW ports \in Seq(PortRecords), Entered(name, ports), UNCHANGED manifests
    PROVE  DomainInv'
<1>1. PICK new : new = {PortId(name, ports[k].name) : k \in Indexed(ports)}
    OBVIOUS
<1>2. /\ domains' = With(domains, name, ports) /\ loads' = With(loads, name, Get(loads, name, 0) + 1)
      /\ halfway' = IF Indexed(ports) = DOMAIN ports THEN halfway \ {name} ELSE halfway \cup {name}
      /\ portMap' = [id \in DOMAIN portMap \cup new |->
                       IF Having(name, ports, id) = {} THEN portMap[id]
                       ELSE [domain |-> name, port |-> LastHaving(name, ports, id)]]
    BY <1>1 DEF Entered
<1>3. /\ DOMAIN domains' = DOMAIN domains \cup {name} /\ domains'[name] = ports
      /\ \A n \in DOMAIN domains : n # name => domains'[n] = domains[n]
    BY <1>2 DEF With
<1>4. PICK count : count = Get(loads, name, 0) + 1
    OBVIOUS
<1>5. /\ DOMAIN loads' = DOMAIN loads \cup {name} /\ loads'[name] = count
      /\ \A n \in DOMAIN loads : n # name => loads'[n] = loads[n]
    BY <1>2, <1>4 DEF With
<1>6. count \in Nat \ {0} /\ (count = 1 => name \notin DOMAIN loads)
    <2>1. CASE name \in DOMAIN loads
        <3>1. loads[name] \in Nat \ {0} /\ count = loads[name] + 1
            BY <2>1, <1>4 DEF DomainInv, Get
        <3> QED
            BY <3>1
    <2>2. CASE name \notin DOMAIN loads
        BY <2>2, <1>4 DEF Get
    <2> QED
        BY <2>1, <2>2
<1>7. DOMAIN loads = DOMAIN domains /\ \A n \in DOMAIN loads : loads[n] \in Nat \ {0}
    BY DEF DomainInv
<1>8. DOMAIN portMap' = DOMAIN portMap \cup new
    BY <1>2
<1>9. \A id : Having(name, ports, id) # {} <=> id \in new
    BY <1>1 DEF Having
<1>10. ASSUME NEW id \in new
       PROVE  portMap'[id] = [domain |-> name, port |-> LastHaving(name, ports, id)]
    BY <1>2, <1>9
<1>11. ASSUME NEW id \in DOMAIN portMap', id \notin new
       PROVE  id \in DOMAIN portMap /\ portMap'[id] = portMap[id]
    BY <1>2, <1>9, <1>11
<1>12. ASSUME NEW id \in DOMAIN portMap'
       PROVE  /\ portMap'[id].domain \in DOMAIN domains'
              /\ id = PortId(portMap'[id].domain, portMap'[id].port.name)
              /\ loads'[portMap'[id].domain] = 1 => portMap'[id].port \in ToSet(domains'[portMap'[id].domain])
    <2>1. CASE id \in new
        <3>1. portMap'[id].domain = name /\ portMap'[id].port = LastHaving(name, ports, id)
            <4>1. PICK p, r : p = LastHaving(name, ports, id) /\ r = portMap'[id]
                OBVIOUS
            <4>2. r = [domain |-> name, port |-> p]
                BY <2>1, <4>1, <1>10
            <4> QED
                BY <4>1, <4>2
        <3>2. LastHaving(name, ports, id) \in ToSet(ports) /\ PortId(name, LastHaving(name, ports, id).name) = id
            BY <2>1, <1>9, LastIsOne
        <3> QED
            BY <3>1, <3>2, <1>3
    <2>2. CASE id \notin new
        <3>1. id \in DOMAIN portMap /\ portMap'[id] = portMap[id]
            BY <2>2, <1>11
        <3>2. PICK n : n = portMap[id].domain
            OBVIOUS
        <3>3. /\ n \in DOMAIN domains /\ id = PortId(n, portMap[id].port.name)
              /\ loads[n] = 1 => portMap[id].port \in ToSet(domains[n])
            BY <3>1, <3>2 DEF DomainInv, PortsAreOfDomains
        <3>4. loads'[n] = 1 => n # name
            BY <3>3, <1>5, <1>6, <1>7
        <3>5. loads'[n] = 1 => portMap[id].port \in ToSet(domains'[n])
            BY <3>3, <3>4, <1>3, <1>5, <1>7
        <3> QED
            BY <3>1, <3>2, <3>3, <3>5, <1>3
    <2> QED
        BY <2>1, <2>2
<1>13. ASSUME NEW n \in DOMAIN domains' \ halfway', NEW k \in DOMAIN domains'[n], NEW id,
              id = PortId(n, domains'[n][k].name)
       PROVE  /\ id \in DOMAIN portMap'
              /\ portMap'[id].domain = n => portMap'[id].port = LastHaving(n, domains'[n], id)
    <2>1. CASE n = name
        <3>1. Indexed(ports) = DOMAIN ports
            BY <2>1, <1>2, <1>13
        <3>2. id \in new
            BY <2>1, <3>1, <1>1, <1>3, <1>13
        <3> QED
            BY <2>1, <3>2, <1>3, <1>8, <1>10
    <2>2. CASE n # name
        <3>1. n \in DOMAIN domains \ halfway /\ domains'[n] = domains[n]
            BY <2>2, <1>2, <1>3
        <3>2. id \in DOMAIN portMap /\ (portMap[id].domain = n => portMap[id].port = LastHaving(n, domains[n], id))
            BY <3>1, <1>13 DEF DomainInv, PortsAreOfDomains
        <3>3. CASE id \in new
            BY <2>2, <3>2, <3>3, <1>8, <1>10
        <3>4. CASE id \notin new
            BY <3>1, <3>2, <3>4, <1>8, <1>11
        <3> QED
            BY <3>3, <3>4
    <2> QED
        BY <2>1, <2>2
<1>14. PortsAreOfDomains'
    BY <1>12, <1>13, ZenonT(60) DEF PortsAreOfDomains, LastHaving, Having, Indexed, PortId
<1>15. \A n \in DOMAIN loads' : loads'[n] \in Nat \ {0}
    BY <1>5, <1>6, <1>7
<1>16. DOMAIN loads' = DOMAIN domains' /\ manifests' \in [DomainDirs -> Manifests \cup {NoManifest}]
    BY <1>3, <1>5, <1>7 DEF DomainInv
<1> QED
    BY <1>14, <1>15, <1>16 DEF DomainInv

LEMMA DomainInvStep == DomainInv /\ (DomainStep \/ UNCHANGED domainVars) => DomainInv'
<1>1. ASSUME DomainInv, UNCHANGED <<domains, portMap, loads, halfway>>,
             manifests' \in [DomainDirs -> Manifests \cup {NoManifest}]
      PROVE  DomainInv'
    <2>1. PortsAreOfDomains'
        BY <1>1 DEF DomainInv, PortsAreOfDomains
    <2> QED
        BY <2>1, <1>1 DEF DomainInv
<1>2. ASSUME DomainInv, NEW d \in DomainDirs, NEW m \in Manifests, ManifestChanges(d, m) PROVE DomainInv'
    <2>1. manifests' \in [DomainDirs -> Manifests \cup {NoManifest}]
        BY <1>2 DEF DomainInv, ManifestChanges
    <2> QED
        BY <2>1, <1>1, <1>2 DEF ManifestChanges
<1>3. ASSUME DomainInv, UNCHANGED manifests, UNCHANGED <<domains, portMap, loads, halfway>> PROVE DomainInv'
    BY <1>1, <1>3 DEF DomainInv
<1>4. ASSUME DomainInv, NEW m \in Manifests, m.is = "valid", Entered(m.name, m.ports), UNCHANGED manifests PROVE DomainInv'
    <2>1. m.ports \in Seq(PortRecords)
        BY <1>4, ManifestsAssumption DEF PortRecords
    <2> QED
        BY <2>1, <1>4, EnteredKeeps
<1>5. ASSUME DomainInv, NEW d \in DomainDirs, LoadDomainAt(d) PROVE DomainInv'
    <2>1. PICK m : m = manifests[d]
        OBVIOUS
    <2>2. m \in Manifests \cup {NoManifest} /\ manifests' = manifests
        BY <2>1, <1>5 DEF DomainInv, LoadDomainAt
    <2>3. CASE m.is = "valid"
        <3>1. m \in Manifests
            BY <2>2, <2>3 DEF NoManifest
        <3>2. Entered(m.name, m.ports)
            BY <2>1, <2>3, <1>5 DEF LoadDomainAt
        <3> QED
            BY <2>2, <2>3, <3>1, <3>2, <1>4, <1>5
    <2>4. CASE m.is # "valid"
        BY <2>1, <2>2, <2>4, <1>3, <1>5 DEF LoadDomainAt
    <2> QED
        BY <2>3, <2>4
<1>6. ASSUME DomainInv, DiscoverPath PROVE DomainInv'
    BY <1>3, <1>6 DEF DiscoverPath
<1>7. ASSUME DomainInv, NEW m \in Manifests, m.is = "valid", RegisterDomainPorts(m.name, m.ports) PROVE DomainInv'
    BY <1>4, <1>7 DEF RegisterDomainPorts
<1>8. ASSUME DomainInv, UNCHANGED domainVars PROVE DomainInv'
    BY <1>3, <1>8 DEF domainVars
<1> QED
    BY <1>2, <1>5, <1>6, <1>7, <1>8 DEF DomainStep

LEMMA ExchangeInvHolds == BusInv /\ HandoffInv /\ DomainInv => ExchangeHolds
<1> SUFFICES ASSUME BusInv, HandoffInv, DomainInv PROVE ExchangeHolds
    OBVIOUS
<1>1. BusDelivers
    BY DEF BusInv, BusDelivers, Got, Waiting, Numbers, Up
<1>2. CheckpointsKeep
    BY DEF HandoffInv
<1>3. PortsAreOfDomains
    BY DEF DomainInv
<1> QED
    BY <1>1, <1>2, <1>3 DEF ExchangeHolds

(* Whatever is sent, received, registered, checkpointed, resumed and         *)
(* discovered: a bus delivers each message once and in order; a checkpoint   *)
(* never goes back, and one read from text is as it was made until it is     *)
(* resumed; and what the registry says of a domain's port is what its last   *)
(* manifest says, or what is said of another domain's port whose id reads    *)
(* the same; for any ports, objects, manifests and number of operations.     *)
THEOREM ExchangeIsSound == ExchangeSpec => []ExchangeHolds
<1>1. ExchangeInit => BusInv /\ HandoffInv /\ DomainInv
    <2> SUFFICES ASSUME ExchangeInit PROVE BusInv /\ DomainInv
        BY HandoffInvInit
    <2>1. messages \in Nat /\ queues = <<>> /\ sent = <<>> /\ taken = [p \in BusPorts |-> <<>>]
        BY DEF ExchangeInit
    <2>2. manifests = [d \in DomainDirs |-> NoManifest] /\ domains = <<>> /\ portMap = <<>> /\ loads = <<>>
        BY DEF ExchangeInit
    <2>3. DomainInv
        BY <2>2, NothingSaid DEF DomainInv, PortsAreOfDomains
    <2> QED
        BY <2>1, <2>3, BusEmpty
<1>2. BusInv /\ HandoffInv /\ DomainInv /\ [ExchangeStep]_exchangeVars => (BusInv /\ HandoffInv /\ DomainInv)'
    <2>1. UNCHANGED exchangeVars => UNCHANGED busVars /\ UNCHANGED handoffVars /\ UNCHANGED domainVars
        BY DEF exchangeVars, busVars, handoffVars, domainVars
    <2> QED
        BY <2>1, BusInvStep, HandoffInvStep, DomainInvStep DEF ExchangeStep
<1>3. BusInv /\ HandoffInv /\ DomainInv => ExchangeHolds
    BY ExchangeInvHolds
<1> QED
    BY <1>1, <1>2, <1>3, PTL DEF ExchangeSpec
=============================================================================
