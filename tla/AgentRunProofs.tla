--------------------------- MODULE AgentRunProofs ---------------------------
(***************************************************************************)
(* Theorems about AgentRun, for any agents, tools and responses.  First    *)
(* the bounds of a run; then its message history: compaction, coercion and *)
(* tools keep calls and answers together, and a run that summarises        *)
(* forgets nothing.                                                        *)
(***************************************************************************)
EXTENDS AgentRun, SequenceTheorems, TLAPS

LEMMA Product ==
  ASSUME NEW a \in Nat, NEW b \in Nat, NEW c \in Nat, a < b
  PROVE  /\ a * c \in Nat /\ b * c \in Nat /\ (a + 1) * c \in Nat
         /\ (a + 1) * c = a * c + c /\ a * c + c <= b * c
<1>1. /\ a * c \in Nat /\ b * c \in Nat /\ (a + 1) * c \in Nat /\ (a + 1) * c = a * c + c
  OBVIOUS
<1>2. PICK d \in Nat : b = a + 1 + d
  <2>1. b - a - 1 \in Nat
    OBVIOUS
  <2> QED BY <2>1
<1>3. b * c = (a + 1) * c + d * c
  BY <1>2
<1>4. d * c \in Nat
  OBVIOUS
<1> QED BY <1>1, <1>3, <1>4

Reacting == cfg.strategy \notin {"plan_execute", "self_ask", "tree_of_thought", "chain_of_thought"}

LEMMA Bounds ==
  /\ cfg.strategy = "plan_execute" => ChatBound = 2 + cfg.max * cfg.inner
  /\ cfg.strategy = "self_ask" => ChatBound = 2 * cfg.max + 1
  /\ cfg.strategy = "tree_of_thought" => ChatBound = cfg.branches + 2
  /\ cfg.strategy = "chain_of_thought" => ChatBound = 1
  /\ Reacting => ChatBound = IF cfg.max = 0 THEN 1 ELSE 2 * cfg.max + 2
BY DEF ChatBound, Reacting

LEMMA FirstChats ==
  /\ cfg.strategy = "plan_execute" => FirstChat = "plan"
  /\ cfg.strategy = "self_ask" => FirstChat = "decompose"
  /\ cfg.strategy = "tree_of_thought" => FirstChat = "branch"
  /\ cfg.strategy = "chain_of_thought" => FirstChat = "compose"
  /\ Reacting => FirstChat = IF cfg.max > 0 THEN "chat" ELSE "final"
BY DEF FirstChat, Reacting
---------------------------------------------------------------------------
(* How many calls a strategy has made when it is at each of its awaits.      *)
Is(kind) == cfg.strategy = kind
ReActPlaces == {"chat", "tools", "summary", "coerce1", "coerce2", "coerce3", "final"}
PlanPlaces  == {"plan", "exec", "exectools", "planfinal"}
Outside     == {"idle", "prehook", "prompt"}
Later       == {"ended", "raised", "posthook", "close", "closeerror", "returned", "over", "crashed", "hung"}

ReActCounts ==
    /\ pc \in ReActPlaces => Reacting
    /\ pc = "chat" => step < cfg.max /\ chats <= 2 * step
    /\ pc = "summary" => step + 1 < cfg.max /\ chats <= 2 * step + 1
    /\ pc \in {"tools", "coerce1"} => step < cfg.max /\ chats <= 2 * step + 1
    /\ pc = "coerce2" => step < cfg.max /\ chats <= 2 * step + 2
    /\ pc = "coerce3" => step < cfg.max /\ chats <= 2 * step + 3
    /\ pc = "final" => chats <= 2 * cfg.max

PlanCounts ==
    /\ pc \in PlanPlaces => Is("plan_execute")
    /\ pc = "plan" => chats = 0 /\ step = 0 /\ inner = 0
    /\ pc \in {"exec", "exectools"} => step < cfg.max /\ inner < cfg.inner
    /\ pc = "exec" => chats <= 1 + step * cfg.inner + inner
    /\ pc = "exectools" => chats <= 2 + step * cfg.inner + inner
    /\ pc = "planfinal" => chats <= 1 + cfg.max * cfg.inner

OtherCounts ==
    /\ pc \in {"decompose", "subanswer"} => Is("self_ask") /\ step < cfg.max
    /\ pc = "decompose" => chats <= 2 * step
    /\ pc = "subanswer" => chats <= 2 * step + 1
    /\ pc \in {"branch", "vote"} => Is("tree_of_thought")
    /\ pc = "branch" => inner < cfg.branches /\ chats <= inner
    /\ pc = "vote" => chats <= cfg.branches
    /\ pc = "compose" => chats + 1 <= ChatBound
    /\ pc \in Outside => chats = 0

Places == ReActPlaces \cup PlanPlaces \cup Outside \cup Later
              \cup {"decompose", "subanswer", "branch", "vote", "compose"}

Counts == ReActCounts /\ PlanCounts /\ OtherCounts /\ pc \in Places /\ ChatsBounded

CritiquesOf(n) == {<<"critique", k>> : k \in 1..n}

---------------------------------------------------------------------------
(* Types.                                                                    *)
LEMMA CfgType ==
  ASSUME TypeOK
  PROVE  /\ cfg.max \in Nat /\ cfg.branches \in Nat
         /\ cfg.inner \in Nat \ {0} /\ cfg.rounds \in Nat \ {0}
BY ConfigsAssumption DEF TypeOK

LEMMA PromotesType ==
  ASSUME promoted \subseteq Tools, NEW r, Promotes(r)
  PROVE  promoted' \subseteq Tools
BY DEF Promotes, L1Pending

(* A strategy changes only its own variables, and these stay in their types. *)
LEMMA ReActTypes ==
  ASSUME TypeOK, ReActStep, UNCHANGED <<inner, runner>>
  PROVE  TypeOK'
<1>1. /\ UNCHANGED <<cfg, inner, round, memory, status>> /\ step' \in {step, step + 1}
      /\ chats' \in {chats, chats + 1} /\ counted' \in {counted, counted + 1} /\ counted' <= chats'
      /\ tries' \in {0, tries} /\ promoted' \subseteq Tools
  <2>1. CASE ChatReplies
    <3>1. PICK blocks \in Replies : Hears(blocks, Offered, cfg.schema) /\ Promotes(Reply(cfg.schema, blocks))
      BY <2>1 DEF ChatReplies
    <3>2. promoted' \subseteq Tools
      BY <3>1, PromotesType DEF TypeOK
    <3> QED BY <2>1, <3>1, <3>2 DEF ChatReplies, Hears, TypeOK, runner
  <2>2. CASE ChatRaises
    BY <2>2 DEF ChatRaises, GivesUp, TypeOK, runner
  <2>3. CASE ToolsReturn
    BY <2>3 DEF ToolsReturn, NextStep, TypeOK, runner
  <2>4. CASE ToolRaises
    BY <2>4 DEF ToolRaises, TypeOK, runner
  <2>5. CASE SummaryReplies
    BY <2>5 DEF SummaryReplies, NextStep, TypeOK, runner
  <2>6. CASE SummaryFails
    BY <2>6 DEF SummaryFails, GivesUp, NextStep, TypeOK, runner
  <2>7. CASE CoerceReplies
    BY <2>7 DEF CoerceReplies, Hears, TypeOK, runner
  <2>8. CASE CoerceFails
    BY <2>8 DEF CoerceFails, GivesUp, TypeOK, runner
  <2>9. CASE FinalReplies
    BY <2>9 DEF FinalReplies, Hears, TypeOK, runner
  <2>10. CASE FinalFails
    BY <2>10 DEF FinalFails, GivesUp, TypeOK, runner
  <2> QED BY <2>1, <2>2, <2>3, <2>4, <2>5, <2>6, <2>7, <2>8, <2>9, <2>10 DEF ReActStep
<1> QED BY <1>1 DEF TypeOK, MaxTries

LEMMA ThoughtTypes ==
  ASSUME TypeOK, UNCHANGED runner,
         \/ PlanReplies \/ ExecReplies \/ ExecToolsReturn \/ ExecToolRaises
         \/ PlanFinalReplies \/ PlanFinalFails \/ DecomposeReplies \/ SubAnswerReplies
         \/ BranchReplies \/ VoteReplies \/ ComposeReplies \/ Raises(Waiting)
  PROVE  TypeOK'
<1>1. /\ UNCHANGED <<cfg, promoted, round, memory, status>> /\ step' \in {step, step + 1}
      /\ chats' \in {chats, chats + 1} /\ counted' \in {counted, counted + 1} /\ counted' <= chats'
      /\ tries' \in {0, tries} /\ inner' \in {0, inner, inner + 1}
  <2>1. CASE PlanReplies
    BY <2>1 DEF PlanReplies, Hears, TypeOK, runner
  <2>2. CASE ExecReplies
    BY <2>2 DEF ExecReplies, Hears, PlanStepEnds, TypeOK, runner
  <2>3. CASE ExecToolsReturn
    BY <2>3 DEF ExecToolsReturn, PlanStepEnds, TypeOK, runner
  <2>4. CASE ExecToolRaises
    BY <2>4 DEF ExecToolRaises, TypeOK, runner
  <2>5. CASE PlanFinalReplies
    BY <2>5 DEF PlanFinalReplies, Hears, TypeOK, runner
  <2>6. CASE PlanFinalFails
    BY <2>6 DEF PlanFinalFails, GivesUp, TypeOK, runner
  <2>7. CASE DecomposeReplies
    BY <2>7 DEF DecomposeReplies, Hears, TypeOK, runner
  <2>8. CASE SubAnswerReplies
    BY <2>8 DEF SubAnswerReplies, Hears, TypeOK, runner
  <2>9. CASE BranchReplies
    BY <2>9 DEF BranchReplies, Hears, TypeOK, runner
  <2>10. CASE VoteReplies
    BY <2>10 DEF VoteReplies, Hears, TypeOK, runner
  <2>11. CASE ComposeReplies
    BY <2>11 DEF ComposeReplies, Hears, TypeOK, runner
  <2>12. CASE Raises(Waiting)
    BY <2>12 DEF Raises, GivesUp, TypeOK, runner
  <2> QED BY <2>1, <2>2, <2>3, <2>4, <2>5, <2>6, <2>7, <2>8, <2>9, <2>10, <2>11, <2>12
<1> QED BY <1>1 DEF TypeOK, MaxTries

LEMMA RunnerTypes ==
  ASSUME TypeOK, RunnerStep \/ HookHangs
  PROVE  TypeOK'
<1>0. cfg.rounds \in Nat \ {0}
  BY CfgType
<1>1. CASE Spawn
  BY <1>1 DEF Spawn, At, Keeping, TypeOK
<1>2. CASE PreHookEnds \/ PrepareRaises \/ HookHangs
  BY <1>2 DEF PreHookEnds, PrepareRaises, HookHangs, At, Keeping, TypeOK, runner
<1>3. CASE PostHookEnds
  BY <1>3 DEF PostHookEnds, At, TypeOK, runner
<1>4. CASE Prepare
  BY <1>4 DEF Prepare, StrategyBegins, TypeOK, MaxTries
<1>5. CASE StrategyRaised \/ RecordUsage \/ StoreRaises
  BY <1>5 DEF StrategyRaised, RecordUsage, StoreRaises, Fails, At, Keeping, TypeOK
<1>6. CASE Close
  BY <1>6, <1>0 DEF Close, At, Keeping, TypeOK
<1>7. CASE Grade
  <2>1. /\ UNCHANGED <<cfg, step, promoted, tries, inner, memory, status>> /\ chats' = 0 /\ counted' = 0
        /\ round' = round \/ (round' = round + 1 /\ round # cfg.rounds)
    BY <1>7 DEF Grade, At
  <2> QED BY <1>0, <2>1 DEF TypeOK
<1>8. CASE JudgeRaises \/ NoGrading
  BY <1>8 DEF JudgeRaises, NoGrading, At, Keeping, TypeOK, runner
<1> QED BY <1>1, <1>2, <1>3, <1>4, <1>5, <1>6, <1>7, <1>8 DEF RunnerStep

LEMMA TypeStep == TypeOK /\ [Next]_vars => TypeOK'
<1> SUFFICES ASSUME TypeOK, [Next]_vars PROVE TypeOK'
  OBVIOUS
<1>1. CASE RunnerStep \/ HookHangs
  BY <1>1, RunnerTypes
<1>2. CASE StrategyStep /\ UNCHANGED runner
  <2>1. CASE Blip /\ UNCHANGED inner
    BY <1>2, <2>1 DEF Blip, TypeOK, MaxTries, runner
  <2>2. CASE ReActStep /\ UNCHANGED inner
    BY <1>2, <2>2, ReActTypes
  <2> QED BY <1>2, <2>1, <2>2, ThoughtTypes DEF StrategyStep
<1>3. CASE UNCHANGED vars
  BY <1>3 DEF TypeOK, vars, thought, loop, runner
<1> QED BY <1>1, <1>2, <1>3 DEF Next, Done
---------------------------------------------------------------------------
(* Where a strategy goes from each of its awaits, and what that costs.       *)
LEMMA CountsFrame ==
  ASSUME cfg' = cfg
  PROVE  ChatBound' = ChatBound /\ (Reacting' <=> Reacting) /\ \A k : Is(k)' <=> Is(k)
BY DEF ChatBound, Reacting, Is

LEMMA NextStepGoes ==
  ASSUME NEW h, NextStep(h)
  PROVE  /\ step' = step + 1
         /\ step + 1 < cfg.max => pc' = "chat"
         /\ ~(step + 1 < cfg.max) => pc' = "final"
BY DEF NextStep

LEMMA ReActKeeps ==
  ASSUME TypeOK, Counts, ReActStep, UNCHANGED inner
  PROVE  Counts' /\ cfg' = cfg /\ pc' # "idle"
<1>0. /\ cfg.max \in Nat /\ step \in Nat /\ chats \in Nat
      /\ Reacting => ChatBound = IF cfg.max = 0 THEN 1 ELSE 2 * cfg.max + 2
  BY CfgType, Bounds DEF TypeOK
<1>a. cfg' = cfg
  BY DEF ReActStep, ChatReplies, ChatRaises, ToolsReturn, ToolRaises, SummaryReplies, SummaryFails,
         CoerceReplies, CoerceFails, FinalReplies, FinalFails, Hears, GivesUp
<1>b. ChatBound' = ChatBound /\ (Reacting' <=> Reacting)
  BY <1>a, CountsFrame
<1>1. CASE ChatReplies
  <2>1. pc = "chat" /\ chats' = chats + 1 /\ step' = step /\ pc' \in {"coerce1", "ended", "tools"}
    BY <1>1 DEF ChatReplies, Hears, Concludes
  <2> QED BY <1>0, <1>a, <1>b, <2>1 DEF Counts, ReActCounts, PlanCounts, OtherCounts, ChatsBounded,
                                        Places, ReActPlaces, PlanPlaces, Outside, Later
<1>2. CASE ChatRaises \/ ToolRaises
  <2>1. chats' = chats /\ pc' = "raised"
    BY <1>2 DEF ChatRaises, ToolRaises, GivesUp
  <2> QED BY <1>0, <1>a, <1>b, <2>1 DEF Counts, ReActCounts, PlanCounts, OtherCounts, ChatsBounded,
                                        Places, ReActPlaces, PlanPlaces, Outside, Later
<1>3. CASE ToolsReturn
  <2>1. /\ pc = "tools" /\ chats' = chats
        /\ \/ step + 1 < cfg.max /\ pc' = "summary" /\ step' = step
           \/ step' = step + 1 /\ step + 1 < cfg.max /\ pc' = "chat"
           \/ step' = step + 1 /\ ~(step + 1 < cfg.max) /\ pc' = "final"
    BY <1>3, NextStepGoes DEF ToolsReturn
  <2> QED BY <1>0, <1>a, <1>b, <2>1 DEF Counts, ReActCounts, PlanCounts, OtherCounts, ChatsBounded,
                                        Places, ReActPlaces, PlanPlaces, Outside, Later
<1>4. CASE SummaryReplies \/ SummaryFails
  <2>1. /\ pc = "summary" /\ chats' \in {chats, chats + 1} /\ step' = step + 1
        /\ step + 1 < cfg.max => pc' = "chat"
    BY <1>4, NextStepGoes DEF SummaryReplies, SummaryFails, GivesUp
  <2> QED BY <1>0, <1>a, <1>b, <2>1 DEF Counts, ReActCounts, PlanCounts, OtherCounts, ChatsBounded,
                                        Places, ReActPlaces, PlanPlaces, Outside, Later
<1>5. CASE CoerceReplies \/ CoerceFails
  <2>1. /\ chats' \in {chats, chats + 1} /\ step' = step
        /\ \/ pc = "coerce1" /\ pc' \in {"ended", "coerce2"}
           \/ pc = "coerce2" /\ pc' \in {"ended", "coerce3"}
           \/ pc = "coerce3" /\ pc' = "ended"
    <3>1. Coercing => pc \in {"coerce1", "coerce2", "coerce3"}
      BY DEF Coercing, After
    <3>2. After["coerce1"] = "coerce2" /\ After["coerce2"] = "coerce3" /\ After["coerce3"] = "ended"
      BY DEF After
    <3>3. /\ Coercing /\ chats' \in {chats, chats + 1} /\ step' = step /\ pc' \in {"ended", After[pc]}
      BY <1>5 DEF CoerceReplies, CoerceFails, Hears, GivesUp, NextPrompt
    <3> QED BY <3>1, <3>2, <3>3
  <2> QED BY <1>0, <1>a, <1>b, <2>1 DEF Counts, ReActCounts, PlanCounts, OtherCounts, ChatsBounded,
                                        Places, ReActPlaces, PlanPlaces, Outside, Later
<1>6. CASE FinalReplies \/ FinalFails
  <2>1. pc = "final" /\ chats' \in {chats, chats + 1} /\ step' = step /\ pc' = "ended"
    BY <1>6 DEF FinalReplies, FinalFails, Hears, GivesUp
  <2> QED BY <1>0, <1>a, <1>b, <2>1 DEF Counts, ReActCounts, PlanCounts, OtherCounts, ChatsBounded,
                                        Places, ReActPlaces, PlanPlaces, Outside, Later
<1> QED BY <1>a, <1>1, <1>2, <1>3, <1>4, <1>5, <1>6 DEF ReActStep, Counts, Places, ReActPlaces, PlanPlaces, Outside, Later

LEMMA ThoughtKeeps ==
  ASSUME TypeOK, Counts,
         \/ PlanReplies \/ ExecReplies \/ ExecToolsReturn \/ ExecToolRaises
         \/ PlanFinalReplies \/ PlanFinalFails \/ DecomposeReplies \/ SubAnswerReplies
         \/ BranchReplies \/ VoteReplies \/ ComposeReplies \/ Raises(Waiting)
  PROVE  Counts' /\ cfg' = cfg /\ pc' # "idle"
<1>0. /\ cfg.max \in Nat /\ cfg.branches \in Nat /\ cfg.inner \in Nat \ {0}
      /\ step \in Nat /\ chats \in Nat /\ inner \in Nat
      /\ Is("plan_execute") => ChatBound = 2 + cfg.max * cfg.inner
      /\ Is("self_ask") => ChatBound = 2 * cfg.max + 1
      /\ Is("tree_of_thought") => ChatBound = cfg.branches + 2
  BY CfgType, Bounds DEF TypeOK, Is
<1>a. cfg' = cfg
  BY DEF PlanReplies, ExecReplies, ExecToolsReturn, ExecToolRaises, PlanFinalReplies, PlanFinalFails,
         DecomposeReplies, SubAnswerReplies, BranchReplies, VoteReplies, ComposeReplies, Raises, Hears, GivesUp
<1>b. /\ ChatBound' = ChatBound /\ (Reacting' <=> Reacting) /\ (Is("plan_execute")' <=> Is("plan_execute"))
      /\ (Is("self_ask")' <=> Is("self_ask")) /\ (Is("tree_of_thought")' <=> Is("tree_of_thought"))
  BY <1>a, CountsFrame DEF Is
(* The calls of the plan steps before this one, and of all of them.          *)
<1>c. PICK spent \in Nat, all \in Nat :
         /\ spent = step * cfg.inner /\ all = cfg.max * cfg.inner
         /\ step < cfg.max => spent + cfg.inner <= all /\ (step + 1) * cfg.inner = spent + cfg.inner
  <2>1. cfg.inner \in Nat
    BY <1>0
  <2>2. step * cfg.inner \in Nat /\ cfg.max * cfg.inner \in Nat
    BY <1>0, <2>1
  <2>3. step < cfg.max => /\ step * cfg.inner + cfg.inner <= cfg.max * cfg.inner
                          /\ (step + 1) * cfg.inner = step * cfg.inner + cfg.inner
    BY <1>0, <2>1, Product
  <2> QED BY <2>2, <2>3
<1>p. ASSUME NEW h, PlanEnds(h)
      PROVE  pc' \in {"planfinal", "ended"}
  BY <1>p DEF PlanEnds, Continues
<1>q. ASSUME NEW h, PlanStepEnds(h)
      PROVE  /\ inner' = 0
             /\ \/ pc' \in {"planfinal", "ended"} /\ step' = step
                \/ pc' = "exec" /\ step' = step + 1 /\ step + 1 < cfg.max
  <2>1. PICK done \in BOOLEAN :
           IF done \/ step + 1 >= cfg.max THEN PlanEnds(h) /\ UNCHANGED step
           ELSE step' = step + 1 /\ Continues("exec", Append(h, Prompt))
    BY <1>q DEF PlanStepEnds
  <2>2. inner' = 0
    BY <1>q DEF PlanStepEnds
  <2>3. CASE done \/ step + 1 >= cfg.max
    BY <2>1, <2>2, <2>3, <1>p
  <2>4. CASE ~(done \/ step + 1 >= cfg.max)
    BY <1>0, <2>1, <2>2, <2>4 DEF Continues
  <2> QED BY <2>3, <2>4
<1>1. CASE PlanReplies
  <2>1. /\ pc = "plan" /\ chats' = chats + 1 /\ step' = step /\ inner' = inner
        /\ IF cfg.max > 0 THEN pc' = "exec" ELSE pc' \in {"planfinal", "ended"}
    BY <1>1, <1>p DEF PlanReplies, Hears, Continues
  <2>2. /\ chats = 0 /\ step' = 0 /\ inner' = 0 /\ Is("plan_execute") /\ ReActCounts /\ OtherCounts
        /\ step' * cfg'.inner = 0 /\ 0 < cfg.inner /\ 0 <= all
    BY <1>0, <1>a, <1>c, <2>1 DEF Counts, PlanCounts, PlanPlaces
  <2>3. pc' = "exec" => step' < cfg'.max /\ inner' < cfg'.inner
    BY <1>a, <1>0, <2>1, <2>2
  <2>4. pc' \in {"exec", "planfinal", "ended"} /\ chats' = 1
    BY <2>1, <2>2
  <2>5. PlanCounts'
    BY <1>0, <1>a, <1>b, <1>c, <2>2, <2>3, <2>4 DEF PlanCounts, PlanPlaces
  <2>6. ChatsBounded'
    BY <1>0, <1>b, <1>c, <2>2, <2>4 DEF ChatsBounded
  <2>7. ReActCounts' /\ OtherCounts'
    BY <2>4 DEF ReActCounts, OtherCounts, ReActPlaces, Outside
  <2> QED BY <1>a, <2>4, <2>5, <2>6, <2>7 DEF Counts, Places, PlanPlaces, Later
<1>2. CASE ExecReplies
  <2>1. /\ pc = "exec" /\ chats' = chats + 1
        /\ \/ pc' = "exectools" /\ step' = step /\ inner' = inner
           \/ inner' = 0 /\ pc' \in {"planfinal", "ended"} /\ step' = step
           \/ inner' = 0 /\ pc' = "exec" /\ step' = step + 1 /\ step + 1 < cfg.max
    BY <1>2, <1>q DEF ExecReplies, Hears, Continues
  <2> QED BY <1>0, <1>a, <1>b, <1>c, <2>1
             DEF Counts, ReActCounts, PlanCounts, OtherCounts, ChatsBounded, Places, ReActPlaces, PlanPlaces, Outside, Later
<1>3. CASE ExecToolsReturn
  <2>1. /\ pc = "exectools" /\ chats' = chats
        /\ \/ pc' = "exec" /\ step' = step /\ inner' = inner + 1 /\ inner + 1 < cfg.inner
           \/ inner' = 0 /\ pc' \in {"planfinal", "ended"} /\ step' = step
           \/ inner' = 0 /\ pc' = "exec" /\ step' = step + 1 /\ step + 1 < cfg.max
    BY <1>3, <1>q DEF ExecToolsReturn, Continues
  <2> QED BY <1>0, <1>a, <1>b, <1>c, <2>1
             DEF Counts, ReActCounts, PlanCounts, OtherCounts, ChatsBounded, Places, ReActPlaces, PlanPlaces, Outside, Later
<1>4. CASE ExecToolRaises \/ Raises(Waiting)
  <2>1. chats' = chats /\ pc' = "raised"
    BY <1>4 DEF ExecToolRaises, Raises, GivesUp
  <2> QED BY <1>0, <1>a, <1>b, <2>1
             DEF Counts, ReActCounts, PlanCounts, OtherCounts, ChatsBounded, Places, ReActPlaces, PlanPlaces, Outside, Later
<1>5. CASE PlanFinalReplies \/ PlanFinalFails
  <2>1. pc = "planfinal" /\ chats' \in {chats, chats + 1} /\ pc' = "ended"
    BY <1>5 DEF PlanFinalReplies, PlanFinalFails, Hears, GivesUp
  <2> QED BY <1>0, <1>a, <1>b, <1>c, <2>1
             DEF Counts, ReActCounts, PlanCounts, OtherCounts, ChatsBounded, Places, ReActPlaces, PlanPlaces, Outside, Later
<1>6. CASE DecomposeReplies
  <2>1. pc = "decompose" /\ chats' = chats + 1 /\ step' = step /\ pc' \in {"subanswer", "compose"}
    BY <1>6 DEF DecomposeReplies, Hears, Composes, Continues
  <2> QED BY <1>0, <1>a, <1>b, <2>1
             DEF Counts, ReActCounts, PlanCounts, OtherCounts, ChatsBounded, Places, ReActPlaces, PlanPlaces, Outside, Later
<1>7. CASE SubAnswerReplies
  <2>1. /\ pc = "subanswer" /\ chats' = chats + 1 /\ step' = step + 1
        /\ IF step + 1 < cfg.max THEN pc' = "decompose" ELSE pc' = "compose"
    BY <1>7 DEF SubAnswerReplies, Hears, Composes, Continues
  <2> QED BY <1>0, <1>a, <1>b, <2>1
             DEF Counts, ReActCounts, PlanCounts, OtherCounts, ChatsBounded, Places, ReActPlaces, PlanPlaces, Outside, Later
<1>8. CASE BranchReplies
  <2>1. /\ pc = "branch" /\ chats' = chats + 1 /\ inner' = inner + 1
        /\ IF inner + 1 < cfg.branches THEN pc' = "branch" ELSE pc' \in {"vote", "compose"}
    BY <1>8 DEF BranchReplies, Hears, Composes, Continues
  <2> QED BY <1>0, <1>a, <1>b, <2>1
             DEF Counts, ReActCounts, PlanCounts, OtherCounts, ChatsBounded, Places, ReActPlaces, PlanPlaces, Outside, Later
<1>9. CASE VoteReplies
  <2>1. pc = "vote" /\ chats' = chats + 1 /\ pc' = "compose"
    BY <1>9 DEF VoteReplies, Hears, Composes, Continues
  <2> QED BY <1>0, <1>a, <1>b, <2>1
             DEF Counts, ReActCounts, PlanCounts, OtherCounts, ChatsBounded, Places, ReActPlaces, PlanPlaces, Outside, Later
<1>10. CASE ComposeReplies
  <2>1. pc = "compose" /\ chats' = chats + 1 /\ pc' = "ended"
    BY <1>10 DEF ComposeReplies, Hears, Continues
  <2> QED BY <1>0, <1>a, <1>b, <2>1
             DEF Counts, ReActCounts, PlanCounts, OtherCounts, ChatsBounded, Places, ReActPlaces, PlanPlaces, Outside, Later
<1> QED BY <1>a, <1>1, <1>2, <1>3, <1>4, <1>5, <1>6, <1>7, <1>8, <1>9, <1>10
           DEF Counts, Places, ReActPlaces, PlanPlaces, Outside, Later

LEMMA StrategyKeeps ==
  ASSUME TypeOK, Counts, StrategyStep
  PROVE  Counts' /\ cfg' = cfg /\ pc' # "idle"
<1>1. CASE Requesting /\ Blip /\ UNCHANGED inner
  <2>1. UNCHANGED <<cfg, pc, step, chats, inner>> /\ pc # "idle"
    BY <1>1 DEF Blip, Requesting, Asking, Coercing, Waiting, After
  <2>2. ChatBound' = ChatBound /\ (Reacting' <=> Reacting)
    BY <2>1, CountsFrame
  <2> QED BY <2>1, <2>2 DEF Counts, ReActCounts, PlanCounts, OtherCounts, ChatsBounded, Places, Is
<1>2. CASE ReActStep /\ UNCHANGED inner
  BY <1>2, ReActKeeps
<1> QED BY <1>1, <1>2, ThoughtKeeps DEF StrategyStep

(* The runner makes no call; a round starts from none.                       *)
LEMMA RunnerKeeps ==
  ASSUME TypeOK, Counts, RunnerStep \/ HookHangs
  PROVE  Counts'
<1>0. /\ cfg.max \in Nat /\ cfg.branches \in Nat /\ cfg.inner \in Nat \ {0} /\ chats \in Nat
      /\ 0 <= ChatBound
  <2>1. cfg.max \in Nat /\ cfg.branches \in Nat /\ cfg.inner \in Nat \ {0} /\ chats \in Nat
    BY CfgType DEF TypeOK
  <2>2. 0 <= cfg.max * cfg.inner
    BY <2>1
  <2> QED BY <2>1, <2>2, Bounds DEF Reacting
<1>1. cfg' = cfg
  BY DEF RunnerStep, HookHangs, Spawn, PreHookEnds, PostHookEnds, PrepareRaises, Prepare, StrategyBegins,
         StrategyRaised, RecordUsage, Close, StoreRaises, Grade, JudgeRaises, NoGrading, At
<1>2. ChatBound' = ChatBound /\ (Reacting' <=> Reacting)
  BY <1>1, CountsFrame
<1>3. CASE Prepare
  <2>1. /\ pc = "prompt" /\ CanDispatch /\ pc' = FirstChat /\ step' = 0 /\ inner' = 0 /\ chats' = chats
    BY <1>3 DEF Prepare, StrategyBegins
  <2>2. chats = 0
    BY <2>1 DEF Counts, OtherCounts, Outside
  <2>3. CASE Reacting
    <3>1. IF cfg.max > 0 THEN pc' = "chat" ELSE pc' = "final"
      BY <2>1, <2>3, FirstChats
    <3> QED BY <1>0, <1>1, <1>2, <2>1, <2>2, <2>3, <3>1
               DEF Counts, ReActCounts, PlanCounts, OtherCounts, ChatsBounded, Places, ReActPlaces, PlanPlaces, Outside
  <2>4. CASE Is("plan_execute")
    BY <1>0, <1>1, <1>2, <2>1, <2>2, <2>4, FirstChats
       DEF Is, Counts, ReActCounts, PlanCounts, OtherCounts, ChatsBounded, Places, ReActPlaces, PlanPlaces, Outside
  <2>5. CASE Is("self_ask")
    <3>1. pc' = "decompose" /\ cfg.max >= 1
      BY <2>1, <2>5, FirstChats DEF Is, CanDispatch
    <3> QED BY <1>0, <1>1, <1>2, <2>1, <2>2, <2>5, <3>1
               DEF Is, Counts, ReActCounts, PlanCounts, OtherCounts, ChatsBounded, Places, ReActPlaces, PlanPlaces, Outside
  <2>6. CASE Is("tree_of_thought")
    <3>1. pc' = "branch" /\ cfg.branches >= 2
      BY <2>1, <2>6, FirstChats DEF Is, CanDispatch
    <3> QED BY <1>0, <1>1, <1>2, <2>1, <2>2, <2>6, <3>1
               DEF Is, Counts, ReActCounts, PlanCounts, OtherCounts, ChatsBounded, Places, ReActPlaces, PlanPlaces, Outside
  <2>7. CASE Is("chain_of_thought")
    <3>1. pc' = "compose" /\ ChatBound = 1
      BY <2>1, <2>7, FirstChats, Bounds DEF Is
    <3> QED BY <1>0, <1>1, <1>2, <2>1, <2>2, <2>7, <3>1
               DEF Is, Counts, ReActCounts, PlanCounts, OtherCounts, ChatsBounded, Places, ReActPlaces, PlanPlaces, Outside
  <2> QED BY <2>3, <2>4, <2>5, <2>6, <2>7 DEF Reacting, Is
<1>4. CASE Spawn \/ PreHookEnds \/ PrepareRaises
  <2>1. chats' = chats /\ pc \in Outside /\ pc' \in {"prehook", "prompt", "crashed"}
    BY <1>4 DEF Spawn, PreHookEnds, PrepareRaises, At, Keeping, Outside
  <2> QED BY <1>0, <1>2, <2>1 DEF Counts, ReActCounts, PlanCounts, OtherCounts, ChatsBounded, Places, ReActPlaces,
                                  PlanPlaces, Outside, Later
<1>5. CASE Grade
  <2>1. chats' = 0 /\ pc' \in {"over", "idle"}
    BY <1>5 DEF Grade
  <2> QED BY <1>0, <1>2, <2>1 DEF Counts, ReActCounts, PlanCounts, OtherCounts, ChatsBounded, Places, ReActPlaces,
                                  PlanPlaces, Outside, Later
<1>6. CASE PostHookEnds \/ StrategyRaised \/ RecordUsage \/ Close \/ StoreRaises \/ JudgeRaises \/ NoGrading \/ HookHangs
  <2>1. chats' = chats /\ pc' \in Later
    BY <1>6 DEF PostHookEnds, StrategyRaised, RecordUsage, Close, StoreRaises, JudgeRaises, NoGrading, HookHangs,
                Fails, Keeping, Later
  <2> QED BY <1>0, <1>2, <2>1 DEF Counts, ReActCounts, PlanCounts, OtherCounts, ChatsBounded, Places, ReActPlaces,
                                  PlanPlaces, Outside, Later
<1> QED BY <1>3, <1>4, <1>5, <1>6 DEF RunnerStep

---------------------------------------------------------------------------
(* Only Grade changes which critique there is.                               *)
LEMMA CritiqueStep ==
  ASSUME TypeOK, Counts, CritiqueIsFresh, [Next]_vars
  PROVE  CritiqueIsFresh'
<1>0. /\ cfg.rounds \in Nat \ {0} /\ round \in 1..cfg.rounds
      /\ \A n \in Nat : <<"hook">> # <<"critique", n>> /\ <<"memory">> # <<"critique", n>>
                        /\ <<"given">> # <<"critique", n>>
  BY CfgType DEF TypeOK
<1>h. <<"hook">> \notin CritiquesOf(cfg.rounds) /\ <<"memory">> \notin CritiquesOf(cfg.rounds)
      /\ <<"given">> \notin CritiquesOf(cfg.rounds)
  BY <1>0 DEF CritiquesOf
<1>1. CASE StrategyStep /\ UNCHANGED runner
  <2>1. cfg' = cfg /\ pc' # "idle" /\ UNCHANGED <<round, context>>
    BY <1>1, StrategyKeeps DEF runner
  <2> QED BY <2>1 DEF CritiqueIsFresh, CritiquesOf
<1>2. CASE Grade
  <2>1. cfg' = cfg
    BY <1>2 DEF Grade, At
  <2>2. CASE UNCHANGED <<round, context>> /\ pc' = "over"
    BY <2>1, <2>2 DEF CritiqueIsFresh, CritiquesOf
  <2>3. CASE round # cfg.rounds /\ round' = round + 1 /\ context' = {<<"given">>, <<"critique", round>>}
    <3>1. round' - 1 = round
      BY <1>0, <2>3
    <3>2. context' \cap CritiquesOf(cfg.rounds) = {<<"critique", round>>}
      <4>1. <<"critique", round>> \in CritiquesOf(cfg.rounds)
        BY <1>0 DEF CritiquesOf
      <4> QED BY <4>1, <1>h, <2>3
    <3>3. <<"hook">> \notin context' /\ <<"memory">> \notin context'
      BY <1>0, <2>3
    <3> QED BY <2>1, <3>1, <3>2, <3>3 DEF CritiqueIsFresh, CritiquesOf
  <2> QED BY <1>2, <2>2, <2>3 DEF Grade
<1>3. CASE PreHookEnds \/ Prepare
  <2>1. /\ cfg' = cfg /\ round' = round /\ pc' # "idle"
        /\ context' \in {context, context \cup {<<"hook">>}, context \cup {<<"memory">>}}
    <3>1. CASE PreHookEnds
      BY <3>1 DEF PreHookEnds, At
    <3>2. CASE Prepare
      BY <3>2, FirstChats DEF Prepare, StrategyBegins, Reacting
    <3> QED BY <1>3, <3>1, <3>2
  <2>2. context' \cap CritiquesOf(cfg.rounds) = context \cap CritiquesOf(cfg.rounds)
    BY <1>h, <2>1
  <2> QED BY <2>1, <2>2 DEF CritiqueIsFresh, CritiquesOf
<1>4. CASE Spawn \/ PostHookEnds \/ PrepareRaises \/ StrategyRaised \/ RecordUsage \/ Close \/ StoreRaises
           \/ JudgeRaises \/ NoGrading \/ HookHangs
  <2>1. cfg' = cfg /\ UNCHANGED <<round, context>> /\ pc' # "idle"
    BY <1>4 DEF Spawn, PostHookEnds, PrepareRaises, StrategyRaised, RecordUsage, Close, StoreRaises, JudgeRaises,
                NoGrading, HookHangs, At, Fails, runner
  <2> QED BY <2>1 DEF CritiqueIsFresh, CritiquesOf
<1>5. CASE UNCHANGED vars
  BY <1>5 DEF vars, thought, loop, runner, CritiqueIsFresh, CritiquesOf
<1> QED BY <1>1, <1>2, <1>3, <1>4, <1>5 DEF Next, RunnerStep, Done

---------------------------------------------------------------------------
RunInv == TypeOK /\ Counts /\ CritiqueIsFresh

LEMMA RunInit == Init => RunInv
<1> SUFFICES ASSUME Init PROVE RunInv
  OBVIOUS
<1>1. /\ cfg \in Configs /\ cfg.max \in Nat /\ cfg.branches \in Nat /\ cfg.inner \in Nat \ {0}
      /\ cfg.rounds \in Nat \ {0}
  BY ConfigsAssumption DEF Init
<1>2. TypeOK
  BY <1>1 DEF Init, TypeOK, MaxTries
<1>3. 0 <= ChatBound
  <2>1. 0 <= cfg.max * cfg.inner
    BY <1>1
  <2> QED BY <1>1, <2>1, Bounds DEF Reacting
<1>4. Counts
  BY <1>3 DEF Init, Counts, ReActCounts, PlanCounts, OtherCounts, ChatsBounded, Places, ReActPlaces, PlanPlaces, Outside, Later
<1>5. CritiqueIsFresh
  BY DEF Init, CritiqueIsFresh
<1> QED BY <1>2, <1>4, <1>5 DEF RunInv

LEMMA RunStep == RunInv /\ [Next]_vars => RunInv'
<1> SUFFICES ASSUME RunInv, [Next]_vars PROVE RunInv'
  OBVIOUS
<1>1. TypeOK'
  BY TypeStep DEF RunInv
<1>2. CritiqueIsFresh'
  BY CritiqueStep DEF RunInv
<1>3. Counts'
  <2>1. CASE RunnerStep \/ HookHangs
    BY <2>1, RunnerKeeps DEF RunInv
  <2>2. CASE StrategyStep /\ UNCHANGED runner
    BY <2>2, StrategyKeeps DEF RunInv
  <2>3. CASE UNCHANGED vars
    <3>1. UNCHANGED <<cfg, pc, step, chats, inner>>
      BY <2>3 DEF vars, thought, loop
    <3>2. ChatBound' = ChatBound /\ (Reacting' <=> Reacting)
      BY <3>1, CountsFrame
    <3> QED BY <3>1, <3>2 DEF RunInv, Counts, ReActCounts, PlanCounts, OtherCounts, ChatsBounded, Places, Is
  <2> QED BY <2>1, <2>2, <2>3 DEF Next, Done
<1> QED BY <1>1, <1>2, <1>3 DEF RunInv

(* Types and ranges of a run, for any agents and responses.                  *)
THEOREM TypeCorrect == Spec => []TypeOK
<1>1. RunInv => TypeOK
  BY DEF RunInv
<1> QED BY <1>1, RunInit, RunStep, PTL DEF Spec

(* No strategy makes more model calls than its settings say, whatever the    *)
(* model answers, the API fails with, and the history is compacted to.       *)
THEOREM CallsOfModelBounded == Spec => []ChatsBounded
<1>1. RunInv => ChatsBounded
  BY DEF RunInv, Counts
<1> QED BY <1>1, RunInit, RunStep, PTL DEF Spec

(* A round of reflexion has the critique of the round before it only.        *)
THEOREM CritiqueOfLastRound == Spec => []CritiqueIsFresh
<1>1. RunInv => CritiqueIsFresh
  BY DEF RunInv
<1> QED BY <1>1, RunInit, RunStep, PTL DEF Spec

-----------------------------------------------------------------------------
IsSeq(h) == \E S : h \in Seq(S)

(* Calls and answers side by side.                                           *)
Paired(h) ==
    \A i \in 1..Len(h) :
        /\ h[i].calls # {} => i < Len(h) /\ h[i+1].answers = h[i].calls
        /\ h[i].answers # {} => i > 1 /\ h[i-1].calls = h[i].answers

(* Counted from the end, every second message answers nothing: where the     *)
(* compactor cuts, a round begins.                                           *)
InRounds(h) == \A k \in Nat : 2 * k + 1 < Len(h) => h[Len(h) - 2 * k - 1].answers = {}

Plain(m) == m.calls = {} /\ m.answers = {}

---------------------------------------------------------------------------
(* Sequences.                                                                *)
LEMMA Appended ==
  ASSUME NEW h, IsSeq(h), NEW m
  PROVE  /\ IsSeq(Append(h, m)) /\ Len(h) \in Nat
         /\ Len(Append(h, m)) = Len(h) + 1
         /\ \A i \in 1..Len(h) : Append(h, m)[i] = h[i]
         /\ Append(h, m)[Len(h) + 1] = m
<1>1. PICK S : h \in Seq(S)
  BY DEF IsSeq
<1>2. h \in Seq(S \cup {m}) /\ m \in S \cup {m}
  BY <1>1, SeqMonotonic
<1> QED BY <1>2, AppendProperties, LenProperties DEF IsSeq

LEMMA Fronted ==
  ASSUME NEW h, IsSeq(h), Len(h) > 0
  PROVE  /\ IsSeq(Front(h)) /\ Len(h) \in Nat
         /\ Len(Front(h)) = Len(h) - 1
         /\ \A i \in 1..(Len(h) - 1) : Front(h)[i] = h[i]
<1>1. PICK S : h \in Seq(S)
  BY DEF IsSeq
<1>2. Len(h) \in Nat /\ \A i \in 1..(Len(h) - 1) : h[i] \in S
  BY <1>1, LenProperties, ElementOfSeq
<1>3. PICK n \in Nat : Len(h) = n + 1
  <2>1. Len(h) - 1 \in Nat /\ Len(h) = (Len(h) - 1) + 1
    BY <1>2
  <2> QED BY <2>1
<1>4. Len(h) - 1 = n
  BY <1>3
<1>5. Front(h) = SubSeq(h, 1, n)
  BY <1>4 DEF Front
<1>6. \A i \in 1..n : h[i] \in S
  BY <1>2, <1>4
<1>7. /\ SubSeq(h, 1, n) \in Seq(S)
      /\ Len(SubSeq(h, 1, n)) = IF 1 <= n THEN n - 1 + 1 ELSE 0
      /\ \A i \in 1..(n - 1 + 1) : SubSeq(h, 1, n)[i] = h[1 + i - 1]
  BY <1>6, SubSeqProperties
<1>8. n - 1 + 1 = n /\ \A i \in 1..n : 1 + i - 1 = i
  OBVIOUS
<1>9. \A i \in 1..n : SubSeq(h, 1, n)[i] = h[i]
  BY <1>7, <1>8
<1>10. Len(SubSeq(h, 1, n)) = n
  BY <1>7, <1>8
<1> QED BY <1>2, <1>4, <1>5, <1>7, <1>9, <1>10 DEF IsSeq

LEMMA TwoAppended ==
  ASSUME NEW h, IsSeq(h), NEW a, NEW b
  PROVE  h \o <<a, b>> = Append(Append(h, a), b)
<1>1. PICK S : h \in Seq(S)
  BY DEF IsSeq
<1> DEFINE T == S \cup {a, b}
<1>2. h \in Seq(T) /\ a \in T /\ b \in T /\ <<a>> \in Seq(T) /\ <<b>> \in Seq(T)
  BY <1>1, SeqMonotonic
<1>3. Append(h, a) = h \o <<a>> /\ h \o <<a>> \in Seq(T)
  BY <1>2, AppendIsConcat, ConcatProperties
<1>4. Append(Append(h, a), b) = (h \o <<a>>) \o <<b>>
  BY <1>2, <1>3, AppendIsConcat
<1>5. (h \o <<a>>) \o <<b>> = h \o (<<a>> \o <<b>>)
  BY <1>2, ConcatAssociative
<1>6. <<a>> \o <<b>> = <<a, b>>
  <2>1. /\ <<a>> \o <<b>> \in Seq(T) /\ Len(<<a>> \o <<b>>) = Len(<<a>>) + Len(<<b>>)
        /\ \A i \in 1..(Len(<<a>>) + Len(<<b>>)) :
              (<<a>> \o <<b>>)[i] = IF i <= Len(<<a>>) THEN <<a>>[i] ELSE <<b>>[i - Len(<<a>>)]
    BY <1>2, ConcatProperties
  <2>2. <<a, b>> \in Seq(T) /\ Len(<<a, b>>) = 2 /\ Len(<<a>>) = 1 /\ Len(<<b>>) = 1
    OBVIOUS
  <2>3. <<a>>[1] = a /\ <<b>>[1] = b /\ <<a, b>>[1] = a /\ <<a, b>>[2] = b
    OBVIOUS
  <2>4. \A i \in 1..2 : (<<a>> \o <<b>>)[i] = <<a, b>>[i]
    <3>1. (<<a>> \o <<b>>)[1] = a
      BY <2>1, <2>2, <2>3
    <3>2. (<<a>> \o <<b>>)[2] = b
      BY <2>1, <2>2, <2>3
    <3> QED BY <2>3, <3>1, <3>2
  <2>5. Len(<<a>> \o <<b>>) = 2
    BY <2>1, <2>2
  <2> HIDE DEF T
  <2> QED BY <2>1, <2>2, <2>4, <2>5, SeqEqual
<1> QED BY <1>4, <1>5, <1>6

---------------------------------------------------------------------------
(* What an append does to the pairs.                                         *)
LEMMA PlainKeeps ==
  ASSUME NEW h, IsSeq(h), Paired(h), NEW m, Plain(m)
  PROVE  Paired(Append(h, m))
<1> DEFINE g == Append(h, m)
<1>1. /\ Len(h) \in Nat /\ Len(g) = Len(h) + 1 /\ g[Len(h) + 1] = m
      /\ \A i \in 1..Len(h) : g[i] = h[i]
  BY Appended
<1> HIDE DEF g
<1> SUFFICES ASSUME NEW i \in 1..Len(g)
             PROVE  /\ g[i].calls # {} => i < Len(g) /\ g[i+1].answers = g[i].calls
                    /\ g[i].answers # {} => i > 1 /\ g[i-1].calls = g[i].answers
  BY DEF Paired, g
<1>2. CASE i = Len(h) + 1
  BY <1>1, <1>2 DEF Plain
<1>3. CASE i \in 1..Len(h)
  <2>1. /\ g[i] = h[i] /\ i < Len(g)
        /\ h[i].calls # {} => i < Len(h) /\ h[i+1].answers = h[i].calls
        /\ h[i].answers # {} => i > 1 /\ h[i-1].calls = h[i].answers
    BY <1>1, <1>3 DEF Paired
  <2>2. i < Len(h) => g[i+1] = h[i+1]
    BY <1>1, <1>3
  <2>3. i > 1 => g[i-1] = h[i-1]
    BY <1>1, <1>3
  <2> QED BY <2>1, <2>2, <2>3
<1> QED BY <1>1, <1>2, <1>3

LEMMA RoundKeeps ==
  ASSUME NEW h, IsSeq(h), Paired(h), NEW a, NEW b,
         a.answers = {}, b.calls = {}, b.answers = a.calls
  PROVE  Paired(Append(Append(h, a), b))
<1> DEFINE g == Append(Append(h, a), b)
<1>1. /\ Len(h) \in Nat /\ IsSeq(Append(h, a)) /\ Len(Append(h, a)) = Len(h) + 1
      /\ Append(h, a)[Len(h) + 1] = a /\ \A i \in 1..Len(h) : Append(h, a)[i] = h[i]
  BY Appended
<1>2. /\ Len(g) = Len(h) + 1 + 1 /\ g[Len(h) + 1 + 1] = b
      /\ \A i \in 1..(Len(h) + 1) : g[i] = Append(h, a)[i]
  BY <1>1, Appended
<1> HIDE DEF g
<1>3. /\ Len(g) = Len(h) + 2 /\ g[Len(h) + 2] = b /\ g[Len(h) + 1] = a
      /\ \A i \in 1..Len(h) : g[i] = h[i]
  BY <1>1, <1>2
<1> SUFFICES ASSUME NEW i \in 1..Len(g)
             PROVE  /\ g[i].calls # {} => i < Len(g) /\ g[i+1].answers = g[i].calls
                    /\ g[i].answers # {} => i > 1 /\ g[i-1].calls = g[i].answers
  BY DEF Paired, g
<1>4. CASE i = Len(h) + 2
  <2>1. i - 1 = Len(h) + 1
    BY <1>1, <1>4
  <2> QED BY <1>1, <1>3, <1>4, <2>1
<1>5. CASE i = Len(h) + 1
  <2>1. i + 1 = Len(h) + 2
    BY <1>1, <1>5
  <2> QED BY <1>1, <1>3, <1>5, <2>1
<1>6. CASE i \in 1..Len(h)
  <2>1. /\ g[i] = h[i] /\ i < Len(g)
        /\ h[i].calls # {} => i < Len(h) /\ h[i+1].answers = h[i].calls
        /\ h[i].answers # {} => i > 1 /\ h[i-1].calls = h[i].answers
    BY <1>1, <1>3, <1>6 DEF Paired
  <2>2. i < Len(h) => g[i+1] = h[i+1]
    BY <1>1, <1>3, <1>6
  <2>3. i > 1 => g[i-1] = h[i-1]
    BY <1>1, <1>3, <1>6
  <2> QED BY <2>1, <2>2, <2>3
<1> QED BY <1>1, <1>3, <1>4, <1>5, <1>6

LEMMA RoundInRounds ==
  ASSUME NEW h, IsSeq(h), InRounds(h), NEW a, NEW b, a.answers = {}
  PROVE  InRounds(Append(Append(h, a), b))
<1> DEFINE g == Append(Append(h, a), b)
<1>1. /\ Len(h) \in Nat /\ IsSeq(Append(h, a)) /\ Len(Append(h, a)) = Len(h) + 1
      /\ Append(h, a)[Len(h) + 1] = a /\ \A i \in 1..Len(h) : Append(h, a)[i] = h[i]
  BY Appended
<1>2. /\ Len(g) = Len(h) + 1 + 1
      /\ \A i \in 1..(Len(h) + 1) : g[i] = Append(h, a)[i]
  BY <1>1, Appended
<1> HIDE DEF g
<1>3. Len(g) = Len(h) + 2 /\ g[Len(h) + 1] = a /\ \A i \in 1..Len(h) : g[i] = h[i]
  BY <1>1, <1>2
<1> SUFFICES ASSUME NEW k \in Nat, 2 * k + 1 < Len(g)
             PROVE  g[Len(g) - 2 * k - 1].answers = {}
  BY DEF InRounds, g
<1>4. CASE k = 0
  BY <1>1, <1>3, <1>4
<1>5. CASE k > 0
  <2>1. PICK j \in Nat : k = j + 1
    <3>1. k - 1 \in Nat /\ k = (k - 1) + 1
      BY <1>5
    <3> QED BY <3>1
  <2>2. /\ 2 * j + 1 < Len(h) /\ Len(g) - 2 * k - 1 = Len(h) - 2 * j - 1
        /\ Len(h) - 2 * j - 1 \in 1..Len(h)
    BY <1>1, <1>3, <2>1
  <2> QED BY <1>3, <2>2 DEF InRounds
<1> QED BY <1>4, <1>5

LEMMA FrontKeeps ==
  ASSUME NEW h, IsSeq(h), Paired(h), Len(h) > 0, Plain(h[Len(h)])
  PROVE  Paired(Front(h))
<1> DEFINE g == Front(h)
<1>1. /\ Len(h) \in Nat /\ Len(g) = Len(h) - 1
      /\ \A i \in 1..(Len(h) - 1) : g[i] = h[i]
  BY Fronted
<1> HIDE DEF g
<1> SUFFICES ASSUME NEW i \in 1..Len(g)
             PROVE  /\ g[i].calls # {} => i < Len(g) /\ g[i+1].answers = g[i].calls
                    /\ g[i].answers # {} => i > 1 /\ g[i-1].calls = g[i].answers
  BY DEF Paired, g
<1>2. /\ g[i] = h[i] /\ i \in 1..Len(h) /\ i < Len(h)
      /\ h[i].calls # {} => i < Len(h) /\ h[i+1].answers = h[i].calls
      /\ h[i].answers # {} => i > 1 /\ h[i-1].calls = h[i].answers
  BY <1>1 DEF Paired
<1>3. i + 1 = Len(h) => h[i].calls = {}
  BY <1>2 DEF Plain
<1>4. i + 1 # Len(h) => i < Len(g) /\ g[i+1] = h[i+1]
  BY <1>1, <1>2
<1>5. i > 1 => g[i-1] = h[i-1]
  BY <1>1, <1>2
<1> QED BY <1>2, <1>3, <1>4, <1>5

---------------------------------------------------------------------------
(* Compaction: one message, then the last rounds as they are.                *)
LEMMA Digested ==
  ASSUME NEW h, IsSeq(h), cfg.keep \in Nat, Compactable(h)
  PROVE  /\ IsSeq(Compacted(h)) /\ Len(Compacted(h)) = 2 * cfg.keep + 1 /\ Len(h) \in Nat
         /\ 2 * cfg.keep + 3 <= Len(h) /\ cfg.keep > 0
         /\ Plain(Compacted(h)[1])
         /\ \A j \in 1..(2 * cfg.keep) : Compacted(h)[j + 1] = h[Len(h) - 2 * cfg.keep + j]
         /\ Compacted(h)[1].says = h[1].says
         /\ cfg.compaction # "drop_oldest" =>
               /\ h[1].sums \subseteq Compacted(h)[1].sums
               /\ \A i \in 2..(Len(h) - 2 * cfg.keep) :
                     h[i].says \cup h[i].sums \subseteq Compacted(h)[1].sums
<1>1. PICK S : h \in Seq(S)
  BY DEF IsSeq
<1>2. Len(h) \in Nat /\ \A i \in 1..Len(h) : h[i] \in S
  BY <1>1, LenProperties, ElementOfSeq
<1>3. PICK t \in Nat : t = 2 * cfg.keep
  OBVIOUS
<1>4. t > 0 /\ cfg.keep > 0 /\ t + 3 <= Len(h)
  BY <1>3 DEF Compactable
<1>5. PICK n \in Nat : n = Len(h) - t /\ Len(h) = n + t /\ n >= 3
  <2>1. Len(h) - t \in Nat /\ Len(h) = (Len(h) - t) + t /\ Len(h) - t >= 3
    BY <1>2, <1>4
  <2> QED BY <2>1
<1> DEFINE tail   == SubSeq(h, n + 1, n + t)
           middle == SubSeq(h, 2, n)
           given  == IF cfg.compaction = "drop_oldest" THEN {} ELSE Covered(middle)
           head   == [Message("user", h[1].says, {}, {}) EXCEPT !.sums = h[1].sums \cup given]
<1>6. Compacted(h) = <<head>> \o tail
  BY <1>3, <1>5 DEF Compacted, Digest
<1>7. /\ tail \in Seq(S) /\ Len(tail) = t
      /\ \A j \in 1..t : tail[j] = h[n + j]
  <2>1. \A i \in (n + 1)..(n + t) : h[i] \in S
    BY <1>2, <1>5
  <2>2. /\ tail \in Seq(S)
        /\ Len(tail) = IF n + 1 <= n + t THEN n + t - (n + 1) + 1 ELSE 0
        /\ \A i \in 1..(n + t - (n + 1) + 1) : tail[i] = h[n + 1 + i - 1]
    <3>1. n + 1 \in Int /\ n + t \in Int
      OBVIOUS
    <3> QED BY <2>1, <3>1, SubSeqProperties
  <2>3. n + t - (n + 1) + 1 = t /\ n + 1 <= n + t /\ \A i \in 1..t : n + 1 + i - 1 = n + i
    BY <1>4
  <2> HIDE DEF tail
  <2>4. Len(tail) = t
    BY <2>2, <2>3
  <2>5. ASSUME NEW j \in 1..t PROVE tail[j] = h[n + j]
    BY <2>2, <2>3
  <2> QED BY <2>2, <2>4, <2>5
<1>8. /\ Len(middle) = n - 1 /\ \A i \in 1..(n - 1) : middle[i] = h[i + 1]
  <2>1. \A i \in 2..n : h[i] \in S
    BY <1>2, <1>5
  <2>2. /\ Len(middle) = IF 2 <= n THEN n - 2 + 1 ELSE 0
        /\ \A i \in 1..(n - 2 + 1) : middle[i] = h[2 + i - 1]
    BY <2>1, SubSeqProperties
  <2>3. n - 2 + 1 = n - 1 /\ 2 <= n /\ \A i \in 1..(n - 1) : 2 + i - 1 = i + 1
    BY <1>5
  <2> HIDE DEF middle
  <2>4. Len(middle) = n - 1
    BY <2>2, <2>3
  <2>5. ASSUME NEW i \in 1..(n - 1) PROVE middle[i] = h[i + 1]
    BY <2>2, <2>3
  <2> QED BY <2>4, <2>5
<1>9. cfg.compaction # "drop_oldest" => \A i \in 2..n : h[i].says \cup h[i].sums \subseteq given
  <2> SUFFICES ASSUME cfg.compaction # "drop_oldest", NEW i \in 2..n
               PROVE  h[i].says \cup h[i].sums \subseteq Covered(middle)
    OBVIOUS
  <2>1. i - 1 \in 1..(n - 1) /\ i - 1 \in 1..Len(middle) /\ (i - 1) + 1 = i
    BY <1>5, <1>8
  <2>2. middle[i - 1] = h[i]
    BY <1>8, <2>1
  <2> HIDE DEF middle
  <2> QED BY <2>1, <2>2 DEF Covered
<1>10. head.says = h[1].says /\ head.sums = h[1].sums \cup given /\ Plain(head)
  BY DEF Message, Plain
<1> HIDE DEF tail, middle, given, head
<1>11. /\ <<head>> \o tail \in Seq(S \cup {head})
       /\ Len(<<head>> \o tail) = 1 + t
       /\ \A i \in 1..(1 + t) : (<<head>> \o tail)[i] = IF i <= 1 THEN <<head>>[i] ELSE tail[i - 1]
  <2>1. tail \in Seq(S \cup {head})
    BY <1>7, SeqMonotonic
  <2>2. <<head>> \in Seq(S \cup {head}) /\ Len(<<head>>) = 1
    OBVIOUS
  <2> QED BY <1>7, <2>1, <2>2, ConcatProperties
<1>12. (<<head>> \o tail)[1] = head
  BY <1>4, <1>11
<1>13. ASSUME NEW j \in 1..t PROVE (<<head>> \o tail)[j + 1] = h[n + j]
  <2>1. j + 1 \in 1..(1 + t) /\ ~(j + 1 <= 1) /\ (j + 1) - 1 = j
    OBVIOUS
  <2> QED BY <1>7, <1>11, <2>1
<1>14. IsSeq(Compacted(h)) /\ Len(Compacted(h)) = 2 * cfg.keep + 1
  BY <1>3, <1>6, <1>11 DEF IsSeq
<1> QED BY <1>2, <1>3, <1>4, <1>5, <1>6, <1>9, <1>10, <1>12, <1>13, <1>14

(* A cut between rounds parts no call from its answer, ...                   *)
LEMMA DigestKeeps ==
  ASSUME NEW h, IsSeq(h), Paired(h), InRounds(h), cfg.keep \in Nat, Compactable(h)
  PROVE  Paired(Compacted(h)) /\ InRounds(Compacted(h))
<1>1. PICK g : g = Compacted(h)
  OBVIOUS
<1>2. PICK t \in Nat : t = 2 * cfg.keep
  OBVIOUS
<1>l. PICK l \in Nat : l = Len(h)
  BY Digested
<1>n. PICK n \in Nat : l = n + t /\ n >= 3 /\ t > 0 /\ n = l - t
  <2>1. t + 3 <= l /\ t > 0
    BY <1>2, <1>l, Digested
  <2>2. l - t \in Nat /\ l = (l - t) + t /\ l - t >= 3
    BY <2>1
  <2> QED BY <2>1, <2>2
<1>3. Len(h) = n + t /\ n = Len(h) - 2 * cfg.keep
  BY <1>2, <1>l, <1>n
<1>4. /\ Len(g) = t + 1 /\ Plain(g[1]) /\ \A j \in 1..t : g[j + 1] = h[n + j]
  BY <1>1, <1>2, <1>3, Digested
<1>5. h[n + 1].answers = {}
  <2>1. PICK k \in Nat : t = 2 * k + 2
    <3>1. cfg.keep - 1 \in Nat /\ t = 2 * (cfg.keep - 1) + 2
      BY <1>2, <1>n
    <3> QED BY <3>1
  <2>2. 2 * k + 1 < n + t /\ n + t - 2 * k - 1 = n + 1
    BY <1>n, <2>1
  <2>3. 2 * k + 1 < Len(h) /\ Len(h) - 2 * k - 1 = n + 1
    BY <1>3, <2>2
  <2> QED BY <2>3 DEF InRounds
<1>6. Paired(g)
  <2> SUFFICES ASSUME NEW i \in 1..Len(g)
               PROVE  /\ g[i].calls # {} => i < Len(g) /\ g[i+1].answers = g[i].calls
                      /\ g[i].answers # {} => i > 1 /\ g[i-1].calls = g[i].answers
    BY DEF Paired
  <2>1. CASE i = 1
    BY <1>4, <2>1 DEF Plain
  <2>2. CASE i # 1
    <3>1. PICK j \in 1..t : i = j + 1
      <4>1. i - 1 \in 1..t /\ i = (i - 1) + 1
        BY <1>4, <2>2
      <4> QED BY <4>1
    <3>2. PICK p \in 1..Len(h) : p = n + j
      <4>1. n + j \in 1..(n + t)
        BY <1>n
      <4> QED BY <1>3, <4>1
    <3>3. g[i] = h[p] /\ p \in 1..l /\ i \in 1..(t + 1)
      BY <1>l, <1>4, <3>1, <3>2
    <3>4. /\ h[p].calls # {} => p < Len(h) /\ h[p+1].answers = h[p].calls
          /\ h[p].answers # {} => p > 1 /\ h[p-1].calls = h[p].answers
      BY <3>2 DEF Paired
    <3>5. ASSUME p < l PROVE i < Len(g) /\ g[i+1] = h[p+1]
      <4>1. j + 1 \in 1..t /\ i + 1 = (j + 1) + 1 /\ p + 1 = n + (j + 1) /\ i < t + 1
        BY <1>n, <3>1, <3>2, <3>5
      <4>2. g[(j + 1) + 1] = h[n + (j + 1)]
        BY <1>4, <4>1
      <4>3. i < Len(g)
        BY <1>4, <4>1
      <4> QED BY <4>1, <4>2, <4>3
    <3>6. ASSUME j # 1 PROVE i > 1 /\ g[i-1] = h[p-1]
      <4>1. j - 1 \in 1..t /\ i - 1 = (j - 1) + 1 /\ p - 1 = n + (j - 1) /\ i > 1
        BY <1>n, <3>1, <3>2, <3>6
      <4> QED BY <1>4, <4>1
    <3>7. j = 1 => h[p].answers = {}
      BY <1>5, <3>2
    <3> QED BY <1>l, <3>3, <3>4, <3>5, <3>6, <3>7
  <2> QED BY <2>1, <2>2
<1>7. InRounds(g)
  <2> SUFFICES ASSUME NEW k \in Nat, 2 * k + 1 < Len(g)
               PROVE  g[Len(g) - 2 * k - 1].answers = {}
    BY DEF InRounds
  <2>0. PICK d \in Nat : d = 2 * k
    OBVIOUS
  <2>1. PICK j \in 1..t : j = t - d - 1
    <3>1. k < cfg.keep
      BY <1>2, <1>4
    <3>2. t - d - 1 \in 1..t
      BY <1>2, <2>0, <3>1, SMTT(30)
    <3> QED BY <3>2
  <2>2. (t + 1) - d - 1 = j + 1 /\ n + j = l - d - 1 /\ d + 1 < l
    BY <1>n, <2>1
  <2>4. Len(g) - 2 * k - 1 = j + 1 /\ n + j = Len(h) - 2 * k - 1 /\ 2 * k + 1 < Len(h)
    BY <1>l, <1>4, <2>0, <2>2
  <2>3. g[j + 1] = h[n + j]
    BY <1>4
  <2> QED BY <2>3, <2>4 DEF InRounds
<1> QED BY <1>1, <1>6, <1>7

(* ... what is cut out was given to the summary, ...                         *)
LEMMA DigestCovers ==
  ASSUME NEW h, IsSeq(h), cfg.keep \in Nat, Compactable(h), cfg.compaction # "drop_oldest"
  PROVE  Covered(h) \subseteq Covered(Compacted(h))
<1>1. PICK g : g = Compacted(h)
  OBVIOUS
<1>2. PICK t \in Nat : t = 2 * cfg.keep
  OBVIOUS
<1>l. PICK l \in Nat : l = Len(h)
  BY Digested
<1>n. PICK n \in Nat : l = n + t /\ n >= 3 /\ t > 0 /\ n = l - t
  <2>1. t + 3 <= l /\ t > 0
    BY <1>2, <1>l, Digested
  <2>2. l - t \in Nat /\ l = (l - t) + t /\ l - t >= 3
    BY <2>1
  <2> QED BY <2>1, <2>2
<1>3. Len(h) = n + t /\ n = Len(h) - 2 * cfg.keep
  BY <1>2, <1>l, <1>n
<1>4. /\ Len(g) = t + 1 /\ \A j \in 1..t : g[j + 1] = h[n + j]
      /\ \A i \in 1..n : h[i].says \cup h[i].sums \subseteq g[1].says \cup g[1].sums
  <2>1. /\ h[1].says \cup h[1].sums \subseteq g[1].says \cup g[1].sums
        /\ \A i \in 2..n : h[i].says \cup h[i].sums \subseteq g[1].says \cup g[1].sums
    BY <1>1, <1>3, Digested
  <2>2. \A i \in 1..n : i = 1 \/ i \in 2..n
    OBVIOUS
  <2> QED BY <1>1, <1>2, <1>3, <2>1, <2>2, Digested
<1>5. ASSUME NEW i \in 1..Len(h) PROVE h[i].says \cup h[i].sums \subseteq Covered(g)
  <2>1. CASE i \in 1..n
    <3>1. 1 \in 1..Len(g)
      BY <1>4
    <3>2. h[i].says \cup h[i].sums \subseteq g[1].says \cup g[1].sums
      BY <1>4, <2>1
    <3> QED BY <3>1, <3>2 DEF Covered
  <2>2. CASE i \notin 1..n
    <3>1. PICK j \in 1..t : i = n + j
      <4>1. i \in 1..l /\ i \in Int
        BY <1>l
      <4>2. i - n \in 1..t /\ i = n + (i - n)
        BY <1>n, <2>2, <4>1
      <4> QED BY <4>2
    <3>2. j + 1 \in 1..Len(g) /\ g[j + 1] = h[i]
      BY <1>4, <3>1
    <3> QED BY <3>2 DEF Covered
  <2> QED BY <2>1, <2>2
<1> QED BY <1>1, <1>5 DEF Covered

LEMMA AppendConveys ==
  ASSUME NEW h, IsSeq(h), NEW m
  PROVE  /\ Conveyed(h) \cup m.says \subseteq Conveyed(Append(h, m))
         /\ Covered(h) \cup m.says \subseteq Covered(Append(h, m))
<1>1. PICK g : g = Append(h, m)
  OBVIOUS
<1>2. /\ Len(h) \in Nat /\ Len(g) = Len(h) + 1 /\ g[Len(h) + 1] = m
      /\ \A i \in 1..Len(h) : g[i] = h[i]
  BY <1>1, Appended
<1>4. m.says \subseteq Conveyed(g) /\ m.says \subseteq Covered(g)
  <2>1. Len(h) + 1 \in 1..Len(g)
    BY <1>2
  <2> QED BY <1>2, <2>1 DEF Conveyed, Covered
<1>5. ASSUME NEW i \in 1..Len(h)
      PROVE  h[i].says \subseteq Conveyed(g) /\ h[i].says \cup h[i].sums \subseteq Covered(g)
  <2>1. i \in 1..Len(g)
    BY <1>2
  <2> QED BY <1>2, <2>1 DEF Conveyed, Covered
<1>6. Conveyed(h) \subseteq Conveyed(g) /\ Covered(h) \subseteq Covered(g)
  BY <1>5 DEF Conveyed, Covered
<1> QED BY <1>1, <1>4, <1>6

LEMMA FrontConveys ==
  ASSUME NEW h, IsSeq(h), Len(h) > 0, h[Len(h)].says = {}, h[Len(h)].sums = {}
  PROVE  Conveyed(h) \subseteq Conveyed(Front(h)) /\ Covered(h) \subseteq Covered(Front(h))
<1>1. PICK g : g = Front(h)
  OBVIOUS
<1>2. /\ Len(h) \in Nat /\ Len(g) = Len(h) - 1
      /\ \A i \in 1..(Len(h) - 1) : g[i] = h[i]
  BY <1>1, Fronted
<1>3. ASSUME NEW i \in 1..Len(h)
      PROVE  h[i].says \subseteq Conveyed(g) /\ h[i].says \cup h[i].sums \subseteq Covered(g)
  <2>1. CASE i = Len(h)
    BY <2>1
  <2>2. CASE i # Len(h)
    <3>1. i \in 1..Len(g) /\ g[i] = h[i]
      BY <1>2, <2>2
    <3> QED BY <3>1 DEF Conveyed, Covered
  <2> QED BY <2>1, <2>2
<1> QED BY <1>1, <1>3 DEF Conveyed, Covered

---------------------------------------------------------------------------
(* What a history has of the first n rounds, and that its latest rounds end  *)
(* it, so that a compaction keeps them.                                      *)
Knows(h, n) ==
    /\ Latest(n) \subseteq Conveyed(h)
    /\ cfg.compaction # "drop_oldest" => Facts(n) \subseteq Covered(h)

Lined(h, n) ==
    /\ Len(h) > 0 /\ <<"system">> \in h[1].says
    /\ \A k \in Nat : k < n /\ k < cfg.keep =>
          /\ 2 * k + 1 < Len(h)
          /\ h[Len(h) - 2 * k].says = {<<"result", n - 1 - k>>}
          /\ h[Len(h) - 2 * k - 1].says = {<<"call", n - 1 - k>>}

LEMMA LinedConveys ==
  ASSUME NEW h, IsSeq(h), NEW n \in Nat, cfg.keep \in Nat, Lined(h, n)
  PROVE  Latest(n) \subseteq Conveyed(h)
<1>1. Len(h) \in Nat /\ Len(h) > 0
  BY LenProperties DEF IsSeq, Lined
<1>2. <<"system">> \in Conveyed(h)
  <2>1. 1 \in 1..Len(h)
    BY <1>1
  <2> QED BY <2>1 DEF Lined, Conveyed
<1>3. ASSUME NEW k \in 0..(n - 1), k >= n - cfg.keep
      PROVE  <<"call", k>> \in Conveyed(h) /\ <<"result", k>> \in Conveyed(h)
  <2>1. PICK j \in Nat : j = n - 1 - k
    <3>1. n - 1 - k \in Nat
      OBVIOUS
    <3> QED BY <3>1
  <2>2. j < n /\ j < cfg.keep /\ n - 1 - j = k
    BY <1>3, <2>1
  <2>3. /\ 2 * j + 1 < Len(h)
        /\ h[Len(h) - 2 * j].says = {<<"result", k>>}
        /\ h[Len(h) - 2 * j - 1].says = {<<"call", k>>}
    BY <2>2 DEF Lined
  <2>4. Len(h) - 2 * j \in 1..Len(h) /\ Len(h) - 2 * j - 1 \in 1..Len(h)
    BY <1>1, <2>3
  <2> QED BY <2>3, <2>4 DEF Conveyed
<1>4. ASSUME NEW x \in {"call", "result"} \X {k \in 0..(n - 1) : k >= n - cfg.keep}
      PROVE  x \in Conveyed(h)
  <2>1. PICK k \in 0..(n - 1) : k >= n - cfg.keep /\ x \in {<<"call", k>>, <<"result", k>>}
    OBVIOUS
  <2> QED BY <1>3, <2>1
<1> QED BY <1>2, <1>4 DEF Latest

LEMMA RoundLines ==
  ASSUME NEW h, IsSeq(h), NEW n \in Nat, Lined(h, n), cfg.keep \in Nat, NEW a, NEW b,
         a.says = {<<"call", n>>}, b.says = {<<"result", n>>}
  PROVE  Lined(Append(Append(h, a), b), n + 1)
<1> DEFINE g == Append(Append(h, a), b)
<1>1. /\ Len(h) \in Nat /\ IsSeq(Append(h, a)) /\ Len(Append(h, a)) = Len(h) + 1
      /\ Append(h, a)[Len(h) + 1] = a /\ \A i \in 1..Len(h) : Append(h, a)[i] = h[i]
  BY Appended
<1>2. /\ Len(g) = Len(h) + 1 + 1 /\ g[Len(h) + 1 + 1] = b
      /\ \A i \in 1..(Len(h) + 1) : g[i] = Append(h, a)[i]
  BY <1>1, Appended
<1> HIDE DEF g
<1>3. /\ Len(g) = Len(h) + 2 /\ g[Len(h) + 1] = a /\ g[Len(h) + 2] = b
      /\ \A i \in 1..Len(h) : g[i] = h[i]
  BY <1>1, <1>2
<1>4. Len(g) > 0 /\ <<"system">> \in g[1].says
  BY <1>1, <1>3 DEF Lined
<1>5. ASSUME NEW k \in Nat, k < n + 1, k < cfg.keep
      PROVE  /\ 2 * k + 1 < Len(g)
             /\ g[Len(g) - 2 * k].says = {<<"result", n + 1 - 1 - k>>}
             /\ g[Len(g) - 2 * k - 1].says = {<<"call", n + 1 - 1 - k>>}
  <2>1. CASE k = 0
    <3>1. Len(g) - 2 * k = Len(h) + 2 /\ Len(g) - 2 * k - 1 = Len(h) + 1
          /\ n + 1 - 1 - k = n /\ 2 * k + 1 < Len(g)
      BY <1>1, <1>3, <1>4, <2>1 DEF Lined
    <3> QED BY <1>3, <3>1
  <2>2. CASE k > 0
    <3>1. PICK j \in Nat : k = j + 1
      <4>1. k - 1 \in Nat /\ k = (k - 1) + 1
        BY <2>2
      <4> QED BY <4>1
    <3>2. j < n /\ j < cfg.keep
      BY <1>5, <3>1
    <3>3. /\ 2 * j + 1 < Len(h)
          /\ h[Len(h) - 2 * j].says = {<<"result", n - 1 - j>>}
          /\ h[Len(h) - 2 * j - 1].says = {<<"call", n - 1 - j>>}
      BY <3>2 DEF Lined
    <3>4. /\ 2 * k + 1 < Len(g) /\ n + 1 - 1 - k = n - 1 - j
          /\ Len(g) - 2 * k = Len(h) - 2 * j /\ Len(g) - 2 * k - 1 = Len(h) - 2 * j - 1
          /\ Len(h) - 2 * j \in 1..Len(h) /\ Len(h) - 2 * j - 1 \in 1..Len(h)
      BY <1>1, <1>3, <3>1, <3>3
    <3> QED BY <1>3, <3>3, <3>4
  <2> QED BY <2>1, <2>2
<1> QED BY <1>4, <1>5, SMTT(30) DEF Lined, g

(* ... and the latest rounds stay where they are.                            *)
LEMMA DigestLines ==
  ASSUME NEW h, IsSeq(h), NEW n \in Nat, Lined(h, n), cfg.keep \in Nat, Compactable(h)
  PROVE  Lined(Compacted(h), n)
<1>1. PICK g : g = Compacted(h)
  OBVIOUS
<1>2. PICK t \in Nat : t = 2 * cfg.keep
  OBVIOUS
<1>l. PICK l \in Nat : l = Len(h)
  BY Digested
<1>3. /\ Len(g) = t + 1 /\ t + 3 <= l /\ g[1].says = h[1].says
      /\ \A j \in 1..t : g[j + 1] = h[l - t + j]
  BY <1>1, <1>2, <1>l, Digested
<1>4. Len(g) > 0 /\ <<"system">> \in g[1].says
  BY <1>3 DEF Lined
<1>5. ASSUME NEW k \in Nat, k < n, k < cfg.keep
      PROVE  /\ 2 * k + 1 < Len(g)
             /\ g[Len(g) - 2 * k].says = {<<"result", n - 1 - k>>}
             /\ g[Len(g) - 2 * k - 1].says = {<<"call", n - 1 - k>>}
  <2>1. PICK d \in Nat : d = 2 * k
    OBVIOUS
  <2>2. d + 2 <= t
    BY <1>2, <1>5, <2>1
  <2>3. PICK i \in 1..t, j \in 1..t : i = t - d /\ j = t - d - 1
    <3>1. t - d \in 1..t /\ t - d - 1 \in 1..t
      BY <2>2
    <3> QED BY <3>1
  <2>4. /\ Len(g) - d = i + 1 /\ Len(g) - d - 1 = j + 1
        /\ l - t + i = l - d /\ l - t + j = l - d - 1 /\ d + 1 < Len(g)
    BY <1>3, <2>2, <2>3
  <2>5. g[i + 1] = h[l - d] /\ g[j + 1] = h[l - d - 1]
    BY <1>3, <2>3, <2>4
  <2>6. h[l - d].says = {<<"result", n - 1 - k>>} /\ h[l - d - 1].says = {<<"call", n - 1 - k>>}
    BY <1>5, <1>l, <2>1 DEF Lined
  <2> QED BY <2>1, <2>4, <2>5, <2>6
<1> QED BY <1>1, <1>4, <1>5 DEF Lined

LEMMA AppendKnows ==
  ASSUME NEW h, IsSeq(h), NEW m, NEW n, Knows(h, n)
  PROVE  Knows(Append(h, m), n)
BY AppendConveys DEF Knows

---------------------------------------------------------------------------
(* The history at each await of a strategy.                                  *)
ToolPlaces   == {"tools", "exectools"}
CoercePlaces == {"coerce1", "coerce2", "coerce3"}
ReActPlaces2 == {"chat", "tools", "summary", "final"} \cup CoercePlaces
AskPlaces    == {"chat", "summary", "final", "planfinal"} \cup CoercePlaces \cup Waiting
Quiet(place) == place \notin ToolPlaces \cup ReActPlaces2

(* A round whose calls have not been answered yet.                           *)
Unanswered(h) == Len(h) > 0 /\ Paired(Front(h)) /\ Last(h).answers = {}

Pairs ==
    /\ pc \in AskPlaces => Paired(history)
    /\ pc \in {"chat", "summary"} => InRounds(history)
    /\ pc \in ToolPlaces => Unanswered(history)
    /\ pc = "tools" => InRounds(Front(history))

Shape ==
    /\ IsSeq(history)
    /\ pc = "summary" => Compactable(history)
    /\ pc \in CoercePlaces =>
          /\ Len(history) > 0 /\ Plain(history[Len(history)])
          /\ history[Len(history)].says = {} /\ history[Len(history)].sums = {}

Remembers ==
    /\ pc \in {"chat", "final"} \cup CoercePlaces => Knows(history, step)
    /\ pc \in ReActPlaces2 /\ cfg.compaction # "drop_oldest" => Facts(step) \subseteq Covered(history)
    /\ pc = "summary" /\ cfg.compaction # "drop_oldest" => Facts(step + 1) \subseteq Covered(history)
    /\ pc = "chat" => Lined(history, step)
    /\ pc = "summary" => Lined(history, step + 1)
    /\ pc = "tools" => /\ Len(history) > 0 /\ Lined(Front(history), step)
                       /\ Last(history).says = {<<"call", step>>}

Talk == /\ Shape
        /\ cfg.executor => Pairs
        /\ Remembers

LEMMA PromptPlain ==
  /\ Plain(Prompt) /\ Plain(Answer) /\ Prompt.says = {} /\ Answer.says = {}
  /\ Prompt.sums = {} /\ Answer.sums = {}
BY DEF Plain, Prompt, Answer, Message

LEMMA ActsAndResults ==
  ASSUME NEW n, NEW c
  PROVE  /\ Act(n, c).answers = {} /\ Act(n, c).says = {<<"call", n>>}
         /\ Results(n, c).calls = {} /\ Results(n, c).says = {<<"result", n>>}
         /\ cfg.executor => Results(n, c).answers = c
BY DEF Act, Results, Message

LEMMA FactsGrow ==
  ASSUME NEW n \in Nat
  PROVE  Facts(n + 1) = Facts(n) \cup {<<"call", n>>, <<"result", n>>}
<1>1. 0..((n + 1) - 1) = 0..(n - 1) \cup {n}
  OBVIOUS
<1>2. {"call", "result"} \X (0..((n + 1) - 1))
        = ({"call", "result"} \X (0..(n - 1))) \cup {<<"call", n>>, <<"result", n>>}
  BY <1>1
<1> QED BY <1>2 DEF Facts

(* Outside react and the tools there is little to keep.                      *)
LEMMA Quietly ==
  ASSUME Quiet(pc'), cfg' = cfg, IsSeq(history'), cfg.executor /\ pc' \in AskPlaces => Paired(history')
  PROVE  Talk'
<1>1. /\ pc' \notin {"chat", "summary", "tools", "exectools"} /\ pc' \notin CoercePlaces
      /\ pc' \notin ReActPlaces2
  BY DEF Quiet, ToolPlaces, ReActPlaces2
<1>2. Shape'
  BY <1>1 DEF Shape
<1>3. cfg.executor => Pairs'
  BY <1>1 DEF Pairs, ToolPlaces
<1>4. Remembers'
  BY <1>1 DEF Remembers, ReActPlaces2
<1> QED BY <1>2, <1>3, <1>4 DEF Talk

LEMMA NextStepTalks ==
  ASSUME NEW h, IsSeq(h), cfg' = cfg, cfg.keep \in Nat, step \in Nat, NextStep(h),
         cfg.executor => Paired(h) /\ InRounds(h), Lined(h, step + 1),
         cfg.compaction # "drop_oldest" => Facts(step + 1) \subseteq Covered(h)
  PROVE  Talk'
<1>0. Knows(h, step + 1)
  BY LinedConveys DEF Knows
<1>1. CASE step' = step + 1 /\ pc' = "chat" /\ history' = h
  <2>1. Shape'
    BY <1>1 DEF Shape, CoercePlaces
  <2>2. cfg.executor => Pairs'
    BY <1>1 DEF Pairs, ToolPlaces
  <2>3. Remembers'
    BY <1>0, <1>1 DEF Remembers, CoercePlaces, Knows, Latest, Lined
  <2> QED BY <2>1, <2>2, <2>3 DEF Talk
<1>2. CASE step' = step + 1 /\ pc' = "final" /\ history' = Append(h, Prompt)
  <2>1. Shape'
    BY <1>2, Appended DEF Shape, CoercePlaces
  <2>2. cfg.executor => Pairs'
    BY <1>2, PlainKeeps, PromptPlain DEF Pairs, ToolPlaces
  <2>3. Knows(history', step')
    BY <1>0, <1>2, AppendKnows
  <2>4. Remembers'
    BY <1>2, <2>3 DEF Remembers, CoercePlaces, Knows, Latest
  <2> QED BY <2>1, <2>2, <2>4 DEF Talk
<1> QED BY <1>1, <1>2 DEF NextStep

LEMMA FrontAndLast ==
  ASSUME NEW h, IsSeq(h), Len(h) > 0
  PROVE  h = Append(Front(h), Last(h))
<1>1. PICK S : h \in Seq(S)
  BY DEF IsSeq
<1>2. h # << >>
  BY <1>1
<1>3. PICK g \in Seq(S), a \in S : h = Append(g, a)
  BY <1>1, <1>2, SequenceEmptyOrAppend
<1>4. Front(h) = g /\ Last(h) = a
  <2>1. /\ Len(h) = Len(g) + 1 /\ h[Len(g) + 1] = a /\ Len(g) \in Nat
        /\ \A i \in 1..Len(g) : h[i] = g[i]
    BY <1>3, AppendProperties, LenProperties
  <2>2. IsSeq(Front(h)) /\ Len(Front(h)) = Len(g) /\ \A i \in 1..Len(g) : Front(h)[i] = g[i]
    <3>1. Len(h) - 1 = Len(g)
      BY <2>1
    <3> QED BY <2>1, <3>1, Fronted
  <2>3. PICK T : Front(h) \in Seq(T)
    BY <2>2 DEF IsSeq
  <2>4. Front(h) \in Seq(S \cup T) /\ g \in Seq(S \cup T)
    BY <1>3, <2>3, SeqMonotonic
  <2>5. Front(h) = g
    BY <2>2, <2>4, SeqEqual
  <2> QED BY <2>1, <2>5 DEF Last
<1> QED BY <1>3, <1>4

LEMMA FrontOfAppend ==
  ASSUME NEW h, IsSeq(h), NEW m
  PROVE  Front(Append(h, m)) = h /\ Last(Append(h, m)) = m /\ Len(Append(h, m)) > 0
<1>1. /\ IsSeq(Append(h, m)) /\ Len(h) \in Nat /\ Len(Append(h, m)) = Len(h) + 1
      /\ \A i \in 1..Len(h) : Append(h, m)[i] = h[i]
      /\ Append(h, m)[Len(h) + 1] = m
  BY Appended
<1>2. Len(Append(h, m)) > 0 /\ Len(Append(h, m)) - 1 = Len(h)
  BY <1>1
<1>3. IsSeq(Front(Append(h, m))) /\ Len(Front(Append(h, m))) = Len(h)
      /\ \A i \in 1..Len(h) : Front(Append(h, m))[i] = h[i]
  BY <1>1, <1>2, Fronted
<1>4. PICK S : h \in Seq(S)
  BY DEF IsSeq
<1>5. PICK T : Front(Append(h, m)) \in Seq(T)
  BY <1>3 DEF IsSeq
<1>6. Front(Append(h, m)) \in Seq(S \cup T) /\ h \in Seq(S \cup T)
  BY <1>4, <1>5, SeqMonotonic
<1>7. Front(Append(h, m)) = h
  BY <1>3, <1>6, SeqEqual
<1> QED BY <1>1, <1>2, <1>7 DEF Last

(* The end of a round of calls.                                              *)
LEMMA RoundEnds ==
  ASSUME NEW n, IsSeq(history), cfg.executor => Unanswered(history)
  PROVE  LET h == Append(history, Results(n, Last(history).calls))
         IN  /\ IsSeq(h)
             /\ cfg.executor => Paired(h) /\ (InRounds(Front(history)) => InRounds(h))
             /\ Covered(history) \cup {<<"result", n>>} \subseteq Covered(h)
<1> DEFINE a == Last(history)
           g == Front(history)
           b == Results(n, a.calls)
<1>1. IsSeq(Append(history, b))
  BY Appended
<1>2. Covered(history) \cup {<<"result", n>>} \subseteq Covered(Append(history, b))
  BY AppendConveys, ActsAndResults
<1>3. ASSUME cfg.executor PROVE Paired(Append(history, b)) /\ (InRounds(g) => InRounds(Append(history, b)))
  <2>1. Len(history) > 0 /\ Paired(g) /\ a.answers = {}
    BY <1>3 DEF Unanswered
  <2>2. history = Append(g, a) /\ IsSeq(g)
    BY <2>1, FrontAndLast, Fronted
  <2>3. b.calls = {} /\ b.answers = a.calls
    BY <1>3, ActsAndResults
  <2> HIDE DEF a, b, g
  <2>4. Paired(Append(Append(g, a), b)) /\ (InRounds(g) => InRounds(Append(Append(g, a), b)))
    BY <2>1, <2>2, <2>3, RoundKeeps, RoundInRounds
  <2> QED BY <2>2, <2>4
<1> QED BY <1>1, <1>2, <1>3

(* A prompt of the coercion, or the last one.                                *)
LEMMA PromptTalks ==
  ASSUME NEW h, IsSeq(h), cfg' = cfg, pc' \in CoercePlaces \cup {"final"},
         history' = Append(h, Prompt),
         cfg.executor => Paired(h), Knows(h, step')
  PROVE  Talk'
<1>1. /\ IsSeq(history') /\ Len(h) \in Nat /\ Len(history') = Len(h) + 1
      /\ history'[Len(h) + 1] = Prompt
  BY Appended
<1>2. pc' # "summary" /\ pc' # "chat" /\ pc' \notin ToolPlaces
  BY DEF CoercePlaces, ToolPlaces
<1>3. Shape'
  <2>1. Len(history') > 0 /\ history'[Len(history')] = Prompt
    BY <1>1
  <2> QED BY <1>1, <1>2, <2>1, PromptPlain DEF Shape
<1>4. cfg.executor => Pairs'
  <2>1. cfg.executor => Paired(history')
    BY PlainKeeps, PromptPlain
  <2> QED BY <1>2, <2>1 DEF Pairs, ToolPlaces
<1>5. Knows(history', step')
  BY AppendKnows
<1>6. Remembers'
  BY <1>2, <1>5 DEF Remembers, Knows, Latest, ToolPlaces
<1> QED BY <1>3, <1>4, <1>6 DEF Talk

(* A message that calls tools.                                               *)
LEMMA CallTalks ==
  ASSUME NEW c, IsSeq(history), cfg' = cfg, step' = step, pc' \in ToolPlaces,
         history' = Append(history, Act(step, c)),
         cfg.executor => Paired(history),
         cfg.executor /\ pc' = "tools" => InRounds(history),
         pc' = "tools" => Knows(history, step) /\ Lined(history, step)
  PROVE  Talk'
<1>1. /\ IsSeq(history') /\ Front(history') = history
      /\ Last(history') = Act(step, c) /\ Len(history') > 0
  BY Appended, FrontOfAppend
<1>2. pc' \notin AskPlaces /\ pc' \notin {"chat", "summary"} /\ pc' \notin CoercePlaces
  BY DEF ToolPlaces, AskPlaces, CoercePlaces, Waiting
<1>3. Shape'
  BY <1>1, <1>2 DEF Shape
<1>4. cfg.executor => Pairs'
  <2>1. cfg.executor => Unanswered(history')
    BY <1>1, ActsAndResults DEF Unanswered
  <2>2. cfg.executor /\ pc' = "tools" => InRounds(Front(history'))
    BY <1>1
  <2> QED BY <1>2, <2>1, <2>2 DEF Pairs
<1>5. Covered(history) \subseteq Covered(history')
  BY AppendConveys
<1>6. pc' \in ReActPlaces2 => pc' = "tools"
  BY DEF ToolPlaces, ReActPlaces2, CoercePlaces
<1>7. Remembers'
  <2>1. pc' = "tools" => Last(history').says = {<<"call", step>>}
    BY <1>1, ActsAndResults
  <2>2. pc' \notin {"chat", "final", "summary"}
    BY DEF ToolPlaces
  <2> QED BY <1>1, <1>2, <1>5, <1>6, <2>1, <2>2 DEF Remembers, Knows, Lined
<1> QED BY <1>3, <1>4, <1>7 DEF Talk

---------------------------------------------------------------------------
(* The steps of react.                                                       *)
LEMMA ChatReplyTalks ==
  ASSUME TypeOK, Talk, ChatReplies
  PROVE  Talk'
<1>1. IsSeq(history) /\ pc = "chat"
  BY DEF Talk, Shape, ChatReplies
<1>2. /\ cfg.executor => Paired(history) /\ InRounds(history)
      /\ Knows(history, step) /\ Lined(history, step)
  BY <1>1 DEF Talk, Pairs, Remembers, AskPlaces
<1>3. PICK blocks \in Replies :
         /\ cfg' = cfg /\ step' = step
         /\ IF Reply(cfg.schema, blocks).calls = {} THEN Concludes(Reply(cfg.schema, blocks))
            ELSE /\ pc' = "tools"
                 /\ history' = Append(history, Act(step, Reply(cfg.schema, blocks).calls))
  BY DEF ChatReplies, Hears
<1>4. CASE Reply(cfg.schema, blocks).calls = {}
  <2>1. CASE pc' = "coerce1" /\ history' = history \o <<Answer, Prompt>>
    <3>1. history' = Append(Append(history, Answer), Prompt) /\ IsSeq(Append(history, Answer))
      BY <1>1, <2>1, TwoAppended, Appended
    <3>2. cfg.executor => Paired(Append(history, Answer))
      BY <1>1, <1>2, PlainKeeps, PromptPlain
    <3>4. Knows(Append(history, Answer), step')
      BY <1>1, <1>2, <1>3, AppendKnows
    <3>5. pc' \in CoercePlaces
      BY <2>1 DEF CoercePlaces
    <3> QED BY <1>3, <3>1, <3>2, <3>4, <3>5, PromptTalks
  <2>2. CASE pc' = "ended" /\ history' = history
    <3>1. Quiet(pc') /\ pc' \notin AskPlaces
      BY <2>2 DEF Quiet, ToolPlaces, ReActPlaces2, CoercePlaces, AskPlaces, Waiting
    <3> QED BY <1>1, <1>3, <2>2, <3>1, Quietly
  <2> QED BY <1>3, <1>4, <2>1, <2>2 DEF Concludes
<1>5. CASE Reply(cfg.schema, blocks).calls # {}
  <2>1. pc' \in ToolPlaces
    BY <1>3, <1>5 DEF ToolPlaces
  <2> QED BY <1>1, <1>2, <1>3, <1>5, <2>1, CallTalks
<1> QED BY <1>4, <1>5

LEMMA ToolsReturnTalks ==
  ASSUME TypeOK, Talk, ToolsReturn
  PROVE  Talk'
<1>1. IsSeq(history) /\ pc = "tools" /\ cfg' = cfg /\ step \in Nat /\ cfg.keep \in Nat
  BY ConfigsAssumption DEF Talk, Shape, ToolsReturn, TypeOK
<1>2. /\ cfg.executor => Unanswered(history) /\ InRounds(Front(history))
      /\ cfg.compaction # "drop_oldest" => Facts(step) \subseteq Covered(history)
      /\ Len(history) > 0 /\ Lined(Front(history), step) /\ Last(history).says = {<<"call", step>>}
  BY <1>1 DEF Talk, Pairs, Remembers, ToolPlaces, ReActPlaces2
<1>3. PICK h : h = Append(history, Results(step, Last(history).calls))
  OBVIOUS
<1>4. /\ IsSeq(h) /\ (cfg.executor => Paired(h) /\ InRounds(h))
      /\ cfg.compaction # "drop_oldest" => Facts(step + 1) \subseteq Covered(h)
      /\ Lined(h, step + 1)
  <2>1. /\ IsSeq(h) /\ (cfg.executor => Paired(h) /\ InRounds(h))
        /\ Covered(history) \cup {<<"result", step>>} \subseteq Covered(h)
    BY <1>1, <1>2, <1>3, RoundEnds
  <2>2. <<"call", step>> \in Covered(history)
    <3>1. Len(history) \in 1..Len(history) /\ Last(history) = history[Len(history)]
      BY <1>1, <1>2, LenProperties DEF IsSeq, Last
    <3> QED BY <1>2, <3>1 DEF Covered
  <2>3. Lined(h, step + 1)
    <3>1. history = Append(Front(history), Last(history)) /\ IsSeq(Front(history))
      BY <1>1, <1>2, FrontAndLast, Fronted
    <3>2. PICK g, a, b : /\ g = Front(history) /\ a = Last(history)
                         /\ b = Results(step, Last(history).calls)
      OBVIOUS
    <3>3. Lined(Append(Append(g, a), b), step + 1)
      BY <1>1, <1>2, <3>1, <3>2, RoundLines, ActsAndResults
    <3> QED BY <1>3, <3>1, <3>2, <3>3
  <2> QED BY <1>1, <1>2, <2>1, <2>2, <2>3, FactsGrow
<1>5. \/ NextStep(h)
      \/ Compactable(h) /\ cfg.compaction = "drop_oldest" /\ NextStep(Compacted(h))
      \/ Compactable(h) /\ pc' = "summary" /\ history' = h /\ step' = step
  BY <1>3 DEF ToolsReturn
<1>6. CASE NextStep(h)
  BY <1>1, <1>4, <1>6, NextStepTalks
<1>7. CASE Compactable(h) /\ cfg.compaction = "drop_oldest" /\ NextStep(Compacted(h))
  <2>1. IsSeq(Compacted(h))
    BY <1>1, <1>4, <1>7, Digested
  <2>2. cfg.executor => Paired(Compacted(h)) /\ InRounds(Compacted(h))
    BY <1>1, <1>4, <1>7, DigestKeeps
  <2>3. Lined(Compacted(h), step + 1)
    BY <1>1, <1>4, <1>7, DigestLines
  <2> QED BY <1>1, <1>7, <2>1, <2>2, <2>3, NextStepTalks
<1>8. CASE Compactable(h) /\ pc' = "summary" /\ history' = h /\ step' = step
  <2>1. pc' \notin ToolPlaces /\ pc' \notin CoercePlaces /\ pc' # "tools"
    BY <1>8 DEF ToolPlaces, CoercePlaces
  <2>2. Shape'
    <3>1. Compactable(history)'
      BY <1>1, <1>8 DEF Compactable
    <3> QED BY <1>4, <1>8, <2>1, <3>1 DEF Shape
  <2>3. cfg.executor => Pairs'
    BY <1>4, <1>8, <2>1 DEF Pairs
  <2>4. Remembers'
    <3>1. Facts(step) \subseteq Facts(step + 1)
      BY <1>1, FactsGrow
    <3> QED BY <1>1, <1>4, <1>8, <2>1, <3>1 DEF Remembers, Lined
  <2> QED BY <1>1, <2>2, <2>3, <2>4 DEF Talk
<1> QED BY <1>5, <1>6, <1>7, <1>8

LEMMA SummaryTalks ==
  ASSUME TypeOK, Talk, SummaryReplies \/ SummaryFails
  PROVE  Talk'
<1>1. IsSeq(history) /\ pc = "summary" /\ step \in Nat /\ cfg.keep \in Nat /\ cfg' = cfg
  BY ConfigsAssumption DEF Talk, Shape, SummaryReplies, SummaryFails, GivesUp, NextStep, TypeOK
<1>2. /\ Compactable(history)
      /\ cfg.executor => Paired(history) /\ InRounds(history)
      /\ cfg.compaction # "drop_oldest" => Facts(step + 1) \subseteq Covered(history)
      /\ Lined(history, step + 1)
  BY <1>1 DEF Talk, Shape, Pairs, Remembers, AskPlaces
<1>3. NextStep(history) \/ NextStep(Compacted(history))
  BY DEF SummaryReplies, SummaryFails
<1>4. CASE NextStep(history)
  BY <1>1, <1>2, <1>4, NextStepTalks
<1>5. CASE NextStep(Compacted(history))
  <2>1. IsSeq(Compacted(history))
    BY <1>1, <1>2, Digested
  <2>2. cfg.executor => Paired(Compacted(history)) /\ InRounds(Compacted(history))
    BY <1>1, <1>2, DigestKeeps
  <2>3. cfg.compaction # "drop_oldest" => Facts(step + 1) \subseteq Covered(Compacted(history))
    BY <1>1, <1>2, DigestCovers
  <2>4. Lined(Compacted(history), step + 1)
    BY <1>1, <1>2, DigestLines
  <2> QED BY <1>1, <1>5, <2>1, <2>2, <2>3, <2>4, NextStepTalks
<1> QED BY <1>3, <1>4, <1>5

LEMMA CoerceTalks ==
  ASSUME TypeOK, Talk, CoerceReplies \/ CoerceFails
  PROVE  Talk'
<1>1. IsSeq(history) /\ pc \in CoercePlaces /\ cfg' = cfg /\ step' = step
  BY DEF Talk, Shape, CoerceReplies, CoerceFails, Coercing, After, CoercePlaces, Hears, GivesUp
<1>2. /\ Len(history) > 0 /\ Plain(history[Len(history)])
      /\ history[Len(history)].says = {} /\ history[Len(history)].sums = {}
      /\ cfg.executor => Paired(history)
      /\ Knows(history, step)
  BY <1>1 DEF Talk, Shape, Pairs, Remembers, AskPlaces
<1>3. \/ pc' = "ended" /\ history' = history
      \/ NextPrompt(Append(history, Answer))
      \/ NextPrompt(Front(history))
  BY DEF CoerceReplies, CoerceFails
<1>4. ASSUME NEW h, IsSeq(h), NextPrompt(h), cfg.executor => Paired(h),
             Knows(h, step)
      PROVE  Talk'
  <2>1. After[pc] \in {"ended"} \cup CoercePlaces /\ pc' = After[pc]
    BY <1>1, <1>4 DEF NextPrompt, After, CoercePlaces
  <2>2. CASE After[pc] = "ended"
    <3>1. Quiet(pc') /\ pc' \notin AskPlaces
      BY <2>1, <2>2 DEF Quiet, ToolPlaces, ReActPlaces2, CoercePlaces, AskPlaces, Waiting
    <3>2. history' = h
      BY <1>4, <2>2 DEF NextPrompt
    <3> QED BY <1>1, <1>4, <3>1, <3>2, Quietly
  <2>3. CASE After[pc] # "ended"
    <3>1. pc' \in CoercePlaces /\ history' = Append(h, Prompt)
      BY <1>4, <2>1, <2>3 DEF NextPrompt
    <3>2. Knows(h, step')
      BY <1>1, <1>4
    <3> QED BY <1>1, <1>4, <3>1, <3>2, PromptTalks
  <2> QED BY <2>2, <2>3
<1>5. CASE pc' = "ended" /\ history' = history
  <2>1. Quiet(pc') /\ pc' \notin AskPlaces
    BY <1>5 DEF Quiet, ToolPlaces, ReActPlaces2, CoercePlaces, AskPlaces, Waiting
  <2> QED BY <1>1, <1>5, <2>1, Quietly
<1>6. CASE NextPrompt(Append(history, Answer))
  <2>1. PICK h : h = Append(history, Answer)
    OBVIOUS
  <2>2. IsSeq(h) /\ (cfg.executor => Paired(h)) /\ Knows(h, step)
    BY <1>1, <1>2, <2>1, Appended, PlainKeeps, PromptPlain, AppendKnows
  <2>3. NextPrompt(h)
    BY <1>6, <2>1
  <2> QED BY <1>4, <2>2, <2>3
<1>7. CASE NextPrompt(Front(history))
  <2>1. IsSeq(Front(history)) /\ Knows(Front(history), step)
    BY <1>1, <1>2, Fronted, FrontConveys DEF Knows
  <2>2. cfg.executor => Paired(Front(history))
    BY <1>1, <1>2, FrontKeeps
  <2> QED BY <1>4, <1>7, <2>1, <2>2
<1> QED BY <1>3, <1>5, <1>6, <1>7

(* Where the strategy ends, or raises, the history is no longer sent.        *)
LEMMA EndTalks ==
  ASSUME Talk, cfg' = cfg, history' = history, Quiet(pc'), pc' \notin AskPlaces
  PROVE  Talk'
BY Quietly DEF Talk, Shape

LEMMA ReActTalks ==
  ASSUME TypeOK, Talk, ReActStep
  PROVE  Talk'
<1>1. CASE ChatRaises \/ ToolRaises \/ FinalReplies \/ FinalFails
  <2>1. pc' \in {"raised", "ended"} /\ history' = history /\ cfg' = cfg
    BY <1>1 DEF ChatRaises, ToolRaises, FinalReplies, FinalFails, GivesUp, Hears
  <2>2. Quiet(pc') /\ pc' \notin AskPlaces
    BY <2>1 DEF Quiet, ToolPlaces, ReActPlaces2, CoercePlaces, AskPlaces, Waiting
  <2> QED BY <2>1, <2>2, EndTalks
<1> QED BY <1>1, ChatReplyTalks, ToolsReturnTalks, SummaryTalks, CoerceTalks DEF ReActStep

---------------------------------------------------------------------------
(* The steps of the other strategies: messages that neither call nor answer, *)
(* and the tools of plan and execute.                                        *)
LEMMA PlainTalks ==
  ASSUME Talk, cfg' = cfg, pc \in AskPlaces, Quiet(pc'), NEW a, Plain(a),
         \/ history' = history
         \/ history' = Append(history, a)
         \/ history' = Append(Append(history, Answer), Prompt)
  PROVE  Talk'
<1>1. IsSeq(history) /\ (cfg.executor => Paired(history))
  BY DEF Talk, Shape, Pairs
<1>2. ASSUME NEW m, Plain(m)
      PROVE  IsSeq(Append(history, m)) /\ (cfg.executor => Paired(Append(history, m)))
  BY <1>1, <1>2, Appended, PlainKeeps
<1>3. PICK g : g = Append(history, Answer)
  OBVIOUS
<1>4. IsSeq(g) /\ (cfg.executor => Paired(g))
  BY <1>2, <1>3, PromptPlain
<1>5. IsSeq(Append(g, Prompt)) /\ (cfg.executor => Paired(Append(g, Prompt)))
  BY <1>4, Appended, PlainKeeps, PromptPlain
<1>6. IsSeq(history') /\ (cfg.executor => Paired(history'))
  BY <1>1, <1>2, <1>3, <1>5
<1> QED BY <1>6, Quietly

QuietPlaces == {"ended", "raised", "planfinal"} \cup Waiting

LEMMA QuietPlacesAreQuiet == \A p \in QuietPlaces : Quiet(p)
BY DEF QuietPlaces, Quiet, ToolPlaces, ReActPlaces2, CoercePlaces, Waiting

LEMMA ExecTalks ==
  ASSUME TypeOK, Talk, ExecReplies \/ ExecToolsReturn
  PROVE  Talk'
<1>1. IsSeq(history) /\ cfg' = cfg
  BY DEF Talk, Shape, ExecReplies, ExecToolsReturn, Hears
<1>2. ASSUME NEW h, PlanStepEnds(h), IsSeq(h), cfg.executor => Paired(h)
      PROVE  Talk'
  <2>1. pc' \in QuietPlaces /\ (history' = h \/ history' = Append(h, Prompt))
    BY <1>2 DEF PlanStepEnds, PlanEnds, Continues, QuietPlaces, Waiting
  <2>2. PICK g : g = Append(h, Prompt)
    OBVIOUS
  <2>3. IsSeq(g) /\ (cfg.executor => Paired(g))
    BY <1>2, <2>2, Appended, PlainKeeps, PromptPlain
  <2>4. IsSeq(history') /\ (cfg.executor => Paired(history'))
    BY <1>2, <2>1, <2>2, <2>3
  <2> QED BY <1>1, <2>1, <2>4, QuietPlacesAreQuiet, Quietly
<1>3. CASE ExecReplies
  <2>1. pc = "exec" /\ (cfg.executor => Paired(history))
    BY <1>3 DEF ExecReplies, Talk, Pairs, AskPlaces, Waiting
  <2>2. PICK c :
           \/ PlanStepEnds(history)
           \/ pc' = "exectools" /\ history' = Append(history, Act(step, c)) /\ step' = step
    BY <1>3 DEF ExecReplies, Continues
  <2>3. CASE PlanStepEnds(history)
    BY <1>1, <1>2, <2>1, <2>3
  <2>4. CASE pc' = "exectools" /\ history' = Append(history, Act(step, c)) /\ step' = step
    <3>1. pc' \in ToolPlaces /\ pc' # "tools"
      BY <2>4 DEF ToolPlaces
    <3> QED BY <1>1, <2>1, <2>4, <3>1, CallTalks
  <2> QED BY <2>2, <2>3, <2>4
<1>4. CASE ExecToolsReturn
  <2>1. cfg.executor => Unanswered(history)
    BY <1>4 DEF ExecToolsReturn, Talk, Pairs, ToolPlaces
  <2>2. PICK h : h = Append(history, Results(step, Last(history).calls))
    OBVIOUS
  <2>3. IsSeq(h) /\ (cfg.executor => Paired(h))
    BY <1>1, <2>1, <2>2, RoundEnds
  <2>4. PlanStepEnds(h) \/ (pc' = "exec" /\ history' = h)
    BY <1>4, <2>2 DEF ExecToolsReturn, Continues
  <2>5. CASE pc' = "exec" /\ history' = h
    <3>1. pc' \in QuietPlaces
      BY <2>5 DEF QuietPlaces, Waiting
    <3> QED BY <1>1, <2>3, <2>5, <3>1, QuietPlacesAreQuiet, Quietly
  <2> QED BY <1>2, <2>3, <2>4, <2>5
<1> QED BY <1>3, <1>4

LEMMA StrategyTalks ==
  ASSUME TypeOK, Talk, StrategyStep
  PROVE  Talk'
<1>1. CASE Blip
  <2>1. cfg' = cfg /\ pc' = pc /\ step' = step /\ history' = history
    BY <1>1 DEF Blip
  <2> QED BY <2>1 DEF Talk, Shape, Pairs, Remembers, Compactable, Knows, Latest, Lined
<1>2. CASE PlanReplies \/ DecomposeReplies \/ SubAnswerReplies
  <2>1. cfg' = cfg /\ pc \in AskPlaces
    BY <1>2 DEF PlanReplies, DecomposeReplies, SubAnswerReplies, Hears, AskPlaces, Waiting
  <2>2. pc' \in QuietPlaces
    BY <1>2 DEF PlanReplies, DecomposeReplies, SubAnswerReplies, PlanEnds, Composes,
                Continues, QuietPlaces, Waiting
  <2>3. \/ history' = Append(history, Answer)
        \/ history' = Append(Append(history, Answer), Prompt)
    BY <1>2 DEF PlanReplies, DecomposeReplies, SubAnswerReplies, PlanEnds, Composes, Continues
  <2> QED BY <2>1, <2>2, <2>3, PlainTalks, PromptPlain, QuietPlacesAreQuiet
<1>3. CASE BranchReplies \/ VoteReplies \/ ComposeReplies
  <2>1. cfg' = cfg /\ pc \in AskPlaces
    BY <1>3 DEF BranchReplies, VoteReplies, ComposeReplies, Hears, AskPlaces, Waiting
  <2>2. pc' \in QuietPlaces
    BY <1>3 DEF BranchReplies, VoteReplies, ComposeReplies, Composes, Continues, QuietPlaces, Waiting
  <2>3. history' = history \/ history' = Append(history, Prompt)
    BY <1>3 DEF BranchReplies, VoteReplies, ComposeReplies, Composes, Continues
  <2> QED BY <2>1, <2>2, <2>3, PlainTalks, PromptPlain, QuietPlacesAreQuiet
<1>4. CASE ExecToolRaises \/ PlanFinalReplies \/ PlanFinalFails \/ Raises(Waiting)
  <2>1. cfg' = cfg /\ history' = history /\ pc' \in {"raised", "ended"}
    BY <1>4 DEF ExecToolRaises, PlanFinalReplies, PlanFinalFails, Raises, GivesUp, Hears
  <2>2. Quiet(pc') /\ pc' \notin AskPlaces
    BY <2>1 DEF Quiet, ToolPlaces, ReActPlaces2, CoercePlaces, AskPlaces, Waiting
  <2> QED BY <2>1, <2>2, EndTalks
<1> QED BY <1>1, <1>2, <1>3, <1>4, ReActTalks, ExecTalks DEF StrategyStep

---------------------------------------------------------------------------
(* Before and after the strategy.                                            *)
LEMMA PrepareTalks ==
  ASSUME TypeOK, Prepare
  PROVE  Talk'
<1> DEFINE h == <<System, Task>>
<1>1. cfg' = cfg /\ pc' = FirstChat /\ history' = FirstMessages(h) /\ step' = 0
  BY DEF Prepare, StrategyBegins
<1>2. /\ IsSeq(h) /\ Len(h) = 2 /\ h[1] = System /\ h[2] = Task
  <2>1. h \in Seq({System, Task})
    OBVIOUS
  <2> QED BY <2>1 DEF IsSeq
<1>3. Paired(h)
  BY <1>2 DEF Paired, System, Task, Message
<1>4. InRounds(h)
  <2> SUFFICES ASSUME NEW k \in Nat, 2 * k + 1 < 2
               PROVE  h[2 - 2 * k - 1].answers = {}
    BY <1>2 DEF InRounds
  <2>1. k = 0 /\ 2 - 2 * k - 1 = 1
    OBVIOUS
  <2> QED BY <1>2, <2>1 DEF System, Message
<1>5. Knows(h, 0) /\ Lined(h, 0)
  <2>1. h[1].says = {<<"system">>} /\ h[2].says = {<<"task">>} /\ 1..Len(h) = {1, 2}
    BY <1>2 DEF System, Task, Message
  <2>2. 0..(0 - 1) = {}
    OBVIOUS
  <2> HIDE DEF h
  <2>3. {<<"system">>, <<"task">>} \subseteq Conveyed(h) /\ {<<"system">>, <<"task">>} \subseteq Covered(h)
    BY <2>1 DEF Conveyed, Covered
  <2>4. Knows(h, 0)
    BY <2>2, <2>3 DEF Knows, Facts, Latest
  <2>5. Lined(h, 0)
    BY <1>2, <2>1 DEF Lined
  <2> QED BY <2>4, <2>5
<1> HIDE DEF h
<1>6. CASE pc' = "final"
  <2>1. history' = Append(h, Prompt)
    BY <1>1, <1>6 DEF FirstMessages
  <2> QED BY <1>1, <1>2, <1>3, <1>5, <1>6, <2>1, PromptTalks
<1>7. CASE pc' = "chat"
  <2>1. history' = h
    BY <1>1, <1>7 DEF FirstMessages
  <2>2. Shape'
    BY <1>2, <1>7, <2>1 DEF Shape, CoercePlaces
  <2>3. cfg.executor => Pairs'
    BY <1>3, <1>4, <1>7, <2>1 DEF Pairs, ToolPlaces
  <2>4. Remembers'
    BY <1>1, <1>5, <1>7, <2>1 DEF Remembers, CoercePlaces, Knows, Latest, Lined
  <2> QED BY <1>1, <2>2, <2>3, <2>4 DEF Talk
<1>8. CASE pc' \notin {"final", "chat"}
  <2>1. history' = h
    BY <1>1, <1>8 DEF FirstMessages
  <2>2. pc' \in QuietPlaces
    BY <1>1, <1>8 DEF FirstChat, QuietPlaces, Waiting
  <2> QED BY <1>1, <1>2, <1>3, <2>1, <2>2, QuietPlacesAreQuiet, Quietly
<1> QED BY <1>6, <1>7, <1>8

RunnerPlaces == {"idle", "prehook", "prompt", "posthook", "close", "closeerror",
                 "returned", "over", "crashed", "hung"}

LEMMA RunnerTalks ==
  ASSUME TypeOK, Talk, RunnerStep \/ HookHangs
  PROVE  Talk'
<1>1. CASE Prepare
  BY <1>1, PrepareTalks
<1>2. CASE ~Prepare
  <2>1. cfg' = cfg /\ history' = history
    BY <1>2 DEF RunnerStep, HookHangs, At, Keeping, Spawn, PreHookEnds, PostHookEnds,
         PrepareRaises, StrategyRaised, RecordUsage, Close, StoreRaises,
         Grade, JudgeRaises, NoGrading
  <2>2. pc' \in RunnerPlaces
    BY <1>2 DEF RunnerStep, HookHangs, Spawn, PreHookEnds, PostHookEnds, Fails,
         PrepareRaises, StrategyRaised, RecordUsage, Close, StoreRaises,
         Grade, JudgeRaises, NoGrading, RunnerPlaces
  <2>3. Quiet(pc') /\ pc' \notin AskPlaces
    BY <2>2 DEF RunnerPlaces, Quiet, ToolPlaces, ReActPlaces2, CoercePlaces, AskPlaces, Waiting
  <2> QED BY <2>1, <2>3, EndTalks
<1> QED BY <1>1, <1>2

LEMMA TalkInduction == Spec => []Talk
<1>1. Init => Talk
  <2> SUFFICES ASSUME Init PROVE Talk
    OBVIOUS
  <2>1. pc = "idle" /\ history = << >>
    BY DEF Init
  <2>2. IsSeq(history)
    <3>1. << >> \in Seq({})
      OBVIOUS
    <3> QED BY <2>1, <3>1 DEF IsSeq
  <2> QED BY <2>1, <2>2 DEF Talk, Shape, Pairs, Remembers, AskPlaces, ReActPlaces2,
                            ToolPlaces, CoercePlaces, Waiting
<1>2. TypeOK /\ Talk /\ [Next]_vars => Talk'
  <2> SUFFICES ASSUME TypeOK, Talk, [Next]_vars PROVE Talk'
    OBVIOUS
  <2>1. CASE UNCHANGED vars
    <3>1. cfg' = cfg /\ pc' = pc /\ step' = step /\ history' = history
      BY <2>1 DEF vars, thought, loop
    <3> QED BY <3>1 DEF Talk, Shape, Pairs, Remembers, Compactable, Knows, Latest, Lined
  <2>2. CASE Next
    BY <2>1, <2>2, RunnerTalks, StrategyTalks DEF Next, Done
  <2> QED BY <2>1, <2>2
<1> QED BY <1>1, <1>2, TypeCorrect, PTL DEF Spec

---------------------------------------------------------------------------
(* AgentRun.CallsAnswered, for every agent and every tool: whatever request  *)
(* a strategy sends with the history, its tool calls and their answers stand *)
(* side by side.                                                             *)
THEOREM RequestsPairCalls == Spec => []CallsAnswered
<1>1. Talk => CallsAnswered
  <2> SUFFICES ASSUME Talk, Requesting, cfg.executor PROVE Paired(history)
    BY DEF CallsAnswered, Paired
  <2>1. pc \in AskPlaces
    BY DEF Requesting, Asking, Coercing, After, AskPlaces, CoercePlaces
  <2> QED BY <2>1 DEF Talk, Pairs
<1> QED BY <1>1, TalkInduction, PTL

(* AgentRun.HistoryKept, for every agent, budget and number of compactions:  *)
(* the system prompt and the last rounds are in its messages word for word,  *)
(* and what a summarising agent has no longer was given to a summary it has. *)
THEOREM HistoryIsKept == Spec => []HistoryKept
<1>1. Talk => HistoryKept
  BY DEF Talk, Remembers, HistoryKept, Knows, CoercePlaces
<1> QED BY <1>1, TalkInduction, PTL
=============================================================================
