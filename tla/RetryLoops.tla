---------------------------- MODULE RetryLoops ----------------------------
(* EvaluatorLoop, one object that several tasks may run at a time, and a     *)
(* retry mechanism that asks StandardRetryPolicy or NoRetryPolicy.           *)
EXTENDS Naturals, Sequences, FiniteSets, FiniteSetsExt

CONSTANTS
    Tasks,          \* calls of EvaluatorLoop.run
    LoopRounds,     \* max_rounds
    Policies,       \* [max, budget, fatal, base]; budget {} is none
    Hints,          \* max_attempts of a RetryContext, 0 included
    Errors1,        \* classes of errors
    MaxPrice        \* what an attempt may cost

NoTask == "no task"

ASSUME LoopsAssumption ==
    /\ NoTask \notin Tasks /\ LoopRounds \in Nat /\ MaxPrice \in Nat
    /\ Hints \subseteq Nat /\ "none" \notin Errors1
    /\ Policies \subseteq [max : Nat, budget : SUBSET Nat, fatal : SUBSET Errors1, base : Nat]

VARIABLES
    loopRun,        \* task -> [pc, round, output, feedback]: rounds of what it holds
    lists,          \* task -> the list that run has made
    history1,       \* _history: whose list
    answers,        \* task -> what run has returned: [status, rounds, output, history]
    crowded,        \* history: tasks whose run overlapped with another
    retry           \* [pc, policy, hint, attempt, cost, last, error, waited]

loopVars == <<loopRun, lists, history1, answers, crowded, retry>>
evaluatorVars == <<loopRun, lists, history1, answers, crowded>>

NoAnswer == [status |-> "none"]
InRun(r) == loopRun[r].pc \in {"plan", "generate", "evaluate"}

RetryAt(p, h) ==
    retry = [pc |-> "attempts", policy |-> p, hint |-> h, attempt |-> 1, cost |-> 0, last |-> 0, error |-> "none", waited |-> 0]

EvaluatorInit ==
    /\ loopRun = [r \in Tasks |-> [pc |-> "idle", round |-> 0, output |-> 0, feedback |-> 0]]
    /\ lists = [r \in Tasks |-> <<>>] /\ history1 = NoTask
    /\ answers = [r \in Tasks |-> NoAnswer] /\ crowded = {}

---------------------------------------------------------------------------
(* run starts with a list of its own; whoever is at work appends to that.    *)
(* Variant: the old list is emptied instead.                                 *)
RunEmptying(r) ==
    /\ loopRun[r].pc = "idle" /\ loopRun' = [loopRun EXCEPT ![r].pc = "plan"]
    /\ history1' = IF history1 = NoTask THEN r ELSE history1
    /\ lists' = [lists EXCEPT ![history1'] = <<>>]
    /\ crowded' = IF \E o \in Tasks : InRun(o) THEN crowded \cup {r} \cup {o \in Tasks : InRun(o)} ELSE crowded
    /\ UNCHANGED <<answers, retry>>

Run(r) ==
    /\ loopRun[r].pc = "idle" /\ loopRun' = [loopRun EXCEPT ![r].pc = "plan"]
    /\ history1' = r
    /\ crowded' = IF \E o \in Tasks : InRun(o) THEN crowded \cup {r} \cup {o \in Tasks : InRun(o)} ELSE crowded
    /\ UNCHANGED <<lists, answers, retry>>

HistoryEntry(r, phase) == [by |-> r, phase |-> phase, round |-> loopRun[r].round]
Noted(r, phase) == lists' = [lists EXCEPT ![history1] = Append(@, HistoryEntry(r, phase))]
Returned(r, status, rounds) ==
    answers' = [answers EXCEPT ![r] = [status |-> status, rounds |-> rounds, output |-> loopRun[r].output, history |-> history1]]

PlanReturns(r) ==
    /\ loopRun[r].pc = "plan" /\ Noted(r, "plan")
    /\ IF LoopRounds = 0
         THEN Returned(r, "failed", 0) /\ loopRun' = [loopRun EXCEPT ![r].pc = "over"]
         ELSE UNCHANGED answers /\ loopRun' = [loopRun EXCEPT ![r].pc = "generate", ![r].round = 1]
    /\ UNCHANGED <<history1, crowded, retry>>

GenerateReturns(r) ==
    /\ loopRun[r].pc = "generate" /\ Noted(r, "generate")
    /\ loopRun' = [loopRun EXCEPT ![r].pc = "evaluate", ![r].output = loopRun[r].round]
    /\ UNCHANGED <<history1, answers, crowded, retry>>

(* The evaluation passes by itself or by its score; if not, its critique is  *)
(* the feedback of the next round.                                           *)
EvaluateReturns(r, passes) ==
    LET round == loopRun[r].round IN
    /\ loopRun[r].pc = "evaluate" /\ Noted(r, IF passes THEN "passes" ELSE "fails")
    /\ IF passes \/ round = LoopRounds
         THEN Returned(r, IF passes THEN "passed" ELSE "failed", round) /\ loopRun' = [loopRun EXCEPT ![r].pc = "over"]
         ELSE UNCHANGED answers /\ loopRun' = [loopRun EXCEPT ![r].pc = "generate", ![r].round = round + 1, ![r].feedback = round]
    /\ UNCHANGED <<history1, crowded, retry>>

(* One of the three functions raises, or the task is cancelled in it.        *)
StepFails(r) ==
    /\ InRun(r) /\ loopRun' = [loopRun EXCEPT ![r].pc = "over"]
    /\ UNCHANGED <<lists, history1, answers, crowded, retry>>

---------------------------------------------------------------------------
(* A mechanism counts its attempts from 1 and asks after each that fails.    *)
AttemptEnds(price, err) ==
    /\ retry.pc = "attempts" /\ UNCHANGED evaluatorVars
    /\ retry' = [retry EXCEPT !.pc = IF err = "none" THEN "done" ELSE "asks", !.cost = @ + price, !.last = price, !.error = err]

EffectiveMax(p, hint) == IF hint = 0 THEN p.max ELSE Min({p.max, hint})

ShouldRetry(p, c) ==
    /\ p.max # 0                                        \* NoRetryPolicy
    /\ c.attempt < EffectiveMax(p, c.hint)
    /\ \A b \in p.budget : c.cost < b
    /\ c.error \notin p.fatal

Backoff[n \in Nat] == IF n = 0 THEN 1 ELSE 2 * Backoff[n - 1]
ComputeDelay(p, attempt) == p.base * Backoff[attempt - 1]

Asks ==
    /\ retry.pc = "asks" /\ UNCHANGED evaluatorVars
    /\ retry' = IF ShouldRetry(retry.policy, retry)
                THEN [retry EXCEPT !.pc = "attempts", !.attempt = @ + 1, !.waited = @ + ComputeDelay(retry.policy, retry.attempt)]
                ELSE [retry EXCEPT !.pc = "gave up"]

EvaluatorStep ==
    \E r \in Tasks :
        \/ Run(r) \/ PlanReturns(r) \/ GenerateReturns(r) \/ StepFails(r)
        \/ \E passes \in BOOLEAN : EvaluateReturns(r, passes)

RetryStep ==
    \/ \E price \in 0..MaxPrice, err \in Errors1 \cup {"none"} : AttemptEnds(price, err)
    \/ Asks

LoopSpec ==
    /\ EvaluatorInit /\ \E p \in Policies, h \in Hints : RetryAt(p, h)
    /\ [][EvaluatorStep \/ RetryStep]_loopVars

---------------------------------------------------------------------------
(* A run that no other overlapped returns its own history, and keeps it:     *)
(* the plan, then an output and its evaluation for each round, of which the  *)
(* last passes exactly when the answer says so.                              *)
HistoryOf(r, rounds, status) ==
    [k \in 1..(2 * rounds + 1) |->
        IF k = 1 THEN [by |-> r, phase |-> "plan", round |-> 0]
        ELSE [by |-> r, round |-> k \div 2,
              phase |-> IF k % 2 = 0 THEN "generate" ELSE IF k = 2 * rounds + 1 /\ status = "passed" THEN "passes" ELSE "fails"]]

AnswersKeepHistory ==
    \A r \in Tasks : answers[r] # NoAnswer /\ r \notin crowded =>
        lists[answers[r].history] = HistoryOf(r, answers[r].rounds, answers[r].status)

(* Overlapping or not, an answer is the last output with its evaluation, and *)
(* a generator is told of the round before.                                  *)
RoundsFollow ==
    \A r \in Tasks :
        /\ answers[r] # NoAnswer => answers[r].output = answers[r].rounds /\ answers[r].rounds <= LoopRounds
        /\ loopRun[r].pc = "generate" => loopRun[r].feedback = loopRun[r].round - 1 /\ loopRun[r].output = loopRun[r].round - 1

(* No attempt is made beyond the cap, after an error that is fatal, or once  *)
(* the budget is spent; so it is exceeded by less than one attempt, and the  *)
(* waiting is that of the attempts made.                                     *)
RetriesBounded ==
    /\ retry.attempt <= EffectiveMax([retry.policy EXCEPT !.max = Max({1, @})], retry.hint)
    /\ retry.pc = "attempts" => retry.error \notin retry.policy.fatal
    /\ \A b \in retry.policy.budget : retry.attempt > 1 =>
          IF retry.pc = "attempts" THEN retry.cost < b ELSE retry.cost - retry.last < b
    /\ retry.waited = retry.policy.base * (Backoff[retry.attempt - 1] - 1)

LoopsKeepBounds == AnswersKeepHistory /\ RoundsFollow /\ RetriesBounded
=============================================================================
