--------------------------- MODULE IterationEngine ---------------------------
(***************************************************************************)
(* One call of Orchestrator::run (src/core/orchestrator.rs): the loop that *)
(* executes a task, evaluates the output, consults the safety checker and  *)
(* decides whether to iterate again, with what it writes to the store.     *)
(*                                                                         *)
(* A step of this specification is the code between two awaits, or between *)
(* two calls whose results another part of the program sees (a progress    *)
(* event, a row of the store).  The model, the evaluator and the clock are *)
(* the environment: what they answer is chosen from the constants.         *)
(***************************************************************************)
EXTENDS Integers, FiniteSets, SequencesExt

CONSTANTS
  Limits,             \* the values of config.max_iterations (-i), a u8
  QualityThreshold,   \* config.quality_threshold, on the integer score scale
  SkipConfidence,     \* config.skip_eval_confidence
  TokenBudget,        \* safety.max_tokens (= config.token_budget)
  MaxCost,            \* safety.max_cost_usd, in units of Price
  MaxDuration,        \* safety.max_duration_secs
  AbortOnRegression,  \* safety.abort_on_regression
  RegressionThreshold,\* safety.regression_threshold
  ExecPrice,          \* cost of one token of the executor model
  EvalPrice,          \* cost of one token of the evaluator model
  Contents,           \* the outputs a model can answer with
  NoContent,          \* an absent output, or the note of a context overflow
  MaxUsage,           \* the most tokens one execution or evaluation reports
  Usages,             \* the amounts it can report
  Scores,             \* scores an evaluation can give
  ConservativeScore,  \* the 0.5 given when the evaluator fails
  LearnDrop,          \* a drop beyond this is drafted as an anti-pattern
  SameScoreDelta,     \* a change below this is drafted as diminishing returns
  StoreMayFail        \* whether a store operation can return an error

ASSUME LimitsAssumption ==
  /\ Limits \subseteq 0..255
  /\ TokenBudget \in Nat
  /\ MaxCost \in Nat
  /\ MaxDuration \in Nat
  /\ ExecPrice \in Nat
  /\ EvalPrice \in Nat
  /\ AbortOnRegression \in BOOLEAN
  /\ StoreMayFail \in BOOLEAN

ASSUME ScoreAssumption ==
  /\ Scores \subseteq Nat
  /\ ConservativeScore \in Scores
  /\ 0 \in Scores
  /\ QualityThreshold \in Nat
  /\ SkipConfidence \in Nat
  /\ RegressionThreshold \in Nat
  /\ LearnDrop \in Nat
  /\ SameScoreDelta \in Nat

ASSUME AnswerAssumption ==
  /\ MaxUsage \in Nat
  /\ Usages \subseteq 0..MaxUsage
  /\ NoContent \notin Contents

VARIABLES
  pc,         \* where run() is
  limit,      \* config.max_iterations of this run
  i,          \* the loop variable, 0-based
  cycles,     \* Vec<IterationCycle>
  cur,        \* the cycle of this iteration, before it is pushed
  spent,      \* budget.spent()
  cost,       \* cost_tracker.total_usd
  elapsed,    \* start.elapsed(), saturated at MaxDuration
  bestIdx,    \* best_idx as an index of cycles from 1, 0 for None
  tasks,      \* ids of the rows of the store's tasks table
  taskRow,    \* the columns complete_task writes in the row of this run
  cycleRows,  \* iterations with a row in iteration_cycles
  drafts,     \* what the extractor returned
  saved,      \* learnings rows of this run
  lastEvent,  \* the last ProgressEvent emitted
  result      \* what run() returned

store == <<tasks, taskRow, cycleRows, saved>>
loop  == <<limit, i, cycles, cur, bestIdx>>
meter == <<spent, cost>>
vars  == <<pc, loop, meter, elapsed, store, drafts, lastEvent, result>>

-----------------------------------------------------------------------------
(* Data *)

Decisions == {"continue", "accept", "accept_best", "skip_eval",
              "abort_budget", "abort_timeout", "abort_regression"}

Aborts == {"abort_budget", "abort_timeout", "abort_regression"}

\* evaluation is flattened: `evaluated` is is_some(), `score` is score() (0
\* without an evaluation), `clean` is tests_passed && static_analysis_passed.
Cycle == [content   : Contents \union {NoContent},
          evaluated : BOOLEAN,
          score     : Scores,
          clean     : BOOLEAN,
          decision  : Decisions]

NewCycle == [content   |-> NoContent,
             evaluated |-> FALSE,
             score     |-> 0,
             clean     |-> FALSE,
             decision  |-> "continue"]

\* The id of the tasks row is a fresh uuid; the cycles and the learnings name
\* the id of the TaskInput.
RunId  == "run"
TaskId == "task"

OpenRow == [complete |-> FALSE, score |-> 0, iterations |-> 0,
            decision |-> "continue"]

RowType == [complete : BOOLEAN, score : Scores, iterations : 0..255,
            decision : Decisions]

NoResult == [status |-> "none", cycle |-> 0, iterations |-> 0, learnings |-> 0]

\* A progress event is its name and the iteration it carries.
Event(name, n) == [name |-> name, iteration |-> n]

\* A learning draft is its origin and the cycle it is about (0: the run).
Draft(origin, k) == [origin |-> origin, at |-> k]

\* Where run() waits for the provider, and where it has stopped.
Awaiting == {"execute", "evaluate", "extract"}
Stopped  == {"done", "failed", "crashed"}
PCs      == {"begin", "loop", "check", "save", "record", "return"}
            \union Awaiting \union Stopped

-----------------------------------------------------------------------------
(* Pure decisions of the loop.  A definition whose name ends in Mutant is a *)
(* wrong version of the one after it, used only to show that a property     *)
(* would notice the mistake.                                                *)

\* EvalCache::should_skip_eval, for a cycle whose output is `content`.
SameOutput(content)  == Len(cycles) > 0 /\ Last(cycles).content = content
ConfidentAnyScoreMutant == Len(cycles) > 0 /\ Last(cycles).evaluated /\ Last(cycles).clean
ConfidentUncleanMutant  == /\ Len(cycles) > 0
                           /\ Last(cycles).evaluated
                           /\ Last(cycles).score >= SkipConfidence
ConfidentPrevious    == /\ Len(cycles) > 0
                        /\ Last(cycles).evaluated
                        /\ Last(cycles).score >= SkipConfidence
                        /\ Last(cycles).clean
ShouldSkipEval(content) == SameOutput(content) \/ ConfidentPrevious

RegressedLateMutant ==
  /\ AbortOnRegression
  /\ Len(cycles) >= 3
  /\ Last(cycles).evaluated
  /\ cur.evaluated
  /\ Last(cycles).score - cur.score > RegressionThreshold

\* SafetyChecker::check
Regressed ==
  /\ AbortOnRegression
  /\ Len(cycles) >= 2
  /\ Last(cycles).evaluated
  /\ cur.evaluated
  /\ Last(cycles).score - cur.score > RegressionThreshold

OverBudgetStrictMutant == spent > TokenBudget \/ cost > MaxCost
OverBudget == spent >= TokenBudget \/ cost >= MaxCost
TimedOut   == elapsed >= MaxDuration

SafetyAbortUntimedMutant ==
  CASE OverBudget               -> "abort_budget"
    [] ~OverBudget /\ Regressed -> "abort_regression"
    [] OTHER                    -> "none"

SafetyAbort ==
  CASE OverBudget                              -> "abort_budget"
    [] ~OverBudget /\ TimedOut                 -> "abort_timeout"
    [] ~OverBudget /\ ~TimedOut /\ Regressed   -> "abort_regression"
    [] OTHER                                   -> "none"

DecideNeverAcceptMutant ==
  IF i + 1 >= limit THEN "accept_best" ELSE cur.decision

\* The decision logic after a safety check that let the cycle through.
Decide ==
  IF cur.score >= QualityThreshold THEN "accept"
  ELSE IF i + 1 >= limit THEN "accept_best"
  ELSE cur.decision

BestAfterStrictMutant ==
  IF bestIdx = 0 \/ cur.score > cycles[bestIdx].score
  THEN Len(cycles) + 1
  ELSE bestIdx

\* The index best_idx takes when `cur` is pushed.
BestAfter ==
  IF bestIdx = 0 \/ cur.score >= cycles[bestIdx].score
  THEN Len(cycles) + 1
  ELSE bestIdx

BestIsLastMutant == Len(cycles)

\* best = cycles[best_idx], or the last cycle
Best == IF bestIdx # 0 THEN bestIdx ELSE Len(cycles)

-----------------------------------------------------------------------------
(* Store operations.  The callers ignore their errors (`let _ =`).         *)

StoreOk == IF StoreMayFail THEN BOOLEAN ELSE {TRUE}

InsertTask ==
  \E ok \in StoreOk : tasks' = IF ok THEN tasks \union {RunId} ELSE tasks

\* insert_cycle for the iteration at the loop variable: the row references the
\* tasks row, and the insert fails when that row is missing.
PersistCycle ==
  \E ok \in StoreOk :
    cycleRows' = IF ok /\ RunId \in tasks THEN cycleRows \union {i} ELSE cycleRows

\* insert_learning for each draft: source_task, which references tasks(id), is
\* the TaskInput's id.
SaveLearnings ==
  IF TaskId \in tasks
  THEN \E failed \in (IF StoreMayFail THEN SUBSET drafts ELSE {{}}) :
         saved' = drafts \ failed
  ELSE saved' = saved

CompleteWithLastMutant ==
  \E ok \in StoreOk :
    taskRow' = IF ok /\ RunId \in tasks
               THEN [complete   |-> TRUE,
                     score      |-> Last(cycles).score,
                     iterations |-> Len(cycles),
                     decision   |-> Last(cycles).decision]
               ELSE taskRow

\* complete_task updates the row of this run, if it is there.
CompleteTask ==
  \E ok \in StoreOk :
    taskRow' = IF ok /\ RunId \in tasks
               THEN [complete   |-> TRUE,
                     score      |-> cycles[Best].score,
                     iterations |-> Len(cycles),
                     decision   |-> cycles[Best].decision]
               ELSE taskRow

-----------------------------------------------------------------------------
Init ==
  /\ pc = "begin"
  /\ limit \in Limits
  /\ i = 0
  /\ cycles = <<>>
  /\ cur = NewCycle
  /\ spent = 0
  /\ cost = 0
  /\ elapsed = 0
  /\ bestIdx = 0
  /\ tasks = {}
  /\ taskRow = OpenRow
  /\ cycleRows = {}
  /\ drafts = {}
  /\ saved = {}
  /\ lastEvent = Event("none", 0)
  /\ result = NoResult

\* insert_task and PlanReady
Begin ==
  /\ pc = "begin"
  /\ pc' = "loop"
  /\ InsertTask
  /\ lastEvent' = Event("PlanReady", 0)
  /\ UNCHANGED <<loop, meter, elapsed, taskRow, cycleRows, saved, drafts, result>>

StartOneMoreMutant ==
  /\ pc = "loop"
  /\ i <= limit
  /\ pc' = "execute"
  /\ cur' = NewCycle
  /\ lastEvent' = Event("IterationStart", i + 1)
  /\ UNCHANGED <<limit, i, cycles, bestIdx, meter, elapsed, store, drafts, result>>

StartIteration ==
  /\ pc = "loop"
  /\ i < limit
  /\ pc' = "execute"
  /\ cur' = NewCycle
  /\ lastEvent' = Event("IterationStart", i + 1)
  /\ UNCHANGED <<limit, i, cycles, bestIdx, meter, elapsed, store, drafts, result>>

\* Ok(output): the usage is deducted, then the evaluation is skipped or not.
Execute(content, use) ==
  /\ pc = "execute"
  /\ spent' = spent + use
  /\ cost' = cost + use * ExecPrice
  /\ IF ShouldSkipEval(content)
     THEN /\ pc' = "check"
          /\ cur' = [cur EXCEPT !.content = content, !.decision = "skip_eval"]
     ELSE /\ pc' = "evaluate"
          /\ cur' = [cur EXCEPT !.content = content]
  /\ UNCHANGED <<limit, i, cycles, bestIdx, elapsed, store, drafts, lastEvent, result>>

OverflowRetriesMutant ==
  /\ pc = "execute"
  /\ pc' = "loop"
  /\ UNCHANGED <<loop, meter, elapsed, store, drafts, lastEvent, result>>

\* Err(ContextOverflow): pushed as "continue", past every check.
Overflow ==
  /\ pc = "execute"
  /\ cycles' = Append(cycles, cur)
  /\ PersistCycle
  /\ i' = i + 1
  /\ pc' = "loop"
  /\ UNCHANGED <<limit, cur, bestIdx, meter, elapsed, tasks, taskRow, saved, drafts,
                 lastEvent, result>>

\* Any other Err: pushed as AbortBudget, and the loop ends.
ExecuteFails ==
  /\ pc = "execute"
  /\ cycles' = Append(cycles, [cur EXCEPT !.decision = "abort_budget"])
  /\ PersistCycle
  /\ pc' = "extract"
  /\ UNCHANGED <<limit, i, cur, bestIdx, meter, elapsed, tasks, taskRow, saved, drafts,
                 lastEvent, result>>

Evaluate(score, clean, use) ==
  /\ pc = "evaluate"
  /\ pc' = "check"
  /\ spent' = spent + use
  /\ cost' = cost + use * EvalPrice
  /\ cur' = [cur EXCEPT !.evaluated = TRUE, !.score = score, !.clean = clean]
  /\ UNCHANGED <<limit, i, cycles, bestIdx, elapsed, store, drafts, lastEvent, result>>

EvaluateFails ==
  /\ pc = "evaluate"
  /\ pc' = "check"
  /\ cur' = [cur EXCEPT !.evaluated = TRUE, !.score = ConservativeScore,
                        !.clean = FALSE]
  /\ UNCHANGED <<limit, i, cycles, bestIdx, meter, elapsed, store, drafts, lastEvent,
                 result>>

\* The safety checker aborts: best_idx does not see the cycle.
Abort ==
  /\ pc = "check"
  /\ SafetyAbort # "none"
  /\ cycles' = Append(cycles, [cur EXCEPT !.decision = SafetyAbort])
  /\ PersistCycle
  /\ pc' = "extract"
  /\ lastEvent' = Event("SafetyWarning", i + 1)
  /\ UNCHANGED <<limit, i, cur, bestIdx, meter, elapsed, tasks, taskRow, saved, drafts,
                 result>>

\* The safety checker lets the cycle through: decide, track the best, push.
Conclude ==
  /\ pc = "check"
  /\ SafetyAbort = "none"
  /\ cycles' = Append(cycles, [cur EXCEPT !.decision = Decide])
  /\ bestIdx' = BestAfter
  /\ PersistCycle
  /\ lastEvent' = Event("IterationEnd", i + 1)
  /\ IF Decide = "continue"
     THEN pc' = "loop" /\ i' = i + 1
     ELSE pc' = "extract" /\ i' = i
  /\ UNCHANGED <<limit, cur, meter, elapsed, tasks, taskRow, saved, drafts, result>>

\* The range 0..max_iterations is used up.
Exhausted ==
  /\ pc = "loop"
  /\ i >= limit
  /\ pc' = "extract"
  /\ UNCHANGED <<loop, meter, elapsed, store, drafts, lastEvent, result>>
\* LearningExtractor::extract_from_scores: a regression between two adjacent
\* evaluated cycles, and two last scores that hardly differ.
ScoreDrafts ==
  LET evaluated == SelectSeq(cycles, LAMBDA c : c.evaluated)
      n         == Len(evaluated)
      change    == evaluated[n].score - evaluated[n - 1].score
  IN  {Draft("regression", k) : k \in
         {k \in 2..Len(cycles) : /\ cycles[k - 1].evaluated
                                 /\ cycles[k].evaluated
                                 /\ cycles[k - 1].score - cycles[k].score
                                      > LearnDrop}}
      \union
      {d \in {Draft("diminishing", 0)} :
         /\ Len(cycles) >= 3
         /\ n >= 2
         /\ change < SameScoreDelta
         /\ -change < SameScoreDelta}

\* extract_from_findings and llm_extract: whether they draft anything depends
\* on findings the model leaves out, and on at least two cycles.
FindingDrafts ==
  {d \in {Draft("blockers", 0), Draft("llm", 0)} : Len(cycles) >= 2}

\* extract(): deduplication against the store may drop any of the drafts.
Extract ==
  /\ pc = "extract"
  /\ pc' = "save"
  /\ drafts' \in SUBSET (ScoreDrafts \union FindingDrafts)
  /\ UNCHANGED <<loop, meter, elapsed, store, lastEvent, result>>

Save ==
  /\ pc = "save"
  /\ SaveLearnings
  /\ pc' = "record"
  /\ UNCHANGED <<loop, meter, elapsed, tasks, taskRow, cycleRows, drafts,
                 lastEvent, result>>

Record ==
  /\ pc = "record"
  /\ Len(cycles) > 0
  /\ CompleteTask
  /\ pc' = "return"
  /\ UNCHANGED <<loop, meter, elapsed, tasks, cycleRows, saved, drafts,
                 lastEvent, result>>

\* "No iterations completed": run() returns before complete_task.
ReturnError ==
  /\ pc = "record"
  /\ Len(cycles) = 0
  /\ result' = [NoResult EXCEPT !.status = "error"]
  /\ pc' = "failed"
  /\ UNCHANGED <<loop, meter, elapsed, store, drafts, lastEvent>>

ReturnLimitMutant ==
  /\ pc = "return"
  /\ lastEvent' = Event("Complete", limit)
  /\ result' = [status     |-> "ok",
                cycle      |-> Best,
                iterations |-> limit,
                learnings  |-> Cardinality(saved)]
  /\ pc' = "done"
  /\ UNCHANGED <<loop, meter, elapsed, store, drafts>>

\* Complete, then Ok(TaskResult)
Return ==
  /\ pc = "return"
  /\ lastEvent' = Event("Complete", Len(cycles))
  /\ result' = [status     |-> "ok",
                cycle      |-> Best,
                iterations |-> Len(cycles),
                learnings  |-> Cardinality(saved)]
  /\ pc' = "done"
  /\ UNCHANGED <<loop, meter, elapsed, store, drafts>>

\* Time passes while run() waits; after the loop nothing reads the clock.
Tick ==
  /\ pc \in {"execute", "evaluate"}
  /\ elapsed < MaxDuration
  /\ elapsed' = elapsed + 1
  /\ UNCHANGED <<pc, loop, meter, store, drafts, lastEvent, result>>

\* The process dies: the store keeps what was committed.
Crash ==
  /\ pc \notin Stopped
  /\ pc' = "crashed"
  /\ UNCHANGED <<loop, meter, elapsed, store, drafts, lastEvent, result>>

\* The run has returned, or died.
Halted == pc \in Stopped /\ UNCHANGED vars

Answer ==
  \/ \E content \in Contents, use \in Usages : Execute(content, use)
  \/ Overflow
  \/ ExecuteFails
  \/ \E score \in Scores, clean \in BOOLEAN, use \in Usages :
       Evaluate(score, clean, use)
  \/ EvaluateFails
  \/ Extract

Advance ==
  \/ Begin
  \/ StartIteration
  \/ Exhausted
  \/ Abort
  \/ Conclude
  \/ Save
  \/ Record
  \/ ReturnError
  \/ Return

Next == Advance \/ Answer \/ Tick \/ Crash \/ Halted

Spec == Init /\ [][Next]_vars

\* Advance is the code's own thread of control; Answer is the provider, which
\* is assumed to answer or to fail in the end.
FairSpec == Spec /\ WF_vars(Advance) /\ WF_vars(Answer)

-----------------------------------------------------------------------------
(* Properties *)

\* Every variable keeps its type; the accumulated usage stays a natural number.
TypeOK ==
  /\ pc \in PCs
  /\ limit \in Limits
  /\ i \in 0..limit
  /\ cycles \in Seq(Cycle)
  /\ cur \in Cycle
  /\ spent \in Nat
  /\ cost \in Nat
  /\ elapsed \in 0..MaxDuration
  /\ bestIdx \in 0..Len(cycles)
  /\ tasks \subseteq {RunId}
  /\ taskRow \in RowType
  /\ cycleRows \subseteq 0..limit
  /\ saved \subseteq drafts
  /\ lastEvent.iteration \in 0..limit
  /\ result.cycle \in 0..Len(cycles)

\* The cycles best_idx compares: those the safety checker let through.
Considered ==
  {k \in DOMAIN cycles : /\ cycles[k].decision \notin Aborts
                         /\ cycles[k].content # NoContent}

\* The answer is never beaten by another cycle that passed the safety check,
\* and a tie goes to the later cycle, although best_idx is only ever compared
\* with the cycle it points to and skipped evaluations score 0.
AnswerIsLatestBest ==
  result.status = "ok" =>
    \A k \in Considered :
      \/ cycles[k].score < cycles[result.cycle].score
      \/ /\ cycles[k].score = cycles[result.cycle].score
         /\ k <= result.cycle

\* Only the last cycle can carry a decision that ends the run, and no earlier
\* cycle had reached the quality threshold.
OnlyLastCycleEnds ==
  \A k \in 1..(Len(cycles) - 1) :
    /\ cycles[k].decision = "continue"
    /\ cycles[k].evaluated => cycles[k].score < QualityThreshold

\* The token budget is checked once per iteration, after up to two calls: the
\* overshoot is less than the usage of one execution and one evaluation.
SpentBounded == TokenBudget > 0 => spent < TokenBudget + 2 * MaxUsage

\* With the skip threshold at or above the quality threshold, the rule "the
\* previous score was very high" never fires (such a score ends the run): an
\* output that no evaluator saw repeats the output before it.
UnevaluatedIsRepeated ==
  SkipConfidence >= QualityThreshold =>
    \A k \in DOMAIN cycles :
      ~cycles[k].evaluated /\ cycles[k].content # NoContent =>
        k > 1 /\ cycles[k - 1].content = cycles[k].content

\* Whatever the thresholds: an output that no evaluator saw repeats the output
\* before it, or follows one that was clean and scored at least the confidence.
UnevaluatedIsTrusted ==
  \A k \in DOMAIN cycles :
    ~cycles[k].evaluated /\ cycles[k].content # NoContent =>
      /\ k > 1
      /\ \/ cycles[k - 1].content = cycles[k].content
         \/ /\ cycles[k - 1].evaluated
            /\ cycles[k - 1].clean
            /\ cycles[k - 1].score >= SkipConfidence

\* From the third cycle on, a drop beyond the threshold between two evaluated
\* cycles ends the run as an abort (cycles.len() >= 2 exempts the second).
RegressionEndsRun ==
  AbortOnRegression =>
    \A k \in 3..Len(cycles) :
      /\ cycles[k - 1].evaluated
      /\ cycles[k].evaluated
      /\ cycles[k - 1].score - cycles[k].score > RegressionThreshold
      => cycles[k].decision \in Aborts

\* The rows agree whatever store operations failed and wherever the process
\* died: cycle rows need their task row, a completed row counts every cycle and
\* its score is at least that of each recorded cycle that was not aborted.
RowsAgree ==
  /\ cycleRows # {} => RunId \in tasks
  /\ taskRow.complete =>
       /\ cycleRows \subseteq 0..(taskRow.iterations - 1)
       /\ \A k \in Considered : cycles[k].score <= taskRow.score

\* A further iteration starts only within the budget, the cost limit and the
\* deadline, unless all that precedes it, or the cycle just before it for the
\* deadline, is a context overflow, which skips the checks.
RetryWithinLimits ==
  [][pc = "loop" /\ pc' = "execute" =>
       /\ (\E k \in DOMAIN cycles : cycles[k].content # NoContent) =>
            spent < TokenBudget /\ cost < MaxCost
       /\ Len(cycles) > 0 /\ Last(cycles).content # NoContent =>
            elapsed < MaxDuration]_vars

\* A run whose provider answers or fails in the end returns, or dies.
Terminates == <>(pc \in Stopped)

\* What TaskRun sees of a state.
Phase ==
  CASE pc \in {"extract", "save", "record", "return"} -> "answering"
    [] pc = "done"                                    -> "answered"
    [] pc = "failed"                                  -> "failed"
    [] pc = "crashed"                                 -> "dead"
    [] OTHER                                          -> "running"

Attempts == [k \in DOMAIN cycles |->
               [score |-> cycles[k].score, eligible |-> k \in Considered]]

Run == INSTANCE TaskRun WITH
  phase <- Phase, attempts <- Attempts, answer <- result.cycle

\* Every run is a run of TaskRun: the incremental best_idx makes the choice
\* TaskRun states, and no path through the loop starts an attempt too many.
ImplementsTaskRun == Run!TaskSpec

\* The events of every run follow the order its listeners rely on.
Progress == INSTANCE ProgressProtocol WITH last <- lastEvent

FollowsProtocol == Progress!ProtocolSpec

-----------------------------------------------------------------------------
(* What the docs of the repository say, refuted by the code *)

\* README.md:65: "Learnings persist across sessions."
LearningsPersist == result.status = "ok" => saved = drafts
=============================================================================
