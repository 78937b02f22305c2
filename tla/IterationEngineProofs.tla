------------------------ MODULE IterationEngineProofs ------------------------
(***************************************************************************)
(* Theorems about IterationEngine for every value of its constants; that   *)
(* it implements TaskRun and ProgressProtocol comes last.                  *)
(*                                                                         *)
(* The safety properties are not inductive: each speaks of the cycles and  *)
(* the counters, but a step depends on where run() is and on the cycle it  *)
(* is building.  IInv adds what holds at each program point.               *)
(***************************************************************************)
EXTENDS IterationEngine, TLAPS

-----------------------------------------------------------------------------
(* The inductive invariant *)

InLoop == {"begin", "loop", "execute", "evaluate", "check"}

\* One cycle per iteration entered and left, and never more than the limit.
CountInv ==
  /\ Len(cycles) <= limit
  /\ pc \in InLoop => Len(cycles) = i
  /\ pc \in {"execute", "evaluate", "check"} => i < limit
  /\ pc = "return" => Len(cycles) > 0
  /\ pc = "begin" => i = 0

\* What the cycle under construction holds at each point of the iteration.
CurInv ==
  /\ pc = "execute" => cur = NewCycle
  /\ pc = "evaluate" =>
       /\ cur.decision = "continue"
       /\ ~cur.evaluated
       /\ cur.score = 0
       /\ cur.content \in Contents
  /\ pc = "check" =>
       /\ cur.content \in Contents
       /\ cur.decision \in {"continue", "skip_eval"}
       /\ cur.evaluated <=> cur.decision = "continue"
       /\ ~cur.evaluated => cur.score = 0 /\ ShouldSkipEval(cur.content)

\* While the loop runs, every pushed cycle asked for another iteration.
OpenInv ==
  pc \in InLoop =>
    \A k \in DOMAIN cycles :
      /\ cycles[k].decision = "continue"
      /\ cycles[k].evaluated => cycles[k].score < QualityThreshold

\* best_idx is the latest maximum over the cycles considered so far.
BestInv ==
  /\ bestIdx = 0 => Considered = {}
  /\ bestIdx # 0 => bestIdx \in Considered
  /\ \A k \in Considered :
       \/ cycles[k].score < cycles[bestIdx].score
       \/ cycles[k].score = cycles[bestIdx].score /\ k <= bestIdx

\* The budget left at each point of the iteration.
SpentInv ==
  TokenBudget > 0 =>
    /\ pc \in {"begin", "loop", "execute"} => spent < TokenBudget
    /\ pc = "evaluate" => spent < TokenBudget + MaxUsage
    /\ spent < TokenBudget + 2 * MaxUsage

\* The answer is the cycle best_idx names, once run() has returned.
ResultInv ==
  /\ pc \notin {"done", "failed"} => result = NoResult
  /\ result.status = "ok" =>
       pc = "done" /\ Len(cycles) > 0 /\ result.cycle = Best

\* Learnings are saved after they are drafted.
SavedInv == pc \in InLoop \union {"extract"} => saved = {}

\* What the rows say of the cycles.
RowInv ==
  /\ cycleRows \subseteq 0..(Len(cycles) - 1)
  /\ cycleRows # {} => RunId \in tasks
  /\ taskRow.complete =>
       /\ pc \in {"return"} \union Stopped
       /\ Len(cycles) > 0
       /\ taskRow.iterations = Len(cycles)
       /\ taskRow.score = cycles[Best].score

IInv ==
  /\ TypeOK
  /\ CountInv
  /\ CurInv
  /\ OpenInv
  /\ BestInv
  /\ SpentInv
  /\ ResultInv
  /\ SavedInv
  /\ RowInv
  /\ OnlyLastCycleEnds
  /\ UnevaluatedIsTrusted
  /\ RegressionEndsRun

-----------------------------------------------------------------------------
(* Helpers *)

\* Pushing a cycle keeps the others where they are.
LEMMA PushFacts ==
  ASSUME NEW s \in Seq(Cycle), NEW c \in Cycle
  PROVE  /\ Append(s, c) \in Seq(Cycle)
         /\ Len(Append(s, c)) = Len(s) + 1
         /\ DOMAIN Append(s, c) = 1..(Len(s) + 1)
         /\ DOMAIN s = 1..Len(s)
         /\ Len(s) \in Nat
         /\ \A k \in 1..Len(s) : Append(s, c)[k] = s[k]
         /\ Append(s, c)[Len(s) + 1] = c
  OBVIOUS

\* An indexed cycle is a cycle, and has the fields of one.
LEMMA CycleFacts ==
  ASSUME NEW s \in Seq(Cycle), NEW k \in 1..Len(s)
  PROVE  /\ s[k] \in Cycle
         /\ s[k].score \in Nat
         /\ s[k].decision \in Decisions
         /\ s[k].evaluated \in BOOLEAN
         /\ s[k].score \in Scores
<1>1. s[k] \in Cycle
  OBVIOUS
<1> QED
  BY <1>1, ScoreAssumption DEF Cycle

\* What a call reports keeps the counters natural numbers.
LEMMA UsageFacts ==
  ASSUME NEW use \in Usages, NEW total \in Nat
  PROVE  /\ use \in 0..MaxUsage
         /\ total + use \in Nat
         /\ total + use * ExecPrice \in Nat
         /\ total + use * EvalPrice \in Nat
<1>1. use \in 0..MaxUsage /\ use \in Nat /\ ExecPrice \in Nat /\ EvalPrice \in Nat
  BY AnswerAssumption, LimitsAssumption
<1>2. \A a, b \in Nat : a * b \in Nat /\ a + b \in Nat
  OBVIOUS
<1> DEFINE exec == use * ExecPrice
           eval == use * EvalPrice
<1>3. exec \in Nat /\ eval \in Nat
  BY <1>1, <1>2
<1> HIDE DEF exec, eval
<1>4. total + use \in Nat /\ total + exec \in Nat /\ total + eval \in Nat
  BY <1>1, <1>2, <1>3
<1> QED
  BY <1>1, <1>4 DEF exec, eval

\* The decision logic yields a decision.
LEMMA DecideType == cur \in Cycle => Decide \in Decisions
  BY DEF Decide, Decisions, Cycle

\* An abort of the safety checker is one of the three abort decisions.
LEMMA AbortType == SafetyAbort # "none" => SafetyAbort \in Aborts
  BY DEF SafetyAbort, Aborts

\* What the verdict "none" says.
LEMMA AbortNone ==
  SafetyAbort = "none" => ~OverBudget /\ ~TimedOut /\ ~Regressed
  BY DEF SafetyAbort

-----------------------------------------------------------------------------
(* The initial states *)

\* run() starts in a state of the inductive invariant.
THEOREM InitIInv == Init => IInv
<1> SUFFICES ASSUME Init PROVE IInv
  OBVIOUS
<1> USE DEF Init, NewCycle, OpenRow, NoResult, Event
<1>1. cycles = <<>> /\ Len(cycles) = 0 /\ DOMAIN cycles = {}
  OBVIOUS
<1>2. TypeOK
  BY <1>1, LimitsAssumption, ScoreAssumption
     DEF TypeOK, PCs, Cycle, Decisions, RowType
<1>3. Considered = {}
  BY <1>1 DEF Considered
<1>4. CountInv /\ CurInv /\ OpenInv /\ BestInv
  BY <1>1, <1>3, LimitsAssumption DEF CountInv, CurInv, OpenInv, BestInv
<1>5. SpentInv /\ ResultInv /\ SavedInv /\ RowInv
  BY <1>1, LimitsAssumption, AnswerAssumption
     DEF SpentInv, ResultInv, SavedInv, RowInv
<1>6. OnlyLastCycleEnds /\ UnevaluatedIsTrusted /\ RegressionEndsRun
  BY <1>1 DEF OnlyLastCycleEnds, UnevaluatedIsTrusted, RegressionEndsRun
<1> QED
  BY <1>2, <1>4, <1>5, <1>6 DEF IInv

-----------------------------------------------------------------------------
(* Type correctness *)

\* Every step keeps the types; an index of a row or an event needs the
\* relation between the loop variable and the cycles (CountInv) to stay in range.
LEMMA TypeStep ==
  TypeOK /\ CountInv /\ CurInv /\ SavedInv /\ [Next]_vars => TypeOK'
<1> SUFFICES ASSUME TypeOK, CountInv, CurInv, SavedInv, [Next]_vars
             PROVE  TypeOK'
  OBVIOUS
<1> USE LimitsAssumption, ScoreAssumption, AnswerAssumption
        DEF PCs, Awaiting, Stopped, Event
<1>0. limit \in 0..255 /\ Len(cycles) \in Nat
  BY DEF TypeOK
<1>1. CASE Begin
  BY <1>1 DEF Begin, InsertTask, StoreOk, TypeOK, loop, meter
<1>2. CASE StartIteration
  BY <1>0, <1>2 DEF StartIteration, TypeOK, NewCycle, Cycle, Decisions,
                    store, meter
<1>3. ASSUME NEW content \in Contents, NEW use \in Usages, Execute(content, use)
      PROVE  TypeOK'
  <2>0. spent + use \in Nat /\ cost + use * ExecPrice \in Nat
    BY UsageFacts DEF TypeOK
  <2>1. spent' \in Nat /\ cost' \in Nat
    BY <1>3, <2>0 DEF Execute
  <2>2. cur' \in Cycle
    <3>1. /\ [cur EXCEPT !.content = content, !.decision = "skip_eval"] \in Cycle
          /\ [cur EXCEPT !.content = content] \in Cycle
      BY DEF TypeOK, Cycle, Decisions
    <3> QED
      BY <1>3, <3>1 DEF Execute
  <2> QED
    BY <1>3, <2>1, <2>2 DEF Execute, TypeOK, store
<1>4. ASSUME NEW score \in Scores, NEW clean \in BOOLEAN, NEW use \in Usages,
             Evaluate(score, clean, use)
      PROVE  TypeOK'
  <2>0. spent + use \in Nat /\ cost + use * EvalPrice \in Nat
    BY UsageFacts DEF TypeOK
  <2>1. spent' \in Nat /\ cost' \in Nat
    BY <1>4, <2>0 DEF Evaluate
  <2>2. cur' \in Cycle
    BY <1>4 DEF Evaluate, TypeOK, Cycle
  <2> QED
    BY <1>4, <2>1, <2>2 DEF Evaluate, TypeOK, store
<1>5. CASE EvaluateFails
  <2>1. cur' \in Cycle
    BY <1>5 DEF EvaluateFails, TypeOK, Cycle
  <2> QED
    BY <1>5, <2>1 DEF EvaluateFails, TypeOK, store, meter
<1>6. CASE Overflow
  <2>1. i < limit /\ i' \in 0..limit
    BY <1>0, <1>6 DEF Overflow, CountInv, TypeOK
  <2>2. cycles' \in Seq(Cycle) /\ Len(cycles') = Len(cycles) + 1
    BY <1>6, PushFacts DEF Overflow, TypeOK
  <2>3. cycleRows' \subseteq 0..limit
    BY <1>6 DEF Overflow, TypeOK, PersistCycle, StoreOk
  <2> QED
    BY <1>0, <1>6, <2>1, <2>2, <2>3 DEF Overflow, TypeOK, meter
<1>7. CASE ExecuteFails
  <2>1. [cur EXCEPT !.decision = "abort_budget"] \in Cycle
    BY DEF TypeOK, Cycle, Decisions
  <2>2. cycles' \in Seq(Cycle) /\ Len(cycles') = Len(cycles) + 1
    BY <1>7, <2>1, PushFacts DEF ExecuteFails, TypeOK
  <2>3. cycleRows' \subseteq 0..limit
    BY <1>7 DEF ExecuteFails, TypeOK, PersistCycle, StoreOk
  <2> QED
    BY <1>0, <1>7, <2>2, <2>3 DEF ExecuteFails, TypeOK, meter
<1>8. CASE Abort
  <2>1. [cur EXCEPT !.decision = SafetyAbort] \in Cycle
    BY <1>8, AbortType DEF Abort, TypeOK, Cycle, Decisions, Aborts
  <2>2. cycles' \in Seq(Cycle) /\ Len(cycles') = Len(cycles) + 1
    BY <1>8, <2>1, PushFacts DEF Abort, TypeOK
  <2>3. cycleRows' \subseteq 0..limit
    BY <1>8 DEF Abort, TypeOK, PersistCycle, StoreOk
  <2>4. i + 1 \in 0..limit
    BY <1>0, <1>8 DEF Abort, CountInv, TypeOK
  <2> QED
    BY <1>0, <1>8, <2>2, <2>3, <2>4 DEF Abort, TypeOK, meter
<1>9. CASE Conclude
  <2>1. [cur EXCEPT !.decision = Decide] \in Cycle
    BY DecideType DEF TypeOK, Cycle
  <2>2. cycles' \in Seq(Cycle) /\ Len(cycles') = Len(cycles) + 1
    BY <1>9, <2>1, PushFacts DEF Conclude, TypeOK
  <2>3. cycleRows' \subseteq 0..limit
    BY <1>9 DEF Conclude, TypeOK, PersistCycle, StoreOk
  <2>4. i + 1 \in 0..limit /\ i' \in 0..limit
    BY <1>0, <1>9 DEF Conclude, CountInv, TypeOK
  <2>5. bestIdx' \in 0..Len(cycles')
    BY <1>9, <2>2 DEF Conclude, BestAfter, TypeOK
  <2> QED
    BY <1>0, <1>9, <2>2, <2>3, <2>4, <2>5 DEF Conclude, TypeOK, meter
<1>10. CASE Exhausted
  BY <1>10 DEF Exhausted, TypeOK, loop, meter, store
<1>11. CASE Extract
  BY <1>11 DEF Extract, TypeOK, loop, meter, store, SavedInv
<1>12. CASE Save
  BY <1>12 DEF Save, SaveLearnings, TypeOK, loop, meter
<1>13. CASE Record
  <2>1. taskRow' \in RowType
    <3>1. Best \in 1..Len(cycles)
      BY <1>13 DEF Record, Best, TypeOK
    <3>2. cycles[Best].score \in Scores /\ cycles[Best].decision \in Decisions
      BY <3>1, CycleFacts DEF TypeOK
    <3>3. Len(cycles) \in 0..255
      <4>1. Len(cycles) <= limit
        BY DEF CountInv
      <4>2. \A n \in Nat : n <= limit => n \in 0..255
        BY <1>0
      <4> QED
        BY <1>0, <4>1, <4>2
    <3>4. taskRow \in RowType
      BY DEF TypeOK
    <3>5. \/ taskRow' = taskRow
          \/ taskRow' = [complete |-> TRUE, score |-> cycles[Best].score,
                         iterations |-> Len(cycles),
                         decision |-> cycles[Best].decision]
      BY <1>13 DEF Record, CompleteTask
    <3>6. [complete |-> TRUE, score |-> cycles[Best].score,
           iterations |-> Len(cycles), decision |-> cycles[Best].decision]
            \in RowType
      BY SMTT(30), <3>2, <3>3 DEF RowType
    <3> QED
      BY <3>4, <3>5, <3>6
  <2> QED
    BY <1>13, <2>1 DEF Record, TypeOK, loop, meter
<1>14. CASE ReturnError
  BY SMTT(30), <1>14 DEF ReturnError, TypeOK, loop, meter, store, NoResult
<1>15. CASE Return
  <2>1. Len(cycles) \in 0..limit
    BY <1>0 DEF TypeOK, CountInv
  <2>2. Best \in 0..Len(cycles)
    BY DEF TypeOK, Best
  <2> QED
    BY <1>15, <2>1, <2>2 DEF Return, TypeOK, loop, meter, store
<1>16. CASE Tick
  BY <1>16 DEF Tick, TypeOK, loop, meter, store
<1>17. CASE Crash
  BY <1>17 DEF Crash, TypeOK, Stopped, loop, meter, store
<1>18. CASE UNCHANGED vars
  BY <1>18 DEF vars, TypeOK, loop, meter, store
<1> QED
  BY <1>1, <1>2, <1>3, <1>4, <1>5, <1>6, <1>7, <1>8, <1>9, <1>10, <1>11,
     <1>12, <1>13, <1>14, <1>15, <1>16, <1>17, <1>18
     DEF Next, Advance, Answer, Halted

-----------------------------------------------------------------------------
(* The other conjuncts *)

\* A step pushes one cycle, or leaves the cycles and best_idx alone.
LEMMA QuietOrPush ==
  [Next]_vars =>
    /\ limit' = limit
    /\ \/ UNCHANGED <<cycles, bestIdx>>
       \/ Overflow
       \/ ExecuteFails
       \/ Abort
       \/ Conclude
  BY DEF Next, Advance, Answer, Halted, Begin, StartIteration, Execute,
         Overflow, ExecuteFails, Evaluate, EvaluateFails, Abort, Conclude,
         Exhausted, Extract, Save, Record, ReturnError, Return, Tick, Crash,
         vars, loop

\* Every step keeps one pushed cycle per iteration begun, and at most one row
\* for each.
LEMMA CountStep == TypeOK /\ CountInv /\ [Next]_vars => CountInv'
<1> SUFFICES ASSUME TypeOK, CountInv, [Next]_vars PROVE CountInv'
  OBVIOUS
<1> USE DEF CountInv, InLoop
<1>0. limit \in Nat /\ i \in Nat /\ Len(cycles) \in Nat
  BY LimitsAssumption DEF TypeOK
<1>1. CASE Overflow
  <2>1. Len(cycles') = Len(cycles) + 1
    BY <1>1, PushFacts DEF Overflow, TypeOK
  <2> QED
    BY <1>0, <1>1, <2>1 DEF Overflow
<1>2. CASE ExecuteFails
  <2>1. Len(cycles') = Len(cycles) + 1
    BY <1>2, PushFacts DEF ExecuteFails
  <2> QED
    BY <1>0, <1>2, <2>1 DEF ExecuteFails
<1>3. CASE Abort
  <2>1. Len(cycles') = Len(cycles) + 1
    BY <1>3, PushFacts DEF Abort
  <2> QED
    BY <1>0, <1>3, <2>1 DEF Abort
<1>4. CASE Conclude
  <2>1. Len(cycles') = Len(cycles) + 1
    BY <1>4, PushFacts DEF Conclude
  <2> QED
    BY <1>0, <1>4, <2>1 DEF Conclude
<1>5. CASE /\ UNCHANGED <<limit, i, cycles>>
           /\ pc' \in InLoop => pc \in InLoop
           /\ pc' \in {"execute", "evaluate", "check"} =>
                pc \in {"execute", "evaluate", "check"} \/ i < limit
           /\ pc' = "return" => pc = "return" \/ Len(cycles) > 0
           /\ pc' = "begin" => pc = "begin"
  BY <1>0, <1>5
<1> QED
  BY <1>1, <1>2, <1>3, <1>4, <1>5
     DEF Next, Advance, Answer, Halted, Begin, StartIteration, Execute,
         Evaluate, EvaluateFails, Exhausted, Extract, Save, Record,
         ReturnError, Return, Tick, Crash, vars, loop

\* Every step keeps the cycle of this iteration in the stage pc says.
LEMMA CurStep == TypeOK /\ CurInv /\ [Next]_vars => CurInv'
<1> SUFFICES ASSUME TypeOK, CurInv, [Next]_vars PROVE CurInv'
  OBVIOUS
<1> USE DEF CurInv
<1>1. CASE StartIteration
  BY <1>1 DEF StartIteration
<1>2. ASSUME NEW content \in Contents, NEW use \in Usages, Execute(content, use)
      PROVE  CurInv'
  <2>1. ShouldSkipEval(content)' = ShouldSkipEval(content)
    BY <1>2 DEF Execute, ShouldSkipEval, SameOutput, ConfidentPrevious
  <2>2. CASE ShouldSkipEval(content)
    <3>1. /\ pc' = "check"
          /\ cur'.content = content
          /\ cur'.decision = "skip_eval"
          /\ ~cur'.evaluated
          /\ cur'.score = 0
      <4>1. pc = "execute" /\ cur = NewCycle
        BY <1>2 DEF Execute
      <4>2. /\ pc' = "check"
            /\ cur' = [cur EXCEPT !.content = content, !.decision = "skip_eval"]
        BY <1>2, <2>2 DEF Execute
      <4> QED
        BY <4>1, <4>2 DEF NewCycle
    <3>2. ShouldSkipEval(cur.content)'
      BY <2>1, <2>2, <3>1 DEF ShouldSkipEval, SameOutput, ConfidentPrevious
    <3> QED
      BY <3>1, <3>2
  <2>3. CASE ~ShouldSkipEval(content)
    BY <1>2, <2>3 DEF Execute, NewCycle
  <2> QED
    BY <2>2, <2>3
<1>3. ASSUME NEW score \in Scores, NEW clean \in BOOLEAN, NEW use \in Usages,
             Evaluate(score, clean, use)
      PROVE  CurInv'
  BY <1>3 DEF Evaluate, TypeOK, Cycle
<1>4. CASE EvaluateFails
  BY <1>4 DEF EvaluateFails, TypeOK, Cycle
<1>5. CASE UNCHANGED <<pc, cycles, cur>>
  BY <1>5 DEF ShouldSkipEval, SameOutput, ConfidentPrevious
<1>6. CASE pc' \notin {"execute", "evaluate", "check"}
  BY <1>6
<1> QED
  BY <1>1, <1>2, <1>3, <1>4, <1>5, <1>6
     DEF Next, Advance, Answer, Halted, Begin, Overflow, ExecuteFails, Abort,
         Conclude, Exhausted, Extract, Save, Record, ReturnError, Return,
         Tick, Crash, vars, loop

\* Every step keeps the tokens below the budget plus the calls made since the
\* last safety check.
LEMMA SpentStep == TypeOK /\ SpentInv /\ [Next]_vars => SpentInv'
<1> SUFFICES ASSUME TypeOK, SpentInv, [Next]_vars, TokenBudget > 0
             PROVE  SpentInv'
  BY DEF SpentInv
<1> USE LimitsAssumption, AnswerAssumption DEF SpentInv, meter
<1>0. spent \in Nat
  BY DEF TypeOK
<1>1. ASSUME NEW content \in Contents, NEW use \in Usages, Execute(content, use)
      PROVE  SpentInv'
  BY <1>0, <1>1 DEF Execute
<1>2. ASSUME NEW score \in Scores, NEW clean \in BOOLEAN, NEW use \in Usages,
             Evaluate(score, clean, use)
      PROVE  SpentInv'
  BY <1>0, <1>2 DEF Evaluate
<1>3. CASE Conclude
  BY <1>0, <1>3, AbortNone DEF Conclude, OverBudget
<1>4. CASE spent' = spent /\ pc' \notin {"begin", "loop", "execute", "evaluate"}
  BY <1>0, <1>4
<1>5. CASE /\ spent' = spent
           /\ pc \in {"begin", "loop", "execute"}
           /\ pc' \in {"loop", "execute"}
  BY <1>0, <1>5
<1>6. CASE UNCHANGED <<spent, pc>>
  BY <1>0, <1>6
<1> QED
  BY <1>1, <1>2, <1>3, <1>4, <1>5, <1>6
     DEF Next, Advance, Answer, Halted, Begin, StartIteration, Overflow,
         ExecuteFails, EvaluateFails, Abort, Exhausted, Extract, Save, Record,
         ReturnError, Return, Tick, Crash, vars

-----------------------------------------------------------------------------
(* The cycles: what is pushed, and what stays true of the whole sequence *)

\* What each of the four pushing actions guarantees of the cycle it pushes.
PushOf(c) ==
  /\ cycles' = Append(cycles, c)
  /\ pc \in InLoop
  /\ ~c.evaluated /\ c.content # NoContent => ShouldSkipEval(c.content)
  /\ pc' \in InLoop =>
       c.decision = "continue" /\ (c.evaluated => c.score < QualityThreshold)
  /\ /\ AbortOnRegression
     /\ Len(cycles) >= 2
     /\ Last(cycles).evaluated
     /\ c.evaluated
     /\ Last(cycles).score - c.score > RegressionThreshold
     => c.decision \in Aborts
  /\ \/ /\ c.decision \in Aborts \/ c.content = NoContent
        /\ bestIdx' = bestIdx
     \/ /\ c.decision \notin Aborts /\ c.content # NoContent
        /\ \/ /\ bestIdx = 0 \/ c.score >= cycles[bestIdx].score
              /\ bestIdx' = Len(cycles) + 1
           \/ /\ bestIdx # 0 /\ c.score < cycles[bestIdx].score
              /\ bestIdx' = bestIdx

LEMMA PushCases ==
  TypeOK /\ CurInv /\ [Next]_vars =>
    \/ UNCHANGED <<cycles, bestIdx>> /\ (pc' \in InLoop => pc \in InLoop)
    \/ \E c \in Cycle : PushOf(c)
<1> SUFFICES ASSUME TypeOK, CurInv, [Next]_vars
             PROVE  \/ /\ UNCHANGED <<cycles, bestIdx>>
                       /\ pc' \in InLoop => pc \in InLoop
                    \/ \E c \in Cycle : PushOf(c)
  OBVIOUS
<1> USE DEF InLoop
<1>1. CASE Overflow
  <2>1. cur = NewCycle /\ cur \in Cycle
    BY <1>1 DEF Overflow, CurInv, TypeOK
  <2>2. PushOf(cur)
    BY <1>1, <2>1 DEF PushOf, Overflow, NewCycle
  <2> QED
    BY <2>1, <2>2
<1>2. CASE ExecuteFails
  <2> DEFINE c == [cur EXCEPT !.decision = "abort_budget"]
  <2>1. cur = NewCycle /\ cur \in Cycle
    BY <1>2 DEF ExecuteFails, CurInv, TypeOK
  <2>2. c \in Cycle
    BY <2>1 DEF Cycle, Decisions
  <2>3. c.content = NoContent /\ ~c.evaluated /\ c.decision \in Aborts
    BY <2>1 DEF NewCycle, Aborts
  <2>4. cycles' = Append(cycles, c) /\ pc = "execute" /\ pc' = "extract"
        /\ bestIdx' = bestIdx
    BY <1>2 DEF ExecuteFails
  <2> HIDE DEF c
  <2>5. PushOf(c)
    BY <2>3, <2>4 DEF PushOf
  <2> QED
    BY <2>2, <2>5
<1>3. CASE Abort
  <2> DEFINE c == [cur EXCEPT !.decision = SafetyAbort]
  <2>1. cur \in Cycle /\ pc = "check"
    BY <1>3 DEF Abort, TypeOK
  <2>2. c \in Cycle /\ c.decision \in Aborts
    BY <1>3, <2>1, AbortType DEF Abort, Cycle, Decisions, Aborts
  <2>3. ~c.evaluated => ShouldSkipEval(c.content)
    BY <2>1 DEF CurInv, Cycle
  <2>4. cycles' = Append(cycles, c) /\ pc' = "extract" /\ bestIdx' = bestIdx
    BY <1>3 DEF Abort
  <2> HIDE DEF c
  <2>5. PushOf(c)
    BY <2>1, <2>2, <2>3, <2>4 DEF PushOf
  <2> QED
    BY <2>2, <2>5
<1>4. CASE Conclude
  <2> DEFINE c == [cur EXCEPT !.decision = Decide]
  <2>1. cur \in Cycle /\ pc = "check"
    BY <1>4 DEF Conclude, TypeOK
  <2>2. c \in Cycle /\ c.decision = Decide /\ c.score = cur.score
        /\ c.evaluated = cur.evaluated /\ c.content = cur.content
    BY <2>1, DecideType DEF Cycle
  <2>3. ~c.evaluated => ShouldSkipEval(c.content)
    BY <2>1, <2>2 DEF CurInv
  <2>4. c.decision \notin Aborts /\ c.content # NoContent
    BY <2>1, <2>2, AnswerAssumption DEF CurInv, Decide, Aborts
  <2>5. ~Regressed
    BY <1>4, AbortNone DEF Conclude
  <2>6. cycles' = Append(cycles, c) /\ bestIdx' = BestAfter
        /\ (pc' \in InLoop => Decide = "continue")
    BY <1>4 DEF Conclude
  <2>7. Decide = "continue" => cur.score < QualityThreshold
    <3>1. cur.score \in Nat /\ QualityThreshold \in Nat
      BY <2>1, ScoreAssumption DEF Cycle
    <3> QED
      BY <3>1 DEF Decide
  <2>8. \/ /\ bestIdx = 0 \/ c.score >= cycles[bestIdx].score
           /\ bestIdx' = Len(cycles) + 1
        \/ /\ bestIdx # 0 /\ c.score < cycles[bestIdx].score
           /\ bestIdx' = bestIdx
    <3>1. bestIdx # 0 => cycles[bestIdx].score \in Nat
      BY CycleFacts DEF TypeOK
    <3>2. c.score \in Nat
      BY <2>2, ScoreAssumption DEF Cycle
    <3> QED
      BY <2>2, <2>6, <3>1, <3>2 DEF BestAfter
  <2>9. /\ AbortOnRegression
        /\ Len(cycles) >= 2
        /\ Last(cycles).evaluated
        /\ c.evaluated
        /\ Last(cycles).score - c.score > RegressionThreshold
        => c.decision \in Aborts
    BY <2>2, <2>5 DEF Regressed
  <2> HIDE DEF c
  <2>10. PushOf(c)
    BY <2>1, <2>2, <2>3, <2>4, <2>6, <2>7, <2>8, <2>9 DEF PushOf
  <2> QED
    BY <2>2, <2>10
<1>5. CASE UNCHANGED <<cycles, bestIdx>> /\ (pc' \in InLoop => pc \in InLoop)
  BY <1>5
<1> QED
  BY <1>1, <1>2, <1>3, <1>4, <1>5
     DEF Next, Advance, Answer, Halted, Begin, StartIteration, Execute,
         Evaluate, EvaluateFails, Exhausted, Extract, Save, Record,
         ReturnError, Return, Tick, Crash, vars, loop

\* The invariants of the sequence of cycles alone.
SequenceInv ==
  OpenInv /\ OnlyLastCycleEnds /\ UnevaluatedIsTrusted /\ RegressionEndsRun

\* Every step keeps what is said of the order of decisions: only the last cycle
\* ends the run, skips are trusted, regressions abort.
LEMMA SequenceStep ==
  TypeOK /\ CurInv /\ SequenceInv /\ [Next]_vars => SequenceInv'
<1> SUFFICES ASSUME TypeOK, CurInv, SequenceInv, [Next]_vars
             PROVE  SequenceInv'
  OBVIOUS
<1>1. CASE UNCHANGED <<cycles, bestIdx>> /\ (pc' \in InLoop => pc \in InLoop)
  BY <1>1 DEF SequenceInv, OpenInv, OnlyLastCycleEnds, UnevaluatedIsTrusted,
              RegressionEndsRun
<1>2. ASSUME NEW c \in Cycle, PushOf(c)
      PROVE  SequenceInv'
  <2> DEFINE n == Len(cycles)
  <2>1. /\ n \in Nat
        /\ Len(cycles') = n + 1
        /\ DOMAIN cycles' = 1..(n + 1)
        /\ DOMAIN cycles = 1..n
        /\ \A k \in 1..n : cycles'[k] = cycles[k]
        /\ cycles'[n + 1] = c
    BY <1>2, PushFacts DEF PushOf, TypeOK
  <2>2. \A k \in 1..n : /\ cycles[k].decision = "continue"
                        /\ cycles[k].evaluated => cycles[k].score < QualityThreshold
    BY <1>2, <2>1 DEF PushOf, SequenceInv, OpenInv
  <2> HIDE DEF n
  <2>3. OpenInv'
    BY <1>2, <2>1, <2>2 DEF OpenInv, PushOf
  <2>4. OnlyLastCycleEnds'
    BY <2>1, <2>2 DEF OnlyLastCycleEnds
  <2>5. UnevaluatedIsTrusted'
    <3> SUFFICES ASSUME NEW k \in 1..(n + 1),
                        ~cycles'[k].evaluated, cycles'[k].content # NoContent
                 PROVE  /\ k > 1
                        /\ \/ cycles'[k - 1].content = cycles'[k].content
                           \/ /\ cycles'[k - 1].evaluated
                              /\ cycles'[k - 1].clean
                              /\ cycles'[k - 1].score >= SkipConfidence
      BY <2>1 DEF UnevaluatedIsTrusted
    <3>1. CASE k \in 1..n
      <4>1. k \in DOMAIN cycles /\ cycles'[k] = cycles[k]
        BY <2>1, <3>1
      <4>2. /\ k > 1
            /\ \/ cycles[k - 1].content = cycles[k].content
               \/ /\ cycles[k - 1].evaluated
                  /\ cycles[k - 1].clean
                  /\ cycles[k - 1].score >= SkipConfidence
        BY <4>1 DEF SequenceInv, UnevaluatedIsTrusted
      <4>3. cycles'[k - 1] = cycles[k - 1]
        BY <2>1, <3>1, <4>2
      <4> QED
        BY <4>1, <4>2, <4>3
    <3>2. CASE k = n + 1
      <4>1. ShouldSkipEval(c.content)
        BY <1>2, <2>1, <3>2 DEF PushOf
      <4>2. n > 0 /\ k - 1 = n /\ cycles'[k - 1] = Last(cycles)
        BY <2>1, <3>2, <4>1
           DEF n, Last, ShouldSkipEval, SameOutput, ConfidentPrevious
      <4> QED
        BY <2>1, <3>2, <4>1, <4>2
           DEF ShouldSkipEval, SameOutput, ConfidentPrevious
    <3> QED
      BY <2>1, <3>1, <3>2
  <2>6. RegressionEndsRun'
    <3> SUFFICES ASSUME AbortOnRegression, NEW k \in 3..(n + 1),
                        cycles'[k - 1].evaluated, cycles'[k].evaluated,
                        cycles'[k - 1].score - cycles'[k].score
                          > RegressionThreshold
                 PROVE  cycles'[k].decision \in Aborts
      BY <2>1 DEF RegressionEndsRun
    <3>1. CASE k \in 3..n
      BY <2>1, <3>1 DEF SequenceInv, RegressionEndsRun, n
    <3>2. CASE k = n + 1
      <4>1. n >= 2 /\ k - 1 = n /\ cycles'[k - 1] = Last(cycles)
        BY <2>1, <3>2 DEF n, Last
      <4> QED
        BY <1>2, <2>1, <3>2, <4>1 DEF PushOf, n
    <3> QED
      BY <2>1, <3>1, <3>2
  <2> QED
    BY <2>3, <2>4, <2>5, <2>6 DEF SequenceInv
<1> QED
  BY <1>1, <1>2, PushCases

\* Every step keeps best_idx at the latest of the best considered cycles.
LEMMA BestStep ==
  TypeOK /\ CurInv /\ BestInv /\ [Next]_vars => BestInv'
<1> SUFFICES ASSUME TypeOK, CurInv, BestInv, [Next]_vars PROVE BestInv'
  OBVIOUS
<1>1. CASE UNCHANGED <<cycles, bestIdx>>
  BY <1>1 DEF BestInv, Considered
<1>2. ASSUME NEW c \in Cycle, PushOf(c)
      PROVE  BestInv'
  <2> DEFINE n == Len(cycles)
  <2>1. /\ n \in Nat
        /\ DOMAIN cycles' = 1..(n + 1)
        /\ DOMAIN cycles = 1..n
        /\ \A k \in 1..n : cycles'[k] = cycles[k]
        /\ cycles'[n + 1] = c
    BY <1>2, PushFacts DEF PushOf, TypeOK
  <2>2. bestIdx \in 0..n /\ c.score \in Nat
    BY ScoreAssumption DEF TypeOK, Cycle
  <2>3. \A k \in 1..n : cycles[k].score \in Nat
    BY CycleFacts DEF TypeOK
  <2>4. Considered \subseteq 1..n
    BY <2>1 DEF Considered
  <2>5. CASE /\ c.decision \in Aborts \/ c.content = NoContent
             /\ bestIdx' = bestIdx
    <3>1. Considered' = Considered
      BY <2>1, <2>5 DEF Considered
    <3> QED
      BY <2>1, <2>2, <2>4, <2>5, <3>1 DEF BestInv
  <2>6. CASE c.decision \notin Aborts /\ c.content # NoContent
    <3>1. Considered' = Considered \union {n + 1}
      BY <2>1, <2>6 DEF Considered
    <3>2. CASE /\ bestIdx = 0 \/ c.score >= cycles[bestIdx].score
               /\ bestIdx' = n + 1
      <4>1. \A k \in Considered : cycles[k].score <= c.score
        BY <2>2, <2>3, <2>4, <3>2 DEF BestInv
      <4>2. bestIdx' # 0 /\ bestIdx' \in Considered'
        BY <2>1, <3>1, <3>2
      <4>3. ASSUME NEW k \in Considered'
            PROVE  \/ cycles'[k].score < cycles'[bestIdx'].score
                   \/ cycles'[k].score = cycles'[bestIdx'].score /\ k <= bestIdx'
        <5>1. cycles'[bestIdx'] = c
          BY <2>1, <3>2
        <5>2. CASE k = n + 1
          BY <2>1, <3>2, <5>1, <5>2
        <5>3. CASE k \in Considered
          <6>1. k \in 1..n /\ cycles'[k] = cycles[k] /\ k <= bestIdx'
            BY <2>1, <2>4, <3>2, <5>3
          <6>2. cycles[k].score <= c.score /\ cycles[k].score \in Nat
            BY <2>3, <4>1, <5>3, <6>1
          <6> QED
            BY <2>2, <5>1, <6>1, <6>2
        <5> QED
          BY <3>1, <5>2, <5>3
      <4> QED
        BY <4>2, <4>3 DEF BestInv
    <3>3. CASE /\ bestIdx # 0 /\ c.score < cycles[bestIdx].score
               /\ bestIdx' = bestIdx
      BY <2>1, <2>2, <2>3, <2>4, <3>1, <3>3 DEF BestInv
    <3> QED
      BY <1>2, <2>6, <3>2, <3>3 DEF PushOf
  <2> QED
    BY <1>2, <2>5, <2>6 DEF PushOf
<1> QED
  BY <1>1, <1>2, PushCases

-----------------------------------------------------------------------------
(* The answer and the store *)

\* Every step keeps the result the one best_idx gives.
LEMMA ResultStep ==
  CountInv /\ ResultInv /\ [Next]_vars => ResultInv'
<1> SUFFICES ASSUME CountInv, ResultInv, [Next]_vars PROVE ResultInv'
  OBVIOUS
<1> USE DEF ResultInv, Best
<1>1. CASE Return
  BY <1>1 DEF Return, CountInv, loop
<1>3. CASE UNCHANGED <<pc, cycles, bestIdx, result>>
  BY <1>3
<1>4. CASE result' = result /\ pc \notin {"done", "failed"}
  BY <1>4 DEF NoResult
<1>5. CASE ReturnError
  BY <1>5 DEF ReturnError, NoResult
<1> QED
  BY <1>1, <1>3, <1>4, <1>5
     DEF Next, Advance, Answer, Halted, Begin, StartIteration, Execute,
         Overflow, ExecuteFails, Evaluate, EvaluateFails, Abort, Conclude,
         Exhausted, Extract, Save, Record, Tick, Crash, Stopped, vars, loop

\* Every step keeps the saved learnings among the drafts.
LEMMA SavedStep == SavedInv /\ [Next]_vars => SavedInv'
<1> SUFFICES ASSUME SavedInv, [Next]_vars PROVE SavedInv'
  OBVIOUS
<1> USE DEF SavedInv, InLoop
<1>1. CASE /\ saved' = saved
           /\ pc' \in InLoop \union {"extract"} => pc \in InLoop \union {"extract"}
  BY <1>1
<1>2. CASE pc' \notin InLoop \union {"extract"}
  BY <1>2
<1> QED
  BY <1>1, <1>2
     DEF Next, Advance, Answer, Halted, Begin, StartIteration, Execute,
         Overflow, ExecuteFails, Evaluate, EvaluateFails, Abort, Conclude,
         Exhausted, Extract, Save, Record, ReturnError, Return, Tick, Crash,
         vars, loop, store

\* Every step keeps the rows of the store behind the cycles they record.
LEMMA RowStep ==
  TypeOK /\ CountInv /\ RowInv /\ [Next]_vars => RowInv'
<1> SUFFICES ASSUME TypeOK, CountInv, RowInv, [Next]_vars PROVE RowInv'
  OBVIOUS
<1> USE DEF RowInv, Best, Stopped
<1>0. Len(cycles) \in Nat /\ i \in Nat
  BY DEF TypeOK
<1>1. CASE /\ Overflow \/ ExecuteFails \/ Abort \/ Conclude
  <2>1. PICK c : cycles' = Append(cycles, c)
    BY <1>1 DEF Overflow, ExecuteFails, Abort, Conclude
  <2>2. Len(cycles') = Len(cycles) + 1
    BY <2>1 DEF TypeOK
  <2>3. /\ pc \in InLoop /\ PersistCycle
        /\ taskRow' = taskRow /\ tasks' = tasks
    BY <1>1 DEF Overflow, ExecuteFails, Abort, Conclude, InLoop
  <2>4. i = Len(cycles)
    BY <2>3 DEF CountInv
  <2>5. cycleRows' \subseteq cycleRows \union {Len(cycles)}
        /\ (cycleRows' # {} => RunId \in tasks)
    BY <2>3, <2>4 DEF PersistCycle
  <2>6. cycleRows' \subseteq 0..(Len(cycles') - 1)
    BY <1>0, <2>2, <2>5
  <2>7. ~taskRow.complete
    BY <2>3 DEF InLoop
  <2> QED
    BY <2>3, <2>5, <2>6, <2>7
<1>2. CASE Record
  <2>1. /\ Len(cycles) > 0 /\ pc' = "return"
        /\ UNCHANGED <<cycles, bestIdx, tasks, cycleRows>>
    BY <1>2 DEF Record, loop
  <2>2. \/ taskRow' = taskRow
        \/ taskRow' = [complete   |-> TRUE,
                       score      |-> cycles[Best].score,
                       iterations |-> Len(cycles),
                       decision   |-> cycles[Best].decision]
    BY <1>2 DEF Record, CompleteTask
  <2> QED
    BY <2>1, <2>2
<1>3. CASE /\ UNCHANGED <<cycles, bestIdx, taskRow, cycleRows>>
           /\ tasks \subseteq tasks'
           /\ pc \in {"return"} \union Stopped => pc' \in {"return"} \union Stopped
  BY <1>3
<1> QED
  BY <1>1, <1>2, <1>3
     DEF Next, Advance, Answer, Halted, Begin, InsertTask, StoreOk,
         StartIteration, Execute, Evaluate, EvaluateFails, Exhausted, Extract,
         Save, ReturnError, Return, Tick, Crash, vars, loop, store

-----------------------------------------------------------------------------
(* The theorems *)

\* The invariant is inductive.
LEMMA NextIInv == IInv /\ [Next]_vars => IInv'
<1> SUFFICES ASSUME IInv, [Next]_vars PROVE IInv'
  OBVIOUS
<1>1. TypeOK' /\ CountInv' /\ CurInv' /\ SpentInv'
  BY TypeStep, CountStep, CurStep, SpentStep DEF IInv
<1>2. SequenceInv'
  BY SequenceStep DEF IInv, SequenceInv
<1>3. BestInv' /\ ResultInv' /\ SavedInv' /\ RowInv'
  BY BestStep, ResultStep, SavedStep, RowStep DEF IInv
<1> QED
  BY <1>1, <1>2, <1>3 DEF IInv, SequenceInv

\* Every reachable state satisfies the inductive invariant.
THEOREM Invariance == Spec => []IInv
<1>1. Init => IInv
  BY InitIInv
<1>2. IInv /\ [Next]_vars => IInv'
  BY NextIInv
<1> QED
  BY <1>1, <1>2, PTL DEF Spec

\* Every variable of run() keeps its type.
THEOREM TypeCorrect == Spec => []TypeOK
  BY Invariance, PTL DEF IInv

\* The answer is the latest of the best cycles the safety checker let through.
THEOREM AnswerCorrect == Spec => []AnswerIsLatestBest
<1>1. IInv => AnswerIsLatestBest
  <2> SUFFICES ASSUME IInv, result.status = "ok", NEW k \in Considered
               PROVE  \/ cycles[k].score < cycles[result.cycle].score
                      \/ /\ cycles[k].score = cycles[result.cycle].score
                         /\ k <= result.cycle
    BY DEF AnswerIsLatestBest
  <2>1. bestIdx # 0 /\ result.cycle = bestIdx
    BY DEF IInv, BestInv, ResultInv, Best
  <2> QED
    BY <2>1 DEF IInv, BestInv
<1> QED
  BY <1>1, Invariance, PTL

\* No cycle but the last ends the run or had reached the quality threshold.
THEOREM OneDecisionEnds == Spec => []OnlyLastCycleEnds
  BY Invariance, PTL DEF IInv

\* The tokens counted never exceed the budget by two calls or more.
THEOREM BudgetHeld == Spec => []SpentBounded
<1>1. IInv => SpentBounded
  BY DEF IInv, SpentInv, SpentBounded
<1> QED
  BY <1>1, Invariance, PTL

\* An output that no evaluator saw is a repetition, when the skip threshold is
\* not below the quality threshold (as in the default configuration).
THEOREM SkipsAreRepetitions == Spec => []UnevaluatedIsRepeated
<1>1. IInv => UnevaluatedIsRepeated
  <2> SUFFICES ASSUME IInv, SkipConfidence >= QualityThreshold,
                      NEW k \in DOMAIN cycles,
                      ~cycles[k].evaluated, cycles[k].content # NoContent
               PROVE  k > 1 /\ cycles[k - 1].content = cycles[k].content
    BY DEF UnevaluatedIsRepeated
  <2>1. /\ k > 1
        /\ \/ cycles[k - 1].content = cycles[k].content
           \/ /\ cycles[k - 1].evaluated
              /\ cycles[k - 1].score >= SkipConfidence
    BY DEF IInv, UnevaluatedIsTrusted
  <2>2. k \in 1..Len(cycles) /\ Len(cycles) \in Nat
    BY DEF IInv, TypeOK
  <2>3. k - 1 \in 1..(Len(cycles) - 1) /\ k - 1 \in 1..Len(cycles)
    BY <2>1, <2>2
  <2>4. cycles[k - 1].evaluated => cycles[k - 1].score < QualityThreshold
    BY <2>3 DEF IInv, OnlyLastCycleEnds
  <2>5. cycles[k - 1].score \in Nat
    BY <2>3, CycleFacts DEF IInv, TypeOK
  <2> QED
    BY <2>1, <2>4, <2>5, ScoreAssumption
<1> QED
  BY <1>1, Invariance, PTL

\* A regression from the third cycle on ends the run.
THEOREM RegressionsEnd == Spec => []RegressionEndsRun
  BY Invariance, PTL DEF IInv

\* Task row and cycle rows agree whatever store operations failed, and at
\* whatever point the process died.
THEOREM RowsConsistent == Spec => []RowsAgree
<1>1. IInv => RowsAgree
  <2> SUFFICES ASSUME IInv, taskRow.complete
               PROVE  /\ cycleRows \subseteq 0..(taskRow.iterations - 1)
                      /\ \A k \in Considered : cycles[k].score <= taskRow.score
    BY DEF RowsAgree, IInv, RowInv
  <2>1. cycleRows \subseteq 0..(taskRow.iterations - 1)
    BY DEF IInv, RowInv
  <2>2. ASSUME NEW k \in Considered
        PROVE  cycles[k].score <= taskRow.score
    <3>1. bestIdx # 0 /\ taskRow.score = cycles[bestIdx].score
      BY DEF IInv, BestInv, RowInv, Best
    <3>2. k \in 1..Len(cycles) /\ bestIdx \in 1..Len(cycles)
      BY <3>1 DEF IInv, TypeOK, Considered
    <3>3. cycles[k].score \in Nat /\ cycles[bestIdx].score \in Nat
      BY <3>2, CycleFacts DEF IInv, TypeOK
    <3> QED
      BY <3>1, <3>3 DEF IInv, BestInv
  <2> QED
    BY <2>1, <2>2
<1> QED
  BY <1>1, Invariance, PTL

\* What the loop knows of the limits when it comes round again.
LimitsInv ==
  /\ /\ pc \in {"loop", "execute"}
     /\ \E k \in DOMAIN cycles : cycles[k].content # NoContent
     => ~OverBudget
  /\ /\ pc = "loop"
     /\ Len(cycles) > 0
     /\ Last(cycles).content # NoContent
     => ~TimedOut

\* Every step keeps the limits checked before the loop goes on.
LEMMA LimitsStep ==
  IInv /\ LimitsInv /\ [Next]_vars => LimitsInv'
<1> SUFFICES ASSUME IInv, LimitsInv, [Next]_vars PROVE LimitsInv'
  OBVIOUS
<1> USE DEF LimitsInv, OverBudget, TimedOut
<1>1. CASE Conclude
  BY <1>1, AbortNone DEF Conclude, meter
<1>2. CASE Overflow
  <2>1. cur = NewCycle /\ cur \in Cycle /\ cycles \in Seq(Cycle)
    BY <1>2 DEF Overflow, IInv, CurInv, TypeOK
  <2>2. /\ Len(cycles') = Len(cycles) + 1
        /\ DOMAIN cycles' = 1..(Len(cycles) + 1)
        /\ DOMAIN cycles = 1..Len(cycles)
        /\ \A k \in 1..Len(cycles) : cycles'[k] = cycles[k]
        /\ cycles'[Len(cycles) + 1] = cur
        /\ Len(cycles) \in Nat
    BY <1>2, <2>1, PushFacts DEF Overflow
  <2>3. cur.content = NoContent
    BY <2>1 DEF NewCycle
  <2>4. Last(cycles') = cur
    BY <2>2 DEF Last
  <2>5. \A k \in DOMAIN cycles' :
          cycles'[k].content # NoContent =>
            k \in DOMAIN cycles /\ cycles[k].content # NoContent
    BY <2>2, <2>3
  <2> QED
    BY <1>2, <2>3, <2>4, <2>5 DEF Overflow, meter
<1>3. CASE StartIteration
  BY <1>3 DEF StartIteration, meter
<1>4. CASE pc' \notin {"loop", "execute"}
  BY <1>4
<1>5. CASE Begin
  <2>1. Len(cycles) = 0 /\ DOMAIN cycles = {}
    BY <1>5 DEF Begin, IInv, CountInv, TypeOK, InLoop
  <2> QED
    BY <1>5, <2>1 DEF Begin, loop
<1>6. CASE pc = "execute" /\ pc' = pc /\ UNCHANGED <<cycles, spent, cost>>
  BY <1>6
<1>7. CASE UNCHANGED vars
  BY <1>7 DEF vars, loop, meter
<1> QED
  BY <1>1, <1>2, <1>3, <1>4, <1>5, <1>6, <1>7
     DEF Next, Advance, Answer, Halted, Execute, ExecuteFails, Evaluate,
         EvaluateFails, Abort, Exhausted, Extract, Save, Record, ReturnError,
         Return, Tick, Crash, vars, loop, meter

\* A retry after a completed execution starts within every limit.
THEOREM RetriesWithinLimits == Spec => RetryWithinLimits
<1>1. Init => LimitsInv
  BY DEF Init, LimitsInv
<1>2. ASSUME IInv, LimitsInv, [Next]_vars
      PROVE  [pc = "loop" /\ pc' = "execute" =>
                /\ (\E k \in DOMAIN cycles : cycles[k].content # NoContent) =>
                     spent < TokenBudget /\ cost < MaxCost
                /\ Len(cycles) > 0 /\ Last(cycles).content # NoContent =>
                     elapsed < MaxDuration]_vars
  BY <1>2, LimitsAssumption
     DEF LimitsInv, OverBudget, TimedOut, IInv, TypeOK
<1> QED
  BY <1>1, <1>2, LimitsStep, Invariance, PTL DEF Spec, RetryWithinLimits

-----------------------------------------------------------------------------
(* The order of the progress events *)

\* The last event at each point of the run.
EventInv ==
  /\ pc = "begin" => lastEvent = Event("none", 0)
  /\ pc = "loop" =>
       \/ i = 0 /\ lastEvent = Event("PlanReady", 0)
       \/ i > 0 /\ lastEvent = Event("IterationStart", i)
       \/ i > 0 /\ lastEvent = Event("IterationEnd", i)
  /\ pc \in {"execute", "evaluate", "check"} =>
       lastEvent = Event("IterationStart", i + 1)
  /\ pc \in {"extract", "save", "record", "return"} /\ Len(cycles) > 0 =>
       \E name \in {"IterationStart", "IterationEnd", "SafetyWarning"} :
         lastEvent = Event(name, Len(cycles))

\* A step of run() emits an event ProgressProtocol allows next, or none.
LEMMA EventStep ==
  IInv /\ EventInv /\ [Next]_vars =>
    EventInv' /\ [Progress!ProtocolNext]_lastEvent
<1> SUFFICES ASSUME IInv, EventInv, [Next]_vars
             PROVE  EventInv' /\ [Progress!ProtocolNext]_lastEvent
  OBVIOUS
<1> USE DEF EventInv, Event, Progress!ProtocolNext, Progress!Follows,
            Progress!Sent
<1>0. Len(cycles) \in Nat /\ i \in Nat /\ (pc \in InLoop => Len(cycles) = i)
  BY DEF IInv, TypeOK, CountInv
<1>1. CASE Begin
  <2>1. i = 0
    BY <1>1 DEF Begin, IInv, CountInv
  <2> QED
    BY <1>1, <2>1 DEF Begin, loop
<1>2. CASE StartIteration
  BY <1>0, <1>2 DEF StartIteration
<1>3. CASE Overflow \/ ExecuteFails
  <2>1. Len(cycles') = i + 1
    BY <1>0, <1>3 DEF Overflow, ExecuteFails, InLoop
  <2> QED
    BY <1>0, <1>3, <2>1 DEF Overflow, ExecuteFails
<1>4. CASE Abort \/ Conclude
  <2>1. Len(cycles') = i + 1
    BY <1>0, <1>4 DEF Abort, Conclude, InLoop
  <2>2. \/ lastEvent' = Event("SafetyWarning", i + 1) /\ pc' = "extract"
        \/ /\ lastEvent' = Event("IterationEnd", i + 1)
           /\ \/ pc' = "loop" /\ i' = i + 1
              \/ pc' = "extract"
    BY <1>4 DEF Abort, Conclude
  <2>3. lastEvent = Event("IterationStart", i + 1)
    BY <1>4 DEF Abort, Conclude
  <2> QED
    BY <1>0, <2>1, <2>2, <2>3
<1>5. CASE Exhausted
  <2>1. Len(cycles) = i
    BY <1>0, <1>5 DEF Exhausted, InLoop
  <2> QED
    BY <1>0, <1>5, <2>1 DEF Exhausted, loop
<1>6. CASE Return
  BY <1>6 DEF Return, IInv, CountInv
<1>7. CASE /\ UNCHANGED <<i, cycles, lastEvent>>
           /\ \/ pc' = pc
              \/ pc \in {"execute", "evaluate"} /\ pc' \in {"evaluate", "check"}
              \/ pc \in {"extract", "save", "record"}
                 /\ pc' \in {"save", "record", "return"}
              \/ pc' \in Stopped
  BY <1>7 DEF Stopped
<1> QED
  BY <1>1, <1>2, <1>3, <1>4, <1>5, <1>6, <1>7
     DEF Next, Advance, Answer, Halted, Execute, Evaluate, EvaluateFails,
         Extract, Save, Record, ReturnError, Tick, Crash, Stopped, vars, loop

\* Every run announces its events in the order of ProgressProtocol.
THEOREM EventsFollowProtocol == Spec => FollowsProtocol
<1>1. Init => EventInv /\ Progress!ProtocolInit
  BY DEF Init, EventInv, Progress!ProtocolInit, Progress!NoEvent, Progress!Sent,
         Event
<1> QED
  BY <1>1, EventStep, Invariance, PTL
     DEF Spec, FollowsProtocol, Progress!ProtocolSpec

-----------------------------------------------------------------------------
(* The promise of TaskRun *)

\* The attempts of TaskRun grow with the cycles.
LEMMA AttemptsPush ==
  ASSUME TypeOK, NEW c \in Cycle, cycles' = Append(cycles, c)
  PROVE  \E a \in Run!Attempt : Attempts' = Append(Attempts, a)
<1> DEFINE n == Len(cycles)
           a == [score    |-> c.score,
                 eligible |-> c.decision \notin Aborts /\ c.content # NoContent]
<1>1. /\ n \in Nat
      /\ DOMAIN cycles' = 1..(n + 1)
      /\ DOMAIN cycles = 1..n
      /\ \A k \in 1..n : cycles'[k] = cycles[k]
      /\ cycles'[n + 1] = c
  BY PushFacts DEF TypeOK
<1>2. a \in Run!Attempt
  BY DEF Run!Attempt, Cycle
<1>3. ASSUME NEW k \in 1..n
      PROVE  (k \in Considered') = (k \in Considered)
  <2>1. k \in DOMAIN cycles /\ k \in DOMAIN cycles' /\ cycles'[k] = cycles[k]
    BY <1>1
  <2> QED
    BY <2>1 DEF Considered
<1>4. ((n + 1) \in Considered') =
        (c.decision \notin Aborts /\ c.content # NoContent)
  <2>1. (n + 1) \in DOMAIN cycles' /\ cycles'[n + 1] = c
    BY <1>1
  <2> QED
    BY <2>1 DEF Considered
<1> DEFINE at(k)  == [score |-> cycles[k].score, eligible |-> k \in Considered]
           atp(k) == [score    |-> cycles'[k].score,
                      eligible |-> k \in Considered']
<1>5. /\ Attempts = [k \in 1..n |-> at(k)]
      /\ Attempts' = [k \in 1..(n + 1) |-> atp(k)]
  BY <1>1 DEF Attempts
<1>6. ASSUME NEW k \in 1..n
      PROVE  atp(k) = at(k)
  <2>1. cycles'[k].score = cycles[k].score
    BY <1>1
  <2> QED
    BY <1>3, <2>1, Zenon
<1>7. atp(n + 1) = a
  <2>1. cycles'[n + 1].score = c.score
    BY <1>1
  <2> QED
    BY <1>4, <2>1, Zenon
<1> HIDE DEF n, a, at, atp
<1>8. [k \in 1..(n + 1) |-> atp(k)] = Append([k \in 1..n |-> at(k)], a)
  BY <1>1, <1>6, <1>7
<1> QED
  BY <1>2, <1>5, <1>8

\* TaskRun sees as many attempts as there are cycles.
LEMMA AttemptsLength ==
  ASSUME TypeOK
  PROVE  /\ Len(Attempts) = Len(cycles)
         /\ DOMAIN Attempts = 1..Len(cycles)
         /\ Run!Eligible = Considered
         /\ \A k \in 1..Len(cycles) : Attempts[k].score = cycles[k].score
<1> DEFINE n     == Len(cycles)
           at(k) == [score |-> cycles[k].score, eligible |-> k \in Considered]
<1>1. n \in Nat /\ DOMAIN cycles = 1..n
  BY DEF TypeOK
<1>2. Attempts = [k \in 1..n |-> at(k)]
  BY <1>1 DEF Attempts
<1>3. \A k \in 1..n : /\ at(k).score = cycles[k].score
                      /\ at(k).eligible = (k \in Considered)
  BY Zenon
<1>4. Considered \subseteq 1..n
  BY <1>1 DEF Considered
<1> HIDE DEF n, at
<1>5. Len(Attempts) = n /\ DOMAIN Attempts = 1..n
  BY <1>1, <1>2
<1>6. \A k \in 1..n : Attempts[k] = at(k)
  BY <1>2
<1>7. Run!Eligible = Considered
  BY <1>3, <1>4, <1>5, <1>6 DEF Run!Eligible
<1> QED
  BY <1>3, <1>5, <1>6, <1>7 DEF n

\* run() starts as TaskRun does.
LEMMA RunInit == Init => Run!TaskInit
<1> SUFFICES ASSUME Init PROVE Run!TaskInit
  OBVIOUS
<1>1. Attempts = <<>>
  BY DEF Init, Attempts
<1> QED
  BY <1>1 DEF Init, Run!TaskInit, Phase, NoResult

\* A step of run() is a step of TaskRun, or changes nothing TaskRun sees.
LEMMA RunStep ==
  IInv /\ [Next]_vars => [Run!TaskNext]_(Run!taskVars)
<1> SUFFICES ASSUME IInv, [Next]_vars
             PROVE  [Run!TaskNext]_(Run!taskVars)
  OBVIOUS
<1> USE DEF Run!TaskNext, Run!taskVars
<1>0. /\ TypeOK /\ CurInv /\ CountInv
      /\ Len(cycles) \in Nat /\ i \in Nat /\ limit \in Nat
  BY LimitsAssumption DEF IInv, TypeOK
<1>1. CASE Overflow \/ ExecuteFails \/ Abort \/ Conclude
  <2>1. PICK c \in Cycle : cycles' = Append(cycles, c)
    <3>1. \/ UNCHANGED <<cycles, bestIdx>>
          \/ \E c \in Cycle : PushOf(c)
      BY <1>0, PushCases
    <3>2. PICK c : cycles' = Append(cycles, c)
      BY <1>1 DEF Overflow, ExecuteFails, Abort, Conclude
    <3>3. cycles' # cycles
      BY <1>0, <3>2 DEF TypeOK
    <3> QED
      BY <3>1, <3>3 DEF PushOf
  <2>2. PICK a \in Run!Attempt : Attempts' = Append(Attempts, a)
    BY <1>0, <2>1, AttemptsPush
  <2>3. /\ pc \in {"execute", "check"}
        /\ pc' \in {"loop", "extract"}
        /\ limit' = limit
        /\ result' = result
    BY <1>1 DEF Overflow, ExecuteFails, Abort, Conclude
  <2>4. Phase = "running" /\ Phase' \in {"running", "answering"}
    BY <2>3 DEF Phase
  <2>5. Len(Attempts) < limit
    <3>1. Len(Attempts) = Len(cycles)
      BY <1>0, AttemptsLength
    <3> QED
      BY <1>0, <2>3, <3>1 DEF CountInv, InLoop
  <2>6. \E final \in BOOLEAN : Phase' = IF final THEN "answering" ELSE "running"
    BY <2>4
  <2> QED
    BY <2>2, <2>3, <2>4, <2>5, <2>6 DEF Run!Try
<1>2. CASE Exhausted
  <2>1. Len(cycles) = limit
    BY <1>0, <1>2 DEF Exhausted, CountInv, InLoop
  <2>2. Len(Attempts) = limit
    BY <1>0, <2>1, AttemptsLength
  <2>3. Phase = "running" /\ Phase' = "answering"
    BY <1>2 DEF Exhausted, Phase
  <2>4. limit' = limit /\ Attempts' = Attempts /\ result' = result
    BY <1>2 DEF Exhausted, loop, Attempts, Considered
  <2> QED
    BY <2>2, <2>3, <2>4 DEF Run!RunOut
<1>3. CASE Return
  <2>1. Phase = "answering" /\ Phase' = "answered"
    BY <1>3 DEF Return, Phase
  <2>2. /\ limit' = limit /\ Attempts' = Attempts
        /\ result'.cycle = Best
        /\ Len(cycles) > 0
    BY <1>0, <1>3 DEF Return, loop, Attempts, Considered, CountInv
  <2>3. /\ Len(Attempts) = Len(cycles)
        /\ Run!Eligible = Considered
        /\ \A k \in 1..Len(cycles) : Attempts[k].score = cycles[k].score
    BY <1>0, AttemptsLength
  <2>4. Attempts # <<>>
    BY <2>2, <2>3
  <2>5. CASE bestIdx = 0
    <3>1. Considered = {} /\ Best = Len(cycles)
      BY <2>5 DEF IInv, BestInv, Best
    <3> QED
      BY <2>1, <2>2, <2>3, <2>4, <3>1 DEF Run!Reply
  <2>6. CASE bestIdx # 0
    <3>1. Considered \subseteq 1..Len(cycles)
      BY <1>0 DEF Considered, TypeOK
    <3>2. Best = bestIdx /\ bestIdx \in Considered
      BY <2>6 DEF IInv, BestInv, Best
    <3>3. Run!LatestBest(bestIdx)
      BY <2>3, <3>1, <3>2 DEF Run!LatestBest, IInv, BestInv
    <3> QED
      BY <2>1, <2>2, <2>3, <2>4, <3>2, <3>3 DEF Run!Reply
  <2> QED
    BY <2>5, <2>6
<1>4. CASE ReturnError
  <2>1. Phase = "answering" /\ Phase' = "failed"
    BY <1>4 DEF ReturnError, Phase
  <2>2. limit' = limit /\ Attempts' = Attempts /\ result'.cycle = result.cycle
    BY <1>4 DEF ReturnError, loop, Attempts, Considered, IInv, ResultInv, NoResult
  <2>3. Attempts = <<>>
    BY <1>0, <1>4 DEF ReturnError, Attempts, TypeOK
  <2> QED
    BY <2>1, <2>2, <2>3 DEF Run!Fail
<1>5. CASE Crash
  <2>1. pc \in PCs \ Stopped /\ pc' = "crashed"
    BY <1>0, <1>5 DEF Crash, TypeOK
  <2>2. Phase \in {"running", "answering"} /\ Phase' = "dead"
    BY <2>1 DEF Phase, PCs, Awaiting, Stopped
  <2>3. limit' = limit /\ Attempts' = Attempts /\ result' = result
    BY <1>5 DEF Crash, loop, Attempts, Considered
  <2> QED
    BY <2>2, <2>3 DEF Run!Die
<1>6. CASE /\ UNCHANGED <<cycles, limit, result>>
           /\ \/ pc' = pc
              \/ /\ pc \in {"begin", "loop", "execute", "evaluate"}
                 /\ pc' \in {"loop", "execute", "evaluate", "check"}
              \/ /\ pc \in {"extract", "save", "record"}
                 /\ pc' \in {"save", "record", "return"}
  <2>1. Phase' = Phase
    BY <1>6 DEF Phase
  <2>2. Attempts' = Attempts
    BY <1>6 DEF Attempts, Considered
  <2> QED
    BY <1>6, <2>1, <2>2
<1> QED
  BY <1>1, <1>2, <1>3, <1>4, <1>5, <1>6
     DEF Next, Advance, Answer, Halted, Begin, StartIteration, Execute,
         Evaluate, EvaluateFails, Extract, Save, Record, Tick, vars, loop

\* Every run of Orchestrator::run keeps the promise of TaskRun.
THEOREM EngineImplementsTaskRun == Spec => ImplementsTaskRun
  BY RunInit, RunStep, Invariance, PTL
     DEF Spec, ImplementsTaskRun, Run!TaskSpec
=============================================================================
