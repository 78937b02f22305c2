----------------------------- MODULE Evaluation -----------------------------
(***************************************************************************)
(* The data of one task through its iterations: what is recalled and which *)
(* skills are selected before it starts, the context each iteration is     *)
(* asked with, and the evaluation of its output, which from the second     *)
(* iteration on starts from the previous one and replaces what was         *)
(* measured or answered again.  When the iterations stop for safety, and   *)
(* what they cost, is in IterationEngine.                                  *)
(***************************************************************************)
EXTENDS MemoryQueries, Evaluator, ContextBuilding

CONSTANTS
  Sessions,  \* what a task may find: tables, skill directories, project,
             \* configuration
  Outputs,   \* outputs: lines, size, whether byte 2000 is inside a character
  TestRuns,  \* what running the tests may give
  LintRuns,  \* what running the linter may give
  Answers,   \* answers of the model as evaluator
  Rubric     \* weights of the dimensions of an evaluator skill

\* Lists are finite, and sizes and confidences are no negative numbers.
ASSUME EvaluationAssumption ==
  /\ \A s \in Sessions :
       /\ s.maxIterations \in Nat \ {0} /\ s.threshold \in 0..100
       /\ {s.window, s.budget, s.soul, s.history} \subseteq Nat
       /\ IsList(s.learnings) /\ IsList(s.tools)
       /\ \A source \in {"bundled", "managed", "workspace", "user", "proposed"} :
            IsList(s.dirs[source])
       /\ \A l \in Range(s.learnings) : l.confidence \in Nat /\ l.tokens \in Nat
       /\ \A t \in Range(s.tools) : t.tokens \in Nat
  /\ \A o \in Outputs : o.tokens \in Nat
  /\ \A r \in TestRuns : IsList(r.names)
  /\ \A r \in LintRuns : IsList(r.issues)
  /\ \A a \in Answers : IsList(a)

Category == "none"  \* no caller gives a task a category

VARIABLES
  session,   \* what this task found
  pc,        \* step of the task
  prepared,  \* skills of the registry, those selected, what was recalled
  plan,
  context,   \* of the current iteration
  cycles,    \* iterations so far
  output,    \* of the current iteration
  draft,     \* evaluation in progress
  answer,    \* what the model said in it
  failures,  \* for the properties: failures of the last run of the tests that
             \* could be read
  issues     \* likewise: issues of the last run of the linter

vars == <<session, pc, prepared, plan, context, cycles, output, draft, answer,
          failures, issues>>

NoAnswer == [dims |-> <<>>, resolved |-> <<>>, new |-> <<>>]

NewDraft == [full |-> TRUE, dims |-> <<>>, findings |-> <<>>,
             testsPassed |-> TRUE, lintPassed |-> TRUE]

Failed == [NewDraft EXCEPT !.testsPassed = FALSE, !.lintPassed = FALSE]

Init ==
  /\ session \in Sessions
  /\ pc = "prepare"
  /\ prepared = [skills |-> <<>>, ranked |-> <<>>, recall |-> [used |-> 0]]
  /\ plan = <<[fix |-> FALSE, tokens |-> 2, title |-> "task"]>>
  /\ context = [system |-> <<>>, messages |-> <<>>]
  /\ cycles = <<>>
  /\ output = [lines |-> <<>>, tokens |-> 0, straddles |-> FALSE]
  /\ draft = NewDraft
  /\ answer = NoAnswer
  /\ failures = {}
  /\ issues = {}

\* run_task, before the orchestrator: skills, then recall with a tenth of the
\* budget; without memory nothing is recalled.
Prepare ==
  LET skills == LoadAllSkills(session.dirs)
      table == IF session.memory THEN session.effectiveness ELSE <<>>
      learnings == IF session.memory THEN session.learnings ELSE <<>>
  IN  /\ pc = "prepare"
      /\ prepared' = [skills |-> skills,
                      ranked |-> Select(skills, session.named, Category, table),
                      recall |-> Recall(learnings, table, Category,
                                        session.budget \div 10)]
      /\ pc' = "build"
      /\ UNCHANGED <<session, plan, context, cycles, output, draft, answer,
                     failures, issues>>

Sizes(ranked) ==
  [k \in DOMAIN ranked |-> [readable |-> TRUE, body |-> 4, summary |-> 1]]

\* The context of the next iteration; cutting the previous output inside a
\* character panics.
Build ==
  LET system == SystemPrompt([tokens |-> 3], plan, [tokens |-> session.soul],
                             Sizes(prepared.ranked), prepared.recall,
                             session.tools, session.history)
      cuts == /\ cycles # <<>> /\ Last(cycles).evaluated
              /\ Last(cycles).tokens > OutputLimit /\ Last(cycles).straddles
  IN  /\ pc = "build"
      /\ IF cuts THEN pc' = "panicked" /\ UNCHANGED context
         ELSE /\ context' = BuildContextSafe(system, cycles, session.window)
              /\ pc' = "execute"
      /\ UNCHANGED <<session, prepared, plan, cycles, output, draft, answer,
                     failures, issues>>

\* A cycle whose evaluation is e, or that has none.
Cycle(o, evaluated, score, e) ==
  [lines |-> o.lines, tokens |-> o.tokens, straddles |-> o.straddles,
   evaluated |-> evaluated, score |-> score, dims |-> e.dims,
   findings |-> e.findings, testsPassed |-> e.testsPassed,
   lintPassed |-> e.lintPassed]

Unevaluated(o) ==
  Cycle(o, FALSE, 0, Failed)

Full == Len(cycles) + 1 >= session.maxIterations

\* should_skip_eval
ShouldSkipEval(o) ==
  /\ cycles # <<>>
  /\ \/ o.lines = Last(cycles).lines
     \/ /\ Last(cycles).evaluated
        /\ ScoreReaches(Last(cycles).score, session.confidence)
        /\ Last(cycles).testsPassed /\ Last(cycles).lintPassed

\* evaluate_incremental, first part: a full evaluation, or the previous one to
\* start from.
StartEvaluation(o) ==
  IF cycles = <<>> \/ ~Last(cycles).evaluated
     \/ DiffersBy(Last(cycles).lines, o.lines, 60)
  THEN NewDraft
  ELSE [full |-> FALSE, dims |-> Last(cycles).dims,
        findings |-> Last(cycles).findings,
        testsPassed |-> Last(cycles).testsPassed,
        lintPassed |-> Last(cycles).lintPassed]

\* The executor answers.  Without an evaluation the task ends here.
Execute(o) ==
  /\ pc = "execute"
  /\ output' = o
  /\ answer' = NoAnswer
  /\ IF ShouldSkipEval(o)
     THEN /\ cycles' = Append(cycles, Unevaluated(o))
          /\ pc' = "done"
          /\ UNCHANGED draft
     ELSE /\ draft' = StartEvaluation(o)
          /\ pc' = "tests"
          /\ UNCHANGED cycles
  /\ UNCHANGED <<session, prepared, plan, context, failures, issues>>

\* The request is too long for the model: a cycle with a note as its output.
Overflow ==
  LET note == [lines |-> <<"overflow">>, tokens |-> 1, straddles |-> FALSE] IN
  /\ pc = "execute"
  /\ cycles' = Append(cycles, Unevaluated(note))
  /\ pc' = IF Full THEN "done" ELSE "build"
  /\ UNCHANGED <<session, prepared, plan, context, output, draft, answer,
                 failures, issues>>

MeasuredStaleMutant(e, dim, findings) ==
  [e EXCEPT !.dims = ReplaceOrAdd(@, dim), !.findings = @ \o findings]

\* A measurement replaces the one before it.
Measured(e, dim, findings) ==
  [e EXCEPT !.dims = ReplaceOrAdd(@, dim),
            !.findings = Without(@, dim.name) \o findings]

MeasureTests(r) ==
  LET t == RunTests(session.project, r) IN
  /\ pc = "tests" /\ r.spawned
  /\ IF t = None THEN UNCHANGED <<draft, failures, issues>>
     ELSE /\ draft' = [Measured(draft, TestDimension(t), FailuresAsFindings(t))
                         EXCEPT !.testsPassed = t.allPassed]
          /\ failures' = Range(t.failures)
  /\ pc' = "lint"
  /\ UNCHANGED <<session, prepared, plan, context, cycles, output, answer,
                 issues>>

MeasureLint(r) ==
  LET l == RunLint(session.project, r) IN
  /\ pc = "lint"
  /\ IF l = None THEN UNCHANGED <<draft, issues>>
     ELSE /\ draft' = [Measured(draft, LintDimension(l), IssuesAsFindings(l))
                         EXCEPT !.lintPassed = l.allClean]
          /\ issues' = Range(l.issues)
  /\ pc' = "llm"
  /\ UNCHANGED <<session, prepared, plan, context, cycles, output, answer,
                 failures>>

\* The model is not asked again about a small change to something good.
Asked ==
  /\ SelectEvaluatorSkill(prepared.skills, Category) # {}
  /\ ~draft.full => \/ DiffersBy(Last(cycles).lines, output.lines, 10)
                    \/ ScoreBelow(Last(cycles).score, 90)

\* run_evaluator_skill and its result
EvaluateFull(lines) ==
  LET a == ParseEvalResponse(lines, Rubric) IN
  /\ pc = "llm" /\ Asked /\ draft.full
  /\ draft' = [draft EXCEPT !.dims = @ \o a.dims, !.findings = @ \o a.findings]
  /\ pc' = "decide"
  /\ UNCHANGED <<session, prepared, plan, context, cycles, output, answer,
                 failures, issues>>

Remaining(findings, resolved) ==
  EntriesAt(findings, {k \in DOMAIN findings : findings[k].id \notin Range(resolved)})

MergedLateMutant(e, a) ==
  [e EXCEPT !.dims = ReplaceOrAddAll(@, a.dims),
            !.findings = Remaining(@ \o a.new, a.resolved)]

\* What is resolved goes before what is new comes: both are numbered NF1, ...
Merged(e, a) ==
  [e EXCEPT !.dims = ReplaceOrAddAll(@, a.dims),
            !.findings = Remaining(@, a.resolved) \o a.new]

\* run_incremental_evaluator_skill and its result
EvaluateChange(lines) ==
  LET a == ParseIncremental(lines, Rubric) IN
  /\ pc = "llm" /\ Asked /\ ~draft.full
  /\ draft' = Merged(draft, a)
  /\ answer' = [dims |-> a.dims, resolved |-> a.resolved, new |-> a.new]
  /\ pc' = "decide"
  /\ UNCHANGED <<session, prepared, plan, context, cycles, output, failures,
                 issues>>

\* The model is not asked, or the request fails.
Unasked ==
  /\ pc = "llm"
  /\ pc' = "decide"
  /\ UNCHANGED <<session, prepared, plan, context, cycles, output, draft,
                 answer, failures, issues>>

\* The cycle is kept; the safety limits may stop a task that could go on.
Keep(e, score) ==
  /\ cycles' = Append(cycles, Cycle(output, TRUE, score, e))
  /\ IF ScoreReaches(score, session.threshold) \/ Full
     THEN pc' = "done" /\ UNCHANGED plan
     ELSE pc' \in {"build", "done"} /\ plan' = RefinePlan(plan, <<>>)
  /\ UNCHANGED <<session, prepared, context, output, draft, answer, failures,
                 issues>>

Decide == pc = "decide" /\ Keep(draft, CompositeScore(draft.dims))

\* A tool that cannot be started fails the evaluation: a default stands for it.
EvaluationFails(r) ==
  /\ pc = "tests" /\ ~r.spawned
  /\ Keep(Failed, 50)

Next ==
  \/ Prepare \/ Build \/ Overflow \/ Unasked \/ Decide
  \/ \E o \in Outputs : Execute(o)
  \/ \E r \in TestRuns : MeasureTests(r) \/ EvaluationFails(r)
  \/ \E r \in LintRuns : MeasureLint(r)
  \/ \E a \in Answers : EvaluateFull(a) \/ EvaluateChange(a)

Spec == Init /\ [][Next]_vars

-----------------------------------------------------------------------------
(* Properties *)

\* The findings of the evaluation in progress, or of the last cycle.
CurrentFindings ==
  IF pc \in {"lint", "llm", "decide"} THEN draft.findings
  ELSE IF cycles = <<>> THEN <<>> ELSE Last(cycles).findings

\* A failed test or an issue of the linter that is reported to the model is one
\* of the last run of that tool that could be read, which a later iteration that
\* cannot read its own still reports: an evaluation that starts from the previous
\* one drops what the run before had found, of this tool and not of the other.
NoStaleFailure ==
  \A f \in Range(CurrentFindings) :
    /\ f.dim = "tests" => f.title \in failures
    /\ f.dim = "static_analysis" => f.title \in issues

\* What the model found in an earlier iteration leaves only when its number is
\* called resolved, and everything it found now is in: ids are given out again
\* in every evaluation, so the order of the two steps matters.
OnlyResolvedLeave ==
  pc = "decide" /\ ~draft.full =>
    /\ \A f \in Range(Last(cycles).findings) :
         f.dim \in {"tests", "static_analysis"}
           \/ f.id \in Range(answer.resolved) \/ f \in Range(draft.findings)
    /\ Range(answer.new) \subseteq Range(draft.findings)

\* After an iteration that was evaluated the last message of the request shows
\* every critical finding, however small the window is, and the request fits
\* the window up to the note on what was removed unless it is that message
\* alone.
FeedbackSurvives ==
  pc = "execute" /\ cycles # <<>> /\ Last(cycles).evaluated =>
    /\ context.messages # <<>>
    /\ Last(context.messages).shows = Critical(Last(cycles).findings)
    /\ \/ session.window = 0 \/ Len(context.messages) = 1
       \/ Estimate(context)
            <= Saturating(session.window, ContextBuffer) + NoteTokens

\* Of the lessons of a type none that is left is trusted more than one that is
\* taken.
MostTrusted(type, taken) ==
  \A l \in Range(OfType(session.learnings, type)) \ Range(taken),
     t \in Range(taken) : l.confidence <= t.confidence

\* The recall stays within its share of the budget, and takes no anti-pattern and
\* no heuristic while it leaves one of that type it trusts more; preferences are
\* not recalled at all.
RecallFits ==
  pc # "prepare" /\ session.memory =>
    /\ prepared.recall.used <= session.budget \div 10
    /\ MostTrusted("anti_pattern", prepared.recall.anti)
    /\ MostTrusted("heuristic", prepared.recall.learnings)
=============================================================================
