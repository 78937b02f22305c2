----------------------------- MODULE Evaluator ------------------------------
(***************************************************************************)
(* What the evaluator makes of test runs, lint runs and answers of the     *)
(* model: functions of their outputs, without state of their own.          *)
(*                                                                         *)
(* Scores and weights are in hundredths; the score "nan" is NaN.  An       *)
(* output of a tool is what its parser can tell of it: counts, names and   *)
(* the exit status.  An answer is a sequence of lines; a line has a kind   *)
(* (head, score, finding, text), a text, and a score and a severity where  *)
(* its kind has one; `bullet` is whether a dash comes first.               *)
(***************************************************************************)
EXTENDS ListOperators

NaN == -1

AtMost(a, b) == IF a < b THEN a ELSE b
AtLeast(a, b) == IF a > b THEN a ELSE b

\* A comparison with NaN is false.
ScoreBelow(x, y) == x # NaN /\ x < y
ScoreReaches(x, y) == x # NaN /\ x >= y

Dimension(name, score, weight) ==
  [name |-> name, score |-> score, weight |-> weight]

Finding(prefix, k, severity, dim, title) ==
  [id |-> prefix \o ToString(k), severity |-> severity, dim |-> dim,
   title |-> title]

None == [none |-> TRUE]

-----------------------------------------------------------------------------
(* Tests *)

TestResult(r, failed, names) ==
  [allPassed |-> r.success /\ failed = 0, total |-> r.passed + failed,
   passed |-> r.passed, failures |-> names]

\* parse_cargo_test_output: nothing without a "test result:" line, as when the
\* project does not compile.
ParseCargoTest(r) ==
  IF ~r.summary THEN None ELSE TestResult(r, Len(r.names), r.names)

\* parse_go_test_output: counts the PASS and FAIL lines.
ParseGoTest(r) ==
  IF r.passed + Len(r.names) = 0 THEN None
  ELSE TestResult(r, Len(r.names), r.names)

\* parse_pytest_output: counts from the summary, names from FAILED lines.
ParsePytest(r) ==
  IF ~r.summary \/ r.passed + Len(r.names) = 0 THEN None
  ELSE TestResult(r, Len(r.names), r.names)

\* parse_npm_test_output: a failure that cannot be read is one failed test.
ParseNpmTest(r) ==
  IF r.summary /\ r.passed + Len(r.names) > 0
  THEN TestResult(r, Len(r.names), r.names)
  ELSE IF r.success THEN None
  ELSE TestResult([r EXCEPT !.passed = 0], 1, <<"npm test">>)

\* run_if_available: the first marker that is present decides; npm only if the
\* package has a test script.
RunTests(project, r) ==
  LET markers == <<"Cargo.toml", "go.mod", "pyproject.toml", "pytest.ini",
                   "package.json">>
      found == EntriesAt(markers, {k \in DOMAIN markers : markers[k] \in project})
  IN  IF found = <<>> THEN None
      ELSE CASE Head(found) = "Cargo.toml" -> ParseCargoTest(r)
             [] Head(found) = "go.mod" -> ParseGoTest(r)
             [] Head(found) = "package.json" ->
                  IF r.script THEN ParseNpmTest(r) ELSE None
             [] OTHER -> ParsePytest(r)

TestDimension(t) ==
  Dimension("tests",
            IF t.total = 0 THEN 100 ELSE (100 * t.passed) \div t.total, 30)

FailuresAsFindings(t) ==
  [k \in DOMAIN t.failures |->
    Finding("T", k, "Blocker", "tests", t.failures[k])]

-----------------------------------------------------------------------------
(* Static analysis *)

\* The parsers of clippy, ruff or flake8, and eslint find the issues line by
\* line; a failed run without an issue says nothing.
ParseLint(r) ==
  IF r.issues = <<>> /\ ~r.success THEN None
  ELSE [allClean |-> r.issues = <<>>, issues |-> r.issues]

\* run_if_applicable, where the tool is installed.
RunLint(project, r) ==
  IF project \intersect {"Cargo.toml", "pyproject.toml", "eslint"} # {}
     /\ r.installed
  THEN ParseLint(r) ELSE None

LintDimension(l) ==
  LET count(sev) == Cardinality({k \in DOMAIN l.issues : l.issues[k] = sev})
      deduction == AtMost(80, 10 * count("error") + 3 * count("warning"))
  IN  Dimension("static_analysis",
                IF l.allClean THEN 100 ELSE AtLeast(20, 100 - deduction), 20)

IssuesAsFindings(l) ==
  [k \in DOMAIN l.issues |->
    Finding("L", k, IF l.issues[k] = "error" THEN "Important" ELSE "Suggestion",
            "static_analysis", l.issues[k])]

-----------------------------------------------------------------------------
(* Answers *)

Weight(rubric, name, default) ==
  IF name \in DOMAIN rubric THEN rubric[name] ELSE default

\* The score of a line that has one between 0 and 1; NaN is in no range.
ParseScoreLine(l) == l.is = "score" /\ l.score \in 0..100

ParseFindingLine(l, index) ==
  LET severity == 
        CASE l.severity = "BLOCKER" -> "Blocker"
          [] l.severity \in {"IMPORTANT", "MAJOR", "HIGH"} -> "Important"
          [] OTHER -> "Suggestion"
  IN  Finding("F", index + 1, severity, "", l.text)

\* The places of the lines of a section: of those that are no head, the ones
\* whose last head before says so.
LinesOfSection(lines, heads, section) ==
  LET isHead(k) == lines[k].is = "head" /\ lines[k].text \in heads
      all == {k \in DOMAIN lines : isHead(k)}
  IN  {k \in (DOMAIN lines) \ all :
        \E h \in all : /\ h < k /\ lines[h].text = section
                       /\ \A j \in all : j <= h \/ k <= j}

\* parse_eval_response: a line in the section of the findings is a finding
\* whatever it looks like; without a score every dimension is worth 0.75.
ParseEvalResponse(lines, rubric) ==
  LET heads == {"SCORES", "FINDINGS", "SUGGESTION"}
      share == 100 \div AtLeast(1, Cardinality(DOMAIN rubric))
      scores == EntriesAt(lines, {k \in LinesOfSection(lines, heads, "SCORES") :
                                    ParseScoreLine(lines[k])})
      found == EntriesAt(lines, LinesOfSection(lines, heads, "FINDINGS"))
      names == SetToSeq(DOMAIN rubric)
  IN  [dims |-> IF scores # <<>>
                THEN [k \in DOMAIN scores |->
                       Dimension(scores[k].text, scores[k].score,
                                 Weight(rubric, scores[k].text, share))]
                ELSE [k \in DOMAIN names |->
                       Dimension(names[k], 75, rubric[names[k]])],
       findings |-> [k \in DOMAIN found |-> ParseFindingLine(found[k], k - 1)]]

Clamp(score) == IF score = NaN THEN NaN ELSE AtLeast(0, AtMost(100, score))

\* parse_incremental_eval_response: scores are clamped, which keeps NaN; a
\* finding has its severity in brackets; any line may name a resolved finding;
\* the dash of a list stays in the name of a dimension.
ParseIncremental(lines, rubric) ==
  LET heads == {"SCORES", "RESOLVED", "NEW_FINDINGS", "FINDINGS", "SUGGESTION"}
      section(name) == LinesOfSection(lines, heads, name)
      called(l) == IF l.bullet THEN "- " \o l.text ELSE l.text
      severity(l) == CASE l.severity = "BLOCKER" -> "Blocker"
                       [] l.severity \in {"IMPORTANT", "ERROR"} -> "Important"
                       [] OTHER -> "Suggestion"
      scores == EntriesAt(lines, {k \in section("SCORES") : lines[k].is = "score"})
      resolved == EntriesAt(lines, section("RESOLVED"))
      found == EntriesAt(lines, {k \in section("NEW_FINDINGS") \union section("FINDINGS") :
                                   lines[k].is = "finding"})
  IN  [dims |-> [k \in DOMAIN scores |->
                  Dimension(called(scores[k]), Clamp(scores[k].score),
                            Weight(rubric, called(scores[k]), 25))],
       resolved |-> [k \in DOMAIN resolved |-> resolved[k].text],
       new |-> [k \in DOMAIN found |->
                 Finding("NF", k, severity(found[k]), "general", found[k].text)]]

-----------------------------------------------------------------------------
(* Evaluations *)

\* composite_score: 0.5 without a dimension, the mean if nothing has a weight.
CompositeScore(dims) ==
  LET sum(Value(_)) == FoldLeft(LAMBDA n, d : n + Value(d), 0, dims)
      weight == sum(LAMBDA d : d.weight)
  IN  IF dims = <<>> THEN 50
      ELSE IF \E k \in DOMAIN dims : dims[k].score = NaN THEN NaN
      ELSE IF weight = 0 THEN sum(LAMBDA d : d.score) \div Len(dims)
      ELSE sum(LAMBDA d : d.score * d.weight) \div weight

ReplaceOrAdd(dims, new) ==
  LET same == SelectInSeq(dims, LAMBDA d : d.name = new.name)
  IN  IF same = 0 THEN Append(dims, new) ELSE [dims EXCEPT ![same] = new]

ReplaceOrAddAll(dims, new) == FoldLeft(ReplaceOrAdd, dims, new)

Without(findings, dim) ==
  EntriesAt(findings, {k \in DOMAIN findings : findings[k].dim # dim})

\* compute_diff_ratio > limit percent, of two sequences of lines.
DiffersBy(prev, current, limit) ==
  LET line(s, k) == IF k \in DOMAIN s THEN s[k] ELSE ""
      total == AtLeast(Len(prev), Len(current))
      changed == Cardinality({k \in 1..total :
                                line(prev, k) # line(current, k)})
  IN  100 * changed > limit * total

Critical(findings) ==
  EntriesAt(findings, {k \in DOMAIN findings : findings[k].severity # "Suggestion"})

\* generate_suggestion: the titles of the critical findings.
GenerateSuggestion(findings) ==
  LET critical == Critical(findings)
  IN  [k \in DOMAIN critical |-> critical[k].title]

\* select_evaluator_skill over the skills of the registry.
SelectEvaluatorSkill(skills, category) ==
  LET evaluators == SelectSeq(skills, LAMBDA s : s.kind = "evaluator")
      matched == SelectSeq(evaluators, LAMBDA s : category \in s.categories)
      general == SelectSeq(evaluators, LAMBDA s : s.name = "general")
  IN  IF matched # <<>> THEN {Head(matched)}
      ELSE IF general # <<>> THEN {Head(general)} ELSE {}
=============================================================================
