---------------------------- MODULE MCEvaluation ----------------------------
(* Small sessions, outputs of tools and answers for Evaluation. *)
EXTENDS Evaluation

Lesson(type, confidence, tokens) ==
  [type |-> type, confidence |-> confidence, tokens |-> tokens]

\* Of both kinds the one trusted second is the largest: with a budget of 4 tokens
\* it does not fit and the next would.
Learnings == <<Lesson("anti_pattern", 70, 2), Lesson("heuristic", 50, 1),
               Lesson("anti_pattern", 90, 2), Lesson("anti_pattern", 60, 1),
               Lesson("anti_pattern", 80, 5), Lesson("preference", 90, 1),
               Lesson("heuristic", 90, 1), Lesson("heuristic", 70, 4)>>

Skill(dir, named, kind, parses) ==
  [dir |-> dir, named |-> named, kind |-> kind, parses |-> parses, runs |-> TRUE,
   categories |-> {}]

BundledDir == <<Skill("general", "general", "evaluator", TRUE),
                Skill("self-iterate", "self-iterate", "task", TRUE)>>

Dirs(workspace, user, proposed) ==
  [bundled |-> BundledDir, managed |-> <<>>, workspace |-> workspace,
   user |-> user, proposed |-> proposed]

Session(project, iterations, window, dirs, named, budget) ==
  [learnings |-> Learnings, effectiveness |-> <<>>, memory |-> TRUE,
   dirs |-> dirs, named |-> named, budget |-> budget, soul |-> 3,
   tools |-> <<[tokens |-> 1]>>, history |-> 0, project |-> project,
   maxIterations |-> iterations, threshold |-> 95, confidence |-> 80,
   window |-> window]

Plain == Dirs(<<>>, <<>>, <<>>)
Rich == Dirs(<<Skill("deploy", "none", "task", TRUE),
               Skill("broken", "none", "task", FALSE)>>,
             <<Skill("mine", "general", "evaluator", TRUE)>>,
             <<Skill("guess", "none", "task", TRUE)>>)

MCSessions ==
  {Session({"Cargo.toml"}, 3, 0, Plain, {}, 70)}
    \union {Session({"Cargo.toml"}, 2, w, Plain, {"deploy"}, 40) : w \in {22, 26, 30}}
    \union {Session({m}, 1, 0, Rich, {"deploy", "guess"}, b) :
              m \in {"go.mod", "pytest.ini", "package.json", "eslint"},
              b \in {20, 40, 90}}

Out(lines, tokens, straddles) ==
  [lines |-> lines, tokens |-> tokens, straddles |-> straddles]

MCOutputs == {Out(<<"a", "b", "c">>, 3, FALSE), Out(<<"a", "b", "d">>, 7, FALSE),
              Out(<<"x", "y", "z">>, 8, TRUE)}

Run(spawned, summary, success, passed, names) ==
  [spawned |-> spawned, summary |-> summary, success |-> success,
   passed |-> passed, names |-> names, script |-> TRUE]

MCTestRuns == {Run(TRUE, TRUE, TRUE, 2, <<>>), Run(TRUE, TRUE, FALSE, 1, <<"t">>),
               Run(TRUE, TRUE, FALSE, 1, <<"u">>), Run(TRUE, FALSE, FALSE, 0, <<>>),
               Run(FALSE, FALSE, FALSE, 0, <<>>)}

MCLintRuns ==
  {[installed |-> TRUE, success |-> FALSE, issues |-> <<"error", "warning">>],
   [installed |-> TRUE, success |-> TRUE, issues |-> <<"warning">>],
   [installed |-> TRUE, success |-> FALSE, issues |-> <<>>]}

Line(is, text, score, severity, bullet) ==
  [is |-> is, text |-> text, score |-> score, severity |-> severity,
   bullet |-> bullet]
Head1(text) == Line("head", text, 0, "none", FALSE)

MCAnswers ==
  {<<Head1("SCORES"), Line("score", "quality", 60, "none", FALSE),
     Head1("FINDINGS"), Line("finding", "leak", 0, "BLOCKER", TRUE)>>,
   <<Head1("SCORES"), Line("score", "quality", 90, "none", TRUE),
     Head1("RESOLVED"), Line("text", "F1", 0, "none", TRUE),
     Line("text", "NF1", 0, "none", FALSE),
     Head1("NEW_FINDINGS"), Line("finding", "slow", 0, "ERROR", TRUE)>>,
   <<Head1("SCORES"), Line("score", "quality", NaN, "none", FALSE)>>}

MCRubric == [quality |-> 60, relevance |-> 40]
=============================================================================
