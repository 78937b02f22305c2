-------------------------- MODULE MCLearningStore ---------------------------
(***************************************************************************)
(* LearningStore for TLC: two processes, a history that regressed and one  *)
(* the model is asked about, an answer with two texts, and one whose text  *)
(* has no words.                                                           *)
(***************************************************************************)
EXTENDS LearningStore

CONSTANTS p1, p2

Cycle(score, blockers, findings) ==
  [score |-> score, blockers |-> blockers, findings |-> findings]

MCProcs == {p1, p2}

MCHistories ==
  {<<Cycle(80, 0, 0), Cycle(60, 0, 0)>>, <<Cycle(60, 0, 3), Cycle(60, 0, 0)>>}

Line(key, value) == [key |-> key, value |-> value]

MCAnswers ==
  {<<Line("TYPE", "heuristic"), Line("CONTENT", {"test", "first"}),
     Line("CONFIDENCE", 5), Line("TYPE", "preference"),
     Line("CONTENT", {"short", "names"})>>,
   <<Line("TYPE", "heuristic"), Line("CONTENT", {})>>}
=============================================================================
