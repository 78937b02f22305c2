------------------------- MODULE MCIterationEngine -------------------------
(***************************************************************************)
(* Small instances of IterationEngine for TLC.  Scores are tenths; the     *)
(* thresholds are those of IterationEngineConfig::default on that scale    *)
(* (0.8) or chosen so that the branch a run is about is reachable.         *)
(***************************************************************************)
EXTENDS IterationEngine, TLC

CONSTANTS c1, c2

MCContents == {c1, c2}
MCSymmetry == Permutations(MCContents)

MCLimits   == {0, 1, 3}
MCScores   == {0, 3, 5, 9}
MCFewScores == {0, 5, 9}
MCUsages   == {0, 1}
MCOneUsage == {1}
=============================================================================
