--------------------------- MODULE MCTaskStateFile ---------------------------
(***************************************************************************)
(* Small instances of TaskStateFile for TLC.                               *)
(***************************************************************************)
EXTENDS TaskStateFile

CONSTANTS r1, r2, r3, f1, f2, f3, f4

MCPair  == {r1, r2}
MCThree == {r1, r2, r3}

MCThreeInodes == {f1, f2, f3}
MCFourInodes  == {f1, f2, f3, f4}

MCPairSymmetry ==
  Permutations(MCPair) \union Permutations(MCFourInodes)
MCThreeSymmetry ==
  Permutations(MCThree) \union Permutations(MCThreeInodes)
=============================================================================
