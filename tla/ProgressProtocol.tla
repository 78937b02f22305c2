-------------------------- MODULE ProgressProtocol --------------------------
(***************************************************************************)
(* The order of the ProgressEvents of one run, as its listeners (the state *)
(* file writer, the progress bar) may rely on it: iterations are announced *)
(* one after the other, at most one IterationEnd or SafetyWarning follows  *)
(* each announcement and carries its number, a warning is followed by      *)
(* nothing but Complete, and Complete carries the number of the last       *)
(* announced iteration.  An iteration may have neither end nor warning     *)
(* (context overflow, failed execution), and a run that dies, or fails     *)
(* before its first iteration, never sends Complete.                       *)
(***************************************************************************)
EXTENDS ProgressEvents

VARIABLES
  last  \* the last event sent: its name and iteration number

ProtocolInit == last = NoEvent

ProtocolNext == Follows(last, last')

ProtocolSpec == ProtocolInit /\ [][ProtocolNext]_last
=============================================================================
