--------------------------- MODULE ProgressEvents ---------------------------
(***************************************************************************)
(* The ProgressEvents of a run (src/core/types.rs) and which may follow    *)
(* which.  ToolCall events, which an iteration may send before it ends,    *)
(* are not among them.                                                     *)
(***************************************************************************)
EXTENDS Integers

EventNames == {"none", "PlanReady", "IterationStart", "IterationEnd",
               "SafetyWarning", "Complete"}

Sent(name, n) == [name |-> name, iteration |-> n]

NoEvent == Sent("none", 0)

\* f may be the event sent after e.
Follows(e, f) ==
  \/ e.name = "none" /\ f = Sent("PlanReady", 0)
  \/ /\ e.name \in {"PlanReady", "IterationStart", "IterationEnd"}
     /\ f = Sent("IterationStart", e.iteration + 1)
  \/ /\ e.name = "IterationStart"
     /\ f \in {Sent("IterationEnd", e.iteration),
               Sent("SafetyWarning", e.iteration)}
  \/ /\ e.name \in {"IterationStart", "IterationEnd", "SafetyWarning"}
     /\ f = Sent("Complete", e.iteration)
=============================================================================
