---------------------------- MODULE MCDaemonLoop ----------------------------
(***************************************************************************)
(* Small instances of DaemonLoop for TLC.                                  *)
(***************************************************************************)
EXTENDS DaemonLoop

CONSTANTS run1, run2, status1, news1, t1, t2, p1

MCMentions == {run1, status1}
MCMessages == {news1}
MCCommands == {status1}
MCApiTasks == {t1, t2}
MCPatterns == <<p1>>
MCFrequency == [p \in {p1} |-> [kind |-> "every", minutes |-> 90]]
MCMinutes  == {60, 90}
MCLimits   == {0, 3}
=============================================================================
