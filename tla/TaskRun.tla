------------------------------- MODULE TaskRun -------------------------------
(***************************************************************************)
(* What one task run promises to whoever started it, whatever happens      *)
(* inside Orchestrator::run: at most max_iterations attempts, no attempt   *)
(* after the one that ends the run, and an answer that is the latest of    *)
(* the best attempts the safety checker let through (the last attempt if   *)
(* there is none).  How the answer is found is not said: the declarative   *)
(* choice below is what best_idx computes one comparison at a time.        *)
(***************************************************************************)
EXTENDS Integers, Sequences

CONSTANTS Limits, Scores

VARIABLES
  phase,     \* "running", "answering", or how the run ended
  limit,     \* max_iterations of this run
  attempts,  \* the cycles pushed so far
  answer     \* the index of the attempt returned, 0 until then

taskVars == <<phase, limit, attempts, answer>>

Attempt == [score : Scores, eligible : BOOLEAN]

Eligible == {k \in DOMAIN attempts : attempts[k].eligible}

\* k is the latest of the best eligible attempts.
LatestBest(k) ==
  /\ k \in Eligible
  /\ \A e \in Eligible :
       \/ attempts[e].score < attempts[k].score
       \/ attempts[e].score = attempts[k].score /\ e <= k

TaskInit ==
  /\ phase = "running"
  /\ limit \in Limits
  /\ attempts = <<>>
  /\ answer = 0

\* An attempt ends; a final one ends the run.
Try(attempt, final) ==
  /\ phase = "running"
  /\ Len(attempts) < limit
  /\ attempts' = Append(attempts, attempt)
  /\ phase' = IF final THEN "answering" ELSE "running"
  /\ UNCHANGED <<limit, answer>>

RunOut ==
  /\ phase = "running"
  /\ Len(attempts) = limit
  /\ phase' = "answering"
  /\ UNCHANGED <<limit, attempts, answer>>

Reply ==
  /\ phase = "answering"
  /\ attempts # <<>>
  /\ phase' = "answered"
  /\ \/ Eligible = {} /\ answer' = Len(attempts)
     \/ \E k \in Eligible : LatestBest(k) /\ answer' = k
  /\ UNCHANGED <<limit, attempts>>

Fail ==
  /\ phase = "answering"
  /\ attempts = <<>>
  /\ phase' = "failed"
  /\ UNCHANGED <<limit, attempts, answer>>

Die ==
  /\ phase \in {"running", "answering"}
  /\ phase' = "dead"
  /\ UNCHANGED <<limit, attempts, answer>>

TaskNext ==
  \/ \E attempt \in Attempt, final \in BOOLEAN : Try(attempt, final)
  \/ RunOut
  \/ Reply
  \/ Fail
  \/ Die

TaskSpec == TaskInit /\ [][TaskNext]_taskVars
=============================================================================
