------------------------------ MODULE Executor ------------------------------
(***************************************************************************)
(* Executor::execute over a RetryProvider: rounds of one chat request and  *)
(* the tool calls of its response, until the model answers, says it is     *)
(* done, makes too many calls or runs out of rounds.  Each request is      *)
(* repeated by the provider's wrapper while it fails in a retriable way.   *)
(*                                                                         *)
(* Tool calls are numbered in the order the model made them; what a tool   *)
(* does, its arguments and its output are left out, except that a long     *)
(* output may be cut inside a character.  A definition whose name ends in  *)
(* Mutant is a wrong version of the one after it, used only to show that a *)
(* property would notice the mistake.                                      *)
(***************************************************************************)
EXTENDS Integers, SequencesExt

CONSTANTS
  MaxRounds,   \* MAX_TOOL_ROUNDS (20)
  MaxRetries,  \* RetryConfig::max_retries (8)
  MaxCalls,    \* bound: tool calls of one response
  Critical,    \* tool calls after which the model is warned (20)
  Breaker,     \* tool calls after which the execution is cut off (30)
  Contexts     \* conversations an execution may start from

\* A message, with the ids of the calls it makes (assistant) or answers (tool).
Message(role, ids) == [role |-> role, ids |-> ids]

\* A context holds a message that asks the model to begin, or the last output
\* and what to improve, or what pruning leaves of these: none of them calls a
\* tool or answers a call.
ASSUME ExecutorAssumption ==
  /\ MaxRounds \in Nat \ {0}
  /\ MaxRetries \in Nat
  /\ MaxCalls \in Nat
  /\ Critical \in Nat
  /\ Breaker \in Nat
  /\ Contexts \subseteq Seq({Message("user", <<>>), Message("assistant", <<>>)})

VARIABLES
  pc,        \* what the execution is at
  round,     \* the round it is in
  attempt,   \* retries of the current request
  messages,  \* the conversation
  calls,     \* total_tool_calls
  pending,   \* calls of this round still to dispatch
  endTurn,   \* whether the model said it is done
  outcome,   \* why the execution ended
  requests,  \* requests made to the model
  ran        \* the calls dispatched, in order

vars == <<pc, round, attempt, messages, calls, pending, endTurn, outcome,
          requests, ran>>

-----------------------------------------------------------------------------
\* Errors of the inner provider: a retriable one may carry a text that means
\* the context was too long (a server error that quotes it).
Errors == {"RateLimited", "Transient", "TransientOverflow", "Permanent",
           "Overflow"}

\* should_retry
Retriable(e) == e \in {"RateLimited", "Transient", "TransientOverflow"}

\* classify_error_with_model, which sees the error that is left after retries
Classified(e) ==
  IF e \in {"TransientOverflow", "Overflow"} THEN "overflow" ELSE "error"

Init ==
  /\ pc = "call"
  /\ round = 1
  /\ attempt = 0
  /\ messages \in Contexts
  /\ calls = 0
  /\ pending = <<>>
  /\ endTurn = FALSE
  /\ outcome = "none"
  /\ requests = 0
  /\ ran = <<>>

End(how) == pc' = "done" /\ outcome' = how

\* The model answers, with tool calls or without.
Respond ==
  /\ pc = "call"
  /\ requests' = requests + 1
  /\ attempt' = 0
  /\ \/ /\ End("answer")
        /\ UNCHANGED <<messages, calls, pending, endTurn>>
     \/ /\ \E n \in 1..MaxCalls, done \in BOOLEAN :
             LET ids == [k \in 1..n |-> calls + k] IN
             /\ calls' = calls + n
             /\ messages' = Append(messages, Message("assistant", ids))
             /\ pending' = ids
             /\ endTurn' = done
        /\ pc' = "dispatch"
        /\ UNCHANGED outcome
  /\ UNCHANGED <<round, ran>>

\* The request fails: the wrapper waits and repeats it, or gives up.
Fail ==
  /\ pc = "call"
  /\ requests' = requests + 1
  /\ \E e \in Errors :
       IF Retriable(e) /\ attempt < MaxRetries
       THEN pc' = "wait" /\ UNCHANGED outcome
       ELSE pc' = "failed" /\ outcome' = Classified(e)
  /\ UNCHANGED <<round, attempt, messages, calls, pending, endTurn, ran>>

\* The backoff, or the delay a rate limit asked for, is over.
Retry ==
  /\ pc = "wait"
  /\ pc' = "call"
  /\ attempt' = attempt + 1
  /\ UNCHANGED <<round, messages, calls, pending, endTurn, outcome, requests,
                 ran>>

\* dispatch_tool_call: an integration, an MCP server or an error text; the
\* result goes into the conversation either way.
Dispatch ==
  /\ pc = "dispatch"
  /\ pending # <<>>
  /\ ran' = Append(ran, Head(pending))
  /\ messages' = Append(messages, Message("tool", <<Head(pending)>>))
  /\ pending' = Tail(pending)
  /\ UNCHANGED <<pc, round, attempt, calls, endTurn, outcome, requests>>

\* The tool has run, its output is longer than 50 KB and byte 51200 is not the
\* first of a character: truncated[..MAX_BYTES] panics.
Panic ==
  /\ pc = "dispatch"
  /\ pending # <<>>
  /\ pc' = "panicked"
  /\ ran' = Append(ran, Head(pending))
  /\ pending' = Tail(pending)
  /\ UNCHANGED <<round, attempt, messages, calls, endTurn, outcome, requests>>

ToolLoopStatusExactMutant(n) ==
  IF n >= Breaker THEN "CircuitBreaker"
  ELSE IF n = Critical THEN "Critical" ELSE "Ok"

\* check_tool_loop; the lowest threshold is only logged.
ToolLoopStatus(n) ==
  IF n >= Breaker THEN "CircuitBreaker"
  ELSE IF n >= Critical THEN "Critical" ELSE "Ok"

Warned == Append(messages, Message("warning", <<>>))

CloseRoundEarlyMutant ==
  /\ pc = "dispatch"
  /\ IF ToolLoopStatus(calls) = "CircuitBreaker"
     THEN End("breaker") /\ UNCHANGED <<round, messages>>
     ELSE /\ messages' = IF ToolLoopStatus(calls) = "Critical" THEN Warned
                         ELSE messages
          /\ IF round = MaxRounds
             THEN End("rounds") /\ UNCHANGED round
             ELSE pc' = "call" /\ round' = round + 1 /\ UNCHANGED outcome
  /\ pending' = <<>>
  /\ UNCHANGED <<attempt, calls, endTurn, requests, ran>>

\* All calls of the round are answered: stop, or warn and go on.
CloseRound ==
  /\ pc = "dispatch"
  /\ pending = <<>>
  /\ IF endTurn \/ ToolLoopStatus(calls) = "CircuitBreaker"
     THEN /\ End(IF endTurn THEN "end_turn" ELSE "breaker")
          /\ UNCHANGED <<round, messages>>
     ELSE /\ messages' = IF ToolLoopStatus(calls) = "Critical" THEN Warned
                         ELSE messages
          /\ IF round = MaxRounds
             THEN End("rounds") /\ UNCHANGED round
             ELSE pc' = "call" /\ round' = round + 1 /\ UNCHANGED outcome
  /\ UNCHANGED <<attempt, calls, pending, endTurn, requests, ran>>

Over == {"done", "failed", "panicked"}

Halted == pc \in Over /\ UNCHANGED vars

Next == Respond \/ Fail \/ Retry \/ Dispatch \/ Panic \/ CloseRound \/ Halted

Spec == Init /\ [][Next]_vars

-----------------------------------------------------------------------------
(* Properties *)

\* Types; the wrapper never counts more retries than it may make.
TypeOK ==
  /\ pc \in {"call", "wait", "dispatch"} \union Over
  /\ round \in 1..MaxRounds
  /\ attempt \in 0..MaxRetries
  /\ messages \in Seq([role : {"user", "assistant", "tool", "warning"},
                       ids : Seq(Nat)])
  /\ calls \in Nat
  /\ pending \in Seq(Nat)
  /\ endTurn \in BOOLEAN
  /\ outcome \in {"none", "answer", "end_turn", "breaker", "rounds", "error",
                  "overflow"}
  /\ requests \in Nat
  /\ ran \in Seq(Nat)

\* Whenever the model is asked, each of its earlier tool calls is followed by
\* its result, in order and before any other message: providers refuse a
\* conversation in which a call has no result.
CallsAnswered ==
  pc = "call" =>
    \A k \in DOMAIN messages : messages[k].role = "assistant" =>
      \A n \in DOMAIN messages[k].ids :
        /\ k + n \in DOMAIN messages
        /\ messages[k + n] = Message("tool", <<messages[k].ids[n]>>)

\* Every call the model made is dispatched once, in order, and none twice,
\* however often its requests are repeated.
DispatchedOnce ==
  ran \o pending = [k \in 1..calls |-> k]

\* The model is asked at most once and MaxRetries times more per round.
RequestsBounded == requests <= round * (MaxRetries + 1)

HasWarning == \E k \in DOMAIN messages : messages[k].role = "warning"

\* The circuit breaker holds up to the calls of one response, and nobody is cut
\* off by it unwarned if the thresholds leave room for a response.  A threshold
\* of 0, which the configuration accepts, is looked at after the first response.
BreakerHolds ==
  /\ Breaker > 0 => calls < Breaker + MaxCalls
  /\ outcome = "breaker" /\ Critical > 0 /\ Critical + MaxCalls <= Breaker =>
       HasWarning
=============================================================================
