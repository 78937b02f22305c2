------------------------- MODULE ConversationProofs -------------------------
(***************************************************************************)
(* Theorems about Executor for every number of rounds, retries, calls and  *)
(* for all thresholds, then about Conversation, which extends it, for      *)
(* every provider, every list of models and any number of lines that the   *)
(* server writes unasked.                                                  *)
(***************************************************************************)
EXTENDS Conversation, FiniteSetTheorems, WellFoundedInduction, TLAPS

-----------------------------------------------------------------------------
(* Executor: the inductive invariant *)

\* Before and after the calls of a round nothing waits to be dispatched, and
\* attempts are counted while a request is repeated only.
PhaseInv ==
  /\ pc \in {"call", "wait"} => pending = <<>>
  /\ pc = "wait" => attempt < MaxRetries
  /\ pc = "dispatch" => attempt = 0

\* The requests of the rounds before, and those of this round.
RequestInv ==
  /\ pc = "call" => requests <= (round - 1) * (MaxRetries + 1) + attempt
  /\ pc = "wait" => requests <= (round - 1) * (MaxRetries + 1) + attempt + 1
  /\ RequestsBounded

\* The k-th message calls, and its n-th call is answered in place, or it is
\* still to dispatch and will be.
AnswerInv ==
  pc # "panicked" =>
    \A k \in DOMAIN messages : messages[k].role = "assistant" =>
      \A n \in DOMAIN messages[k].ids :
        \/ /\ k + n \in DOMAIN messages
           /\ messages[k + n] = Message("tool", <<messages[k].ids[n]>>)
        \/ /\ k + n - Len(messages) \in DOMAIN pending
           /\ pending[k + n - Len(messages)] = messages[k].ids[n]

\* The model is asked again only below the breaker, and below the critical
\* threshold unless it has been warned.
LoopInv ==
  /\ pc \in {"call", "wait"} =>
       /\ Breaker > 0 => calls < Breaker
       /\ Critical > 0 => calls < Critical \/ HasWarning
  /\ Critical > 0 => calls < Critical + MaxCalls \/ HasWarning
  /\ outcome = "breaker" => calls >= Breaker
  /\ Breaker > 0 => calls < Breaker + MaxCalls

IInv ==
  /\ TypeOK
  /\ PhaseInv
  /\ RequestInv
  /\ DispatchedOnce
  /\ AnswerInv
  /\ LoopInv
-----------------------------------------------------------------------------
(* Helpers *)

Messages == [role : {"user", "assistant", "tool", "warning"}, ids : Seq(Nat)]

\* What appending to the conversation, or to the calls dispatched, leaves.
LEMMA AppendFacts ==
  ASSUME NEW S, NEW s \in Seq(S), NEW x \in S
  PROVE  /\ Append(s, x) \in Seq(S)
         /\ Len(Append(s, x)) = Len(s) + 1
         /\ DOMAIN Append(s, x) = 1..(Len(s) + 1)
         /\ DOMAIN s = 1..Len(s)
         /\ Len(s) \in Nat
         /\ \A k \in 1..Len(s) : Append(s, x)[k] = s[k]
         /\ Append(s, x)[Len(s) + 1] = x
  OBVIOUS

\* A message is one of the conversation's.
LEMMA MessageFacts ==
  ASSUME NEW role \in {"user", "assistant", "tool", "warning"},
         NEW ids \in Seq(Nat)
  PROVE  /\ Message(role, ids) \in Messages
         /\ Message(role, ids).role = role
         /\ Message(role, ids).ids = ids
  BY DEF Message, Messages

\* The ids of the calls of one response.
LEMMA IdsFacts ==
  ASSUME NEW c \in Nat, NEW n \in 1..MaxCalls
  PROVE  /\ [k \in 1..n |-> c + k] \in Seq(Nat)
         /\ Len([k \in 1..n |-> c + k]) = n
         /\ DOMAIN [k \in 1..n |-> c + k] = 1..n
         /\ c + n \in Nat
<1>1. n \in Nat
  BY ExecutorAssumption
<1>2. [k \in 1..n |-> c + k] \in [1..n -> Nat]
  BY <1>1
<1> QED
  BY <1>1, <1>2

\* What TypeOK says of the conversation, under the name used here.
LEMMA MessagesType == TypeOK => messages \in Seq(Messages)
  BY DEF TypeOK, Messages

\* The dispatched and the pending calls, one moved from these to those.
LEMMA MoveOne ==
  ASSUME NEW r \in Seq(Nat), NEW p \in Seq(Nat), p # <<>>
  PROVE  /\ Append(r, Head(p)) \in Seq(Nat)
         /\ Tail(p) \in Seq(Nat)
         /\ Append(r, Head(p)) \o Tail(p) = r \o p
<1>1. /\ Append(r, Head(p)) \in Seq(Nat)
      /\ Tail(p) \in Seq(Nat)
      /\ Len(p) \in Nat \ {0}
      /\ Len(r) \in Nat
      /\ Len(Tail(p)) = Len(p) - 1
      /\ Len(Append(r, Head(p))) = Len(r) + 1
      /\ \A k \in 1..(Len(p) - 1) : Tail(p)[k] = p[k + 1]
      /\ Head(p) = p[1]
  OBVIOUS
<1> DEFINE a == Append(r, Head(p)) \o Tail(p)
           b == r \o p
<1>2. a \in Seq(Nat) /\ b \in Seq(Nat) /\ Len(a) = Len(b) /\ Len(b) = Len(r) + Len(p)
  BY <1>1
<1>3. ASSUME NEW k \in 1..Len(b)
      PROVE  a[k] = b[k]
  <2>1. CASE k <= Len(r)
    BY <1>1, <1>2, <2>1
  <2>2. CASE k = Len(r) + 1
    BY <1>1, <1>2, <2>2
  <2>3. CASE k > Len(r) + 1
    <3>1. /\ k - Len(r) - 1 \in 1..(Len(p) - 1)
          /\ a[k] = Tail(p)[k - Len(r) - 1]
          /\ b[k] = p[k - Len(r)]
      BY SMTT(30), <1>1, <1>2, <2>3
    <3>2. k - Len(r) - 1 + 1 = k - Len(r)
      BY <1>1
    <3>3. Tail(p)[k - Len(r) - 1] = p[k - Len(r)]
      BY <1>1, <3>1, <3>2
    <3> QED
      BY <3>1, <3>3
  <2> QED
    BY <1>1, <1>2, <2>1, <2>2, <2>3
<1> QED
  BY SMTT(30), <1>1, <1>2, <1>3

-----------------------------------------------------------------------------
(* The invariant holds at first and is kept by every step *)

\* No message of a context calls a tool or answers a call.
LEMMA ContextFacts ==
  ASSUME NEW c \in Contexts
  PROVE  /\ c \in Seq(Messages)
         /\ \A k \in DOMAIN c : /\ c[k].ids = <<>> /\ DOMAIN c[k].ids = {}
                               /\ c[k].role # "tool"
<1> DEFINE Plain == {Message("user", <<>>), Message("assistant", <<>>)}
<1>1. c \in Seq(Plain)
  BY ExecutorAssumption
<1>2. <<>> \in Seq(Nat) /\ DOMAIN <<>> = {}
  OBVIOUS
<1>3. \A m \in Plain : m \in Messages /\ m.ids = <<>> /\ m.role # "tool"
  <2>1. /\ Message("user", <<>>) \in Messages
        /\ Message("user", <<>>).ids = <<>>
        /\ Message("user", <<>>).role = "user"
    BY <1>2, MessageFacts
  <2>2. /\ Message("assistant", <<>>) \in Messages
        /\ Message("assistant", <<>>).ids = <<>>
        /\ Message("assistant", <<>>).role = "assistant"
    BY <1>2, MessageFacts
  <2> QED
    BY <2>1, <2>2
<1> HIDE DEF Plain
<1>4. \A k \in DOMAIN c : c[k] \in Plain
  BY <1>1
<1>5. c \in Seq(Messages)
  BY <1>1, <1>3
<1> QED
  BY <1>2, <1>3, <1>4, <1>5

\* The execution starts in the invariant.
LEMMA InitIInv == Init => IInv
<1> SUFFICES ASSUME Init PROVE IInv
  OBVIOUS
<1>0. <<>> \in Seq(Nat)
  OBVIOUS
<1>1. messages \in Contexts
  BY DEF Init
<1>2. /\ messages \in Seq(Messages)
      /\ \A k \in DOMAIN messages : DOMAIN messages[k].ids = {}
  BY <1>1, ContextFacts
<1>3. TypeOK
  <2>1. 1 \in 1..MaxRounds /\ 0 \in 0..MaxRetries /\ 0 \in Nat
    BY ExecutorAssumption
  <2> QED
    BY <1>0, <1>2, <2>1 DEF Init, TypeOK, Messages, Over
<1>4. PhaseInv /\ AnswerInv
  BY <1>2 DEF Init, PhaseInv, AnswerInv
<1>5. RequestInv
  <2>1. 0 <= (1 - 1) * (MaxRetries + 1) + 0 /\ 0 <= 1 * (MaxRetries + 1)
    BY ExecutorAssumption
  <2> QED
    BY <2>1 DEF Init, RequestInv, RequestsBounded
<1>6. DispatchedOnce
  <2>1. <<>> \o <<>> = [k \in 1..0 |-> k]
    OBVIOUS
  <2> QED
    BY <2>1 DEF Init, DispatchedOnce
<1>7. LoopInv
  BY ExecutorAssumption DEF Init, LoopInv
<1> QED
  BY <1>3, <1>4, <1>5, <1>6, <1>7 DEF IInv

\* Types, and the counters each phase leaves at rest.
LEMMA TypeStep ==
  TypeOK /\ PhaseInv /\ [Next]_vars => TypeOK' /\ PhaseInv'
<1> SUFFICES ASSUME TypeOK, PhaseInv, [Next]_vars
             PROVE  TypeOK' /\ PhaseInv'
  OBVIOUS
<1> USE ExecutorAssumption
<1>0. messages \in Seq(Messages)
  BY MessagesType
<1>1. CASE Respond
  <2>1. CASE End("answer") /\ UNCHANGED <<messages, calls, pending, endTurn>>
    BY <1>1, <2>1 DEF Respond, End, TypeOK, PhaseInv, Over
  <2>2. ASSUME NEW n \in 1..MaxCalls, NEW done \in BOOLEAN,
               LET ids == [k \in 1..n |-> calls + k] IN
               /\ calls' = calls + n
               /\ messages' = Append(messages, Message("assistant", ids))
               /\ pending' = ids
               /\ endTurn' = done,
               pc' = "dispatch",
               UNCHANGED outcome
        PROVE  TypeOK' /\ PhaseInv'
    <3> DEFINE ids == [k \in 1..n |-> calls + k]
    <3>1. ids \in Seq(Nat) /\ calls + n \in Nat
      BY IdsFacts DEF TypeOK
    <3>2. Message("assistant", ids) \in Messages
      BY <3>1, MessageFacts
    <3>3. messages' \in Seq(Messages)
      BY <1>0, <2>2, <3>2
    <3> QED
      BY <1>1, <2>2, <3>1, <3>3 DEF Respond, TypeOK, PhaseInv, Messages
  <2> QED
    BY <1>1, <2>1, <2>2 DEF Respond
<1>2. CASE Fail
  BY <1>2 DEF Fail, TypeOK, PhaseInv, Errors, Retriable, Classified, Over
<1>3. CASE Retry
  BY <1>3 DEF Retry, TypeOK, PhaseInv
<1>4. CASE Dispatch
  <2>1. Head(pending) \in Nat /\ <<Head(pending)>> \in Seq(Nat)
    BY <1>4 DEF Dispatch, TypeOK
  <2>2. Message("tool", <<Head(pending)>>) \in Messages
    BY <2>1, MessageFacts
  <2>3. messages' \in Seq(Messages)
    BY <1>0, <1>4, <2>2 DEF Dispatch
  <2>4. pending' \in Seq(Nat) /\ ran' \in Seq(Nat)
    BY <1>4, MoveOne DEF Dispatch, TypeOK
  <2> QED
    BY <1>4, <2>3, <2>4 DEF Dispatch, TypeOK, PhaseInv, Messages
<1>5. CASE Panic
  <2>1. pending' \in Seq(Nat) /\ ran' \in Seq(Nat)
    BY <1>5, MoveOne DEF Panic, TypeOK
  <2> QED
    BY <1>5, <2>1 DEF Panic, TypeOK, PhaseInv, Over
<1>6. CASE CloseRound
  <2>1. Warned \in Seq(Messages)
    <3>1. <<>> \in Seq(Nat)
      OBVIOUS
    <3>2. Message("warning", <<>>) \in Messages
      BY <3>1, MessageFacts
    <3> QED
      BY <1>0, <3>2 DEF Warned
  <2>2. messages' \in Seq(Messages)
    BY <1>0, <1>6, <2>1 DEF CloseRound
  <2> QED
    BY <1>6, <2>2 DEF CloseRound, End, TypeOK, PhaseInv, Over, Messages
<1>7. CASE UNCHANGED vars
  BY <1>7 DEF vars, TypeOK, PhaseInv
<1> QED
  BY <1>1, <1>2, <1>3, <1>4, <1>5, <1>6, <1>7 DEF Next, Halted

\* A round may make MaxRetries + 1 requests more than the rounds before it.
LEMMA RoundRequests ==
  ASSUME NEW r \in Nat
  PROVE  /\ r * (MaxRetries + 1) \in Nat
         /\ (r + 1 - 1) * (MaxRetries + 1) = r * (MaxRetries + 1)
         /\ r * (MaxRetries + 1) = (r - 1) * (MaxRetries + 1) + MaxRetries + 1
  BY ExecutorAssumption

\* The requests of the rounds.
LEMMA RequestStep ==
  TypeOK /\ PhaseInv /\ RequestInv /\ [Next]_vars => RequestInv'
<1> SUFFICES ASSUME TypeOK, PhaseInv, RequestInv, [Next]_vars
             PROVE  RequestInv'
  OBVIOUS
<1> DEFINE before == (round - 1) * (MaxRetries + 1)
           upto   == round * (MaxRetries + 1)
<1>0. /\ round \in Nat
      /\ before \in Int
      /\ upto \in Nat
      /\ upto = before + MaxRetries + 1
      /\ (round + 1 - 1) * (MaxRetries + 1) = upto
      /\ (round + 1) * (MaxRetries + 1) = upto + MaxRetries + 1
      /\ MaxRetries \in Nat
      /\ attempt \in 0..MaxRetries
      /\ requests \in Nat
  <2>1. round \in Nat /\ round + 1 \in Nat
    BY ExecutorAssumption DEF TypeOK
  <2> QED
    BY <2>1, RoundRequests, ExecutorAssumption DEF TypeOK
<1>1. /\ pc = "call" => requests <= before + attempt
      /\ pc = "wait" => requests <= before + attempt + 1
      /\ requests <= upto
  BY DEF RequestInv, RequestsBounded
<1>2. ASSUME round' = round
      PROVE  /\ (round' - 1) * (MaxRetries + 1) = before
             /\ round' * (MaxRetries + 1) = upto
  BY <1>2
<1> HIDE DEF before, upto
<1>3. CASE Respond
  <2>1. requests' <= upto /\ round' = round /\ pc' \notin {"call", "wait"}
    BY <1>0, <1>1, <1>3 DEF Respond, End
  <2> QED
    BY <1>2, <2>1 DEF RequestInv, RequestsBounded
<1>4. CASE Fail
  <2>1. /\ requests' <= upto /\ round' = round /\ attempt' = attempt
        /\ requests' <= before + attempt + 1 /\ pc' # "call"
    BY <1>0, <1>1, <1>4 DEF Fail
  <2> QED
    BY <1>2, <2>1 DEF RequestInv, RequestsBounded
<1>5. CASE Retry
  <2>1. /\ requests' <= upto /\ round' = round /\ pc' = "call"
        /\ requests' <= before + attempt'
    BY <1>0, <1>1, <1>5 DEF Retry
  <2> QED
    BY <1>2, <2>1 DEF RequestInv, RequestsBounded
<1>6. CASE Dispatch \/ Panic
  <2>1. requests' <= upto /\ round' = round /\ pc' \notin {"call", "wait"}
    BY <1>0, <1>1, <1>6 DEF Dispatch, Panic
  <2> QED
    BY <1>2, <2>1 DEF RequestInv, RequestsBounded
<1>7. CASE CloseRound
  <2>1. /\ requests' = requests
        /\ \/ round' = round /\ pc' = "done"
           \/ round' = round + 1 /\ pc' = "call" /\ attempt' = 0
    BY <1>7 DEF CloseRound, End, PhaseInv
  <2>2. CASE round' = round /\ pc' = "done"
    BY <1>1, <1>2, <2>1, <2>2 DEF RequestInv, RequestsBounded
  <2>3. CASE round' = round + 1 /\ pc' = "call" /\ attempt' = 0
    <3>1. /\ (round' - 1) * (MaxRetries + 1) = upto
          /\ round' * (MaxRetries + 1) = upto + MaxRetries + 1
      BY <1>0, <2>3
    <3>2. requests' <= upto + attempt' /\ requests' <= upto + MaxRetries + 1
      BY <1>0, <1>1, <2>1, <2>3
    <3> QED
      BY <2>3, <3>1, <3>2 DEF RequestInv, RequestsBounded
  <2> QED
    BY <2>1, <2>2, <2>3
<1>8. CASE UNCHANGED vars
  BY <1>8 DEF vars, RequestInv, RequestsBounded
<1> QED
  BY <1>3, <1>4, <1>5, <1>6, <1>7, <1>8 DEF Next, Halted

\* The calls of a response continue the count.
LEMMA Continue ==
  ASSUME NEW c \in Nat, NEW n \in 1..MaxCalls, NEW r \in Seq(Nat),
         r = [k \in 1..c |-> k]
  PROVE  r \o [k \in 1..n |-> c + k] = [k \in 1..(c + n) |-> k]
<1> DEFINE ids == [k \in 1..n |-> c + k]
           every == [k \in 1..(c + n) |-> k]
<1>1. ids \in Seq(Nat) /\ Len(ids) = n /\ c + n \in Nat /\ n \in Nat
  BY IdsFacts, ExecutorAssumption
<1>2. Len(r) = c
  OBVIOUS
<1>3. every \in [1..(c + n) -> Nat]
  BY <1>1
<1>4. every \in Seq(Nat) /\ Len(every) = c + n
  BY <1>1, <1>3
<1>5. /\ r \o ids \in Seq(Nat)
      /\ Len(r \o ids) = c + n
      /\ \A k \in 1..c : (r \o ids)[k] = r[k]
      /\ \A k \in (c + 1)..(c + n) : (r \o ids)[k] = ids[k - c]
  BY <1>1, <1>2
<1>6. ASSUME NEW k \in 1..(c + n)
      PROVE  (r \o ids)[k] = every[k]
  <2>1. CASE k <= c
    BY <1>1, <1>5, <2>1
  <2>2. CASE k > c
    <3>1. k \in (c + 1)..(c + n) /\ k - c \in 1..n
      BY <1>1, <2>2
    <3> QED
      BY <1>1, <1>5, <3>1
  <2> QED
    BY <1>1, <2>1, <2>2
<1> QED
  BY <1>1, <1>4, <1>5, <1>6

\* The calls dispatched and to be dispatched.
LEMMA DispatchStep ==
  TypeOK /\ PhaseInv /\ DispatchedOnce /\ [Next]_vars => DispatchedOnce'
<1> SUFFICES ASSUME TypeOK, PhaseInv, DispatchedOnce, [Next]_vars
             PROVE  DispatchedOnce'
  OBVIOUS
<1>0. ran \in Seq(Nat) /\ pending \in Seq(Nat) /\ calls \in Nat
  BY DEF TypeOK
<1>1. CASE Respond
  <2>1. CASE UNCHANGED <<messages, calls, pending, endTurn>>
    BY <1>1, <2>1 DEF Respond, DispatchedOnce
  <2>2. ASSUME NEW n \in 1..MaxCalls,
               calls' = calls + n,
               pending' = [k \in 1..n |-> calls + k]
        PROVE  DispatchedOnce'
    <3>1. ran = [k \in 1..calls |-> k]
      BY <1>0, <1>1 DEF Respond, PhaseInv, DispatchedOnce
    <3>2. ran \o [k \in 1..n |-> calls + k] = [k \in 1..(calls + n) |-> k]
      BY <1>0, <3>1, Continue
    <3> QED
      BY <1>1, <2>2, <3>2 DEF Respond, DispatchedOnce
  <2> QED
    BY <1>1, <2>1, <2>2 DEF Respond
<1>2. CASE Dispatch \/ Panic
  <2>1. /\ pending # <<>>
        /\ ran' = Append(ran, Head(pending))
        /\ pending' = Tail(pending)
        /\ calls' = calls
    BY <1>2 DEF Dispatch, Panic
  <2> QED
    BY <1>0, <2>1, MoveOne DEF DispatchedOnce
<1>3. CASE Fail \/ Retry \/ CloseRound \/ UNCHANGED vars
  BY <1>3 DEF Fail, Retry, CloseRound, vars, DispatchedOnce
<1> QED
  BY <1>1, <1>2, <1>3 DEF Next, Halted

\* A warning stays in the conversation.
LEMMA WarningStays ==
  ASSUME NEW s \in Seq(Messages), NEW x \in Messages,
         x.role = "warning" \/ \E k \in DOMAIN s : s[k].role = "warning"
  PROVE  \E k \in DOMAIN Append(s, x) : Append(s, x)[k].role = "warning"
<1>1. CASE x.role = "warning"
  <2>1. Len(s) + 1 \in DOMAIN Append(s, x) /\ Append(s, x)[Len(s) + 1] = x
    BY AppendFacts
  <2> QED
    BY <1>1, <2>1
<1>2. CASE \E k \in DOMAIN s : s[k].role = "warning"
  <2>1. PICK k \in DOMAIN s : s[k].role = "warning"
    BY <1>2
  <2>2. k \in DOMAIN Append(s, x) /\ Append(s, x)[k] = s[k]
    BY AppendFacts
  <2> QED
    BY <2>1, <2>2
<1> QED
  BY <1>1, <1>2

\* The thresholds of the tool calls.
LEMMA LoopStep ==
  TypeOK /\ LoopInv /\ [Next]_vars => LoopInv'
<1> SUFFICES ASSUME TypeOK, LoopInv, [Next]_vars
             PROVE  LoopInv'
  OBVIOUS
<1> USE ExecutorAssumption
<1>0. messages \in Seq(Messages) /\ calls \in Nat
  BY MessagesType DEF TypeOK
<1>1. CASE Respond
  <2>1. CASE End("answer") /\ UNCHANGED <<messages, calls, pending, endTurn>>
    BY <1>1, <2>1 DEF Respond, End, LoopInv, HasWarning
  <2>2. ASSUME NEW n \in 1..MaxCalls,
               calls' = calls + n,
               messages' = Append(messages,
                             Message("assistant", [k \in 1..n |-> calls + k])),
               pc' = "dispatch",
               UNCHANGED outcome
        PROVE  LoopInv'
    <3>1. Message("assistant", [k \in 1..n |-> calls + k]) \in Messages
      BY <1>0, IdsFacts, MessageFacts
    <3>2. HasWarning => HasWarning'
      BY <1>0, <2>2, <3>1, WarningStays DEF HasWarning
    <3>3. /\ n \in Nat /\ n <= MaxCalls
          /\ Breaker > 0 => calls < Breaker
          /\ Critical > 0 => calls < Critical \/ HasWarning
          /\ outcome = "breaker" => calls >= Breaker
      BY <1>1 DEF Respond, LoopInv
    <3>4. /\ Breaker > 0 => calls' < Breaker + MaxCalls
          /\ Critical > 0 => calls' < Critical + MaxCalls \/ HasWarning'
          /\ outcome' = "breaker" => calls' >= Breaker
      BY <1>0, <2>2, <3>2, <3>3
    <3> QED
      BY <2>2, <3>4 DEF LoopInv
  <2> QED
    BY <1>1, <2>1, <2>2 DEF Respond
<1>2. CASE Dispatch
  <2>1. Message("tool", <<Head(pending)>>) \in Messages
    <3>1. <<Head(pending)>> \in Seq(Nat)
      BY <1>2 DEF Dispatch, TypeOK
    <3> QED
      BY <3>1, MessageFacts
  <2>2. HasWarning => HasWarning'
    BY <1>0, <1>2, <2>1, WarningStays DEF Dispatch, HasWarning
  <2> QED
    BY <1>2, <2>2 DEF Dispatch, LoopInv
<1>3. CASE CloseRound
  <2>0. /\ Message("warning", <<>>) \in Messages
        /\ Message("warning", <<>>).role = "warning"
    <3>1. <<>> \in Seq(Nat)
      OBVIOUS
    <3> QED
      BY <3>1, MessageFacts
  <2>1. CASE endTurn \/ ToolLoopStatus(calls) = "CircuitBreaker"
    <3>1. /\ UNCHANGED <<calls, messages>>
          /\ pc' = "done"
          /\ outcome' = "breaker" => calls >= Breaker
      BY <1>3, <2>1 DEF CloseRound, End, ToolLoopStatus
    <3> QED
      BY <3>1 DEF LoopInv, HasWarning
  <2>2. CASE ~(endTurn \/ ToolLoopStatus(calls) = "CircuitBreaker")
    <3>1. /\ calls' = calls
          /\ calls < Breaker
          /\ outcome' \in {"rounds", outcome}
          /\ pc' \in {"done", "call"}
      BY <1>0, <1>3, <2>2 DEF CloseRound, End, ToolLoopStatus
    <3>2. CASE calls >= Critical
      <4>1. messages' = Append(messages, Message("warning", <<>>))
        BY <1>0, <1>3, <2>2, <3>1, <3>2 DEF CloseRound, ToolLoopStatus, Warned
      <4>2. HasWarning'
        BY <1>0, <2>0, <4>1, WarningStays DEF HasWarning
      <4> QED
        BY <3>1, <4>2 DEF LoopInv
    <3>3. CASE calls < Critical
      <4>1. messages' = messages
        BY <1>0, <1>3, <2>2, <3>1, <3>3 DEF CloseRound, ToolLoopStatus
      <4> QED
        BY <3>1, <3>3, <4>1 DEF LoopInv, HasWarning
    <3> QED
      BY <1>0, <3>2, <3>3
  <2> QED
    BY <2>1, <2>2
<1>4. CASE Fail
  BY <1>4 DEF Fail, LoopInv, HasWarning, Classified, Errors
<1>5. CASE Retry \/ Panic \/ UNCHANGED vars
  BY <1>5 DEF Retry, Panic, vars, LoopInv, HasWarning
<1> QED
  BY <1>1, <1>2, <1>3, <1>4, <1>5 DEF Next, Halted

\* Appending keeps what AnswerInv says of the calls already answered.
LEMMA AnswerStep ==
  TypeOK /\ PhaseInv /\ AnswerInv /\ [Next]_vars => AnswerInv'
<1> SUFFICES ASSUME TypeOK, PhaseInv, AnswerInv, [Next]_vars,
                    pc' # "panicked",
                    NEW k \in DOMAIN messages',
                    messages'[k].role = "assistant",
                    NEW n \in DOMAIN messages'[k].ids
             PROVE  \/ /\ k + n \in DOMAIN messages'
                       /\ messages'[k + n] =
                            Message("tool", <<messages'[k].ids[n]>>)
                    \/ /\ k + n - Len(messages') \in DOMAIN pending'
                       /\ pending'[k + n - Len(messages')] = messages'[k].ids[n]
  BY DEF AnswerInv
<1> DEFINE size == Len(messages)
           id == messages[k].ids[n]
<1>0. /\ messages \in Seq(Messages)
      /\ pending \in Seq(Nat)
      /\ size \in Nat
      /\ DOMAIN messages = 1..size
      /\ calls \in Nat
  BY MessagesType DEF TypeOK
\* What the invariant says of a message that was there before the step.
<1>1. ASSUME pc # "panicked", k \in 1..size, messages'[k] = messages[k]
      PROVE  /\ n \in Nat
             /\ \/ /\ k + n \in 1..size
                   /\ messages[k + n] = Message("tool", <<id>>)
                \/ /\ k + n - size \in DOMAIN pending
                   /\ pending[k + n - size] = id
  <2>1. messages[k] \in Messages
    BY <1>0, <1>1
  <2>2. n \in Nat
    BY <1>1, <2>1 DEF Messages
  <2> QED
    BY <1>0, <1>1, <2>2 DEF AnswerInv
\* Nothing to dispatch: every call that was there has its answer.
<1>2. ASSUME pc # "panicked", pending = <<>>,
             NEW x \in Messages, messages' = Append(messages, x), k \in 1..size
      PROVE  /\ k + n \in DOMAIN messages'
             /\ messages'[k + n] = Message("tool", <<messages'[k].ids[n]>>)
  <2>1. /\ DOMAIN messages' = 1..(size + 1)
        /\ \A j \in 1..size : messages'[j] = messages[j]
    BY <1>0, <1>2, AppendFacts
  <2>2. k + n \in 1..size /\ messages[k + n] = Message("tool", <<id>>)
    BY <1>1, <1>2, <2>1
  <2> QED
    BY <1>0, <1>2, <2>1, <2>2
<1>3. CASE Respond
  <2>1. CASE UNCHANGED <<messages, calls, pending, endTurn>>
    BY <1>0, <1>1, <1>3, <2>1 DEF Respond
  <2>2. ASSUME NEW c \in 1..MaxCalls,
               messages' = Append(messages,
                             Message("assistant", [j \in 1..c |-> calls + j])),
               pending' = [j \in 1..c |-> calls + j]
        PROVE  \/ /\ k + n \in DOMAIN messages'
                  /\ messages'[k + n] =
                       Message("tool", <<messages'[k].ids[n]>>)
               \/ /\ k + n - Len(messages') \in DOMAIN pending'
                  /\ pending'[k + n - Len(messages')] = messages'[k].ids[n]
    <3> DEFINE ids == [j \in 1..c |-> calls + j]
    <3>1. /\ ids \in Seq(Nat)
          /\ DOMAIN ids = 1..c
          /\ Message("assistant", ids) \in Messages
          /\ Message("assistant", ids).ids = ids
      BY <1>0, IdsFacts, MessageFacts
    <3>2. /\ DOMAIN messages' = 1..(size + 1)
          /\ Len(messages') = size + 1
          /\ messages'[size + 1] = Message("assistant", ids)
      BY <1>0, <2>2, <3>1, AppendFacts
    <3>3. CASE k \in 1..size
      BY <1>2, <1>3, <2>2, <3>1, <3>3 DEF Respond, PhaseInv
    <3>4. CASE k = size + 1
      <4>1. n \in 1..c /\ messages'[k].ids[n] = ids[n]
        BY <3>1, <3>2, <3>4
      <4>2. n \in Nat /\ k + n - Len(messages') = n
        BY <1>0, <3>2, <3>4, <4>1, ExecutorAssumption
      <4> QED
        BY <2>2, <3>1, <4>1, <4>2
    <3> QED
      BY <1>0, <3>2, <3>3, <3>4
  <2> QED
    BY <1>3, <2>1, <2>2 DEF Respond
<1>4. CASE Dispatch
  <2> DEFINE x == Message("tool", <<Head(pending)>>)
  <2>1. /\ x \in Messages
        /\ x.role = "tool"
    <3>0. Head(pending) \in Nat
      BY <1>0, <1>4 DEF Dispatch
    <3>1. <<Head(pending)>> \in Seq(Nat)
      BY <3>0
    <3> QED
      BY <3>1, MessageFacts
  <2>2. /\ messages' = Append(messages, x)
        /\ pending' = Tail(pending)
        /\ pending # <<>>
        /\ pc # "panicked"
    BY <1>4 DEF Dispatch
  <2>3. /\ DOMAIN messages' = 1..(size + 1)
        /\ Len(messages') = size + 1
        /\ \A j \in 1..size : messages'[j] = messages[j]
        /\ messages'[size + 1] = x
    BY <1>0, <2>1, <2>2, AppendFacts
  <2>4. k \in 1..size
    BY <1>0, <2>1, <2>3
  <2>5. CASE k + n \in 1..size /\ messages[k + n] = Message("tool", <<id>>)
    BY <1>0, <2>3, <2>4, <2>5
  <2>6. CASE k + n - size \in DOMAIN pending /\ pending[k + n - size] = id
    <3>1. /\ n \in Nat
          /\ Len(pending) \in Nat \ {0}
          /\ DOMAIN pending = 1..Len(pending)
          /\ DOMAIN Tail(pending) = 1..(Len(pending) - 1)
          /\ \A j \in 1..(Len(pending) - 1) : Tail(pending)[j] = pending[j + 1]
          /\ Head(pending) = pending[1]
      BY <1>0, <1>1, <2>2, <2>3, <2>4
    <3>2. CASE k + n - size = 1
      <4>1. k + n = size + 1 /\ id = Head(pending)
        BY <1>0, <2>4, <2>6, <3>1, <3>2
      <4> QED
        BY <1>0, <2>3, <2>4, <4>1
    <3>3. CASE k + n - size # 1
      <4>1. /\ k + n - (size + 1) \in 1..(Len(pending) - 1)
            /\ k + n - (size + 1) + 1 = k + n - size
        BY SMTT(30), <1>0, <2>4, <2>6, <3>1, <3>3
      <4>2. Tail(pending)[k + n - (size + 1)] = id
        BY <2>6, <3>1, <4>1
      <4> QED
        BY <2>2, <2>3, <2>4, <3>1, <4>1, <4>2
    <3> QED
      BY <3>2, <3>3
  <2> QED
    BY <1>1, <2>2, <2>3, <2>4, <2>5, <2>6
<1>5. CASE CloseRound
  <2>1. pending = <<>> /\ pending' = <<>> /\ pc # "panicked"
    BY <1>5 DEF CloseRound
  <2>2. messages' = messages \/ messages' = Append(messages, Message("warning", <<>>))
    BY <1>5 DEF CloseRound, Warned
  <2>3. CASE messages' = messages
    BY <1>0, <1>1, <2>1, <2>3
  <2>4. CASE messages' = Append(messages, Message("warning", <<>>))
    <3>1. /\ Message("warning", <<>>) \in Messages
          /\ Message("warning", <<>>).role = "warning"
      <4>1. <<>> \in Seq(Nat)
        OBVIOUS
      <4> QED
        BY <4>1, MessageFacts
    <3>2. /\ DOMAIN messages' = 1..(size + 1)
          /\ messages'[size + 1] = Message("warning", <<>>)
      BY <1>0, <2>4, <3>1, AppendFacts
    <3>3. k \in 1..size
      BY <1>0, <3>1, <3>2
    <3> QED
      BY <1>2, <2>1, <2>4, <3>1, <3>3
  <2> QED
    BY <2>2, <2>3, <2>4
<1>6. CASE Fail \/ Retry \/ UNCHANGED vars
  BY <1>0, <1>1, <1>6 DEF Fail, Retry, vars
<1>7. CASE Panic
  BY <1>7 DEF Panic
<1> QED
  BY <1>3, <1>4, <1>5, <1>6, <1>7 DEF Next, Halted

\* The invariant is inductive.
LEMMA NextIInv == IInv /\ [Next]_vars => IInv'
  BY TypeStep, RequestStep, DispatchStep, LoopStep, AnswerStep DEF IInv

-----------------------------------------------------------------------------
(* Executor: theorems *)

\* IInv holds throughout every execution.
THEOREM Invariance == Spec => []IInv
  BY InitIInv, NextIInv, PTL DEF Spec

\* Every variable keeps its type; in particular the wrapper never counts more
\* retries than the configuration allows.
THEOREM TypeCorrect == Spec => []TypeOK
<1>1. IInv => TypeOK
  BY DEF IInv
<1> QED
  BY <1>1, Invariance, PTL

\* Every tool call the model made is dispatched once and in order.
THEOREM CallsDispatchedOnce == Spec => []DispatchedOnce
<1>1. IInv => DispatchedOnce
  BY DEF IInv
<1> QED
  BY <1>1, Invariance, PTL

\* The model is asked at most MaxRetries + 1 times per round.
THEOREM RequestsAreBounded == Spec => []RequestsBounded
<1>1. IInv => RequestsBounded
  BY DEF IInv, RequestInv
<1> QED
  BY <1>1, Invariance, PTL

\* The circuit breaker holds up to one response, and cuts nobody off unwarned
\* if the thresholds leave room for one.
THEOREM BreakerWorks == Spec => []BreakerHolds
<1>1. IInv => BreakerHolds
  <2> SUFFICES ASSUME TypeOK, LoopInv PROVE BreakerHolds
    BY DEF IInv
  <2>1. ASSUME outcome = "breaker", Critical > 0, Critical + MaxCalls <= Breaker
        PROVE  HasWarning
    BY <2>1, ExecutorAssumption DEF TypeOK, LoopInv
  <2> QED
    BY <2>1 DEF LoopInv, BreakerHolds
<1> QED
  BY <1>1, Invariance, PTL

\* Whenever the model is asked, each of its calls has its result in place.
THEOREM CallsAreAnswered == Spec => []CallsAnswered
<1>1. IInv => CallsAnswered
  <2> SUFFICES ASSUME TypeOK, PhaseInv, AnswerInv, pc = "call",
                      NEW k \in DOMAIN messages,
                      messages[k].role = "assistant",
                      NEW n \in DOMAIN messages[k].ids
               PROVE  /\ k + n \in DOMAIN messages
                      /\ messages[k + n] = Message("tool", <<messages[k].ids[n]>>)
    BY DEF IInv, CallsAnswered
  <2>1. pending = <<>> /\ DOMAIN pending = {}
    BY DEF PhaseInv
  <2> QED
    BY <2>1 DEF AnswerInv
<1> QED
  BY <1>1, Invariance, PTL

-----------------------------------------------------------------------------
(* Conversation: the inductive invariant *)

Lines == [kind : {"hello", "list", "answer", "note", "text"}, of : Nat]

Gots == [from : {"server", "adapter", "unsupported", "error"}, of : Nat]

Servers == [up : BOOLEAN, alive : BOOLEAN, todo : Seq(Lines), lines : Seq(Lines),
            notes : Nat]

Stages == {"discover", "spawn", "hello", "list", "run", "closed"}

ServerTypes ==
  /\ stage \in Stages
  /\ provider \in Providers
  /\ server \in Servers
  /\ asking \in BOOLEAN
  /\ got \in Seq(Gots)

\* Only a run whose server has come up asks it, one call at a time, and each
\* call that was dispatched got an answer.
StageInv ==
  /\ stage \in {"discover", "spawn"} => server = NoServer
  /\ stage = "closed" => pc \in Over
  /\ server.up => stage \in {"run", "closed"}
  /\ ~server.alive => server.todo = <<>>
  /\ asking => stage = "run" /\ pc = "dispatch" /\ pending # <<>>
  /\ Len(got) = Len(ran)

\* What the run will read, in order: what is in the pipe, then the answers of
\* the server to what is asked of it.
Queue == server.lines \o server.todo

Called == IF asking THEN 1 ELSE 0

\* A request that is not answered yet.
Waiting == IF asking \/ stage \in {"hello", "list"} THEN 1 ELSE 0

\* The queue is as long as the server wrote lines unasked, and one more for a
\* request that is not answered yet.
SizeInv == server.alive => Len(Queue) <= server.notes + Waiting

\* How many calls after a call were answered by the server.
Behind(of, g) == Cardinality({j \in (of + 1) .. Len(g) : g[j].from = "server"})

\* An answer at place i in the queue is for a later call than all those before
\* it, in the queue and among what the calls got; and the calls answered since
\* its call and the lines before it are no more than those written unasked.
FitsAt(q, g, called, notes, i) ==
  /\ q[i].of <= Len(g) + called
  /\ q[i].of > 0 =>
       /\ \A h \in 1 .. i - 1 : q[h].of < q[i].of
       /\ \A j \in 1 .. Len(g) : g[j].of < q[i].of
       /\ Behind(q[i].of, g) + (i - 1) + (IF Len(g) >= q[i].of THEN 1 ELSE 0)
            <= notes

Fits(q, g, called, notes) == \A i \in 1 .. Len(q) : FitsAt(q, g, called, notes, i)

QueueInv == Fits(Queue, got, Called, server.notes)

\* The model that requests name is one of those listed.
ModelInv == stage # "discover" /\ models # <<>> => model \in Range(models)

\* A call was made by a message before place k.
MadeBefore(talked, call, k) ==
  \E j \in DOMAIN talked : /\ j < k /\ talked[j].role = "assistant"
                           /\ call \in Range(talked[j].ids)

\* Results, and calls to dispatch, are those of calls that were made.
MadeInv ==
  /\ \A n \in DOMAIN pending : MadeBefore(messages, pending[n], Len(messages) + 1)
  /\ \A k \in DOMAIN messages : messages[k].role = "tool" =>
       \A call \in Range(messages[k].ids) : MadeBefore(messages, call, k)

ConversationInv ==
  /\ ServerTypes
  /\ StageInv
  /\ SizeInv
  /\ QueueInv
  /\ AnswersMatch
  /\ ModelInv
  /\ MadeInv

-----------------------------------------------------------------------------
(* Each step is one of the executor's, or leaves it where it is *)

\* Whatever the provider and the MCP server do, the run begins as
\* Executor::execute does, and a step of the three either is a step of
\* execute or leaves its variables alone.
THEOREM ExecutorSteps ==
  /\ ConversationInit => Init
  /\ [ConversationNext]_all => [Next]_vars
<1>1. ConversationInit => Init
  BY DEF ConversationInit
<1>2. ASSUME ConversationNext PROVE [Next]_vars
  <2>1. CASE Discover \/ Spawn \/ ReadHello \/ ReadList \/ CallServer \/ Shutdown
    BY <2>1 DEF Discover, Spawn, ReadHello, ReadList, CallServer, Shutdown, vars
  <2>2. CASE Answer
    BY <2>2 DEF Answer, Next
  <2>3. CASE FailRequest
    BY <2>3 DEF FailRequest, Next
  <2>4. CASE Repeat
    BY <2>4 DEF Repeat, Next
  <2>5. CASE ReadResult
    BY <2>5 DEF ReadResult, Next
  <2>6. CASE CallAdapter
    BY <2>6 DEF CallAdapter, Next
  <2>7. CASE CallNobody
    BY <2>7 DEF CallNobody, Next
  <2>8. CASE EndRound
    BY <2>8 DEF EndRound, Next
  <2>9. CASE ServerAnswers \/ ServerSpeaks \/ ServerDies \/ TokenExpires
    BY <2>9 DEF ServerAnswers, ServerSpeaks, ServerDies, TokenExpires
  <2>10. CASE Closed
    BY <2>10 DEF Closed, all
  <2> QED
    BY <1>2, <2>1, <2>2, <2>3, <2>4, <2>5, <2>6, <2>7, <2>8, <2>9, <2>10
       DEF ConversationNext, Run
<1>3. UNCHANGED all => UNCHANGED vars
  BY DEF all
<1> QED
  BY <1>1, <1>2, <1>3

\* A conversation is an execution: what is proved of the executor holds of it.
THEOREM IsExecution == ConversationSpec => Spec
  BY ExecutorSteps, PTL DEF ConversationSpec, Spec

\* The inductive invariant of Executor::execute holds in a conversation too.
THEOREM ExecutorInvariance == ConversationSpec => []IInv
  BY IsExecution, Invariance, PTL

\* Every call the model made is dispatched once and in order.
THEOREM ConversationDispatchesOnce == ConversationSpec => []DispatchedOnce
  BY IsExecution, CallsDispatchedOnce, PTL

\* The circuit breaker holds whatever the provider and the server do.
THEOREM ConversationBreaker == ConversationSpec => []BreakerHolds
  BY IsExecution, BreakerWorks, PTL

-----------------------------------------------------------------------------
(* The queue, and what the calls got *)

LEMMA TailFacts ==
  ASSUME NEW S, NEW s \in Seq(S), s # <<>>
  PROVE  /\ Head(s) \in S /\ Head(s) = s[1]
         /\ Len(s) \in Nat \ {0}
         /\ Tail(s) \in Seq(S)
         /\ Len(Tail(s)) = Len(s) - 1
         /\ DOMAIN Tail(s) = 1 .. Len(s) - 1
         /\ \A k \in 1 .. Len(s) - 1 : Tail(s)[k] = s[k + 1]
  OBVIOUS

LEMMA JoinFacts ==
  ASSUME NEW S, NEW s \in Seq(S), NEW t \in Seq(S)
  PROVE  /\ s \o t \in Seq(S)
         /\ Len(s) \in Nat /\ Len(t) \in Nat
         /\ Len(s \o t) = Len(s) + Len(t)
         /\ \A k \in 1 .. Len(s) : (s \o t)[k] = s[k]
         /\ \A k \in 1 .. Len(t) : (s \o t)[Len(s) + k] = t[k]
  OBVIOUS

LEMMA OfIsNat ==
  /\ \A q \in Seq(Lines) : \A k \in 1 .. Len(q) : q[k].of \in Nat
  /\ \A g \in Seq(Gots) : \A k \in 1 .. Len(g) : g[k].of \in Nat
<1>1. \A e \in Lines : e.of \in Nat
  BY DEF Lines
<1>2. \A e \in Gots : e.of \in Nat
  BY DEF Gots
<1>3. ASSUME NEW q \in Seq(Lines), NEW k \in 1 .. Len(q)
      PROVE  q[k] \in Lines
  OBVIOUS
<1>4. ASSUME NEW g \in Seq(Gots), NEW k \in 1 .. Len(g)
      PROVE  g[k] \in Gots
  OBVIOUS
<1> QED
  BY <1>1, <1>2, <1>3, <1>4

LEMMA BehindType ==
  ASSUME NEW of \in Nat, NEW g \in Seq(Gots)
  PROVE  /\ IsFiniteSet({j \in (of + 1) .. Len(g) : g[j].from = "server"})
         /\ Behind(of, g) \in Nat
         /\ of >= Len(g) => Behind(of, g) = 0
<1> DEFINE B == {j \in (of + 1) .. Len(g) : g[j].from = "server"}
<1>1. Len(g) \in Nat
  OBVIOUS
<1>2. IsFiniteSet((of + 1) .. Len(g))
  BY <1>1, FS_Interval
<1>3. IsFiniteSet(B)
  BY <1>2, FS_Subset
<1>4. of >= Len(g) => B = {}
  BY <1>1
<1> QED
  BY <1>3, <1>4, FS_CardinalityType, FS_EmptySet DEF Behind

LEMMA BehindAppend ==
  ASSUME NEW of \in Nat, NEW g \in Seq(Gots), NEW x \in Gots
  PROVE  Behind(of, Append(g, x)) =
           Behind(of, g)
             + (IF Len(g) >= of /\ x.from = "server" THEN 1 ELSE 0)
<1> DEFINE n == Len(g) + 1
           B == {j \in (of + 1) .. Len(g) : g[j].from = "server"}
           C == {j \in (of + 1) .. Len(Append(g, x)) :
                   Append(g, x)[j].from = "server"}
<1>1. /\ Len(g) \in Nat /\ Len(Append(g, x)) = n
      /\ \A k \in 1 .. Len(g) : Append(g, x)[k] = g[k]
      /\ Append(g, x)[n] = x
  BY AppendFacts
<1>2. IsFiniteSet(B) /\ Cardinality(B) = Behind(of, g) /\ Behind(of, g) \in Nat
  BY BehindType DEF Behind
<1>3. Cardinality(C) = Behind(of, Append(g, x))
  BY DEF Behind
<1>4. CASE Len(g) >= of /\ x.from = "server"
  <2>1. C = B \union {n} /\ n \notin B
    BY <1>1, <1>4
  <2>2. Cardinality(C) = Cardinality(B) + 1
    BY <1>2, <2>1, FS_AddElement
  <2> QED
    BY <1>2, <1>3, <1>4, <2>2
<1>5. CASE ~(Len(g) >= of /\ x.from = "server")
  <2>1. C = B
    BY <1>1, <1>5
  <2>2. (IF Len(g) >= of /\ x.from = "server" THEN 1 ELSE 0) = 0
    BY <1>5
  <2>3. Behind(of, Append(g, x)) = Behind(of, g)
    BY <1>2, <1>3, <2>1
  <2> QED
    BY <1>2, <2>2, <2>3
<1> QED
  BY <1>4, <1>5

\* A read takes the first line of the queue for the answer to the next call.
LEMMA FitsRead ==
  ASSUME NEW q \in Seq(Lines), NEW g \in Seq(Gots), NEW notes \in Nat,
         q # <<>>, Fits(q, g, 1, notes),
         NEW x \in Gots, x.from = "server", x.of \in {0, Head(q).of}
  PROVE  Fits(Tail(q), Append(g, x), 0, notes)
<1> DEFINE h == Append(g, x)
<1>1. /\ Len(g) \in Nat /\ Len(h) = Len(g) + 1
      /\ \A k \in 1 .. Len(g) : h[k] = g[k]
      /\ h[Len(g) + 1] = x
  BY AppendFacts
<1>2. /\ Len(q) \in Nat \ {0} /\ Head(q) = q[1] /\ Len(Tail(q)) = Len(q) - 1
      /\ \A k \in 1 .. Len(q) - 1 : Tail(q)[k] = q[k + 1]
      /\ \A k \in 1 .. Len(q) : q[k].of \in Nat
  BY TailFacts, OfIsNat
<1> SUFFICES ASSUME NEW i \in 1 .. Len(q) - 1
             PROVE  FitsAt(Tail(q), h, 0, notes, i)
  BY <1>2 DEF Fits
<1> DEFINE of == q[i + 1].of
<1>3. /\ i + 1 \in 1 .. Len(q) /\ of \in Nat /\ Tail(q)[i].of = of
      /\ FitsAt(q, g, 1, notes, i + 1)
  BY <1>2 DEF Fits
<1>4. of <= Len(h) + 0
  BY <1>1, <1>3 DEF FitsAt
<1>5. ASSUME of > 0
      PROVE  /\ \A k \in 1 .. i - 1 : Tail(q)[k].of < of
             /\ \A j \in 1 .. Len(h) : h[j].of < of
             /\ Behind(of, h) + (i - 1) + (IF Len(h) >= of THEN 1 ELSE 0) <= notes
  <2>1. /\ \A k \in 1 .. i : q[k].of < of
        /\ \A j \in 1 .. Len(g) : g[j].of < of
        /\ Behind(of, g) + i + (IF Len(g) >= of THEN 1 ELSE 0) <= notes
    BY <1>3, <1>5 DEF FitsAt
  <2>2. \A k \in 1 .. i - 1 : Tail(q)[k].of < of
    <3> SUFFICES ASSUME NEW k \in 1 .. i - 1
                 PROVE  Tail(q)[k].of < of
      OBVIOUS
    <3>1. k \in 1 .. Len(q) - 1 /\ k + 1 \in 1 .. i
      BY <1>2
    <3> QED
      BY <1>2, <2>1, <3>1
  <2>3. x.of < of
    BY <1>2, <1>5, <2>1
  <2>4. \A j \in 1 .. Len(h) : h[j].of < of
    <3> SUFFICES ASSUME NEW j \in 1 .. Len(h)
                 PROVE  h[j].of < of
      OBVIOUS
    <3>1. CASE j = Len(g) + 1
      BY <1>1, <2>3, <3>1
    <3>2. CASE j \in 1 .. Len(g)
      BY <1>1, <2>1, <3>2
    <3> QED
      BY <1>1, <3>1, <3>2
  <2>5. Behind(of, g) \in Nat
    BY <1>3, BehindType
  <2>6. Behind(of, h) = Behind(of, g) + (IF Len(g) >= of THEN 1 ELSE 0)
    <3>1. (IF Len(g) >= of /\ x.from = "server" THEN 1 ELSE 0)
            = (IF Len(g) >= of THEN 1 ELSE 0)
      OBVIOUS
    <3> HIDE DEF of
    <3> QED
      BY <1>3, <3>1, BehindAppend
  <2>7. Behind(of, h) + (i - 1) + (IF Len(h) >= of THEN 1 ELSE 0) <= notes
    <3>1. CASE Len(g) >= of
      BY SMTT(30), <1>1, <1>3, <2>1, <2>5, <2>6, <3>1
    <3>2. CASE ~(Len(g) >= of)
      BY SMTT(30), <1>1, <1>3, <2>1, <2>5, <2>6, <3>2
    <3> QED
      BY <3>1, <3>2
  <2> QED
    BY <2>2, <2>4, <2>7
<1> QED
  BY <1>3, <1>4, <1>5 DEF FitsAt

\* A call that the server has no part in.
LEMMA FitsOther ==
  ASSUME NEW q \in Seq(Lines), NEW g \in Seq(Gots), NEW notes \in Nat,
         Fits(q, g, 0, notes),
         NEW x \in Gots, x.from # "server", x.of = 0
  PROVE  Fits(q, Append(g, x), 0, notes)
<1> DEFINE h == Append(g, x)
<1>1. /\ Len(g) \in Nat /\ Len(h) = Len(g) + 1
      /\ \A k \in 1 .. Len(g) : h[k] = g[k]
      /\ h[Len(g) + 1] = x
  BY AppendFacts
<1> SUFFICES ASSUME NEW i \in 1 .. Len(q)
             PROVE  FitsAt(q, h, 0, notes, i)
  BY DEF Fits
<1> DEFINE of == q[i].of
<1>2. of \in Nat /\ FitsAt(q, g, 0, notes, i)
  BY OfIsNat DEF Fits
<1>3. of <= Len(g)
  BY <1>1, <1>2 DEF FitsAt
<1>4. ASSUME of > 0
      PROVE  /\ \A j \in 1 .. Len(h) : h[j].of < of
             /\ Behind(of, h) + (i - 1) + (IF Len(h) >= of THEN 1 ELSE 0) <= notes
  <2>1. /\ \A j \in 1 .. Len(g) : g[j].of < of
        /\ Behind(of, g) + (i - 1) + (IF Len(g) >= of THEN 1 ELSE 0) <= notes
    BY <1>2, <1>4 DEF FitsAt
  <2>2. \A j \in 1 .. Len(h) : h[j].of < of
    <3> SUFFICES ASSUME NEW j \in 1 .. Len(h)
                 PROVE  h[j].of < of
      OBVIOUS
    <3>1. CASE j = Len(g) + 1
      BY <1>1, <1>4, <3>1
    <3>2. CASE j \in 1 .. Len(g)
      BY <1>1, <2>1, <3>2
    <3> QED
      BY <1>1, <3>1, <3>2
  <2>3. Behind(of, g) \in Nat
    BY <1>2, BehindType
  <2>4. Behind(of, h) = Behind(of, g)
    <3>1. (IF Len(g) >= of /\ x.from = "server" THEN 1 ELSE 0) = 0
      OBVIOUS
    <3>2. Behind(of, h) = Behind(of, g)
                  + (IF Len(g) >= of /\ x.from = "server" THEN 1 ELSE 0)
      <4> HIDE DEF of
      <4> QED
        BY <1>2, BehindAppend
    <3> QED
      BY <2>3, <3>1, <3>2
  <2> QED
    BY <1>1, <1>2, <1>3, <2>1, <2>2, <2>4
<1> QED
  BY <1>1, <1>2, <1>3, <1>4 DEF FitsAt

\* The first line is read for something else.
LEMMA FitsDrop ==
  ASSUME NEW q \in Seq(Lines), NEW g \in Seq(Gots), NEW notes \in Nat,
         NEW called \in {0, 1}, q # <<>>, Fits(q, g, called, notes)
  PROVE  Fits(Tail(q), g, called, notes)
<1>1. /\ Len(g) \in Nat
      /\ Len(q) \in Nat \ {0} /\ Len(Tail(q)) = Len(q) - 1
      /\ \A k \in 1 .. Len(q) - 1 : Tail(q)[k] = q[k + 1]
      /\ \A k \in 1 .. Len(q) : q[k].of \in Nat
  BY TailFacts, OfIsNat
<1> SUFFICES ASSUME NEW i \in 1 .. Len(q) - 1
             PROVE  FitsAt(Tail(q), g, called, notes, i)
  BY <1>1 DEF Fits
<1> DEFINE of == q[i + 1].of
<1>2. /\ i + 1 \in 1 .. Len(q) /\ of \in Nat /\ Tail(q)[i].of = of
      /\ FitsAt(q, g, called, notes, i + 1)
  BY <1>1 DEF Fits
<1>3. Behind(of, g) \in Nat
  BY <1>2, BehindType
<1>4. ASSUME of > 0
      PROVE  /\ \A k \in 1 .. i - 1 : Tail(q)[k].of < of
             /\ \A j \in 1 .. Len(g) : g[j].of < of
             /\ Behind(of, g) + (i - 1) + (IF Len(g) >= of THEN 1 ELSE 0) <= notes
  <2>1. /\ \A k \in 1 .. i : q[k].of < of
        /\ \A j \in 1 .. Len(g) : g[j].of < of
        /\ Behind(of, g) + i + (IF Len(g) >= of THEN 1 ELSE 0) <= notes
    BY <1>2, <1>4 DEF FitsAt
  <2> QED
    BY <1>1, <1>3, <2>1
<1> QED
  BY <1>2, <1>4 DEF FitsAt

\* A request is added at the end: one of the handshake (0), or the next call.
LEMMA FitsAdd ==
  ASSUME NEW q \in Seq(Lines), NEW g \in Seq(Gots), NEW notes \in Nat,
         NEW called \in {0, 1}, NEW e \in Lines,
         Fits(q, g, 0, notes),
         \/ e.of = 0
         \/ e.of = Len(g) + 1 /\ called = 1 /\ Len(q) <= notes
            /\ \A j \in 1 .. Len(g) : g[j].of <= j
  PROVE  Fits(Append(q, e), g, called, notes)
<1> DEFINE r == Append(q, e)
<1>1. /\ Len(q) \in Nat /\ Len(r) = Len(q) + 1
      /\ \A k \in 1 .. Len(q) : r[k] = q[k]
      /\ r[Len(q) + 1] = e
  BY AppendFacts
<1>2. /\ Len(g) \in Nat /\ \A k \in 1 .. Len(q) : q[k].of \in Nat
      /\ e.of \in Nat /\ \A k \in 1 .. Len(g) : g[k].of \in Nat
  <2>1. e.of \in Nat
    BY DEF Lines
  <2> QED
    BY <2>1, OfIsNat
<1>3. \A k \in 1 .. Len(q) : FitsAt(q, g, 0, notes, k)
  BY DEF Fits
<1>4. ASSUME NEW i \in 1 .. Len(q)
      PROVE  FitsAt(r, g, called, notes, i)
  <2>1. FitsAt(q, g, 0, notes, i)
    BY <1>3
  <2>2. q[i].of <= Len(g) + called
    BY <1>2, <2>1 DEF FitsAt
  <2>3. \A h \in 1 .. i - 1 : r[h].of = q[h].of
    BY <1>1
  <2> QED
    BY <1>1, <2>1, <2>2, <2>3 DEF FitsAt
<1>5. FitsAt(r, g, called, notes, Len(q) + 1)
  <2>1. CASE e.of = 0
    BY <1>1, <1>2, <2>1 DEF FitsAt
  <2>2. CASE /\ e.of = Len(g) + 1 /\ called = 1 /\ Len(q) <= notes
             /\ \A j \in 1 .. Len(g) : g[j].of <= j
    <3>1. \A h \in 1 .. Len(q) : r[h].of < e.of
      <4> SUFFICES ASSUME NEW h \in 1 .. Len(q)
                   PROVE  q[h].of < e.of
        BY <1>1
      <4>1. q[h].of <= Len(g) + 0
        BY <1>3 DEF FitsAt
      <4> QED
        BY <1>2, <2>2, <4>1
    <3>2. \A j \in 1 .. Len(g) : g[j].of < e.of
      BY <1>2, <2>2
    <3>3. Behind(e.of, g) = 0
      <4>1. e.of >= Len(g)
        BY <1>2, <2>2
      <4> QED
        BY <1>2, <4>1, BehindType
    <3>4. Behind(e.of, g) + Len(q) + (IF Len(g) >= e.of THEN 1 ELSE 0) <= notes
      BY <1>1, <1>2, <2>2, <3>3
    <3> QED
      BY <1>1, <1>2, <2>2, <3>1, <3>2, <3>4 DEF FitsAt
  <2> QED
    BY <2>1, <2>2
<1> QED
  BY <1>1, <1>4, <1>5 DEF Fits

\* The server writes a line unasked, before what it will answer.
LEMMA FitsInsert ==
  ASSUME NEW l \in Seq(Lines), NEW t \in Seq(Lines), NEW g \in Seq(Gots),
         NEW notes \in Nat, NEW called \in {0, 1}, NEW e \in Lines, e.of = 0,
         Fits(l \o t, g, called, notes)
  PROVE  Fits(Append(l, e) \o t, g, called, notes + 1)
<1> DEFINE n == Len(l)
           q == l \o t
           r == Append(l, e) \o t
<1>1. /\ n \in Nat /\ Len(t) \in Nat /\ Len(g) \in Nat
      /\ q \in Seq(Lines) /\ Len(q) = n + Len(t) /\ Len(r) = n + 1 + Len(t)
      /\ \A k \in 1 .. n : r[k] = l[k] /\ q[k] = l[k]
      /\ r[n + 1] = e
      /\ \A k \in 1 .. Len(t) : r[n + 1 + k] = t[k] /\ q[n + k] = t[k]
  <2>1. /\ Append(l, e) \in Seq(Lines) /\ Len(Append(l, e)) = n + 1
        /\ \A k \in 1 .. n : Append(l, e)[k] = l[k]
        /\ Append(l, e)[n + 1] = e
    BY AppendFacts
  <2>2. n \in Nat /\ n + 1 \in 1 .. n + 1 /\ \A k \in 1 .. n : k \in 1 .. n + 1
    BY JoinFacts
  <2>3. \A k \in 1 .. n + 1 : r[k] = Append(l, e)[k]
    BY <2>1, JoinFacts
  <2>4. /\ Len(r) = n + 1 + Len(t)
        /\ \A k \in 1 .. Len(t) : r[n + 1 + k] = t[k]
    BY <2>1, JoinFacts
  <2> QED
    BY <2>1, <2>2, <2>3, <2>4, JoinFacts
<1>2. \A k \in 1 .. Len(q) : /\ q[k].of \in Nat
                             /\ FitsAt(q, g, called, notes, k)
  BY <1>1, OfIsNat DEF Fits
<1>3. \A k \in 1 .. n : r[k] = q[k]
  BY <1>1
<1>4. \A k \in n + 1 .. Len(q) : r[k + 1] = q[k]
  <2> SUFFICES ASSUME NEW k \in n + 1 .. Len(q)
               PROVE  r[k + 1] = q[k]
    OBVIOUS
  <2>1. PICK m \in 1 .. Len(t) : k = n + m
    <3>1. k - n \in 1 .. Len(t) /\ k = n + (k - n)
      BY <1>1
    <3> QED
      BY <3>1
  <2>2. n + 1 + m = k + 1
    BY <1>1, <2>1
  <2> QED
    BY <1>1, <2>1, <2>2
<1> HIDE DEF n, q, r
<1> SUFFICES ASSUME NEW i \in 1 .. Len(r)
             PROVE  FitsAt(r, g, called, notes + 1, i)
  BY DEF Fits, n, q, r
<1>5. CASE i \in 1 .. n
  <2>1. /\ i \in 1 .. Len(q) /\ r[i] = q[i]
        /\ \A h \in 1 .. i - 1 : r[h] = q[h]
    BY <1>1, <1>3, <1>5
  <2>2. q[i].of \in Nat /\ FitsAt(q, g, called, notes, i)
    BY <1>2, <2>1
  <2>3. Behind(q[i].of, g) \in Nat
    BY <2>2, BehindType
  <2> QED
    BY SMTT(30), <1>1, <2>1, <2>2, <2>3 DEF FitsAt
<1>6. CASE i = n + 1
  <2>1. r[i].of = 0
    BY <1>1, <1>6
  <2> QED
    BY <1>1, <2>1 DEF FitsAt
<1>7. CASE i > n + 1
  <2>1. /\ i - 1 \in 1 .. Len(q) /\ i - 1 \in n + 1 .. Len(q)
        /\ i - 1 + 1 = i
    BY <1>1, <1>7
  <2>2. r[i] = q[i - 1]
    BY <1>4, <2>1
  <2>3. q[i - 1].of \in Nat /\ FitsAt(q, g, called, notes, i - 1)
    BY <1>2, <2>1
  <2>4. Behind(q[i - 1].of, g) \in Nat
    BY <2>3, BehindType
  <2>5. ASSUME q[i - 1].of > 0, NEW h \in 1 .. i - 1
        PROVE  r[h].of < q[i - 1].of
    <3>1. \A k \in 1 .. i - 2 : q[k].of < q[i - 1].of
      BY <2>1, <2>3, <2>5 DEF FitsAt
    <3>2. CASE h <= n
      <4>1. h \in 1 .. n /\ h \in 1 .. i - 2
        BY <1>1, <1>7, <3>2
      <4> QED
        BY <1>3, <3>1, <4>1
    <3>3. CASE h = n + 1
      BY <1>1, <2>5, <3>3
    <3>4. CASE h > n + 1
      <4>1. h - 1 \in n + 1 .. Len(q) /\ h - 1 \in 1 .. i - 2 /\ h - 1 + 1 = h
        BY <1>1, <2>1, <3>4
      <4>2. r[h] = q[h - 1]
        BY <1>4, <4>1
      <4> QED
        BY <3>1, <4>1, <4>2
    <3> QED
      BY <1>1, <3>2, <3>3, <3>4
  <2> QED
    BY SMTT(30), <1>1, <2>1, <2>2, <2>3, <2>4, <2>5 DEF FitsAt
<1> QED
  BY <1>1, <1>5, <1>6, <1>7

\* The server ends: what it wrote is still there.
LEMMA FitsPrefix ==
  ASSUME NEW l \in Seq(Lines), NEW t \in Seq(Lines), NEW g \in Seq(Gots),
         NEW notes \in Nat, NEW called \in {0, 1},
         Fits(l \o t, g, called, notes)
  PROVE  Fits(l \o <<>>, g, called, notes)
<1>1. l \o <<>> = l
  OBVIOUS
<1> SUFFICES ASSUME NEW i \in 1 .. Len(l)
             PROVE  FitsAt(l, g, called, notes, i)
  BY <1>1 DEF Fits
<1>2. /\ i \in 1 .. Len(l \o t) /\ (l \o t)[i] = l[i]
      /\ \A h \in 1 .. i - 1 : (l \o t)[h] = l[h]
  BY JoinFacts
<1>3. FitsAt(l \o t, g, called, notes, i)
  BY <1>2 DEF Fits
<1> QED
  BY <1>2, <1>3 DEF FitsAt

LEMMA QueueMove ==
  ASSUME NEW l \in Seq(Lines), NEW t \in Seq(Lines), t # <<>>
  PROVE  Append(l, Head(t)) \o Tail(t) = l \o t
  OBVIOUS

LEMMA QueueAdd ==
  ASSUME NEW l \in Seq(Lines), NEW t \in Seq(Lines), NEW e \in Lines
  PROVE  l \o Append(t, e) = Append(l \o t, e)
  OBVIOUS

LEMMA QueueTail ==
  ASSUME NEW l \in Seq(Lines), NEW t \in Seq(Lines), l # <<>>
  PROVE  /\ Tail(l) \o t = Tail(l \o t) /\ Head(l \o t) = Head(l)
         /\ l \o t # <<>>
  OBVIOUS

-----------------------------------------------------------------------------
(* What the calls got *)

MatchesAt(g, notes, k) ==
  /\ g[k].from # "unsupported"
  /\ g[k].of > 0 =>
       /\ g[k].of <= k
       /\ \A j \in 1 .. k - 1 : g[j].of < g[k].of
       /\ Cardinality({j \in (g[k].of + 1) .. k : g[j].from = "server"}) <= notes

Matches(g, notes) == \A k \in DOMAIN g : MatchesAt(g, notes, k)

LEMMA MatchesDef == AnswersMatch <=> Matches(got, server.notes)
  BY DEF AnswersMatch, Matches, MatchesAt

LEMMA MatchesAppend ==
  ASSUME NEW g \in Seq(Gots), NEW x \in Gots, NEW notes \in Nat,
         Matches(g, notes), x.from # "unsupported",
         x.of > 0 => /\ x.of <= Len(g) + 1
                     /\ \A j \in 1 .. Len(g) : g[j].of < x.of
                     /\ Behind(x.of, Append(g, x)) <= notes
  PROVE  Matches(Append(g, x), notes)
<1> DEFINE h == Append(g, x)
           n == Len(g)
<1>1. /\ n \in Nat /\ Len(h) = n + 1 /\ DOMAIN h = 1 .. n + 1
      /\ DOMAIN g = 1 .. n
      /\ \A k \in 1 .. n : h[k] = g[k]
      /\ h[n + 1] = x
  BY AppendFacts
<1>2. ASSUME NEW k \in 1 .. n
      PROVE  MatchesAt(h, notes, k)
  <2>1. MatchesAt(g, notes, k) /\ g[k].of \in Nat /\ h[k] = g[k]
    BY <1>1, OfIsNat DEF Matches
  <2>2. \A j \in (g[k].of + 1) .. k : h[j] = g[j]
    BY <1>1, <2>1
  <2>3. {j \in (g[k].of + 1) .. k : h[j].from = "server"}
          = {j \in (g[k].of + 1) .. k : g[j].from = "server"}
    BY <2>2
  <2>4. \A j \in 1 .. k - 1 : h[j] = g[j]
    BY <1>1
  <2> QED
    BY <2>1, <2>3, <2>4 DEF MatchesAt
<1>3. MatchesAt(h, notes, n + 1)
  <2>1. Cardinality({j \in (x.of + 1) .. n + 1 : h[j].from = "server"})
          = Behind(x.of, h)
    BY <1>1 DEF Behind
  <2>2. x.of > 0 => \A j \in 1 .. n : h[j].of < x.of
    BY <1>1
  <2>3. 1 .. n + 1 - 1 = 1 .. n
    BY <1>1
  <2> HIDE DEF h, n
  <2>4. x.of > 0 => Behind(x.of, h) <= notes /\ x.of <= n + 1
    BY DEF h, n
  <2> QED
    BY <1>1, <2>1, <2>2, <2>3, <2>4 DEF MatchesAt
<1> QED
  BY <1>1, <1>2, <1>3 DEF Matches

LEMMA MatchesMore ==
  ASSUME NEW g \in Seq(Gots), NEW notes \in Nat, Matches(g, notes)
  PROVE  Matches(g, notes + 1)
<1> SUFFICES ASSUME NEW k \in DOMAIN g
             PROVE  MatchesAt(g, notes + 1, k)
  BY DEF Matches
<1> DEFINE B == {j \in (g[k].of + 1) .. k : g[j].from = "server"}
<1>1. /\ MatchesAt(g, notes, k) /\ k \in 1 .. Len(g) /\ g[k].of \in Nat
  BY OfIsNat DEF Matches
<1>2. IsFiniteSet((g[k].of + 1) .. k)
  <2>1. g[k].of + 1 \in Int /\ k \in Int
    BY <1>1
  <2> QED
    BY <2>1, FS_Interval
<1>3. Cardinality(B) \in Nat
  BY <1>2, FS_Subset, FS_CardinalityType
<1> QED
  BY <1>1, <1>3 DEF MatchesAt

\* The answer a call reads is not for an earlier one, and not too late.
LEMMA ReadMatches ==
  ASSUME NEW q \in Seq(Lines), NEW g \in Seq(Gots), NEW notes \in Nat,
         q # <<>>, Fits(q, g, 1, notes), Matches(g, notes),
         NEW x \in Gots, x.from = "server", x.of \in {0, Head(q).of}
  PROVE  Matches(Append(g, x), notes)
<1>1. /\ Head(q) = q[1] /\ Len(q) \in Nat \ {0} /\ Len(g) \in Nat
      /\ x.of \in Nat
  BY TailFacts DEF Gots
<1>2. FitsAt(q, g, 1, notes, 1)
  BY <1>1 DEF Fits
<1>3. ASSUME x.of > 0
      PROVE  /\ x.of <= Len(g) + 1
             /\ \A j \in 1 .. Len(g) : g[j].of < x.of
             /\ Behind(x.of, Append(g, x)) <= notes
  <2>1. /\ x.of <= Len(g) + 1
        /\ \A j \in 1 .. Len(g) : g[j].of < x.of
        /\ Behind(x.of, g) + (1 - 1) + (IF Len(g) >= x.of THEN 1 ELSE 0) <= notes
    BY <1>1, <1>2, <1>3 DEF FitsAt
  <2>2. Behind(x.of, g) \in Nat
    BY <1>1, BehindType
  <2>3. (IF Len(g) >= x.of /\ x.from = "server" THEN 1 ELSE 0)
          = (IF Len(g) >= x.of THEN 1 ELSE 0)
    OBVIOUS
  <2>4. Behind(x.of, Append(g, x))
          = Behind(x.of, g) + (IF Len(g) >= x.of THEN 1 ELSE 0)
    BY <1>1, <2>3, BehindAppend
  <2>5. Behind(x.of, g) + (IF Len(g) >= x.of THEN 1 ELSE 0) <= notes
    <3>1. CASE Len(g) >= x.of
      BY <2>1, <2>2, <3>1
    <3>2. CASE ~(Len(g) >= x.of)
      BY <2>1, <2>2, <3>2
    <3> QED
      BY <3>1, <3>2
  <2> QED
    BY <2>1, <2>4, <2>5
<1>4. x.from # "unsupported"
  OBVIOUS
<1> QED
  BY <1>3, <1>4, MatchesAppend

-----------------------------------------------------------------------------
(* The model of the requests is one that is listed *)

LEMMA SeqIsList ==
  ASSUME NEW S, NEW s \in Seq(S)
  PROVE  /\ s \in Seq(Range(s))
         /\ s # <<>> => Head(s) \in Range(s)
<1>1. /\ Len(s) \in Nat /\ DOMAIN s = 1 .. Len(s)
      /\ s = [k \in 1 .. Len(s) |-> s[k]]
      /\ s # <<>> => Head(s) = s[1] /\ 1 \in DOMAIN s
  OBVIOUS
<1>2. \A k \in 1 .. Len(s) : s[k] \in Range(s)
  BY <1>1 DEF Range
<1>3. s \in [1 .. Len(s) -> Range(s)]
  BY <1>1, <1>2
<1>4. s \in Seq(Range(s))
  BY <1>1, <1>3
<1> QED
  BY <1>1, <1>2, <1>4

LEMMA JoinIsList ==
  ASSUME NEW s, NEW t, s \in Seq(Range(s)), t \in Seq(Range(t))
  PROVE  s \o t \in Seq(Range(s \o t))
<1> DEFINE S == Range(s) \union Range(t)
<1>1. s \in Seq(S) /\ t \in Seq(S)
  OBVIOUS
<1>2. s \o t \in Seq(S)
  BY <1>1
<1> QED
  BY <1>2, SeqIsList

LEMMA MinIsIn ==
  ASSUME NEW S \in SUBSET Nat, S # {}
  PROVE  Min(S) \in S
<1>1. IsWellFoundedOn(OpToRel(<, Nat), Nat)
  BY NatLessThanWellFounded
<1>2. PICK x \in S : \A y \in S : ~ (<<y, x>> \in OpToRel(<, Nat))
  BY <1>1, WFMin
<1>3. \A y \in S : ~(y < x)
  BY <1>2 DEF OpToRel
<1>4. \A y \in S : x <= y
  BY <1>3
<1> QED
  BY <1>4 DEF Min

LEMMA EntriesAreList ==
  ASSUME NEW list, list \in Seq(Range(list)), NEW places \in SUBSET (DOMAIN list)
  PROVE  EntriesAt(list, places) \in Seq(Range(EntriesAt(list, places)))
<1> DEFINE e == EntriesAt(list, places)
           n == Cardinality(places)
<1>1. DOMAIN list = 1 .. Len(list) /\ Len(list) \in Nat
  OBVIOUS
<1>2. n \in Nat
  <2>1. IsFiniteSet(DOMAIN list)
    BY <1>1, FS_Interval
  <2> QED
    BY <2>1, FS_Subset, FS_CardinalityType
<1>3. DOMAIN e = 1 .. n /\ e = [k \in 1 .. n |-> e[k]]
  BY DEF EntriesAt, Ascending, Arranged
<1> HIDE DEF e, n
<1>4. \A k \in 1 .. n : e[k] \in Range(e)
  BY <1>3 DEF Range
<1>5. e \in [1 .. n -> Range(e)]
  BY <1>3, <1>4
<1>6. e \in Seq(Range(e))
  BY <1>2, <1>5
<1> QED
  BY <1>6 DEF e

LEMMA ModelsAreList ==
  ASSUME NEW cache \in Caches, NEW list \in Lists, NEW p
  PROVE  Models(p, cache, list) \in Seq(Range(Models(p, cache, list)))
<1>1. /\ list \in Seq(Range(list))
      /\ Static \in Seq(Range(Static))
      /\ cache.models \in Seq(Range(cache.models))
  BY ConversationAssumption
<1>2. <<>> \in Seq(Range(<<>>)) /\ <<Default>> \in Seq(Range(<<Default>>))
  <2>1. <<>> \in Seq({}) /\ <<Default>> \in Seq({Default})
    OBVIOUS
  <2> QED
    BY <2>1, SeqIsList
<1>3. Cached(cache) \in Seq(Range(Cached(cache)))
  BY <1>1, <1>2 DEF Cached
<1>4. CompatFetched(list) \in Seq(Range(CompatFetched(list)))
  BY <1>1, EntriesAreList DEF CompatFetched
<1>5. CompatModels(cache, list) \in Seq(Range(CompatModels(cache, list)))
  BY <1>2, <1>3, <1>4 DEF CompatModels, Probed
<1>6. CopilotModels(cache, list) \in Seq(Range(CopilotModels(cache, list)))
  <2> DEFINE probed == Probed(cache, list)
             rest == EntriesAt(Static, {k \in DOMAIN Static : Static[k] \notin Range(probed)})
  <2>1. probed \in Seq(Range(probed))
    BY <1>1, <1>3 DEF Probed
  <2>2. rest \in Seq(Range(rest))
    BY <1>1, EntriesAreList
  <2> QED
    BY <2>1, <2>2, JoinIsList DEF CopilotModels
<1> QED
  BY <1>1, <1>5, <1>6 DEF Models

LEMMA ValidatedIsListed ==
  ASSUME NEW list, list \in Seq(Range(list)), list # <<>>, NEW m
  PROVE  Validated(list, m) \in Range(list)
<1> DEFINE same == {k \in DOMAIN list : SameButForCase(list[k], m)}
           near == {k \in DOMAIN list : StartsOneAnother(list[k], m)}
<1>1. DOMAIN list = 1 .. Len(list) /\ Len(list) \in Nat
  OBVIOUS
<1>2. \A k \in DOMAIN list : list[k] \in Range(list)
  BY DEF Range
<1>3. same # {} => list[Min(same)] \in Range(list)
  <2>1. same \in SUBSET Nat
    BY <1>1
  <2>2. same # {} => Min(same) \in same
    BY <2>1, MinIsIn
  <2> QED
    BY <1>2, <2>2
<1>4. Cardinality(near) = 1 => list[Min(near)] \in Range(list)
  <2>1. near \in SUBSET Nat
    BY <1>1
  <2>2. near # {} => Min(near) \in near
    BY <2>1, MinIsIn
  <2>3. Cardinality(near) = 1 => near # {}
    <3> HIDE DEF near
    <3>1. near = {} => Cardinality(near) = 0
      BY FS_EmptySet, Zenon
    <3> QED
      BY <3>1
  <2> QED
    BY <1>2, <2>2, <2>3
<1>5. Head(list) \in Range(list)
  BY SeqIsList
<1> QED
  BY <1>3, <1>4, <1>5 DEF Validated

-----------------------------------------------------------------------------
(* The steps *)

\* The server's part of the invariant.
ServerInv == ServerTypes /\ StageInv /\ SizeInv /\ QueueInv /\ AnswersMatch

LEMMA NextPending ==
  ASSUME TypeOK, DispatchedOnce, pending # <<>>
  PROVE  Head(pending) = Len(ran) + 1
<1>1. /\ pending \in Seq(Nat) /\ ran \in Seq(Nat) /\ calls \in Nat
      /\ ran \o pending = [k \in 1 .. calls |-> k]
  BY DEF TypeOK, DispatchedOnce
<1>2. /\ Len(pending) \in Nat \ {0} /\ Head(pending) = pending[1]
      /\ Len(ran) \in Nat
  BY <1>1, TailFacts
<1>3. /\ (ran \o pending)[Len(ran) + 1] = pending[1]
      /\ Len(ran \o pending) = Len(ran) + Len(pending)
  <2>1. 1 \in 1 .. Len(pending)
    BY <1>2
  <2>2. ran \in Seq(Nat) /\ pending \in Seq(Nat)
    BY <1>1
  <2>3. /\ \A k \in 1 .. Len(pending) : (ran \o pending)[Len(ran) + k] = pending[k]
        /\ Len(ran \o pending) = Len(ran) + Len(pending)
    BY <2>2
  <2> QED
    BY <2>1, <2>2, <2>3
<1>4. Len(ran \o pending) = calls
  BY <1>1
<1>5. Len(ran) + 1 \in 1 .. calls
  BY <1>2, <1>3, <1>4
<1> QED
  BY <1>1, <1>2, <1>3, <1>5

LEMMA QueueType ==
  ASSUME ServerTypes
  PROVE  /\ server.lines \in Seq(Lines) /\ server.todo \in Seq(Lines)
         /\ server.notes \in Nat /\ server.up \in BOOLEAN
         /\ server.alive \in BOOLEAN
         /\ Queue \in Seq(Lines) /\ got \in Seq(Gots)
         /\ Len(Queue) = Len(server.lines) + Len(server.todo)
         /\ Len(Queue) \in Nat
<1>1. /\ server.lines \in Seq(Lines) /\ server.todo \in Seq(Lines)
      /\ server.notes \in Nat /\ server.up \in BOOLEAN
      /\ server.alive \in BOOLEAN /\ got \in Seq(Gots)
  BY DEF ServerTypes, Servers
<1>2. /\ Queue \in Seq(Lines)
      /\ Len(Queue) = Len(server.lines) + Len(server.todo)
  BY <1>1, JoinFacts DEF Queue
<1>3. Len(Queue) \in Nat
  <2>1. \A q \in Seq(Lines) : Len(q) \in Nat
    OBVIOUS
  <2> QED
    BY <1>2, <2>1
<1> QED
  BY <1>1, <1>2, <1>3

LEMMA LineType ==
  /\ \A kind \in {"hello", "list", "answer", "note", "text"}, of \in Nat :
       /\ Line(kind, of) \in Lines /\ Line(kind, of).of = of
       /\ Line(kind, of).kind = kind
  /\ \A from \in {"server", "adapter", "unsupported", "error"}, of \in Nat :
       /\ Got(from, of) \in Gots /\ Got(from, of).of = of
       /\ Got(from, of).from = from
  BY DEF Line, Lines, Got, Gots

LEMMA InitConversation == ConversationInit => ConversationInv
<1> SUFFICES ASSUME ConversationInit PROVE ConversationInv
  OBVIOUS
<1>1. /\ messages \in Contexts /\ pending = <<>> /\ ran = <<>>
      /\ stage = "discover" /\ provider \in Providers /\ server = NoServer
      /\ asking = FALSE /\ got = <<>>
  BY DEF ConversationInit, Init
<1>2. NoServer \in Servers
  <2>1. <<>> \in Seq(Lines)
    OBVIOUS
  <2> QED
    BY <2>1 DEF NoServer, Servers
<1>3. /\ NoServer.alive = FALSE /\ NoServer.up = FALSE /\ NoServer.todo = <<>>
      /\ NoServer.lines = <<>>
  BY DEF NoServer
<1>4. ServerTypes
  <2>1. <<>> \in Seq(Gots)
    OBVIOUS
  <2> QED
    BY <1>1, <1>2, <2>1 DEF ServerTypes, Stages
<1>5. StageInv
  BY <1>1, <1>3 DEF StageInv
<1>6. SizeInv
  BY <1>1, <1>3 DEF SizeInv
<1>7. QueueInv
  <2>1. Len(Queue) = 0
    BY <1>1, <1>3 DEF Queue
  <2> QED
    BY <2>1 DEF QueueInv, Fits
<1>8. AnswersMatch
  BY <1>1 DEF AnswersMatch
<1>9. ModelInv
  BY <1>1 DEF ModelInv
<1>10. MadeInv
  <2>1. DOMAIN pending = {}
    BY <1>1
  <2>2. \A k \in DOMAIN messages : messages[k].role # "tool"
    BY <1>1, ContextFacts
  <2> QED
    BY <2>1, <2>2 DEF MadeInv
<1> QED
  BY <1>4, <1>5, <1>6, <1>7, <1>8, <1>9, <1>10 DEF ConversationInv

\* Steps that leave the server, the queue and the answers as they are.
LEMMA QuietServer ==
  ASSUME ServerInv, UNCHANGED <<provider, server, asking, got>>,
         Len(ran') = Len(ran),
         \/ stage' = stage
         \/ stage = "discover" /\ stage' = "spawn"
         \/ stage = "spawn" /\ stage' = "run",
         stage = "closed" => pc' \in Over,
         asking => pc' = "dispatch" /\ pending' # <<>>
  PROVE  ServerInv'
<1>1. ServerTypes'
  BY DEF ServerInv, ServerTypes, Stages
<1>2. StageInv'
  BY DEF ServerInv, StageInv
<1>3. SizeInv'
  <2>1. CASE stage' = stage
    BY <2>1 DEF ServerInv, SizeInv, Queue, Waiting
  <2>2. CASE stage \in {"discover", "spawn"}
    <3>1. server'.alive = FALSE
      BY <2>2 DEF ServerInv, StageInv, NoServer
    <3> QED
      BY <3>1 DEF SizeInv
  <2> QED
    BY <2>1, <2>2
<1>4. QueueInv'
  BY DEF ServerInv, QueueInv, Fits, FitsAt, Behind, Queue, Called
<1>5. AnswersMatch'
  BY DEF ServerInv, AnswersMatch
<1> QED
  BY <1>1, <1>2, <1>3, <1>4, <1>5 DEF ServerInv

\* A step that leaves the executor and what the calls got as they are.
LEMMA ServerStep ==
  ASSUME ServerInv, UNCHANGED <<provider, got, ran, pc, pending>>,
         server' \in Servers, asking' \in BOOLEAN, stage' \in Stages,
         server'.notes \in {server.notes, server.notes + 1},
         StageInv', SizeInv',
         Fits(Queue', got, Called', server'.notes)
  PROVE  ServerInv'
<1>1. ServerTypes'
  BY DEF ServerInv, ServerTypes
<1>2. QueueInv'
  BY DEF QueueInv, Fits, FitsAt, Behind
<1>3. AnswersMatch'
  <2>1. Matches(got, server'.notes)
    BY MatchesDef, MatchesMore, QueueType DEF ServerInv
  <2> QED
    BY <2>1 DEF AnswersMatch, Matches, MatchesAt
<1> QED
  BY <1>1, <1>2, <1>3 DEF ServerInv

LEMMA DiscoverStep == ServerInv /\ Discover => ServerInv'
<1> SUFFICES ASSUME ServerInv, Discover PROVE ServerInv'
  OBVIOUS
<1>1. /\ stage = "discover" /\ stage' = "spawn" /\ UNCHANGED <<provider, server, asking, got>>
      /\ Len(ran') = Len(ran)
  BY DEF Discover, vars
<1>2. asking = FALSE
  BY <1>1 DEF ServerInv, ServerTypes, StageInv
<1> QED
  BY <1>1, <1>2, QuietServer

LEMMA SpawnStep == ServerInv /\ Spawn => ServerInv'
<1> SUFFICES ASSUME ServerInv, Spawn PROVE ServerInv'
  OBVIOUS
<1>1. /\ stage = "spawn" /\ UNCHANGED <<provider, asking, got, ran, pc, pending>>
      /\ asking = FALSE /\ server = NoServer
  BY DEF Spawn, vars, setup, ServerInv, ServerTypes, StageInv
<1>2. CASE stage' = "run" /\ UNCHANGED server
  <2>1. Len(ran') = Len(ran)
    BY <1>1
  <2> QED
    BY <1>1, <1>2, <2>1, QuietServer
<1>3. CASE /\ server' = [server EXCEPT !.alive = TRUE, !.todo = <<Line("hello", 0)>>]
           /\ stage' = "hello"
  <2> DEFINE e == Line("hello", 0)
  <2>1. e \in Lines /\ e.of = 0
    BY LineType
  <2>2. /\ server'.up = FALSE /\ server'.alive = TRUE /\ server'.todo = <<e>>
        /\ server'.lines = <<>> /\ server'.notes = 0 /\ server.notes = 0
    BY <1>1, <1>3 DEF NoServer
  <2>3. server' \in Servers
    <3>1. <<e>> \in Seq(Lines) /\ <<>> \in Seq(Lines)
      BY <2>1
    <3>2. server' = [up |-> FALSE, alive |-> TRUE, todo |-> <<e>>, lines |-> <<>>,
                     notes |-> 0]
      BY <1>1, <1>3 DEF NoServer
    <3> QED
      BY <3>1, <3>2 DEF Servers
  <2>4. Queue' = <<e>>
    BY <2>2 DEF Queue
  <2>5. StageInv'
    BY <1>1, <1>3, <2>2 DEF ServerInv, StageInv
  <2>6. SizeInv'
    <3>1. Len(Queue') = 1
      BY <2>4
    <3> QED
      BY <1>3, <2>2, <3>1 DEF SizeInv, Waiting
  <2>7. Fits(Queue', got, Called', server'.notes)
    <3>1. Len(got) \in Nat
      BY QueueType DEF ServerInv
    <3>2. DOMAIN Queue' = {1} /\ Len(Queue') = 1 /\ Queue'[1] = e
      BY <2>4
    <3> QED
      BY <1>1, <2>1, <3>1, <3>2 DEF Fits, FitsAt, Called
  <2> QED
    BY <1>1, <1>3, <2>2, <2>3, <2>5, <2>6, <2>7, ServerStep DEF Stages
<1> QED
  BY <1>2, <1>3 DEF Spawn

\* What is left when the run has read a line, or found the pipe at its end.
Left == Taken.lines \o Taken.todo

LEMMA TakenFacts ==
  ASSUME ServerInv, Readable
  PROVE  /\ Taken \in Servers
         /\ Taken.up = server.up /\ Taken.alive = server.alive
         /\ Taken.todo = server.todo /\ Taken.notes = server.notes
         /\ Taken.lines \in Seq(Lines)
         /\ Left \in Seq(Lines)
         /\ server.lines # <<>> =>
              /\ Queue # <<>> /\ Left = Tail(Queue)
              /\ Head(Queue) = Head(server.lines)
              /\ Len(Left) = Len(Queue) - 1
         /\ server.lines = <<>> => /\ ~server.alive
                                   /\ Left = <<>> /\ Queue = <<>>
         /\ Fits(Left, got, Called, server.notes)
<1>1. /\ server.lines \in Seq(Lines) /\ server.todo \in Seq(Lines)
      /\ server \in Servers /\ Queue \in Seq(Lines) /\ got \in Seq(Gots)
      /\ server.notes \in Nat
  BY QueueType DEF ServerInv, ServerTypes
<1>2. Taken = [server EXCEPT !.lines = IF server.lines = <<>> THEN server.lines
                                       ELSE Tail(server.lines)]
  BY DEF Taken
<1>3. /\ Taken.up = server.up /\ Taken.alive = server.alive
      /\ Taken.todo = server.todo /\ Taken.notes = server.notes
      /\ Taken.lines = IF server.lines = <<>> THEN server.lines
                       ELSE Tail(server.lines)
  BY <1>1, <1>2 DEF Servers
<1>4. Taken.lines \in Seq(Lines)
  BY <1>1, <1>3, TailFacts
<1>5. Taken \in Servers
  BY <1>1, <1>2, <1>3, <1>4 DEF Servers
<1>6. Left \in Seq(Lines)
  BY <1>1, <1>3, <1>4, JoinFacts DEF Left
<1>7. CASE server.lines # <<>>
  <2>1. /\ Queue # <<>> /\ Left = Tail(Queue) /\ Head(Queue) = Head(server.lines)
    BY <1>1, <1>3, <1>7, QueueTail DEF Left, Queue
  <2>2. Len(Left) = Len(Queue) - 1
    BY <1>1, <2>1, TailFacts
  <2>3. Called \in {0, 1}
    BY DEF Called
  <2>4. Fits(Left, got, Called, server.notes)
    BY <1>1, <2>1, <2>3, FitsDrop DEF ServerInv, QueueInv
  <2> QED
    BY <1>3, <1>4, <1>5, <1>6, <1>7, <2>1, <2>2, <2>4
<1>8. CASE server.lines = <<>>
  <2>1. ~server.alive /\ server.todo = <<>>
    BY <1>8 DEF Readable, ServerInv, StageInv
  <2>2. Left = <<>> /\ Queue = <<>>
    BY <1>3, <1>8, <2>1 DEF Left, Queue
  <2>3. Fits(Left, got, Called, server.notes)
    BY <2>2 DEF Fits
  <2> QED
    BY <1>3, <1>4, <1>5, <1>6, <1>8, <2>1, <2>2, <2>3
<1> QED
  BY <1>7, <1>8

LEMMA ReadHelloStep == ServerInv /\ ReadHello => ServerInv'
<1> SUFFICES ASSUME ServerInv, ReadHello PROVE ServerInv'
  OBVIOUS
<1>1. /\ stage = "hello" /\ UNCHANGED <<provider, asking, got, ran, pc, pending>>
      /\ asking = FALSE /\ Readable /\ server.up = FALSE
  BY QueueType DEF ReadHello, vars, setup, ServerInv, ServerTypes, StageInv
<1>2. /\ Len(Queue) \in Nat /\ server.notes \in Nat /\ got \in Seq(Gots)
      /\ server.todo \in Seq(Lines)
  BY QueueType DEF ServerInv
<1>3. server.alive => Len(Queue) <= server.notes + 1
  BY <1>1 DEF ServerInv, SizeInv, Waiting
<1>4. CASE /\ ReadsJson /\ server.alive
           /\ server' = [Taken EXCEPT !.todo = Append(@, Line("list", 0))]
           /\ stage' = "list"
  <2> DEFINE e == Line("list", 0)
  <2>1. e \in Lines /\ e.of = 0
    BY LineType
  <2>2. /\ server'.up = Taken.up /\ server'.alive = Taken.alive
        /\ server'.todo = Append(server.todo, e)
        /\ server'.lines = Taken.lines /\ server'.notes = Taken.notes
    BY <1>1, <1>4, TakenFacts DEF Servers
  <2>3. server' \in Servers
    <3>1. Append(server.todo, e) \in Seq(Lines)
      BY <1>2, <2>1
    <3> QED
      BY <1>1, <1>4, <2>2, <3>1, TakenFacts DEF Servers
  <2>4. Queue' = Append(Left, e)
    <3>1. Queue' = Taken.lines \o Append(server.todo, e)
      BY <2>2 DEF Queue
    <3>2. Left = Taken.lines \o server.todo /\ Taken.lines \in Seq(Lines)
      BY <1>1, TakenFacts DEF Left
    <3> QED
      BY <1>2, <2>1, <3>1, <3>2, QueueAdd
  <2>5. StageInv'
    BY <1>1, <1>4, <2>2, TakenFacts DEF ServerInv, StageInv
  <2>6. SizeInv'
    <3>1. Left \in Seq(Lines) /\ Len(Left) = Len(Queue) - 1
      BY <1>1, <1>4, TakenFacts DEF ReadsJson
    <3>2. Len(Queue') = Len(Left) + 1
      BY <2>1, <2>4, <3>1, AppendFacts
    <3> QED
      BY <1>1, <1>2, <1>3, <1>4, <2>2, <3>1, <3>2, TakenFacts DEF SizeInv, Waiting
  <2>7. Fits(Queue', got, Called', server'.notes)
    <3>1. /\ Left \in Seq(Lines) /\ Fits(Left, got, Called, server.notes)
          /\ server'.notes = server.notes
      BY <1>1, <2>2, TakenFacts
    <3>2. Called = 0 /\ Called' = 0
      BY <1>1 DEF Called
    <3>3. Fits(Append(Left, e), got, 0, server.notes)
      BY <1>2, <2>1, <3>1, <3>2, FitsAdd
    <3> QED
      BY <2>4, <3>1, <3>2, <3>3
  <2> QED
    BY <1>1, <1>4, <2>2, <2>3, <2>5, <2>6, <2>7, TakenFacts, ServerStep DEF Stages
<1>5. CASE ~(ReadsJson /\ server.alive) /\ server' = Taken /\ stage' = "run"
  <2>1. Queue' = Left
    BY <1>5 DEF Queue, Left
  <2>2. StageInv'
    BY <1>1, <1>5, TakenFacts DEF ServerInv, StageInv
  <2>3. SizeInv'
    <3>1. server.alive => Len(Left) = Len(Queue) - 1
      BY <1>1, TakenFacts
    <3>2. server'.alive = server.alive /\ server'.notes = server.notes
      BY <1>1, <1>5, TakenFacts
    <3> QED
      BY <1>1, <1>2, <1>3, <1>5, <2>1, <3>1, <3>2 DEF SizeInv, Waiting
  <2>4. Fits(Queue', got, Called', server'.notes)
    <3>1. Called' = Called
      BY <1>1 DEF Called
    <3> QED
      BY <1>1, <1>5, <2>1, <3>1, TakenFacts
  <2> QED
    BY <1>1, <1>5, <2>2, <2>3, <2>4, TakenFacts, ServerStep DEF Stages
<1> QED
  BY <1>4, <1>5 DEF ReadHello

LEMMA ReadListStep == ServerInv /\ ReadList => ServerInv'
<1> SUFFICES ASSUME ServerInv, ReadList PROVE ServerInv'
  OBVIOUS
<1>1. /\ stage = "list" /\ UNCHANGED <<provider, asking, got, ran, pc, pending>>
      /\ asking = FALSE /\ Readable
      /\ server' = [Taken EXCEPT !.up = ReadsJson] /\ stage' = "run"
  BY DEF ReadList, vars, setup, ServerInv, ServerTypes, StageInv
<1>2. Len(Queue) \in Nat /\ server.notes \in Nat
  BY QueueType DEF ServerInv
<1>3. /\ server'.alive = Taken.alive /\ server'.todo = Taken.todo
      /\ server'.lines = Taken.lines /\ server'.notes = Taken.notes
      /\ server' \in Servers
  <2>1. ReadsJson \in BOOLEAN
    BY DEF ReadsJson
  <2> QED
    BY <1>1, <2>1, TakenFacts DEF Servers
<1>4. Queue' = Left
  BY <1>3 DEF Queue, Left
<1>5. StageInv'
  BY <1>1, <1>3, TakenFacts DEF ServerInv, StageInv
<1>6. SizeInv'
  <2>1. server.alive => Len(Queue) <= server.notes + 1
    BY <1>1 DEF ServerInv, SizeInv, Waiting
  <2>2. server.alive => Len(Left) = Len(Queue) - 1
    BY <1>1, TakenFacts
  <2>3. server'.alive = server.alive /\ server'.notes = server.notes
    BY <1>1, <1>3, TakenFacts
  <2> QED
    BY <1>1, <1>2, <1>4, <2>1, <2>2, <2>3 DEF SizeInv, Waiting
<1>7. Fits(Queue', got, Called', server'.notes)
  <2>1. Called' = Called
    BY <1>1 DEF Called
  <2> QED
    BY <1>1, <1>3, <1>4, <2>1, TakenFacts
<1> QED
  BY <1>1, <1>3, <1>5, <1>6, <1>7, TakenFacts, ServerStep DEF Stages

LEMMA ServerAnswersStep == ServerInv /\ ServerAnswers => ServerInv'
<1> SUFFICES ASSUME ServerInv, ServerAnswers PROVE ServerInv'
  OBVIOUS
<1>1. /\ UNCHANGED <<stage, provider, asking, got, ran, pc, pending>>
      /\ server.alive /\ server.todo # <<>>
      /\ server' = [server EXCEPT !.todo = Tail(@),
                                  !.lines = Append(@, Head(server.todo))]
  BY DEF ServerAnswers, vars, setup
<1>2. /\ server \in Servers /\ stage \in Stages /\ asking \in BOOLEAN
      /\ server.lines \in Seq(Lines) /\ server.todo \in Seq(Lines)
  BY QueueType DEF ServerInv, ServerTypes
<1>3. /\ Head(server.todo) \in Lines /\ Tail(server.todo) \in Seq(Lines)
      /\ Append(server.lines, Head(server.todo)) \in Seq(Lines)
  BY <1>1, <1>2, TailFacts, AppendFacts
<1>4. /\ server'.up = server.up /\ server'.alive = server.alive
      /\ server'.notes = server.notes
      /\ server'.todo = Tail(server.todo)
      /\ server'.lines = Append(server.lines, Head(server.todo))
      /\ server' \in Servers
  BY <1>1, <1>2, <1>3 DEF Servers
<1>5. Queue' = Queue
  BY ZenonT(40), <1>1, <1>2, <1>4, QueueMove DEF Queue
<1>6. StageInv'
  <2>1. stage \notin {"discover", "spawn"}
    BY <1>1 DEF ServerInv, StageInv, NoServer
  <2> QED
    BY <1>1, <1>4, <2>1 DEF ServerInv, StageInv
<1>7. SizeInv'
  BY <1>1, <1>4, <1>5 DEF ServerInv, SizeInv, Waiting
<1>8. Fits(Queue', got, Called', server'.notes)
  BY <1>1, <1>4, <1>5 DEF ServerInv, QueueInv, Called
<1> QED
  BY <1>1, <1>2, <1>4, <1>6, <1>7, <1>8, ServerStep

LEMMA ServerSpeaksStep == ServerInv /\ ServerSpeaks => ServerInv'
<1> SUFFICES ASSUME ServerInv, ServerSpeaks PROVE ServerInv'
  OBVIOUS
<1>1. PICK kind \in {"note", "text"} :
        server' = [server EXCEPT !.lines = Append(@, Line(kind, 0)),
                                 !.notes = @ + 1]
  BY DEF ServerSpeaks
<1> DEFINE e == Line(kind, 0)
<1>2. /\ UNCHANGED <<stage, provider, asking, got, ran, pc, pending>>
      /\ server.alive
  BY DEF ServerSpeaks, vars, setup
<1>3. /\ server \in Servers /\ stage \in Stages /\ asking \in BOOLEAN
      /\ server.lines \in Seq(Lines) /\ server.todo \in Seq(Lines)
      /\ server.notes \in Nat /\ got \in Seq(Gots) /\ Len(Queue) \in Nat
      /\ Len(Queue) = Len(server.lines) + Len(server.todo)
  BY QueueType DEF ServerInv, ServerTypes
<1>4. e \in Lines /\ e.of = 0
  BY LineType
<1>5. /\ Append(server.lines, e) \in Seq(Lines)
      /\ Len(Append(server.lines, e)) = Len(server.lines) + 1
  BY <1>3, <1>4, AppendFacts
<1>6. /\ server'.up = server.up /\ server'.alive = server.alive
      /\ server'.notes = server.notes + 1
      /\ server'.todo = server.todo
      /\ server'.lines = Append(server.lines, e)
      /\ server' \in Servers
  <2> HIDE DEF e
  <2>1. server' = [server EXCEPT !.lines = Append(server.lines, e),
                                 !.notes = server.notes + 1]
    BY <1>1 DEF e
  <2>2. server.notes + 1 \in Nat
    BY <1>3
  <2> QED
    BY <1>3, <1>5, <2>1, <2>2 DEF Servers
<1> HIDE DEF e
<1>7. Queue' = Append(server.lines, e) \o server.todo
  BY <1>6 DEF Queue
<1>8. StageInv'
  <2>1. stage \notin {"discover", "spawn"}
    BY <1>2 DEF ServerInv, StageInv, NoServer
  <2> QED
    BY <1>2, <1>6, <2>1 DEF ServerInv, StageInv
<1>9. SizeInv'
  <2>1. Len(Queue') = Len(Append(server.lines, e)) + Len(server.todo)
    BY <1>3, <1>5, <1>7, JoinFacts
  <2>2. PICK m \in Nat, n \in Nat : m = Len(server.lines) /\ n = Len(server.todo)
    BY <1>3, JoinFacts
  <2>3. Len(Queue') = (m + 1) + n /\ Len(Queue) = m + n
    BY <1>3, <1>5, <2>1, <2>2
  <2>4. Waiting' = Waiting /\ Waiting \in Nat
    BY <1>2 DEF Waiting
  <2>5. Len(Queue) <= server.notes + Waiting
    BY <1>2 DEF ServerInv, SizeInv
  <2>6. Len(Queue') = Len(Queue) + 1
    <3>1. \A i, j \in Nat : (i + 1) + j = (i + j) + 1
      OBVIOUS
    <3>2. (m + 1) + n = (m + n) + 1
      BY <3>1
    <3> QED
      BY <2>3, <3>2
  <2>7. Len(Queue') <= server'.notes + Waiting'
    <3>1. \A i, j, k \in Nat : i <= j + k => i + 1 <= (j + 1) + k
      OBVIOUS
    <3>2. Len(Queue) + 1 <= (server.notes + 1) + Waiting
      BY <1>3, <2>4, <2>5, <3>1
    <3> QED
      BY <1>6, <2>4, <2>6, <3>2
  <2> QED
    BY <2>7 DEF SizeInv
<1>10. Fits(Queue', got, Called', server'.notes)
  <2>1. Called' = Called /\ Called \in {0, 1}
    BY <1>2 DEF Called
  <2>2. Fits(server.lines \o server.todo, got, Called, server.notes)
    BY DEF ServerInv, QueueInv, Queue
  <2>3. Fits(Append(server.lines, e) \o server.todo, got, Called, server.notes + 1)
    BY <1>3, <1>4, <2>1, <2>2, FitsInsert
  <2> QED
    BY <1>6, <1>7, <2>1, <2>3
<1> QED
  BY <1>2, <1>3, <1>6, <1>8, <1>9, <1>10, ServerStep

\* The server is gone; the run reads what is left of its lines.
LEMMA ServerGone ==
  ASSUME ServerInv, UNCHANGED <<provider, asking, got, ran, pc, pending>>,
         server' = [server EXCEPT !.alive = FALSE, !.todo = <<>>],
         stage \notin {"discover", "spawn"},
         stage' = stage \/ (stage = "run" /\ stage' = "closed" /\ pc \in Over)
  PROVE  ServerInv'
<1>1. /\ server \in Servers /\ stage \in Stages /\ asking \in BOOLEAN
      /\ server.lines \in Seq(Lines) /\ server.todo \in Seq(Lines)
      /\ server.notes \in Nat /\ got \in Seq(Gots)
  BY QueueType DEF ServerInv, ServerTypes
<1>2. /\ server'.up = server.up /\ server'.alive = FALSE
      /\ server'.notes = server.notes
      /\ server'.todo = <<>>
      /\ server'.lines = server.lines
      /\ server' \in Servers
  <2>1. <<>> \in Seq(Lines)
    OBVIOUS
  <2> QED
    BY <1>1, <2>1 DEF Servers
<1>3. stage' \in Stages /\ stage' \notin {"discover", "spawn"}
  BY <1>1 DEF Stages
<1>4. StageInv'
  BY <1>2, <1>3 DEF ServerInv, StageInv, Over
<1>5. SizeInv'
  BY <1>2 DEF SizeInv
<1>6. Fits(Queue', got, Called', server'.notes)
  <2>1. Called' = Called /\ Called \in {0, 1}
    BY DEF Called
  <2>2. Fits(server.lines \o server.todo, got, Called, server.notes)
    BY DEF ServerInv, QueueInv, Queue
  <2>3. Fits(server.lines \o <<>>, got, Called, server.notes)
    BY <1>1, <2>1, <2>2, FitsPrefix
  <2> QED
    BY <1>2, <2>1, <2>3 DEF Queue
<1> QED
  BY <1>1, <1>2, <1>3, <1>4, <1>5, <1>6, ServerStep

LEMMA ServerDiesStep == ServerInv /\ ServerDies => ServerInv'
<1> SUFFICES ASSUME ServerInv, ServerDies PROVE ServerInv'
  OBVIOUS
<1>1. /\ UNCHANGED <<provider, asking, got, ran, pc, pending>>
      /\ stage' = stage /\ server.alive
      /\ server' = [server EXCEPT !.alive = FALSE, !.todo = <<>>]
  BY DEF ServerDies, vars, setup
<1>2. stage \notin {"discover", "spawn"}
  BY <1>1 DEF ServerInv, StageInv, NoServer
<1>3. stage' = stage \/ (stage = "run" /\ stage' = "closed" /\ pc \in Over)
  BY <1>1
<1> QED
  BY <1>1, <1>2, <1>3, ServerGone

LEMMA ShutdownStep == ServerInv /\ Shutdown => ServerInv'
<1> SUFFICES ASSUME ServerInv, Shutdown PROVE ServerInv'
  OBVIOUS
<1>1. /\ UNCHANGED <<provider, asking, got, ran, pc, pending>>
      /\ stage = "run" /\ stage' = "closed" /\ pc \in Over
  BY DEF Shutdown, vars, setup
<1>2. asking = FALSE
  BY <1>1 DEF ServerInv, ServerTypes, StageInv, Over
<1>3. CASE server' = server
  <2>1. StageInv'
    BY <1>1, <1>2, <1>3 DEF ServerInv, StageInv
  <2>2. SizeInv'
    BY <1>1, <1>2, <1>3 DEF ServerInv, SizeInv, Waiting, Queue
  <2>3. Fits(Queue', got, Called', server'.notes)
    BY <1>1, <1>3 DEF ServerInv, QueueInv, Queue, Called
  <2> QED
    BY <1>1, <1>2, <1>3, <2>1, <2>2, <2>3, ServerStep DEF Stages, ServerInv, ServerTypes
<1>4. CASE server' = [server EXCEPT !.alive = FALSE, !.todo = <<>>]
  BY <1>1, <1>4, ServerGone
<1> QED
  BY <1>3, <1>4 DEF Shutdown

\* What the executor does while the server is not asked.
LEMMA QuietStep ==
  ServerInv /\ (Answer \/ FailRequest \/ Repeat \/ EndRound \/ TokenExpires \/ Closed)
    => ServerInv'
<1> SUFFICES ASSUME ServerInv,
                    Answer \/ FailRequest \/ Repeat \/ EndRound \/ TokenExpires \/ Closed
             PROVE  ServerInv'
  OBVIOUS
<1>1. CASE Answer \/ FailRequest \/ Repeat \/ EndRound
  <2>1. /\ UNCHANGED <<provider, server, asking, got>> /\ stage' = stage
        /\ ran' = ran
        /\ \/ pc \in {"call", "wait"}
           \/ pc = "dispatch" /\ ~asking
    BY <1>1 DEF Answer, FailRequest, Repeat, EndRound, Respond, Fail, Retry,
                CloseRound, setup, talk
  <2>2. ~asking
    BY <2>1 DEF ServerInv, StageInv
  <2>3. stage # "closed"
    BY <2>1 DEF ServerInv, StageInv, Over
  <2> QED
    BY <2>1, <2>2, <2>3, QuietServer
<1>2. CASE TokenExpires \/ Closed
  <2>1. /\ UNCHANGED <<provider, server, asking, got>> /\ stage' = stage
        /\ ran' = ran /\ pc' = pc /\ pending' = pending
    BY <1>2 DEF TokenExpires, Closed, all, setup, talk, vars
  <2>2. stage = "closed" => pc' \in Over
    BY <2>1 DEF ServerInv, StageInv
  <2>3. asking => pc' = "dispatch" /\ pending' # <<>>
    BY <2>1 DEF ServerInv, StageInv
  <2> QED
    BY <2>1, <2>2, <2>3, QuietServer
<1> QED
  BY <1>1, <1>2

LEMMA CallServerStep == ServerInv /\ IInv /\ CallServer => ServerInv'
<1> SUFFICES ASSUME ServerInv, IInv, CallServer PROVE ServerInv'
  OBVIOUS
<1> DEFINE e == Line("answer", Head(pending))
<1>1. /\ UNCHANGED <<stage, provider, got, ran, pc, pending>>
      /\ pc = "dispatch" /\ pending # <<>> /\ ~asking /\ asking' = TRUE
      /\ server.up /\ server.alive
      /\ server' = [server EXCEPT !.todo = Append(@, e)]
  BY DEF CallServer, vars, setup
<1>2. /\ server \in Servers /\ stage \in Stages /\ asking = FALSE
      /\ server.lines \in Seq(Lines) /\ server.todo \in Seq(Lines)
      /\ server.notes \in Nat /\ got \in Seq(Gots) /\ Queue \in Seq(Lines)
      /\ Len(Queue) \in Nat
  BY <1>1, QueueType DEF ServerInv, ServerTypes
<1>3. /\ stage = "run" /\ Len(got) = Len(ran) /\ Len(got) \in Nat
      /\ Len(Queue) <= server.notes
  <2>1. stage = "run"
    BY <1>1 DEF ServerInv, StageInv, Over
  <2>2. Len(Queue) <= server.notes + 0
    BY <1>1, <2>1 DEF ServerInv, SizeInv, Waiting
  <2>3. \A g \in Seq(Gots) : Len(g) \in Nat
    OBVIOUS
  <2> QED
    BY <1>2, <2>1, <2>2, <2>3 DEF ServerInv, StageInv
<1>4. e \in Lines /\ e.of = Len(got) + 1
  <2>1. Head(pending) = Len(got) + 1
    BY <1>1, <1>3, NextPending DEF IInv
  <2>2. Head(pending) \in Nat
    BY <1>3, <2>1
  <2> QED
    BY <2>1, <2>2, LineType
<1>5. /\ Append(server.todo, e) \in Seq(Lines)
  BY <1>2, <1>4, AppendFacts
<1> HIDE DEF e
<1>6. /\ server'.up = server.up /\ server'.alive = server.alive
      /\ server'.notes = server.notes
      /\ server'.todo = Append(server.todo, e)
      /\ server'.lines = server.lines
      /\ server' \in Servers
  BY <1>1, <1>2, <1>5 DEF Servers
<1>7. Queue' = Append(Queue, e)
  <2>1. Queue' = server.lines \o Append(server.todo, e)
    BY <1>6 DEF Queue
  <2> QED
    BY <1>2, <1>4, <2>1, QueueAdd DEF Queue
<1>8. StageInv'
  BY <1>1, <1>3, <1>6 DEF ServerInv, StageInv
<1>9. SizeInv'
  <2>1. Len(Queue') = Len(Queue) + 1
    BY <1>2, <1>4, <1>7, AppendFacts
  <2>2. Waiting' = 1
    BY <1>1 DEF Waiting
  <2>3. Len(Queue) + 1 <= server.notes + 1
    BY <1>2, <1>3
  <2> QED
    BY <1>6, <2>1, <2>2, <2>3 DEF SizeInv
<1>10. Fits(Queue', got, Called', server'.notes)
  <2>1. Called = 0 /\ Called' = 1
    BY <1>1, <1>2 DEF Called
  <2>2. Fits(Queue, got, 0, server.notes)
    BY <2>1 DEF ServerInv, QueueInv
  <2>3. \A j \in 1 .. Len(got) : got[j].of <= j
    <3> SUFFICES ASSUME NEW j \in 1 .. Len(got) PROVE got[j].of <= j
      OBVIOUS
    <3>1. got[j].of \in Nat /\ j \in DOMAIN got /\ j \in Nat
      BY <1>2, OfIsNat
    <3>2. got[j].of > 0 => got[j].of <= j
      BY <3>1 DEF ServerInv, AnswersMatch
    <3> QED
      BY <3>1, <3>2
  <2>4. Fits(Append(Queue, e), got, 1, server.notes)
    BY <1>2, <1>3, <1>4, <2>2, <2>3, FitsAdd
  <2> QED
    BY <1>6, <1>7, <2>1, <2>4
<1> QED
  BY <1>1, <1>2, <1>6, <1>8, <1>9, <1>10, ServerStep

\* A call gets its answer.
LEMMA GotStep ==
  ASSUME ServerInv, IInv, Dispatch \/ Panic,
         UNCHANGED <<provider, stage>>, stage = "run" \/ server' = server,
         server' \in Servers, asking' = FALSE,
         server'.up = server.up, server'.alive = server.alive,
         server'.todo = server.todo, server'.notes = server.notes,
         NEW x \in Gots, got' = Append(got, x),
         SizeInv', Fits(Queue', got', 0, server.notes), Matches(got', server.notes)
  PROVE  ServerInv'
<1>1. /\ got \in Seq(Gots) /\ stage \in Stages /\ provider \in Providers
      /\ ran \in Seq(Nat) /\ pending \in Seq(Nat)
  BY DEF ServerInv, ServerTypes, IInv, TypeOK
<1>2. got' \in Seq(Gots) /\ Len(got') = Len(got) + 1
  BY <1>1, AppendFacts
<1>3. pc = "dispatch" /\ Len(ran') = Len(ran) + 1
  <2>1. pc = "dispatch" /\ pending # <<>> /\ ran' = Append(ran, Head(pending))
    BY DEF Dispatch, Panic
  <2> QED
    BY <1>1, <2>1, TailFacts, AppendFacts
<1>5. ServerTypes'
  BY <1>1, <1>2 DEF ServerTypes
<1>6. StageInv'
  BY <1>2, <1>3 DEF ServerInv, StageInv, Over
<1>7. QueueInv'
  <2>1. Called' = 0
    BY DEF Called
  <2> QED
    BY <2>1 DEF QueueInv, Fits, FitsAt, Behind
<1>8. AnswersMatch'
  BY DEF AnswersMatch, Matches, MatchesAt
<1> QED
  BY <1>5, <1>6, <1>7, <1>8 DEF ServerInv

LEMMA ReadResultStep == ServerInv /\ IInv /\ ReadResult => ServerInv'
<1> SUFFICES ASSUME ServerInv, IInv, ReadResult PROVE ServerInv'
  OBVIOUS
<1> DEFINE x == Got("server", IF ReadsJson THEN Head(server.lines).of ELSE 0)
<1>1. /\ asking /\ Readable /\ got' = Append(got, x) /\ server' = Taken
      /\ asking' = FALSE /\ UNCHANGED <<provider, stage>>
      /\ Dispatch \/ Panic
  BY DEF ReadResult, setup
<1>2. /\ stage = "run" /\ Called = 1 /\ Waiting = 1
  BY <1>1 DEF ServerInv, StageInv, Called, Waiting
<1>3. /\ got \in Seq(Gots) /\ Queue \in Seq(Lines) /\ server.lines \in Seq(Lines)
      /\ server.notes \in Nat /\ Len(Queue) \in Nat
      /\ Matches(got, server.notes) /\ Fits(Queue, got, 1, server.notes)
  BY <1>2, QueueType, MatchesDef DEF ServerInv, QueueInv
<1>4. /\ Taken.up = server.up /\ Taken.alive = server.alive
      /\ Taken.todo = server.todo /\ Taken.notes = server.notes
      /\ Taken \in Servers
      /\ Queue' = Left
  <2>1. Queue' = Left
    BY <1>1 DEF Queue, Left
  <2> QED
    BY <1>1, <2>1, TakenFacts
<1>5. SizeInv'
  <2>1. server.alive => Len(Left) = Len(Queue) - 1
    BY <1>1, TakenFacts
  <2>2. server.alive => Len(Queue) <= server.notes + 1
    BY <1>2 DEF ServerInv, SizeInv
  <2>3. Waiting' = 0
    BY <1>1, <1>2 DEF Waiting
  <2> QED
    BY <1>1, <1>3, <1>4, <2>1, <2>2, <2>3 DEF SizeInv
<1>6. /\ x \in Gots /\ x.from = "server" /\ x.of \in Nat
      /\ x.of = IF ReadsJson THEN Head(server.lines).of ELSE 0
  <2>1. ReadsJson => Head(server.lines).of \in Nat
    <3>1. server.lines # <<>> => Head(server.lines) \in Lines
      BY <1>3, TailFacts
    <3> QED
      BY <3>1 DEF ReadsJson, Lines
  <2> QED
    BY <2>1, LineType
<1> HIDE DEF x
<1>7. Fits(Left, Append(got, x), 0, server.notes) /\ Matches(Append(got, x), server.notes)
  <2>1. CASE server.lines # <<>>
    <3>1. /\ Queue # <<>> /\ Left = Tail(Queue)
          /\ Head(Queue) = Head(server.lines)
      BY <1>1, <2>1, TakenFacts
    <3>2. x.of \in {0, Head(Queue).of}
      BY <1>6, <3>1
    <3>3. Fits(Tail(Queue), Append(got, x), 0, server.notes)
      BY <1>3, <1>6, <3>1, <3>2, FitsRead
    <3>4. Matches(Append(got, x), server.notes)
      BY <1>3, <1>6, <3>1, <3>2, ReadMatches
    <3> QED
      BY <3>1, <3>3, <3>4
  <2>2. CASE server.lines = <<>>
    <3>1. Left = <<>>
      BY <1>1, <2>2, TakenFacts
    <3>2. Fits(Left, Append(got, x), 0, server.notes)
      BY <3>1 DEF Fits
    <3>3. x.of = 0
      BY <1>6, <2>2 DEF ReadsJson
    <3>4. Matches(Append(got, x), server.notes)
      BY <1>3, <1>6, <3>3, MatchesAppend
    <3> QED
      BY <3>2, <3>4
  <2> QED
    BY <2>1, <2>2
<1>8. Fits(Queue', got', 0, server.notes) /\ Matches(got', server.notes)
  BY <1>1, <1>4, <1>7
<1> QED
  BY <1>1, <1>2, <1>4, <1>5, <1>6, <1>8, GotStep

\* A call that is not the server's.
LEMMA OtherCall ==
  ASSUME ServerInv, IInv, Dispatch \/ Panic, ~asking,
         UNCHANGED <<provider, stage, server, asking>>,
         NEW from \in {"adapter", "error"}, got' = Append(got, Got(from, 0))
  PROVE  ServerInv'
<1> DEFINE x == Got(from, 0)
<1>1. x \in Gots /\ x.from \in {"adapter", "error"} /\ x.of = 0
  BY LineType
<1> HIDE DEF x
<1>2. /\ got \in Seq(Gots) /\ Queue \in Seq(Lines) /\ server.notes \in Nat
      /\ server \in Servers /\ asking = FALSE
  BY QueueType DEF ServerInv, ServerTypes
<1>3. Matches(got, server.notes) /\ Fits(Queue, got, 0, server.notes)
  BY <1>2, MatchesDef DEF ServerInv, QueueInv, Called
<1>4. Queue' = Queue
  BY DEF Queue
<1>5. SizeInv'
  BY <1>4 DEF ServerInv, SizeInv, Waiting
<1>6. got' = Append(got, x)
  BY DEF x
<1>7. Fits(Queue', got', 0, server.notes)
  BY <1>1, <1>2, <1>3, <1>4, <1>6, FitsOther
<1>8. Matches(got', server.notes)
  BY <1>1, <1>2, <1>3, <1>6, MatchesAppend
<1> QED
  BY <1>1, <1>2, <1>5, <1>6, <1>7, <1>8, GotStep

\* An adapter can do what the tools that are offered for it ask.
LEMMA OfferedIsServed ==
  \A suffix \in IntegrationTools(abilities) : Serves(abilities, suffix)
  BY DEF IntegrationTools, Serves

LEMMA OtherCallStep == ServerInv /\ IInv /\ (CallAdapter \/ CallNobody) => ServerInv'
<1> SUFFICES ASSUME ServerInv, IInv, CallAdapter \/ CallNobody PROVE ServerInv'
  OBVIOUS
<1>1. /\ Dispatch \/ Panic
      /\ ~asking /\ UNCHANGED <<provider, stage, server, asking>>
  BY DEF CallAdapter, CallNobody, setup
<1>2. CASE CallAdapter
  <2>1. got' = Append(got, Got("adapter", 0))
    BY <1>2, OfferedIsServed DEF CallAdapter
  <2> QED
    BY <1>1, <2>1, OtherCall
<1>3. CASE CallNobody
  <2>1. got' = Append(got, Got("error", 0))
    BY <1>3 DEF CallNobody
  <2> QED
    BY <1>1, <2>1, OtherCall
<1> QED
  BY <1>2, <1>3

LEMMA ServerInvStep == ServerInv /\ IInv /\ [ConversationNext]_all => ServerInv'
<1> SUFFICES ASSUME ServerInv, IInv, [ConversationNext]_all PROVE ServerInv'
  OBVIOUS
<1>1. CASE UNCHANGED all
  <2>1. /\ UNCHANGED <<provider, server, asking, got>> /\ stage' = stage
        /\ ran' = ran /\ pc' = pc /\ pending' = pending
    BY <1>1 DEF all, setup, talk, vars
  <2>2. /\ stage = "closed" => pc' \in Over
        /\ asking => pc' = "dispatch" /\ pending' # <<>>
    BY <2>1 DEF ServerInv, StageInv
  <2> QED
    BY <2>1, <2>2, QuietServer
<1>2. CASE ConversationNext
  BY <1>2, DiscoverStep, SpawnStep, ReadHelloStep, ReadListStep,
     ServerAnswersStep, ServerSpeaksStep, ServerDiesStep, ShutdownStep, QuietStep,
     CallServerStep, ReadResultStep, OtherCallStep
     DEF ConversationNext, Run
<1> QED
  BY <1>1, <1>2

LEMMA ModelInvStep == ModelInv /\ [ConversationNext]_all => ModelInv'
<1> SUFFICES ASSUME ModelInv, [ConversationNext]_all PROVE ModelInv'
  OBVIOUS
<1>1. CASE Discover
  <2>1. PICK cache \in Caches, list \in Lists :
          models' = Models(provider, cache, list)
    BY <1>1 DEF Discover
  <2>2. models' \in Seq(Range(models'))
    BY <2>1, ModelsAreList
  <2>3. model' = Validated(models', model)
    BY <1>1 DEF Discover
  <2>4. models' # <<>> => model' \in Range(models')
    BY <2>2, <2>3, ValidatedIsListed
  <2> QED
    BY <2>4 DEF ModelInv
<1>2. CASE ~Discover
  <2>1. UNCHANGED <<models, model>> /\ (stage' = "discover" => stage = "discover")
    BY <1>2 DEF ConversationNext, Run, Spawn, ReadHello, ReadList, Answer,
                FailRequest, Repeat, CallServer, ReadResult, CallAdapter,
                CallNobody, EndRound, Shutdown, ServerAnswers, ServerSpeaks,
                ServerDies, TokenExpires, Closed, all, setup, talk
  <2>2. stage # "discover" \/ stage' = "discover"
    BY <1>2 DEF ConversationNext, Run, Spawn, ReadHello, ReadList, Answer,
                FailRequest, Repeat, CallServer, ReadResult, CallAdapter,
                CallNobody, EndRound, Shutdown, ServerAnswers, ServerSpeaks,
                ServerDies, TokenExpires, Closed, all, setup, talk
  <2> QED
    BY <2>1, <2>2 DEF ModelInv
<1> QED
  BY <1>1, <1>2

-----------------------------------------------------------------------------
(* What the requests hold of the conversation *)

LEMMA MadeStays ==
  ASSUME NEW s \in Seq(Messages), NEW x \in Messages
  PROVE  \A call : \A k \in 1 .. Len(s) + 1 :
           MadeBefore(s, call, k) =>
             /\ MadeBefore(Append(s, x), call, k)
             /\ MadeBefore(Append(s, x), call, Len(Append(s, x)) + 1)
<1>1. /\ Len(s) \in Nat /\ Len(Append(s, x)) = Len(s) + 1
      /\ DOMAIN s = 1 .. Len(s) /\ DOMAIN Append(s, x) = 1 .. Len(s) + 1
      /\ \A k \in 1 .. Len(s) : Append(s, x)[k] = s[k]
  BY AppendFacts
<1> SUFFICES ASSUME NEW call, NEW k \in 1 .. Len(s) + 1,
                    NEW j \in DOMAIN s, j < k, s[j].role = "assistant",
                    call \in Range(s[j].ids)
             PROVE  /\ MadeBefore(Append(s, x), call, k)
                    /\ MadeBefore(Append(s, x), call, Len(Append(s, x)) + 1)
  BY DEF MadeBefore
<1>2. j \in DOMAIN Append(s, x) /\ Append(s, x)[j] = s[j]
  BY <1>1
<1>3. j < Len(Append(s, x)) + 1
  BY <1>1
<1> QED
  BY <1>2, <1>3 DEF MadeBefore

LEMMA MadeStep == TypeOK /\ MadeInv /\ [Next]_vars => MadeInv'
<1> SUFFICES ASSUME TypeOK, MadeInv, [Next]_vars PROVE MadeInv'
  OBVIOUS
<1>0. /\ messages \in Seq(Messages) /\ pending \in Seq(Nat) /\ calls \in Nat
      /\ Len(messages) \in Nat /\ DOMAIN messages = 1 .. Len(messages)
  <2>1. messages \in Seq(Messages)
    BY MessagesType
  <2> QED
    BY <2>1 DEF TypeOK
<1>1. CASE UNCHANGED messages /\ pending' \in {pending, <<>>}
  <2>1. \A n \in DOMAIN pending' : n \in DOMAIN pending /\ pending'[n] = pending[n]
    BY <1>1
  <2> QED
    BY <1>1, <2>1 DEF MadeInv
\* A message is added, and the results and the calls to dispatch are known.
<1>2. ASSUME NEW x \in Messages, messages' = Append(messages, x),
             \A n \in DOMAIN pending' :
               MadeBefore(messages', pending'[n], Len(messages') + 1),
             x.role = "tool" => \A call \in Range(x.ids) :
                                  MadeBefore(messages, call, Len(messages) + 1)
      PROVE  MadeInv'
  <2> SUFFICES ASSUME NEW k \in DOMAIN messages', messages'[k].role = "tool",
                      NEW call \in Range(messages'[k].ids)
               PROVE  MadeBefore(messages', call, k)
    BY <1>2 DEF MadeInv
  <2>1. /\ DOMAIN messages' = 1 .. Len(messages) + 1
        /\ \A j \in 1 .. Len(messages) : messages'[j] = messages[j]
        /\ messages'[Len(messages) + 1] = x
    BY <1>0, <1>2, AppendFacts
  <2>2. MadeBefore(messages, call, k)
    <3>1. CASE k = Len(messages) + 1
      BY <1>2, <2>1, <3>1
    <3>2. CASE k \in 1 .. Len(messages)
      <4>1. messages[k].role = "tool" /\ call \in Range(messages[k].ids)
        BY <2>1, <3>2
      <4> QED
        BY <1>0, <3>2, <4>1 DEF MadeInv
    <3> QED
      BY <1>0, <2>1, <3>1, <3>2
  <2> QED
    BY <1>0, <1>2, <2>1, <2>2, MadeStays
<1>3. CASE Respond
  <2>1. CASE UNCHANGED <<messages, calls, pending, endTurn>>
    BY <1>1, <2>1
  <2>2. ASSUME NEW n \in 1 .. MaxCalls,
               messages' = Append(messages,
                                  Message("assistant", [k \in 1 .. n |-> calls + k])),
               pending' = [k \in 1 .. n |-> calls + k]
        PROVE  MadeInv'
    <3> DEFINE ids == [k \in 1 .. n |-> calls + k]
               x == Message("assistant", ids)
    <3>1. ids \in Seq(Nat)
      BY <1>0, IdsFacts
    <3>2. x \in Messages /\ x.role = "assistant" /\ x.ids = ids
      BY <3>1, MessageFacts
    <3> HIDE DEF ids, x
    <3>3. messages' = Append(messages, x) /\ pending' = ids
      BY <2>2 DEF ids, x
    <3>4. /\ Len(messages') = Len(messages) + 1
          /\ Len(messages) + 1 \in DOMAIN messages'
          /\ messages'[Len(messages) + 1] = x
      BY <1>0, <3>2, <3>3, AppendFacts
    <3>5. \A k \in DOMAIN ids : ids[k] \in Range(ids)
      BY DEF Range
    <3>6. \A k \in DOMAIN pending' :
            MadeBefore(messages', pending'[k], Len(messages') + 1)
      <4>1. Len(messages) + 1 < Len(messages') + 1
        BY <1>0, <3>4
      <4> QED
        BY <3>2, <3>3, <3>4, <3>5, <4>1 DEF MadeBefore
    <3> QED
      BY <1>2, <3>2, <3>3, <3>6
  <2> QED
    BY <1>3, <2>1, <2>2 DEF Respond
<1>4. CASE Dispatch
  <2> DEFINE x == Message("tool", <<Head(pending)>>)
  <2>1. /\ pending # <<>> /\ messages' = Append(messages, x)
        /\ pending' = Tail(pending)
    BY <1>4 DEF Dispatch
  <2>2. /\ Head(pending) \in Nat /\ Head(pending) = pending[1]
        /\ Len(pending) \in Nat \ {0} /\ DOMAIN Tail(pending) = 1 .. Len(pending) - 1
        /\ \A k \in 1 .. Len(pending) - 1 : Tail(pending)[k] = pending[k + 1]
        /\ DOMAIN pending = 1 .. Len(pending)
    BY <1>0, <2>1, TailFacts
  <2>3. /\ x \in Messages /\ x.role = "tool" /\ x.ids = <<Head(pending)>>
    <3>1. <<Head(pending)>> \in Seq(Nat)
      BY <2>2
    <3> QED
      BY <3>1, MessageFacts
  <2> HIDE DEF x
  <2>4. \A n \in DOMAIN pending : MadeBefore(messages, pending[n], Len(messages) + 1)
    BY DEF MadeInv
  <2>5. \A call \in Range(x.ids) : MadeBefore(messages, call, Len(messages) + 1)
    <3>1. 1 \in DOMAIN pending
      BY <2>2
    <3>2. Range(x.ids) = {pending[1]}
      BY <2>2, <2>3 DEF Range
    <3> QED
      BY <2>4, <3>1, <3>2
  <2>6. \A n \in DOMAIN pending' :
          MadeBefore(messages', pending'[n], Len(messages') + 1)
    <3> SUFFICES ASSUME NEW n \in 1 .. Len(pending) - 1
                 PROVE  MadeBefore(messages', Tail(pending)[n], Len(messages') + 1)
      BY <2>1, <2>2
    <3>1. n + 1 \in DOMAIN pending /\ Tail(pending)[n] = pending[n + 1]
      BY <2>2
    <3>2. MadeBefore(messages, Tail(pending)[n], Len(messages) + 1)
      BY <2>4, <3>1
    <3>3. Len(messages) + 1 \in 1 .. Len(messages) + 1
      BY <1>0
    <3> QED
      BY <1>0, <2>1, <2>3, <3>2, <3>3, MadeStays
  <2> QED
    BY <1>2, <2>1, <2>3, <2>5, <2>6
<1>5. CASE Panic
  <2>1. /\ pending # <<>> /\ messages' = messages /\ pending' = Tail(pending)
    BY <1>5 DEF Panic
  <2>2. /\ DOMAIN Tail(pending) = 1 .. Len(pending) - 1 /\ Len(pending) \in Nat
        /\ \A k \in 1 .. Len(pending) - 1 : Tail(pending)[k] = pending[k + 1]
        /\ DOMAIN pending = 1 .. Len(pending)
    BY <1>0, <2>1, TailFacts
  <2>3. \A n \in DOMAIN Tail(pending) :
          n + 1 \in DOMAIN pending /\ Tail(pending)[n] = pending[n + 1]
    BY <2>2
  <2> QED
    BY <2>1, <2>3 DEF MadeInv
<1>6. CASE CloseRound
  <2>1. CASE messages' = messages
    BY <1>1, <1>6, <2>1 DEF CloseRound
  <2>2. CASE messages' = Warned
    <3>1. /\ Message("warning", <<>>) \in Messages
          /\ Message("warning", <<>>).role = "warning"
      <4>1. <<>> \in Seq(Nat)
        OBVIOUS
      <4> QED
        BY <4>1, MessageFacts
    <3>2. DOMAIN pending' = {}
      BY <1>6 DEF CloseRound
    <3> QED
      BY <1>2, <2>2, <3>1, <3>2 DEF Warned
  <2> QED
    BY <1>6, <2>1, <2>2 DEF CloseRound
<1>7. CASE Fail \/ Retry \/ Halted \/ UNCHANGED vars
  <2>1. messages' = messages /\ pending' = pending
    BY <1>7 DEF Fail, Retry, Halted, vars
  <2> QED
    BY <1>1, <2>1
<1> QED
  BY <1>3, <1>4, <1>5, <1>6, <1>7 DEF Next

-----------------------------------------------------------------------------
(* Theorems *)

\* The invariant of the executor and that of the conversation hold throughout.
THEOREM ConversationInvariance == ConversationSpec => []ConversationInv
<1>1. IInv /\ ConversationInv /\ [ConversationNext]_all => ConversationInv'
  <2> SUFFICES ASSUME IInv, ConversationInv, [ConversationNext]_all
               PROVE  ConversationInv'
    OBVIOUS
  <2>1. ServerInv'
    BY ServerInvStep DEF ConversationInv, ServerInv
  <2>2. ModelInv'
    BY ModelInvStep DEF ConversationInv
  <2>3. MadeInv'
    BY ExecutorSteps, MadeStep DEF ConversationInv, IInv
  <2> QED
    BY <2>1, <2>2, <2>3 DEF ConversationInv, ServerInv
<1> QED
  BY <1>1, InitConversation, ExecutorInvariance, PTL DEF ConversationSpec

\* An answer is never given to an earlier call than the one it answers, nor
\* given twice, and it comes late by no more calls than the lines the server
\* wrote unasked; a tool that was offered is one its integration can serve.
THEOREM AnswersAreMatched == ConversationSpec => []AnswersMatch
<1>1. ConversationInv => AnswersMatch
  BY DEF ConversationInv
<1> QED
  BY <1>1, ConversationInvariance, PTL

\* A request that holds the results of calls holds the calls as well, and the
\* other way around, but for ChatGPT's.
LEMMA UsesAndAnswers ==
  ASSUME NEW p \in Providers, p # "chatgpt"
  PROVE  Requests[p].uses = Requests[p].answers
<1>1. p \in {"anthropic", "openai", "compat", "copilot", "google", "bedrock",
             "ollama"}
  BY DEF Providers, Requests
<1>2. /\ Requests.anthropic = AnthropicRequest /\ Requests.openai = OpenAIRequest
      /\ Requests.compat = CompatRequest /\ Requests.copilot = CopilotRequest
      /\ Requests.google = GoogleRequest /\ Requests.bedrock = BedrockRequest
      /\ Requests.ollama = OllamaRequest
  BY DEF Requests
<1>3. /\ AnthropicRequest.uses = AnthropicRequest.answers
      /\ OpenAIRequest.uses = OpenAIRequest.answers
      /\ CompatRequest.uses = CompatRequest.answers
      /\ CopilotRequest.uses = CopilotRequest.answers
      /\ GoogleRequest.uses = GoogleRequest.answers
      /\ BedrockRequest.uses = BedrockRequest.answers
      /\ OllamaRequest.uses = OllamaRequest.answers
  BY DEF AnthropicRequest, OpenAIRequest, CompatRequest, CopilotRequest,
         GoogleRequest, BedrockRequest, OllamaRequest
<1> QED
  BY <1>1, <1>2, <1>3

\* Every request is one its service can accept: it names a listed model, each
\* call in it is followed by its answers in order, and each answer by its call.
THEOREM WireIsAccepted == ConversationSpec => []WireAccepted
<1>1. IInv /\ CallsAnswered /\ ConversationInv => WireAccepted
  <2> SUFFICES ASSUME IInv, CallsAnswered, ConversationInv, stage = "run", pc = "call"
               PROVE  WireAccepted
    BY DEF WireAccepted
  <2>1. models # <<>> => model \in Range(models)
    BY DEF ConversationInv, ModelInv
  <2>2. ASSUME provider # "chatgpt"
        PROVE  LET wire == Wire(Requests[provider], messages) IN
               \A k \in DOMAIN wire :
                 /\ \A n \in DOMAIN wire[k].uses :
                      /\ k + n \in DOMAIN wire
                      /\ wire[k + n].answers = <<wire[k].uses[n]>>
                 /\ \A id \in Range(wire[k].answers) :
                      \E j \in 1..(k - 1) : id \in Range(wire[j].uses)
    <3> DEFINE r == Requests[provider]
               wire == Wire(r, messages)
    <3>1. r.uses = r.answers
      BY <2>2, UsesAndAnswers DEF ConversationInv, ServerTypes
    <3>2. /\ DOMAIN wire = DOMAIN messages
          /\ \A k \in DOMAIN messages :
               /\ wire[k].uses = IF messages[k].role = "assistant" /\ r.uses
                                 THEN messages[k].ids ELSE <<>>
               /\ wire[k].answers = IF messages[k].role = "tool" /\ r.answers
                                    THEN messages[k].ids ELSE <<>>
      BY DEF Wire
    <3> HIDE DEF r, wire
    <3>4. DOMAIN messages = 1 .. Len(messages) /\ Len(messages) \in Nat
      BY MessagesType DEF IInv
    <3> SUFFICES ASSUME NEW k \in DOMAIN messages
                 PROVE  /\ \A n \in DOMAIN wire[k].uses :
                             /\ k + n \in DOMAIN wire
                             /\ wire[k + n].answers = <<wire[k].uses[n]>>
                        /\ \A id \in Range(wire[k].answers) :
                             \E j \in 1..(k - 1) : id \in Range(wire[j].uses)
      BY <3>2 DEF r, wire
    <3>5. ASSUME NEW n \in DOMAIN wire[k].uses
          PROVE  /\ k + n \in DOMAIN wire
                 /\ wire[k + n].answers = <<wire[k].uses[n]>>
      <4>1. /\ messages[k].role = "assistant" /\ r.uses
            /\ wire[k].uses = messages[k].ids
        BY <3>2, <3>5
      <4>2. /\ k + n \in DOMAIN messages
            /\ messages[k + n] = Message("tool", <<messages[k].ids[n]>>)
        BY <4>1 DEF CallsAnswered
      <4>3. /\ messages[k + n].role = "tool"
            /\ messages[k + n].ids = <<messages[k].ids[n]>>
        BY <4>2 DEF Message
      <4> QED
        BY <3>1, <3>2, <4>1, <4>2, <4>3
    <3>6. ASSUME NEW id \in Range(wire[k].answers)
          PROVE  \E j \in 1..(k - 1) : id \in Range(wire[j].uses)
      <4>1. /\ messages[k].role = "tool" /\ r.answers
            /\ wire[k].answers = messages[k].ids
        <5>1. Range(<<>>) = {}
          BY DEF Range
        <5> QED
          BY <3>2, <3>6, <5>1
      <4>2. MadeBefore(messages, id, k)
        BY <3>6, <4>1 DEF ConversationInv, MadeInv
      <4>3. PICK j \in DOMAIN messages : /\ j < k /\ messages[j].role = "assistant"
                                         /\ id \in Range(messages[j].ids)
        BY <4>2 DEF MadeBefore
      <4>4. j \in 1 .. k - 1
        BY <3>4, <4>3
      <4>5. wire[j].uses = messages[j].ids
        BY <3>1, <3>2, <4>1, <4>3
      <4> QED
        BY <4>3, <4>4, <4>5
    <3> QED
      BY <3>5, <3>6
  <2> QED
    BY <2>1, <2>2 DEF WireAccepted
<1> QED
  BY <1>1, IsExecution, CallsAreAnswered, ExecutorInvariance,
     ConversationInvariance, PTL

=============================================================================
