-------------------------- MODULE DaemonLoopProofs --------------------------
(***************************************************************************)
(* Theorems about DaemonLoop for any mentions, messages, tasks, patterns   *)
(* and schedules, any capacity of the channel and any number of ticks.     *)
(***************************************************************************)
EXTENDS DaemonLoop, SequenceTheorems, TLAPS

-----------------------------------------------------------------------------
(* The inductive invariant *)

\* A batch is open only while one of its tasks runs; a mention is run only when
\* it may be, and delivered with the answer that fits it.
PhaseInv ==
  /\ pc \in {"select", "deliver"} => batch = <<>>
  /\ pc = "task" /\ job \in Mentions =>
       batch = <<>> /\ job \notin Commands /\ autoExecute
  /\ pc = "deliver" => job \in Mentions /\ answer = Fitting(job)

\* An event is at one place.
EventInv ==
  /\ \A k \in DOMAIN inbox : inbox[k] \notin coming
  /\ \A j, k \in DOMAIN inbox : inbox[j] = inbox[k] => j = k

\* m has not been taken from the channel.
Ahead(m) == m \in coming \/ \E k \in DOMAIN inbox : inbox[k] = m

\* Nothing was said of a mention nobody took.
Untouched(m) == Ahead(m) => posted[m] = <<>> /\ timer[m] = "off" /\ job # m

\* No answer was given to the mention in hand.
Unanswered(m) ==
  job = m /\ pc \in {"task", "deliver"} =>
    \A k \in DOMAIN posted[m] : posted[m][k] = "working"

\* No notice was posted while the timer that would post it is on.
NoNotice(m) ==
  timer[m] # "off" => \A k \in DOMAIN posted[m] : posted[m][k] # "working"

\* The timer of a task that is over finds the flag set.
FlagSet(m) ==
  timer[m] \in {"asleep", "woken"} /\ ~notified[m] /\ pc \notin Over =>
    pc = "task" /\ job = m

MentionInv ==
  \A m \in Mentions : Untouched(m) /\ Unanswered(m) /\ NoNotice(m) /\ FlagSet(m)

\* While an answer is delivered, the webhook of its task is to come.
HookInv ==
  pc = "deliver" =>
    IF answer \in {"complete", "failed"}
    THEN Len(ended) = Len(hooks) + 1 /\ ended[Len(ended)].task = job
    ELSE Len(ended) = Len(hooks)

\* A task is accepted once.
DistinctInv ==
  \A a, b \in DOMAIN accepted : accepted[a] = accepted[b] => a = b

\* No task of the API is taken twice.
NoTaskTwice ==
  \A j, k \in DOMAIN Taken :
    Taken[j] = Taken[k] /\ Taken[j] \in ApiTasks => j = k

IInv ==
  /\ TypeOK
  /\ PhaseInv
  /\ EventInv
  /\ MentionInv
  /\ HookInv
  /\ DistinctInv
  /\ AcceptedInOrder
  /\ OneAnswer
  /\ HooksFollowTasks

-----------------------------------------------------------------------------
(* Sequences *)

\* What appending leaves of a sequence.
LEMMA AppendFacts ==
  ASSUME NEW S, NEW s \in Seq(S), NEW x \in S
  PROVE  /\ Append(s, x) \in Seq(S)
         /\ Len(Append(s, x)) = Len(s) + 1
         /\ DOMAIN Append(s, x) = 1..(Len(s) + 1)
         /\ DOMAIN s = 1..Len(s)
         /\ Len(s) \in Nat
         /\ \A k \in 1..Len(s) : Append(s, x)[k] = s[k]
         /\ Append(s, x)[Len(s) + 1] = x
  OBVIOUS

LEMMA SequenceIsFunction ==
  ASSUME NEW S, NEW s \in Seq(S)
  PROVE  s \in [1..Len(s) -> S] /\ \A k \in 1..Len(s) : s[k] \in S
  OBVIOUS

\* What taking the first element leaves of one.
LEMMA TailFacts ==
  ASSUME NEW S, NEW s \in Seq(S), s # <<>>
  PROVE  /\ Head(s) \in S
         /\ Head(s) = s[1]
         /\ Tail(s) \in Seq(S)
         /\ Len(s) \in Nat \ {0}
         /\ Len(Tail(s)) = Len(s) - 1
         /\ DOMAIN s = 1..Len(s)
         /\ DOMAIN Tail(s) = 1..(Len(s) - 1)
         /\ \A k \in 1..(Len(s) - 1) : Tail(s)[k] = s[k + 1]
  OBVIOUS

-----------------------------------------------------------------------------
(* Types *)

LEMMA ResultType == Result \in {"complete", "failed"}
  BY DEF Result

LEMMA FittingType == \A m \in Mentions : Fitting(m) \in Answers
  BY ResultType DEF Fitting, Answers

LEMMA PostingType ==
  ASSUME TypeOK, NEW m, NEW text \in Answers \union {"working"},
         posted' \in {posted, [posted EXCEPT ![m] = Append(@, text)]}
  PROVE  posted' \in [Mentions -> Seq(Answers \union {"working"})]
<1>1. \A s \in Seq(Answers \union {"working"}) :
        Append(s, text) \in Seq(Answers \union {"working"})
  BY AppendFacts
<1>2. posted \in [Mentions -> Seq(Answers \union {"working"})]
  BY DEF TypeOK
<1> QED
  BY <1>1, <1>2

LEMMA InitType == Init => TypeOK
<1> SUFFICES ASSUME Init PROVE TypeOK
  OBVIOUS
<1> USE DEF Init, Over
<1>1. inbox \in Seq(Mentions \union Messages) /\ Len(inbox) <= Capacity
  BY DaemonAssumption
<1>2. posted \in [Mentions -> Seq(Answers \union {"working"})]
  OBVIOUS
<1>3. hooks \in Seq({Hook(r, w) : r \in {"complete", "failed"}, w \in Work})
  OBVIOUS
<1>4. ticks \in 0..MaxTicks
  BY DaemonAssumption
<1>5. /\ queue \in Seq(ApiTasks)
      /\ accepted \in Seq(ApiTasks)
      /\ batch \in Seq(ApiTasks \union Range(Patterns))
      /\ ended \in Seq([task : Work, calls : Fates])
  OBVIOUS
<1>6. /\ timer \in [Mentions -> {"off", "asleep", "woken", "sending", "cut"}]
      /\ notified \in [Mentions -> BOOLEAN]
  OBVIOUS
<1>7. /\ pc \in {"select", "batch", "task", "deliver"} \union Over
      /\ coming \subseteq Mentions \union Messages
      /\ minute \in Minutes \union {None}
      /\ job \in Work \union {None}
      /\ pc \in {"task", "deliver"} => job \in Work
      /\ pc \in {"select", "batch"} => job = None
      /\ answer \in Answers \union {"none"}
  OBVIOUS
<1>8. autoExecute \in BOOLEAN /\ maxIterations \in Limits /\ signal \in BOOLEAN
  OBVIOUS
<1> QED
  BY <1>1, <1>2, <1>3, <1>4, <1>5, <1>6, <1>7, <1>8 DEF TypeOK

LEMMA TypeStep == TypeOK /\ PhaseInv /\ [Next]_vars => TypeOK'
<1> SUFFICES ASSUME TypeOK, PhaseInv, [Next]_vars PROVE TypeOK'
  OBVIOUS
<1> USE DEF Over
<1>1. ASSUME NEW e \in coming, EventArrives(e) PROVE TypeOK'
  <2>1. e \in Mentions \union Messages
    BY DEF TypeOK
  <2>2. inbox' \in Seq(Mentions \union Messages) /\ Len(inbox') = Len(inbox) + 1
    BY <1>1, <2>1, AppendFacts DEF EventArrives, TypeOK
  <2>3. Len(inbox') <= Capacity
    BY <1>1, <2>2, DaemonAssumption DEF EventArrives, TypeOK
  <2> QED
    BY <1>1, <2>2, <2>3 DEF EventArrives, TypeOK, inputs, handling, outputs, notices
<1>2. ASSUME NEW t \in ApiTasks, CreateTask(t) PROVE TypeOK'
  BY <1>2 DEF CreateTask, TypeOK, inputs, handling, outputs, notices
<1>3. CASE PressCtrlC \/ Kill \/ Shutdown
  <2>1. CASE PressCtrlC
    BY <2>1 DEF PressCtrlC, TypeOK, inputs, handling, outputs, notices
  <2>2. CASE Kill
    BY <2>2 DEF Kill, TypeOK, inputs, handling, outputs, notices
  <2>3. CASE Shutdown
    BY <2>3 DEF Shutdown, TypeOK, inputs, handling, outputs, notices
  <2> QED
    BY <1>3, <2>1, <2>2, <2>3
<1>4. CASE RecvEvent
  <2>1. /\ Head(inbox) \in Mentions \union Messages
        /\ inbox' \in Seq(Mentions \union Messages)
        /\ Len(inbox') <= Capacity
    BY <1>4, TailFacts, DaemonAssumption DEF RecvEvent, TypeOK
  <2>2. timer' \in [Mentions -> {"off", "asleep", "woken", "sending", "cut"}]
    BY <1>4 DEF RecvEvent, TypeOK
  <2>3. /\ job' \in Work \union {None}
        /\ pc' \in {"task", "deliver"} => job' \in Work
        /\ pc' \in {"select", "batch"} => job' = None
        /\ answer' \in Answers \union {"none"}
        /\ pc' \in {"select", "batch", "task", "deliver"} \union Over
    <3>1. CASE Head(inbox) \in Messages /\ UNCHANGED <<pc, job, answer, timer>>
      BY <3>1 DEF TypeOK
    <3>2. CASE /\ Head(inbox) \in Mentions
               /\ pc' = "deliver"
               /\ job' = Head(inbox)
               /\ answer' \in {"report", "disabled"}
      BY <3>2 DEF Work, Answers
    <3>3. CASE /\ Head(inbox) \in Mentions
               /\ pc' = "task"
               /\ job' = Head(inbox)
               /\ UNCHANGED answer
      BY <3>3 DEF TypeOK, Work
    <3> QED
      BY <1>4, <3>1, <3>2, <3>3 DEF RecvEvent
  <2> QED
    BY <1>4, <2>1, <2>2, <2>3 DEF RecvEvent, TypeOK, inputs, outputs
<1>5. CASE CronTick
  BY <1>5, DaemonAssumption DEF CronTick, Handle, TypeOK, inputs, outputs, notices
<1>6. CASE QueueTick
  BY <1>6 DEF QueueTick, Handle, TypeOK, inputs, outputs, notices
<1>7. CASE NextJob
  BY <1>7, TailFacts DEF NextJob, TypeOK, Work, inputs, outputs, notices
<1>8. CASE SkipPattern
  BY <1>8, TailFacts DEF SkipPattern, TypeOK, inputs, outputs, notices
<1>9. CASE EndBatch
  BY <1>9 DEF EndBatch, TypeOK, inputs, outputs, notices
<1>10. CASE TaskEnds
  <2>1. ended' \in Seq([task : Work, calls : Fates])
    <3>1. PICK calls \in Fates :
            ended' = Append(ended, [task |-> job, calls |-> calls])
      BY <1>10 DEF TaskEnds
    <3>2. [task |-> job, calls |-> calls] \in [task : Work, calls : Fates]
      BY <1>10 DEF TaskEnds, TypeOK
    <3> QED
      BY <3>1, <3>2 DEF TypeOK
  <2>2. hooks' \in Seq({Hook(r, w) : r \in {"complete", "failed"}, w \in Work})
    <3>1. Hook(Result, job)
            \in {Hook(r, w) : r \in {"complete", "failed"}, w \in Work}
      BY <1>10, ResultType DEF TaskEnds, TypeOK
    <3>2. hooks' = hooks \/ hooks' = Append(hooks, Hook(Result, job))
      BY <1>10 DEF TaskEnds
    <3> QED
      <4>1. hooks \in Seq({Hook(r, w) : r \in {"complete", "failed"}, w \in Work})
        BY DEF TypeOK
      <4> QED
        BY <3>1, <3>2, <4>1, AppendFacts
  <2>3. /\ timer' \in [Mentions -> {"off", "asleep", "woken", "sending", "cut"}]
        /\ notified' \in [Mentions -> BOOLEAN]
    <3>1. CASE UNCHANGED notices
      BY <3>1 DEF TypeOK, notices
    <3>2. CASE /\ notified' = [notified EXCEPT ![job] = TRUE]
               /\ timer' = [timer EXCEPT ![job] = Aborted(@)]
      <4>1. notified' \in [Mentions -> BOOLEAN]
        <5>1. notified \in [Mentions -> BOOLEAN]
          BY DEF TypeOK
        <5> QED
          BY <3>2, <5>1
      <4>2. \A state \in {"off", "asleep", "woken", "sending", "cut"} :
              Aborted(state) \in {"off", "asleep", "woken", "sending", "cut"}
        BY DEF Aborted
      <4> QED
        <5>1. timer \in [Mentions -> {"off", "asleep", "woken", "sending", "cut"}]
          BY DEF TypeOK
        <5>2. timer' \in [Mentions -> {"off", "asleep", "woken", "sending", "cut"}]
          BY <3>2, <4>2, <5>1
        <5> QED
          BY <4>1, <5>2
    <3> QED
      BY <1>10, <3>1, <3>2 DEF TaskEnds
  <2>4. answer' \in Answers \union {"none"}
    BY <1>10, ResultType DEF TaskEnds, TypeOK, Answers
  <2>5. /\ job' \in Work \union {None}
        /\ pc' \in {"task", "deliver"} => job' \in Work
        /\ pc' \in {"select", "batch"} => job' = None
        /\ pc' \in {"select", "batch", "task", "deliver"} \union Over
    BY <1>10 DEF TaskEnds, TypeOK, Work
  <2> QED
    BY <1>10, <2>1, <2>2, <2>3, <2>4, <2>5 DEF TaskEnds, TypeOK, inputs
<1>11. CASE Deliver
  <2>1. posted' \in [Mentions -> Seq(Answers \union {"working"})]
    <3>1. answer \in Answers \union {"working"}
      BY <1>11, FittingType DEF Deliver, PhaseInv
    <3> QED
      BY <1>11, <3>1, PostingType DEF Deliver
  <2>2. hooks' \in Seq({Hook(r, w) : r \in {"complete", "failed"}, w \in Work})
    <3>1. answer \in {"complete", "failed"} =>
            Hook(answer, job)
              \in {Hook(r, w) : r \in {"complete", "failed"}, w \in Work}
      BY <1>11 DEF Deliver, TypeOK
    <3> QED
      BY <1>11, <3>1 DEF Deliver, TypeOK
  <2> QED
    BY <1>11, <2>1, <2>2 DEF Deliver, TypeOK, inputs, notices
<1>12. ASSUME NEW m \in Mentions, TimerWakes(m) \/ TimerSwaps(m) \/ TimerSent(m)
       PROVE  TypeOK'
  <2>1. CASE TimerWakes(m)
    BY <2>1 DEF TimerWakes, TypeOK, inputs, handling, outputs
  <2>2. CASE TimerSwaps(m)
    BY <2>2 DEF TimerSwaps, TypeOK, inputs, handling, outputs
  <2>3. CASE TimerSent(m)
    <3>1. posted' \in [Mentions -> Seq(Answers \union {"working"})]
      BY <2>3, PostingType DEF TimerSent
    <3>2. timer' \in [Mentions -> {"off", "asleep", "woken", "sending", "cut"}]
      BY <2>3 DEF TimerSent, TypeOK
    <3> QED
      BY <2>3, <3>1, <3>2 DEF TimerSent, TypeOK, inputs, handling
  <2> QED
    BY <1>12, <2>1, <2>2, <2>3
<1>13. CASE UNCHANGED vars
  BY <1>13 DEF vars, TypeOK, inputs, handling, outputs, notices
<1> QED
  BY <1>1, <1>2, <1>3, <1>4, <1>5, <1>6, <1>7, <1>8, <1>9, <1>10, <1>11,
     <1>12, <1>13 DEF Next, Halted
-----------------------------------------------------------------------------
(* Phases *)

LEMMA PhaseStep == TypeOK /\ PhaseInv /\ [Next]_vars => PhaseInv'
<1> SUFFICES ASSUME TypeOK, PhaseInv, [Next]_vars PROVE PhaseInv'
  OBVIOUS
<1> USE DEF Over
<1>1. ASSUME UNCHANGED <<inputs, handling>> PROVE PhaseInv'
  BY <1>1 DEF PhaseInv, inputs, handling, Fitting, Result
<1>2. CASE Kill \/ Shutdown
  BY <1>2 DEF Kill, Shutdown, PhaseInv
<1>3. CASE RecvEvent
  <2>1. batch' = <<>>
    BY <1>3 DEF RecvEvent, PhaseInv
  <2>2. CASE pc' = "deliver"
    BY <1>3, <2>1, <2>2 DEF RecvEvent, PhaseInv, Fitting, inputs
  <2>3. CASE pc' = "task"
    BY <1>3, <2>1, <2>3 DEF RecvEvent, PhaseInv, inputs
  <2> QED
    BY <1>3, <2>1, <2>2, <2>3 DEF RecvEvent, PhaseInv
<1>4. CASE CronTick \/ QueueTick \/ SkipPattern
  BY <1>4 DEF CronTick, QueueTick, Handle, SkipPattern, PhaseInv
<1>5. CASE NextJob
  <2>1. job' \in ApiTasks \union Range(Patterns)
    BY <1>5, TailFacts DEF NextJob, TypeOK
  <2> QED
    BY <1>5, <2>1, DaemonAssumption DEF NextJob, PhaseInv
<1>6. CASE EndBatch
  BY <1>6 DEF EndBatch, PhaseInv
<1>7. CASE TaskEnds
  BY <1>7 DEF TaskEnds, PhaseInv, Fitting, Result, inputs
<1>8. CASE Deliver
  BY <1>8 DEF Deliver, PhaseInv
<1>9. CASE \E m \in Mentions : TimerWakes(m) \/ TimerSwaps(m) \/ TimerSent(m)
  BY <1>1, <1>9 DEF TimerWakes, TimerSwaps, TimerSent
<1>10. CASE \/ \E e \in coming : EventArrives(e)
            \/ \E t \in ApiTasks : CreateTask(t)
            \/ PressCtrlC
            \/ UNCHANGED vars
  BY <1>1, <1>10 DEF EventArrives, CreateTask, PressCtrlC, vars
<1> QED
  BY <1>2, <1>3, <1>4, <1>5, <1>6, <1>7, <1>8, <1>9, <1>10 DEF Next, Halted

-----------------------------------------------------------------------------
(* Events *)

LEMMA EventStep == TypeOK /\ EventInv /\ [Next]_vars => EventInv'
<1> SUFFICES ASSUME TypeOK, EventInv, [Next]_vars PROVE EventInv'
  OBVIOUS
<1>1. ASSUME NEW e \in coming, EventArrives(e) PROVE EventInv'
  <2>1. inbox \in Seq(Mentions \union Messages) /\ e \in Mentions \union Messages
    BY DEF TypeOK
  <2>2. inbox' = Append(inbox, e) /\ coming' = coming \ {e}
    BY <1>1 DEF EventArrives
  <2>3. /\ DOMAIN inbox' = 1..(Len(inbox) + 1)
        /\ DOMAIN inbox = 1..Len(inbox)
        /\ Len(inbox) \in Nat
        /\ \A k \in 1..Len(inbox) : inbox'[k] = inbox[k]
        /\ inbox'[Len(inbox) + 1] = e
    BY <2>1, <2>2, AppendFacts
  <2> QED
    BY <2>2, <2>3 DEF EventInv
<1>2. CASE RecvEvent
  <2>1. inbox' = Tail(inbox) /\ coming' = coming /\ inbox # <<>>
    BY <1>2 DEF RecvEvent
  <2>2. inbox \in Seq(Mentions \union Messages)
    BY DEF TypeOK
  <2>3. /\ DOMAIN inbox' = 1..(Len(inbox) - 1)
        /\ DOMAIN inbox = 1..Len(inbox)
        /\ Len(inbox) \in Nat \ {0}
        /\ \A k \in 1..(Len(inbox) - 1) : inbox'[k] = inbox[k + 1]
    BY <2>1, <2>2, TailFacts
  <2>4. \A k \in 1..(Len(inbox) - 1) : k + 1 \in 1..Len(inbox)
    BY <2>3
  <2> QED
    BY <2>1, <2>3, <2>4 DEF EventInv
<1>3. CASE UNCHANGED <<coming, inbox>>
  BY <1>3 DEF EventInv
<1>4. CASE \/ \E t \in ApiTasks : CreateTask(t)
           \/ PressCtrlC \/ Kill \/ Shutdown
           \/ CronTick \/ QueueTick
           \/ NextJob \/ SkipPattern \/ EndBatch \/ TaskEnds \/ Deliver
           \/ \E m \in Mentions : TimerWakes(m) \/ TimerSwaps(m) \/ TimerSent(m)
           \/ UNCHANGED vars
  BY <1>3, <1>4 DEF CreateTask, PressCtrlC, Kill, Shutdown, CronTick, QueueTick,
     NextJob, SkipPattern, EndBatch, TaskEnds, Deliver, TimerWakes, TimerSwaps,
     TimerSent, vars
<1> QED
  BY <1>1, <1>2, <1>4 DEF Next, Halted

-----------------------------------------------------------------------------
(* Webhooks *)

\* What a webhook fired, or a task ended, leaves of the order between them.
LEMMA HookStep ==
  TypeOK /\ PhaseInv /\ HookInv /\ HooksFollowTasks /\ [Next]_vars
    => HookInv' /\ HooksFollowTasks'
<1> SUFFICES ASSUME TypeOK, PhaseInv, HookInv, HooksFollowTasks, [Next]_vars
             PROVE  HookInv' /\ HooksFollowTasks'
  OBVIOUS
<1> USE DEF Over
<1>t. /\ ended \in Seq([task : Work, calls : Fates])
      /\ hooks \in Seq({Hook(r, w) : r \in {"complete", "failed"}, w \in Work})
      /\ Len(ended) \in Nat
      /\ Len(hooks) \in Nat
      /\ DOMAIN ended = 1..Len(ended)
      /\ DOMAIN hooks = 1..Len(hooks)
  BY DEF TypeOK
<1>1. ASSUME UNCHANGED <<inputs, ended, hooks>>,
             \/ UNCHANGED <<pc, job, answer>>
             \/ pc' \in Over
             \/ pc \notin Over \union {"deliver"} /\ pc' # "deliver"
      PROVE  HookInv' /\ HooksFollowTasks'
  <2>1. HookInv' /\ (pc' \in {"select", "batch", "task"} => Len(hooks) = Len(ended))
    BY <1>1 DEF HookInv, HooksFollowTasks, TypeOK
  <2>2. Result' = Result
    BY <1>1 DEF Result, inputs
  <2> QED
    BY <1>1, <2>1, <2>2 DEF HooksFollowTasks
<1>2. CASE RecvEvent
  <2>1. Len(hooks) = Len(ended)
    BY <1>2 DEF RecvEvent, HooksFollowTasks
  <2>2. HooksFollowTasks'
    BY <1>2, <2>1 DEF RecvEvent, HooksFollowTasks, outputs, inputs, Result
  <2>3. pc' = "deliver" => answer' \in {"report", "disabled"}
    BY <1>2 DEF RecvEvent
  <2> QED
    BY <1>2, <2>1, <2>2, <2>3 DEF RecvEvent, HookInv, outputs
<1>3. CASE TaskEnds
  <2>1. Len(hooks) = Len(ended)
    BY <1>3 DEF TaskEnds, HooksFollowTasks
  <2>2. PICK calls \in Fates :
          ended' = Append(ended, [task |-> job, calls |-> calls])
    BY <1>3 DEF TaskEnds
  <2>3. [task |-> job, calls |-> calls] \in [task : Work, calls : Fates]
    BY <1>3 DEF TaskEnds, TypeOK
  <2>4. /\ Len(ended') = Len(ended) + 1
        /\ \A k \in 1..Len(ended) : ended'[k] = ended[k]
        /\ ended'[Len(ended) + 1].task = job
    BY <2>2, <2>3, <1>t, AppendFacts
  <2>5. CASE job \in Mentions
    <3>1. UNCHANGED <<job, hooks, inputs>> /\ pc' = "deliver" /\ answer' = Result
      BY <1>3, <2>5 DEF TaskEnds
    <3>2. HooksFollowTasks'
      BY <3>1, <2>1, <2>4, <1>t DEF HooksFollowTasks, Result, inputs
    <3>3. HookInv'
      BY <3>1, <2>1, <2>4, <1>t, ResultType DEF HookInv
    <3> QED
      BY <3>2, <3>3
  <2>6. CASE job \notin Mentions
    <3>1. hooks' = Append(hooks, Hook(Result, job)) /\ pc' = "batch" /\ UNCHANGED inputs
      BY <1>3, <2>6 DEF TaskEnds
    <3>2. Hook(Result, job)
            \in {Hook(r, w) : r \in {"complete", "failed"}, w \in Work}
      BY <1>3, ResultType DEF TaskEnds, TypeOK
    <3>3. /\ Len(hooks') = Len(hooks) + 1
          /\ DOMAIN hooks' = 1..(Len(hooks) + 1)
          /\ \A k \in 1..Len(hooks) : hooks'[k] = hooks[k]
          /\ hooks'[Len(hooks) + 1] = Hook(Result, job)
      BY <3>1, <3>2, <1>t, AppendFacts
    <3>4. Result' = Result
      BY <3>1 DEF Result, inputs
    <3>5. HooksFollowTasks'
      BY <3>1, <3>3, <3>4, <2>1, <2>4, <1>t DEF HooksFollowTasks
    <3> QED
      BY <3>1, <3>5 DEF HookInv
  <2> QED
    BY <2>5, <2>6
<1>4. CASE Deliver
  <2>1. pc' = "select" /\ UNCHANGED <<ended, inputs>>
    BY <1>4 DEF Deliver
  <2>2. answer = Fitting(job) /\ job \in Mentions /\ job \in Work
    BY <1>4 DEF Deliver, PhaseInv, Work
  <2>3. Result' = Result
    BY <2>1 DEF Result, inputs
  <2>4. CASE answer \in {"complete", "failed"}
    <3>1. hooks' = Append(hooks, Hook(answer, job))
      BY <1>4, <2>4 DEF Deliver
    <3>2. answer = Result
      BY <2>2, <2>4 DEF Fitting
    <3>3. Hook(answer, job)
            \in {Hook(r, w) : r \in {"complete", "failed"}, w \in Work}
      BY <2>2, <2>4
    <3>4. /\ Len(hooks') = Len(hooks) + 1
          /\ DOMAIN hooks' = 1..(Len(hooks) + 1)
          /\ \A k \in 1..Len(hooks) : hooks'[k] = hooks[k]
          /\ hooks'[Len(hooks) + 1] = Hook(answer, job)
      BY <3>1, <3>3, <1>t, AppendFacts
    <3>5. Len(ended) = Len(hooks) + 1 /\ ended[Len(ended)].task = job
      BY <1>4, <2>4 DEF Deliver, HookInv
    <3>6. HooksFollowTasks'
      <4>1. Len(hooks') = Len(ended')
        BY <2>1, <3>4, <3>5
      <4>2. \A k \in 1..Len(hooks) : hooks'[k] = Hook(Result', ended'[k].task)
        BY <2>1, <2>3, <3>4, <1>t DEF HooksFollowTasks
      <4>3. hooks'[Len(hooks) + 1] = Hook(Result', ended'[Len(hooks) + 1].task)
        BY <2>1, <2>3, <3>2, <3>4, <3>5
      <4>4. \A k \in DOMAIN hooks' : hooks'[k] = Hook(Result', ended'[k].task)
        BY <3>4, <4>2, <4>3, <1>t
      <4> QED
        BY <2>1, <4>1, <4>4, <1>t DEF HooksFollowTasks
    <3> QED
      BY <2>1, <3>6 DEF HookInv
  <2>5. CASE answer \notin {"complete", "failed"}
    <3>1. hooks' = hooks /\ Len(ended) = Len(hooks)
      BY <1>4, <2>5 DEF Deliver, HookInv
    <3> QED
      BY <2>1, <2>3, <3>1 DEF HookInv, HooksFollowTasks
  <2> QED
    BY <2>4, <2>5
<1>5. CASE \/ \E e \in coming : EventArrives(e)
           \/ \E t \in ApiTasks : CreateTask(t)
           \/ PressCtrlC
           \/ \E m \in Mentions : TimerWakes(m) \/ TimerSwaps(m) \/ TimerSent(m)
           \/ UNCHANGED vars
  BY <1>1, <1>5 DEF EventArrives, CreateTask, PressCtrlC, TimerWakes, TimerSwaps,
     TimerSent, handling, outputs, vars
<1>6. CASE Kill \/ Shutdown
  BY <1>1, <1>6 DEF Kill, Shutdown, outputs
<1>7. CASE CronTick \/ QueueTick \/ NextJob \/ SkipPattern \/ EndBatch
  BY <1>1, <1>7 DEF CronTick, QueueTick, NextJob, SkipPattern, EndBatch, Handle, outputs
<1> QED
  BY <1>2, <1>3, <1>4, <1>5, <1>6, <1>7 DEF Next, Halted
-----------------------------------------------------------------------------
(* Mentions *)

\* What a text posted in the thread of m leaves of what was said.
LEMMA PostingFacts ==
  ASSUME TypeOK, NEW m \in Mentions, NEW text \in Answers \union {"working"},
         posted' = [posted EXCEPT ![m] = Append(@, text)]
  PROVE  /\ \A n \in Mentions : n # m => posted'[n] = posted[n]
         /\ DOMAIN posted'[m] = 1..(Len(posted[m]) + 1)
         /\ DOMAIN posted[m] = 1..Len(posted[m])
         /\ Len(posted[m]) \in Nat
         /\ \A k \in 1..Len(posted[m]) : posted'[m][k] = posted[m][k]
         /\ posted'[m][Len(posted[m]) + 1] = text
<1>1. posted \in [Mentions -> Seq(Answers \union {"working"})]
  BY DEF TypeOK
<1>2. posted[m] \in Seq(Answers \union {"working"})
  BY <1>1
<1>3. posted'[m] = Append(posted[m], text)
  BY <1>1
<1>4. \A n \in Mentions : n # m => posted'[n] = posted[n]
  BY <1>1
<1> QED
  BY <1>2, <1>3, <1>4, AppendFacts

\* An event that arrives is still ahead; the one taken no longer is.
LEMMA AheadStep ==
  ASSUME TypeOK, EventInv, NEW m \in Mentions
  PROVE  /\ (\E e \in coming : EventArrives(e)) /\ Ahead(m)' => Ahead(m)
         /\ UNCHANGED <<coming, inbox>> /\ Ahead(m)' => Ahead(m)
         /\ RecvEvent /\ Ahead(m)' => Ahead(m) /\ m # Head(inbox)
         /\ RecvEvent => (Head(inbox) \in Mentions => Ahead(Head(inbox)))
<1>t. inbox \in Seq(Mentions \union Messages) /\ coming \subseteq Mentions \union Messages
  BY DEF TypeOK
<1>1. ASSUME NEW e \in coming, EventArrives(e), Ahead(m)' PROVE Ahead(m)
  <2>1. inbox' = Append(inbox, e) /\ coming' = coming \ {e}
    BY <1>1 DEF EventArrives
  <2>2. /\ DOMAIN inbox' = 1..(Len(inbox) + 1)
        /\ DOMAIN inbox = 1..Len(inbox)
        /\ Len(inbox) \in Nat
        /\ \A k \in 1..Len(inbox) : inbox'[k] = inbox[k]
        /\ inbox'[Len(inbox) + 1] = e
    BY <1>t, <2>1, AppendFacts
  <2> QED
    BY <1>1, <2>1, <2>2 DEF Ahead
<1>2. ASSUME UNCHANGED <<coming, inbox>>, Ahead(m)' PROVE Ahead(m)
  BY <1>2 DEF Ahead
<1>3. ASSUME RecvEvent
      PROVE  /\ Ahead(m)' => Ahead(m) /\ m # Head(inbox)
             /\ Head(inbox) \in Mentions => Ahead(Head(inbox))
  <2>1. inbox' = Tail(inbox) /\ coming' = coming /\ inbox # <<>>
    BY <1>3 DEF RecvEvent
  <2>2. /\ DOMAIN inbox' = 1..(Len(inbox) - 1)
        /\ DOMAIN inbox = 1..Len(inbox)
        /\ Len(inbox) \in Nat \ {0}
        /\ Head(inbox) = inbox[1]
        /\ \A k \in 1..(Len(inbox) - 1) : inbox'[k] = inbox[k + 1]
    BY <2>1, <1>t, TailFacts
  <2>3. \A k \in 1..(Len(inbox) - 1) : k + 1 \in 1..Len(inbox) /\ k + 1 # 1
    BY <2>2
  <2>4. 1 \in DOMAIN inbox
    BY <2>2
  <2>5. ASSUME Ahead(m)' PROVE Ahead(m) /\ m # Head(inbox)
    <3>1. CASE m \in coming
      BY <2>1, <2>2, <2>4, <3>1 DEF Ahead, EventInv
    <3>2. CASE m \notin coming
      <4>1. PICK k \in 1..(Len(inbox) - 1) : inbox[k + 1] = m
        BY <2>1, <2>2, <2>5, <3>2 DEF Ahead
      <4>2. inbox[1] # m
        BY <2>2, <2>3, <2>4, <4>1 DEF EventInv
      <4> QED
        BY <2>2, <2>3, <4>1, <4>2 DEF Ahead
    <3> QED
      BY <3>1, <3>2
  <2> QED
    BY <2>2, <2>4, <2>5 DEF Ahead
<1> QED
  BY <1>1, <1>2, <1>3

LEMMA MentionStep ==
  TypeOK /\ PhaseInv /\ EventInv /\ MentionInv /\ [Next]_vars => MentionInv'
<1> SUFFICES ASSUME TypeOK, PhaseInv, EventInv, MentionInv, [Next]_vars,
                    NEW m \in Mentions
             PROVE  (Untouched(m) /\ Unanswered(m) /\ NoNotice(m) /\ FlagSet(m))'
  BY DEF MentionInv
<1> USE DEF Over
<1>m. /\ m # None
      /\ Untouched(m) /\ Unanswered(m) /\ NoNotice(m) /\ FlagSet(m)
  BY DaemonAssumption DEF MentionInv
<1>t. /\ timer \in [Mentions -> {"off", "asleep", "woken", "sending", "cut"}]
      /\ notified \in [Mentions -> BOOLEAN]
      /\ posted \in [Mentions -> Seq(Answers \union {"working"})]
  BY DEF TypeOK
<1> DEFINE Goal == (Untouched(m) /\ Unanswered(m) /\ NoNotice(m) /\ FlagSet(m))'
<1>1. ASSUME UNCHANGED <<posted[m], timer[m], notified[m]>>,
             Ahead(m)' => Ahead(m),
             job' = m => job = m,
             job' = m /\ pc' \in {"task", "deliver"} => pc' = pc,
             pc \in Over => pc' \in Over,
             pc = "task" => UNCHANGED <<pc, job>> \/ pc' \in Over \/ job # m
      PROVE  Goal
  BY <1>1, <1>m DEF Untouched, Unanswered, NoNotice, FlagSet
<1>2. ASSUME UNCHANGED <<posted, notices, job, pc>>, Ahead(m)' => Ahead(m)
      PROVE  Goal
  BY <1>1, <1>2 DEF notices
<1>3. CASE \E e \in coming : EventArrives(e)
  BY <1>2, <1>3, AheadStep DEF EventArrives, outputs, handling
<1>4. CASE (\E t \in ApiTasks : CreateTask(t)) \/ PressCtrlC \/ UNCHANGED vars
  BY <1>2, <1>4, AheadStep DEF CreateTask, PressCtrlC, outputs, handling, vars
<1>5. CASE Kill \/ Shutdown
  BY <1>1, <1>5, AheadStep DEF Kill, Shutdown, outputs, notices
<1>6. CASE CronTick \/ QueueTick \/ SkipPattern \/ EndBatch
  BY <1>1, <1>6, AheadStep DEF CronTick, QueueTick, Handle, SkipPattern, EndBatch,
     outputs, notices
<1>7. CASE NextJob
  <2>1. job' # m
    BY <1>7, TailFacts, DaemonAssumption DEF NextJob, TypeOK
  <2> QED
    BY <1>1, <1>7, <2>1, AheadStep DEF NextJob, outputs, notices
<1>8. CASE RecvEvent
  <2>1. /\ pc = "select"
        /\ UNCHANGED <<posted, notified>>
        /\ \A n \in Mentions : Ahead(n)' => Ahead(n) /\ n # Head(inbox)
        /\ Head(inbox) \in Mentions => Ahead(Head(inbox))
    BY <1>8, AheadStep DEF RecvEvent, outputs
  <2>2. CASE Head(inbox) \in Messages /\ UNCHANGED <<pc, job, answer, timer>>
    BY <1>2, <2>1, <2>2 DEF notices
  <2>3. CASE /\ Head(inbox) \in Mentions
             /\ job' = Head(inbox)
             /\ pc' = "deliver"
             /\ UNCHANGED timer
    <3>1. CASE m = Head(inbox)
      BY <1>m, <2>1, <2>3, <3>1 DEF Untouched, Unanswered, NoNotice, FlagSet
    <3>2. CASE m # Head(inbox)
      BY <1>1, <2>1, <2>3, <3>2
    <3> QED
      BY <3>1, <3>2
  <2>4. CASE /\ Head(inbox) \in Mentions
             /\ job' = Head(inbox)
             /\ pc' = "task"
             /\ timer' = [timer EXCEPT ![Head(inbox)] = "asleep"]
    <3>1. CASE m = Head(inbox)
      BY <1>m, <1>t, <2>1, <2>4, <3>1 DEF Untouched, Unanswered, NoNotice, FlagSet
    <3>2. CASE m # Head(inbox)
      BY <1>1, <1>t, <2>1, <2>4, <3>2
    <3> QED
      BY <3>1, <3>2
  <2> QED
    BY <1>8, <2>2, <2>3, <2>4 DEF RecvEvent
<1>9. CASE TaskEnds
  <2>1. pc = "task" /\ UNCHANGED <<coming, inbox, posted>>
    BY <1>9 DEF TaskEnds
  <2>2. Ahead(m)' => Ahead(m)
    BY <2>1, AheadStep
  <2>3. CASE job = m
    <3>1. /\ job' = m /\ pc' = "deliver"
          /\ notified'[m] = TRUE
          /\ timer[m] = "off" => timer'[m] = "off"
      BY <1>9, <1>t, <2>3 DEF TaskEnds, Aborted
    <3> QED
      BY <1>m, <2>1, <2>2, <2>3, <3>1 DEF Untouched, Unanswered, NoNotice, FlagSet
  <2>4. CASE job # m
    <3>1. timer'[m] = timer[m] /\ notified'[m] = notified[m] /\ job' # m
      BY <1>9, <1>m, <1>t, <2>4 DEF TaskEnds, notices
    <3> QED
      BY <1>1, <2>1, <2>2, <2>4, <3>1
  <2> QED
    BY <2>3, <2>4
<1>10. CASE Deliver
  <2>1. /\ pc = "deliver" /\ pc' = "select" /\ job' = None
        /\ UNCHANGED <<coming, inbox, timer, notified>>
    BY <1>10 DEF Deliver, notices
  <2>2. Ahead(m)' => Ahead(m)
    BY <2>1, AheadStep
  <2>3. job \in Mentions /\ answer \in Answers
    BY <2>1, FittingType DEF PhaseInv
  <2>4. CASE posted'[m] = posted[m]
    BY <1>1, <1>m, <2>1, <2>2, <2>4
  <2>5. CASE posted' = [posted EXCEPT ![job] = Append(@, answer)] /\ m # job
    <3>1. posted'[m] = posted[m]
      BY <2>3, <2>5, PostingFacts
    <3> QED
      BY <2>4, <3>1
  <2>6. CASE posted' = [posted EXCEPT ![job] = Append(@, answer)] /\ m = job
    <3>1. answer # "working"
      BY <2>3 DEF Answers
    <3>2. /\ DOMAIN posted'[m] = 1..(Len(posted[m]) + 1)
          /\ DOMAIN posted[m] = 1..Len(posted[m])
          /\ Len(posted[m]) \in Nat
          /\ \A k \in 1..Len(posted[m]) : posted'[m][k] = posted[m][k]
          /\ posted'[m][Len(posted[m]) + 1] = answer
      BY ZenonT(40), <2>3, <2>6, PostingFacts
    <3>3. NoNotice(m)'
      BY <1>m, <2>1, <3>1, <3>2 DEF NoNotice
    <3>4. ~Ahead(m)'
      BY <1>m, <2>2, <2>6 DEF Untouched
    <3> QED
      BY <1>m, <2>1, <3>3, <3>4 DEF Untouched, Unanswered, FlagSet
  <2> QED
    BY <1>10, <2>4, <2>5, <2>6 DEF Deliver
<1>11. ASSUME NEW n \in Mentions, TimerWakes(n) \/ TimerSwaps(n) \/ TimerSent(n)
       PROVE  Goal
  <2>1. /\ UNCHANGED <<job, pc>>
        /\ UNCHANGED <<coming, inbox>>
        /\ timer[n] # "off"
    BY <1>11 DEF TimerWakes, TimerSwaps, TimerSent, handling
  <2>2. Ahead(m)' => Ahead(m)
    BY <2>1, AheadStep
  <2>3. CASE m # n
    <3>1. posted'[m] = posted[m] /\ timer'[m] = timer[m] /\ notified'[m] = notified[m]
      BY <1>11, <1>t, <2>3 DEF TimerWakes, TimerSwaps, TimerSent, outputs
    <3> QED
      BY <1>1, <2>1, <2>2, <3>1
  <2>4. CASE m = n /\ posted' = posted
    <3>1. /\ timer'[m] \in {"asleep", "woken"} /\ ~notified'[m] =>
               timer[m] \in {"asleep", "woken"} /\ ~notified[m]
      BY <1>11, <1>t, <2>4 DEF TimerWakes, TimerSwaps, TimerSent
    <3> QED
      BY <1>m, <2>1, <2>2, <2>4, <3>1 DEF Untouched, Unanswered, NoNotice, FlagSet
  <2>5. CASE /\ m = n /\ TimerSent(m)
             /\ posted' = [posted EXCEPT ![m] = Append(@, "working")]
    <3>1. /\ DOMAIN posted'[m] = 1..(Len(posted[m]) + 1)
          /\ DOMAIN posted[m] = 1..Len(posted[m])
          /\ Len(posted[m]) \in Nat
          /\ \A k \in 1..Len(posted[m]) : posted'[m][k] = posted[m][k]
          /\ posted'[m][Len(posted[m]) + 1] = "working"
      <4>1. "working" \in Answers \union {"working"}
        OBVIOUS
      <4>2. posted' = [posted EXCEPT ![m] = Append(@, "working")]
        BY <2>5
      <4> QED
        BY <4>1, <4>2, PostingFacts
    <3>2. timer'[m] = "off"
      BY <1>t, <2>5 DEF TimerSent
    <3>3. Unanswered(m)'
      BY <1>m, <2>1, <3>1 DEF Unanswered
    <3>4. ~Ahead(m)'
      BY <1>m, <2>1, <2>2, <2>5 DEF Untouched
    <3> QED
      BY <3>2, <3>3, <3>4 DEF Untouched, NoNotice, FlagSet
  <2> QED
    BY <1>11, <2>3, <2>4, <2>5 DEF TimerWakes, TimerSwaps, TimerSent, outputs
<1> QED
  BY <1>3, <1>4, <1>5, <1>6, <1>7, <1>8, <1>9, <1>10, <1>11 DEF Next, Halted

\* Posts: an answer after nothing but notices, a notice after nothing like it.
LEMMA AnswerStep ==
  TypeOK /\ PhaseInv /\ MentionInv /\ OneAnswer /\ [Next]_vars => OneAnswer'
<1> SUFFICES ASSUME TypeOK, PhaseInv, MentionInv, OneAnswer, [Next]_vars
             PROVE  OneAnswer'
  OBVIOUS
<1>1. UNCHANGED inputs => \A m \in Mentions : Fitting(m)' = Fitting(m)
  BY DEF Fitting, Result, inputs
<1>2. ASSUME UNCHANGED <<inputs, posted>> PROVE OneAnswer'
  BY <1>1, <1>2 DEF OneAnswer
<1>3. ASSUME UNCHANGED inputs,
             NEW m \in Mentions, NEW text \in Answers \union {"working"},
             posted' \in {posted, [posted EXCEPT ![m] = Append(@, text)]},
             text \in {"working", Fitting(m)},
             \A k \in DOMAIN posted[m] : posted[m][k] # text
      PROVE  OneAnswer'
  <2>1. CASE posted' = posted
    BY <1>2, <1>3, <2>1
  <2>2. CASE posted' = [posted EXCEPT ![m] = Append(@, text)]
    <3>1. /\ \A n \in Mentions : n # m => posted'[n] = posted[n]
          /\ DOMAIN posted'[m] = 1..(Len(posted[m]) + 1)
          /\ DOMAIN posted[m] = 1..Len(posted[m])
          /\ Len(posted[m]) \in Nat
          /\ \A k \in 1..Len(posted[m]) : posted'[m][k] = posted[m][k]
          /\ posted'[m][Len(posted[m]) + 1] = text
      BY <2>2, PostingFacts
    <3>2. Fitting(m)' = Fitting(m)
      BY <1>1, <1>3
    <3>3. \A k \in DOMAIN posted'[m] : posted'[m][k] \in {"working", Fitting(m)'}
      BY <1>3, <3>1, <3>2 DEF OneAnswer
    <3>4. \A j, k \in DOMAIN posted'[m] : posted'[m][j] = posted'[m][k] => j = k
      BY SMTT(30), <1>3, <3>1 DEF OneAnswer
    <3>5. ASSUME NEW n \in Mentions, n # m
          PROVE  /\ \A k \in DOMAIN posted'[n] : posted'[n][k] \in {"working", Fitting(n)'}
                 /\ \A j, k \in DOMAIN posted'[n] : posted'[n][j] = posted'[n][k] => j = k
      BY <1>1, <1>3, <3>1, <3>5 DEF OneAnswer
    <3> QED
      BY <3>3, <3>4, <3>5 DEF OneAnswer
  <2> QED
    BY <1>3, <2>1, <2>2
<1>4. CASE Deliver
  <2>1. /\ pc = "deliver"
        /\ UNCHANGED inputs
        /\ posted' \in {posted, [posted EXCEPT ![job] = Append(@, answer)]}
    BY <1>4 DEF Deliver
  <2>2. job \in Mentions /\ answer = Fitting(job) /\ answer \in Answers
    BY <2>1, FittingType DEF PhaseInv
  <2>3. \A k \in DOMAIN posted[job] : posted[job][k] # answer
    BY <2>1, <2>2 DEF MentionInv, Unanswered, Answers
  <2> QED
    BY <1>3, <2>1, <2>2, <2>3
<1>5. ASSUME NEW m \in Mentions, TimerSent(m) PROVE OneAnswer'
  <2>1. /\ timer[m] # "off"
        /\ UNCHANGED inputs
        /\ posted' \in {posted, [posted EXCEPT ![m] = Append(@, "working")]}
    BY <1>5 DEF TimerSent
  <2>2. \A k \in DOMAIN posted[m] : posted[m][k] # "working"
    BY <2>1 DEF MentionInv, NoNotice
  <2>3. "working" \in Answers \union {"working"} /\ "working" \in {"working", Fitting(m)}
    OBVIOUS
  <2> QED
    BY <1>3, <2>1, <2>2, <2>3
<1>6. CASE \/ \E e \in coming : EventArrives(e)
           \/ \E t \in ApiTasks : CreateTask(t)
           \/ PressCtrlC \/ Kill \/ Shutdown
           \/ RecvEvent \/ CronTick \/ QueueTick
           \/ NextJob \/ SkipPattern \/ EndBatch \/ TaskEnds
           \/ \E m \in Mentions : TimerWakes(m) \/ TimerSwaps(m)
           \/ UNCHANGED vars
  BY <1>2, <1>6 DEF EventArrives, CreateTask, PressCtrlC, Kill, Shutdown, RecvEvent,
     CronTick, QueueTick, NextJob, SkipPattern, EndBatch, TaskEnds, TimerWakes,
     TimerSwaps, outputs, vars
<1> QED
  BY <1>4, <1>5, <1>6 DEF Next, Halted

\* Only a swap starts a notice, and it does so only for the task that runs.
LEMMA NoticeStep ==
  TypeOK /\ MentionInv /\ [Next]_vars =>
    \A m \in Mentions :
      timer'[m] = "sending" /\ timer[m] # "sending" => pc = "task" /\ job = m
<1> SUFFICES ASSUME TypeOK, MentionInv, [Next]_vars, NEW m \in Mentions,
                    timer'[m] = "sending", timer[m] # "sending"
             PROVE  pc = "task" /\ job = m
  OBVIOUS
<1> USE DEF Over
<1>t. timer \in [Mentions -> {"off", "asleep", "woken", "sending", "cut"}]
  BY DEF TypeOK
<1>1. CASE TimerSwaps(m)
  <2>1. pc \notin Over /\ timer[m] = "woken" /\ ~notified[m]
    BY <1>1, <1>t DEF TimerSwaps
  <2> QED
    BY <2>1 DEF MentionInv, FlagSet
<1>2. CASE \E n \in Mentions :
             TimerWakes(n) \/ (n # m /\ TimerSwaps(n)) \/ TimerSent(n)
  BY <1>2, <1>t DEF TimerWakes, TimerSwaps, TimerSent
<1>3. CASE RecvEvent \/ TaskEnds
  BY <1>3, <1>t DEF RecvEvent, TaskEnds, Aborted, notices
<1>4. CASE UNCHANGED timer
  BY <1>4
<1>5. CASE \/ \E e \in coming : EventArrives(e)
           \/ \E t \in ApiTasks : CreateTask(t)
           \/ PressCtrlC \/ Kill \/ Shutdown
           \/ CronTick \/ QueueTick
           \/ NextJob \/ SkipPattern \/ EndBatch \/ Deliver
           \/ UNCHANGED vars
  BY <1>4, <1>5 DEF EventArrives, CreateTask, PressCtrlC, Kill, Shutdown, CronTick,
     QueueTick, NextJob, SkipPattern, EndBatch, Deliver, notices, vars
<1> QED
  BY <1>1, <1>2, <1>3, <1>5 DEF Next, Halted

-----------------------------------------------------------------------------
(* The order of the tasks *)

\* The API tasks in works are those of tasks, and in their order.
Follows(works, tasks) ==
  /\ Range(tasks) = Range(works) \intersect ApiTasks
  /\ \A j, k \in DOMAIN works :
       j < k /\ {works[j], works[k]} \subseteq ApiTasks =>
         \E a, b \in DOMAIN tasks :
           a < b /\ tasks[a] = works[j] /\ tasks[b] = works[k]

LEMMA InOrderFollows == AcceptedInOrder <=> Follows(Taken, accepted)
  BY DEF AcceptedInOrder, Follows

LEMMA Joined ==
  ASSUME NEW S, NEW s \in Seq(S), NEW t \in Seq(S)
  PROVE  /\ s \o t \in Seq(S)
         /\ Len(s) \in Nat /\ Len(t) \in Nat
         /\ DOMAIN s = 1..Len(s) /\ DOMAIN t = 1..Len(t)
         /\ DOMAIN (s \o t) = 1..(Len(s) + Len(t))
         /\ \A i \in 1..Len(s) : (s \o t)[i] = s[i]
         /\ \A i \in 1..Len(t) : (s \o t)[Len(s) + i] = t[i]
<1>1. /\ s \o t \in Seq(S)
      /\ Len(s \o t) = Len(s) + Len(t)
      /\ \A i \in 1..(Len(s) + Len(t)) :
           (s \o t)[i] = IF i <= Len(s) THEN s[i] ELSE t[i - Len(s)]
  BY ConcatProperties
<1>2. /\ Len(s) \in Nat /\ Len(t) \in Nat
      /\ DOMAIN s = 1..Len(s) /\ DOMAIN t = 1..Len(t)
      /\ DOMAIN (s \o t) = 1..(Len(s) + Len(t))
  BY <1>1
<1>3. \A i \in 1..Len(s) : (s \o t)[i] = s[i]
  BY <1>1, <1>2
<1>4. ASSUME NEW i \in 1..Len(t) PROVE (s \o t)[Len(s) + i] = t[i]
  <2>1. /\ Len(s) + i \in 1..(Len(s) + Len(t))
        /\ ~(Len(s) + i <= Len(s))
        /\ (Len(s) + i) - Len(s) = i
    BY <1>2
  <2> QED
    BY <1>1, <2>1
<1> QED
  BY <1>1, <1>2, <1>3, <1>4

\* Works that are no API tasks may come and go anywhere.
LEMMA OthersDoNotCount ==
  ASSUME NEW s \in Seq(Work), NEW x \in Seq(Work), NEW t \in Seq(Work),
         NEW tasks,
         Range(x) \intersect ApiTasks = {}
  PROVE  Follows(s \o t, tasks) <=> Follows((s \o x) \o t, tasks)
<1> DEFINE short == s \o t
           sx    == s \o x
           long  == sx \o t
           ls == Len(s)
           lx == Len(x)
           lt == Len(t)
<1>1. /\ ls \in Nat /\ lx \in Nat /\ lt \in Nat
      /\ DOMAIN short = 1..(ls + lt)
      /\ \A i \in 1..ls : short[i] = s[i]
      /\ \A i \in 1..lt : short[ls + i] = t[i]
  BY Joined
<1>2. /\ sx \in Seq(Work)
      /\ DOMAIN x = 1..lx
      /\ DOMAIN sx = 1..(ls + lx)
      /\ \A i \in 1..ls : sx[i] = s[i]
      /\ \A i \in 1..lx : sx[ls + i] = x[i]
  BY Joined
<1>3. /\ Len(sx) = ls + lx
      /\ DOMAIN long = 1..(Len(sx) + lt)
      /\ \A i \in 1..Len(sx) : long[i] = sx[i]
      /\ \A i \in 1..lt : long[Len(sx) + i] = t[i]
  BY <1>1, <1>2, Joined
<1> DEFINE up(j)   == IF j <= ls THEN j ELSE j + lx
           down(j) == IF j <= ls THEN j ELSE j - lx
<1>4. ASSUME NEW j \in DOMAIN short
      PROVE  up(j) \in DOMAIN long /\ long[up(j)] = short[j]
  <2>1. CASE j <= ls
    <3>1. j \in 1..ls /\ j \in 1..Len(sx)
      BY <1>1, <1>3, <2>1
    <3> QED
      BY <1>1, <1>2, <1>3, <2>1, <3>1
  <2>2. CASE ~(j <= ls)
    <3>1. /\ j - ls \in 1..lt
          /\ ls + (j - ls) = j
          /\ Len(sx) + (j - ls) = j + lx
          /\ j + lx \in 1..(Len(sx) + lt)
      BY <1>1, <1>3, <2>2
    <3>2. short[j] = t[j - ls] /\ long[j + lx] = t[j - ls]
      BY <1>1, <1>3, <3>1
    <3> QED
      BY <1>3, <2>2, <3>1, <3>2
  <2> QED
    BY <2>1, <2>2
<1>5. ASSUME NEW j \in DOMAIN long, long[j] \in ApiTasks
      PROVE  /\ down(j) \in DOMAIN short
             /\ short[down(j)] = long[j]
             /\ j <= ls \/ j > ls + lx
  <2>1. CASE j <= ls
    <3>1. j \in 1..ls /\ j \in 1..Len(sx) /\ j \in 1..(ls + lt)
      BY <1>1, <1>3, <2>1
    <3> QED
      BY <1>1, <1>2, <1>3, <2>1, <3>1
  <2>2. CASE ~(j <= ls) /\ j <= ls + lx
    <3>1. j - ls \in 1..lx /\ ls + (j - ls) = j /\ j \in 1..Len(sx)
      BY <1>1, <1>3, <2>2
    <3>2. long[j] = x[j - ls]
      BY <1>2, <1>3, <3>1
    <3>3. x[j - ls] \in Range(x)
      BY <1>2, <3>1 DEF Range
    <3> QED
      BY <1>5, <3>2, <3>3
  <2>3. CASE ~(j <= ls + lx)
    <3>1. /\ j - (ls + lx) \in 1..lt
          /\ Len(sx) + (j - (ls + lx)) = j
          /\ ls + (j - (ls + lx)) = j - lx
          /\ j - lx \in 1..(ls + lt)
          /\ ~(j <= ls)
      <4>1. j \in Int /\ j > ls + lx /\ j <= (ls + lx) + lt
        BY <1>1, <1>3, <2>3
      <4> HIDE DEF ls, lx, lt
      <4> QED
        BY <1>1, <1>3, <4>1
    <3>2. long[j] = t[j - (ls + lx)] /\ short[j - lx] = t[j - (ls + lx)]
      BY <1>1, <1>3, <3>1
    <3> QED
      BY SMTT(30), <1>1, <1>3, <2>3, <3>1, <3>2
  <2> QED
    BY <1>1, <1>3, <2>1, <2>2, <2>3
<1>6. Range(short) \intersect ApiTasks = Range(long) \intersect ApiTasks
  <2>1. ASSUME NEW w \in ApiTasks PROVE w \in Range(short) <=> w \in Range(long)
    <3>1. ASSUME w \in Range(short) PROVE w \in Range(long)
      <4>1. PICK j \in DOMAIN short : short[j] = w
        BY <3>1 DEF Range
      <4>2. up(j) \in DOMAIN long /\ long[up(j)] = w
        BY <1>4, <4>1
      <4> HIDE DEF up, long
      <4> QED
        BY <4>2 DEF Range
    <3>2. ASSUME w \in Range(long) PROVE w \in Range(short)
      <4>1. PICK j \in DOMAIN long : long[j] = w
        BY <3>2 DEF Range
      <4>2. down(j) \in DOMAIN short /\ short[down(j)] = w
        BY <1>5, <2>1, <4>1
      <4> HIDE DEF down, short
      <4> QED
        BY <4>2 DEF Range
    <3> QED
      BY <3>1, <3>2
  <2> QED
    BY <2>1
<1>7. ASSUME NEW j \in DOMAIN short, NEW k \in DOMAIN short, j < k
      PROVE  up(j) < up(k)
  BY <1>1, <1>7
<1>8. ASSUME NEW j \in DOMAIN long, NEW k \in DOMAIN long, j < k,
             long[j] \in ApiTasks, long[k] \in ApiTasks
      PROVE  down(j) < down(k)
  <2>1. (j <= ls \/ j > ls + lx) /\ (k <= ls \/ k > ls + lx)
    BY <1>5, <1>8
  <2> QED
    BY <1>1, <1>3, <1>8, <2>1
<1> HIDE DEF short, long, up, down
<1>9. Follows(long, tasks) => Follows(short, tasks)
  BY <1>4, <1>6, <1>7 DEF Follows
<1>10. Follows(short, tasks) => Follows(long, tasks)
  <2> SUFFICES ASSUME Follows(short, tasks),
                      NEW j \in DOMAIN long, NEW k \in DOMAIN long, j < k,
                      long[j] \in ApiTasks, long[k] \in ApiTasks
               PROVE  \E a, b \in DOMAIN tasks :
                        a < b /\ tasks[a] = long[j] /\ tasks[b] = long[k]
    BY <1>6 DEF Follows
  <2>1. /\ down(j) \in DOMAIN short /\ short[down(j)] = long[j]
        /\ down(k) \in DOMAIN short /\ short[down(k)] = long[k]
        /\ down(j) < down(k)
    BY <1>5, <1>8
  <2> QED
    BY <2>1 DEF Follows
<1> QED
  BY <1>9, <1>10 DEF short, long

\* In particular the first of a batch.
LEMMA OtherLeaves ==
  ASSUME NEW s \in Seq(Work), NEW x \in Seq(Work), NEW t \in Seq(Work),
         NEW u \in Seq(Work), NEW tasks,
         Range(x) \intersect ApiTasks = {},
         Follows((s \o (x \o t)) \o u, tasks)
  PROVE  Follows((s \o t) \o u, tasks)
<1>1. (s \o t) \o u = s \o (t \o u)
  OBVIOUS
<1>2. (s \o (x \o t)) \o u = (s \o x) \o (t \o u)
  BY SMTT(30)
<1>3. t \o u \in Seq(Work)
  BY Joined
<1>4. \A w \in Seq(Work) : Follows(s \o w, tasks) <=> Follows((s \o x) \o w, tasks)
  BY OthersDoNotCount
<1> QED
  BY <1>1, <1>2, <1>3, <1>4

\* A task accepted comes last on both sides.
LEMMA BothGrow ==
  ASSUME NEW s \in Seq(Work), NEW tasks \in Seq(ApiTasks), NEW t \in ApiTasks,
         Follows(s, tasks)
  PROVE  Follows(Append(s, t), Append(tasks, t))
<1> DEFINE works == Append(s, t)
           more  == Append(tasks, t)
<1>1. /\ DOMAIN works = 1..(Len(s) + 1)
      /\ DOMAIN s = 1..Len(s)
      /\ Len(s) \in Nat
      /\ \A k \in 1..Len(s) : works[k] = s[k]
      /\ works[Len(s) + 1] = t
  <2>1. t \in Work
    BY DEF Work
  <2> QED
    BY <2>1, AppendFacts
<1>2. /\ DOMAIN more = 1..(Len(tasks) + 1)
      /\ DOMAIN tasks = 1..Len(tasks)
      /\ Len(tasks) \in Nat
      /\ \A k \in 1..Len(tasks) : more[k] = tasks[k]
      /\ more[Len(tasks) + 1] = t
  BY AppendFacts
<1> HIDE DEF works, more
<1>3. Range(works) = Range(s) \union {t} /\ Range(more) = Range(tasks) \union {t}
  <2>1. Range(works) = Range(s) \union {t}
    BY <1>1 DEF Range
  <2>2. Range(more) = Range(tasks) \union {t}
    BY <1>2 DEF Range
  <2> QED
    BY <2>1, <2>2
<1>4. ASSUME NEW j \in DOMAIN works, NEW k \in DOMAIN works, j < k,
             works[j] \in ApiTasks, works[k] \in ApiTasks
      PROVE  \E a, b \in DOMAIN more :
               a < b /\ more[a] = works[j] /\ more[b] = works[k]
  <2>0. j \in 1..Len(s) /\ works[j] = s[j]
    BY <1>1, <1>4
  <2>1. CASE k \in 1..Len(s)
    <3>1. works[k] = s[k]
      BY <1>1, <2>1
    <3>2. PICK a \in DOMAIN tasks, b \in DOMAIN tasks :
            a < b /\ tasks[a] = s[j] /\ tasks[b] = s[k]
      BY <1>1, <1>4, <2>0, <2>1, <3>1 DEF Follows
    <3>3. a \in DOMAIN more /\ b \in DOMAIN more /\ more[a] = tasks[a] /\ more[b] = tasks[b]
      BY <1>2, <3>2
    <3> QED
      BY <2>0, <3>1, <3>2, <3>3
  <2>2. CASE k = Len(s) + 1
    <3>1. s[j] \in Range(tasks)
      BY <1>1, <1>4, <2>0 DEF Follows, Range
    <3>2. PICK a \in DOMAIN tasks : tasks[a] = s[j]
      BY <3>1 DEF Range
    <3>3. /\ a \in DOMAIN more /\ Len(tasks) + 1 \in DOMAIN more
          /\ a < Len(tasks) + 1
          /\ more[a] = works[j] /\ more[Len(tasks) + 1] = works[k]
      BY <1>1, <1>2, <2>0, <2>2, <3>2
    <3> QED
      BY <3>3
  <2> QED
    BY <1>1, <2>1, <2>2
<1>5. Range(more) = Range(works) \intersect ApiTasks
  BY <1>3 DEF Follows
<1>6. Follows(works, more)
  BY <1>4, <1>5 DEF Follows
<1> QED
  BY <1>6 DEF works, more

LEMMA TakenType ==
  TypeOK => /\ Finished \in Seq(Work) /\ Running \in Seq(Work)
            /\ batch \in Seq(Work) /\ queue \in Seq(Work)
            /\ Finished \o Running \in Seq(Work)
            /\ Finished \o Running \o batch \in Seq(Work)
            /\ Taken \in Seq(Work)
<1> SUFFICES ASSUME TypeOK
             PROVE  /\ Finished \in Seq(Work) /\ Running \in Seq(Work)
                    /\ batch \in Seq(Work) /\ queue \in Seq(Work)
                    /\ Finished \o Running \in Seq(Work)
                    /\ Finished \o Running \o batch \in Seq(Work)
                    /\ Taken \in Seq(Work)
  OBVIOUS
<1>1. Finished \in Seq(Work)
  <2>1. ended \in Seq([task : Work, calls : Fates])
    BY DEF TypeOK
  <2>2. Len(ended) \in Nat /\ DOMAIN ended = 1..Len(ended)
    BY <2>1
  <2>3. ASSUME NEW k \in 1..Len(ended) PROVE ended[k].task \in Work
    <3>1. ended[k] \in [task : Work, calls : Fates]
      BY <2>1, SequenceIsFunction
    <3> QED
      BY <3>1
  <2>4. Finished \in [1..Len(ended) -> Work]
    BY <2>2, <2>3 DEF Finished
  <2> QED
    BY <2>2, <2>4
<1>2. Running \in Seq(Work)
  BY DEF Running, TypeOK
<1>3. batch \in Seq(Work) /\ queue \in Seq(Work)
  <2>1. ApiTasks \union Range(Patterns) \subseteq Work /\ ApiTasks \subseteq Work
    BY DEF Work
  <2>2. batch \in Seq(ApiTasks \union Range(Patterns)) /\ queue \in Seq(ApiTasks)
    BY DEF TypeOK
  <2> QED
    BY <2>1, <2>2
<1>4. Finished \o Running \in Seq(Work)
  BY <1>1, <1>2, Joined
<1>5. Finished \o Running \o batch \in Seq(Work)
  BY <1>3, <1>4, Joined
<1>6. Taken \in Seq(Work)
  BY <1>3, <1>5, Joined DEF Taken
<1> QED
  BY <1>1, <1>2, <1>3, <1>4, <1>5, <1>6

\* One at the end of the finished, or at the start of the batch.
LEMMA FinishedGrows ==
  ASSUME TypeOK, job \in Work, NEW calls,
         ended' = Append(ended, [task |-> job, calls |-> calls]), calls \in Fates
  PROVE  Finished' = Finished \o <<job>>
<1>1. ended \in Seq([task : Work, calls : Fates])
  BY DEF TypeOK
<1>2. [task |-> job, calls |-> calls] \in [task : Work, calls : Fates]
  OBVIOUS
<1>3. /\ DOMAIN ended' = 1..(Len(ended) + 1)
      /\ DOMAIN ended = 1..Len(ended)
      /\ Len(ended) \in Nat
      /\ \A k \in 1..Len(ended) : ended'[k] = ended[k]
      /\ ended'[Len(ended) + 1].task = job
  BY <1>1, <1>2, AppendFacts
<1>4. Finished \in Seq(Work) /\ Len(Finished) = Len(ended)
  BY <1>3, TakenType DEF Finished
<1>5. Finished' = Append(Finished, job)
  <2>1. /\ DOMAIN Append(Finished, job) = 1..(Len(ended) + 1)
        /\ \A k \in 1..Len(ended) : Append(Finished, job)[k] = Finished[k]
        /\ Append(Finished, job)[Len(ended) + 1] = job
    BY <1>4, AppendFacts
  <2>2. Append(Finished, job) = [k \in 1..(Len(ended) + 1) |-> Append(Finished, job)[k]]
    <3>1. /\ Append(Finished, job) \in Seq(Work)
          /\ Len(Append(Finished, job)) = Len(ended) + 1
      BY <1>4, AppendProperties
    <3>2. Append(Finished, job) \in [1..(Len(ended) + 1) -> Work]
      BY <3>1, SequenceIsFunction
    <3> QED
      BY <3>2
  <2>3. Finished' = [k \in 1..(Len(ended) + 1) |-> ended'[k].task]
    BY <1>3 DEF Finished
  <2>4. \A k \in 1..(Len(ended) + 1) : Append(Finished, job)[k] = ended'[k].task
    <3>1. \A k \in 1..Len(ended) : Finished[k] = ended[k].task
      BY <1>3 DEF Finished
    <3> QED
      BY <1>3, <2>1, <3>1
  <2> HIDE DEF Finished
  <2> QED
    BY <2>2, <2>3, <2>4
<1> QED
  BY <1>4, <1>5, AppendIsConcat

LEMMA DistinctStep == TypeOK /\ DistinctInv /\ [Next]_vars => DistinctInv'
<1> SUFFICES ASSUME TypeOK, DistinctInv, [Next]_vars PROVE DistinctInv'
  OBVIOUS
<1>1. ASSUME UNCHANGED accepted PROVE DistinctInv'
  BY <1>1 DEF DistinctInv
<1>2. ASSUME NEW t \in ApiTasks, CreateTask(t) PROVE DistinctInv'
  <2>1. accepted' = Append(accepted, t) /\ ~Contains(accepted, t)
    BY <1>2 DEF CreateTask
  <2>2. /\ DOMAIN accepted' = 1..(Len(accepted) + 1)
        /\ DOMAIN accepted = 1..Len(accepted)
        /\ Len(accepted) \in Nat
        /\ \A k \in 1..Len(accepted) : accepted'[k] = accepted[k]
        /\ accepted'[Len(accepted) + 1] = t
    BY <2>1, AppendFacts DEF TypeOK
  <2>3. \A k \in 1..Len(accepted) : accepted[k] # t
    BY <2>1 DEF Contains
  <2> QED
    BY <2>2, <2>3 DEF DistinctInv
<1>3. CASE \/ \E e \in coming : EventArrives(e)
           \/ PressCtrlC \/ Kill \/ Shutdown
           \/ RecvEvent \/ CronTick \/ QueueTick
           \/ NextJob \/ SkipPattern \/ EndBatch \/ TaskEnds \/ Deliver
           \/ \E m \in Mentions : TimerWakes(m) \/ TimerSwaps(m) \/ TimerSent(m)
           \/ UNCHANGED vars
  BY <1>1, <1>3 DEF EventArrives, PressCtrlC, Kill, Shutdown, RecvEvent, CronTick,
     QueueTick, NextJob, SkipPattern, EndBatch, TaskEnds, Deliver, TimerWakes,
     TimerSwaps, TimerSent, vars
<1> QED
  BY <1>2, <1>3 DEF Next, Halted

LEMMA OrderStep ==
  TypeOK /\ PhaseInv /\ AcceptedInOrder /\ [Next]_vars => AcceptedInOrder'
<1> SUFFICES ASSUME TypeOK, PhaseInv, AcceptedInOrder, [Next]_vars
             PROVE  AcceptedInOrder'
  OBVIOUS
<1> USE DEF Over
<1>f. Follows(Taken, accepted)
  BY InOrderFollows
<1>g. Follows(Taken', accepted') => AcceptedInOrder'
  BY DEF AcceptedInOrder, Follows
<1>t. /\ Finished \in Seq(Work) /\ Running \in Seq(Work)
      /\ batch \in Seq(Work) /\ queue \in Seq(Work)
      /\ Finished \o Running \in Seq(Work)
      /\ Finished \o Running \o batch \in Seq(Work)
      /\ Taken \in Seq(Work)
      /\ <<>> \in Seq(Work)
  BY TakenType
<1>e. \A s \in Seq(Work) : s \o <<>> = s /\ <<>> \o s = s
  BY ConcatEmptySeq
<1>a. \A s, t, u \in Seq(Work) : (s \o t) \o u = s \o (t \o u)
  BY SMTT(30), ConcatAssociative
<1>n. None \notin Work
  BY DaemonAssumption DEF Work
<1>j. pc \in {"select", "batch"} => Running = <<>>
  BY DEF Running
<1>1. ASSUME UNCHANGED <<pc, job, ended, batch, queue, accepted>>
      PROVE  AcceptedInOrder'
  <2>1. Finished' = Finished /\ Running' = Running
    BY <1>1 DEF Finished, Running
  <2>2. Taken' = Taken
    BY <1>1, <2>1 DEF Taken
  <2> QED
    BY <1>1, <1>f, <1>g, <2>2
<1>2. CASE \/ \E e \in coming : EventArrives(e)
           \/ PressCtrlC
           \/ \E m \in Mentions : TimerWakes(m) \/ TimerSwaps(m) \/ TimerSent(m)
           \/ UNCHANGED vars
  BY <1>1, <1>2 DEF EventArrives, PressCtrlC, TimerWakes, TimerSwaps, TimerSent,
     handling, outputs, vars
<1>3. ASSUME NEW t \in ApiTasks, CreateTask(t) PROVE AcceptedInOrder'
  <2>1. /\ queue' = Append(queue, t) /\ accepted' = Append(accepted, t)
        /\ UNCHANGED <<pc, job, ended, batch>>
    BY <1>3 DEF CreateTask, handling, outputs
  <2>2. t \in Work /\ <<t>> \in Seq(Work) /\ accepted \in Seq(ApiTasks)
    BY DEF Work, TypeOK
  <2>3. Finished' = Finished /\ Running' = Running
    BY <2>1 DEF Finished, Running
  <2>4. /\ Append(queue, t) = queue \o <<t>>
        /\ Append(Taken, t) = Taken \o <<t>>
    BY <1>t, <2>2, AppendIsConcat
  <2>5. Taken' = Append(Taken, t)
    <3> DEFINE front == Finished \o Running \o batch
    <3>1. Taken' = front \o (queue \o <<t>>)
      BY <2>1, <2>3, <2>4 DEF Taken
    <3>2. Taken = front \o queue /\ front \in Seq(Work)
      BY <1>t DEF Taken
    <3> HIDE DEF front
    <3>3. /\ front \in Seq(Work) /\ queue \in Seq(Work)
          /\ <<t>> \in Seq(Work)
      BY <1>t, <2>2, <3>2
    <3>4. (front \o queue) \o <<t>> = front \o (queue \o <<t>>)
      BY <3>3, ConcatAssociative
    <3> QED
      BY <2>4, <3>1, <3>2, <3>4
  <2>6. Follows(Append(Taken, t), Append(accepted, t))
    BY <1>f, <1>t, <2>2, BothGrow
  <2> QED
    BY <1>g, <2>1, <2>5, <2>6
<1>4. ASSUME UNCHANGED <<ended, batch, queue, accepted>>,
             Running' = Running
      PROVE  AcceptedInOrder'
  <2>1. Taken' = Taken
    BY <1>4 DEF Taken, Finished
  <2> QED
    BY <1>f, <1>g, <1>4, <2>1
<1>5. ASSUME UNCHANGED <<ended, batch, queue, accepted>>,
             Running = <<>>, Running' = <<job'>>, job' \in Mentions
      PROVE  AcceptedInOrder'
  <2>1. /\ <<job'>> \in Seq(Work)
        /\ Range(<<job'>>) \intersect ApiTasks = {}
    BY <1>5, DaemonAssumption DEF Work, Range
  <2>2. batch \o queue \in Seq(Work)
    BY <1>t, Joined
  <2>3. Taken = Finished \o (batch \o queue)
    BY <1>a, <1>e, <1>t, <1>5 DEF Taken
  <2>4. Finished \o <<job'>> \in Seq(Work)
    BY <1>t, <2>1, Joined
  <2>5. Taken' = (Finished \o <<job'>>) \o (batch \o queue)
    <3>1. Finished' = Finished
      BY <1>5 DEF Finished
    <3> QED
      BY SMTT(30), <1>a, <1>t, <1>5, <2>4, <3>1 DEF Taken
  <2>6. Follows(Taken', accepted)
    BY <1>f, <1>t, <2>1, <2>2, <2>3, <2>5, OthersDoNotCount
  <2> QED
    BY <1>g, <1>5, <2>6
<1>6. CASE Kill
  <2>1. UNCHANGED <<job, ended, batch, queue, accepted>> /\ pc \notin Over /\ pc' = "killed"
    BY <1>6 DEF Kill, outputs
  <2>2. CASE pc \in {"select", "batch", "task"}
    <3>1. Running' = Running
      BY <1>n, <2>1, <2>2 DEF Running, TypeOK
    <3> QED
      BY <1>4, <2>1, <3>1
  <2>3. CASE pc = "deliver"
    <3>1. Running = <<>> /\ Running' = <<job'>> /\ job' \in Mentions
      BY <1>n, <2>1, <2>3 DEF Running, PhaseInv, TypeOK
    <3> QED
      BY <1>5, <2>1, <3>1
  <2> QED
    BY <2>1, <2>2, <2>3 DEF TypeOK
<1>7. CASE Shutdown \/ EndBatch \/ Deliver
  <2>1. UNCHANGED <<ended, batch, queue, accepted>>
    BY <1>7 DEF Shutdown, EndBatch, Deliver, outputs
  <2>2. Running' = Running
    BY <1>7 DEF Shutdown, EndBatch, Deliver, Running
  <2> QED
    BY <1>4, <2>1, <2>2
<1>8. CASE RecvEvent
  <2>1. UNCHANGED <<ended, batch, queue, accepted>> /\ pc = "select" /\ Running = <<>>
    BY <1>8, <1>j DEF RecvEvent, outputs
  <2>2. CASE pc' = "task"
    <3>1. Running' = <<job'>> /\ job' \in Mentions
      BY <1>8, <2>2 DEF RecvEvent, Running
    <3> QED
      BY <1>5, <2>1, <3>1
  <2>3. CASE pc' \in {"select", "deliver"}
    <3>1. Running' = <<>>
      BY <2>3 DEF Running
    <3> QED
      BY <1>4, <2>1, <3>1
  <2> QED
    BY <1>8, <2>2, <2>3 DEF RecvEvent
<1>9. CASE CronTick
  <2>1. /\ UNCHANGED <<ended, queue, accepted>>
        /\ batch = <<>> /\ batch' = Patterns /\ Running = <<>>
        /\ pc' = "batch"
    BY <1>9, <1>j DEF CronTick, Handle, outputs, PhaseInv
  <2>2. Patterns \in Seq(Work) /\ Range(Patterns) \intersect ApiTasks = {}
    <3>1. Range(Patterns) \subseteq Work /\ Patterns \in Seq(Range(Patterns))
      BY DaemonAssumption DEF Work
    <3> QED
      BY <3>1, DaemonAssumption
  <2>3. Running' = <<>> /\ Finished' = Finished
    BY <2>1 DEF Running, Finished
  <2>4. Taken = Finished \o queue /\ Taken' = (Finished \o Patterns) \o queue
    BY <1>e, <1>t, <2>1, <2>3 DEF Taken
  <2>5. Follows(Taken', accepted)
    BY <1>f, <1>t, <2>2, <2>4, OthersDoNotCount
  <2> QED
    BY <1>g, <2>1, <2>5
<1>10. CASE QueueTick
  <2>1. /\ UNCHANGED <<ended, accepted>>
        /\ batch = <<>> /\ batch' = queue /\ queue' = <<>>
        /\ pc' = "batch"
    BY <1>10 DEF QueueTick, Handle, outputs, PhaseInv
  <2>2. Running = <<>> /\ Running' = <<>> /\ Finished' = Finished
    BY <1>10, <1>j, <2>1 DEF QueueTick, Running, Finished
  <2>3. Finished \o queue \in Seq(Work)
    BY <1>t, Joined
  <2>4. Taken = Finished \o queue /\ Taken' = Finished \o queue
    BY <1>e, <1>t, <2>1, <2>2, <2>3 DEF Taken
  <2> QED
    BY <1>f, <1>g, <2>1, <2>4
<1>11. CASE NextJob
  <2>1. /\ UNCHANGED <<ended, queue, accepted>>
        /\ batch # <<>> /\ batch' = Tail(batch) /\ job' = Head(batch)
        /\ pc = "batch" /\ pc' = "task"
    BY <1>11 DEF NextJob, outputs
  <2>2. Running = <<>> /\ Running' = <<Head(batch)>> /\ Finished' = Finished
    BY <1>j, <2>1 DEF Running, Finished
  <2>3. Tail(batch) \in Seq(Work) /\ <<Head(batch)>> \in Seq(Work)
    BY <1>t, <2>1, TailFacts
  <2>4. batch = <<Head(batch)>> \o Tail(batch)
    BY <1>t, <2>1
  <2>5. Finished \o <<Head(batch)>> \o Tail(batch) = Finished \o batch
    BY SMTT(30), <1>a, <1>t, <2>3, <2>4
  <2>6. Taken' = Taken
    BY <1>e, <1>t, <2>1, <2>2, <2>5 DEF Taken
  <2> QED
    BY <1>f, <1>g, <2>1, <2>6
<1>12. CASE SkipPattern
  <2> DEFINE skipped == <<Head(batch)>>
             rest    == Tail(batch)
  <2>1. /\ UNCHANGED <<pc, job, ended, queue, accepted>>
        /\ batch # <<>> /\ batch' = rest /\ Head(batch) \in Range(Patterns)
        /\ pc = "batch"
    BY <1>12 DEF SkipPattern, Due, outputs
  <2>2. Running = <<>> /\ Running' = <<>> /\ Finished' = Finished
    BY <1>j, <2>1 DEF Running, Finished
  <2>3. rest \in Seq(Work) /\ skipped \in Seq(Work)
    BY <1>t, <2>1, TailFacts
  <2>4. batch = skipped \o rest
    BY <1>t, <2>1
  <2>5. Range(skipped) \intersect ApiTasks = {}
    BY <2>1, DaemonAssumption DEF Range
  <2> HIDE DEF skipped, rest
  <2>6. Taken = (Finished \o (skipped \o rest)) \o queue
    BY <1>e, <1>t, <2>2, <2>4 DEF Taken
  <2>7. Taken' = (Finished \o rest) \o queue
    BY <1>e, <1>t, <2>1, <2>2 DEF Taken
  <2>8. Follows(Taken', accepted)
    BY <1>f, <1>t, <2>3, <2>5, <2>6, <2>7, OtherLeaves
  <2> QED
    BY <1>g, <2>1, <2>8
<1>13. CASE TaskEnds
  <2>1. /\ UNCHANGED <<batch, queue, accepted>>
        /\ pc = "task" /\ pc' \in {"batch", "deliver"}
        /\ job \in Work
    BY <1>13 DEF TaskEnds, TypeOK
  <2>2. Finished' = Finished \o <<job>>
    BY <1>13, <2>1, FinishedGrows DEF TaskEnds
  <2>3. Running = <<job>> /\ Running' = <<>>
    BY <2>1 DEF Running
  <2>4. Taken' = Taken
    BY <1>e, <1>t, <2>1, <2>2, <2>3 DEF Taken
  <2> QED
    BY <1>f, <1>g, <2>1, <2>4
<1> QED
  BY <1>2, <1>3, <1>6, <1>7, <1>8, <1>9, <1>10, <1>11, <1>12, <1>13 DEF Next, Halted

-----------------------------------------------------------------------------
(* The theorems *)

LEMMA Initially == Init => IInv
<1> SUFFICES ASSUME Init PROVE IInv
  OBVIOUS
<1>1. TypeOK
  BY InitType
<1>2. PhaseInv /\ EventInv
  BY DEF Init, PhaseInv, EventInv
<1>3. MentionInv
  <2> SUFFICES ASSUME NEW m \in Mentions
               PROVE  Untouched(m) /\ Unanswered(m) /\ NoNotice(m) /\ FlagSet(m)
    BY DEF MentionInv
  <2>1. m # None
    BY DaemonAssumption
  <2> QED
    BY <2>1 DEF Init, Untouched, Unanswered, NoNotice, FlagSet
<1>4. HookInv /\ HooksFollowTasks
  BY DEF Init, HookInv, HooksFollowTasks
<1>5. OneAnswer
  BY DEF Init, OneAnswer
<1>6. AcceptedInOrder
  <2>1. Finished = <<>> /\ Running = <<>>
    BY DEF Init, Finished, Running
  <2>2. Taken = <<>> /\ accepted = <<>>
    BY <2>1 DEF Init, Taken
  <2> QED
    BY <2>2 DEF AcceptedInOrder, Range
<1>7. DistinctInv
  BY DEF Init, DistinctInv
<1> QED
  BY <1>1, <1>2, <1>3, <1>4, <1>5, <1>6, <1>7 DEF IInv

LEMMA Inductive == IInv /\ [Next]_vars => IInv'
<1> SUFFICES ASSUME IInv, [Next]_vars PROVE IInv'
  OBVIOUS
<1>1. /\ TypeOK /\ PhaseInv /\ EventInv /\ MentionInv
      /\ HookInv /\ DistinctInv
      /\ AcceptedInOrder /\ OneAnswer /\ HooksFollowTasks
  BY DEF IInv
<1>2. TypeOK' /\ PhaseInv' /\ EventInv'
  BY <1>1, TypeStep, PhaseStep, EventStep
<1>3. MentionInv' /\ OneAnswer'
  BY <1>1, MentionStep, AnswerStep
<1>4. HookInv' /\ HooksFollowTasks'
  BY <1>1, HookStep
<1>5. AcceptedInOrder' /\ DistinctInv'
  BY <1>1, OrderStep, DistinctStep
<1> QED
  BY <1>2, <1>3, <1>4, <1>5 DEF IInv

\* After any steps of run_daemon, its channel, API queue, schedules and timers,
\* the inductive invariant holds.
THEOREM Invariance == Spec => []IInv
  BY Initially, Inductive, PTL DEF Spec

\* The loop keeps its types: it handles something exactly while a task runs or
\* is answered, and the watchers' channel never holds more than its capacity.
THEOREM TypeCorrect == Spec => []TypeOK
<1>1. IInv => TypeOK
  BY DEF IInv
<1> QED
  BY <1>1, Invariance, PTL

\* Whatever runs in between, create_task's 201 means the task is run, in the
\* order of the answers, as long as the daemon lives.
THEOREM NothingDropped == Spec => []AcceptedInOrder
<1>1. IInv => AcceptedInOrder
  BY DEF IInv
<1> QED
  BY <1>1, Invariance, PTL

\* And no task is run twice, or queued again once it ran.
THEOREM TakenOnce == Spec => []NoTaskTwice
<1>1. IInv => NoTaskTwice
  <2> SUFFICES ASSUME IInv,
                      NEW j \in DOMAIN Taken, NEW k \in DOMAIN Taken, j < k,
                      Taken[j] = Taken[k], Taken[j] \in ApiTasks
               PROVE  FALSE
    <3>1. IInv => DOMAIN Taken \subseteq Nat
      <4>1. IInv => Taken \in Seq(Work)
        BY TakenType DEF IInv
      <4> QED
        BY <4>1
    <3> QED
      BY <3>1 DEF NoTaskTwice
  <2>1. PICK a \in DOMAIN accepted, b \in DOMAIN accepted :
          a < b /\ accepted[a] = Taken[j] /\ accepted[b] = Taken[k]
    BY DEF IInv, AcceptedInOrder
  <2>2. a = b
    BY <2>1 DEF IInv, DistinctInv
  <2>3. DOMAIN accepted \subseteq Nat
    BY DEF IInv, TypeOK
  <2> QED
    BY <2>1, <2>2, <2>3
<1> QED
  BY <1>1, Invariance, PTL

\* A mention gets one answer, the fitting one, and one notice at most.
THEOREM AnsweredOnce == Spec => []OneAnswer
<1>1. IInv => OneAnswer
  BY DEF IInv
<1> QED
  BY <1>1, Invariance, PTL

\* The webhooks are those of the tasks that ended, in their order.
THEOREM HooksInOrder == Spec => []HooksFollowTasks
<1>1. IInv => HooksFollowTasks
  BY DEF IInv
<1> QED
  BY <1>1, Invariance, PTL

\* The swap of the flag decides the race between the timer and the end of the
\* task: no notice starts after the task it is about.
THEOREM NoLateNotice == Spec => NoticeWhileRunning
<1>1. IInv /\ [Next]_vars =>
        [\A m \in Mentions :
           timer'[m] = "sending" /\ timer[m] # "sending" => pc = "task" /\ job = m]_vars
  BY NoticeStep DEF IInv
<1> QED
  BY <1>1, Invariance, PTL DEF Spec, NoticeWhileRunning

=============================================================================
