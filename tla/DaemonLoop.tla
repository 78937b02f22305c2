----------------------------- MODULE DaemonLoop -----------------------------
(***************************************************************************)
(* run_daemon: one loop that takes the next ready branch of a select! (an  *)
(* event of the watchers, the minute tick of the schedules, the two-second *)
(* tick of the API's task queue, Ctrl-C) and handles it to the end, tasks  *)
(* and all, before it selects again.  Around it run the watchers, which    *)
(* fill a bounded channel, the API server, which fills the task queue, and *)
(* one timer per mention that says "Still working" after a minute.         *)
(*                                                                         *)
(* A task is one step here (IterationEngine has its inside, StoreLock the  *)
(* locking); what counts is whether its calls to the model were answered   *)
(* and what the daemon then says.  A definition whose name ends in Mutant  *)
(* is a wrong version of the one after it, used only to show that a        *)
(* property would notice the mistake.                                      *)
(***************************************************************************)
EXTENDS Integers, SequencesExt

CONSTANTS
  Mentions,     \* events of the watchers that are mentions
  Messages,     \* other events: new messages, updated documents
  Commands,     \* the mentions that say status, cost, help or nothing
  ApiTasks,     \* POST /api/v1/tasks
  Patterns,     \* approved patterns, in the order of the store
  Frequency,    \* the schedule of each
  Minutes,      \* bound: minutes of the day at which ticks are looked at
  Capacity,     \* of the channel between watchers and loop (100)
  Limits,       \* values of iteration.max_iterations to start with
  Fates,        \* of a task's calls to the model: answered, failed
  MaxTicks,     \* bound: minute ticks
  None          \* no task is being handled, no tick

Day == 0..(24 * 60 - 1)

\* What should_run_now reads in a pattern's frequency: the minute of "daily
\* HH:MM", the X of "every Xm"; any other text is never due.
Frequencies ==
  [kind : {"daily"}, at : Nat] \union [kind : {"every"}, minutes : Nat]
    \union [kind : {"hourly", "other"}]

ASSUME DaemonAssumption ==
  /\ Commands \subseteq Mentions
  /\ Mentions \intersect (Messages \union ApiTasks \union Range(Patterns)) = {}
  /\ ApiTasks \intersect Range(Patterns) = {}
  /\ None \notin Mentions \union ApiTasks \union Range(Patterns) \union Minutes
  /\ Patterns \in Seq(Range(Patterns))
  /\ Frequency \in [Range(Patterns) -> Frequencies]
  /\ Minutes \subseteq Day
  /\ Capacity \in Nat \ {0}
  /\ Limits \subseteq Nat
  /\ Fates \subseteq {"answered", "failed"}
  /\ MaxTicks \in Nat

VARIABLES
  autoExecute,    \* daemon.auto_execute
  maxIterations,  \* iteration.max_iterations
  pc,             \* what the loop is at
  coming,         \* events not yet seen by a watcher
  inbox,          \* the channel of the watchers
  queue,          \* task_queue
  batch,          \* tasks or patterns the current tick has still to look at
  minute,         \* `now` of run_scheduled_patterns
  job,            \* the task or mention being handled
  answer,         \* what will be said in reply to it
  ticks,          \* minute ticks so far
  signal,         \* Ctrl-C was pressed
  accepted,       \* API tasks answered 201 Created, in order
  ended,          \* tasks run to their end, with the fate of their model calls
  posted,         \* what was posted in the thread of each mention, in order
  hooks,          \* webhooks fired, in order
  timer,          \* the timer of each mention's task
  notified        \* its flag

inputs == <<autoExecute, maxIterations>>
handling == <<pc, batch, minute, job, answer>>
outputs == <<ended, posted, hooks>>
notices == <<timer, notified>>
vars == <<inputs, handling, coming, inbox, queue, ticks, signal, accepted,
          outputs, notices>>

Work == Mentions \union ApiTasks \union Range(Patterns)

Over == {"stopped", "killed"}

\* What a mention is answered with, apart from "working".
Answers == {"report", "disabled", "complete", "failed"}

-----------------------------------------------------------------------------
Init ==
  /\ autoExecute \in BOOLEAN
  /\ maxIterations \in Limits
  /\ pc = "select"
  /\ coming = Mentions \union Messages
  /\ inbox = <<>>
  /\ queue = <<>>
  /\ batch = <<>>
  /\ minute = None
  /\ job = None
  /\ answer = "none"
  /\ ticks = 0
  /\ signal = FALSE
  /\ accepted = <<>>
  /\ ended = <<>>
  /\ posted = [m \in Mentions |-> <<>>]
  /\ hooks = <<>>
  /\ timer = [m \in Mentions |-> "off"]
  /\ notified = [m \in Mentions |-> FALSE]

-----------------------------------------------------------------------------
(* Around the loop *)

EventArrivesUnboundedMutant(e) ==
  /\ pc \notin Over
  /\ e \in coming
  /\ coming' = coming \ {e}
  /\ inbox' = Append(inbox, e)
  /\ UNCHANGED <<inputs, handling, queue, ticks, signal, accepted, outputs,
                 notices>>

\* A watcher sends an event; send() waits while the channel is full.
EventArrives(e) ==
  /\ pc \notin Over
  /\ e \in coming
  /\ Len(inbox) < Capacity
  /\ coming' = coming \ {e}
  /\ inbox' = Append(inbox, e)
  /\ UNCHANGED <<inputs, handling, queue, ticks, signal, accepted, outputs,
                 notices>>

\* create_task, for a request with a description.  Its max_iterations, like its
\* other fields, is queued and never read.
CreateTask(t) ==
  /\ pc \notin Over
  /\ ~Contains(accepted, t)
  /\ queue' = Append(queue, t)
  /\ accepted' = Append(accepted, t)
  /\ UNCHANGED <<inputs, handling, coming, inbox, ticks, signal, outputs,
                 notices>>

PressCtrlC ==
  /\ pc \notin Over
  /\ signal' = TRUE
  /\ UNCHANGED <<inputs, handling, coming, inbox, queue, ticks, accepted,
                 outputs, notices>>

\* `daemon stop` sends SIGTERM, which nothing catches.
Kill ==
  /\ pc \notin Over
  /\ pc' = "killed"
  /\ UNCHANGED <<inputs, batch, minute, job, answer, coming, inbox, queue,
                 ticks, signal, accepted, outputs, notices>>

-----------------------------------------------------------------------------
(* The branches of select! *)

Handle(works) ==
  /\ batch' = works
  /\ pc' = "batch"

\* handle_watch_event up to the task or the reply.  Messages are only logged.
RecvEvent ==
  /\ pc = "select"
  /\ inbox # <<>>
  /\ inbox' = Tail(inbox)
  /\ LET e == Head(inbox) IN
     \/ /\ e \in Messages
        /\ UNCHANGED <<pc, job, answer, timer>>
     \/ /\ e \in Mentions
        /\ e \in Commands \/ ~autoExecute
        /\ pc' = "deliver"
        /\ job' = e
        /\ answer' = IF e \in Commands THEN "report" ELSE "disabled"
        /\ UNCHANGED timer
     \/ /\ e \in Mentions \ Commands
        /\ autoExecute
        /\ pc' = "task"
        /\ job' = e
        /\ timer' = [timer EXCEPT ![e] = "asleep"]
        /\ UNCHANGED answer
  /\ UNCHANGED <<inputs, batch, minute, coming, queue, ticks, signal, accepted,
                 outputs, notified>>

ShouldRunNow(frequency, time) ==
  \/ frequency.kind = "hourly" /\ time % 60 = 0
  \/ frequency.kind = "daily" /\ time = frequency.at
  \/ /\ frequency.kind = "every"
     /\ frequency.minutes > 0
     /\ time % frequency.minutes = 0

\* run_scheduled_patterns goes through all of them, in the store's order, and
\* asks each time for the minute it started in.
CronTick ==
  /\ pc = "select"
  /\ ticks < MaxTicks
  /\ ticks' = ticks + 1
  /\ minute' \in Minutes
  /\ Handle(Patterns)
  /\ UNCHANGED <<inputs, job, answer, coming, inbox, queue, signal, accepted,
                 outputs, notices>>

\* queue.drain(..): what is accepted from now on waits for the next tick.
QueueTick ==
  /\ pc = "select"
  /\ queue' = <<>>
  /\ Handle(queue)
  /\ UNCHANGED <<inputs, minute, job, answer, coming, inbox, ticks, signal,
                 accepted, outputs, notices>>

ShutdownStaysMutant ==
  /\ pc = "select"
  /\ signal
  /\ signal' = FALSE
  /\ UNCHANGED <<inputs, handling, coming, inbox, queue, ticks, accepted,
                 outputs, notices>>

\* Ctrl-C is only looked at here; what is queued is lost.
Shutdown ==
  /\ pc = "select"
  /\ signal
  /\ pc' = "stopped"
  /\ UNCHANGED <<inputs, batch, minute, job, answer, coming, inbox, queue,
                 ticks, signal, accepted, outputs, notices>>

-----------------------------------------------------------------------------
(* Inside a branch *)

Due(work) ==
  work \in Range(Patterns) => ShouldRunNow(Frequency[work], minute)

NextJob ==
  /\ pc = "batch"
  /\ batch # <<>>
  /\ Due(Head(batch))
  /\ job' = Head(batch)
  /\ batch' = Tail(batch)
  /\ pc' = "task"
  /\ UNCHANGED <<inputs, minute, answer, coming, inbox, queue, ticks, signal,
                 accepted, outputs, notices>>

SkipPattern ==
  /\ pc = "batch"
  /\ batch # <<>>
  /\ ~Due(Head(batch))
  /\ batch' = Tail(batch)
  /\ UNCHANGED <<inputs, pc, minute, job, answer, coming, inbox, queue, ticks,
                 signal, accepted, outputs, notices>>

EndBatchClearMutant ==
  /\ pc = "batch"
  /\ batch = <<>>
  /\ pc' = "select"
  /\ minute' = None
  /\ queue' = <<>>
  /\ UNCHANGED <<inputs, batch, job, answer, coming, inbox, ticks, signal,
                 accepted, outputs, notices>>

EndBatchWaitMutant ==
  /\ pc = "batch"
  /\ batch = <<>>
  /\ queue = <<>>
  /\ pc' = "select"
  /\ minute' = None
  /\ UNCHANGED <<inputs, batch, job, answer, coming, inbox, queue, ticks,
                 signal, accepted, outputs, notices>>

\* The tick is handled.  (After the tasks, the queue tick drains the cancel
\* requests too, and only logs them.)
EndBatch ==
  /\ pc = "batch"
  /\ batch = <<>>
  /\ pc' = "select"
  /\ minute' = None
  /\ UNCHANGED <<inputs, batch, job, answer, coming, inbox, queue, ticks,
                 signal, accepted, outputs, notices>>

\* Orchestrator::run is an error only when it made no iteration at all.
Result == IF maxIterations = 0 THEN "failed" ELSE "complete"

Hook(result, work) == [event |-> "task." \o result, task |-> work]

\* abort(): a timer still asleep is gone, one that is sending is cut off, one
\* that runs at this moment goes on to its next await.
Aborted(state) ==
  CASE state = "asleep"  -> "off"
    [] state = "sending" -> "cut"
    [] OTHER             -> state

TaskEndsAbortMutant ==
  /\ pc = "task"
  /\ \E calls \in Fates :
       ended' = Append(ended, [task |-> job, calls |-> calls])
  /\ IF job \in Mentions
     THEN /\ answer' = Result
          /\ timer' = [timer EXCEPT ![job] = Aborted(@)]
          /\ pc' = "deliver"
          /\ UNCHANGED <<job, hooks, notified>>
     ELSE /\ hooks' = Append(hooks, Hook(Result, job))
          /\ pc' = "batch"
          /\ job' = None
          /\ UNCHANGED <<answer, notices>>
  /\ UNCHANGED <<inputs, batch, minute, coming, inbox, queue, ticks, signal,
                 accepted, posted>>

\* The end of execute_daemon_task: the flag is stored, the timer aborted.  A
\* task of a tick has no timer, and its webhook is fired at once.
TaskEnds ==
  /\ pc = "task"
  /\ \E calls \in Fates :
       ended' = Append(ended, [task |-> job, calls |-> calls])
  /\ IF job \in Mentions
     THEN /\ answer' = Result
          /\ notified' = [notified EXCEPT ![job] = TRUE]
          /\ timer' = [timer EXCEPT ![job] = Aborted(@)]
          /\ pc' = "deliver"
          /\ UNCHANGED <<job, hooks>>
     ELSE /\ hooks' = Append(hooks, Hook(Result, job))
          /\ pc' = "batch"
          /\ job' = None
          /\ UNCHANGED <<answer, notices>>
  /\ UNCHANGED <<inputs, batch, minute, coming, inbox, queue, ticks, signal,
                 accepted, posted>>

DeliverNoReturnMutant ==
  /\ pc = "deliver"
  /\ posted' \in {posted, [posted EXCEPT ![job] = Append(@, answer)]}
  /\ hooks' = IF answer \in {"complete", "failed"}
              THEN Append(hooks, Hook(answer, job)) ELSE hooks
  /\ pc' = IF answer = "disabled" THEN "task" ELSE "select"
  /\ job' = IF answer = "disabled" THEN job ELSE None
  /\ answer' = "none"
  /\ UNCHANGED <<inputs, batch, minute, coming, inbox, queue, ticks, signal,
                 accepted, ended, notices>>

DeliverFirstHookMutant ==
  /\ pc = "deliver"
  /\ \/ /\ posted' = [posted EXCEPT ![job] = Append(@, answer)]
        /\ hooks' = IF answer \in {"complete", "failed"}
                    THEN Append(hooks, Hook(answer, job)) ELSE hooks
     \/ UNCHANGED <<posted, hooks>>
  /\ pc' = "select"
  /\ job' = None
  /\ answer' = "none"
  /\ UNCHANGED <<inputs, batch, minute, coming, inbox, queue, ticks, signal,
                 accepted, ended, notices>>

\* deliver_result or deliver_rich_result, whose failure is only logged; then,
\* for a task, the webhook.
Deliver ==
  /\ pc = "deliver"
  /\ posted' \in {posted, [posted EXCEPT ![job] = Append(@, answer)]}
  /\ hooks' = IF answer \in {"complete", "failed"}
              THEN Append(hooks, Hook(answer, job)) ELSE hooks
  /\ pc' = "select"
  /\ job' = None
  /\ answer' = "none"
  /\ UNCHANGED <<inputs, batch, minute, coming, inbox, queue, ticks, signal,
                 accepted, ended, notices>>

-----------------------------------------------------------------------------
(* The timers, each a spawned task *)

\* Sixty seconds are over: a worker runs the timer ...
TimerWakes(m) ==
  /\ pc \notin Over
  /\ timer[m] = "asleep"
  /\ timer' = [timer EXCEPT ![m] = "woken"]
  /\ UNCHANGED <<inputs, handling, coming, inbox, queue, ticks, signal,
                 accepted, outputs, notified>>

\* ... which swaps the flag, and sends if it was the first to set it.
TimerSwaps(m) ==
  /\ pc \notin Over
  /\ timer[m] = "woken"
  /\ timer' = [timer EXCEPT ![m] = IF notified[m] THEN "off" ELSE "sending"]
  /\ notified' = [notified EXCEPT ![m] = TRUE]
  /\ UNCHANGED <<inputs, handling, coming, inbox, queue, ticks, signal,
                 accepted, outputs>>

\* The service posts the notice, or it is lost.  One that was cut off may have
\* left already, and be posted after the answer.
TimerSent(m) ==
  /\ timer[m] \in {"sending", "cut"}
  /\ timer' = [timer EXCEPT ![m] = "off"]
  /\ posted' \in {posted, [posted EXCEPT ![m] = Append(@, "working")]}
  /\ UNCHANGED <<inputs, handling, coming, inbox, queue, ticks, signal,
                 accepted, ended, hooks, notified>>

Halted == pc \in Over /\ UNCHANGED vars

Next ==
  \/ \E e \in coming : EventArrives(e)
  \/ \E t \in ApiTasks : CreateTask(t)
  \/ PressCtrlC
  \/ Kill
  \/ RecvEvent
  \/ CronTick
  \/ QueueTick
  \/ Shutdown
  \/ NextJob
  \/ SkipPattern
  \/ EndBatch
  \/ TaskEnds
  \/ Deliver
  \/ \E m \in Mentions : TimerWakes(m) \/ TimerSwaps(m) \/ TimerSent(m)
  \/ Halted

Spec == Init /\ [][Next]_vars

\* A handler goes on; a task ends (IterationEngine) and a delivery returns.
\* select! starts at a random branch, so a branch that is ready at one select
\* after the other is taken in the end: strong fairness.
FairSpec ==
  /\ Spec
  /\ WF_vars(NextJob) /\ WF_vars(SkipPattern) /\ WF_vars(EndBatch)
  /\ WF_vars(TaskEnds) /\ WF_vars(Deliver)
  /\ SF_vars(RecvEvent) /\ SF_vars(QueueTick) /\ SF_vars(Shutdown)

-----------------------------------------------------------------------------
(* Properties *)

\* Types; a job is being handled exactly while a task runs or is answered, and
\* the channel keeps its capacity.
TypeOK ==
  /\ autoExecute \in BOOLEAN
  /\ maxIterations \in Limits
  /\ pc \in {"select", "batch", "task", "deliver"} \union Over
  /\ coming \subseteq Mentions \union Messages
  /\ inbox \in Seq(Mentions \union Messages)
  /\ Len(inbox) <= Capacity
  /\ queue \in Seq(ApiTasks)
  /\ accepted \in Seq(ApiTasks)
  /\ batch \in Seq(ApiTasks \union Range(Patterns))
  /\ minute \in Minutes \union {None}
  /\ job \in Work \union {None}
  /\ pc \in {"task", "deliver"} => job \in Work
  /\ pc \in {"select", "batch"} => job = None
  /\ answer \in Answers \union {"none"}
  /\ ticks \in 0..MaxTicks
  /\ signal \in BOOLEAN
  /\ ended \in Seq([task : Work, calls : Fates])
  /\ posted \in [Mentions -> Seq(Answers \union {"working"})]
  /\ hooks \in Seq({Hook(r, w) : r \in {"complete", "failed"}, w \in Work})
  /\ timer \in [Mentions -> {"off", "asleep", "woken", "sending", "cut"}]
  /\ notified \in [Mentions -> BOOLEAN]

Finished == [k \in DOMAIN ended |-> ended[k].task]

Running ==
  IF pc = "task" \/ (pc = "killed" /\ job # None) THEN <<job>> ELSE <<>>

\* What the daemon was given to do and has come to or will.
Taken == Finished \o Running \o batch \o queue

\* No accepted task is dropped, run twice or overtaken while the daemon lives,
\* although the server keeps accepting while a batch of them runs.
AcceptedInOrder ==
  /\ Range(accepted) = Range(Taken) \intersect ApiTasks
  /\ \A j, k \in DOMAIN Taken :
       j < k /\ {Taken[j], Taken[k]} \subseteq ApiTasks =>
         \E a, b \in DOMAIN accepted :
           a < b /\ accepted[a] = Taken[j] /\ accepted[b] = Taken[k]

\* The answer that fits a mention.
Fitting(m) ==
  IF m \in Commands THEN "report" ELSE IF autoExecute THEN Result ELSE "disabled"

\* A mention is answered at most once and told at most once that work goes on,
\* whatever is lost, and the answer fits the command and the configuration.
OneAnswer ==
  \A m \in Mentions :
    /\ \A k \in DOMAIN posted[m] : posted[m][k] \in {"working", Fitting(m)}
    /\ \A j, k \in DOMAIN posted[m] : posted[m][j] = posted[m][k] => j = k

\* No notice starts to be sent once the task it is about has ended, although
\* the timer and the end of the task race for the same minute.
NoticeWhileRunning ==
  [][\A m \in Mentions :
       timer'[m] = "sending" /\ timer[m] # "sending" => pc = "task" /\ job = m]_vars

\* Webhooks are fired one per task, in the order tasks end; only that of the
\* mention whose answer is being delivered is still to come.
HooksFollowTasks ==
  /\ Len(hooks) <= Len(ended)
  /\ \A k \in DOMAIN hooks : hooks[k] = Hook(Result, ended[k].task)
  /\ pc \in {"select", "batch", "task"} => Len(hooks) = Len(ended)

Waiting == inbox # <<>> \/ queue # <<>> \/ batch # <<>> \/ job # None

\* The daemon catches up with whatever events and tasks were accepted (none of
\* them dropped: AcceptedInOrder), unless it is stopped first: no branch of
\* select! starves behind the others.
CatchesUp == Waiting ~> pc \in Over \/ ~Waiting

\* Ctrl-C stops the daemon, after the branch in hand, however much is queued.
SignalStops == signal ~> pc \in Over

-----------------------------------------------------------------------------
(* What the docs say of a failed task, refuted by Orchestrator::run *)

\* api/webhooks.rs:24: TaskComplete is sent when "A task completed successfully."
\* A task none of whose calls was answered is announced so.
CompleteMeansAnswered ==
  \A k \in DOMAIN hooks :
    hooks[k].event = "task.complete" => ended[k].calls = "answered"
=============================================================================
