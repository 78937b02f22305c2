# OpenKoi in TLA+

OpenKoi is a command-line agent: it gives a task to a language model, has the
output evaluated, and iterates until the output is good enough or a limit is
reached. A daemon does the same for mentions in chat services, for tasks that
arrive over HTTP and for scheduled patterns. This directory holds TLA+ models
of the program, the TLC runs that check them and the theorems that TLAPS proves.

Every definition is translated from the Rust source. Paths below are relative
to the crate's `src/` directory. `PROJECT.json` lists for every definition the
lines it models, for every run its properties, and for every property a wrong
version of the code that the run catches (definitions ending in `Mutant`).

    tlc -workers 2 -config Engine.cfg MCIterationEngine     # one run
    tlapm IterationEngineProofs.tla                         # one proof module

Contents: [inventory](#1-inventory), [modules](#2-modules),
[runs](#3-runs-and-bounds), [fairness](#4-fairness),
[proofs](#5-what-is-proved), [findings](#6-where-code-and-docs-disagree),
[not modelled](#7-what-is-not-modelled), [what is left](#8-what-is-left).

## 1. Inventory

### Iteration engine (`core/orchestrator.rs`, `safety.rs`, `eval_cache.rs`, `token_budget.rs`)

*State*: the cycles of the run, the one being built, tokens and cost spent, the
clock, `best_idx`, and what it writes: rows of `tasks`, `iteration_cycles` and
`learnings`, progress events, the `TaskResult`.
*Operations*: execute, skip or make the evaluation, check safety, decide, track
the best cycle, extract and save learnings, complete the task row.
*Interacts with*: Executor (calls), Evaluator (calls), the store (through a
mutex; every error ignored), a progress callback (the CLI's bar and the state
file writer).
*Hard*: early exits that skip parts of the iteration (an overflow skips safety
check and decision, a failed execution skips the evaluation, an abort skips
`best_idx`); limits read only between iterations; store operations that fail
on their own; a process that dies between two of them.
*Correct when*: the answer is the best the run produced, limits hold up to a
known overshoot, nothing continues after a decision to stop, an output that was
not evaluated deserved it, the rows agree with one another, listeners see events
in an order they can rely on, and every run ends.

### Executor and retries (`core/executor.rs`, `core/overflow.rs`, `core/truncation.rs`, `provider/retry.rs`)

*State*: the conversation, the tool calls counted, the round, the attempt.
*Operations*: request, retry, classify an error, dispatch tool calls, check for
tool loops. *Interacts with*: providers, integrations, MCP servers.
*Hard*: retries nested in rounds; thresholds that one response can jump over;
results that must be in the conversation before the next request.
*Correct when*: each call is dispatched once and answered in place, the number
of requests and calls is bounded, and the execution ends.

### Task state files (`core/state.rs`)

*State*: `current-task.json` (a temporary file and a rename) and
`task-history.jsonl` (append and rotate). *Operations*: the progress callback.
*Interacts with*: the engine's events; readers are `status --live`, the
dashboard and the HTTP API. *Hard*: a process may die between any two system
calls, any call may fail and be ignored, two processes use the same names.
*Correct when*: readers see whole documents that describe the run in progress,
a completed run leaves no file, the history is a bounded suffix of the runs.

### Store mutex and runtime threads (`core/orchestrator.rs`, `api/mod.rs`, `main.rs`)

*State*: a `std::sync::Mutex`, the worker threads of tokio.
*Operations*: lock, blocking the thread that asks; requests; deliveries of a
provider's answer, which need a worker. *Hard*: a guard that lives across an
`.await`. *Correct when*: requests are answered and tasks end.

### Daemon loop (`infra/daemon.rs`, `api/mod.rs`, `api/webhooks.rs`)

*State*: the event channel, the queue of API tasks, the batch drained from it,
the task in hand, one "Still working" timer per mention.
*Operations*: the branches of `select!` (event, minute tick, queue tick,
Ctrl-C), replies, webhooks. *Interacts with*: watchers (bounded channel), the
API server (shared vector), services and webhook receivers.
*Hard*: tasks take minutes and everything else waits; the timer races the end
of its task; deliveries fail. *Correct when*: accepted tasks are run once and in
order, a mention is answered once, webhooks follow the tasks, nothing starves,
Ctrl-C works.

### Watchers and adapters (`integrations/`)

*State*: the last message seen per channel, the last hash per document, what
the services hold. *Operations*: poll, detect a mention, emit, answer, stop.
*Interacts with*: services, the daemon's channel; an answer of the daemon is a
message of the chat the next poll reads. *Hard*: each poll knows only the last
message of the one before, polls fail, sends block, and every service lists,
names and refuses messages in its own way. *Correct when*: messages are emitted
in order and once, none a poll returned is left out, and the watcher stops.

### Model providers and MCP servers (`provider/`, `plugins/mcp.rs`)

*State*: Copilot's session token, the cached list of models, the server
process and the lines it wrote. *Operations*: list models, choose one, turn a
conversation into a request and a reply into an answer or an error, exchange
the token; start a server, list its tools, call one, stop it.
*Interacts with*: the executor, which repeats requests and dispatches calls.
*Hard*: nine services with different rules about which messages may follow
which; a server that speaks unasked, answers late or dies; tokens that expire
between two requests. *Correct when*: the service can accept every request, an
answer belongs to its call, and the run ends.

### Context building (`core/token_optimizer.rs`, `core/system_prompt.rs`, `memory/recall.rs`)

*State*: none of its own. *Operations*: recall what past tasks taught, select
skills, compress the previous output, give feedback, prune to the window.
*Hard*: budgets met by dropping things in a fixed order. *Correct when*: what
the model must see survives, and the request fits.

### Evaluator (`evaluator/`)

*State*: the evaluation before. *Operations*: run tests and linters and read
their output, ask the model and read its answer, merge. *Hard*: from the second
iteration an evaluation starts from the last one and replaces parts of it.
*Correct when*: nothing of an earlier output is reported for this one, and no
open finding is lost.

### Learner and memory store (`learner/`, `memory/`, `skills/`, `patterns/`, `soul/`)

*State*: SQLite tables, skill directories, the soul. *Operations*: migrate,
insert, reinforce, decay, query, mine. *Hard*: every command is a process of its
own on one database, and a decay or the learnings of a task are many statements.
*Correct when*: migrations are applied once, and what was learned is found again
(it is not, see section 6).

### The user's home directory (`auth/`, `onboarding/`, `integrations/credentials.rs`, `provider/resolver.rs`, `cli/connect.rs`, `learn.rs`, `update.rs`, `main.rs`)

*State*: `auth.json`, `integrations.json`, key files, the PID file, skill
directories, soul and backup, the executable and its backup.
*Operations*: connect and disconnect, onboarding, migration of keys, token
refresh, daemon start and stop, approve and dismiss a skill, evolve the soul,
update. *Hard*: commands run at the same time, die between two calls, and decide
from the same files with different rules. *Correct when*: nothing that was saved
is lost, except by two commands at the same thing, and what onboarding finds the
resolver can build.

## 2. Modules

| module | what it is | extends |
|---|---|---|
| `IterationEngine` | one `Orchestrator::run` | |
| `TaskRun` | what a run promises: at most `max_iterations` attempts, none after the last, the latest of the best as answer | |
| `ProgressEvents`, `ProgressProtocol` | the progress events and which may follow which | |
| `IterationEngineProofs` | inductive invariant and safety theorems; it implements `TaskRun` and `ProgressProtocol` | `IterationEngine` |
| `Executor` | one `Executor::execute` over a `RetryProvider` | |
| `ListOperators` | lists made from finite sets, and from positions of other lists: what `filter()`, `sort_by()` and `sum()` make | |
| `Providers` | what each provider makes of a request, a reply and a list of models | |
| `Conversation` | the executor with a provider and an MCP server | `Executor`, `Providers` |
| `ConversationProofs` | inductive invariant and safety theorems of `Executor`; a conversation implements it; its own invariant and theorems | `Conversation` |
| `ContextBuilding` | prompt sections, feedback, compression, pruning | |
| `MemoryQueries` | recall, skill selection, pattern mining, choice of soul | |
| `Evaluator` | reading of tests, linters and answers; merging | |
| `Evaluation` | the data of one task through its iterations | the three above |
| `EvaluationProofs` | its invariants and safety theorems | `Evaluation` |
| `LearningStore` | migrations, decay, learning by several processes | |
| `LearningStoreProofs` | its inductive invariant and safety theorems | `LearningStore` |
| `TaskStateFile` | the state writer of several runs over a file system, and a reader | `ProgressEvents` |
| `TaskStateFileProofs` | what readers of the state file and the history find | `TaskStateFile` |
| `StoreLock` | the store's mutex, the main thread, tokio's workers, requests | |
| `DaemonLoop` | `run_daemon` with timers, API queue, schedules, channel | |
| `DaemonLoopProofs` | its inductive invariant and safety theorems | `DaemonLoop` |
| `Adapters` | what lies between watchers, daemon and chat services | |
| `Watcher` | one watched integration, from the service to the daemon's answer | `Adapters` |
| `WatcherProofs` | its invariants and safety theorems | `Watcher` |
| `Credentials` | which providers and apps the stored credentials make | |
| `Home` | commands of several processes over `~/.openkoi` | `Credentials` |
| `HomeProofs` | its inductive invariant and safety theorems | `Home` |
| `MC...` | instances for TLC | the module named |

`Adapters`, `Providers`, `ContextBuilding`, `MemoryQueries`, `Evaluator` and
`TaskStateFile` extend `ListOperators`. Filters, sorts and sums are written there
by index sets and cardinalities, without recursion, so that they can be proved
about.

They meet at their interfaces. `IterationEngine` sends events that follow
`ProgressProtocol` (proved); `TaskStateFile` receives events that follow it (the
same operator `Follows`), so what is checked there holds for the events the
engine really sends. What `Executor` ends in is what `IterationEngine` takes as
`Execute`, `Overflow` or `ExecuteFails`; `Conversation` is the same executor with
both its environments in place. `Evaluation` is the engine's loop seen by its
data, where `IterationEngine` has its control, limits and rows. `Watcher` fills
the channel that `DaemonLoop` empties: in `DaemonLoop` events arrive by one
unconstrained action, in `Watcher` the daemon takes an event and answers it, its
other branches left out. `DaemonLoop` takes a task as one step whose end
`IterationEngine` justifies, and `StoreLock` is the same daemon seen only by what
it locks.

### IterationEngine

A step is the code between two awaits, or between two points another part of
the program sees (an event, a row). `pc` follows the loop: `begin` (189-215),
`loop` (216), `execute` and `evaluate` (waiting for the model), `check` (387-449),
`extract`, `save`, `record`, `return` (453-543).

* `Execute`, `Overflow`, `ExecuteFails` are the three arms of the match on the
  executor's result. `Overflow` pushes the cycle as it is and continues, past
  the safety check; `ExecuteFails` pushes it as `AbortBudget` and leaves the loop.
* `Evaluate`, `EvaluateFails` (0.5 and not clean); `Execute` goes straight to
  `check` when `EvalCache::should_skip_eval` holds.
* `Abort` and `Conclude` are the two outcomes of `SafetyChecker::check`; only
  `Conclude` updates `best_idx`, so an aborted cycle is never compared.
* `Save` inserts learnings under the id of the `TaskInput`, `Begin` inserts the
  task row under a fresh id: two ids, as in the code.
* `Tick` moves the clock while the run waits; `Crash` is a process that dies at
  any point (a panic of the context builder included, see section 7).

Scores are small integers, outputs are model values compared for equality (the
hash of the code), prices are per token. The `u32` token counter is a natural
number: at the default budget of 200 000 tokens checked in every iteration it
cannot reach 2^32, and `SpentBounded` says by how much it can pass the budget.

### Executor and Conversation

`Respond` and `Fail` are the outcomes of one request of the inner provider,
`Retry` the end of a backoff, `Dispatch` one tool call, `CloseRound` what
follows the last of a round: `EndTurn`, circuit breaker, warning, next round.
`Panic` is `truncated[..MAX_BYTES]` at a byte that does not begin a character.
The messages keep their role and the ids of the calls they make or answer.

`Conversation` begins before that (`Discover` lists the models, from the cache
or the service, and validates the one that was asked for; `Spawn`, `ReadHello`,
`ReadList` start an MCP server) and adds to each step what the provider and the
server do. `Answer` and `FailRequest` are `Respond` and `Fail` for the provider's
way of reading a reply, with Copilot's token exchanged first; `CallServer` and
`ReadResult` are the two halves of a call, between which the server
(`ServerAnswers`, `ServerSpeaks`, `ServerDies`) may write any line; `CallAdapter`
is an integration's tool, `CallNobody` a name nothing serves. `Providers` has, for
each service, the request as a function of the conversation (`Wire`): which
entries are sent, which calls and answers they carry.

### TaskStateFile

A step is one system call of one run. Names and inodes are kept apart, so a
writer that opened the temporary file goes on writing to it after another run
renamed it. `write_state_file` is `Create` (or truncate), `Write`,
`Rename`; `append_history` reads, truncates and rewrites when the file is long,
then opens for append and writes the entry and its line end with two calls, as
`writeln!` does on a `File`; then the state file is removed. `Faults` names the
files on which calls may fail, `Crashes` lets a process die at any step. `Ask`
and `LookAgain` are the two reads of `GET /tasks/:id`, with any number of the
writer's steps between them.

### StoreLock

The main thread runs the daemon inside `block_on`, the workers run the HTTP
handlers and the connections to the provider. `get_cost` locks the mutex in an
async handler and so blocks its worker. The main thread's tasks lock for one
short section after the other, and once around `extract(...).await`.

### DaemonLoop

Each branch of `select!` is an action enabled when nothing is in hand; what its
handler does, it does before the loop selects again. A task is begun by
`RecvEvent`, `CronTick` (the approved patterns, with the minute of the tick) or
`NextJob`, which starts a task that `SkipPattern` does not pass over because its
frequency does not match that minute (`Due`), and ended by `TaskEnds`, with `Aborted` (the abort of
the timer) in the same step; `Deliver` sends the reply and fires the webhook. The
timer of a mention sleeps, wakes, swaps its flag and sends, one step each, and
may be cut off by the abort only where it awaits.

### Adapters and Watcher

`Wake` starts a poll, `VisitChannel` and `VisitDocument` take the targets (their
requests may fail), `Send` puts one event into the channel when there is room,
or is refused when the receiver is gone. `Fresh` is the search for the last seen
message in the reply, with its two fallbacks: no position known records
without emitting, position not found emits the whole reply. The reply is
`History` of the service: the newest `Batch` messages in either order, or
Telegram's oldest unconfirmed updates. `DetectMention` and `ParseCommand` read the
words of a message, and `Handle` posts what the daemon answers, when the service
accepts it, into the same chat. Texts are sequences of the words this code can
tell apart.

### Evaluation

`Prepare` recalls and selects skills, `Build` makes the context of an iteration,
`Execute` or `Overflow` end it; `MeasureTests`, `MeasureLint`, `EvaluateFull` or
`EvaluateChange` or `EvaluationFails` are the parts of an evaluation in their
order; `Decide` closes the cycle. The inputs are whole outputs of tools and
whole answers of the model, as the lines their parsers look at. Scores are in
hundredths, with NaN kept (`"nan"` parses as a float). The lessons of a
session are any: that the program as it is never stores one (section 6) is not
assumed here, as the recall would be read by whoever mends that.

### LearningStore

A step is one SQL statement, or the statements of one transaction, of one
process. A process opens the database (`Open`, `Migrate`), decays it (`DecayRead`,
then `DecayWrite` row by row), runs tasks (`Work`, then `Deduplicate` against the
table and one `Insert` after the other), and decays again. Ids are handed out
once: `Work` takes one for the `TaskInput` and another for the row of `tasks`, and
the learnings carry the first (`Source`), so that `Insert` finds no row its foreign
key names. Confidences, dates and counts are left out: as the table never has a
row, all that a decay could do with them (any row may be pruned) and a
reinforcement (whose errors are ignored) is without effect. `Deduplicate` and the
decay are written for tables with rows all the same, which they meet in the wrong
version of `Source`. A text is its set of words, as `text_similarity` takes it; two
texts without words are alike.

### Credentials and Home

A command (`Begin`) is a process that takes its steps to `Finish`, `Die` or an
error. `Create`, `Write` and `Rename` are the three calls of every rewrite of
`auth.json` and `integrations.json`; `Loaded` is what a reader makes of the file,
Torn included. `disconnect all` reads the file once (`DisconnectAll`) and rewrites
it from that copy for each login. `MigrateKeys`, `Discover`, `Pick` are onboarding, `Resolve` (with
the refresh of an expired login) and `Build` the resolver: `Found` and `Resolved`
are their two rules. `StartDaemon`, `StopReads`, `StopKills`, `DaemonReturns` use the
PID file, in which a PID may belong to another process by now. `Approve`, `Copy`,
`RemoveProposed`, `Dismiss`, `Evolve`, `BackUpSoul`, `WriteSoul` and `Update`,
`ClearBackup`, `SetAside`, `Replace` move files one by one.

## 3. Runs and bounds

| run | configuration | shows | bounds |
|---|---|---|---|
| `engine` | `Engine.cfg` | `AnswerIsLatestBest`, `OnlyLastCycleEnds`, `UnevaluatedIsRepeated`, `RegressionEndsRun`, `RowsAgree`, `RetryWithinLimits`, `ImplementsTaskRun`, `FollowsProtocol`, `Terminates` | up to 3 iterations, 2 outputs, scores on both sides of the thresholds, a store that may fail |
| `engine_learnings_saved` | `EngineLearningsSaved.cfg` | refutes `LearningsPersist` | |
| `conversation` | `Conversation.cfg` | `WireAccepted`, `AnswersMatch`, `DispatchedOnce`, `BreakerHolds`, `RunEnds` | every provider, both contexts; 2 rounds, 1 retry, 2 calls a response, thresholds 1 and 3, 1 unasked line |
| `evaluation` | `Evaluation.cfg` | `NoStaleFailure`, `OnlyResolvedLeave`, `FeedbackSurvives`, `RecallFits` | up to 3 iterations, 5 outcomes of tests, 2 of the linter, 3 answers, 3 windows |
| `learning` | `Learning.cfg` | `MigratedOnce`, `NothingLearned` | 2 processes, 3 tasks |
| `state_file` | `StateFile.cfg` | `ReadersSeeWholeFile`, `TaskIsFound`, `LeftoverIsExplained`, `HistoryKeepsRecent` | 3 runs in sequence, rotation at 2 lines to 1 |
| `store_lock_spare` | `StoreLockSpare.cfg` | `RequestsAnswered`, `TasksFinish` | 3 workers, 2 requests, 2 tasks |
| `daemon` | `Daemon.cfg` | `AcceptedInOrder`, `OneAnswer`, `HooksFollowTasks`, `NoticeWhileRunning`, `CatchesUp`, `SignalStops` | 2 mentions (one a command), 1 message, 2 API tasks, 1 schedule, channel of 1, 1 minute tick |
| `daemon_failure` | `DaemonFailure.cfg` | refutes `CompleteMeansAnswered` | tasks whose calls fail |
| `watcher` | `Watcher.cfg` | `EmittedInOrder`, `ShownIsEmitted`, `WatcherStops` | Telegram (2 chats with ids of their own) or Notion, 3 messages, 3 edits, replies of 2, channel of 1, 3 events |
| `watcher_newest_first` | `WatcherNewestFirst.cfg` | refutes `EmittedOnce` | Slack, Discord, Teams or iMessage, 5 messages |
| `home` | `Home.cfg` | `LoginsSurvive`, `ReadyIsUsable`, `SkillKept`, `ExecutableKept`, `OneDaemon` | 2 processes, 3 commands out of one of 4 sets that meet |

What the properties ask is stated above each of them in its module. Why the
bounds are enough to meet the interesting cases:

* *Engine.* Three iterations are the fewest in which the regression rule can
  fire (it exempts the second cycle), in which a skipped evaluation can follow a
  skipped one, and in which `best_idx` can move away from a cycle and back. The
  scores lie on both sides of the quality threshold (8) and the skip confidence
  (9), and apart by more and less than the regression threshold (3); budgets of 4
  tokens and 5 units of cost and a clock of one tick are reached by some
  behaviours and not by others. A limit of 0 iterations is included: the CLI
  accepts it.
* *Conversation.* Two rounds of up to 2 calls jump over the critical threshold,
  land on the breaker and pass it, with and without a warning in between; one
  retry tells the last attempt from the first. One unasked line shifts every
  later answer, a death may fall between any two lines. The lists of models hold
  one with a longer name that starts with another's, and one spelled otherwise.
  An execution starts from the message that asks the model to begin or from the
  last output and its feedback; that a note may stand in the place of the output
  after pruning is left to the theorems, which allow any context without calls,
  and so are integrations other than one for documents.
* *Evaluation.* An incremental evaluation after an incremental one needs three
  iterations; small windows are tried with two. Test runs that pass, fail in
  another test, cannot be read, or do not start; answers with resolved ids of
  both numberings and with a score that is no number.
* *Learning.* Two processes migrate at once, and three tasks let each learn
  while the other does and again when both are through. Were the inserts accepted,
  the second task would already meet the rows of the first.
* *State files.* Three runs are needed for a rotation to drop a line and the
  next run to append to what is left; three inodes are as many as one process
  can hold (state file, temporary file, one unlinked). Requests are followed for
  tasks that leave a record.
* *Store mutex.* One worker more than requests. With as many requests as
  workers the daemon stops (see section 6).
* *Daemon.* A channel of one is full at once, so watchers wait; two API tasks
  fall into one batch or two; one of each other kind of work runs against them.
* *Watcher.* Three messages, answers among them, over replies of two overrun a
  reply while polls fail. Only what a poll returned can be claimed: more messages
  than a reply holds between two polls are lost by design of the requests. A
  message to the group has the id of one to alice or another, as the order of the
  posts will have it. `MaxSent` keeps a message that is emitted again and again
  from being emitted for ever: after 3 events no poll begins.
* *Home.* Every set holds commands that touch the same files, and the third
  command starts from what the other two left, in whatever state they died.
  Tokens live two ticks of a clock that ticks once, with an expiry grace of one.

Deadlock is checked except in `evaluation` (a task's end is the end of the
behaviour) and `home` (the user need not give another command). A terminated
system takes `Halted` or `Closed`, enabled only where the code has returned.

Properties that name what two processes may do to each other leave exactly that
out (`overlap` in `Home`, `Concurrent` in `TaskStateFile`): there the code gives no
promise and breaks it (section 6). What is checked is that nothing else, in
particular no death at any point, does the same harm.

## 4. Fairness

* `IterationEngine`, `Conversation`: weak fairness of the code's own steps and of
  the provider, which is assumed to answer or to fail; of an MCP server, that it
  answers or dies. Both are assumptions: most providers set no timeout on chat
  requests and the client sets none on a server. `Tick`, `Crash`, `Panic`,
  `TokenExpires`, `ServerSpeaks` and `ServerDies` have no fairness.
* `StoreLock`: weak fairness of each thread (the OS schedules them) and of the
  provider. Which waiter gets a mutex is not fair in `std`, and none is assumed.
* `DaemonLoop`: weak fairness of the handlers; strong fairness of each branch
  of `select!`. Tokio's `select!` starts at a random branch, so one that is
  ready at infinitely many selects is taken with probability one. No fairness
  of arrivals, timers or ticks of the schedule.
* `Watcher`: weak fairness of its steps; strong fairness of `Stop`, for the same
  reason. `Take`, the daemon's side of the channel, has none: `WatcherStops`
  rests on the receiver being dropped, not on it being read.
* `Home`, `LearningStore`, `Evaluation`, `TaskStateFile`: safety only.

## 5. What is proved

All theorems hold for every value of the constants that satisfies the module's
assumptions, which TLC evaluates in the runs:

* `LimitsAssumption`: limits are `u8`, amounts are naturals; `ScoreAssumption`:
  scores and thresholds are naturals, 0 and the conservative score among the
  scores; `AnswerAssumption`: usages are bounded by `MaxUsage`, an absent output
  is not an output. `BudgetHeld` thus says that the tokens counted stay below the
  budget plus two calls, for any budget;
* `ExecutorAssumption`: naturals, at least one round, contexts without tool calls; `ConversationAssumption`:
  lists of models are finite sequences;
* `DaemonAssumption`: mentions, API tasks and patterns have different names, the
  channel holds at least one event, a frequency is one the scheduler knows;
* `FilesAssumption`, `CredentialsAssumption`, `HomeAssumption`: a missing or cut
  file is no store, the credentials found are of providers the code looks for,
  what an earlier version left is missing, cut, or a store;
* `StateFileAssumption`, `DocAssumption`: a document is neither nothing nor a
  part of one, a rotation keeps at least one line and at most as many as trigger
  it, no run is a line end or the absence of a request;
* `AdaptersAssumption`: messages have numbers, `None` is no message, each chat
  has a first id;
* `EvaluationAssumption`: a session's lists are finite sequences, its sizes
  naturals, its threshold a percentage;
* `LearningAssumption`: the bound on tasks is a natural.

`IterationEngineProofs` proves `Spec => []IInv` (`Invariance`) and from it
`TypeCorrect`, `AnswerCorrect`, `OneDecisionEnds`, `BudgetHeld`,
`SkipsAreRepetitions`, `RegressionsEnd`, `RowsConsistent` and, as an action
property, `RetriesWithinLimits`. The properties are not inductive: they speak of
finished cycles and totals, while a step depends on where the run is and on the
cycle it is building. `IInv` adds what holds at each point:

* `CountInv`: one cycle per iteration left, never more than the limit;
* `CurInv`: what the cycle being built holds at `execute`, `evaluate`, `check`,
  in particular that an unevaluated one passed `ShouldSkipEval`;
* `OpenInv`: while the loop runs, every pushed cycle said "continue" and none
  reached the threshold;
* `BestInv`: `best_idx` is the latest maximum of the cycles considered so far,
  and `Considered` is empty exactly until it is set;
* `SpentInv`: how much of the overshoot is used up at each point;
* `ResultInv`, `SavedInv`, `RowInv`: the answer and the rows follow from `best_idx`.

Each conjunct has its own step lemma (`CountStep`, `CurStep`, ...), with one step
per action; `PushCases` says once what every push of a cycle has in common.
The delicate one is `BestStep`: an overflowed cycle is pushed without entering
`Considered`, an aborted one likewise, a skipped one enters with score 0.

The module ends with the proofs that the engine implements its two abstract
specifications. `EngineImplementsTaskRun` maps the pushed cycles to attempts and
`best_idx`'s answer to the declarative choice of `TaskRun`;
`EventsFollowProtocol` needs `EventInv`, which says for each program point what
the last event was.

`ConversationProofs` begins with all safety properties of `Executor`, for any number of
rounds, retries and calls and any thresholds (`ExecutorAssumption`: naturals, at
least one round): `TypeCorrect`, `CallsDispatchedOnce`, `RequestsAreBounded`,
`BreakerWorks`, `CallsAreAnswered`. Its `IInv` adds to them: `PhaseInv` (nothing
pends while the model is asked; the attempt is back at 0 while tools run),
`RequestInv` (the requests of the rounds before plus the attempts of this one,
which makes the product `round * (MaxRetries + 1)` inductive), `AnswerInv` (a call
is answered in place, or its answer's place is exactly as far behind the end of
the conversation as the call is from the head of `pending`) and `LoopInv` (the
model is asked again only below the thresholds). Proving `BreakerHolds` showed
that a threshold of 0, which the configuration accepts, is an exception: it is
looked at only after the first response. TLC had been run with other values.

`CallsAnswered` and `RequestsBounded` are stated by these theorems alone; in the
runs `WireAccepted` (`Conversation`) says what the first is for, of every
provider's request.

It then proves that a conversation is an execution
(`ExecutorSteps`, `IsExecution`: `ConversationSpec => Spec`): each step of the run,
the provider and the server is a step of the executor or stutters, so that all
of the above holds of it (`ConversationDispatchesOnce`, `ConversationBreaker`).
`ConversationInv` is about the rest. For `AnswersMatch` (a call gets the answer of
another only after that many lines the server wrote unasked), it needs a
measure: `Fits` says of each line in the pipe, or still to be written, for which
call it is, that it is for a later one than every line before it, and that the
calls the server answered since plus the lines before it are no more than those
written unasked. `WireAccepted` follows from `CallsAnswered` of the executor, which
puts each result where `Wire` looks for it, and from `MadeInv` (results and
pending calls are of calls that were made before).

`DaemonLoopProofs` proves `AcceptedInOrder` (`NothingDropped`), `OneAnswer`,
`HooksFollowTasks` and the action property `NoticeWhileRunning`, for any number of
events, tasks and patterns, any capacity and any schedule; `TakenOnce` adds that
no API task is taken twice. `IInv` adds to them `PhaseInv` (a batch is
open only while one of its tasks runs), `EventInv` (an event is at one place),
`DistinctInv` and, for each mention, four facts that only together survive the
timer's steps: nothing is said of one nobody took, the one in hand has no answer
yet, a timer that is on has posted no notice, and a timer that is asleep or
woken with its flag clear belongs to the task that runs (`FlagSet`). The last is
why the abort at the end of a task cannot come too late: the flag is stored
before it, so a timer the abort missed finds it set and sends nothing.

`HomeProofs` proves the five safety properties of `Home`, for any number of
processes and commands. Each of them excepts what two commands worked on at
once; `Apart` says that this is exactly what `overlap` records, so that elsewhere a
process may count on a file it has read. `Shape` says what a process at each step
can be doing. Each property then has its own invariant of what is in hand:
`InHand` (the store to be written has every login but the one that is to go, and
`disconnect all` still has in its copy, between its two saves, every login that is
left, as one saved meanwhile would be an overlap),
`Ready` (the provider found has its credential where the resolver looks, in the
file or in the store about to replace it), `SkillMoving` and `Replacing` (what an
approval and an update have done when they get to the next step), `PidInv` (the
file names the daemon that runs, and a stop that has read it aims at that one).

`TaskStateFileProofs` proves `TypeCorrect` for concurrent runs as well and, for
runs that one process makes in sequence (`~Concurrent`), `WholeFile` and `Leftover`.
`FileInv` adds that only one run is active (`OneActive`), that what it has open is
what the temporary name leads to, empty until its document is written
(`Writing`), and whose document is shown (`Shown`). With `Concurrent` neither holds,
see section 6. Also of runs in
sequence, `HistoryIsRecent` is `HistoryKeepsRecent` for any number of runs and any
limits of the rotation. Its invariant `HistoryInv` relates the file to the log
of completed runs at every step of an update: unless damaged, the file is the text
(`IsText`: entry, line end, entry, ...) of a last part `es` of the log, all of it or
at least as many entries as a rotation keeps; while a line end is missing, it is
that text without its last element; while the file is truncated, the lines of `es`
are with the run that is to write them back. The lemmas say that reading such a
text gives `es` (`TextLines`, `TextReadable`), and that joining lines of one entry
each gives such a text (`JoinedText`; the library flattens by a recursive function,
and a smallest counterexample takes the place of induction over it). `AskedIsFound`
is the action property `TaskIsFound`, under the same assumption: `AskedInv` adds that a run that is not over is
shown unless one of its calls failed, so whoever missed it in the first file found
it over, and then the history has it.

`LearningStoreProofs` proves `MigratedInOrder` and `TableStaysEmpty`
(`NothingLearned`) for any number of processes and tasks and whatever they teach.
`MigrationInv`: no process knows a later version than the database has.
`SourceInv`: what a process is about to insert names an id that was handed out and
is no row of `tasks`, nor will ever be one.

`WatcherProofs` proves `TypeCorrect` for every service. `TelegramShownIsEmitted` and
`TelegramInOrder` assume that the service lists the oldest message first
(`Services \subseteq {"telegram", "notion"}`): with the others both fail, as the run
`watcher_newest_first` shows. Of Telegram, whose ids are numbers within a chat
while a poll returns the messages of all, `EmittedInOrder` claims only what holds
while no two messages have the same id (`IdsDiffer`; section 6 says what happens
otherwise), and `ShownIsEmitted` that nothing a poll returned is left out
while the ids differ or no update was dropped: the search stops at the first
message of that id, so it emits too much rather than too little, but once the
message it should have stopped at is dropped a later one of the same id may hide
what is between. `TelegramInOrder` assumes one target besides, as the run has it:
Telegram gives every chat the updates of all, so two targets would emit each
message twice. While either condition of `ShownIsEmitted` holds, `SeenInv` says, per chat that was found, what the search for the
last message seen rests on: that message is a person's, not before the one the
chat was found at; as long as Telegram keeps it, a poll reaches it (at most `Batch`
updates are kept up to it), and once it is dropped everything kept is newer, so
that the fallback (emit the whole reply) repeats nothing; and what is kept of the
messages between the two was returned. `EmittedSeen` says that only messages of a chat that was found,
up to its last one seen, are emitted.

`EvaluationProofs` proves all four properties of the run `evaluation`, for any
sessions, outputs, results and answers and any number of iterations.
`FailuresAreFresh` (`NoStaleFailure`, of tests and of the linter): `FreshInv` says
at which steps the evaluation in progress and the last cycle may hold failures of
tests or issues of the linter, and that they are of the last run of that tool that
could be read. `ResolvedOnly` (`OnlyResolvedLeave`): `KeptInv` says that until the model
is asked an evaluation that started from the last cycle still has what the model
found then. `RecallInBudget` (`RecallFits`) follows the fills of the recall one
after the other: each, of anti-patterns and of heuristics, takes a prefix of its
kind in the order of confidence and no more than is left. `FeedbackArrives` (`FeedbackSurvives`): the request of a later
iteration is the previous output and the feedback, neither a tool result to be
cleared (`BuiltFacts`, `NothingToClear`), so pruning can only drop the older of the
two (`TwoOldest`), and what is left fits the window up to the note unless it is
the feedback alone. Filtered, sorted and counted
lists get their facts once (`ArrangedFacts`, `EntriesFacts` and the lemmas on
`TokensOf`); `WatcherProofs` repeats the first few of these.

*Only model-checked*: nothing of the runs' safety properties; `StoreLock`, whose two
properties are liveness, has no theorem.
*Out of the prover's reach*: liveness under fairness (`Terminates`, `RunEnds`,
`CatchesUp`, `SignalStops`, `WatcherStops`, `RequestsAnswered`, `TasksFinish`),
`ENABLED`, and induction over data.

## 6. Where code and docs disagree

Each is the counterexample of a run marked `violation`.

* **Learnings are never saved** (`engine_learnings_saved`): their `source_task`
  names the id of the `TaskInput`, the task row has another, and foreign keys are
  on. README: "Learnings persist across sessions."
* **A failed task is announced as complete** (`daemon_failure`): a failed
  execution is a cycle, and `run()` fails only without any cycle.
* **Mentions are executed again** on services that list the newest message
  first (`watcher_newest_first`).

Observed while modelling, without a run of their own:

* *Telegram's ids* (`telegram.rs:237`) are numbers within a chat, while
  `getUpdates` returns the messages of all chats and `watcher.rs:161` looks for the
  first message with the id last seen. Once a message of one chat has the id of an
  earlier one of another, everything after that one is emitted again by every
  poll, and mentions among it are executed again.
* *The update* (`update.rs:190-191`) renames the executable to the backup and then
  the new one into its place. When it dies in between, or the second rename fails,
  no executable is in place, although the comment says "Atomic replace". The backup
  is complete (`ExecutableKept`); nothing puts it back.
* *Logins.* `connect` reads `auth.json`, lets the user log in for up to ten minutes
  and saves the copy it read (`connect.rs:377`, `416`), so a login another process
  saved meanwhile is lost, although `connect.rs:375` says that loading once avoids
  exactly that. `disconnect all` saves one copy twice (`connect.rs:274-281`), which
  loses a login saved between the two.
* *Two at once.* Two CLI processes share the temporary name of the state file
  (a reader may find it empty, against "Atomically write", `core/state.rs:216`)
  and remove each other's; two starts make two
  daemons, and stop removes the PID file while the daemon still runs; two updates
  can lose both executables; a second evolution overwrites the soul's backup.
* *The store's guard* is held across `extract(...).await`, where
  `orchestrator.rs` says it never is: as many cost requests as workers stop the
  daemon for good.
* *Daemon and services.* The help text holds "@openkoi", so on Slack, Discord and
  Teams the daemon's own answer is run as a task. Telegram is asked without an
  offset, so the sixth unconfirmed update is never seen; its answers with a
  reserved character are refused. The "first reply is history" rule swallows the
  first message of an empty chat. `GET /tasks/{id}` never finds a task of the
  daemon, which writes no state file; a cancel request is only logged; API
  tasks live in memory only; the API's `max_iterations` is ignored. Minute ticks
  missed during a task come in a burst, so a "daily" pattern may run twice or not
  at all; and nothing in the program ever approves a pattern.
* *Models.* Google's and ChatGPT's replies with tool calls are read as the end of
  the turn: the calls are made and the run ends before the model sees what they
  returned. ChatGPT's request sends tool results without
  their calls. Its token is refreshed at the start only. Anthropic's 429 without
  a number waits 5000 seconds. Several of the patterns that mean "context
  overflow" match other errors. MCP answers are not matched by id and have no
  timeout. MCP tools are offered to the daemon's model but every call to one is
  answered with an error.
* *Evaluation.* A skipped evaluation scores 0 and ends the run below the
  threshold, although `tests/orchestrator_test.rs` expects all iterations. A build
  that breaks leaves the old test result in place. A bulleted score line
  becomes a dimension of another name on the second iteration; "NaN" is a score. Finding ids repeat from one
  evaluation to the next. Where two evaluators share a name the first one loaded
  wins (`evaluator/mod.rs:382`), where the README says the later source does.
  An overflow drops the feedback of the iteration before.
* *Memory.* Decay is applied to the stored, already decayed confidence at every
  start and after every task, so confidence falls with use. Preferences are saved
  and never recalled. The miner reads events newest first, so the workflows it
  finds are reversed.
* *Credentials.* `disconnect all` leaves migrated keys behind; key entries of
  `auth.json` are never used.
* *Accounting.* Usage of failed executions and of the evaluator's calls is not
  counted; `budget.warning` is documented and never sent; an aborted cycle is
  returned only if no other exists.

## 7. What is not modelled

* *Text*: prompts, formatting of replies, the user's dialogues beyond what they
  decide.
* *What the environment does*: models, chat services beyond what a request
  returns, the file system beyond names and inodes, SQLite beyond foreign keys
  and transactions.
* *Panics of string slicing*: the context builder cuts the previous output at
  byte 2000 and the truncation of tool output cuts at byte 51200; both panic
  inside a character. In the engine such a panic is a `Crash` before an
  execution, in the executor it is `Panic`.
* *Code nothing calls*: `FallbackChain`, `compact()`, `ScoreCalibrator`,
  `update_pattern_status`, `upsert_skill_effectiveness`, `SkillProposer`, sessions,
  `chat_stream`; plugins are loaded at startup (`main.rs:202`) and no hook is ever fired.
* *Adapters nothing watches* (mail, Google, Office) beyond the tools they offer;
  the WASM and Rhai hosts; hooks; the dashboard; the price list; checks of file
  modes; the REPL's commands, export, `migrate --rollback`; configuration.

`PROJECT.json` has the same list under "components", with reasons, and under
"hazards" the places each property is for, those without a property included.

## 8. What is left

To prove: mutual exclusion of `StoreLock`, on which its liveness rests; the facts of
`ListOperators` in one module of lemmas instead of two.

To model: the token aging of a daemon that outlives its login; bursts of minute
ticks; the REPL as a caller of the engine.
