------------------------------ MODULE StoreLock ------------------------------
(***************************************************************************)
(* The std::sync::Mutex around the store, shared by the daemon's tasks     *)
(* (run on the main thread, inside block_on) and the requests of the HTTP  *)
(* API (run by the worker threads of the tokio runtime).  A task that      *)
(* waits for a provider needs a worker too: the connection is driven by a  *)
(* spawned task, and only workers poll the sockets.  The main thread locks *)
(* for one short section after the other, and once for the extraction of   *)
(* learnings, which may call the provider with the lock held.              *)
(*                                                                         *)
(* A run of several iterations repeats "execute" and "persist"; one is     *)
(* enough for the order in which the lock is taken.  A definition whose    *)
(* name ends in Mutant is a wrong version of the one after it, used only   *)
(* to show that a property would notice the mistake.                       *)
(***************************************************************************)
EXTENDS Integers, Sequences, FiniteSets

CONSTANTS
  Workers,   \* worker threads of the runtime
  Requests,  \* requests for /api/v1/cost
  Tasks,     \* bound: tasks the daemon runs, one after the other
  Main,      \* the main thread, as a holder of the lock
  Nobody     \* an idle worker, a lock nobody holds

ASSUME StoreLockAssumption ==
  /\ Tasks \in Nat
  /\ Main # Nobody
  /\ {Main, Nobody} \cap Requests = {}

VARIABLES
  task,     \* tasks run so far
  at,       \* the section the main thread is at
  reply,    \* the answer of the provider the main thread waits for
  lock,     \* who holds the store's mutex
  worker,   \* the request each worker thread polls
  request   \* how far each request is

vars == <<task, at, reply, lock, worker, request>>

-----------------------------------------------------------------------------
\* What execute_daemon_task does with the lock; "execute" is done without it.
Sections == <<"recall", "insert", "execute", "persist", "extract", "save",
              "complete", "log">>

Section == Sections[at]

Running == task < Tasks

\* run() and the extractor call the provider in these sections.
MayCall == {"execute", "extract"}

Init ==
  /\ task = 0
  /\ at = 1
  /\ reply = "none"
  /\ lock = Nobody
  /\ worker = [w \in Workers |-> Nobody]
  /\ request = [q \in Requests |-> "outside"]

NextSection ==
  IF at = Len(Sections)
  THEN at' = 1 /\ task' = task + 1
  ELSE at' = at + 1 /\ task' = task

\* store.lock(): the main thread waits while another thread holds it.  The
\* extractor may then call the provider; the guard lives on.
Lock ==
  /\ Running
  /\ Section # "execute"
  /\ lock = Nobody
  /\ lock' = Main
  /\ reply' \in {"none"} \union {r \in {"pending"} : Section \in MayCall}
  /\ UNCHANGED <<task, at, worker, request>>

\* The guard is dropped.
Unlock ==
  /\ lock = Main
  /\ reply = "none"
  /\ lock' = Nobody
  /\ NextSection
  /\ UNCHANGED <<reply, worker, request>>

\* The executor calls the provider, without the lock.
Call ==
  /\ Running
  /\ Section = "execute"
  /\ reply = "none"
  /\ reply' = "pending"
  /\ UNCHANGED <<task, at, lock, worker, request>>

\* The provider answers, or the connection fails: the socket is readable.
ProviderAnswers ==
  /\ reply = "pending"
  /\ reply' = "arrived"
  /\ UNCHANGED <<task, at, lock, worker, request>>

\* An idle worker polls the connection, which wakes the main thread.
Deliver(w) ==
  /\ worker[w] = Nobody
  /\ reply = "arrived"
  /\ reply' = "delivered"
  /\ UNCHANGED <<task, at, lock, worker, request>>

ResumeRetryMutant ==
  /\ reply = "delivered"
  /\ IF Section = "execute"
     THEN reply' = "none" /\ NextSection
     ELSE reply' \in {"none", "pending"} /\ UNCHANGED <<task, at>>
  /\ UNCHANGED <<lock, worker, request>>

\* The await is over.
Resume ==
  /\ reply = "delivered"
  /\ reply' = "none"
  /\ IF Section = "execute" THEN NextSection ELSE UNCHANGED <<task, at>>
  /\ UNCHANGED <<lock, worker, request>>

-----------------------------------------------------------------------------
(* get_cost *)

Ask(q) ==
  /\ request[q] = "outside"
  /\ request' = [request EXCEPT ![q] = "queued"]
  /\ UNCHANGED <<task, at, reply, lock, worker>>

\* An idle worker starts the handler, and is taken until the handler is done:
\* lock() blocks the thread.
Poll(w, q) ==
  /\ worker[w] = Nobody
  /\ request[q] = "queued"
  /\ worker' = [worker EXCEPT ![w] = q]
  /\ request' = [request EXCEPT ![q] = "locking"]
  /\ UNCHANGED <<task, at, reply, lock>>

Acquire(w) ==
  /\ worker[w] # Nobody
  /\ request[worker[w]] = "locking"
  /\ lock = Nobody
  /\ lock' = worker[w]
  /\ request' = [request EXCEPT ![worker[w]] = "reading"]
  /\ UNCHANGED <<task, at, reply, worker>>

RespondBusyMutant(w) ==
  /\ worker[w] # Nobody
  /\ request[worker[w]] = "reading"
  /\ lock' = Nobody
  /\ request' = [request EXCEPT ![worker[w]] = "answered"]
  /\ UNCHANGED <<task, at, reply, worker>>

\* query_events_since, then the guard is dropped and the response sent.
Respond(w) ==
  /\ worker[w] # Nobody
  /\ request[worker[w]] = "reading"
  /\ lock' = Nobody
  /\ request' = [request EXCEPT ![worker[w]] = "answered"]
  /\ worker' = [worker EXCEPT ![w] = Nobody]
  /\ UNCHANGED <<task, at, reply>>

Halted ==
  /\ ~Running
  /\ \A q \in Requests : request[q] \in {"outside", "answered"}
  /\ UNCHANGED vars

MainStep == Lock \/ Unlock \/ Call \/ Resume

WorkerStep(w) ==
  \/ Deliver(w)
  \/ \E q \in Requests : Poll(w, q)
  \/ Acquire(w)
  \/ Respond(w)

Next ==
  \/ MainStep
  \/ ProviderAnswers
  \/ \E w \in Workers : WorkerStep(w)
  \/ \E q \in Requests : Ask(q)
  \/ Halted

\* Threads that can run do, and the provider answers or fails in the end.
\* Clients need not ask.
FairSpec ==
  /\ Init /\ [][Next]_vars
  /\ WF_vars(MainStep)
  /\ WF_vars(ProviderAnswers)
  /\ \A w \in Workers : WF_vars(WorkerStep(w))

-----------------------------------------------------------------------------
(* Properties *)

\* Types; the lock is held by the main thread or by a request a worker polls,
\* and no two workers poll one request.
TypeOK ==
  /\ task \in 0..Tasks
  /\ at \in DOMAIN Sections
  /\ reply \in {"none", "pending", "arrived", "delivered"}
  /\ lock \in {Nobody, Main} \union
              {q \in Requests : \E w \in Workers : worker[w] = q}
  /\ worker \in [Workers -> Requests \union {Nobody}]
  /\ request \in [Requests -> {"outside", "queued", "locking", "reading",
                               "answered"}]
  /\ \A w \in Workers :
       worker[w] # Nobody =>
         /\ request[worker[w]] \in {"locking", "reading"}
         /\ \A v \in Workers \ {w} : worker[v] # worker[w]

\* Every request that reached the server is answered: requests wait for the
\* lock, its holder for the provider, the provider's answer for a worker, and
\* with fewer requests than workers one worker is always left.  With as many
\* requests as workers it fails: the lock is held across the .await of the
\* extraction, which core/orchestrator.rs:45 says it never is.
RequestsAnswered ==
  \A q \in Requests : request[q] = "queued" ~> request[q] = "answered"

\* The daemon gets through its tasks, whatever requests come.
TasksFinish == <>(task = Tasks)
=============================================================================
