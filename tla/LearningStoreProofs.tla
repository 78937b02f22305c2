------------------------ MODULE LearningStoreProofs -------------------------
(***************************************************************************)
(* Theorems about LearningStore for any number of processes and tasks, and *)
(* whatever tasks teach.                                                   *)
(***************************************************************************)
EXTENDS LearningStore, TLAPS

-----------------------------------------------------------------------------
(* The inductive invariant *)

\* A process knows no later version than the database has.
MigrationInv ==
  /\ schema \in Seq(Nat) /\ Len(schema) <= Migrations
  /\ \A k \in 1 .. Len(schema) : schema[k] = k
  /\ \A p \in Procs : /\ proc[p].version \in 0 .. Len(schema)
                      /\ proc[p].memory => Len(schema) = Migrations

\* What a process is about to insert comes from a task that has no row, and
\* never gets one: ids are not handed out twice.
SourceInv ==
  \A p \in Procs : proc[p].source \in 0 .. fresh - 1 /\ proc[p].source \notin taskRows

Fields == {"pc", "memory", "next", "version", "new", "source", "doomed"}

ProcTypes == DOMAIN proc = Procs /\ \A p \in Procs : DOMAIN proc[p] = Fields

IInv == TypeOK /\ ProcTypes /\ MigrationInv /\ SourceInv /\ NothingLearned

-----------------------------------------------------------------------------
(* The steps *)

\* A step of process p leaves the others where they are.
StepOf(p) ==
  /\ DOMAIN proc' = DOMAIN proc /\ DOMAIN proc'[p] = Fields
  /\ \A q \in Procs \ {p} : proc'[q] = proc[q]

\* A step of process p that neither migrates nor writes a row.
LEMMA QuietStep ==
  ASSUME IInv, NEW p \in Procs, StepOf(p),
         UNCHANGED <<schema, taskRows, rows, tasks>>,
         fresh' \in {fresh, fresh + 1},
         proc'[p].version \in {proc[p].version, 0, Len(schema)},
         proc'[p].memory => proc[p].memory,
         proc'[p].source \in {proc[p].source, 0}
  PROVE  IInv'
<1>1. /\ \A q \in Procs : /\ proc'[q].version \in {proc[q].version, 0, Len(schema)}
                          /\ proc'[q].memory => proc[q].memory
                          /\ proc'[q].source \in {proc[q].source, 0}
      /\ ProcTypes'
  BY DEF StepOf, IInv, ProcTypes
<1>2. MigrationInv'
  BY <1>1 DEF IInv, MigrationInv
<1>3. TypeOK' /\ NothingLearned'
  BY DEF IInv, TypeOK, NothingLearned
<1>4. SourceInv'
  <2>1. fresh \in Nat \ {0} /\ 0 \notin taskRows
    BY DEF IInv, TypeOK
  <2> QED
    BY <1>1, <2>1 DEF IInv, SourceInv
<1> QED
  BY <1>1, <1>2, <1>3, <1>4 DEF IInv

LEMMA InitInv == Init => IInv
<1> SUFFICES ASSUME Init PROVE IInv
  OBVIOUS
<1>1. TypeOK /\ NothingLearned
  BY LearningAssumption DEF Init, TypeOK, NothingLearned
<1>2. ProcTypes /\ SourceInv
  BY DEF Init, ProcTypes, SourceInv, Closed, Fields
<1>3. MigrationInv
  <2>1. schema \in Seq(Nat) /\ Len(schema) = 0
    BY DEF Init
  <2>2. \A p \in Procs : proc[p].version = 0 /\ proc[p].memory = FALSE
    BY DEF Init, Closed
  <2> QED
    BY <2>1, <2>2 DEF MigrationInv, Migrations
<1> QED
  BY <1>1, <1>2, <1>3 DEF IInv

LEMMA OpenStep ==
  ASSUME IInv, NEW p \in Procs, Open(p)
  PROVE  IInv'
<1>1. DOMAIN proc = Procs /\ DOMAIN proc[p] = Fields
  BY DEF IInv, ProcTypes
<1>2. /\ StepOf(p)
      /\ proc'[p].version = Len(schema) /\ proc'[p].memory = FALSE
      /\ proc'[p].source = 0
  BY <1>1 DEF Open, StepOf, Closed, Fields
<1> QED
  BY <1>2, QuietStep DEF Open

\* The next migration is the one after the last that was applied.
LEMMA MigrateStep ==
  ASSUME IInv, NEW p \in Procs, Migrate(p)
  PROVE  IInv'
<1> DEFINE next == proc[p].version + 1
<1>0. /\ DOMAIN proc = Procs /\ DOMAIN proc[p] = Fields
      /\ proc[p].version \in 0 .. Len(schema)
      /\ schema \in Seq(Nat) /\ Len(schema) <= 2
      /\ \A k \in 1 .. Len(schema) : schema[k] = k
      /\ \A q \in Procs : /\ proc[q].version \in 0 .. Len(schema)
                          /\ proc[q].memory => Len(schema) = 2
  BY DEF IInv, ProcTypes, MigrationInv, Migrations
<1>n. PICK n \in Nat : n = Len(schema) /\ proc[p].version \in 0 .. n /\ n <= 2
  BY <1>0
<1>1. UNCHANGED <<taskRows, rows, fresh, tasks>>
  BY DEF Migrate
<1>2. CASE next <= Migrations /\ Taken(next)
  <2>1. proc' = [proc EXCEPT ![p].pc = "ready"] /\ UNCHANGED schema
    BY <1>n, <1>2 DEF Migrate, Migrations
  <2>2. /\ StepOf(p)
        /\ \A f \in Fields : f # "pc" => proc'[p][f] = proc[p][f]
    BY <1>0, <2>1 DEF StepOf, Fields
  <2>3. /\ proc'[p].version = proc[p].version
        /\ proc'[p].memory = proc[p].memory /\ proc'[p].source = proc[p].source
    BY <2>2 DEF Fields
  <2> QED
    BY <1>1, <2>1, <2>2, <2>3, QuietStep
<1>3. CASE next > Migrations
  <2>1. /\ UNCHANGED schema
        /\ proc' = [proc EXCEPT ![p].memory = TRUE,
                                ![p].pc = "decay", ![p].next = "ready"]
    BY <1>3 DEF Migrate
  <2>2. /\ StepOf(p)
        /\ \A f \in Fields : f \notin {"pc", "memory", "next"} =>
             proc'[p][f] = proc[p][f]
    BY <1>0, <2>1 DEF StepOf, Fields
  <2>3. proc'[p].version = proc[p].version /\ proc'[p].source = proc[p].source
    BY <2>2 DEF Fields
  <2>4. Len(schema) = 2
    <3>1. n = 2
      BY <1>n, <1>3 DEF Migrations
    <3> QED
      BY <1>n, <3>1
  <2>5. MigrationInv'
    BY <1>0, <2>1, <2>2, <2>3, <2>4 DEF MigrationInv, StepOf, Migrations
  <2>6. TypeOK' /\ ProcTypes' /\ SourceInv' /\ NothingLearned'
    BY <1>1, <2>2, <2>3
       DEF IInv, TypeOK, ProcTypes, SourceInv, NothingLearned, StepOf
  <2> QED
    BY <2>5, <2>6 DEF IInv
<1>4. CASE next <= Migrations /\ ~Taken(next)
  <2>1. /\ schema' = Append(schema, next)
        /\ proc' = [proc EXCEPT ![p].version = next]
    BY <1>n, <1>4 DEF Migrate, Migrations
  <2>2. /\ StepOf(p) /\ proc'[p].version = next
        /\ \A f \in Fields : f # "version" => proc'[p][f] = proc[p][f]
    BY <1>0, <2>1 DEF StepOf, Fields
  <2>3. proc'[p].memory = proc[p].memory /\ proc'[p].source = proc[p].source
    BY <2>2 DEF Fields
  <2>4. next = Len(schema) + 1
    <3>1. SUFFICES ASSUME next <= Len(schema) PROVE FALSE
      BY <1>0
    <3>2. next \in DOMAIN schema /\ schema[next] = next
      BY <1>0, <3>1
    <3> QED
      BY <1>4, <3>2 DEF Taken, Range
  <2>5. MigrationInv'
    <3>1. /\ schema' \in Seq(Nat) /\ Len(schema') = next
          /\ \A k \in 1 .. Len(schema') : schema'[k] = k
      BY <1>0, <2>1, <2>4
    <3>2. \A q \in Procs : ~proc[q].memory
      <4>1. n < 2
        BY <1>n, <1>4, <2>4 DEF Migrations
      <4> QED
        BY <1>0, <1>n, <4>1
    <3>3. \A q \in Procs : proc'[q].version \in 0 .. next /\ ~proc'[q].memory
      BY <1>0, <2>2, <2>3, <2>4, <3>2 DEF StepOf
    <3> QED
      BY <1>4, <3>1, <3>3 DEF MigrationInv
  <2>6. TypeOK' /\ ProcTypes' /\ SourceInv' /\ NothingLearned'
    BY <1>1, <2>2, <2>3
       DEF IInv, TypeOK, ProcTypes, SourceInv, NothingLearned, StepOf
  <2> QED
    BY <2>5, <2>6 DEF IInv
<1>5. next <= Migrations \/ next > Migrations
  BY <1>n DEF Migrations
<1> QED
  BY <1>2, <1>3, <1>4, <1>5

LEMMA DecayStep ==
  ASSUME IInv, NEW p \in Procs, DecayRead(p) \/ DecayWrite(p)
  PROVE  IInv'
<1>0. DOMAIN proc = Procs /\ DOMAIN proc[p] = Fields
  BY DEF IInv, ProcTypes
<1>1. UNCHANGED <<schema, taskRows, fresh, tasks>>
  BY DEF DecayRead, DecayWrite
<1>2. /\ StepOf(p)
      /\ \A f \in Fields : f \notin {"pc", "doomed"} => proc'[p][f] = proc[p][f]
  <2>1. CASE DecayRead(p)
    BY <1>0, <2>1 DEF DecayRead, StepOf, Fields
  <2>2. CASE DecayWrite(p)
    BY <1>0, <2>2 DEF DecayWrite, StepOf, Fields
  <2> QED
    BY <2>1, <2>2
<1>3. /\ proc'[p].version = proc[p].version /\ proc'[p].memory = proc[p].memory
      /\ proc'[p].source = proc[p].source
  BY <1>2 DEF Fields
<1>4. DOMAIN rows = {} /\ DOMAIN rows' = {}
  BY DEF IInv, NothingLearned, DecayRead, DecayWrite, WithoutRow
<1>5. /\ TypeOK' /\ NothingLearned'
      /\ ProcTypes' /\ MigrationInv' /\ SourceInv'
  <2>1. TypeOK' /\ NothingLearned'
    BY <1>1, <1>4 DEF IInv, TypeOK, NothingLearned
  <2>2. ProcTypes' /\ MigrationInv' /\ SourceInv'
    BY <1>1, <1>2, <1>3 DEF IInv, ProcTypes, MigrationInv, SourceInv, StepOf
  <2> QED
    BY <2>1, <2>2
<1> QED
  BY <1>5 DEF IInv

\* The row of a task has another id than its TaskInput, and both are new.
LEMMA WorkStep ==
  ASSUME IInv, NEW p \in Procs, Work(p)
  PROVE  IInv'
<1>0. /\ DOMAIN proc = Procs /\ DOMAIN proc[p] = Fields
      /\ fresh \in Nat \ {0} /\ taskRows \subseteq 1 .. fresh - 1
      /\ tasks \in 0..MaxTasks
  BY DEF IInv, ProcTypes, TypeOK
<1>w. tasks < MaxTasks
  BY DEF Work
<1>1. /\ fresh' = fresh + 2 /\ tasks' = tasks + 1
      /\ UNCHANGED <<schema, rows>>
      /\ taskRows' \in {taskRows, taskRows \union {fresh + 1}}
  BY DEF Work
<1>2. /\ StepOf(p)
      /\ proc'[p].version = proc[p].version /\ proc'[p].memory = proc[p].memory
      /\ proc'[p].source \in {proc[p].source, fresh}
  <2>1. CASE UNCHANGED proc
    BY <1>0, <2>1 DEF StepOf
  <2>2. CASE \E new : proc' = [proc EXCEPT ![p].pc = "dedup", ![p].new = new,
                                           ![p].source = fresh]
    <3>1. /\ StepOf(p) /\ proc'[p].source = fresh
          /\ \A f \in Fields : f \notin {"pc", "new", "source"} =>
               proc'[p][f] = proc[p][f]
      BY <1>0, <2>2 DEF StepOf, Fields
    <3> QED
      BY <3>1 DEF Fields
  <2> QED
    BY <2>1, <2>2 DEF Work, Source
<1>3. TypeOK' /\ NothingLearned'
  BY <1>0, <1>w, <1>1, LearningAssumption DEF IInv, TypeOK, NothingLearned
<1>4. ProcTypes' /\ MigrationInv'
  BY <1>1, <1>2 DEF IInv, ProcTypes, MigrationInv, StepOf
<1>5. SourceInv'
  <2> SUFFICES ASSUME NEW q \in Procs
               PROVE  /\ proc'[q].source \in 0 .. fresh' - 1
                      /\ proc'[q].source \notin taskRows'
    BY DEF SourceInv
  <2>1. /\ proc[q].source \in 0 .. fresh - 1 /\ proc[q].source \notin taskRows
        /\ proc'[q].source \in {proc[q].source, fresh}
    BY <1>2 DEF IInv, SourceInv, StepOf
  <2>2. fresh \notin taskRows
    BY <1>0
  <2> QED
    BY <1>0, <1>1, <2>1, <2>2
<1> QED
  BY <1>3, <1>4, <1>5 DEF IInv

\* The foreign key refuses what is to be inserted.
LEMMA InsertStep ==
  ASSUME IInv, NEW p \in Procs, Insert(p)
  PROVE  IInv'
<1>0. /\ DOMAIN proc = Procs /\ DOMAIN proc[p] = Fields
      /\ proc[p].source \notin taskRows
  BY DEF IInv, ProcTypes, SourceInv
<1>1. /\ UNCHANGED <<schema, taskRows, tasks>> /\ fresh' = fresh + 1
      /\ proc' = [proc EXCEPT ![p].new = Tail(@)]
      /\ UNCHANGED rows
  BY <1>0 DEF Insert
<1>2. StepOf(p) /\ \A f \in Fields : f # "new" => proc'[p][f] = proc[p][f]
  BY <1>0, <1>1 DEF StepOf, Fields
<1>3. /\ proc'[p].version = proc[p].version /\ proc'[p].memory = proc[p].memory
      /\ proc'[p].source = proc[p].source
  BY <1>2 DEF Fields
<1> QED
  BY <1>1, <1>2, <1>3, QuietStep

LEMMA OtherStep ==
  ASSUME IInv, NEW p \in Procs, Deduplicate(p) \/ Finish(p) \/ Exit(p)
  PROVE  IInv'
<1>0. DOMAIN proc = Procs /\ DOMAIN proc[p] = Fields
  BY DEF IInv, ProcTypes
<1>1. UNCHANGED <<schema, taskRows, rows, fresh, tasks>>
  BY DEF Deduplicate, Finish, Exit
<1>2. CASE Deduplicate(p) \/ Finish(p)
  <2>1. StepOf(p) /\ \A f \in Fields : f \notin {"pc", "new", "next"} =>
                       proc'[p][f] = proc[p][f]
    <3>1. CASE Deduplicate(p)
      BY <1>0, <3>1 DEF Deduplicate, StepOf, Fields
    <3>2. CASE Finish(p)
      BY <1>0, <3>2 DEF Finish, StepOf, Fields
    <3> QED
      BY <1>2, <3>1, <3>2
  <2>2. /\ proc'[p].version = proc[p].version /\ proc'[p].memory = proc[p].memory
        /\ proc'[p].source = proc[p].source
    BY <2>1 DEF Fields
  <2> QED
    BY <1>1, <2>1, <2>2, QuietStep
<1>3. CASE Exit(p)
  <2>1. /\ StepOf(p)
        /\ proc'[p].version = 0 /\ proc'[p].memory = FALSE /\ proc'[p].source = 0
    BY <1>0, <1>3 DEF Exit, StepOf, Closed, Fields
  <2> QED
    BY <1>1, <2>1, QuietStep
<1> QED
  BY <1>2, <1>3

LEMMA InductiveStep == IInv /\ [Next]_vars => IInv'
<1> SUFFICES ASSUME IInv, [Next]_vars PROVE IInv'
  OBVIOUS
<1>1. ASSUME NEW p \in Procs,
             \/ Open(p) \/ Migrate(p) \/ DecayRead(p) \/ DecayWrite(p) \/ Work(p)
             \/ Deduplicate(p) \/ Insert(p) \/ Finish(p) \/ Exit(p)
      PROVE  IInv'
  BY <1>1, OpenStep, MigrateStep, DecayStep, WorkStep, InsertStep, OtherStep
<1>2. CASE UNCHANGED vars
  BY <1>2 DEF vars, IInv, TypeOK, ProcTypes, MigrationInv, SourceInv, NothingLearned
<1> QED
  BY <1>1, <1>2 DEF Next

-----------------------------------------------------------------------------
(* Theorems *)

\* The inductive invariant holds in every reachable state.
THEOREM Invariance == Spec => []IInv
  BY InitInv, InductiveStep, PTL DEF Spec

\* Every row has an id that was handed out before.
THEOREM TypeCorrect == Spec => []TypeOK
<1>1. IInv => TypeOK
  BY DEF IInv
<1> QED
  BY <1>1, Invariance, PTL

\* Each migration is applied once and in order, and a process has a store only
\* when all of them are, however many processes open the database at once.
THEOREM MigratedInOrder == Spec => []MigratedOnce
<1>1. IInv => MigratedOnce
  <2> SUFFICES ASSUME IInv PROVE MigratedOnce
    OBVIOUS
  <2>1. schema \in Seq(Nat) /\ \A k \in 1 .. Len(schema) : schema[k] = k
    BY DEF IInv, MigrationInv
  <2>2. schema = [k \in 1 .. Len(schema) |-> k]
    BY <2>1
  <2> QED
    BY <2>2 DEF MigratedOnce, IInv, MigrationInv
<1> QED
  BY <1>1, Invariance, PTL

\* The table of learnings stays empty, whatever the tasks teach and however the
\* processes interleave: no task a learning names ever has a row.
THEOREM TableStaysEmpty == Spec => []NothingLearned
<1>1. IInv => NothingLearned
  BY DEF IInv
<1> QED
  BY <1>1, Invariance, PTL
=============================================================================
