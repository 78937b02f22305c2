--------------------------- MODULE LearningStore ----------------------------
(***************************************************************************)
(* The learnings table of the database that every openkoi process opens:   *)
(* migrations when it is opened, decay at start and after a task, and the  *)
(* learnings extracted from a task, which are dropped when the table has a *)
(* similar one and inserted otherwise.  Statements of different processes  *)
(* interleave: there is no transaction around a decay or the learnings of  *)
(* a task, and the mutex of the store is inside one process.               *)
(*                                                                         *)
(* A learning names the task it comes from, and the database, which checks *)
(* foreign keys, refuses one whose task has no row.  A text is its set of  *)
(* words, as the similarity sees it.                                       *)
(***************************************************************************)
EXTENDS Integers, FiniteSets, SequencesExt

CONSTANTS
  Procs,       \* processes: CLI runs and the daemon
  Histories,   \* iteration histories a task may leave (sequences of cycles)
  Answers,     \* what the model may answer when asked for learnings
  MaxTasks     \* bound: tasks ever run

Migrations == 2

ASSUME LearningAssumption == MaxTasks \in Nat

VARIABLES
  schema,    \* versions in _migrations, in the order they were applied
  taskRows,  \* ids of the rows of tasks
  rows,      \* learnings: id -> [source, text]
  fresh,     \* the next id that is handed out: they are unique (uuid v4)
  tasks,     \* tasks run so far
  proc       \* per process: what it is at, and what it holds

vars == <<schema, taskRows, rows, fresh, tasks, proc>>

-----------------------------------------------------------------------------
(* Extraction *)

Learning(type, text, confidence) ==
  [type |-> type, text |-> text, confidence |-> confidence]

Evaluated(c) == c.score >= 0

\* Scores are in hundredths, -1 for a cycle that was not evaluated.
ExtractFromScores(cs) ==
  LET fell(k) == /\ Evaluated(cs[k]) /\ Evaluated(cs[k + 1])
                 /\ cs[k + 1].score < cs[k].score - 10
      scores == SelectSeq(cs, Evaluated)
      gain == scores[Len(scores)].score - scores[Len(scores) - 1].score
  IN  FlattenSeq([k \in 1 .. Len(cs) - 1 |->
        IF fell(k)
        THEN <<Learning("anti_pattern", {"regressed", ToString(cs[k].score),
                                         ToString(cs[k + 1].score)}, 70)>>
        ELSE <<>>])
      \o IF Len(cs) >= 3 /\ Len(scores) >= 2 /\ gain \in -1..1
         THEN <<Learning("heuristic", {"diminishing", "returns"}, 50)>>
         ELSE <<>>

ExtractFromFindings(cs) ==
  IF Len(cs) >= 2 /\ Evaluated(Last(cs)) /\ Last(cs).blockers > 0
  THEN <<Learning("anti_pattern", {"unresolved", ToString(Last(cs).blockers),
                  ToString(Len(cs))}, 60)>>
  ELSE <<>>

WorthLlmExtraction(cs) ==
  Len(cs) >= 2 /\ \E k \in DOMAIN cs : Evaluated(cs[k]) /\ cs[k].findings >= 3

\* parse_llm_learnings: what it holds after each line is [type, content,
\* confidence, out]; a TYPE line closes the learning before it, and a learning
\* without a TYPE or a CONTENT line is dropped.  A text is its set of words, and
\* may be empty.
ParseLearnings(lines) ==
  LET none == [type |-> "none", content |-> <<>>, confidence |-> 50, out |-> <<>>]
      close(s) == IF s.type = "none" \/ s.content = <<>> THEN s.out
                  ELSE Append(s.out, Learning(s.type, s.content[1], s.confidence))
      step(l, s) ==
        IF l.key = "TYPE"
        THEN [type |-> l.value, content |-> <<>>, confidence |-> 50,
              out |-> close(s)]
        ELSE IF l.key = "CONTENT" THEN [s EXCEPT !.content = <<l.value>>]
        ELSE [s EXCEPT !.confidence = l.value]
  IN  close(FoldLeft(LAMBDA s, l : step(l, s), none, lines))

\* The model's learnings for a history: none if it is not asked or fails.
LlmLearnings(cs) ==
  {<<>>} \union
  IF WorthLlmExtraction(cs) THEN {ParseLearnings(a) : a \in Answers} ELSE {}

Extracted(cs) ==
  {ExtractFromScores(cs) \o ExtractFromFindings(cs) \o l : l \in LlmLearnings(cs)}

\* text_similarity(a, b) > 0.8: two texts without words are alike.
Similar(a, b) ==
  \/ a \union b = {}
  \/ 5 * Cardinality(a \intersect b) > 4 * Cardinality(a \union b)

-----------------------------------------------------------------------------
(* Processes *)

\* A process that is closed; `memory` is whether it got a store, `source` the
\* task its learnings come from, `doomed` the rows its decay is to delete.
Closed == [pc |-> "closed", memory |-> FALSE, next |-> "closed", version |-> 0,
           new |-> <<>>, source |-> 0, doomed |-> {}]

Init ==
  /\ schema = <<>>
  /\ taskRows = {}
  /\ rows = <<>>
  /\ fresh = 1
  /\ tasks = 0
  /\ proc = [p \in Procs |-> Closed]

At(p, pc) == proc[p].pc = pc

\* init_store: the version the database has is read before any transaction.
Open(p) ==
  /\ At(p, "closed")
  /\ proc' = [proc EXCEPT ![p] = [Closed EXCEPT !.pc = "migrate",
                                                !.version = Len(schema)]]
  /\ UNCHANGED <<schema, taskRows, rows, fresh, tasks>>

TakenMutant(version) == FALSE

\* The tables or the version of a migration are in the database already.
Taken(version) == version \in Range(schema)

\* The next pending migration, in a transaction, which fails if another process
\* was faster: the process then goes on without a store.
Migrate(p) ==
  LET next == proc[p].version + 1 IN
  /\ At(p, "migrate")
  /\ IF next > Migrations
     THEN /\ proc' = [proc EXCEPT ![p].memory = TRUE,
                                  ![p].pc = "decay", ![p].next = "ready"]
          /\ UNCHANGED schema
     ELSE IF Taken(next)
     THEN proc' = [proc EXCEPT ![p].pc = "ready"] /\ UNCHANGED schema
     ELSE /\ schema' = Append(schema, next)
          /\ proc' = [proc EXCEPT ![p].version = next]
  /\ UNCHANGED <<taskRows, rows, fresh, tasks>>

\* run_decay reads the table, takes from each confidence what the days since
\* the row was last used cost it, and works out which rows fell below the
\* threshold.  Confidences and dates are left out: any row may.
DecayRead(p) ==
  /\ At(p, "decay")
  /\ \E ids \in SUBSET DOMAIN rows :
       proc' = [proc EXCEPT ![p].pc = "decaying", ![p].doomed = ids]
  /\ UNCHANGED <<schema, taskRows, rows, fresh, tasks>>

WithoutRow(id) == [k \in DOMAIN rows \ {id} |-> rows[k]]

\* delete_learning of the rows that are to go, one statement each; one that is
\* gone already is no error.
DecayWrite(p) ==
  /\ At(p, "decaying")
  /\ IF proc[p].doomed = {}
     THEN proc' = [proc EXCEPT ![p].pc = proc[p].next] /\ UNCHANGED rows
     ELSE \E id \in proc[p].doomed :
          /\ proc' = [proc EXCEPT ![p].doomed = @ \ {id}]
          /\ rows' = WithoutRow(id)
  /\ UNCHANGED <<schema, taskRows, fresh, tasks>>

SourceMutant(input, row) == row

\* The task a learning is said to come from: the cycles carry the id of the
\* TaskInput, while the row of tasks has an id the orchestrator made.
Source(input, row) == input

\* run_task: the orchestrator inserts a row for the task, which may fail
\* without a word, runs it, and the learnings of its cycles are extracted.
Work(p) ==
  LET input == fresh
      row == fresh + 1
  IN
  /\ At(p, "ready")
  /\ tasks < MaxTasks
  /\ tasks' = tasks + 1
  /\ fresh' = fresh + 2
  /\ IF proc[p].memory
     THEN /\ taskRows' \in {taskRows, taskRows \union {row}}
          /\ \E cs \in Histories : \E new \in Extracted(cs) :
               proc' = [proc EXCEPT ![p].pc = "dedup", ![p].new = new,
                                    ![p].source = Source(input, row)]
     ELSE UNCHANGED <<taskRows, proc>>
  /\ UNCHANGED <<schema, rows>>

Duplicates(new) == {id \in DOMAIN rows : Similar(new.text, rows[id].text)}

\* deduplicate reads the table once and drops each new learning that is similar
\* to a row of it.  The row is reinforced, which counts its use and dates it; a
\* failure to do so is ignored, and the learning is dropped all the same.
Deduplicate(p) ==
  /\ At(p, "dedup")
  /\ proc' = [proc EXCEPT ![p].pc = "insert",
                ![p].new = SelectSeq(@, LAMBDA l : Duplicates(l) = {})]
  /\ UNCHANGED <<schema, taskRows, rows, fresh, tasks>>

\* insert_learning of the next one: the foreign key refuses a source that is no
\* row of tasks, and the error is ignored.
Insert(p) ==
  LET row == [source |-> proc[p].source, text |-> Head(proc[p].new).text] IN
  /\ At(p, "insert")
  /\ proc[p].new # <<>>
  /\ proc' = [proc EXCEPT ![p].new = Tail(@)]
  /\ fresh' = fresh + 1
  /\ IF row.source \in taskRows
     THEN rows' = [id \in DOMAIN rows \union {fresh} |->
                    IF id = fresh THEN row ELSE rows[id]]
     ELSE UNCHANGED rows
  /\ UNCHANGED <<schema, taskRows, tasks>>

\* The end of run_task: the table decays again and the process ends.  The
\* daemon goes on to its next task.
Finish(p) ==
  /\ At(p, "insert")
  /\ proc[p].new = <<>>
  /\ \/ proc' = [proc EXCEPT ![p].pc = "decay", ![p].next = "closed"]
     \/ proc' = [proc EXCEPT ![p].pc = "ready"]
  /\ UNCHANGED <<schema, taskRows, rows, fresh, tasks>>

\* The program can be closed at any time; SQLite keeps what was committed.
Exit(p) ==
  /\ ~At(p, "closed")
  /\ proc' = [proc EXCEPT ![p] = Closed]
  /\ UNCHANGED <<schema, taskRows, rows, fresh, tasks>>

Next ==
  \E p \in Procs :
    \/ Open(p) \/ Migrate(p) \/ DecayRead(p) \/ DecayWrite(p) \/ Work(p)
    \/ Deduplicate(p) \/ Insert(p) \/ Finish(p) \/ Exit(p)

Spec == Init /\ [][Next]_vars

-----------------------------------------------------------------------------
(* Properties *)

\* Types, and ids of rows that were handed out before.
TypeOK ==
  /\ fresh \in Nat \ {0} /\ tasks \in 0..MaxTasks
  /\ taskRows \subseteq 1 .. fresh - 1
  /\ DOMAIN rows \subseteq 1 .. fresh - 1

\* Each migration is applied once, in order, however many processes open the
\* database for the first time together, and a process has a store only when
\* all of them are.
MigratedOnce ==
  /\ schema = [k \in 1 .. Len(schema) |-> k]
  /\ \A p \in Procs : proc[p].memory => Len(schema) = Migrations

\* However many tasks of however many processes teach something, in whatever
\* order they insert, deduplicate and decay, the table stays empty: a learning
\* names the id of its TaskInput, and none of these ever becomes a row of tasks.
\* Nothing is recalled, reinforced or decayed, and no learning is a duplicate.
NothingLearned == DOMAIN rows = {}
=============================================================================
