---------------------------- MODULE TaskStateFile ----------------------------
(***************************************************************************)
(* The callback of core/state.rs that shows a run to other processes:      *)
(* every progress event rewrites current-task.json through a temporary     *)
(* file, and Complete appends a line to task-history.jsonl (rotated when   *)
(* long) and removes current-task.json.                                    *)
(*                                                                         *)
(* A step is one system call of one run.  Runs are those of the CLI (run   *)
(* and chat): one process makes its runs one after the other, two          *)
(* processes of one user make theirs at the same time, over the same       *)
(* files.  The file system keeps names and inodes apart: a run writes to   *)
(* the inode it opened, whatever name that has by then.                    *)
(*                                                                         *)
(* Another process reads the files, one after the other: GET /tasks/:id of *)
(* the API looks for a task first in the one, then in the other.           *)
(***************************************************************************)
EXTENDS ProgressEvents, ListOperators

CONSTANTS
  Runs,           \* runs, each a task of its own
  Concurrent,     \* whether the runs belong to different processes
  Faults,         \* the files on which a system call may fail
  Crashes,        \* whether the process of a run may die
  MaxIterations,  \* bound: iterations announced by a run
  Inodes,         \* inodes of the two names of the state file
  MaxLines,       \* lines at which the history is rotated (1000)
  KeepLines,      \* lines a rotation keeps (500)
  NoInode,        \* a name that does not exist, a run with no file open
  Empty,          \* what a new or truncated inode holds
  Torn,           \* a part of a document or line, or parts of two
  NewLine,        \* the end of a line
  Nothing         \* no task is asked for

ASSUME StateFileAssumption ==
  /\ Concurrent \in BOOLEAN
  /\ Faults \subseteq {"state", "history"}
  /\ Crashes \in BOOLEAN
  /\ MaxIterations \in Nat
  /\ MaxLines \in Nat
  /\ KeepLines \in 1..MaxLines
  /\ NoInode \notin Inodes
  /\ Empty # Torn
  /\ {NewLine, Torn, Nothing} \cap Runs = {}
  /\ NewLine # Torn

VARIABLES
  event,    \* the last event each run emitted
  pc,       \* the next system call of each run
  fd,       \* the inode each run has open
  tmp,      \* the inode named .current-task.json.tmp
  dst,      \* the inode named current-task.json
  content,  \* what each inode holds
  history,  \* task-history.jsonl: entries and line ends
  lines,    \* the lines each run read to rotate
  asked,    \* the task a request has still to look for in the second file
  missed,   \* runs one of whose calls on the state file failed
  damaged,  \* whether a failure or a death interrupted a history update
  log       \* the runs recorded in the history, in order

stateFile == <<fd, tmp, dst, content>>
historyFile == <<history, lines>>
ghosts == <<missed, damaged, log>>
vars == <<event, pc, stateFile, historyFile, asked, ghosts>>

-----------------------------------------------------------------------------
(* Data.  A definition whose name ends in Mutant is a wrong version of the  *)
(* one after it, used only to show that a property would notice.            *)

\* What TaskState tells apart: the task, and the event it was written for.
Doc(r, e) == [run |-> r, event |-> e]

Events == [name : EventNames, iteration : 0..MaxIterations]

ASSUME DocAssumption ==
  \A r \in Runs, e \in Events : Doc(r, e) \notin {Empty, Torn}

InStateFile == {"create", "write", "rename"}
InHistory   == {"count", "rotate", "truncate", "rewrite", "append", "newline"}
Ended       == {"ended", "dead"}
Active      == {r \in Runs : pc[r] \notin {"waiting"} \union Ended}

MayFail(file) == file \in Faults

\* The lines of a file: the entries up to each line end, and what follows the
\* last one.
LinesOf(file) ==
  LET ends  == {0} \union {k \in DOMAIN file : file[k] = NewLine}
      after == IF \E k \in ends : k = Len(file) THEN ends \ {Len(file)} ELSE ends
      starts == Ascending(after)
      end(k) == IF \E e \in ends : e > k
                THEN CHOOSE e \in ends : e > k /\ \A o \in ends : o > k => e <= o
                ELSE Len(file) + 1
  IN  [n \in DOMAIN starts |-> SubSeq(file, starts[n] + 1, end(starts[n]) - 1)]

\* Lines that read_history parses: one entry each.
Readable(file) ==
  LET ls == LinesOf(file)
      whole == EntriesAt(ls, {n \in DOMAIN ls : Len(ls[n]) = 1 /\ ls[n][1] # Torn})
  IN  [n \in DOMAIN whole |-> whole[n][1]]

KeepFirstMutant(ls) == SubSeq(ls, 1, KeepLines)

\* &lines[lines.len() - 500..]
Keep(ls) ==
  IF Len(ls) > KeepLines THEN SubSeq(ls, Len(ls) - KeepLines + 1, Len(ls)) ELSE ls

\* keep.join("\n") + "\n"
Joined(ls) == FlattenSeq([n \in DOMAIN ls |-> Append(ls[n], NewLine)])

\* line_count >= 1000
TooLong(file) == Len(LinesOf(file)) >= MaxLines

-----------------------------------------------------------------------------
Init ==
  /\ event = [r \in Runs |-> NoEvent]
  /\ pc = [r \in Runs |-> "waiting"]
  /\ fd = [r \in Runs |-> NoInode]
  /\ tmp = NoInode
  /\ dst = NoInode
  /\ content = [f \in Inodes |-> Empty]
  /\ history = <<>>
  /\ lines = [r \in Runs |-> <<>>]
  /\ asked = Nothing
  /\ missed = {}
  /\ damaged = FALSE
  /\ log = <<>>

Goto(r, label) == pc' = [pc EXCEPT ![r] = label]

\* write_state_file returns an error, which the callback only logs.
StateFault(r) ==
  /\ Goto(r, "idle")
  /\ missed' = missed \union {r}
  /\ UNCHANGED <<event, tmp, dst, historyFile, damaged, log>>

\* append_history returns an error, which the callback ignores.  A failed write
\* has damaged the file.
HistoryFault(r) ==
  /\ Goto(r, "remove")
  /\ damaged' = (damaged \/ pc[r] \in {"rewrite", "append", "newline"})
  /\ UNCHANGED <<event, stateFile, lines, missed, log>>

\* The inode f loses its name, if it is one: nobody reads it any more.
Unnamed(f) == [g \in Inodes |-> IF g = f THEN Empty ELSE content[g]]

\* The run emits its next event.  Complete takes the early return.
Emit(r) ==
  /\ \/ pc[r] = "idle"
     \/ pc[r] = "waiting" /\ (Concurrent \/ Active = {})
  /\ \E e \in Events :
       /\ Follows(event[r], e)
       /\ event' = [event EXCEPT ![r] = e]
       /\ Goto(r, IF e.name = "Complete" THEN "count" ELSE "create")
  /\ UNCHANGED <<stateFile, historyFile, ghosts>>

\* A ToolCall event rewrites the file for the same iteration.
ToolCall(r) ==
  /\ pc[r] = "idle"
  /\ event[r].name = "IterationStart"
  /\ Goto(r, "create")
  /\ UNCHANGED <<event, stateFile, historyFile, ghosts>>

\* run() returns an error without an iteration, hence without Complete.
GiveUp(r) ==
  /\ pc[r] = "idle"
  /\ event[r].name = "PlanReady"
  /\ Goto(r, "ended")
  /\ UNCHANGED <<event, stateFile, historyFile, ghosts>>

CreateInPlaceMutant(r) ==
  /\ pc[r] = "create"
  /\ \E f \in Inodes :
       /\ dst \in {f, NoInode}
       /\ fd' = [fd EXCEPT ![r] = f]
       /\ content' = [content EXCEPT ![f] = Empty]
       /\ tmp' = f
       /\ dst' = f
  /\ Goto(r, "write")
  /\ UNCHANGED <<event, historyFile, ghosts>>

\* File::create: truncates the file of that name, or makes one.
Create(r) ==
  /\ pc[r] = "create"
  /\ \/ /\ \E f \in Inodes :
             /\ \/ tmp = f
                \/ tmp = NoInode /\ f # dst /\ \A o \in Runs : fd[o] # f
             /\ tmp' = f
             /\ fd' = [fd EXCEPT ![r] = f]
             /\ content' = [content EXCEPT ![f] = Empty]
        /\ Goto(r, "write")
        /\ UNCHANGED <<event, dst, historyFile, ghosts>>
     \/ /\ MayFail("state")
        /\ StateFault(r)
        /\ UNCHANGED <<fd, content>>

\* write_all at the start of the open file.  Over a longer document it leaves
\* the tail of that one; a failed write leaves a part of its own.
Write(r) ==
  /\ pc[r] = "write"
  /\ \/ /\ \E new \in {Doc(r, event[r])}
                      \union {x \in {Torn} : content[fd[r]] # Empty} :
             content' = [content EXCEPT ![fd[r]] = new]
        /\ Goto(r, "rename")
        /\ UNCHANGED <<event, fd, tmp, dst, historyFile, ghosts>>
     \/ /\ MayFail("state")
        /\ \E new \in {content[fd[r]], Torn} :
             content' = [content EXCEPT ![fd[r]] = new]
        /\ fd' = [fd EXCEPT ![r] = NoInode]
        /\ StateFault(r)

\* rename fails when another run renamed the temporary file first.
Rename(r) ==
  /\ pc[r] = "rename"
  /\ fd' = [fd EXCEPT ![r] = NoInode]
  /\ \/ /\ tmp # NoInode
        /\ dst' = tmp
        /\ tmp' = NoInode
        /\ content' = Unnamed(dst)
        /\ Goto(r, "idle")
        /\ UNCHANGED <<event, historyFile, ghosts>>
     \/ /\ tmp = NoInode \/ MayFail("state")
        /\ StateFault(r)
        /\ UNCHANGED content

-----------------------------------------------------------------------------
(* Complete: append_history, then remove_file *)

\* The length check.  Lines have no length here: any file that is not empty may
\* be beyond 1 MB (`big`).  A file that cannot be read is not rotated.
Count(r) ==
  /\ pc[r] = "count"
  /\ \E failed \in {FALSE, MayFail("history")}, big \in {FALSE} \union {history # <<>>} :
       /\ Goto(r, IF big \/ (~failed /\ TooLong(history)) THEN "rotate" ELSE "append")
       /\ damaged' = (damaged \/ failed)
  /\ UNCHANGED <<event, stateFile, historyFile, missed, log>>

\* rotate_history: read_to_string
Rotate(r) ==
  /\ pc[r] = "rotate"
  /\ \/ /\ lines' = [lines EXCEPT ![r] = LinesOf(history)]
        /\ Goto(r, "truncate")
        /\ UNCHANGED <<event, stateFile, history, ghosts>>
     \/ /\ MayFail("history")
        /\ HistoryFault(r)
        /\ UNCHANGED history

\* fs::write opens the file truncated ...
Truncate(r) ==
  /\ pc[r] = "truncate"
  /\ \/ /\ history' = <<>>
        /\ Goto(r, "rewrite")
        /\ UNCHANGED <<event, stateFile, lines, ghosts>>
     \/ /\ MayFail("history")
        /\ HistoryFault(r)
        /\ UNCHANGED history

\* ... and writes from its start, over what was appended since (entries and
\* line ends are taken to be of one length).
Rewrite(r) ==
  /\ pc[r] = "rewrite"
  /\ \/ LET kept == Joined(Keep(lines[r])) IN
        /\ history' = kept \o SubSeq(history, Len(kept) + 1, Len(history))
        /\ lines' = [lines EXCEPT ![r] = <<>>]
        /\ Goto(r, "append")
        /\ UNCHANGED <<event, stateFile, ghosts>>
     \/ /\ MayFail("history")
        /\ HistoryFault(r)
        /\ \E n \in 0..Len(Joined(Keep(lines[r]))) :
             history' = SubSeq(Joined(Keep(lines[r])), 1, n)

\* writeln! writes the line and the line end with two calls.
AppendEntry(r) ==
  /\ pc[r] = "append"
  /\ \/ /\ history' = Append(history, r)
        /\ log' = Append(log, r)
        /\ Goto(r, "newline")
        /\ UNCHANGED <<event, stateFile, lines, missed, damaged>>
     \/ /\ MayFail("history")
        /\ HistoryFault(r)
        /\ history' \in {history, Append(history, Torn)}

AppendLineEnd(r) ==
  /\ pc[r] = "newline"
  /\ \/ /\ history' = Append(history, NewLine)
        /\ Goto(r, "remove")
        /\ UNCHANGED <<event, stateFile, lines, ghosts>>
     \/ /\ MayFail("history")
        /\ HistoryFault(r)
        /\ UNCHANGED history

RemoveTmpMutant(r) ==
  /\ pc[r] = "remove"
  /\ Goto(r, "ended")
  /\ tmp' = NoInode
  /\ content' = Unnamed(tmp)
  /\ UNCHANGED <<event, fd, dst, historyFile, ghosts>>

RemoveFile(r) ==
  /\ pc[r] = "remove"
  /\ Goto(r, "ended")
  /\ \/ /\ dst' = NoInode
        /\ content' = Unnamed(dst)
        /\ UNCHANGED missed
     \/ /\ MayFail("state")
        /\ missed' = missed \union {r}
        /\ UNCHANGED <<dst, content>>
  /\ UNCHANGED <<event, fd, tmp, historyFile, damaged, log>>

\* The process of the run dies; the file system keeps what was written.
Crash(r) ==
  /\ Crashes
  /\ r \in Active
  /\ Goto(r, "dead")
  /\ fd' = [fd EXCEPT ![r] = NoInode]
  /\ damaged' = (damaged \/ pc[r] \in {"rewrite", "newline"})
  /\ UNCHANGED <<event, tmp, dst, content, historyFile, missed, log>>

-----------------------------------------------------------------------------
(* The reader *)

\* read_current_task
InCurrent(r) ==
  dst # NoInode /\ content[dst] \notin {Empty, Torn} /\ content[dst].run = r

\* read_history
InRecord(r) == Contains(Readable(history), r)

FindsSwappedMutant(look, r) == IF look = 1 THEN InRecord(r) ELSE InCurrent(r)

\* get_task: the active task first, then the history.
Finds(look, r) == IF look = 1 THEN InCurrent(r) ELSE InRecord(r)

\* Before, a run's id is in neither file and nobody can ask for it.
Announced(r) ==
  event[r] # NoEvent /\ (event[r].name = "PlanReady" => pc[r] \notin InStateFile)

Position(r) == Max({0} \union {k \in DOMAIN log : log[k] = r})

\* No record of a task that was shown can be expected: it died or returned an
\* error, could not be shown or (past that call) recorded, or the history is
\* damaged, being rewritten, or was rotated past it.
Unrecorded(r) ==
  \/ pc[r] \in Ended /\ (pc[r] = "dead" \/ event[r].name # "Complete")
  \/ r \in missed
  \/ damaged \/ \E o \in Runs : pc[o] = "rewrite"
  \/ Position(r) = 0 /\ pc[r] \in {"remove", "ended"}
  \/ Position(r) > 0 /\ Len(log) - Position(r) >= KeepLines

\* A request that does not find its task in the first place it looks (bound:
\* tasks without a record are not asked for).
Ask(r) ==
  /\ asked = Nothing
  /\ Announced(r)
  /\ ~Unrecorded(r)
  /\ ~Finds(1, r)
  /\ asked' = r
  /\ UNCHANGED <<event, pc, stateFile, historyFile, ghosts>>

\* It is found there, or answered 404.
LookAgain ==
  /\ asked # Nothing
  /\ asked' = Nothing
  /\ UNCHANGED <<event, pc, stateFile, historyFile, ghosts>>

-----------------------------------------------------------------------------
Halted == (\A r \in Runs : pc[r] \in Ended) /\ UNCHANGED vars

Step(r) ==
  \/ Emit(r)
  \/ ToolCall(r)
  \/ GiveUp(r)
  \/ Create(r)
  \/ Write(r)
  \/ Rename(r)
  \/ Count(r)
  \/ Rotate(r)
  \/ Truncate(r)
  \/ Rewrite(r)
  \/ AppendEntry(r)
  \/ AppendLineEnd(r)
  \/ RemoveFile(r)
  \/ Crash(r)

Next ==
  \/ \E r \in Runs : (Step(r) /\ UNCHANGED asked) \/ Ask(r)
  \/ LookAgain
  \/ Halted

Spec == Init /\ [][Next]_vars

-----------------------------------------------------------------------------
(* Properties *)

\* Types; a run has a file open exactly while it writes and renames, and the two
\* names never lead to one inode.
TypeOK ==
  /\ event \in [Runs -> Events]
  /\ pc \in [Runs -> {"waiting", "idle", "remove"}
                     \union InStateFile \union InHistory \union Ended]
  /\ fd \in [Runs -> Inodes \union {NoInode}]
  /\ \A r \in Runs : pc[r] \in {"write", "rename"} <=> fd[r] # NoInode
  /\ tmp \in Inodes \union {NoInode}
  /\ dst \in (Inodes \ {tmp}) \union {NoInode}
  /\ \A f \in Inodes :
       \/ content[f] \in {Empty, Torn}
       \/ content[f] \in [run : Runs, event : Events]
  /\ \A k \in DOMAIN history : history[k] \in Runs \union {NewLine, Torn}
  /\ missed \subseteq Runs
  /\ damaged \in BOOLEAN
  /\ \A k \in DOMAIN log : log[k] \in Runs

\* Whoever opens current-task.json reads a whole document, whatever call failed
\* and wherever a process died before ("Atomically write", core/state.rs:216).
\* It holds for runs one after the other, and fails for two at once.
ReadersSeeWholeFile == dst # NoInode => content[dst] \notin {Empty, Torn}

\* Whoever asks for a task finds it in one of the two files, although the two
\* are read one after the other while the task moves from the one to the other.
TaskIsFound ==
  [][\A r \in Runs :
       asked = r /\ asked' = Nothing =>
         Finds(2, r) \/ Unrecorded(r)]_vars

\* When no run is active, a file that still shows one belongs to a run that
\* died, returned an error, or had a call fail: a completed run leaves none.
LeftoverIsExplained ==
  Active = {} /\ dst # NoInode =>
    \E r \in Runs :
      /\ content[dst].run = r
      /\ pc[r] = "dead" \/ event[r].name # "Complete" \/ r \in missed

\* The history reads as the latest completed runs in order, and holds at least
\* as many of them as a rotation keeps, unless an update was interrupted
\* between truncating and writing, or within a line.
HistoryKeepsRecent ==
  ~damaged /\ (\A r \in Runs : pc[r] # "rewrite") =>
    LET kept == Readable(history) IN
    /\ IsSuffix(kept, log)
    /\ Len(kept) >= Min({Len(log), KeepLines})
=============================================================================
