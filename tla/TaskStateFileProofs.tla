------------------------ MODULE TaskStateFileProofs -------------------------
(***************************************************************************)
(* Theorems about the state file and the history of TaskStateFile, for any *)
(* number of runs, inodes, iterations and lines, with every failure and    *)
(* death.  What the code does with the lines of the history is stated for  *)
(* the files it can hold: an entry, a line end, the next entry, and so on. *)
(***************************************************************************)
EXTENDS TaskStateFile, FiniteSetTheorems, WellFoundedInduction, TLAPS

Docs == [run : Runs, event : Events]

Places == {"waiting", "idle", "remove"} \union InStateFile \union InHistory
            \union Ended

\* What a run does for an event, and where it is in it.
FileTypes ==
  /\ event \in [Runs -> Events]
  /\ pc \in [Runs -> Places]
  /\ fd \in [Runs -> Inodes \union {NoInode}]
  /\ \A r \in Runs : fd[r] # NoInode => pc[r] \in {"write", "rename"}
  /\ \A r \in Runs : pc[r] \in {"write", "rename"} => fd[r] # NoInode
  /\ tmp \in Inodes \union {NoInode}
  /\ dst \in Inodes \union {NoInode}
  /\ tmp = dst => dst = NoInode
  /\ content \in [Inodes -> Docs \union {Empty, Torn}]
  /\ missed \subseteq Runs

\* One process makes its runs one after the other.
OneActive == \A r, q \in Active : r = q

\* What a run has open is what the temporary name leads to: empty until the
\* run has written its document.
Writing ==
  \A r \in Runs :
    /\ pc[r] = "write" => fd[r] = tmp /\ content[tmp] = Empty
    /\ pc[r] = "rename" => fd[r] = tmp /\ content[tmp] = Doc(r, event[r])

\* The document shown is whole, and that of a run which is not over, or ended
\* in a way that leaves it.
Shown ==
  dst # NoInode =>
    /\ content[dst] \in Docs
    /\ LET r == content[dst].run IN
       r \in Active \/ pc[r] = "dead" \/ event[r].name # "Complete" \/ r \in missed

FileInv == FileTypes /\ OneActive /\ Writing /\ Shown

-----------------------------------------------------------------------------
(* Types *)

LEMMA PlaceSets ==
  /\ InStateFile = {"create", "write", "rename"}
  /\ Active = {r \in Runs : pc[r] \notin {"waiting", "ended", "dead"}}
  /\ Places = {"waiting", "idle", "remove", "create", "write", "rename", "count",
               "rotate", "truncate", "rewrite", "append", "newline", "ended", "dead"}
  BY DEF InStateFile, Active, Ended, Places, InHistory

\* What is left of a step that does not touch the state file.
Elsewhere(r, x) ==
  /\ pc' = [pc EXCEPT ![r] = x]
  /\ pc[r] \notin {"write", "rename", "waiting", "ended", "dead"}
  /\ UNCHANGED <<fd, tmp, dst, content, missed>>

\* The steps on the history, and the events.
OtherSteps(r) ==
  \/ Emit(r) \/ ToolCall(r) \/ GiveUp(r) \/ Count(r) \/ Rotate(r) \/ Truncate(r)
  \/ Rewrite(r) \/ AppendEntry(r) \/ AppendLineEnd(r)

LEMMA OtherMoves ==
  ASSUME FileTypes, NEW r \in Runs, OtherSteps(r)
  PROVE  /\ UNCHANGED <<fd, tmp, dst, content, missed>>
         /\ event' \in [Runs -> Events]
         /\ \A q \in Runs : q # r => event'[q] = event[q]
         /\ \E x \in Places \ {"waiting", "write", "rename"} :
              /\ pc' = [pc EXCEPT ![r] = x]
              /\ x = "ended" => event'[r].name = "PlanReady"
         /\ pc[r] \notin {"write", "rename", "ended", "dead"}
         /\ pc[r] = "waiting" => Emit(r)
<1> USE PlaceSets DEF stateFile, ghosts, Goto
<1>1. CASE Emit(r)
  <2>1. PICK e \in Events :
          /\ event' = [event EXCEPT ![r] = e]
          /\ pc' = [pc EXCEPT ![r] = IF e.name = "Complete" THEN "count" ELSE "create"]
    BY <1>1 DEF Emit
  <2> QED
    BY <1>1, <2>1 DEF Emit, FileTypes
<1>2. CASE ToolCall(r) \/ GiveUp(r)
  BY <1>2 DEF ToolCall, GiveUp, FileTypes
<1>3. CASE Count(r) \/ Rotate(r) \/ Truncate(r)
  <2>1. /\ UNCHANGED <<event, fd, tmp, dst, content, missed>>
        /\ pc[r] \in {"count", "rotate", "truncate"}
        /\ \E x \in {"rotate", "append", "truncate", "rewrite", "remove"} :
             pc' = [pc EXCEPT ![r] = x]
    BY <1>3 DEF Count, Rotate, Truncate, HistoryFault
  <2> QED
    BY <2>1, <1>3 DEF FileTypes
<1>4. CASE Rewrite(r) \/ AppendEntry(r) \/ AppendLineEnd(r)
  <2>1. /\ UNCHANGED <<event, fd, tmp, dst, content, missed>>
        /\ pc[r] \in {"rewrite", "append", "newline"}
        /\ \E x \in {"append", "newline", "remove"} : pc' = [pc EXCEPT ![r] = x]
    BY <1>4 DEF Rewrite, AppendEntry, AppendLineEnd, HistoryFault
  <2> QED
    BY <2>1, <1>4 DEF FileTypes
<1> QED
  BY <1>1, <1>2, <1>3, <1>4 DEF OtherSteps

LEMMA TypesStep ==
  ASSUME FileTypes, NEW r \in Runs, Step(r)
  PROVE  FileTypes'
<1> USE PlaceSets, DocAssumption, StateFileAssumption DEF Goto
<1>1. CASE OtherSteps(r)
  BY <1>1, OtherMoves DEF FileTypes
<1>2. CASE Create(r)
  BY <1>2 DEF Create, StateFault, FileTypes, historyFile, ghosts
<1>3. CASE Write(r)
  <2>1. Doc(r, event[r]) \in Docs
    BY DEF Doc, Docs, FileTypes
  <2>2. fd[r] \in Inodes /\ pc[r] = "write"
    BY <1>3 DEF Write, FileTypes
  <2>3. content' \in [Inodes -> Docs \union {Empty, Torn}]
    BY <1>3, <2>1, <2>2 DEF Write, FileTypes
  <2> QED
    BY <1>3, <2>2, <2>3 DEF Write, StateFault, FileTypes, historyFile, ghosts
<1>4. CASE Rename(r)
  <2>1. content' \in [Inodes -> Docs \union {Empty, Torn}]
    BY <1>4 DEF Rename, Unnamed, FileTypes
  <2> QED
    BY <1>4, <2>1 DEF Rename, StateFault, FileTypes, historyFile, ghosts
<1>5. CASE RemoveFile(r)
  <2>1. content' \in [Inodes -> Docs \union {Empty, Torn}]
    BY <1>5 DEF RemoveFile, Unnamed, FileTypes
  <2> QED
    BY <1>5, <2>1 DEF RemoveFile, FileTypes, historyFile, ghosts
<1>6. CASE Crash(r)
  BY <1>6 DEF Crash, FileTypes
<1> QED
  BY <1>1, <1>2, <1>3, <1>4, <1>5, <1>6 DEF Step, OtherSteps

-----------------------------------------------------------------------------
(* Runs one after the other *)

\* A run that is active was so before, or no run was.
LEMMA ActiveStep ==
  ASSUME FileTypes, ~Concurrent, OneActive, NEW r \in Runs, Step(r)
  PROVE  /\ OneActive'
         /\ r \in Active \/ Active = {}
         /\ \A q \in Runs \ {r} : pc'[q] = pc[q]
         /\ \A q \in Runs \ {r} : event'[q] = event[q]
<1> USE PlaceSets DEF Active, Ended
<1>1. \E x : pc' = [pc EXCEPT ![r] = x]
  <2>1. CASE OtherSteps(r)
    BY <2>1, OtherMoves
  <2> QED
    BY <2>1 DEF Step, OtherSteps, Create, Write, Rename, RemoveFile, Crash, Goto,
       StateFault
<1>2. pc[r] \notin {"waiting", "ended", "dead"} \/ Active = {}
  <2>1. CASE OtherSteps(r)
    BY <2>1, OtherMoves DEF Emit
  <2> QED
    BY <2>1 DEF Step, OtherSteps, Create, Write, Rename, RemoveFile, Crash
<1>3. \A q \in Runs \ {r} : event'[q] = event[q]
  <2>1. CASE OtherSteps(r)
    BY <2>1, OtherMoves
  <2> QED
    BY <2>1 DEF Step, OtherSteps, Create, Write, Rename, RemoveFile, Crash, StateFault
<1>4. \A q \in Runs \ {r} : pc'[q] = pc[q]
  BY <1>1 DEF FileTypes
<1>5. \A q \in Active' : q = r
  BY <1>2, <1>4 DEF OneActive
<1> QED
  BY <1>2, <1>3, <1>4, <1>5 DEF OneActive

\* What a run has open is its own.
LEMMA WritingStep ==
  ASSUME FileInv, ~Concurrent, NEW r \in Runs, Step(r)
  PROVE  Writing'
<1> USE PlaceSets DEF Goto, Active, Ended
<1>1. /\ FileTypes /\ OneActive /\ Writing
      /\ r \in Active \/ Active = {}
      /\ \A q \in Runs \ {r} : pc'[q] = pc[q]
  BY ActiveStep DEF FileInv
<1>2. \A q \in Runs \ {r} : pc'[q] \notin {"write", "rename"}
  BY <1>1 DEF OneActive
<1>3. SUFFICES ASSUME pc'[r] \in {"write", "rename"}
               PROVE  /\ fd'[r] = tmp'
                      /\ pc'[r] = "write" => content'[tmp'] = Empty
                      /\ pc'[r] = "rename" => content'[tmp'] = Doc(r, event'[r])
  BY <1>2 DEF Writing
<1>4. CASE Create(r)
  <2>1. ~StateFault(r)
    BY <1>1, <1>3 DEF StateFault, FileTypes
  <2>2. PICK f \in Inodes : /\ tmp' = f /\ fd' = [fd EXCEPT ![r] = f]
                            /\ content' = [content EXCEPT ![f] = Empty]
                            /\ pc' = [pc EXCEPT ![r] = "write"]
    BY <1>4, <2>1 DEF Create
  <2> QED
    BY <1>1, <2>2 DEF FileTypes
<1>5. CASE Write(r)
  <2>1. ~StateFault(r)
    BY <1>1, <1>3 DEF StateFault, FileTypes
  <2>2. fd[r] = tmp /\ content[tmp] = Empty /\ fd[r] \in Inodes
    BY <1>1, <1>5 DEF Write, Writing, FileTypes
  <2>3. /\ content' = [content EXCEPT ![fd[r]] = Doc(r, event[r])]
        /\ pc' = [pc EXCEPT ![r] = "rename"] /\ UNCHANGED <<event, fd, tmp>>
    BY <1>5, <2>1, <2>2 DEF Write
  <2> QED
    BY <1>1, <2>2, <2>3 DEF FileTypes
<1>6. ~Rename(r) /\ ~RemoveFile(r) /\ ~Crash(r)
  BY <1>1, <1>3 DEF Rename, RemoveFile, Crash, StateFault, FileTypes
<1>7. ~OtherSteps(r)
  BY <1>1, <1>3, OtherMoves DEF FileTypes
<1> QED
  BY <1>4, <1>5, <1>6, <1>7 DEF Step, OtherSteps

\* Why a document may be left.
Explained(r) ==
  r \in Active \/ pc[r] = "dead" \/ event[r].name # "Complete" \/ r \in missed

\* Only removing the file ends a completed run.
LEMMA ExplainedStep ==
  ASSUME FileInv, ~Concurrent, NEW r \in Runs, Step(r), NEW q \in Runs, Explained(q),
         ~(q = r /\ RemoveFile(r) /\ r \notin missed')
  PROVE  Explained(q)'
<1> USE PlaceSets DEF Goto, Active, Ended
<1>1. /\ FileTypes /\ OneActive
      /\ \A o \in Runs \ {r} : pc'[o] = pc[o] /\ event'[o] = event[o]
  BY ActiveStep DEF FileInv
<1>2. missed \subseteq missed'
  <2>1. CASE OtherSteps(r)
    BY <1>1, <2>1, OtherMoves
  <2> QED
    BY <2>1 DEF Step, OtherSteps, Create, Write, Rename, RemoveFile, Crash, StateFault,
       ghosts
<1>3. CASE q # r
  BY <1>1, <1>2, <1>3 DEF Explained
<1>4. CASE q = r
  <2>1. CASE OtherSteps(r)
    BY <1>1, <1>4, <2>1, OtherMoves DEF Explained, FileTypes
  <2>2. CASE Create(r) \/ Write(r) \/ Rename(r)
    <3>1. \E x \in {"write", "rename", "idle"} : pc' = [pc EXCEPT ![r] = x]
      BY <2>2 DEF Create, Write, Rename, StateFault
    <3> QED
      BY <1>1, <1>4, <3>1 DEF Explained, FileTypes
  <2>3. CASE RemoveFile(r)
    BY <1>4, <2>3 DEF Explained
  <2>4. CASE Crash(r)
    BY <1>1, <1>4, <2>4 DEF Crash, Explained, FileTypes
  <2> QED
    BY <2>1, <2>2, <2>3, <2>4 DEF Step, OtherSteps
<1> QED
  BY <1>3, <1>4

LEMMA ShownStep ==
  ASSUME FileInv, ~Concurrent, NEW r \in Runs, Step(r)
  PROVE  Shown'
<1> USE PlaceSets DEF Goto, Active, Ended
<1>1. /\ FileTypes /\ OneActive /\ Writing
      /\ dst # NoInode => content[dst] \in Docs /\ Explained(content[dst].run)
  BY DEF FileInv, Shown, Explained
<1>2. SUFFICES ASSUME dst' # NoInode
               PROVE  content'[dst'] \in Docs /\ Explained(content[dst].run)'
  BY DEF Shown, Explained
<1>3. ASSUME dst' = dst, content'[dst] = content[dst],
             ~(RemoveFile(r) /\ r \notin missed')
      PROVE  content'[dst'] \in Docs /\ Explained(content[dst].run)'
  <2>1. content[dst] \in Docs /\ content[dst].run \in Runs
    BY <1>1, <1>2, <1>3 DEF Docs
  <2> QED
    BY <1>1, <1>2, <1>3, <2>1, ExplainedStep
<1>4. CASE OtherSteps(r)
  <2>1. ~RemoveFile(r)
    BY <1>1, <1>4 DEF OtherSteps, Emit, ToolCall, GiveUp, Count, Rotate, Truncate,
       Rewrite, AppendEntry, AppendLineEnd, RemoveFile
  <2> QED
    BY <1>1, <1>3, <1>4, <2>1, OtherMoves
<1>5. CASE Create(r)
  <2>1. dst' = dst
    BY <1>5 DEF Create, StateFault
  <2>2. content'[dst] = content[dst]
    BY <1>1, <1>2, <1>5, <2>1 DEF Create, FileTypes
  <2> QED
    BY <1>3, <1>5, <2>1, <2>2 DEF Create, RemoveFile
<1>6. CASE Write(r)
  <2>1. dst' = dst
    BY <1>6 DEF Write, StateFault
  <2>2. fd[r] # dst
    BY <1>1, <1>2, <1>6, <2>1 DEF Write, Writing, FileTypes
  <2>3. content'[dst] = content[dst]
    BY <1>1, <1>2, <1>6, <2>1, <2>2 DEF Write, FileTypes
  <2> QED
    BY <1>3, <1>6, <2>1, <2>3 DEF Write, RemoveFile
<1>7. CASE Rename(r)
  <2>1. CASE StateFault(r) /\ UNCHANGED content
    BY <1>3, <1>7, <2>1 DEF StateFault, Rename, RemoveFile
  <2>2. CASE ~(StateFault(r) /\ UNCHANGED content)
    <3>1. tmp # NoInode /\ dst' = tmp /\ content' = Unnamed(dst)
          /\ pc' = [pc EXCEPT ![r] = "idle"]
      BY <1>7, <2>2 DEF Rename
    <3>2. content[tmp] = Doc(r, event[r]) /\ tmp \in Inodes /\ tmp # dst
      BY <1>1, <1>7, <3>1 DEF Rename, Writing, FileTypes
    <3>3. content'[dst'] = Doc(r, event[r])
      BY <3>1, <3>2 DEF Unnamed
    <3>4. r \in Active'
      BY <1>1, <3>1 DEF FileTypes
    <3> QED
      BY <1>1, <3>3, <3>4 DEF Doc, Docs, Explained, FileTypes
  <2> QED
    BY <2>1, <2>2
<1>8. CASE RemoveFile(r)
  BY <1>2, <1>3, <1>8 DEF RemoveFile
<1>9. CASE Crash(r)
  BY <1>1, <1>3, <1>9 DEF Crash, RemoveFile, FileTypes
<1> QED
  BY <1>4, <1>5, <1>6, <1>7, <1>8, <1>9 DEF Step, OtherSteps

LEMMA StillFile ==
  ASSUME FileInv, UNCHANGED <<event, pc, stateFile, missed>>
  PROVE  FileInv'
<1>1. UNCHANGED <<event, pc, fd, tmp, dst, content, missed>>
  BY DEF stateFile
<1>2. Active' = Active
  BY <1>1 DEF Active
<1> QED
  BY <1>1, <1>2 DEF FileInv, FileTypes, OneActive, Writing, Shown

\* The other processes only read.
LEMMA ReaderStep ==
  ASSUME Next
  PROVE  (\E r \in Runs : Step(r)) \/ UNCHANGED <<event, pc, stateFile, missed>>
  BY DEF Next, Ask, LookAgain, Halted, ghosts, vars

LEMMA Initially ==
  ASSUME Init
  PROVE  FileInv
<1>1. /\ event = [r \in Runs |-> NoEvent] /\ pc = [r \in Runs |-> "waiting"]
      /\ fd = [r \in Runs |-> NoInode] /\ tmp = NoInode /\ dst = NoInode
      /\ content = [f \in Inodes |-> Empty] /\ missed = {}
  BY DEF Init
<1>2. NoEvent \in Events
  BY StateFileAssumption DEF NoEvent, Sent, Events, EventNames
<1>3. FileTypes
  BY <1>1, <1>2, PlaceSets DEF FileTypes
<1> QED
  BY <1>1, <1>3, PlaceSets DEF FileInv, OneActive, Writing, Shown

\* The two names never lead to one inode, and a run has an inode open exactly
\* while it writes and renames, whatever fails and however many processes run.
THEOREM TypeCorrect == Spec => []FileTypes
<1>1. Init => FileTypes
  BY Initially DEF FileInv
<1>2. FileTypes /\ [Next]_vars => FileTypes'
  <2> SUFFICES ASSUME FileTypes, [Next]_vars PROVE FileTypes'
    OBVIOUS
  <2>1. CASE \E r \in Runs : Step(r)
    BY <2>1, TypesStep
  <2>2. CASE UNCHANGED <<event, pc, stateFile, missed>>
    BY <2>2 DEF FileTypes, stateFile
  <2> QED
    BY <2>1, <2>2, ReaderStep DEF vars, ghosts
<1> QED
  BY <1>1, <1>2, PTL DEF Spec

\* The invariant of runs one after the other.
THEOREM Invariance == ASSUME ~Concurrent PROVE Spec => []FileInv
<1>1. Init => FileInv
  BY Initially
<1>2. FileInv /\ [Next]_vars => FileInv'
  <2> SUFFICES ASSUME FileInv, [Next]_vars PROVE FileInv'
    OBVIOUS
  <2>1. CASE \E r \in Runs : Step(r)
    BY <2>1, TypesStep, ActiveStep, WritingStep, ShownStep DEF FileInv
  <2>2. CASE UNCHANGED <<event, pc, stateFile, missed>>
    BY <2>2, StillFile
  <2> QED
    BY <2>1, <2>2, ReaderStep DEF vars, ghosts
<1> QED
  BY <1>1, <1>2, PTL DEF Spec

\* Of runs one after the other, whoever opens current-task.json reads a whole
\* document, whatever failed and wherever a run died (core/state.rs:216).
THEOREM WholeFile == ASSUME ~Concurrent PROVE Spec => []ReadersSeeWholeFile
<1>1. FileInv => ReadersSeeWholeFile
  <2>1. ASSUME NEW doc \in Docs PROVE doc \notin {Empty, Torn}
    BY <2>1, DocAssumption DEF Docs, Doc
  <2> QED
    BY <2>1 DEF FileInv, Shown, ReadersSeeWholeFile
<1> QED
  BY <1>1, Invariance, PTL

\* Of runs one after the other, a file that is left belongs to one that died,
\* returned an error or had a call fail (core/state.rs:118-130).
THEOREM Leftover == ASSUME ~Concurrent PROVE Spec => []LeftoverIsExplained
<1>1. FileInv => LeftoverIsExplained
  BY DEF FileInv, Shown, LeftoverIsExplained, Docs
<1> QED
  BY <1>1, Invariance, PTL

-----------------------------------------------------------------------------
(* Lists made from sets of numbers *)

LEMMA LeastOf ==
  ASSUME NEW S \in SUBSET Nat, S # {}
  PROVE  \E m \in S : \A x \in S : m <= x
<1>1. PICK m \in S : \A y \in S : ~ (<<y, m>> \in OpToRel(<, Nat))
  BY NatLessThanWellFounded, WFMin
<1>2. \A y \in S : ~(y < m)
  BY <1>1 DEF OpToRel
<1>3. \A y \in S : m <= y
  BY <1>2
<1> QED
  BY <1>3

\* The n-th element is the one that n - 1 are smaller than.
LEMMA RankedFacts ==
  ASSUME NEW S, NEW N \in Nat, Cardinality(S) = N,
         NEW f, f = [n \in 1 .. N |-> f[n]],
         \A n \in 1 .. N : f[n] \in S,
         \A n \in 1 .. N, k \in S : Cardinality({i \in S : i < k}) = n - 1 <=> k = f[n]
  PROVE  Ascending(S) = f
<1> DEFINE before == {p \in S \X S : p[1] < p[2]}
<1>1. Ascending(S) = [n \in 1 .. N |->
        CHOOSE k \in S : Cardinality({i \in S : <<i, k>> \in before}) = n - 1]
  BY DEF Ascending, Arranged
<1>2. ASSUME NEW n \in 1 .. N
      PROVE  (CHOOSE k \in S : Cardinality({i \in S : <<i, k>> \in before}) = n - 1) = f[n]
  <2>1. \A k \in S : {i \in S : <<i, k>> \in before} = {i \in S : i < k}
    OBVIOUS
  <2>2. \A k \in S : Cardinality({i \in S : <<i, k>> \in before}) = n - 1 <=> k = f[n]
    BY <2>1
  <2> QED
    BY <2>2
<1> QED
  BY <1>1, <1>2

Doubled(m) == {2 * i : i \in 0 .. m - 1}

LEMMA DoubledFacts ==
  ASSUME NEW m \in Nat
  PROVE  IsFiniteSet(Doubled(m)) /\ Cardinality(Doubled(m)) = m
<1> DEFINE f == [i \in 0 .. m - 1 |-> 2 * i]
<1>1. IsFiniteSet(0 .. m - 1) /\ Cardinality(0 .. m - 1) = m
  BY FS_Interval
<1>2. f \in Bijection(0 .. m - 1, Doubled(m))
  <2>1. f \in [0 .. m - 1 -> Doubled(m)]
    BY DEF Doubled
  <2>2. \A a, b \in 0 .. m - 1 : f[a] = f[b] => a = b
    OBVIOUS
  <2>3. \A y \in Doubled(m) : \E a \in 0 .. m - 1 : f[a] = y
    BY DEF Doubled
  <2> HIDE DEF f
  <2>4. f \in Injection(0 .. m - 1, Doubled(m))
    BY <2>1, <2>2 DEF Injection, IsInjective
  <2>5. f \in Surjection(0 .. m - 1, Doubled(m))
    BY <2>1, <2>3 DEF Surjection
  <2> QED
    BY <2>4, <2>5 DEF Bijection
<1> HIDE DEF f
<1> QED
  BY <1>1, <1>2, FS_Bijection DEF ExistsBijection

LEMMA EvenAscending ==
  ASSUME NEW L \in Nat
  PROVE  Ascending(Doubled(L)) = [n \in 1 .. L |-> 2 * (n - 1)]
<1> DEFINE f == [n \in 1 .. L |-> 2 * (n - 1)]
<1>1. Cardinality(Doubled(L)) = L
  BY DoubledFacts
<1>2. \A n \in 1 .. L : f[n] \in Doubled(L)
  BY DEF Doubled
<1>3. ASSUME NEW n \in 1 .. L, NEW k \in Doubled(L)
      PROVE  Cardinality({i \in Doubled(L) : i < k}) = n - 1 <=> k = f[n]
  <2>1. PICK j \in 0 .. L - 1 : k = 2 * j
    BY DEF Doubled
  <2>2. {i \in Doubled(L) : i < k} = Doubled(j)
    BY <2>1 DEF Doubled
  <2>3. Cardinality({i \in Doubled(L) : i < k}) = j
    BY <2>2, DoubledFacts
  <2> QED
    BY <2>1, <2>3
<1>4. f = [n \in 1 .. L |-> f[n]]
  OBVIOUS
<1> HIDE DEF f
<1>5. Ascending(Doubled(L)) = f
  BY <1>1, <1>2, <1>3, <1>4, RankedFacts
<1> QED
  BY <1>5 DEF f

LEMMA UpToAscending ==
  ASSUME NEW L \in Nat
  PROVE  Ascending(1 .. L) = [n \in 1 .. L |-> n]
<1> DEFINE f == [n \in 1 .. L |-> n]
<1>1. Cardinality(1 .. L) = L
  BY FS_Interval
<1>2. ASSUME NEW n \in 1 .. L, NEW k \in 1 .. L
      PROVE  Cardinality({i \in 1 .. L : i < k}) = n - 1 <=> k = f[n]
  <2>1. {i \in 1 .. L : i < k} = 1 .. k - 1
    OBVIOUS
  <2>2. Cardinality(1 .. k - 1) = k - 1
    <3>1. 1 \in Int /\ k - 1 \in Int
      OBVIOUS
    <3>2. Cardinality(1 .. k - 1) = IF 1 > k - 1 THEN 0 ELSE (k - 1) - 1 + 1
      BY <3>1, FS_Interval
    <3> QED
      BY <3>2
  <2>3. Cardinality({i \in 1 .. L : i < k}) = k - 1
    BY <2>1, <2>2
  <2>4. f[n] = n
    OBVIOUS
  <2> HIDE DEF f
  <2> QED
    BY <2>3, <2>4
<1>3. f = [n \in 1 .. L |-> f[n]] /\ \A n \in 1 .. L : f[n] \in 1 .. L
  OBVIOUS
<1> HIDE DEF f
<1>4. Ascending(1 .. L) = f
  BY <1>1, <1>2, <1>3, RankedFacts
<1> QED
  BY <1>4 DEF f

-----------------------------------------------------------------------------
(* The lines of the history *)

\* The file is the first n of: an entry, a line end, the next entry, ...
IsText(file, es, n) ==
  /\ file \in Seq(Runs \union {NewLine}) /\ Len(file) = n
  /\ \A j \in 1 .. Len(es) : file[2 * j - 1] = es[j]
  /\ \A j \in 1 .. Len(es) : 2 * j <= n => file[2 * j] = NewLine

\* Each entry a line of its own.
Singles(es) == [n \in 1 .. Len(es) |-> <<es[n]>>]

LEMMA OneElement ==
  ASSUME NEW T, NEW s \in Seq(T), Len(s) = 1, NEW x, s[1] = x
  PROVE  s = <<x>>
OBVIOUS

LEMMA TwoElements ==
  ASSUME NEW T, NEW s \in Seq(T), Len(s) = 2, NEW x, s[1] = x, NEW y, s[2] = y
  PROVE  s = <<x, y>>
OBVIOUS

LEMMA Appended ==
  ASSUME NEW T, NEW y \in T, NEW s \in Seq(T)
  PROVE  /\ Append(s, y) \in Seq(T) /\ Len(Append(s, y)) = Len(s) + 1
         /\ \A i \in 1 .. Len(s) : Append(s, y)[i] = s[i]
         /\ Append(s, y)[Len(s) + 1] = y
OBVIOUS

LEMMA OneAppended ==
  ASSUME NEW T, NEW x \in T, NEW y \in T, NEW s \in Seq(T), Len(s) = 1, s[1] = x
  PROVE  Append(s, y) = <<x, y>>
<1> DEFINE t == Append(s, y)
<1>1. /\ t \in Seq(T) /\ Len(t) = Len(s) + 1
      /\ \A i \in 1 .. Len(s) : t[i] = s[i]
      /\ t[Len(s) + 1] = y
  BY Appended
<1> HIDE DEF t
<1>2. t \in Seq(T) /\ Len(t) = 2 /\ t[1] = x /\ t[2] = y
  BY <1>1
<1>3. t = <<x, y>>
  BY <1>2, TwoElements
<1> QED
  BY <1>3 DEF t

LEMMA Concatenated ==
  ASSUME NEW T, NEW f \in Seq(T), NEW t \in Seq(T)
  PROVE  /\ f \o t \in Seq(T) /\ Len(f \o t) = Len(f) + Len(t)
         /\ \A k \in 1 .. Len(f) : (f \o t)[k] = f[k]
         /\ \A k \in 1 .. Len(t) : (f \o t)[Len(f) + k] = t[k]
OBVIOUS

LEMMA TwoConcatenated ==
  ASSUME NEW T, NEW f \in Seq(T), NEW t \in Seq(T), Len(t) = 2
  PROVE  /\ f \o t \in Seq(T) /\ Len(f \o t) = Len(f) + 2
         /\ \A k \in 1 .. Len(f) : (f \o t)[k] = f[k]
         /\ (f \o t)[Len(f) + 1] = t[1] /\ (f \o t)[Len(f) + 2] = t[2]
<1> DEFINE g == f \o t
<1>1. /\ g \in Seq(T) /\ Len(g) = Len(f) + Len(t)
      /\ \A k \in 1 .. Len(f) : g[k] = f[k]
      /\ \A k \in 1 .. Len(t) : g[Len(f) + k] = t[k]
  BY Concatenated
<1> HIDE DEF g
<1>2. /\ g \in Seq(T) /\ Len(g) = Len(f) + 2
      /\ \A k \in 1 .. Len(f) : g[k] = f[k]
      /\ g[Len(f) + 1] = t[1] /\ g[Len(f) + 2] = t[2]
  BY <1>1
<1> QED
  BY <1>2 DEF g

LEMMA SmallLists ==
  \A x, y : Len(<<x>>) = 1 /\ <<x>>[1] = x /\ Append(<<x>>, y) = <<x, y>>
<1> SUFFICES ASSUME NEW x, NEW y
             PROVE  Len(<<x>>) = 1 /\ <<x>>[1] = x /\ Append(<<x>>, y) = <<x, y>>
  OBVIOUS
<1> DEFINE T == {x, y}
           s == <<x>>
<1>1. x \in T /\ y \in T /\ Len(s) = 1 /\ s[1] = x
  OBVIOUS
<1> HIDE DEF T
<1>2. s \in Seq(T)
  BY <1>1
<1> HIDE DEF s
<1>3. Append(s, y) = <<x, y>>
  BY <1>1, <1>2, OneAppended
<1> QED
  BY <1>1, <1>3 DEF s

LEMMA Parity ==
  ASSUME NEW k \in Nat
  PROVE  \E j \in Nat : k = 2 * j \/ k = 2 * j + 1
<1>1. k \div 2 \in Nat /\ (k = 2 * (k \div 2) \/ k = 2 * (k \div 2) + 1)
  OBVIOUS
<1> QED
  BY <1>1

LEMMA LineEnds ==
  ASSUME NEW es \in Seq(Runs), NEW n \in Nat, n \in {2 * Len(es), 2 * Len(es) - 1},
         NEW file, IsText(file, es, n), NEW k \in 1 .. n
  PROVE  file[k] = NewLine <=> \E j \in 1 .. Len(es) : k = 2 * j
<1>1. Len(es) \in Nat /\ \A j \in 1 .. Len(es) : es[j] # NewLine
  BY StateFileAssumption
<1>2. PICK j \in Nat : k = 2 * j \/ k = 2 * j + 1
  <2>1. k \in Nat
    OBVIOUS
  <2> QED
    BY <2>1, Parity
<1>3. CASE k = 2 * j
  <2>1. j \in 1 .. Len(es) /\ 2 * j <= n
    BY <1>1, <1>3
  <2> QED
    BY <1>3, <2>1 DEF IsText
<1>4. CASE k = 2 * j + 1
  <2>1. j + 1 \in 1 .. Len(es) /\ k = 2 * (j + 1) - 1
    BY <1>1, <1>4
  <2>2. file[k] # NewLine
    BY <1>1, <2>1 DEF IsText
  <2>3. \A i \in 1 .. Len(es) : k # 2 * i
    BY <1>1, <1>4
  <2> QED
    BY <2>2, <2>3
<1> QED
  BY <1>2, <1>3, <1>4

\* The lines of such a file are its entries, also when the last has no line end.
LEMMA TextLines ==
  ASSUME NEW es \in Seq(Runs), NEW n \in Nat, n \in {2 * Len(es), 2 * Len(es) - 1},
         NEW file, IsText(file, es, n)
  PROVE  LinesOf(file) = Singles(es)
<1> DEFINE L == Len(es)
           ends == {0} \union {k \in DOMAIN file : file[k] = NewLine}
           after == IF \E k \in ends : k = Len(file) THEN ends \ {Len(file)} ELSE ends
           starts == Ascending(after)
           end(k) == IF \E e \in ends : e > k
                     THEN CHOOSE e \in ends : e > k /\ \A o \in ends : o > k => e <= o
                     ELSE Len(file) + 1
<1>1. L \in Nat /\ DOMAIN file = 1 .. n /\ Len(file) = n
  BY DEF IsText
<1>2. LinesOf(file)
        = [m \in DOMAIN starts |-> SubSeq(file, starts[m] + 1, end(starts[m]) - 1)]
  BY DEF LinesOf
<1>3. \A k : k \in ends <=> k = 0 \/ (k \in 1 .. n /\ \E j \in 1 .. L : k = 2 * j)
  <2>1. \A k \in 1 .. n : file[k] = NewLine <=> \E j \in 1 .. L : k = 2 * j
    BY LineEnds
  <2>2. \A k : k \in ends <=> k = 0 \/ (k \in 1 .. n /\ file[k] = NewLine)
    BY <1>1
  <2> QED
    BY <2>1, <2>2
<1>4. \A k : k \in after <=> k \in ends /\ k # n
  BY <1>1
<1> HIDE DEF ends, after
<1>5. after = Doubled(L)
  <2>1. ASSUME NEW k \in after
        PROVE  k \in Doubled(L)
    <3>1. k # n /\ (k = 0 \/ (k \in 1 .. n /\ \E j \in 1 .. L : k = 2 * j))
      BY <1>3, <1>4
    <3>2. CASE k = 0
      <4>1. 0 \in 0 .. L - 1
        BY <1>1, <3>1, <3>2
      <4> QED
        BY <3>2, <4>1 DEF Doubled
    <3>3. CASE k \in 1 .. n /\ \E j \in 1 .. L : k = 2 * j
      <4>1. PICK j \in 1 .. L : k = 2 * j
        BY <3>3
      <4>2. j \in 0 .. L - 1
        BY <1>1, <3>1, <3>3, <4>1
      <4> QED
        BY <4>1, <4>2 DEF Doubled
    <3> QED
      BY <3>1, <3>2, <3>3
  <2>2. ASSUME NEW j \in 0 .. L - 1
        PROVE  2 * j \in after
    <3>1. 2 * j # n /\ (2 * j = 0 \/ (2 * j \in 1 .. n /\ j \in 1 .. L))
      BY <1>1
    <3> QED
      BY <1>3, <1>4, <3>1
  <2> QED
    BY <2>1, <2>2 DEF Doubled
<1>6. starts = [m \in 1 .. L |-> 2 * (m - 1)]
  BY <1>1, <1>5, EvenAscending
<1> HIDE DEF L, starts
<1>7. ASSUME NEW m \in 1 .. L
      PROVE  end(2 * (m - 1)) = 2 * m
  <2> DEFINE s == 2 * (m - 1)
  <2>1. \A e \in ends : e \in Nat /\ (e > s => 2 * m <= e)
    BY <1>1, <1>3
  <2>2. CASE 2 * m <= n
    <3>1. 2 * m \in ends /\ 2 * m > s
      BY <1>1, <1>3, <2>2
    <3>2. \A e \in ends : (e > s /\ \A o \in ends : o > s => e <= o) <=> e = 2 * m
      <4>1. ASSUME NEW e \in ends, e > s, \A o \in ends : o > s => e <= o
            PROVE  e = 2 * m
        <5>1. e <= 2 * m /\ 2 * m <= e /\ e \in Nat
          BY <2>1, <3>1, <4>1
        <5> QED
          BY <5>1
      <4> QED
        BY <2>1, <3>1, <4>1
    <3> HIDE DEF s
    <3>3. (CHOOSE e \in ends : e > s /\ \A o \in ends : o > s => e <= o) = 2 * m
      BY <3>1, <3>2
    <3>4. \E e \in ends : e > s
      BY <3>1
    <3> QED
      BY <3>3, <3>4 DEF s
  <2>3. CASE ~(2 * m <= n)
    <3>1. n + 1 = 2 * m
      BY <1>1, <2>3 DEF L
    <3>2. \A e \in ends : ~(e > s)
      <4>1. \A e \in ends : e <= n
        BY <1>3
      <4> QED
        BY <2>1, <2>3, <4>1
    <3> HIDE DEF s
    <3>3. end(s) = n + 1
      BY <1>1, <3>2
    <3> QED
      BY <3>1, <3>3 DEF s
  <2> QED
    BY <2>2, <2>3
<1> HIDE DEF end
<1>8. ASSUME NEW m \in 1 .. L
      PROVE  SubSeq(file, 2 * (m - 1) + 1, 2 * m - 1) = <<es[m]>>
  <2> DEFINE p == 2 * m - 1
  <2>1. p \in 1 .. n /\ 2 * (m - 1) + 1 = p
    BY <1>1 DEF L
  <2>2. file[p] = es[m]
    BY DEF IsText, L
  <2>3. file \in Seq(Runs \union {NewLine})
    BY DEF IsText
  <2> HIDE DEF p
  <2>4. SubSeq(file, p, p) \in Seq(Runs \union {NewLine}) /\ Len(SubSeq(file, p, p)) = 1
        /\ SubSeq(file, p, p)[1] = file[p]
    BY <1>1, <2>1, <2>3
  <2>5. SubSeq(file, p, p) = <<file[p]>>
    BY <2>4, OneElement
  <2> QED
    BY <2>1, <2>2, <2>5 DEF p
<1>9. LinesOf(file) = [m \in 1 .. L |-> <<es[m]>>]
  <2>1. DOMAIN starts = 1 .. L /\ \A m \in 1 .. L : starts[m] = 2 * (m - 1)
    BY <1>6
  <2>2. ASSUME NEW m \in 1 .. L
        PROVE  SubSeq(file, starts[m] + 1, end(starts[m]) - 1) = <<es[m]>>
    BY <1>7, <1>8, <2>1
  <2> QED
    BY <1>2, <2>1, <2>2
<1> QED
  BY <1>9 DEF Singles, L

\* The reader finds the entries, whether or not the last line has its end.
LEMMA TextReadable ==
  ASSUME NEW es \in Seq(Runs), NEW n \in Nat, n \in {2 * Len(es), 2 * Len(es) - 1},
         NEW file, IsText(file, es, n)
  PROVE  Readable(file) = es
<1> DEFINE L == Len(es)
           ls == LinesOf(file)
           places == {k \in DOMAIN ls : Len(ls[k]) = 1 /\ ls[k][1] # Torn}
           whole == EntriesAt(ls, places)
<1>1. L \in Nat /\ es = [k \in 1 .. L |-> es[k]] /\ \A k \in 1 .. L : es[k] # Torn
  BY StateFileAssumption
<1>2. ls = [k \in 1 .. L |-> <<es[k]>>]
  BY TextLines DEF Singles
<1>3. Readable(file) = [k \in DOMAIN whole |-> whole[k][1]]
  BY DEF Readable
<1> HIDE DEF ls
<1>4. DOMAIN ls = 1 .. L /\ \A k \in 1 .. L : ls[k] = <<es[k]>>
  BY <1>2
<1>5. \A k \in 1 .. L : Len(ls[k]) = 1 /\ ls[k][1] = es[k]
  BY <1>4, SmallLists
<1>6. places = 1 .. L
  BY <1>1, <1>4, <1>5
<1>7. whole = [k \in DOMAIN Ascending(1 .. L) |-> ls[Ascending(1 .. L)[k]]]
  BY <1>6 DEF EntriesAt
<1> HIDE DEF whole, places, L
<1>8. Ascending(1 .. L) = [k \in 1 .. L |-> k]
  BY <1>1, UpToAscending
<1>9. whole = [k \in 1 .. L |-> ls[k]]
  BY <1>7, <1>8
<1> QED
  BY <1>1, <1>3, <1>5, <1>9

\* The first i entries, each with a line end.
Entries(f, es, i) ==
  /\ f \in Seq(Runs \union {NewLine}) /\ Len(f) = 2 * i
  /\ \A j \in 1 .. i : f[2 * j - 1] = es[j] /\ f[2 * j] = NewLine

LEMMA SameEntries ==
  ASSUME NEW es, NEW i \in Nat, NEW f, NEW g, Entries(f, es, i), Entries(g, es, i)
  PROVE  f = g
<1>1. /\ f \in Seq(Runs \union {NewLine}) /\ Len(f) = 2 * i
      /\ g \in Seq(Runs \union {NewLine}) /\ Len(g) = 2 * i
  BY DEF Entries
<1>2. ASSUME NEW k \in 1 .. 2 * i
      PROVE  f[k] = g[k]
  <2>1. PICK j \in Nat : k = 2 * j \/ k = 2 * j + 1
    <3>1. k \in Nat
      OBVIOUS
    <3> QED
      BY <3>1, Parity
  <2>2. CASE k = 2 * j
    <3>1. j \in 1 .. i
      BY <2>2
    <3> QED
      BY <2>2, <3>1 DEF Entries
  <2>3. CASE k = 2 * j + 1
    <3>1. j + 1 \in 1 .. i /\ k = 2 * (j + 1) - 1
      BY <2>3
    <3> QED
      BY <3>1 DEF Entries
  <2> QED
    BY <2>1, <2>2, <2>3
<1> QED
  BY <1>1, <1>2

LEMMA OneMoreEntry ==
  ASSUME NEW es \in Seq(Runs), NEW i \in 1 .. Len(es), NEW f, Entries(f, es, i - 1)
  PROVE  Entries(f \o <<es[i], NewLine>>, es, i)
<1> DEFINE T == Runs \union {NewLine}
           x == es[i]
           two == <<x, NewLine>>
           g == f \o two
<1>1. i \in Nat /\ x \in T /\ NewLine \in T
  OBVIOUS
<1>2. f \in Seq(T) /\ Len(f) = 2 * (i - 1)
  BY DEF Entries
<1>3. Len(two) = 2 /\ two[1] = x /\ two[2] = NewLine
  OBVIOUS
<1> HIDE DEF T, x
<1>4. two \in Seq(T)
  BY <1>1
<1> HIDE DEF two
<1>a. /\ g \in Seq(T) /\ Len(g) = Len(f) + 2
      /\ \A k \in 1 .. Len(f) : g[k] = f[k]
      /\ g[Len(f) + 1] = two[1] /\ g[Len(f) + 2] = two[2]
  BY <1>2, <1>3, <1>4, TwoConcatenated
<1> HIDE DEF g
<1>5. g \in Seq(T) /\ Len(g) = 2 * i
  BY <1>1, <1>2, <1>a
<1>6. \A k \in 1 .. 2 * (i - 1) : g[k] = f[k]
  BY <1>2, <1>a
<1>7. g[2 * (i - 1) + 1] = x
  BY <1>2, <1>3, <1>a
<1>8. g[2 * (i - 1) + 2] = NewLine
  BY <1>2, <1>3, <1>a
<1> HIDE DEF g
<1>9. ASSUME NEW j \in 1 .. i
      PROVE  g[2 * j - 1] = es[j] /\ g[2 * j] = NewLine
  <2>1. CASE j = i
    <3>1. 2 * j - 1 = 2 * (i - 1) + 1 /\ 2 * j = 2 * (i - 1) + 2
      BY <2>1
    <3> QED
      BY <1>7, <1>8, <2>1, <3>1 DEF x
  <2>2. CASE j # i
    <3>1. j \in 1 .. i - 1
      BY <2>2
    <3>2. 2 * j - 1 \in 1 .. 2 * (i - 1) /\ 2 * j \in 1 .. 2 * (i - 1)
      BY <3>1
    <3>3. f[2 * j - 1] = es[j] /\ f[2 * j] = NewLine
      BY <3>1 DEF Entries
    <3> QED
      BY <1>6, <3>2, <3>3
  <2> QED
    BY <2>1, <2>2
<1> QED
  BY <1>5, <1>9 DEF Entries, T, g, two, x

\* Lines of one entry each are joined to a text.
LEMMA JoinedText ==
  ASSUME NEW es \in Seq(Runs)
  PROVE  IsText(Joined(Singles(es)), es, 2 * Len(es))
<1> DEFINE L == Len(es)
           T == Runs \union {NewLine}
           seqs == [k \in 1 .. L |-> <<es[k], NewLine>>]
           flat == Joined(Singles(es))
<1>1. L \in Nat /\ \A k \in 1 .. L : es[k] \in Runs
  OBVIOUS
<1>2. flat = FlattenSeq(seqs)
  <2>1. DOMAIN Singles(es) = 1 .. L /\ \A k \in 1 .. L : Singles(es)[k] = <<es[k]>>
    BY DEF Singles
  <2>2. \A k \in 1 .. L : Append(<<es[k]>>, NewLine) = <<es[k], NewLine>>
    BY SmallLists
  <2>3. [k \in DOMAIN Singles(es) |-> Append(Singles(es)[k], NewLine)] = seqs
    BY <2>1, <2>2
  <2> QED
    BY <2>3 DEF Joined
<1>3. Len(seqs) = L
  BY <1>1
<1>4. CASE L = 0
  <2>1. flat = <<>>
    BY <1>2, <1>3, <1>4 DEF FlattenSeq
  <2> QED
    BY <1>4, <2>1 DEF IsText
<1>5. CASE L # 0
  <2> DEFINE Right(f) == f = [i \in 1 .. L |-> IF i = 1 THEN seqs[i]
                                               ELSE f[i - 1] \o seqs[i]]
             flatten == CHOOSE f : Right(f)
           half(k) == (k + 1) \div 2
             G == [i \in 1 .. L |-> [k \in 1 .. 2 * i |->
                     IF k = 2 * half(k) THEN NewLine ELSE es[half(k)]]]
  <2>1. flat = flatten[L]
    BY <1>2, <1>3, <1>5 DEF FlattenSeq
  <2>2. \A i \in 1 .. L : seqs[i] = <<es[i], NewLine>>
    OBVIOUS
  <2> HIDE DEF T, seqs, flat
  <2>3. \A i \in 1 .. L : Entries(G[i], es, i)
    <3>1. ASSUME NEW i \in 1 .. L
          PROVE  Entries(G[i], es, i)
      <4>1. G[i] = [k \in 1 .. 2 * i |->
                     IF k = 2 * half(k) THEN NewLine ELSE es[half(k)]]
        OBVIOUS
      <4>2. ASSUME NEW k \in 1 .. 2 * i
            PROVE  half(k) \in 1 .. i
        OBVIOUS
      <4>3. \A j \in 1 .. i : half(2 * j) = j /\ half(2 * j - 1) = j
        OBVIOUS
      <4> HIDE DEF G, half
      <4>4. ASSUME NEW k \in 1 .. 2 * i
            PROVE  G[i][k] \in T
        <5>1. half(k) \in 1 .. L
          BY <1>1, <4>2
        <5>2. G[i][k] = IF k = 2 * half(k) THEN NewLine ELSE es[half(k)]
          BY <4>1
        <5>3. es[half(k)] \in Runs
          BY <1>1, <5>1
        <5> QED
          BY <5>2, <5>3 DEF T
      <4>5. G[i] \in Seq(T) /\ Len(G[i]) = 2 * i
        <5>1. G[i] \in [1 .. 2 * i -> T] /\ 2 * i \in Nat
          BY <4>1, <4>4
        <5> QED
          BY <5>1
      <4>6. ASSUME NEW j \in 1 .. i
            PROVE  G[i][2 * j - 1] = es[j] /\ G[i][2 * j] = NewLine
        <5>1. 2 * j \in 1 .. 2 * i /\ 2 * j - 1 \in 1 .. 2 * i /\ 2 * j - 1 # 2 * j
          OBVIOUS
        <5> QED
          BY <4>1, <4>3, <5>1
      <4> QED
        BY <4>5, <4>6 DEF Entries, T
    <3> QED
      BY <3>1
  <2>4. \A i \in 1 .. L : i # 1 => i - 1 \in 1 .. L
    BY <1>1
  <2>5. Entries(<<>>, es, 0)
    BY DEF Entries
  <2>6. Entries(seqs[1], es, 1)
    <3>1. Entries(<<>> \o <<es[1], NewLine>>, es, 1)
      <4>1. 1 \in 1 .. Len(es) /\ 1 - 1 = 0
        BY <1>1, <1>5
      <4> QED
        BY <2>5, <4>1, OneMoreEntry
    <3>2. <<>> \o <<es[1], NewLine>> = <<es[1], NewLine>>
      OBVIOUS
    <3>3. 1 \in 1 .. L
      BY <1>1, <1>5
    <3> QED
      BY <2>2, <3>1, <3>2, <3>3
  <2>7. Right(G)
    <3>1. ASSUME NEW i \in 1 .. L
          PROVE  G[i] = IF i = 1 THEN seqs[i] ELSE G[i - 1] \o seqs[i]
      <4>1. CASE i = 1
        BY <2>3, <2>6, <4>1, SameEntries
      <4>2. CASE i # 1
        <5>1. Entries(G[i - 1] \o <<es[i], NewLine>>, es, i)
          BY <2>3, <2>4, <4>2, OneMoreEntry
        <5>2. Entries(G[i], es, i)
          BY <2>3
        <5>3. i \in Nat
          OBVIOUS
        <5> HIDE DEF G
        <5>4. G[i] = G[i - 1] \o <<es[i], NewLine>>
          BY <5>1, <5>2, <5>3, SameEntries
        <5> QED
          BY <2>2, <4>2, <5>4
      <4> QED
        BY <4>1, <4>2
    <3>2. G = [i \in 1 .. L |-> G[i]]
      OBVIOUS
    <3> HIDE DEF G
    <3> QED
      BY <3>1, <3>2
  <2> HIDE DEF G
  <2>8. Right(flatten)
    BY <2>7
  <2> HIDE DEF flatten
  <2>9. \A i \in 1 .. L : flatten[i] = IF i = 1 THEN seqs[i] ELSE flatten[i - 1] \o seqs[i]
    BY <2>8
  <2>10. \A i \in 1 .. L : Entries(flatten[i], es, i)
    <3> DEFINE wrong == {i \in 1 .. L : ~Entries(flatten[i], es, i)}
    <3>1. SUFFICES ASSUME wrong # {} PROVE FALSE
      OBVIOUS
    <3>2. PICK m \in wrong : \A x \in wrong : m <= x
      <4>1. wrong \in SUBSET Nat
        BY <1>1
      <4> HIDE DEF wrong
      <4> QED
        BY <3>1, <4>1, LeastOf
    <3>3. m \in 1 .. L /\ ~Entries(flatten[m], es, m)
      BY <3>2
    <3>4. CASE m = 1
      BY <2>6, <2>9, <3>3, <3>4
    <3>5. CASE m # 1
      <4>1. m - 1 \in 1 .. L /\ ~(m <= m - 1)
        BY <1>1, <3>3, <3>5
      <4>2. Entries(flatten[m - 1], es, m - 1)
        BY <3>2, <4>1
      <4>3. Entries(flatten[m - 1] \o <<es[m], NewLine>>, es, m)
        BY <3>3, <4>2, OneMoreEntry
      <4>4. flatten[m] = flatten[m - 1] \o <<es[m], NewLine>>
        BY <2>2, <2>9, <3>3, <3>5
      <4> QED
        BY <3>3, <4>3, <4>4
    <3> QED
      BY <3>4, <3>5
  <2>11. Entries(flat, es, L)
    <3>1. L \in 1 .. L
      BY <1>1, <1>5
    <3> QED
      BY <2>1, <2>10, <3>1
  <2> HIDE DEF L
  <2>12. IsText(flat, es, 2 * Len(es))
    BY <2>11 DEF Entries, IsText, L
  <2> QED
    BY <2>12 DEF flat
<1> QED
  BY <1>4, <1>5

-----------------------------------------------------------------------------
(* The history of runs one after the other *)

\* The last entries of a log: all, or at least as many as a rotation keeps.
Recent(l, es) ==
  /\ es \in Seq(Runs) /\ Len(es) <= Len(l)
  /\ \A k \in 1 .. Len(es) : es[k] = l[Len(l) - Len(es) + k]
  /\ Len(es) = Len(l) \/ Len(es) >= KeepLines

Busy == {"truncate", "rewrite", "newline"}

\* What the file is, and the lines a run has read, when it is at a place.
HistoryAt(place, ls, file, es) ==
  /\ place \in {"truncate", "rewrite"} => ls = Singles(es)
  /\ place = "rewrite" => file = <<>>
  /\ place = "newline" => Len(es) >= 1 /\ IsText(file, es, 2 * Len(es) - 1)
  /\ place \notin {"rewrite", "newline"} => IsText(file, es, 2 * Len(es))

HistoryIs(es) ==
  /\ \A r \in Runs : pc[r] \in Busy => HistoryAt(pc[r], lines[r], history, es)
  /\ (\A r \in Runs : pc[r] \notin Busy) => IsText(history, es, 2 * Len(es))

\* Unless it was damaged, the file is the text of the last runs of the log, up to
\* where the run that updates it has come.
HistoryInv ==
  /\ log \in Seq(Runs)
  /\ lines = [r \in Runs |-> lines[r]]
  /\ damaged \in BOOLEAN
  /\ ~damaged => \E es \in Seq(Runs) : Recent(log, es) /\ HistoryIs(es)

LEMMA RecentAppended ==
  ASSUME NEW l \in Seq(Runs), NEW es \in Seq(Runs), Recent(l, es), NEW x \in Runs
  PROVE  Recent(Append(l, x), Append(es, x))
<1> DEFINE m == Append(l, x)
           fs == Append(es, x)
<1>1. /\ m \in Seq(Runs) /\ Len(m) = Len(l) + 1
      /\ \A i \in 1 .. Len(l) : m[i] = l[i]
      /\ m[Len(l) + 1] = x
  BY Appended
<1>2. /\ fs \in Seq(Runs) /\ Len(fs) = Len(es) + 1
      /\ \A i \in 1 .. Len(es) : fs[i] = es[i]
      /\ fs[Len(es) + 1] = x
  BY Appended
<1> HIDE DEF m, fs
<1>3. /\ Len(es) \in Nat /\ Len(l) \in Nat /\ Len(es) <= Len(l) /\ KeepLines \in Nat
      /\ \A k \in 1 .. Len(es) : es[k] = l[Len(l) - Len(es) + k]
      /\ Len(es) = Len(l) \/ Len(es) >= KeepLines
  BY StateFileAssumption DEF Recent
<1>4. ASSUME NEW k \in 1 .. Len(fs)
      PROVE  fs[k] = m[Len(m) - Len(fs) + k]
  <2>1. CASE k = Len(es) + 1
    <3>1. Len(m) - Len(fs) + k = Len(l) + 1
      BY <1>1, <1>2, <1>3, <2>1
    <3> QED
      BY <1>1, <1>2, <2>1, <3>1
  <2>2. CASE k # Len(es) + 1
    <3>1. k \in 1 .. Len(es)
      BY <1>2, <1>3, <2>2
    <3>2. /\ Len(m) - Len(fs) + k = Len(l) - Len(es) + k
          /\ Len(l) - Len(es) + k \in 1 .. Len(l)
      BY <1>1, <1>2, <1>3, <3>1
    <3> QED
      BY <1>1, <1>2, <1>3, <3>1, <3>2
  <2> QED
    BY <2>1, <2>2
<1>5. Len(fs) <= Len(m) /\ (Len(fs) = Len(m) \/ Len(fs) >= KeepLines)
  BY <1>1, <1>2, <1>3
<1>6. Recent(m, fs)
  BY <1>2, <1>4, <1>5 DEF Recent
<1> QED
  BY <1>6 DEF m, fs

\* What a rotation keeps are lines of single entries again.
LEMMA KeptEntries ==
  ASSUME NEW es \in Seq(Runs)
  PROVE  /\ Keep(es) \in Seq(Runs)
         /\ Keep(Singles(es)) = Singles(Keep(es))
<1> DEFINE n == Len(es)
           K == KeepLines
<1>1. n \in Nat /\ K \in Nat /\ K >= 1
  BY StateFileAssumption
<1>2. Len(Singles(es)) = n /\ \A k \in 1 .. n : Singles(es)[k] = <<es[k]>>
  BY DEF Singles
<1>3. CASE ~(n > K)
  <2>1. Keep(es) = es /\ Keep(Singles(es)) = Singles(es)
    BY <1>2, <1>3 DEF Keep
  <2> QED
    BY <2>1
<1>4. CASE n > K
  <2>1. Keep(es) = SubSeq(es, n - K + 1, n)
    BY <1>4 DEF Keep
  <2>2. Keep(Singles(es)) = SubSeq(Singles(es), n - K + 1, n)
    BY <1>2, <1>4 DEF Keep
  <2>3. n - (n - K + 1) + 1 = K /\ \A i \in 1 .. K : n - K + 1 + i - 1 = n - K + i
    BY <1>1, <1>4
  <2>4. \A i \in 1 .. K : n - K + i \in 1 .. n
    BY <1>1, <1>4
  <2> HIDE DEF n, K
  <2>5. SubSeq(es, n - K + 1, n) = [i \in 1 .. K |-> es[n - K + i]]
    BY <1>1, <1>4, <2>3, <2>4 DEF n
  <2>6. SubSeq(Singles(es), n - K + 1, n) = [i \in 1 .. K |-> Singles(es)[n - K + i]]
    BY <1>1, <1>2, <1>4, <2>3, <2>4
  <2>7. Len([i \in 1 .. K |-> es[n - K + i]]) = K
    BY <1>1
  <2>8. Keep(es) \in Seq(Runs) /\ Len(Keep(es)) = K
        /\ \A i \in 1 .. K : Keep(es)[i] = es[n - K + i]
    <3> DEFINE f == [i \in 1 .. K |-> es[n - K + i]]
    <3>1. \A i \in 1 .. K : es[n - K + i] \in Runs
      BY <2>4 DEF n
    <3>2. f \in [1 .. K -> Runs] /\ \A i \in 1 .. K : f[i] = es[n - K + i]
      BY <3>1
    <3>3. Keep(es) = f /\ Len(f) = K
      BY <2>1, <2>5, <2>7
    <3> HIDE DEF f
    <3>4. f \in Seq(Runs)
      BY <1>1, <3>2
    <3> QED
      BY <3>2, <3>3, <3>4
  <2>9. Singles(Keep(es)) = [i \in 1 .. K |-> <<es[n - K + i]>>]
    BY <2>8 DEF Singles
  <2>10. Keep(Singles(es)) = [i \in 1 .. K |-> <<es[n - K + i]>>]
    BY <1>2, <2>2, <2>4, <2>6
  <2> QED
    BY <2>8, <2>9, <2>10
<1> QED
  BY <1>3, <1>4

LEMMA RecentKept ==
  ASSUME NEW l \in Seq(Runs), NEW es \in Seq(Runs), Recent(l, es)
  PROVE  Recent(l, Keep(es))
<1> DEFINE n == Len(es)
           K == KeepLines
           fs == SubSeq(es, n - K + 1, n)
<1>1. n \in Nat /\ K \in Nat /\ K >= 1 /\ Len(l) \in Nat /\ n <= Len(l)
      /\ \A k \in 1 .. n : es[k] = l[Len(l) - n + k]
  BY StateFileAssumption DEF Recent
<1>2. CASE ~(n > K)
  BY <1>2 DEF Keep
<1>3. CASE n > K
  <2>1. n - (n - K + 1) + 1 = K /\ \A i \in 1 .. K : n - K + 1 + i - 1 = n - K + i
    BY <1>1, <1>3
  <2>2. \A i \in 1 .. K : n - K + i \in 1 .. n
    BY <1>1, <1>3
  <2> HIDE DEF n, K
  <2>3. fs = [i \in 1 .. K |-> es[n - K + i]]
    BY <1>1, <1>3, <2>1, <2>2 DEF n
  <2>4. Keep(es) = fs
    BY <1>3 DEF Keep, n, K
  <2> HIDE DEF fs
  <2>5. Len(fs) = K /\ \A i \in 1 .. K : fs[i] = es[n - K + i]
    BY <1>1, <2>3
  <2>6. \A i \in 1 .. K : fs[i] = l[Len(l) - K + i]
    <3>1. \A i \in 1 .. K : Len(l) - n + (n - K + i) = Len(l) - K + i
      BY <1>1
    <3>2. \A i \in 1 .. K : es[n - K + i] = l[Len(l) - n + (n - K + i)]
      BY <1>1, <2>2
    <3> QED
      BY <2>5, <3>1, <3>2
  <2>7. fs \in Seq(Runs)
    BY <2>4, KeptEntries
  <2>8. K <= Len(l)
    BY <1>1, <1>3
  <2> QED
    BY <2>4, <2>5, <2>6, <2>7, <2>8 DEF Recent, K
<1> QED
  BY <1>2, <1>3

LEMMA TextAppended ==
  ASSUME NEW es \in Seq(Runs), NEW file, IsText(file, es, 2 * Len(es)), NEW x \in Runs
  PROVE  IsText(Append(file, x), Append(es, x), 2 * Len(Append(es, x)) - 1)
<1> DEFINE f == Append(file, x)
           fs == Append(es, x)
           T == Runs \union {NewLine}
<1>1. Len(es) \in Nat /\ file \in Seq(T) /\ Len(file) = 2 * Len(es) /\ x \in T
  BY DEF IsText
<1>2. /\ f \in Seq(T) /\ Len(f) = Len(file) + 1
      /\ \A i \in 1 .. Len(file) : f[i] = file[i]
      /\ f[Len(file) + 1] = x
  <2> HIDE DEF T
  <2> QED
    BY <1>1, Appended
<1>3. /\ fs \in Seq(Runs) /\ Len(fs) = Len(es) + 1
      /\ \A i \in 1 .. Len(es) : fs[i] = es[i]
      /\ fs[Len(es) + 1] = x
  BY Appended
<1> HIDE DEF f, fs
<1>4. ASSUME NEW j \in 1 .. Len(fs)
      PROVE  f[2 * j - 1] = fs[j] /\ (2 * j <= 2 * Len(fs) - 1 => f[2 * j] = NewLine)
  <2>1. CASE j = Len(es) + 1
    <3>1. 2 * j - 1 = Len(file) + 1 /\ ~(2 * j <= 2 * Len(fs) - 1)
      BY <1>1, <1>3, <2>1
    <3> QED
      BY <1>2, <1>3, <2>1, <3>1
  <2>2. CASE j # Len(es) + 1
    <3>1. j \in 1 .. Len(es)
      BY <1>1, <1>3, <2>2
    <3>2. 2 * j - 1 \in 1 .. Len(file) /\ 2 * j \in 1 .. Len(file) /\ 2 * j <= 2 * Len(es)
      BY <1>1, <3>1
    <3>3. file[2 * j - 1] = es[j] /\ file[2 * j] = NewLine
      BY <3>1, <3>2 DEF IsText
    <3> QED
      BY <1>2, <1>3, <3>1, <3>2, <3>3
  <2> QED
    BY <2>1, <2>2
<1>5. Len(f) = 2 * Len(fs) - 1
  BY <1>1, <1>2, <1>3
<1>6. IsText(f, fs, 2 * Len(fs) - 1)
  BY <1>2, <1>4, <1>5 DEF IsText
<1> QED
  BY <1>6 DEF f, fs

LEMMA TextEnded ==
  ASSUME NEW es \in Seq(Runs), Len(es) >= 1, NEW file, IsText(file, es, 2 * Len(es) - 1)
  PROVE  IsText(Append(file, NewLine), es, 2 * Len(es))
<1> DEFINE f == Append(file, NewLine)
           T == Runs \union {NewLine}
<1>1. Len(es) \in Nat /\ file \in Seq(T) /\ Len(file) = 2 * Len(es) - 1 /\ NewLine \in T
  BY DEF IsText
<1>2. /\ f \in Seq(T) /\ Len(f) = Len(file) + 1
      /\ \A i \in 1 .. Len(file) : f[i] = file[i]
      /\ f[Len(file) + 1] = NewLine
  <2> HIDE DEF T
  <2> QED
    BY <1>1, Appended
<1> HIDE DEF f
<1>3. Len(f) = 2 * Len(es)
  BY <1>1, <1>2
<1>4. ASSUME NEW j \in 1 .. Len(es)
      PROVE  f[2 * j - 1] = es[j] /\ f[2 * j] = NewLine
  <2>1. 2 * j - 1 \in 1 .. Len(file) /\ file[2 * j - 1] = es[j]
    BY <1>1 DEF IsText
  <2>2. f[2 * j] = NewLine
    <3>1. CASE j = Len(es)
      <4>1. 2 * j = Len(file) + 1
        BY <1>1, <3>1
      <4> QED
        BY <1>2, <4>1
    <3>2. CASE j # Len(es)
      <4>1. 2 * j \in 1 .. Len(file) /\ 2 * j <= 2 * Len(es) - 1
        BY <1>1, <3>2
      <4> QED
        BY <1>2, <4>1 DEF IsText
    <3> QED
      BY <3>1, <3>2
  <2> QED
    BY <1>2, <2>1, <2>2
<1>5. IsText(f, es, 2 * Len(es))
  BY <1>2, <1>3, <1>4 DEF IsText
<1> QED
  BY <1>5 DEF f

-----------------------------------------------------------------------------
(* Its steps *)

\* While a run moves, no other has begun to change the history.
LEMMA Alone ==
  ASSUME FileInv, ~Concurrent, NEW r \in Runs, Step(r)
  PROVE  \A q \in Runs \ {r} : pc[q] \notin Busy /\ pc'[q] \notin Busy
<1>1. /\ FileTypes /\ OneActive
      /\ r \in Active \/ Active = {}
      /\ \A q \in Runs \ {r} : pc'[q] = pc[q]
  BY ActiveStep DEF FileInv
<1>2. \A q \in Runs \ {r} : q \notin Active
  BY <1>1 DEF OneActive
<1> QED
  BY <1>1, <1>2, PlaceSets DEF Busy

LEMMA AloneBefore ==
  ASSUME NEW r \in Runs, \A q \in Runs \ {r} : pc[q] \notin Busy,
         NEW es \in Seq(Runs), HistoryIs(es)
  PROVE  HistoryAt(pc[r], lines[r], history, es)
  BY DEF HistoryIs, HistoryAt, Busy

LEMMA AloneAfter ==
  ASSUME NEW r \in Runs, \A q \in Runs \ {r} : pc'[q] \notin Busy,
         NEW es \in Seq(Runs), HistoryAt(pc'[r], lines'[r], history', es)
  PROVE  HistoryIs(es)'
  BY DEF HistoryIs, HistoryAt, Busy

\* Steps that leave the history as it is, or count as damage to it.
LEMMA Undisturbed ==
  ASSUME FileTypes, damaged \in BOOLEAN, NEW r \in Runs, Step(r),
         ~(Rotate(r) /\ pc'[r] = "truncate"), ~(Truncate(r) /\ pc'[r] = "rewrite"),
         ~(Rewrite(r) /\ pc'[r] = "append"), ~(AppendEntry(r) /\ pc'[r] = "newline"),
         ~(AppendLineEnd(r) /\ ~damaged')
  PROVE  /\ UNCHANGED <<log, lines>> /\ damaged' \in BOOLEAN /\ (damaged => damaged')
         /\ ~damaged' => /\ UNCHANGED history
                         /\ pc[r] \notin {"rewrite", "newline"}
                         /\ pc'[r] \notin Busy
<1> USE DEF Goto, FileTypes, Busy
<1>1. CASE Emit(r) \/ ToolCall(r) \/ GiveUp(r)
  BY <1>1 DEF Emit, ToolCall, GiveUp, historyFile, ghosts
<1>2. CASE Create(r) \/ Write(r)
  BY <1>2 DEF Create, Write, StateFault, historyFile, ghosts
<1>3. CASE Rename(r) \/ RemoveFile(r)
  BY <1>3 DEF Rename, RemoveFile, StateFault, historyFile, ghosts
<1>4. CASE Crash(r)
  BY <1>4 DEF Crash, historyFile
<1>5. CASE Count(r)
  BY <1>5 DEF Count, historyFile, MayFail
<1>6. CASE Rotate(r) \/ Truncate(r)
  BY <1>6 DEF Rotate, Truncate, HistoryFault
<1>7. CASE Rewrite(r)
  BY <1>7 DEF Rewrite, HistoryFault
<1>8. CASE AppendEntry(r)
  BY <1>8 DEF AppendEntry, HistoryFault
<1>9. CASE AppendLineEnd(r)
  BY <1>9 DEF AppendLineEnd, HistoryFault, ghosts
<1> QED
  BY <1>1, <1>2, <1>3, <1>4, <1>5, <1>6, <1>7, <1>8, <1>9 DEF Step

LEMMA HistoryStep ==
  ASSUME FileInv, ~Concurrent, HistoryInv, NEW r \in Runs, Step(r)
  PROVE  HistoryInv'
<1> USE DEF Goto
<1>1. FileTypes /\ damaged \in BOOLEAN /\ log \in Seq(Runs)
      /\ lines = [q \in Runs |-> lines[q]]
      /\ \A q \in Runs \ {r} : pc[q] \notin Busy /\ pc'[q] \notin Busy
  BY Alone DEF FileInv, HistoryInv
<1>2. ~damaged => \E es \in Seq(Runs) :
                    Recent(log, es) /\ HistoryAt(pc[r], lines[r], history, es)
  BY <1>1, AloneBefore DEF HistoryInv
<1>3. SUFFICES
        /\ log' \in Seq(Runs) /\ lines' = [q \in Runs |-> lines'[q]]
        /\ damaged' \in BOOLEAN
        /\ ~damaged' => \E es \in Seq(Runs) :
             Recent(log', es) /\ HistoryAt(pc'[r], lines'[r], history', es)
  BY <1>1, AloneAfter DEF HistoryInv
<1>4. CASE Rotate(r) /\ pc'[r] = "truncate"
  <2>1. /\ pc[r] = "rotate" /\ pc' = [pc EXCEPT ![r] = "truncate"]
        /\ lines' = [lines EXCEPT ![r] = LinesOf(history)]
        /\ UNCHANGED <<history, log, damaged>>
    BY <1>1, <1>4 DEF Rotate, HistoryFault, ghosts, FileTypes
  <2>2. lines' = [q \in Runs |-> lines'[q]] /\ lines'[r] = LinesOf(history)
    BY <1>1, <2>1
  <2>3. ASSUME NEW es \in Seq(Runs), HistoryAt(pc[r], lines[r], history, es)
        PROVE  HistoryAt(pc'[r], lines'[r], history', es)
    <3>1. IsText(history, es, 2 * Len(es)) /\ 2 * Len(es) \in Nat
      BY <2>1, <2>3 DEF HistoryAt
    <3>2. LinesOf(history) = Singles(es)
      BY <3>1, TextLines
    <3> QED
      BY <1>4, <2>1, <2>2, <3>1, <3>2 DEF HistoryAt
  <2> QED
    BY <1>1, <1>2, <2>1, <2>2, <2>3
<1>5. CASE Truncate(r) /\ pc'[r] = "rewrite"
  <2>1. /\ pc[r] = "truncate" /\ history' = <<>> /\ UNCHANGED <<lines, log, damaged>>
    BY <1>1, <1>5 DEF Truncate, HistoryFault, ghosts, FileTypes
  <2>2. ASSUME NEW es \in Seq(Runs), HistoryAt(pc[r], lines[r], history, es)
        PROVE  HistoryAt(pc'[r], lines'[r], history', es)
    BY <1>5, <2>1, <2>2 DEF HistoryAt
  <2> QED
    BY <1>1, <1>2, <2>1, <2>2
<1>6. CASE Rewrite(r) /\ pc'[r] = "append"
  <2> DEFINE kept == Joined(Keep(lines[r]))
  <2>1. /\ pc[r] = "rewrite"
        /\ history' = kept \o SubSeq(history, Len(kept) + 1, Len(history))
        /\ lines' = [lines EXCEPT ![r] = <<>>]
        /\ UNCHANGED <<log, damaged>>
    BY <1>1, <1>6 DEF Rewrite, HistoryFault, ghosts, FileTypes
  <2>2. lines' = [q \in Runs |-> lines'[q]]
    BY <1>1, <2>1
  <2>3. ASSUME NEW es \in Seq(Runs), Recent(log, es),
               HistoryAt(pc[r], lines[r], history, es)
        PROVE  /\ Recent(log', Keep(es)) /\ Keep(es) \in Seq(Runs)
               /\ HistoryAt(pc'[r], lines'[r], history', Keep(es))
    <3>1. lines[r] = Singles(es) /\ history = <<>>
      BY <2>1, <2>3 DEF HistoryAt
    <3>2. Keep(es) \in Seq(Runs) /\ kept = Joined(Singles(Keep(es)))
      BY <3>1, KeptEntries
    <3>3. IsText(kept, Keep(es), 2 * Len(Keep(es)))
      BY <3>2, JoinedText
    <3>4. kept \in Seq(Runs \union {NewLine})
      BY <3>3 DEF IsText
    <3> HIDE DEF kept
    <3>5. history' = kept
      <4>1. Len(kept) \in Nat
        BY <3>4
      <4>2. SubSeq(<<>>, Len(kept) + 1, 0) = <<>>
        BY <4>1
      <4>3. kept \o <<>> = kept
        BY <3>4
      <4> QED
        BY <2>1, <3>1, <4>2, <4>3
    <3>6. Recent(log', Keep(es))
      BY <1>1, <2>1, <2>3, RecentKept
    <3> QED
      BY <1>6, <3>2, <3>3, <3>5, <3>6 DEF HistoryAt
  <2> HIDE DEF kept
  <2>4. (~damaged') => \E es \in Seq(Runs) :
             Recent(log', es) /\ HistoryAt(pc'[r], lines'[r], history', es)
    BY <1>2, <2>1, <2>3
  <2> QED
    BY <1>1, <2>1, <2>2, <2>4
<1>7. CASE AppendEntry(r) /\ pc'[r] = "newline"
  <2>1. /\ pc[r] = "append" /\ history' = Append(history, r) /\ log' = Append(log, r)
        /\ UNCHANGED <<lines, damaged>>
    BY <1>1, <1>7 DEF AppendEntry, HistoryFault, FileTypes
  <2>2. log' \in Seq(Runs)
    BY <1>1, <2>1, Appended
  <2>3. ASSUME NEW es \in Seq(Runs), Recent(log, es),
               HistoryAt(pc[r], lines[r], history, es)
        PROVE  /\ Recent(log', Append(es, r)) /\ Append(es, r) \in Seq(Runs)
               /\ HistoryAt(pc'[r], lines'[r], history', Append(es, r))
    <3>1. IsText(history, es, 2 * Len(es))
      BY <2>1, <2>3 DEF HistoryAt
    <3>2. IsText(history', Append(es, r), 2 * Len(Append(es, r)) - 1)
      BY <2>1, <3>1, TextAppended
    <3>3. Append(es, r) \in Seq(Runs) /\ Len(Append(es, r)) >= 1
      <4>1. Append(es, r) \in Seq(Runs) /\ Len(Append(es, r)) = Len(es) + 1
        BY Appended
      <4> QED
        BY <4>1
    <3>4. Recent(log', Append(es, r))
      BY <1>1, <2>1, <2>3, RecentAppended
    <3> QED
      BY <1>7, <3>2, <3>3, <3>4 DEF HistoryAt
  <2>4. (~damaged') => \E es \in Seq(Runs) :
             Recent(log', es) /\ HistoryAt(pc'[r], lines'[r], history', es)
    BY <1>2, <2>1, <2>3
  <2> QED
    BY <1>1, <2>1, <2>2, <2>4
<1>8. CASE AppendLineEnd(r) /\ ~damaged'
  <2>1. /\ pc[r] = "newline" /\ history' = Append(history, NewLine)
        /\ pc' = [pc EXCEPT ![r] = "remove"] /\ UNCHANGED <<lines, log, damaged>>
    BY <1>1, <1>8 DEF AppendLineEnd, HistoryFault, ghosts
  <2>2. pc'[r] = "remove"
    BY <1>1, <2>1 DEF FileTypes
  <2>3. ASSUME NEW es \in Seq(Runs), HistoryAt(pc[r], lines[r], history, es)
        PROVE  HistoryAt(pc'[r], lines'[r], history', es)
    <3>1. Len(es) >= 1 /\ IsText(history, es, 2 * Len(es) - 1)
      BY <2>1, <2>3 DEF HistoryAt
    <3>2. IsText(history', es, 2 * Len(es))
      BY <2>1, <3>1, TextEnded
    <3> QED
      BY <2>2, <3>2 DEF HistoryAt
  <2> QED
    BY <1>1, <1>2, <2>1, <2>3
<1>9. CASE ~(\/ Rotate(r) /\ pc'[r] = "truncate"
             \/ Truncate(r) /\ pc'[r] = "rewrite"
             \/ Rewrite(r) /\ pc'[r] = "append"
             \/ AppendEntry(r) /\ pc'[r] = "newline"
             \/ AppendLineEnd(r) /\ ~damaged')
  <2>1. /\ UNCHANGED <<log, lines>> /\ damaged' \in BOOLEAN /\ (damaged => damaged')
        /\ ~damaged' => /\ UNCHANGED history
                        /\ pc[r] \notin {"rewrite", "newline"}
                        /\ pc'[r] \notin Busy
    BY <1>1, <1>9, Undisturbed
  <2>2. ASSUME ~damaged', NEW es \in Seq(Runs), HistoryAt(pc[r], lines[r], history, es)
        PROVE  HistoryAt(pc'[r], lines'[r], history', es)
    BY <2>1, <2>2 DEF HistoryAt, Busy
  <2> QED
    BY <1>1, <1>2, <2>1, <2>2
<1> QED
  BY <1>4, <1>5, <1>6, <1>7, <1>8, <1>9

LEMMA HistoryStill ==
  ASSUME HistoryInv, UNCHANGED <<pc, historyFile, damaged, log>>
  PROVE  HistoryInv'
  BY DEF HistoryInv, HistoryIs, historyFile

LEMMA HistoryInitially ==
  ASSUME Init
  PROVE  HistoryInv
<1>1. /\ pc = [r \in Runs |-> "waiting"] /\ history = <<>>
      /\ lines = [r \in Runs |-> <<>>] /\ damaged = FALSE /\ log = <<>>
  BY DEF Init
<1>2. <<>> \in Seq(Runs) /\ Recent(<<>>, <<>>)
  BY DEF Recent
<1>3. IsText(<<>>, <<>>, 2 * Len(<<>>))
  BY DEF IsText
<1>4. HistoryIs(<<>>)
  BY <1>1, <1>3 DEF HistoryIs, Busy
<1> QED
  BY <1>1, <1>2, <1>4 DEF HistoryInv

LEMMA RecentIsSuffix ==
  ASSUME NEW l \in Seq(Runs), NEW es \in Seq(Runs), Recent(l, es)
  PROVE  IsSuffix(es, l) /\ Len(es) >= Min({Len(l), KeepLines})
<1> DEFINE n == Len(es)
           m == Len(l)
           a == Reverse(es)
           b == Reverse(l)
<1>1. /\ n \in Nat /\ m \in Nat /\ n <= m /\ KeepLines \in Nat
      /\ \A k \in 1 .. n : es[k] = l[m - n + k]
      /\ n = m \/ n >= KeepLines
  BY StateFileAssumption DEF Recent
<1>2. a = [i \in 1 .. n |-> es[n - i + 1]] /\ b = [i \in 1 .. m |-> l[m - i + 1]]
  BY DEF Reverse
<1> HIDE DEF a, b, n, m
<1>3. Len(a) = n /\ Len(b) = m
  BY <1>1, <1>2
<1>4. SubSeq(a, 1, n) = [i \in 1 .. n |-> a[i]]
  BY <1>1, <1>3
<1>5. SubSeq(b, 1, n) = [i \in 1 .. n |-> b[i]]
  BY <1>1, <1>3
<1>6. ASSUME NEW i \in 1 .. n
      PROVE  a[i] = b[i]
  <2>1. n - i + 1 \in 1 .. n /\ i \in 1 .. m /\ m - n + (n - i + 1) = m - i + 1
    BY <1>1
  <2> QED
    BY <1>1, <1>2, <2>1
<1>7. IsPrefix(a, b)
  BY <1>1, <1>3, <1>4, <1>5, <1>6 DEF IsPrefix
<1>8. n >= Min({m, KeepLines})
  <2>1. \E x \in {m, KeepLines} : \A y \in {m, KeepLines} : x <= y
    BY <1>1
  <2>2. /\ Min({m, KeepLines}) \in {m, KeepLines}
        /\ \A y \in {m, KeepLines} : Min({m, KeepLines}) <= y
    BY <2>1 DEF Min
  <2> QED
    BY <1>1, <2>2
<1> QED
  BY <1>7, <1>8 DEF IsSuffix, a, b, n, m

LEMMA ReadsBack ==
  ASSUME HistoryInv, ~damaged, \A r \in Runs : pc[r] # "rewrite"
  PROVE  \E es \in Seq(Runs) : Recent(log, es) /\ Readable(history) = es
<1>1. PICK es \in Seq(Runs) : Recent(log, es) /\ HistoryIs(es)
  BY DEF HistoryInv
<1>2. \E n \in Nat : n \in {2 * Len(es), 2 * Len(es) - 1} /\ IsText(history, es, n)
  <2>1. 2 * Len(es) \in Nat /\ (Len(es) >= 1 => 2 * Len(es) - 1 \in Nat)
    OBVIOUS
  <2>2. CASE \E r \in Runs : pc[r] \in Busy
    BY <1>1, <2>1, <2>2 DEF HistoryIs, HistoryAt, Busy
  <2>3. CASE \A r \in Runs : pc[r] \notin Busy
    BY <1>1, <2>1, <2>3 DEF HistoryIs
  <2> QED
    BY <2>2, <2>3
<1>3. Readable(history) = es
  BY <1>2, TextReadable
<1> QED
  BY <1>1, <1>3

\* The invariant of the history.
THEOREM HistoryInvariance == ASSUME ~Concurrent PROVE Spec => []HistoryInv
<1>1. Init => HistoryInv
  BY HistoryInitially
<1>2. FileInv /\ HistoryInv /\ [Next]_vars => HistoryInv'
  <2> SUFFICES ASSUME FileInv, HistoryInv, [Next]_vars PROVE HistoryInv'
    OBVIOUS
  <2>1. CASE \E r \in Runs : Step(r)
    BY <2>1, HistoryStep
  <2>2. CASE ~(\E r \in Runs : Step(r))
    <3>1. UNCHANGED <<pc, historyFile, damaged, log>>
      BY <2>2 DEF Next, Ask, LookAgain, Halted, ghosts, vars
    <3> QED
      BY <3>1, HistoryStill
  <2> QED
    BY <2>1, <2>2
<1> QED
  BY <1>1, <1>2, Invariance, PTL DEF Spec

\* Of runs one after the other, the history reads as the last completed runs in
\* order, however many, and a rotation keeps its number of them, unless an update
\* was interrupted (core/state.rs:234-284).
THEOREM HistoryIsRecent == ASSUME ~Concurrent PROVE Spec => []HistoryKeepsRecent
<1>1. HistoryInv => HistoryKeepsRecent
  <2> SUFFICES ASSUME HistoryInv, ~damaged, \A r \in Runs : pc[r] # "rewrite"
               PROVE  /\ IsSuffix(Readable(history), log)
                      /\ Len(Readable(history)) >= Min({Len(log), KeepLines})
    BY DEF HistoryKeepsRecent
  <2>1. PICK es \in Seq(Runs) : Recent(log, es) /\ Readable(history) = es
    BY ReadsBack
  <2>2. log \in Seq(Runs)
    BY DEF HistoryInv
  <2> QED
    BY <2>1, <2>2, RecentIsSuffix
<1> QED
  BY <1>1, HistoryInvariance, PTL

-----------------------------------------------------------------------------
(* The reader, of runs one after the other *)

\* A run that was shown and is not over is shown, unless a call failed; and who
\* asks for a task a second time found the run of it over.
AskedInv ==
  /\ \A r \in Runs : pc[r] = "waiting" => event[r] = NoEvent
  /\ \A r \in Runs :
       Announced(r) /\ pc[r] \notin Ended /\ r \notin missed => InCurrent(r)
  /\ asked \in Runs => pc[asked] = "ended"

LEMMA NotOver ==
  ASSUME FileTypes, NEW r \in Runs, Step(r)
  PROVE  pc[r] # "ended"
<1>1. CASE OtherSteps(r)
  BY <1>1, OtherMoves
<1> QED
  BY <1>1, PlaceSets DEF Step, OtherSteps, Create, Write, Rename, RemoveFile, Crash

LEMMA AskedStep ==
  ASSUME FileInv, ~Concurrent, AskedInv, NEW r \in Runs, Step(r), UNCHANGED asked
  PROVE  AskedInv'
<1> USE PlaceSets DEF Ended
<1>1. /\ FileTypes /\ OneActive /\ Writing
      /\ r \in Active \/ Active = {}
      /\ \A q \in Runs \ {r} : pc'[q] = pc[q] /\ event'[q] = event[q]
      /\ pc[r] # "ended"
  BY ActiveStep, NotOver DEF FileInv
<1>2. asked' \in Runs => pc'[asked'] = "ended"
  BY <1>1 DEF AskedInv
<1>3. missed \subseteq missed' /\ pc'[r] # "waiting"
  <2>1. CASE OtherSteps(r)
    <3>1. \E x \in Places \ {"waiting"} : pc' = [pc EXCEPT ![r] = x]
      BY <1>1, <2>1, OtherMoves
    <3>2. missed' = missed
      BY <1>1, <2>1, OtherMoves
    <3> QED
      BY <1>1, <3>1, <3>2 DEF FileTypes
  <2> QED
    BY <1>1, <2>1 DEF Step, OtherSteps, Create, Write, Rename, RemoveFile, Crash,
       StateFault, ghosts, Goto, FileTypes
<1>4. \A q \in Runs \ {r} : Announced(q)' /\ pc'[q] \notin Ended => pc[q] # "waiting"
  BY <1>1 DEF AskedInv, Announced
<1>5. \A q \in Runs \ {r} : ~(Announced(q)' /\ pc'[q] \notin Ended)
  BY <1>1, <1>4 DEF OneActive
<1>6. ASSUME Announced(r)', pc'[r] \notin Ended, r \notin missed'
      PROVE  InCurrent(r)'
  <2>1. r \notin missed
    BY <1>3, <1>6
  <2>2. CASE Announced(r) /\ pc[r] \notin Ended /\ UNCHANGED <<dst, content>>
    <3>1. InCurrent(r)
      BY <2>1, <2>2 DEF AskedInv
    <3> QED
      BY <2>2, <3>1 DEF InCurrent
  <2>3. CASE Emit(r)
    <3>1. PICK e \in Events :
            /\ Follows(event[r], e)
            /\ event' = [event EXCEPT ![r] = e]
            /\ pc' = [pc EXCEPT ![r] = IF e.name = "Complete" THEN "count" ELSE "create"]
      BY <2>3 DEF Emit, Goto
    <3>2. event'[r] = e /\ (e.name # "Complete" => pc'[r] = "create")
      BY <1>1, <3>1 DEF FileTypes
    <3>3. e.name # "PlanReady"
      BY <1>6, <3>2 DEF Announced, InStateFile
    <3>4. event[r].name # "none"
      BY <3>1, <3>3 DEF Follows, Sent
    <3>5. event[r] # NoEvent
      BY <3>4 DEF NoEvent, Sent
    <3>6. pc[r] = "idle"
      BY <2>3, <3>5 DEF Emit, AskedInv
    <3>7. UNCHANGED <<dst, content>>
      BY <1>1, <2>3, OtherMoves DEF OtherSteps
    <3> QED
      BY <2>2, <3>5, <3>6, <3>7 DEF Announced, InStateFile
  <2>4. CASE ToolCall(r)
    <3>1. pc[r] = "idle" /\ event[r].name = "IterationStart" /\ UNCHANGED <<dst, content>>
      BY <2>4 DEF ToolCall, stateFile
    <3>2. event[r] # NoEvent
      BY <3>1 DEF NoEvent, Sent
    <3> QED
      BY <2>2, <3>1, <3>2 DEF Announced, InStateFile
  <2>5. ~GiveUp(r) /\ ~Crash(r) /\ ~RemoveFile(r)
    BY <1>1, <1>6 DEF GiveUp, Crash, RemoveFile, Goto, FileTypes
  <2>6. CASE Count(r) \/ Rotate(r) \/ Truncate(r) \/ Rewrite(r) \/ AppendEntry(r)
             \/ AppendLineEnd(r)
    <3>1. UNCHANGED <<dst, content>>
      BY <1>1, <2>6, OtherMoves DEF OtherSteps
    <3>2. /\ pc[r] \in {"count", "rotate", "truncate", "rewrite", "append", "newline"}
          /\ event' = event
      BY <2>6 DEF Count, Rotate, Truncate, Rewrite, AppendEntry, AppendLineEnd,
         HistoryFault
    <3> QED
      BY <1>6, <2>2, <3>1, <3>2 DEF Announced, InStateFile
  <2>7. CASE Create(r) \/ Write(r)
    <3>1. ~StateFault(r)
      BY <1>6 DEF StateFault
    <3>2. pc[r] \in {"create", "write"} /\ pc'[r] \in {"write", "rename"}
          /\ UNCHANGED <<event, dst>>
      BY <1>1, <2>7, <3>1 DEF Create, Write, Goto, FileTypes
    <3>3. Announced(r)
      BY <1>6, <3>2 DEF Announced, InStateFile
    <3>4. InCurrent(r)
      BY <2>1, <3>2, <3>3 DEF AskedInv
    <3>5. dst # NoInode /\ dst \in Inodes /\ tmp # dst
      BY <1>1, <3>4 DEF InCurrent, FileTypes
    <3>6. \E f \in Inodes \ {dst} : \E x : content' = [content EXCEPT ![f] = x]
      <4>1. CASE Create(r)
        <5>1. PICK f \in Inodes : /\ tmp = f \/ f # dst
                                  /\ content' = [content EXCEPT ![f] = Empty]
          BY <3>1, <4>1 DEF Create
        <5> QED
          BY <3>5, <5>1
      <4>2. CASE Write(r)
        <5>1. fd[r] \in Inodes /\ fd[r] = tmp
          BY <1>1, <4>2 DEF Write, Writing, FileTypes
        <5>2. \E x : content' = [content EXCEPT ![fd[r]] = x]
          BY <3>1, <4>2 DEF Write
        <5> QED
          BY <3>5, <5>1, <5>2
      <4> QED
        BY <2>7, <4>1, <4>2
    <3>7. content'[dst] = content[dst]
      BY <1>1, <3>5, <3>6 DEF FileTypes
    <3> QED
      BY <3>2, <3>4, <3>7 DEF InCurrent
  <2>8. CASE Rename(r)
    <3>1. ~StateFault(r)
      BY <1>6 DEF StateFault
    <3>2. tmp # NoInode /\ dst' = tmp /\ content' = Unnamed(dst) /\ pc[r] = "rename"
      BY <2>8, <3>1 DEF Rename
    <3>3. tmp \in Inodes /\ tmp # dst /\ content[tmp] = Doc(r, event[r])
      BY <1>1, <3>2 DEF FileTypes, Writing
    <3>4. content'[tmp] = Doc(r, event[r])
      BY <3>2, <3>3 DEF Unnamed
    <3>5. Doc(r, event[r]) \notin {Empty, Torn} /\ Doc(r, event[r]).run = r
      <4>1. event[r] \in Events
        BY <1>1 DEF FileTypes
      <4>2. Doc(r, event[r]).run = r
        BY DEF Doc
      <4> QED
        BY <4>1, <4>2, DocAssumption
    <3> QED
      BY <3>2, <3>4, <3>5 DEF InCurrent
  <2> QED
    BY <2>3, <2>4, <2>5, <2>6, <2>7, <2>8 DEF Step
<1>7. \A q \in Runs : pc'[q] = "waiting" => event'[q] = NoEvent
  BY <1>1, <1>3 DEF AskedInv
<1> QED
  BY <1>2, <1>5, <1>6, <1>7 DEF AskedInv

LEMMA AskedElse ==
  ASSUME AskedInv, Next, ~(\E r \in Runs : Step(r) /\ UNCHANGED asked)
  PROVE  AskedInv'
<1>1. UNCHANGED <<event, pc, dst, content, missed>>
  BY DEF Next, Ask, LookAgain, Halted, stateFile, ghosts, vars
<1>2. \A r \in Runs : Announced(r)' = Announced(r) /\ InCurrent(r)' = InCurrent(r)
  BY <1>1 DEF Announced, InCurrent
<1>3. CASE \E r \in Runs : Ask(r)
  <2>1. PICK r \in Runs : Ask(r)
    BY <1>3
  <2>2. asked' = r /\ Announced(r) /\ ~InCurrent(r) /\ ~Unrecorded(r)
    BY <2>1 DEF Ask, Finds
  <2>3. r \notin missed /\ pc[r] # "dead"
    BY <2>2 DEF Unrecorded, Ended
  <2>4. pc[r] = "ended"
    BY <2>2, <2>3 DEF AskedInv, Ended
  <2> QED
    BY <1>1, <1>2, <2>2, <2>4 DEF AskedInv
<1>4. CASE LookAgain
  <2>1. asked' \notin Runs
    BY <1>4, StateFileAssumption DEF LookAgain
  <2> QED
    BY <1>1, <1>2, <2>1 DEF AskedInv
<1>5. CASE Halted
  BY <1>1, <1>2, <1>5 DEF AskedInv, Halted, vars
<1> QED
  BY <1>3, <1>4, <1>5 DEF Next

LEMMA GreatestOf ==
  ASSUME NEW L \in Nat, NEW S \in SUBSET (0 .. L), S # {}
  PROVE  Max(S) \in S /\ \A x \in S : x <= Max(S)
<1> DEFINE T == {L - x : x \in S}
<1>1. T \in SUBSET Nat /\ T # {}
  <2>1. \A x \in S : L - x \in Nat
    OBVIOUS
  <2>2. PICK x \in S : TRUE
    OBVIOUS
  <2>3. L - x \in T
    OBVIOUS
  <2> QED
    BY <2>1, <2>3
<1>2. PICK m \in T : \A y \in T : m <= y
  <2> HIDE DEF T
  <2> QED
    BY <1>1, LeastOf
<1>3. PICK x \in S : m = L - x
  BY <1>2
<1>4. \A y \in S : x >= y
  <2> SUFFICES ASSUME NEW y \in S PROVE x >= y
    OBVIOUS
  <2>1. L - x <= L - y
    BY <1>2, <1>3
  <2> QED
    BY <2>1
<1>5. Max(S) \in S /\ \A y \in S : Max(S) >= y
  BY <1>4 DEF Max
<1> QED
  BY <1>5

\* A run that is over is in the history, if a record of it can be expected.
LEMMA OverIsRecorded ==
  ASSUME HistoryInv, NEW r \in Runs, pc[r] = "ended", ~Unrecorded(r)
  PROVE  InRecord(r)
<1>1. ~damaged /\ \A o \in Runs : pc[o] # "rewrite"
  BY DEF Unrecorded
<1>2. PICK es \in Seq(Runs) : Recent(log, es) /\ Readable(history) = es
  BY <1>1, ReadsBack
<1> DEFINE L == Len(log)
           p == Position(r)
<1>3. log \in Seq(Runs) /\ L \in Nat /\ DOMAIN log = 1 .. L
  BY DEF HistoryInv
<1>4. p \in {0} \union {k \in 1 .. L : log[k] = r}
  <2> DEFINE S == {0} \union {k \in DOMAIN log : log[k] = r}
  <2>1. S \in SUBSET (0 .. L) /\ S # {}
    BY <1>3
  <2> HIDE DEF S
  <2>2. Max(S) \in S
    BY <1>3, <2>1, GreatestOf
  <2> QED
    BY <1>3, <2>2 DEF Position, S
<1>5. p # 0 /\ ~(p > 0 /\ L - p >= KeepLines)
  BY DEF Unrecorded
<1> HIDE DEF L, p
<1>6. p \in 1 .. L /\ log[p] = r /\ L - p < KeepLines /\ KeepLines \in Nat
  BY <1>3, <1>4, <1>5, StateFileAssumption
<1>7. /\ Len(es) \in Nat /\ Len(es) <= L
      /\ \A k \in 1 .. Len(es) : es[k] = log[L - Len(es) + k]
      /\ Len(es) = L \/ Len(es) >= KeepLines
  BY <1>2 DEF Recent, L
<1>8. p - (L - Len(es)) \in 1 .. Len(es)
  BY <1>3, <1>6, <1>7
<1>9. es[p - (L - Len(es))] = r
  <2>1. L - Len(es) + (p - (L - Len(es))) = p
    BY <1>3, <1>6, <1>7
  <2> QED
    BY <1>6, <1>7, <1>8, <2>1
<1> QED
  BY <1>2, <1>8, <1>9 DEF InRecord, Contains

\* Of runs one after the other, whoever asks for a task that has been shown finds
\* it in one of the two files, although it reads one after the other while the
\* task moves, unless no record can be expected (api/mod.rs:227-257).
THEOREM AskedIsFound == ASSUME ~Concurrent PROVE Spec => TaskIsFound
<1>1. Init => AskedInv
  <2> SUFFICES ASSUME Init PROVE AskedInv
    OBVIOUS
  <2>1. \A r \in Runs : pc[r] = "waiting" /\ event[r] = NoEvent
    BY DEF Init
  <2>2. asked \notin Runs
    BY StateFileAssumption DEF Init
  <2> QED
    BY <2>1, <2>2 DEF AskedInv, Announced
<1>2. FileInv /\ AskedInv /\ [Next]_vars => AskedInv'
  <2> SUFFICES ASSUME FileInv, AskedInv, [Next]_vars PROVE AskedInv'
    OBVIOUS
  <2>1. CASE \E r \in Runs : Step(r) /\ UNCHANGED asked
    BY <2>1, AskedStep
  <2>2. CASE Next /\ ~(\E r \in Runs : Step(r) /\ UNCHANGED asked)
    BY <2>2, AskedElse
  <2>3. CASE UNCHANGED vars
    <3>1. UNCHANGED <<event, pc, dst, content, missed, asked>>
      BY <2>3 DEF vars, stateFile, ghosts
    <3> QED
      BY <3>1 DEF AskedInv, Announced, InCurrent
  <2> QED
    BY <2>1, <2>2, <2>3
<1>3. AskedInv /\ HistoryInv /\ [Next]_vars =>
        [\A r \in Runs : asked = r /\ asked' = Nothing => Finds(2, r) \/ Unrecorded(r)]_vars
  <2> SUFFICES ASSUME AskedInv, HistoryInv, NEW r \in Runs, asked = r
               PROVE  Finds(2, r) \/ Unrecorded(r)
    OBVIOUS
  <2>1. pc[r] = "ended"
    BY DEF AskedInv
  <2>2. Unrecorded(r) \/ InRecord(r)
    BY <2>1, OverIsRecorded
  <2> QED
    BY <2>2 DEF Finds
<1> QED
  BY <1>1, <1>2, <1>3, Invariance, HistoryInvariance, PTL DEF Spec, TaskIsFound

=============================================================================
