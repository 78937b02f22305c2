----------------------------- MODULE HomeProofs -----------------------------
(***************************************************************************)
(* Theorems about Home for any number of processes, commands and skills,   *)
(* any clock and any credentials in the environment.                       *)
(***************************************************************************)
EXTENDS Home, FiniteSetTheorems, TLAPS

-----------------------------------------------------------------------------
(* Types *)

Stores == UNION {[ids -> Infos] : ids \in SUBSET StoreIds}

\* Key files are for providers with a key.
KeyFileIds == KeyIds \union {"custom"}
KeyFiles == UNION {[ids -> BOOLEAN] : ids \in SUBSET KeyFileIds}

Names == {"auth", "apps"}

Writing == {"create", "write", "rename"}

Updating == {"install", "clear", "set aside", "replace"}

Seeking == {"migrate", "discover", "pick", "resolve", "build", "unavailable"}

Fields == {"pc", "do", "what", "store", "file", "then", "strict", "found",
           "target", "tries", "fresh", "stopping"}

FileTypes ==
  /\ now \in Nat
  /\ DOMAIN disk = Names
  /\ DOMAIN temp = Names
  /\ disk["auth"] \in Stores \union {NoFile, Torn}
  /\ temp["auth"] \in Stores \union {NoFile, Torn}
  /\ keys \in KeyFiles

OtherTypes ==
  /\ pid \in Procs \union {None}
  /\ dirs \in [Skills -> [proposed : {"whole", "empty", "none"},
                          user : {"none", "cut", "whole"}]]
  /\ exe \in [file : Int, new : Int, bak : Int]

\* What a process at a place in its command can be doing.
Shape(q) ==
  /\ DOMAIN q = Fields
  /\ q.pc \in Writing => /\ q.file \in Names
                         /\ q.then \in {"done", "all", "resolve", "discover", "build"}
                         /\ q.file = "auth" => q.store \in Stores
  /\ q.pc = "flow" => /\ q.what \in OAuthIds
                      /\ q.do \in {"connect", "run", "start"}
                      /\ q.do = "connect" => q.store \in Stores
  /\ q.pc \in Seeking => q.do \in {"run", "start"}
  /\ q.pc \in Writing /\ q.then \in {"resolve", "discover", "build"} =>
       q.do \in {"run", "start"}
  /\ q.do = "update" => q.pc \in Updating \union {"begin"}
  /\ q.pc \in Updating => q.do = "update"
  /\ q.pc \in {"announce", "daemon"} => q.do = "start"
  /\ q.pc = "kill" => q.target \in Procs
  /\ q.stopping => q.pc = "daemon"
  /\ q.pc = "all" => q.store \in Stores /\ q.do = "disconnect"
  /\ q.pc \in Writing /\ q.then = "all" =>
       q.file = "auth" /\ q.strict /\ q.do = "disconnect"
  /\ q.pc = "idle" => q.do = "none"

ProcTypes ==
  /\ DOMAIN proc = Procs
  /\ \A p \in Procs : Shape(proc[p])

-----------------------------------------------------------------------------
(* The credentials *)

LEMMA EmptyStore == Empty \in Stores
<1>1. Empty \in [{} -> Infos]
  BY DEF Empty
<1> QED
  BY <1>1 DEF Stores

LEMMA LoadedType ==
  ASSUME NEW file \in Stores \union {NoFile, Torn}
  PROVE  Loaded(file) \in Stores
  BY EmptyStore DEF Loaded

LEMMA StoreIsLoaded ==
  ASSUME NEW store \in Stores
  PROVE  Loaded(store) = store /\ store # NoFile
<1>1. NoFile \notin Stores /\ Torn \notin Stores
  BY FilesAssumption DEF IsStore, Stores
<1> QED
  BY <1>1 DEF Loaded

LEMMA WithType ==
  ASSUME NEW store \in Stores, NEW id \in StoreIds, NEW info \in Infos
  PROVE  /\ With(store, id, info) \in Stores
         /\ DOMAIN With(store, id, info) = DOMAIN store \union {id}
<1>1. PICK ids \in SUBSET StoreIds : store \in [ids -> Infos]
  BY DEF Stores
<1>2. With(store, id, info) \in [ids \union {id} -> Infos]
  BY <1>1 DEF With
<1> QED
  BY <1>1, <1>2 DEF Stores, With

LEMMA WithoutType ==
  ASSUME NEW store \in Stores, NEW id
  PROVE  /\ Without(store, id) \in Stores
         /\ DOMAIN Without(store, id) = DOMAIN store \ {id}
<1>1. PICK ids \in SUBSET StoreIds : store \in [ids -> Infos]
  BY DEF Stores
<1>2. Without(store, id) \in [ids \ {id} -> Infos]
  BY <1>1 DEF Without
<1> QED
  BY <1>1, <1>2 DEF Stores, Without

LEMMA InfoTypes == ApiKey \in Infos /\ \A t \in Nat : OAuth(t) \in Infos
  BY DEF ApiKey, OAuth, Infos

LEMMA MigratedType ==
  ASSUME NEW store \in Stores, FileTypes
  PROVE  /\ Migrated(store, keys) \in Stores
         /\ DOMAIN store \subseteq DOMAIN Migrated(store, keys)
<1>1. PICK ids \in SUBSET StoreIds : store \in [ids -> Infos]
  BY DEF Stores
<1>2. DOMAIN keys \subseteq StoreIds
  BY DEF FileTypes, KeyFiles, KeyFileIds, StoreIds
<1>3. Migrated(store, keys)
        \in [ids \union {k \in DOMAIN keys : keys[k]} -> Infos]
  BY <1>1, InfoTypes DEF Migrated
<1> QED
  BY <1>1, <1>2, <1>3 DEF Stores, Migrated

-----------------------------------------------------------------------------
(* The steps of a process *)

\* What a step that turns process p into r leaves.
Becomes(p, r) ==
  /\ DOMAIN proc' = Procs
  /\ proc'[p] = r
  /\ \A q \in Procs : q # p => proc'[q] = proc[q]

LEMMA IdleShape == Shape(Idle)
  BY DEF Shape, Idle, Writing, Seeking, Updating, Fields

LEMMA EndFacts ==
  ASSUME ProcTypes, NEW p \in Procs, End(p)
  PROVE  Becomes(p, Idle) /\ ProcTypes'
<1>1. Becomes(p, Idle)
  BY DEF End, Becomes, ProcTypes
<1> QED
  BY <1>1, IdleShape DEF Becomes, ProcTypes

\* A step leaves all of a process but its place,
LEMMA StepFacts ==
  ASSUME ProcTypes, NEW p \in Procs, NEW x, Step(p, x)
  PROVE  /\ Becomes(p, proc'[p])
         /\ DOMAIN proc'[p] = Fields
         /\ proc'[p].pc = x
         /\ \A f \in Fields : f # "pc" => proc'[p][f] = proc[p][f]
<1>1. DOMAIN proc[p] = Fields /\ DOMAIN proc = Procs
  BY DEF ProcTypes, Shape
<1>2. Becomes(p, [proc[p] EXCEPT !.pc = x])
  BY <1>1 DEF Step, Becomes
<1> QED
  BY <1>1, <1>2 DEF Becomes, Fields

\* a save all but what is to be written and where it goes on.
LEMMA SavingFacts ==
  ASSUME ProcTypes, NEW p \in Procs, NEW file, NEW store, NEW then, NEW strict,
         Saving(p, file, store, then, strict)
  PROVE  /\ Becomes(p, proc'[p])
         /\ DOMAIN proc'[p] = Fields
         /\ proc'[p].pc = "create" /\ proc'[p].file = file
         /\ proc'[p].store = store /\ proc'[p].then = then
         /\ \A f \in Fields : f \notin {"pc", "file", "store", "then", "strict"} =>
              proc'[p][f] = proc[p][f]
<1>1. DOMAIN proc[p] = Fields /\ DOMAIN proc = Procs
  BY DEF ProcTypes, Shape
<1>2. Becomes(p, [proc[p] EXCEPT !.pc = "create", !.file = file, !.store = store,
                                 !.then = then, !.strict = strict])
  BY <1>1 DEF Saving, Becomes
<1> QED
  BY <1>1, <1>2 DEF Becomes, Fields

LEMMA ShapeStep ==
  ASSUME ProcTypes, NEW p \in Procs, NEW r, Becomes(p, r), Shape(r)
  PROVE  ProcTypes'
  BY DEF ProcTypes, Becomes

\* Places that the commands for skills, updates and the daemon pass through.
Kept == Updating \union {"copy", "remove", "removing", "daemon", "kill"}

\* A step of p that none of those commands takes, apart from dying.
Quiet(p) ==
  /\ Becomes(p, proc'[p])
  /\ Shape(proc'[p])
  /\ \/ proc'[p] = Idle
     \/ /\ proc'[p].do = proc[p].do /\ proc[p].do # "update"
        /\ proc'[p].stopping = proc[p].stopping
        /\ proc[p].pc \notin Kept /\ proc'[p].pc \notin Kept
        /\ proc[p].do = "start" => proc[p].pc # "begin"
  /\ UNCHANGED <<pid, dirs, exe, dismissed>>

LEMMA QuietEnd ==
  ASSUME ProcTypes, NEW p \in Procs, End(p), UNCHANGED <<pid, dirs, exe, dismissed>>
  PROVE  Quiet(p)
  BY EndFacts, IdleShape DEF Quiet, Becomes

LEMMA WritingSteps ==
  ASSUME ProcTypes, FileTypes, NEW p \in Procs, Create(p) \/ Write(p) \/ Rename(p)
  PROVE  Quiet(p)
<1> USE DEF ProcTypes, Writing, Seeking, Updating, Kept, At, Does, rest
<1>1. CASE End(p)
  BY <1>1, QuietEnd DEF Create, Write, Rename
<1>2. /\ proc[p].pc \in Writing
      /\ UNCHANGED <<pid, dirs, exe, dismissed>>
  BY DEF Create, Write, Rename
<1>3. ASSUME NEW x \in {"write", "rename", proc[p].then}, Step(p, x) PROVE Quiet(p)
  <2>1. x \in {"write", "rename", "done", "all", "resolve", "discover", "build"}
    BY <1>2, <1>3 DEF Shape
  <2>2. /\ Becomes(p, proc'[p])
        /\ DOMAIN proc'[p] = Fields
        /\ proc'[p].pc = x
        /\ \A f \in Fields : f # "pc" => proc'[p][f] = proc[p][f]
    BY <1>3, StepFacts
  <2>3. Shape(proc'[p])
    BY ZenonT(40), <1>2, <1>3, <2>1, <2>2 DEF Shape, Fields
  <2>4. proc[p].do # "update"
    BY <1>2 DEF Shape
  <2> QED
    BY <1>2, <2>1, <2>2, <2>3, <2>4 DEF Quiet, Fields
<1> QED
  BY <1>1, <1>3 DEF Create, Write, Rename, AfterFailure

LEMMA SavingQuiet ==
  ASSUME ProcTypes, NEW p \in Procs, NEW file \in Names, NEW store, NEW strict,
         NEW then \in {"done", "resolve", "discover", "build"},
         Saving(p, file, store, then, strict),
         file = "auth" => store \in Stores,
         then \in {"resolve", "discover", "build"} => proc[p].do \in {"run", "start"},
         proc[p].do # "update", proc[p].pc \notin Kept \union {"idle"},
         proc[p].do = "start" => proc[p].pc # "begin",
         UNCHANGED <<pid, dirs, exe, dismissed>>
  PROVE  Quiet(p)
<1>1. /\ Becomes(p, proc'[p])
      /\ DOMAIN proc'[p] = Fields
      /\ proc'[p].pc = "create" /\ proc'[p].file = file
      /\ proc'[p].store = store /\ proc'[p].then = then
      /\ \A f \in Fields : f \notin {"pc", "file", "store", "then", "strict"} =>
           proc'[p][f] = proc[p][f]
  BY SavingFacts
<1>2. Shape(proc[p])
  BY DEF ProcTypes
<1>3. Shape(proc'[p])
  BY <1>1, <1>2 DEF Shape, Fields, Writing, Seeking, Updating, Kept
<1> QED
  BY <1>1, <1>3 DEF Quiet, Fields, Kept, Updating

LEMMA ConnectSteps ==
  ASSUME ProcTypes, FileTypes, NEW p \in Procs,
         ConnectOAuth(p) \/ ConnectKey(p) \/ ConnectApp(p) \/ ConnectEmail(p)
  PROVE  Quiet(p)
<1> USE DEF At, Does, rest
<1>1. CASE End(p)
  BY <1>1, QuietEnd DEF ConnectOAuth, ConnectKey, ConnectApp, ConnectEmail
<1>2. CASE ConnectOAuth(p) /\ ~End(p)
  <2>1. Loaded(disk["auth"]) \in Stores
    BY LoadedType DEF FileTypes
  <2>2. /\ proc' = [proc EXCEPT ![p].pc = "flow", ![p].store = Loaded(disk["auth"])]
        /\ proc[p].pc = "begin" /\ proc[p].do = "connect"
        /\ proc[p].what \in OAuthIds
        /\ UNCHANGED <<pid, dirs, exe, dismissed>>
    BY <1>2 DEF ConnectOAuth
  <2>3. DOMAIN proc[p] = Fields /\ DOMAIN proc = Procs /\ Shape(proc[p])
    BY DEF ProcTypes, Shape
  <2>4. Becomes(p, [proc[p] EXCEPT !.pc = "flow", !.store = Loaded(disk["auth"])])
    BY <2>2, <2>3 DEF Becomes
  <2>5. /\ DOMAIN proc'[p] = Fields
        /\ proc'[p].pc = "flow" /\ proc'[p].store = Loaded(disk["auth"])
        /\ \A f \in Fields : f \notin {"pc", "store"} => proc'[p][f] = proc[p][f]
    BY <2>3, <2>4 DEF Becomes, Fields
  <2>6. Shape(proc'[p])
    BY <2>1, <2>2, <2>3, <2>5 DEF Shape, Fields, Writing, Seeking, Updating
  <2> QED
    BY <2>2, <2>4, <2>5, <2>6 DEF Quiet, Becomes, Fields, Kept, Updating
<1>3. CASE (ConnectApp(p) \/ ConnectEmail(p)) /\ ~End(p)
  <2>1. /\ \E store : Saving(p, "apps", store, "done", TRUE)
        /\ proc[p].pc = "begin" /\ proc[p].do = "connect"
        /\ UNCHANGED <<pid, dirs, exe, dismissed>>
    BY <1>3 DEF ConnectApp, ConnectEmail
  <2> QED
    BY <2>1, SavingQuiet DEF Names, Kept, Updating
<1> QED
  BY <1>1, <1>2, <1>3 DEF ConnectKey

LEMMA DeviceFlowStep ==
  ASSUME ProcTypes, FileTypes, NEW p \in Procs, DeviceFlow(p)
  PROVE  Quiet(p)
<1> USE DEF At, Does, rest
<1>1. CASE End(p)
  BY <1>1, QuietEnd DEF DeviceFlow
<1> DEFINE store == IF Does(p, "connect") THEN proc[p].store ELSE Loaded(disk["auth"])
           then  == IF Does(p, "connect") THEN "done" ELSE "resolve"
<1>2. CASE ~End(p)
  <2>1. PICK info \in {OAuth(0), OAuth(now + Life)} :
          Saving(p, "auth", With(store, proc[p].what, info), then, TRUE)
    BY <1>2 DEF DeviceFlow, GithubDeviceCodeFlow, OpenaiCodexDeviceFlow
  <2>2. /\ proc[p].pc = "flow"
        /\ UNCHANGED <<pid, dirs, exe, dismissed>>
    BY <1>2 DEF DeviceFlow
  <2>3. store \in Stores /\ proc[p].what \in StoreIds
    BY <2>2, LoadedType DEF ProcTypes, Shape, FileTypes, StoreIds
  <2>4. With(store, proc[p].what, info) \in Stores
    <3>1. now + Life \in Nat /\ 0 \in Nat
      BY HomeAssumption DEF FileTypes
    <3>2. info \in Infos
      BY <2>1, <3>1, InfoTypes
    <3> QED
      BY <2>3, <3>2, WithType
  <2>5. then \in {"done", "resolve", "discover", "build"}
    OBVIOUS
  <2>6. /\ proc[p].do # "update" /\ proc[p].pc \notin Kept \union {"idle"}
        /\ then = "resolve" => proc[p].do \in {"run", "start"}
    BY <2>2 DEF ProcTypes, Shape, Kept, Updating
  <2> QED
    BY <2>1, <2>2, <2>4, <2>5, <2>6, SavingQuiet DEF Names
<1> QED
  BY <1>1, <1>2

\* A step to a place that needs nothing else.
LEMMA QuietMove ==
  ASSUME ProcTypes, NEW p \in Procs,
         Becomes(p, proc'[p]), DOMAIN proc'[p] = Fields,
         proc'[p].do = proc[p].do, proc'[p].stopping = proc[p].stopping,
         proc[p].pc \notin Kept \union {"idle"}, proc[p].do # "update",
         proc[p].do = "start" => proc[p].pc # "begin",
         proc'[p].pc \notin Writing \union Kept \union {"idle"},
         proc'[p].pc = "announce" => proc[p].do = "start",
         proc'[p].pc = "all" => proc[p].do = "disconnect" /\ proc'[p].store \in Stores,
         proc'[p].pc = "flow" => proc'[p].what \in OAuthIds,
         proc'[p].pc \in Seeking \union {"flow"} => proc[p].do \in {"run", "start"},
         UNCHANGED <<pid, dirs, exe, dismissed>>
  PROVE  Quiet(p)
<1>1. Shape(proc[p])
  BY DEF ProcTypes
<1>2. Shape(proc'[p])
  BY <1>1 DEF Shape, Fields, Writing, Seeking, Updating, Kept
<1> QED
  BY <1>2 DEF Quiet

\* The same when nothing but its place changes.
LEMMA QuietStep ==
  ASSUME ProcTypes, NEW p \in Procs, NEW x, Step(p, x),
         proc[p].pc \notin Kept \union {"idle"}, proc[p].do # "update",
         proc[p].do = "start" => proc[p].pc # "begin",
         x \notin Writing \union Kept \union {"idle", "flow", "all"},
         x = "announce" => proc[p].do = "start",
         x \in Seeking => proc[p].do \in {"run", "start"},
         UNCHANGED <<pid, dirs, exe, dismissed>>
  PROVE  Quiet(p)
<1>1. /\ Becomes(p, proc'[p])
      /\ DOMAIN proc'[p] = Fields
      /\ proc'[p].pc = x
      /\ \A f \in Fields : f # "pc" => proc'[p][f] = proc[p][f]
  BY StepFacts
<1>2. proc'[p].do = proc[p].do /\ proc'[p].stopping = proc[p].stopping
  BY <1>1 DEF Fields
<1> QED
  BY <1>1, <1>2, QuietMove

\* One login of `disconnect all`: its copy is to be written, or there is nothing
\* to remove from it.
LEMMA RemoveFacts ==
  ASSUME ProcTypes, NEW p \in Procs, NEW id, NEW store \in Stores,
         RemoveLogin(p, id, store)
  PROVE  /\ Becomes(p, proc'[p])
         /\ DOMAIN proc'[p] = Fields
         /\ proc'[p].what = id /\ proc'[p].store = Without(store, id)
         /\ proc'[p].store \in Stores
         /\ proc'[p].do = proc[p].do /\ proc'[p].stopping = proc[p].stopping
         /\ \/ id \notin DOMAIN store /\ proc'[p].pc = "all"
            \/ /\ id \in DOMAIN store /\ proc'[p].pc = "create"
               /\ proc'[p].file = "auth" /\ proc'[p].then = "all" /\ proc'[p].strict
<1>1. DOMAIN proc[p] = Fields /\ DOMAIN proc = Procs
  BY DEF ProcTypes, Shape
<1>2. Without(store, id) \in Stores
  BY WithoutType
<1>3. CASE id \notin DOMAIN store
  <2>1. Becomes(p, [[proc[p] EXCEPT !.what = id, !.store = Without(store, id)]
                     EXCEPT !.pc = "all"])
    BY <1>1, <1>3 DEF RemoveLogin, Becomes
  <2> QED
    BY <1>1, <1>2, <1>3, <2>1 DEF Becomes, Fields
<1>4. CASE id \in DOMAIN store
  <2>1. Becomes(p, [[proc[p] EXCEPT !.what = id, !.store = Without(store, id)]
                     EXCEPT !.pc = "create", !.file = "auth", !.then = "all",
                            !.strict = TRUE])
    BY <1>1, <1>4 DEF RemoveLogin, Becomes
  <2> QED
    BY <1>1, <1>2, <1>4, <2>1 DEF Becomes, Fields
<1> QED
  BY <1>3, <1>4

LEMMA DisconnectSteps ==
  ASSUME ProcTypes, FileTypes, NEW p \in Procs,
         \/ DisconnectOAuth(p) \/ DisconnectKey(p) \/ DisconnectAll(p)
         \/ NextLogin(p) \/ RemoveRest(p)
  PROVE  Quiet(p)
<1> USE DEF At, Does, rest
<1>0. UNCHANGED <<pid, dirs, exe, dismissed>>
  BY DEF DisconnectOAuth, DisconnectKey, DisconnectAll, NextLogin, RemoveRest
<1>1. CASE End(p)
  BY <1>0, <1>1, QuietEnd
<1>2. proc[p].pc \in {"begin", "all"} /\ proc[p].do = "disconnect"
  BY DEF DisconnectOAuth, DisconnectKey, DisconnectAll, NextLogin, RemoveRest,
     ProcTypes, Shape
<1>3. proc[p].pc \notin Kept \union {"idle"}
  BY <1>2 DEF Kept, Updating
<1>4. Loaded(disk["auth"]) \in Stores
  BY LoadedType DEF FileTypes
<1>5. ASSUME NEW id, Saving(p, "auth", Without(Loaded(disk["auth"]), id), "done", TRUE)
      PROVE  Quiet(p)
  <2>1. Without(Loaded(disk["auth"]), id) \in Stores
    BY <1>4, WithoutType
  <2> QED
    BY <1>0, <1>2, <1>3, <1>5, <2>1, SavingQuiet DEF Names
<1>6. CASE DisconnectOAuth(p)
  BY <1>1, <1>5, <1>6 DEF DisconnectOAuth
<1>7. CASE DisconnectKey(p)
  BY <1>1, <1>5, <1>7 DEF DisconnectKey
<1>8. CASE DisconnectAll(p) \/ NextLogin(p)
  <2>1. PICK id \in {"copilot", "chatgpt"}, store \in Stores : RemoveLogin(p, id, store)
    BY <1>4, <1>8 DEF DisconnectAll, NextLogin, ProcTypes, Shape
  <2>2. /\ Becomes(p, proc'[p])
        /\ DOMAIN proc'[p] = Fields
        /\ proc'[p].store \in Stores
        /\ proc'[p].do = proc[p].do /\ proc'[p].stopping = proc[p].stopping
        /\ \/ proc'[p].pc = "all"
           \/ /\ proc'[p].pc = "create" /\ proc'[p].file = "auth"
              /\ proc'[p].then = "all" /\ proc'[p].strict
    BY <2>1, RemoveFacts
  <2>3. CASE proc'[p].pc = "all"
    BY <1>0, <1>2, <1>3, <2>2, <2>3, QuietMove DEF Writing, Seeking, Kept, Updating
  <2>4. CASE proc'[p].pc = "create"
    <3>1. proc[p].do = "disconnect" /\ ~proc[p].stopping
      BY <1>2 DEF ProcTypes, Shape
    <3>2. Shape(proc'[p])
      BY <2>2, <2>4, <3>1 DEF Shape, Names, Writing, Seeking, Updating
    <3> QED
      BY <1>0, <1>2, <1>3, <2>2, <2>4, <3>2 DEF Quiet, Kept, Updating
  <2> QED
    BY <2>2, <2>3, <2>4
<1> QED
  BY <1>1, <1>6, <1>7, <1>8 DEF RemoveRest

LEMMA ProviderSteps ==
  ASSUME ProcTypes, FileTypes, NEW p \in Procs,
         RunTask(p) \/ MigrateKeys(p) \/ Discover(p) \/ Pick(p) \/ Build(p)
  PROVE  Quiet(p)
<1> USE DEF At, Does, rest
<1>0. UNCHANGED <<pid, dirs, exe, dismissed>>
  BY DEF RunTask, MigrateKeys, Discover, Pick, Build
<1>1. CASE End(p)
  BY <1>0, <1>1, QuietEnd
<1>2. /\ proc[p].pc \in {"begin", "migrate", "discover", "pick", "build"}
      /\ proc[p].pc = "begin" => proc[p].do = "run"
  BY DEF RunTask, MigrateKeys, Discover, Pick, Build
<1>3. proc[p].pc \notin Kept \union {"idle"} /\ proc[p].do \in {"run", "start"}
  BY <1>2 DEF Kept, Updating, Seeking, ProcTypes, Shape
<1>4. DOMAIN proc[p] = Fields /\ DOMAIN proc = Procs
  BY DEF ProcTypes, Shape
<1>5. ASSUME NEW x \in {"migrate", "discover", "pick"}, Step(p, x) PROVE Quiet(p)
  BY <1>0, <1>2, <1>3, <1>5, QuietStep DEF Writing, Seeking, Kept, Updating
<1>6. ASSUME NEW id, proc' = [proc EXCEPT ![p].pc = "resolve", ![p].found = id]
      PROVE  Quiet(p)
  <2>1. /\ Becomes(p, proc'[p])
        /\ DOMAIN proc'[p] = Fields
        /\ proc'[p].pc = "resolve"
        /\ proc'[p].do = proc[p].do /\ proc'[p].stopping = proc[p].stopping
    BY <1>4, <1>6 DEF Becomes, Fields
  <2> QED
    BY <1>0, <1>2, <1>3, <2>1, QuietMove DEF Writing, Seeking, Kept, Updating
<1>7. CASE RunTask(p)
  BY <1>5, <1>7 DEF RunTask
<1>8. CASE MigrateKeys(p)
  <2>1. Migrated(Loaded(disk["auth"]), keys) \in Stores
    BY LoadedType, MigratedType DEF FileTypes
  <2>2. CASE Saving(p, "auth", Migrated(Loaded(disk["auth"]), keys), "discover", FALSE)
    BY <1>0, <1>2, <1>3, <2>1, <2>2, SavingQuiet DEF Names
  <2> QED
    BY <1>5, <1>8, <2>2 DEF MigrateKeys
<1>9. CASE Discover(p)
  BY <1>5, <1>6, <1>9 DEF Discover
<1>10. CASE Pick(p)
  <2>1. ASSUME NEW id, Picked(p, id) PROVE Quiet(p)
    BY <1>6, <2>1 DEF Picked
  <2>2. CASE SetupOAuth(p)
    <3>1. PICK id \in OAuthIds :
            proc' = [proc EXCEPT ![p].pc = "flow", ![p].what = id, ![p].found = id]
      BY <2>2 DEF SetupOAuth
    <3>2. /\ Becomes(p, proc'[p])
          /\ DOMAIN proc'[p] = Fields
          /\ proc'[p].pc = "flow" /\ proc'[p].what \in OAuthIds
          /\ proc'[p].do = proc[p].do /\ proc'[p].stopping = proc[p].stopping
      BY <1>4, <3>1 DEF Becomes, Fields
    <3> QED
      BY <1>0, <1>2, <1>3, <3>2, QuietMove DEF Writing, Seeking, Kept, Updating
  <2>3. CASE proc' = [proc EXCEPT ![p].tries = 1]
    <3>1. /\ Becomes(p, proc'[p])
          /\ DOMAIN proc'[p] = Fields
          /\ proc'[p].pc = "pick"
          /\ proc'[p].do = proc[p].do /\ proc'[p].stopping = proc[p].stopping
      BY <1>4, <1>10, <2>3 DEF Pick, Becomes, Fields
    <3> QED
      BY <1>0, <1>2, <1>3, <3>1, QuietMove DEF Writing, Seeking, Kept, Updating
  <2> QED
    BY <1>1, <1>10, <2>1, <2>2, <2>3 DEF Pick, SetupApiKey, SetupOllama,
       SetupCustomProvider
<1>11. CASE Build(p)
  <2>1. /\ Becomes(p, proc'[p])
        /\ DOMAIN proc'[p] = Fields
        /\ proc'[p].pc \in {"unavailable", "announce", "work"}
        /\ proc'[p].pc = "announce" => proc[p].do = "start"
        /\ proc'[p].do = proc[p].do /\ proc'[p].stopping = proc[p].stopping
    <3>1. PICK x \in {"unavailable", "announce", "work"} :
            /\ proc' = [proc EXCEPT ![p].pc = x, ![p].fresh = FALSE, ![p].store = Empty]
            /\ x = "announce" => proc[p].do = "start"
      <4>1. PICK ollama \in BOOLEAN :
              proc' = [proc EXCEPT
                ![p].pc = IF proc[p].found \notin Resolved(proc[p].store, keys, url,
                                                          ollama, proc[p].fresh)
                          THEN "unavailable"
                          ELSE IF proc[p].do = "start" THEN "announce" ELSE "work",
                ![p].fresh = FALSE, ![p].store = Empty]
        BY <1>11 DEF Build
      <4> QED
        BY <4>1
    <3> QED
      BY <1>4, <3>1 DEF Becomes, Fields
  <2> QED
    BY <1>0, <1>2, <1>3, <2>1, QuietMove DEF Writing, Seeking, Kept, Updating
<1> QED
  BY <1>7, <1>8, <1>9, <1>10, <1>11

LEMMA ResolveStep ==
  ASSUME ProcTypes, FileTypes, NEW p \in Procs, Resolve(p)
  PROVE  Quiet(p)
<1> USE DEF At
<1> DEFINE store == Loaded(disk["auth"])
<1>0. /\ UNCHANGED <<pid, dirs, exe, dismissed>>
      /\ proc[p].pc = "resolve"
  BY DEF Resolve, rest
<1>1. /\ proc[p].pc \notin Kept \union {"idle"}
      /\ proc[p].do \in {"run", "start"}
  BY <1>0 DEF Kept, Updating, Seeking, ProcTypes, Shape
<1>2. DOMAIN proc[p] = Fields /\ DOMAIN proc = Procs
  BY DEF ProcTypes, Shape
<1>3. PICK fresh \in BOOLEAN, info \in {None, OAuth(now + Life)} :
        LET with == [proc[p] EXCEPT !.pc = "build", !.store = store,
                                    !.fresh = fresh] IN
        proc' = [proc EXCEPT ![p] =
          IF info = None THEN with
          ELSE [with EXCEPT !.pc = "create", !.file = "auth", !.what = "none",
                  !.store = With(store, "chatgpt", info), !.then = "build",
                  !.strict = FALSE, !.fresh = TRUE]]
  <2> DEFINE stale == /\ "chatgpt" \in DOMAIN store
                      /\ store["chatgpt"].type = "oauth"
                      /\ IsExpired(store["chatgpt"], now)
  <2>1. (~stale) \in BOOLEAN
    OBVIOUS
  <2> QED
    BY <2>1, Zenon DEF Resolve, OpenaiCodexRefreshToken
<1>4. CASE info = None
  <2>1. /\ Becomes(p, proc'[p])
        /\ DOMAIN proc'[p] = Fields
        /\ proc'[p].pc = "build"
        /\ proc'[p].do = proc[p].do /\ proc'[p].stopping = proc[p].stopping
    BY <1>2, <1>3, <1>4 DEF Becomes, Fields
  <2> QED
    BY <1>0, <1>1, <2>1, QuietMove DEF Writing, Seeking, Kept, Updating
<1>5. CASE info # None
  <2>1. /\ Becomes(p, proc'[p])
        /\ DOMAIN proc'[p] = Fields
        /\ proc'[p].pc = "create" /\ proc'[p].file = "auth" /\ proc'[p].then = "build"
        /\ proc'[p].store = With(store, "chatgpt", info)
        /\ proc'[p].do = proc[p].do /\ proc'[p].stopping = proc[p].stopping
    BY <1>2, <1>3, <1>5 DEF Becomes, Fields
  <2>2. With(store, "chatgpt", info) \in Stores
    <3>1. now + Life \in Nat
      BY HomeAssumption DEF FileTypes
    <3>2. info \in Infos /\ "chatgpt" \in StoreIds /\ store \in Stores
      BY <1>3, <1>5, <3>1, InfoTypes, LoadedType DEF StoreIds, OAuthIds, FileTypes
    <3> QED
      BY <3>2, WithType
  <2>3. Shape(proc[p])
    BY DEF ProcTypes
  <2>4. Shape(proc'[p])
    BY <1>1, <2>1, <2>2, <2>3
       DEF Shape, Fields, Writing, Seeking, Updating, Kept, Names
  <2> QED
    BY <1>0, <1>1, <2>1, <2>4 DEF Quiet, Kept, Updating
<1> QED
  BY <1>4, <1>5

LEMMA SoulSteps ==
  ASSUME ProcTypes, NEW p \in Procs, Evolve(p) \/ BackUpSoul(p) \/ WriteSoul(p)
  PROVE  Quiet(p)
<1> USE DEF At, Does, state
<1>0. UNCHANGED <<pid, dirs, exe, dismissed>>
  BY DEF Evolve, BackUpSoul, WriteSoul
<1>1. CASE End(p)
  BY <1>0, <1>1, QuietEnd
<1>2. /\ proc[p].pc \in {"begin", "backup", "evolved"}
      /\ proc[p].pc = "begin" => proc[p].do = "evolve"
  BY DEF Evolve, BackUpSoul, WriteSoul
<1>3. proc[p].pc \notin Kept \union {"idle"} /\ proc[p].do # "update"
  BY <1>2 DEF Kept, Updating, ProcTypes, Shape
<1>4. ASSUME NEW x \in {"backup", "evolved"}, Step(p, x) PROVE Quiet(p)
  BY <1>0, <1>2, <1>3, <1>4, QuietStep DEF Writing, Seeking, Kept, Updating
<1> QED
  BY <1>1, <1>4 DEF Evolve, BackUpSoul, WriteSoul

LEMMA EndingSteps ==
  ASSUME ProcTypes, NEW p \in Procs, Finish(p) \/ Die(p)
  PROVE  Quiet(p)
  BY QuietEnd DEF Finish, Die, rest

\* The steps that are quiet.
QuietAction(p) ==
  \/ Create(p) \/ Write(p) \/ Rename(p)
  \/ ConnectOAuth(p) \/ DeviceFlow(p) \/ ConnectKey(p) \/ ConnectApp(p)
  \/ ConnectEmail(p)
  \/ DisconnectOAuth(p) \/ DisconnectKey(p) \/ DisconnectAll(p)
  \/ NextLogin(p) \/ RemoveRest(p)
  \/ RunTask(p) \/ MigrateKeys(p) \/ Discover(p) \/ Pick(p) \/ Resolve(p) \/ Build(p)
  \/ Evolve(p) \/ BackUpSoul(p) \/ WriteSoul(p)
  \/ Finish(p) \/ Die(p)

LEMMA QuietSteps ==
  ASSUME ProcTypes, FileTypes, NEW p \in Procs, QuietAction(p)
  PROVE  Quiet(p) /\ ProcTypes'
<1>1. Quiet(p)
  BY WritingSteps, ConnectSteps, DeviceFlowStep, DisconnectSteps, ProviderSteps,
     ResolveStep, SoulSteps, EndingSteps DEF QuietAction
<1> QED
  BY <1>1, ShapeStep DEF Quiet

\* A step of one of the other commands from one place to the next.
Goes(p, from, to) ==
  /\ Becomes(p, proc'[p])
  /\ proc[p].pc = from /\ proc'[p].pc = to
  /\ proc'[p].do = proc[p].do /\ proc'[p].what = proc[p].what
  /\ ~proc'[p].stopping

LEMMA StepGoes ==
  ASSUME ProcTypes, NEW p \in Procs, NEW from, NEW to, proc[p].pc = from,
         from \notin {"daemon", "idle"}, Step(p, to),
         to \notin Writing \union {"flow", "all", "kill", "idle"},
         to \in Seeking => proc[p].do = "start",
         to \in Updating <=> proc[p].do = "update",
         to \in {"announce", "daemon"} => proc[p].do = "start"
  PROVE  Goes(p, from, to) /\ ProcTypes'
<1>1. /\ Becomes(p, proc'[p])
      /\ DOMAIN proc'[p] = Fields
      /\ proc'[p].pc = to
      /\ \A f \in Fields : f # "pc" => proc'[p][f] = proc[p][f]
  BY StepFacts
<1>2. Shape(proc[p])
  BY DEF ProcTypes
<1>3. Shape(proc'[p])
  BY <1>1, <1>2 DEF Shape, Fields
<1> QED
  BY <1>1, <1>2, <1>3, ShapeStep DEF Goes, Fields, Shape

LEMMA BeginStep ==
  ASSUME ProcTypes, NEW p \in Procs, NEW c, Begin(p, c)
  PROVE  /\ ProcTypes'
         /\ Becomes(p, proc'[p])
         /\ proc[p].pc = "idle"
         /\ proc'[p].pc = "begin" /\ ~proc'[p].stopping
         /\ exe.file > 0
         /\ UNCHANGED <<pid, dirs, exe, dismissed>>
<1>1. proc' = [proc EXCEPT ![p] = [Idle EXCEPT !.pc = "begin", !.do = c.do,
                                               !.what = c.what]]
  BY DEF Begin
<1>2. DOMAIN proc = Procs
  BY DEF ProcTypes
<1>3. DOMAIN Idle = Fields
  BY DEF Idle, Fields
<1>4. /\ Becomes(p, proc'[p])
      /\ DOMAIN proc'[p] = Fields
      /\ proc'[p].pc = "begin" /\ proc'[p].stopping = Idle.stopping
  BY <1>1, <1>2, <1>3 DEF Becomes, Fields
<1>5. ~proc'[p].stopping
  BY <1>4 DEF Idle
<1>6. Shape(proc'[p])
  BY <1>4, <1>5 DEF Shape, Writing, Seeking, Updating
<1> QED
  BY <1>4, <1>5, <1>6, ShapeStep DEF Begin, At, rest

SkillAction(p) ==
  Approve(p) \/ Copy(p) \/ RemoveProposed(p) \/ Removed(p) \/ Dismiss(p)

LEMMA SkillMoves ==
  ASSUME ProcTypes, NEW p \in Procs, SkillAction(p)
  PROVE  /\ ProcTypes'
         /\ UNCHANGED <<pid, exe, now, files, logins>>
         /\ \/ Becomes(p, Idle)
            \/ Approve(p) /\ Goes(p, "begin", "copy")
            \/ Copy(p) /\ Goes(p, "copy", "remove")
            \/ RemoveProposed(p) /\ Goes(p, "remove", "removing")
            \/ Dismiss(p) /\ Goes(p, "begin", "remove")
<1> USE DEF At, Does, state, Writing, Seeking, Updating
<1>0. UNCHANGED <<pid, exe, now, files, logins>>
  BY DEF SkillAction, Approve, Copy, RemoveProposed, Removed, Dismiss
<1>1. CASE End(p)
  BY <1>0, <1>1, EndFacts
<1>2. proc[p].do = "update" => proc[p].pc \in Updating \union {"begin"}
  BY DEF ProcTypes, Shape
<1>3. CASE Approve(p) /\ Step(p, "copy")
  <2>1. proc[p].pc = "begin" /\ proc[p].do = "approve"
    BY <1>3 DEF Approve
  <2>2. Goes(p, "begin", "copy") /\ ProcTypes'
    BY <1>3, <2>1, StepGoes
  <2> QED
    BY <1>0, <1>3, <2>2
<1>4. CASE Copy(p) /\ Step(p, "remove")
  <2>1. proc[p].pc = "copy"
    BY <1>4 DEF Copy
  <2>2. Goes(p, "copy", "remove") /\ ProcTypes'
    BY <1>2, <1>4, <2>1, StepGoes
  <2> QED
    BY <1>0, <1>4, <2>2
<1>5. CASE RemoveProposed(p)
  <2>1. proc[p].pc = "remove" /\ Step(p, "removing")
    BY <1>5 DEF RemoveProposed
  <2>2. Goes(p, "remove", "removing") /\ ProcTypes'
    BY <1>2, <2>1, StepGoes
  <2> QED
    BY <1>0, <1>5, <2>2
<1>6. CASE Dismiss(p) /\ Step(p, "remove")
  <2>1. proc[p].pc = "begin" /\ proc[p].do = "dismiss"
    BY <1>6 DEF Dismiss
  <2>2. Goes(p, "begin", "remove") /\ ProcTypes'
    BY <1>6, <2>1, StepGoes
  <2> QED
    BY <1>0, <1>6, <2>2
<1> QED
  BY <1>1, <1>3, <1>4, <1>5, <1>6 DEF SkillAction, Approve, Copy, Removed, Dismiss

UpdateAction(p) ==
  Update(p) \/ Install(p) \/ ClearBackup(p) \/ SetAside(p) \/ Replace(p)

LEMMA UpdateMoves ==
  ASSUME ProcTypes, NEW p \in Procs, UpdateAction(p)
  PROVE  /\ ProcTypes'
         /\ UNCHANGED <<pid, dirs, dismissed, now, files, logins>>
         /\ proc[p].do = "update"
         /\ \/ Becomes(p, Idle)
            \/ Update(p) /\ Goes(p, "begin", "install")
            \/ Install(p) /\ Goes(p, "install", "clear")
            \/ ClearBackup(p) /\ Goes(p, "clear", "set aside")
            \/ SetAside(p) /\ Goes(p, "set aside", "replace")
<1> USE DEF At, Does, state, Writing, Seeking, Updating
<1>0. UNCHANGED <<pid, dirs, dismissed, now, files, logins>>
  BY DEF UpdateAction, Update, Install, ClearBackup, SetAside, Replace
<1>1. proc[p].do = "update"
  BY DEF UpdateAction, Update, Install, ClearBackup, SetAside, Replace,
     ProcTypes, Shape
<1>2. CASE End(p)
  BY <1>0, <1>1, <1>2, EndFacts
<1>3. CASE Update(p) /\ Step(p, "install")
  BY <1>1, <1>3, StepGoes DEF Update
<1>4. CASE Install(p)
  BY <1>1, <1>4, StepGoes DEF Install
<1>5. CASE ClearBackup(p)
  BY <1>1, <1>5, StepGoes DEF ClearBackup
<1>6. CASE SetAside(p) /\ Step(p, "replace")
  BY <1>1, <1>6, StepGoes DEF SetAside
<1> QED
  BY <1>0, <1>1, <1>2, <1>3, <1>4, <1>5, <1>6 DEF UpdateAction, Update, SetAside, Replace

DaemonAction(p) ==
  StartDaemon(p) \/ WritePid(p) \/ DaemonReturns(p) \/ StopReads(p) \/ StopKills(p)

\* `daemon stop` ends another process, or a daemon is told to stop.
KillsAnother(p) ==
  LET t == proc[p].target IN
  /\ t \in Procs /\ t # p
  /\ DOMAIN proc' = Procs
  /\ proc'[p] = Idle
  /\ \A q \in Procs : q \notin {p, t} => proc'[q] = proc[q]
  /\ \/ proc'[t] = Idle /\ proc[t].pc # "daemon"
     \/ /\ proc[t].pc = "daemon" /\ DOMAIN proc'[t] = Fields
        /\ proc'[t].stopping
        /\ \A f \in Fields : f # "stopping" => proc'[t][f] = proc[t][f]

LEMMA DaemonMoves ==
  ASSUME ProcTypes, OtherTypes, NEW p \in Procs, DaemonAction(p)
  PROVE  /\ ProcTypes'
         /\ UNCHANGED <<dirs, exe, dismissed, now, files, logins>>
         /\ \/ /\ Becomes(p, Idle)
               /\ StopKills(p) => ~IsDaemonRunning \/ UNCHANGED pid
            \/ StartDaemon(p) /\ Goes(p, "begin", "migrate") /\ UNCHANGED pid
            \/ WritePid(p) /\ Goes(p, "announce", "daemon")
            \/ /\ StopReads(p)
               /\ Becomes(p, proc'[p])
               /\ proc'[p].pc = "kill" /\ proc'[p].target = pid /\ pid # None
               /\ proc'[p].do = "stop" /\ UNCHANGED pid
            \/ StopKills(p) /\ KillsAnother(p) /\ pid' = None
<1> USE DEF At, Does
<1>0. UNCHANGED <<dirs, exe, dismissed, now, files, logins>>
  BY DEF DaemonAction, StartDaemon, WritePid, DaemonReturns, StopReads, StopKills,
     rest
<1>1. CASE End(p) /\ (StopKills(p) => ~IsDaemonRunning \/ UNCHANGED pid)
  BY <1>0, <1>1, EndFacts
<1>2. CASE StartDaemon(p) /\ Step(p, "migrate")
  <2>1. Goes(p, "begin", "migrate") /\ ProcTypes'
    BY <1>2, StepGoes DEF StartDaemon, Writing, Seeking, Updating
  <2> QED
    BY <1>0, <1>2, <2>1 DEF StartDaemon
<1>3. CASE WritePid(p)
  <2>1. proc[p].pc = "announce" /\ proc[p].do = "start"
    BY <1>3 DEF WritePid, ProcTypes, Shape
  <2>2. Goes(p, "announce", "daemon") /\ ProcTypes'
    BY <1>3, <2>1, StepGoes DEF WritePid, Writing, Seeking, Updating
  <2> QED
    BY <1>0, <1>3, <2>2
<1>4. CASE StopReads(p) /\ proc' = [proc EXCEPT ![p].pc = "kill", ![p].target = pid]
                       /\ pid # None
  <2>1. proc[p].pc = "begin" /\ proc[p].do = "stop" /\ pid \in Procs
    BY <1>4 DEF StopReads, OtherTypes
  <2>2. DOMAIN proc[p] = Fields /\ DOMAIN proc = Procs /\ Shape(proc[p])
    BY DEF ProcTypes, Shape
  <2>3. Becomes(p, [proc[p] EXCEPT !.pc = "kill", !.target = pid])
    BY <1>4, <2>2 DEF Becomes
  <2>4. /\ Becomes(p, proc'[p])
        /\ DOMAIN proc'[p] = Fields
        /\ proc'[p].pc = "kill" /\ proc'[p].target = pid
        /\ \A f \in Fields : f \notin {"pc", "target"} => proc'[p][f] = proc[p][f]
    BY <2>2, <2>3 DEF Becomes, Fields
  <2>5. Shape(proc'[p])
    BY <2>1, <2>2, <2>4 DEF Shape, Fields, Writing, Seeking, Updating
  <2>6. UNCHANGED pid
    BY <1>4 DEF StopReads
  <2> QED
    BY <1>0, <1>4, <2>1, <2>4, <2>5, <2>6, ShapeStep DEF Fields
<1>5. CASE StopKills(p) /\ IsDaemonRunning /\ pid' # pid
  <2> DEFINE t == proc[p].target
  <2>1. proc[p].pc = "kill" /\ t \in Procs /\ DOMAIN proc = Procs
    BY <1>5 DEF StopKills, ProcTypes, Shape
  <2>2. /\ t # p /\ pid' = None
        /\ proc' = [proc EXCEPT ![p] = Idle,
                      ![t] = IF proc[t].pc = "daemon" THEN [@ EXCEPT !.stopping = TRUE]
                             ELSE Idle]
    BY <1>5 DEF StopKills
  <2>3. /\ DOMAIN proc' = Procs
        /\ proc'[p] = Idle
        /\ \A q \in Procs : q \notin {p, t} => proc'[q] = proc[q]
        /\ proc'[t] = IF proc[t].pc = "daemon" THEN [proc[t] EXCEPT !.stopping = TRUE]
                      ELSE Idle
    BY <2>1, <2>2
  <2>4. DOMAIN proc[t] = Fields /\ Shape(proc[t])
    BY <2>1 DEF ProcTypes, Shape
  <2>5. \/ proc'[t] = Idle /\ proc[t].pc # "daemon"
        \/ /\ proc[t].pc = "daemon" /\ DOMAIN proc'[t] = Fields
           /\ proc'[t].stopping
           /\ \A f \in Fields : f # "stopping" => proc'[t][f] = proc[t][f]
    BY <2>3, <2>4 DEF Fields
  <2>6. Shape(proc'[t])
    BY ZenonT(40), <2>4, <2>5, IdleShape DEF Shape, Fields, Writing, Seeking, Updating
  <2>7. ProcTypes'
    BY <2>3, <2>6, IdleShape DEF ProcTypes
  <2>8. KillsAnother(p)
    BY <2>1, <2>2, <2>3, <2>5 DEF KillsAnother
  <2> QED
    BY <1>0, <1>5, <2>2, <2>7, <2>8
<1>6. ~(StopKills(p) /\ (StartDaemon(p) \/ DaemonReturns(p) \/ StopReads(p)))
  BY DEF StopKills, StartDaemon, DaemonReturns, StopReads
<1>7. StopKills(p) => End(p) \/ (IsDaemonRunning /\ pid' # pid)
  BY DEF StopKills, IsDaemonRunning
<1> QED
  BY <1>1, <1>2, <1>3, <1>4, <1>5, <1>6, <1>7
     DEF DaemonAction, StartDaemon, DaemonReturns, StopReads, StopKills

\* Every step of a process is of one of these kinds.
LEMMA StepKinds ==
  ASSUME NEW p \in Procs, ProcessStep(p)
  PROVE  \/ QuietAction(p) \/ SkillAction(p) \/ UpdateAction(p) \/ DaemonAction(p)
         \/ \E c \in offered : Begin(p, c)
  BY DEF ProcessStep, QuietAction, SkillAction, UpdateAction, DaemonAction

LEMMA ProcStep ==
  ASSUME ProcTypes, FileTypes, OtherTypes, NEW p \in Procs, ProcessStep(p)
  PROVE  ProcTypes'
  BY StepKinds, QuietSteps, SkillMoves, UpdateMoves, DaemonMoves, BeginStep

LEMMA KeyFileTypes ==
  ASSUME FileTypes, NEW id
  PROVE  /\ \A full \in BOOLEAN : id \in KeyFileIds => With(keys, id, full) \in KeyFiles
         /\ Without(keys, id) \in KeyFiles
         /\ [k \in DOMAIN keys \ DisconnectIds |-> keys[k]] \in KeyFiles
<1>1. PICK ids \in SUBSET KeyFileIds : keys \in [ids -> BOOLEAN]
  BY DEF FileTypes, KeyFiles
<1>2. \A full \in BOOLEAN : With(keys, id, full) \in [ids \union {id} -> BOOLEAN]
  BY <1>1 DEF With
<1>3. Without(keys, id) \in [ids \ {id} -> BOOLEAN]
  BY <1>1 DEF Without
<1>4. [k \in DOMAIN keys \ DisconnectIds |-> keys[k]]
        \in [ids \ DisconnectIds -> BOOLEAN]
  BY <1>1
<1>5. /\ ids \ {id} \in SUBSET KeyFileIds
      /\ ids \ DisconnectIds \in SUBSET KeyFileIds
      /\ id \in KeyFileIds => ids \union {id} \in SUBSET KeyFileIds
  OBVIOUS
<1>6. \A other \in SUBSET KeyFileIds : [other -> BOOLEAN] \subseteq KeyFiles
  BY DEF KeyFiles
<1> QED
  BY <1>2, <1>3, <1>4, <1>5, <1>6

KeyAction(p) ==
  ConnectKey(p) \/ DisconnectKey(p) \/ RemoveRest(p) \/ Pick(p)

LEMMA KeySteps ==
  ASSUME FileTypes, NEW p \in Procs, KeyAction(p)
  PROVE  FileTypes' /\ UNCHANGED <<temp, logins>> /\ disk'["auth"] = disk["auth"]
<1>1. /\ UNCHANGED <<now, temp, logins>>
      /\ disk' = disk \/ disk' = [disk EXCEPT !["apps"] = NoFile]
  BY DEF KeyAction, ConnectKey, DisconnectKey, RemoveRest, Pick
<1>2. DOMAIN disk' = Names /\ disk'["auth"] = disk["auth"]
  BY <1>1 DEF FileTypes, Names
<1>3. keys' \in KeyFiles
  <2>1. KeyIds \union {"custom"} \union Pasted \subseteq KeyFileIds
    BY HomeAssumption DEF KeyFileIds, KeyIds, OnboardingEnv
  <2>2. keys \in KeyFiles /\ UNCHANGED keys => keys' \in KeyFiles
    BY DEF FileTypes
  <2>3. CASE ConnectKey(p)
    BY <2>1, <2>2, <2>3, KeyFileTypes DEF ConnectKey, FileTypes
  <2>4. CASE DisconnectKey(p)
    BY <2>2, <2>4, KeyFileTypes DEF DisconnectKey, FileTypes
  <2>5. CASE RemoveRest(p)
    BY <2>5, KeyFileTypes DEF RemoveRest
  <2>6. CASE Pick(p)
    BY <2>1, <2>2, <2>6, KeyFileTypes
       DEF Pick, SetupOAuth, SetupApiKey, SetupOllama, SetupCustomProvider, FileTypes
  <2> QED
    BY <2>3, <2>4, <2>5, <2>6 DEF KeyAction
<1> QED
  BY <1>1, <1>2, <1>3 DEF FileTypes

LEMMA WritingTypes ==
  ASSUME ProcTypes, FileTypes, NEW p \in Procs, Create(p) \/ Write(p) \/ Rename(p)
  PROVE  FileTypes'
<1>1. proc[p].file \in Names /\ proc[p].file = "auth" => proc[p].store \in Stores
  BY DEF Create, Write, Rename, ProcTypes, Shape, Writing, At
<1>2. UNCHANGED <<now, keys>>
  BY DEF Create, Write, Rename
<1>3. DOMAIN disk' = Names /\ DOMAIN temp' = Names
  BY DEF Create, Write, Rename, FileTypes
<1>4. /\ disk'["auth"] \in Stores \union {NoFile, Torn}
      /\ temp'["auth"] \in Stores \union {NoFile, Torn}
  BY <1>1 DEF Create, Write, Rename, FileTypes, Names
<1> QED
  BY <1>2, <1>3, <1>4 DEF FileTypes

LEMMA FileStep ==
  ASSUME ProcTypes, FileTypes, OtherTypes, NEW p \in Procs, ProcessStep(p)
  PROVE  FileTypes'
<1>1. CASE UNCHANGED <<now, files>>
  BY <1>1 DEF FileTypes, files
<1>2. CASE KeyAction(p)
  BY <1>2, KeySteps
<1>3. CASE Create(p) \/ Write(p) \/ Rename(p)
  BY <1>3, WritingTypes
<1>4. CASE SkillAction(p) \/ UpdateAction(p) \/ DaemonAction(p)
  BY <1>1, <1>4, SkillMoves, UpdateMoves, DaemonMoves
<1>5. CASE \E c \in offered : Begin(p, c)
  BY <1>1, <1>5 DEF Begin
<1>6. CASE QuietAction(p)
  BY <1>1, <1>2, <1>3, <1>6
     DEF QuietAction, KeyAction, ConnectOAuth, DeviceFlow, ConnectApp, ConnectEmail,
         DisconnectOAuth, DisconnectAll, NextLogin, RunTask, MigrateKeys, Discover,
         Resolve, Build, Evolve, BackUpSoul, WriteSoul, Finish, Die, state
<1> QED
  BY <1>4, <1>5, <1>6, StepKinds

LEMMA OtherStep ==
  ASSUME ProcTypes, FileTypes, OtherTypes, NEW p \in Procs, ProcessStep(p)
  PROVE  OtherTypes'
<1>1. CASE QuietAction(p)
  BY <1>1, QuietSteps DEF Quiet, OtherTypes
<1>2. CASE \E c \in offered : Begin(p, c)
  BY <1>2, BeginStep DEF OtherTypes
<1>3. CASE SkillAction(p)
  <2>1. dirs' \in [Skills -> [proposed : {"whole", "empty", "none"},
                             user : {"none", "cut", "whole"}]]
    BY <1>3 DEF SkillAction, Approve, Copy, RemoveProposed, Removed, Dismiss, OtherTypes
  <2> QED
    BY <1>3, <2>1, SkillMoves DEF OtherTypes
<1>4. CASE UpdateAction(p)
  <2>1. exe' \in [file : Int, new : Int, bak : Int]
    <3>1. /\ exe \in [file : Int, new : Int, bak : Int]
          /\ 0 \in Int /\ -1 \in Int /\ 2 \in Int
      BY DEF OtherTypes
    <3> QED
      BY <1>4, <3>1 DEF UpdateAction, Update, Install, ClearBackup, SetAside, Replace
  <2> QED
    BY <1>4, <2>1, UpdateMoves DEF OtherTypes
<1>5. CASE DaemonAction(p)
  <2>1. pid' \in {pid, p, None}
    BY <1>5 DEF DaemonAction, StartDaemon, WritePid, DaemonReturns, StopReads, StopKills
  <2> QED
    BY <1>5, <2>1, DaemonMoves DEF OtherTypes
<1> QED
  BY <1>1, <1>2, <1>3, <1>4, <1>5, StepKinds

-----------------------------------------------------------------------------
(* What two commands work on at once is in overlap *)

Apart ==
  \A p, q \in Procs : p # q => Holds(p) \intersect Holds(q) \subseteq overlap

LEMMA ApartStep ==
  ASSUME Next
  PROVE  Apart' /\ overlap \subseteq overlap'
<1>1. overlap' = overlap \union UNION {Holds(pq[1])' \intersect Holds(pq[2])' :
                         pq \in {pq \in Procs \X Procs : pq[1] # pq[2]}}
  BY DEF Next
<1>2. ASSUME NEW p \in Procs, NEW q \in Procs, p # q
      PROVE  Holds(p)' \intersect Holds(q)' \subseteq overlap'
  <2> DEFINE pair == <<p, q>>
  <2>1. pair \in {pq \in Procs \X Procs : pq[1] # pq[2]}
    BY <1>2
  <2>2. Holds(pair[1])' \intersect Holds(pair[2])' \subseteq overlap'
    BY <1>1, <2>1
  <2> QED
    BY <2>2
<1> QED
  BY <1>1, <1>2 DEF Apart

-----------------------------------------------------------------------------
(* Skills *)

Copying == {"copy", "remove", "removing"}

\* What an approval has done to a skill when it gets to the next step.
SkillMoving ==
  \A s \in Skills \ (dismissed \union overlap), p \in Procs :
    proc[p].what = s =>
      /\ proc[p].pc = "copy" /\ dirs[s].proposed = "whole" => dirs[s].user = "cut"
      /\ proc[p].pc \in {"remove", "removing"} => dirs[s].user = "whole"

SkillInv == SkillKept /\ SkillMoving

LEMMA CopyingHolds ==
  ASSUME NEW p, proc[p].pc \in Copying
  PROVE  proc[p].what \in Holds(p)
  BY DEF Copying, Holds, At, Does

\* Where no skill changes, what the others are at stays true.
LEMMA SkillsAlone ==
  ASSUME ProcTypes, SkillInv, UNCHANGED <<dirs, dismissed>>, overlap \subseteq overlap',
         \A q \in Procs : proc'[q] = proc[q] \/ proc'[q].pc \notin Copying
  PROVE  SkillInv'
  BY DEF SkillInv, SkillKept, SkillMoving, Copying

LEMMA SkillStep ==
  ASSUME ProcTypes, FileTypes, OtherTypes, SkillInv, Apart, Apart',
         overlap \subseteq overlap', NEW p \in Procs, ProcessStep(p)
  PROVE  SkillInv'
<1> USE DEF Copying
<1>1. Idle.pc = "idle"
  BY DEF Idle
<1>2. CASE QuietAction(p)
  BY <1>1, <1>2, QuietSteps, SkillsAlone DEF Quiet, Becomes, Kept
<1>3. CASE \E c \in offered : Begin(p, c)
  BY <1>3, BeginStep, SkillsAlone DEF Becomes
<1>4. CASE UpdateAction(p)
  BY <1>1, <1>4, UpdateMoves, SkillsAlone DEF Goes, Becomes
<1>5. CASE DaemonAction(p)
  <2>1. UNCHANGED <<dirs, dismissed>>
    BY <1>5, DaemonMoves
  <2>2. CASE KillsAnother(p)
    BY <1>1, <2>1, <2>2, SkillsAlone DEF KillsAnother, Fields
  <2> QED
    BY <1>1, <1>5, <2>1, <2>2, DaemonMoves, SkillsAlone DEF Goes, Becomes
<1>6. CASE SkillAction(p)
  <2> DEFINE t == proc[p].what
  <2>1. DOMAIN dirs = Skills /\ dismissed \subseteq dismissed'
    BY <1>6 DEF OtherTypes, SkillAction, Approve, Copy, RemoveProposed, Removed, Dismiss
  <2>2. \A q \in Procs : q # p => proc'[q] = proc[q]
    BY <1>6, SkillMoves DEF Becomes, Goes
  <2>3. SUFFICES ASSUME NEW s \in Skills, s \notin dismissed', s \notin overlap'
                 PROVE  /\ "whole" \in {dirs[s].proposed, dirs[s].user}'
                        /\ \A q \in Procs : proc'[q].what = s =>
                             /\ proc'[q].pc = "copy" /\ dirs'[s].proposed = "whole" =>
                                  dirs'[s].user = "cut"
                             /\ proc'[q].pc \in {"remove", "removing"} =>
                                  dirs'[s].user = "whole"
    BY DEF SkillInv, SkillKept, SkillMoving
  <2>4. /\ "whole" \in {dirs[s].proposed, dirs[s].user}
        /\ \A q \in Procs : proc[q].what = s =>
             /\ proc[q].pc = "copy" /\ dirs[s].proposed = "whole" => dirs[s].user = "cut"
             /\ proc[q].pc \in {"remove", "removing"} => dirs[s].user = "whole"
    BY <2>1, <2>3 DEF SkillInv, SkillKept, SkillMoving
  <2>5. CASE t # s
    <3>1. dirs'[s] = dirs[s]
      BY <1>6, <2>1, <2>5
         DEF SkillAction, Approve, Copy, RemoveProposed, Removed, Dismiss
    <3>2. proc'[p] = Idle \/ proc'[p].what # s
      BY <1>6, <2>5, SkillMoves DEF Goes, Becomes
    <3> QED
      BY <1>1, <2>2, <2>4, <3>1, <3>2
  <2>6. CASE t = s
    <3>1. proc[p].pc \in Copying \/ proc'[p].pc \in Copying =>
            \A q \in Procs \ {p} : proc[q].what = s => proc[q].pc \notin Copying
      <4>1. ASSUME NEW q \in Procs, q # p, proc[q].what = s, proc[q].pc \in Copying,
                   proc[p].pc \in Copying
            PROVE  FALSE
        BY <2>3, <2>6, <4>1, CopyingHolds DEF Apart
      <4>2. ASSUME NEW q \in Procs, q # p, proc[q].what = s, proc[q].pc \in Copying,
                   proc'[p].pc \in Copying
            PROVE  FALSE
        <5>1. proc'[p].what = s /\ proc'[q].what = s /\ proc'[q].pc \in Copying
          BY <1>1, <1>6, <2>2, <2>6, <4>2, SkillMoves DEF Goes, Becomes
        <5>2. s \in Holds(p)' /\ s \in Holds(q)'
          BY <4>2, <5>1 DEF Holds, At, Does
        <5> QED
          BY <2>3, <4>2, <5>2 DEF Apart
      <4> QED
        BY <4>1, <4>2
    <3>2. CASE Approve(p) /\ Goes(p, "begin", "copy")
      <4>1. dirs'[s] = IF dirs[s].proposed = "whole"
                       THEN [dirs[s] EXCEPT !.user = "cut"] ELSE dirs[s]
        BY <2>1, <2>6, <3>2 DEF Approve
      <4>2. /\ "proposed" \in DOMAIN dirs[s] /\ "user" \in DOMAIN dirs[s]
        BY DEF OtherTypes
      <4> QED
        BY <2>2, <2>4, <3>1, <3>2, <4>1, <4>2 DEF Goes
    <3>3. CASE Copy(p) /\ Goes(p, "copy", "remove")
      <4>1. dirs'[s] = IF dirs[s].user = "cut" /\ dirs[s].proposed = "whole"
                       THEN [dirs[s] EXCEPT !.user = "whole"] ELSE dirs[s]
        BY <2>1, <2>6, <3>3 DEF Copy
      <4>2. /\ "proposed" \in DOMAIN dirs[s] /\ "user" \in DOMAIN dirs[s]
        BY DEF OtherTypes
      <4> QED
        BY <2>2, <2>4, <2>6, <3>1, <3>3, <4>1, <4>2 DEF Goes
    <3>4. CASE RemoveProposed(p) /\ Goes(p, "remove", "removing")
      <4>1. dirs'[s] = [dirs[s] EXCEPT !.proposed = "empty"]
        BY <2>1, <2>6, <3>4 DEF RemoveProposed
      <4>2. /\ "proposed" \in DOMAIN dirs[s] /\ "user" \in DOMAIN dirs[s]
        BY DEF OtherTypes
      <4> QED
        BY <2>2, <2>4, <2>6, <3>1, <3>4, <4>1, <4>2 DEF Goes
    <3>5. CASE Dismiss(p)
      BY <2>3, <2>6, <3>5 DEF Dismiss
    <3>6. CASE Becomes(p, Idle)
      <4>1. CASE proc[p].pc = "removing" /\ Removed(p)
        <5>1. dirs'[s] = [dirs[s] EXCEPT !.proposed = "none"]
          BY <2>1, <2>6, <4>1 DEF Removed
        <5>2. /\ "proposed" \in DOMAIN dirs[s] /\ "user" \in DOMAIN dirs[s]
          BY DEF OtherTypes
        <5> QED
          BY <1>1, <2>2, <2>4, <2>6, <3>1, <3>6, <4>1, <5>1, <5>2 DEF Becomes
      <4>2. CASE dirs' = dirs
        BY <1>1, <2>2, <2>4, <3>6, <4>2 DEF Becomes
      <4>3. CASE Approve(p) \/ Copy(p)
        <5>1. proc'[p].pc = "idle"
          BY <1>1, <3>6 DEF Becomes
        <5>2. ~(\E x \in {"copy", "remove"} : Step(p, x))
          BY <5>1, StepFacts
        <5>3. dirs[s].proposed = "none"
          BY <2>6, <4>3, <5>2 DEF Approve, Copy
        <5> QED
          BY <2>6, <4>2, <4>3, <5>3 DEF Approve, Copy
      <4>4. CASE RemoveProposed(p)
        <5>1. proc'[p].pc = "removing"
          BY <4>4, StepFacts DEF RemoveProposed
        <5> QED
          BY <1>1, <3>6, <5>1 DEF Becomes
      <4> QED
        BY <1>6, <3>5, <4>1, <4>3, <4>4 DEF SkillAction, Removed, At
    <3> QED
      BY <1>6, <3>2, <3>3, <3>4, <3>5, <3>6, SkillMoves
  <2> QED
    BY <2>5, <2>6
<1> QED
  BY <1>2, <1>3, <1>4, <1>5, <1>6, StepKinds

-----------------------------------------------------------------------------
(* The executable *)

\* What an update has done when it gets to the next step.
Replacing ==
  \A p \in Procs : "exe" \notin overlap /\ Does(p, "update") =>
    /\ proc[p].pc # "replace" => exe.file > 0
    /\ proc[p].pc = "replace" => exe.bak > 0
    /\ proc[p].pc \in {"clear", "set aside", "replace"} => exe.new > 0

ExeInv == ExecutableKept /\ Replacing

LEMMA UpdateHolds ==
  ASSUME NEW p, Does(p, "update")
  PROVE  "exe" \in Holds(p)
  BY DEF Holds

\* Where the executable stays, so does what holds of it.
LEMMA ExeAlone ==
  ASSUME ExeInv, UNCHANGED exe, overlap \subseteq overlap',
         \A q \in Procs : proc'[q] = proc[q] \/ proc'[q].do # "update"
  PROVE  ExeInv'
  BY DEF ExeInv, ExecutableKept, Replacing, Does

LEMMA ExeStep ==
  ASSUME ProcTypes, FileTypes, OtherTypes, ExeInv, Apart,
         overlap \subseteq overlap', NEW p \in Procs, ProcessStep(p)
  PROVE  ExeInv'
<1>1. Idle.do = "none" /\ Idle.pc = "idle"
  BY DEF Idle
<1>2. CASE QuietAction(p)
  BY <1>1, <1>2, QuietSteps, ExeAlone DEF Quiet, Becomes
<1>3. CASE \E c \in offered : Begin(p, c)
  <2>1. /\ \A q \in Procs : q # p => proc'[q] = proc[q]
        /\ proc'[p].pc = "begin" /\ exe.file > 0 /\ exe' = exe
    BY <1>3, BeginStep DEF Becomes
  <2> QED
    BY <2>1 DEF ExeInv, ExecutableKept, Replacing, Does
<1>4. CASE SkillAction(p)
  <2>1. proc'[p] = Idle \/ proc'[p].do = proc[p].do
    BY <1>4, SkillMoves DEF Goes, Becomes
  <2>2. proc[p].do = "update" => proc[p].pc \in Updating \union {"begin"}
    BY DEF ProcTypes, Shape
  <2>3. proc'[p] = Idle \/ proc[p].do # "update"
    BY <1>4, <2>2, SkillMoves
       DEF Goes, Becomes, Approve, Dismiss, Does, Updating
  <2> QED
    BY <1>1, <1>4, <2>1, <2>3, SkillMoves, ExeAlone DEF Goes, Becomes
<1>5. CASE DaemonAction(p)
  <2>1. CASE KillsAnother(p)
    <3>1. \A q \in Procs : \/ proc'[q] = proc[q] \/ proc'[q] = Idle
                          \/ (proc[q].pc = "daemon" /\ proc'[q].do = proc[q].do)
      <4>1. PICK t \in Procs :
              /\ proc'[p] = Idle
              /\ \A q \in Procs : q \notin {p, t} => proc'[q] = proc[q]
              /\ \/ proc'[t] = Idle
                 \/ /\ proc[t].pc = "daemon"
                    /\ \A f \in Fields : f # "stopping" => proc'[t][f] = proc[t][f]
        BY <2>1 DEF KillsAnother
      <4>2. proc'[t] = Idle \/ (proc[t].pc = "daemon" /\ proc'[t].do = proc[t].do)
        BY <4>1 DEF Fields
      <4> QED
        BY <4>1, <4>2
    <3>2. \A q \in Procs : proc[q].pc = "daemon" => proc[q].do # "update"
      BY DEF ProcTypes, Shape
    <3> QED
      BY <1>1, <1>5, <3>1, <3>2, DaemonMoves, ExeAlone
  <2>2. CASE Goes(p, "begin", "migrate") /\ StartDaemon(p)
    BY <1>5, <2>2, DaemonMoves, ExeAlone DEF Goes, Becomes, StartDaemon, Does
  <2>3. CASE Goes(p, "announce", "daemon")
    <3>1. proc[p].do # "update"
      BY <2>3 DEF Goes, ProcTypes, Shape
    <3> QED
      BY <1>5, <2>3, <3>1, DaemonMoves, ExeAlone DEF Goes, Becomes
  <2> QED
    BY <1>1, <1>5, <2>1, <2>2, <2>3, DaemonMoves, ExeAlone DEF Becomes
<1>6. CASE UpdateAction(p)
  <2>1. SUFFICES ASSUME "exe" \notin overlap'
                 PROVE  /\ exe'.file > 0 \/ exe'.bak > 0
                        /\ \A q \in Procs : proc'[q].do = "update" =>
                             /\ proc'[q].pc # "replace" => exe'.file > 0
                             /\ proc'[q].pc = "replace" => exe'.bak > 0
                             /\ proc'[q].pc \in {"clear", "set aside", "replace"} =>
                                  exe'.new > 0
    BY DEF ExeInv, ExecutableKept, Replacing, Does
  <2>2. /\ exe.file > 0 \/ exe.bak > 0
        /\ proc[p].pc # "replace" => exe.file > 0
        /\ proc[p].pc = "replace" => exe.bak > 0
        /\ proc[p].pc \in {"clear", "set aside", "replace"} => exe.new > 0
    BY <1>6, <2>1, UpdateMoves DEF ExeInv, ExecutableKept, Replacing, Does
  <2>3. \A q \in Procs : q # p => proc'[q] = proc[q] /\ proc[q].do # "update"
    BY <1>6, <2>1, UpdateMoves, UpdateHolds DEF Apart, Goes, Becomes, Does
  <2>4. DOMAIN exe = {"file", "new", "bak"} /\ exe.file \in Int /\ exe.bak \in Int
    BY DEF OtherTypes
  <2>5. CASE Update(p) /\ Goes(p, "begin", "install")
    <3>1. exe'.file = exe.file \/ proc'[p].pc = "idle"
      BY <2>4, <2>5 DEF Update, End
    <3> QED
      BY <2>2, <2>3, <2>5, <3>1 DEF Goes
  <2>6. CASE Install(p) /\ Goes(p, "install", "clear")
    <3>1. exe'.file = exe.file /\ exe'.new = 2
      BY <2>4, <2>6 DEF Install
    <3> QED
      BY <2>2, <2>3, <2>6, <3>1 DEF Goes
  <2>7. CASE ClearBackup(p) /\ Goes(p, "clear", "set aside")
    <3>1. exe'.file = exe.file /\ exe'.new = exe.new
      BY <2>4, <2>7 DEF ClearBackup
    <3> QED
      BY <2>2, <2>3, <2>7, <3>1 DEF Goes
  <2>8. CASE SetAside(p) /\ Goes(p, "set aside", "replace")
    <3>1. exe.file > 0
      BY <2>2, <2>8 DEF Goes
    <3>2. exe.file # 0
      BY <2>4, <3>1
    <3>3. exe' = [exe EXCEPT !.bak = exe.file, !.file = 0]
      BY <2>8, <3>2 DEF SetAside
    <3>4. exe'.bak = exe.file /\ exe'.new = exe.new
      BY <2>4, <3>3
    <3> QED
      BY <2>2, <2>3, <2>8, <3>1, <3>4 DEF Goes
  <2>9. CASE Becomes(p, Idle)
    <3>1. exe'.file > 0 \/ exe'.bak > 0
      <4>1. CASE Replace(p)
        <5>1. exe.new > 0
          BY <2>2, <4>1 DEF Replace, At
        <5>2. exe'.file = exe.new
          BY <2>4, <4>1, <5>1 DEF Replace
        <5> QED
          BY <5>1, <5>2
      <4>2. CASE exe' = exe
        BY <2>2, <4>2
      <4>3. ASSUME NEW x \in {"install", "clear", "set aside", "replace"}, Step(p, x)
            PROVE  FALSE
        <5>1. proc'[p].pc = x
          BY <4>3, StepFacts
        <5>2. proc'[p].pc = "idle"
          BY <1>1, <2>9 DEF Becomes
        <5> QED
          BY <4>3, <5>1, <5>2
      <4> QED
        BY <1>6, <4>1, <4>2, <4>3 DEF UpdateAction, Update, Install, ClearBackup, SetAside
    <3> QED
      BY <1>1, <2>3, <2>9, <3>1 DEF Becomes
  <2> QED
    BY <1>6, <2>5, <2>6, <2>7, <2>8, <2>9, UpdateMoves
<1> QED
  BY <1>2, <1>3, <1>4, <1>5, <1>6, StepKinds

-----------------------------------------------------------------------------
(* The daemon *)

\* Starting the daemon, once it has found that none is running.
Starting(p) == Does(p, "start") /\ proc[p].pc \notin {"begin", "daemon"}

\* One daemon at most, which the file names until it is told to stop; no other
\* start is past its check, and a stop that is under way is for that daemon.
PidInv ==
  "pid" \notin overlap =>
    \A p, q \in Procs : At(p, "daemon") =>
      /\ ~proc[p].stopping => pid = p
      /\ p # q => ~At(q, "daemon") /\ ~Starting(q)
      /\ At(q, "kill") /\ ~proc[p].stopping => proc[q].target = p

\* Both work on the PID file: a start that has checked and a daemon that is
\* stopping, and a stop that has read the file.
LEMMA PidHolds ==
  ASSUME NEW p
  PROVE  /\ Starting(p) => "pid" \in Holds(p)
         /\ At(p, "kill") => "pid" \in Holds(p)
         /\ proc[p].stopping => "pid" \in Holds(p)
  BY DEF Holds, Starting

\* Where the file stays, and no process comes to any of these places.
LEMMA PidAlone ==
  ASSUME PidInv, UNCHANGED pid, overlap \subseteq overlap',
         \A q \in Procs : \/ proc'[q] = proc[q]
                         \/ /\ proc'[q].pc \notin {"daemon", "kill"}
                            /\ Starting(q)' => Starting(q)
  PROVE  PidInv'
  BY DEF PidInv, At, Starting, Does

LEMMA PidStep ==
  ASSUME ProcTypes, FileTypes, OtherTypes, PidInv, Apart, Apart',
         overlap \subseteq overlap', NEW p \in Procs, ProcessStep(p)
  PROVE  PidInv'
<1> USE DEF Starting, At, Does
<1>1. Idle.do = "none" /\ Idle.pc = "idle" /\ ~Idle.stopping
  BY DEF Idle
<1>2. CASE QuietAction(p)
  BY <1>1, <1>2, QuietSteps, PidAlone DEF Quiet, Becomes, Kept
<1>3. CASE \E c \in offered : Begin(p, c)
  BY <1>3, BeginStep, PidAlone DEF Becomes
<1>4. CASE SkillAction(p)
  BY <1>1, <1>4, SkillMoves, PidAlone DEF Goes, Becomes, Approve, Dismiss
<1>5. CASE UpdateAction(p)
  BY <1>1, <1>5, UpdateMoves, PidAlone DEF Goes, Becomes
<1>6. CASE DaemonAction(p)
  <2>1. SUFFICES ASSUME "pid" \notin overlap'
                 PROVE  \A r, q \in Procs : proc'[r].pc = "daemon" =>
                          /\ ~proc'[r].stopping => pid' = r
                          /\ r # q => proc'[q].pc # "daemon" /\ ~Starting(q)'
                          /\ proc'[q].pc = "kill" /\ ~proc'[r].stopping =>
                               proc'[q].target = r
    BY DEF PidInv
  <2>2. \A r, q \in Procs : proc[r].pc = "daemon" =>
          /\ ~proc[r].stopping => pid = r
          /\ r # q => proc[q].pc # "daemon" /\ ~Starting(q)
          /\ proc[q].pc = "kill" /\ ~proc[r].stopping => proc[q].target = r
    BY <2>1 DEF PidInv
  \* No other process works on the file along with p.
  <2>3. \A q \in Procs \ {p} :
          /\ "pid" \in Holds(p) => "pid" \notin Holds(q)
          /\ "pid" \in Holds(p)' => "pid" \notin Holds(q)'
    BY <2>1 DEF Apart
  <2>4. CASE StartDaemon(p) /\ Goes(p, "begin", "migrate") /\ UNCHANGED pid
    <3>1. proc[p].do = "start" /\ Starting(p)'
      BY <2>4 DEF StartDaemon, Goes
    <3>2. pid = None \/ proc[pid].pc = "idle"
      <4>1. ~IsDaemonRunning \/ End(p)
        BY <2>4 DEF StartDaemon
      <4>2. ~End(p)
        BY <1>1, <2>4, EndFacts DEF Goes, Becomes
      <4> QED
        BY <4>1, <4>2 DEF IsDaemonRunning, Alive
    <3>3. ASSUME NEW q \in Procs, q # p PROVE proc[q].pc # "daemon"
      <4>1. "pid" \in Holds(p)'
        BY <3>1 DEF Holds
      <4>2. proc'[q] = proc[q]
        BY <2>4, <3>3 DEF Goes, Becomes
      <4>3. ~proc[q].stopping
        BY <2>3, <3>3, <4>1, <4>2 DEF Holds
      <4> QED
        BY <2>2, <3>2, <4>3, HomeAssumption
    <3> QED
      BY <2>4, <3>3 DEF Goes, Becomes
  <2>5. CASE WritePid(p) /\ Goes(p, "announce", "daemon")
    <3>1. proc[p].do = "start" /\ pid' = p
      BY <2>5 DEF WritePid, Goes, ProcTypes, Shape
    <3>2. Starting(p)
      BY <2>5, <3>1 DEF Goes
    <3>3. ASSUME NEW q \in Procs, q # p
          PROVE  proc[q].pc # "daemon" /\ ~Starting(q) /\ proc[q].pc # "kill"
      BY <2>2, <2>3, <3>2, <3>3, PidHolds
    <3> QED
      BY <2>5, <3>1, <3>3 DEF Goes, Becomes
  <2>6. CASE /\ StopReads(p) /\ Becomes(p, proc'[p])
             /\ proc'[p].pc = "kill" /\ proc'[p].target = pid
             /\ proc'[p].do = "stop" /\ UNCHANGED pid
    BY <2>2, <2>6 DEF Becomes
  <2>7. CASE Becomes(p, Idle) /\ (StopKills(p) => ~IsDaemonRunning \/ UNCHANGED pid)
    <3>1. CASE pid' = pid
      BY <1>1, <2>2, <2>7, <3>1 DEF Becomes
    <3>2. CASE DaemonReturns(p)
      <4>1. \A q \in Procs \ {p} : proc[q].pc # "daemon"
        BY <2>2, <3>2 DEF DaemonReturns
      <4> QED
        BY <1>1, <2>7, <4>1 DEF Becomes
    <3>3. CASE StopKills(p) /\ ~IsDaemonRunning
      <4>1. proc[p].pc = "kill" /\ (pid = None \/ proc[pid].pc = "idle")
        BY <3>3 DEF StopKills, IsDaemonRunning, Alive
      <4>2. \A q \in Procs \ {p} : proc[q].pc # "daemon"
        BY <2>2, <2>3, <4>1, PidHolds, HomeAssumption
      <4> QED
        BY <1>1, <2>7, <4>2 DEF Becomes
    <3>4. CASE WritePid(p)
      BY <1>1, <2>7, <3>4, StepFacts DEF WritePid, Becomes
    <3> QED
      BY <1>6, <2>7, <3>1, <3>2, <3>3, <3>4 DEF DaemonAction, StartDaemon, StopReads
  <2>8. CASE StopKills(p) /\ KillsAnother(p) /\ pid' = None
    <3> DEFINE t == proc[p].target
    <3>1. /\ proc[p].pc = "kill" /\ t \in Procs /\ t # p
          /\ proc'[p] = Idle
          /\ \A q \in Procs : q \notin {p, t} => proc'[q] = proc[q]
      BY <2>8 DEF StopKills, KillsAnother
    <3>2. \A q \in Procs \ {p} : /\ ~Starting(q) /\ proc[q].pc # "kill"
                                 /\ ~proc[q].stopping
      BY <2>3, <3>1, PidHolds
    <3>3. \A q \in Procs \ {p} : proc[q].pc = "daemon" => q = t
      BY <2>2, <3>1, <3>2
    <3>4. \/ proc'[t] = Idle
          \/ proc'[t].pc = "daemon" /\ proc'[t].stopping
      BY <2>8 DEF KillsAnother, Fields
    <3> QED
      BY <1>1, <3>1, <3>2, <3>3, <3>4
  <2> QED
    BY <1>6, <2>4, <2>5, <2>6, <2>7, <2>8, DaemonMoves
<1> QED
  BY <1>2, <1>3, <1>4, <1>5, <1>6, StepKinds

-----------------------------------------------------------------------------
(* Logins *)

\* The logins that are to be in auth.json when p has written it.
Keeps(p) ==
  IF Does(p, "disconnect") THEN logins \ {proc[p].what} ELSE logins

\* Between the two saves of `disconnect all`, with the second to come.
Between(q) == q.pc = "all" /\ q.what = "copilot" /\ "chatgpt" \in DOMAIN q.store

\* What a process has in hand for auth.json has all of them.
InHand ==
  \A p \in Procs : "auth" \notin overlap =>
    /\ proc[p].pc \in Writing /\ proc[p].file = "auth" =>
         Keeps(p) \subseteq DOMAIN proc[p].store
    /\ At(p, "flow") /\ Does(p, "connect") => logins \subseteq DOMAIN proc[p].store
    /\ Between(proc[p]) => logins \subseteq DOMAIN proc[p].store
    /\ At(p, "write") /\ proc[p].file = "auth" => temp["auth"] # NoFile
    /\ At(p, "rename") /\ proc[p].file = "auth" => temp["auth"] = proc[p].store

LoginInv == LoginsSurvive /\ InHand

\* What a step leaves that neither logs in nor out.
AuthKept ==
  /\ UNCHANGED logins
  /\ disk'["auth"] = disk["auth"] /\ temp'["auth"] = temp["auth"]

LEMMA LoginMove ==
  ASSUME LoginInv, AuthKept, overlap \subseteq overlap',
         \A q \in Procs :
           \/ proc'[q] = proc[q]
           \/ "auth" \notin overlap' =>
                /\ proc'[q].pc \in Writing /\ proc'[q].file = "auth" =>
                     proc'[q].pc = "create" /\ Keeps(q)' \subseteq DOMAIN proc'[q].store
                /\ proc'[q].pc = "flow" /\ proc'[q].do = "connect" =>
                     logins \subseteq DOMAIN proc'[q].store
                /\ Between(proc'[q]) => logins \subseteq DOMAIN proc'[q].store
  PROVE  LoginInv'
<1>1. LoginsSurvive'
  BY DEF LoginInv, LoginsSurvive, AuthKept
<1>2. ASSUME NEW q \in Procs, "auth" \notin overlap', proc'[q] = proc[q]
      PROVE  /\ proc'[q].pc \in Writing /\ proc'[q].file = "auth" =>
                  Keeps(q)' \subseteq DOMAIN proc'[q].store
             /\ proc'[q].pc = "flow" /\ proc'[q].do = "connect" =>
                  logins' \subseteq DOMAIN proc'[q].store
             /\ Between(proc'[q]) => logins' \subseteq DOMAIN proc'[q].store
             /\ proc'[q].pc = "write" /\ proc'[q].file = "auth" => temp'["auth"] # NoFile
             /\ proc'[q].pc = "rename" /\ proc'[q].file = "auth" =>
                  temp'["auth"] = proc'[q].store
  BY <1>2 DEF LoginInv, InHand, AuthKept, Keeps, At, Does
<1> QED
  BY <1>1, <1>2 DEF LoginInv, InHand, AuthKept, At, Does, Writing

LEMMA LoginElsewhere ==
  ASSUME LoginInv, AuthKept, overlap \subseteq overlap', NEW p \in Procs,
         Becomes(p, proc'[p]), proc'[p].pc \notin Writing \union {"flow", "all"}
  PROVE  LoginInv'
  BY LoginMove DEF Becomes, Between

LEMMA LoginSaving ==
  ASSUME ProcTypes, LoginInv, AuthKept, overlap \subseteq overlap', NEW p \in Procs,
         NEW file, NEW store, NEW then, NEW strict, Saving(p, file, store, then, strict),
         file = "auth" /\ "auth" \notin overlap => Keeps(p) \subseteq DOMAIN store
  PROVE  LoginInv'
<1>1. /\ Becomes(p, proc'[p])
      /\ proc'[p].pc = "create" /\ proc'[p].file = file /\ proc'[p].store = store
      /\ proc'[p].do = proc[p].do /\ proc'[p].what = proc[p].what
  BY SavingFacts DEF Fields
<1>2. Keeps(p)' = Keeps(p)
  BY <1>1 DEF Keeps, AuthKept, Does
<1> QED
  BY <1>1, <1>2, LoginMove DEF Becomes, Between

LEMMA AuthHolds ==
  ASSUME NEW p
  PROVE  /\ proc[p].pc \in Writing /\ proc[p].file = "auth" => "auth" \in Holds(p)
         /\ At(p, "flow") /\ Does(p, "connect") => "auth" \in Holds(p)
         /\ Between(proc[p]) => "auth" \in Holds(p)
  BY DEF Holds, Writing, Between, At

\* Writing auth.json, one step after the other.
LEMMA LoginWriting ==
  ASSUME ProcTypes, FileTypes, LoginInv, Apart, overlap \subseteq overlap',
         NEW p \in Procs, Create(p) \/ Write(p) \/ Rename(p)
  PROVE  LoginInv'
<1> USE DEF At, Does
<1>1. /\ proc[p].pc \in Writing /\ proc[p].file \in Names
      /\ proc[p].then \in {"done", "all", "resolve", "discover", "build"}
      /\ proc[p].file = "auth" => proc[p].store \in Stores
      /\ proc[p].then = "all" => proc[p].file = "auth" /\ proc[p].strict
  BY DEF Create, Write, Rename, ProcTypes, Shape, Writing
<1>2. DOMAIN disk = Names /\ DOMAIN temp = Names
  BY DEF FileTypes
<1>3. CASE AfterFailure(p) /\ AuthKept
  <2>1. CASE End(p)
    BY <1>3, <2>1, EndFacts, LoginElsewhere DEF Becomes, Idle, Writing
  <2>2. CASE ~proc[p].strict /\ Step(p, proc[p].then)
    BY <1>1, <1>3, <2>2, StepFacts, LoginElsewhere DEF Writing
  <2> QED
    BY <1>3, <2>1, <2>2 DEF AfterFailure
<1>4. ASSUME NEW x \in {"write", "rename", proc[p].then}, Step(p, x)
      PROVE  /\ Becomes(p, proc'[p]) /\ proc'[p].pc = x
             /\ \A f \in {"do", "what", "file", "store"} : proc'[p][f] = proc[p][f]
  BY <1>4, StepFacts DEF Fields
<1>5. CASE proc[p].file = "apps"
  <2>1. AuthKept
    BY <1>2, <1>5 DEF AuthKept, Create, Write, Rename, Names
  <2>2. ASSUME NEW x \in {"write", "rename", proc[p].then}, Step(p, x) PROVE LoginInv'
    <3>1. Becomes(p, proc'[p]) /\ proc'[p].pc = x /\ proc'[p].file = "apps"
      BY <1>4, <1>5, <2>2
    <3>2. proc'[p].pc \notin {"flow", "all"}
      BY <1>1, <1>5, <2>2, <3>1
    <3> QED
      BY <2>1, <3>1, <3>2, LoginMove DEF Becomes, Between
  <2> QED
    BY <1>3, <2>1, <2>2 DEF Create, Write, Rename
<1>6. CASE proc[p].file = "auth" /\ ~(AfterFailure(p) /\ AuthKept)
  <2>1. proc[p].store \in Stores
    BY <1>1, <1>6
  <2>2. SUFFICES ASSUME "auth" \notin overlap'
                 PROVE  /\ logins' \subseteq DOMAIN Loaded(disk'["auth"])
                        /\ \A q \in Procs :
                          /\ proc'[q].pc \in Writing /\ proc'[q].file = "auth" =>
                               Keeps(q)' \subseteq DOMAIN proc'[q].store
                          /\ proc'[q].pc = "flow" /\ proc'[q].do = "connect" =>
                               logins' \subseteq DOMAIN proc'[q].store
                          /\ Between(proc'[q]) => logins' \subseteq DOMAIN proc'[q].store
                          /\ proc'[q].pc = "write" /\ proc'[q].file = "auth" =>
                               temp'["auth"] # NoFile
                          /\ proc'[q].pc = "rename" /\ proc'[q].file = "auth" =>
                               temp'["auth"] = proc'[q].store
    BY DEF LoginInv, LoginsSurvive, InHand
  <2>3. \A q \in Procs : q # p => /\ ~(proc[q].pc \in Writing /\ proc[q].file = "auth")
                                 /\ ~(proc[q].pc = "flow" /\ proc[q].do = "connect")
                                 /\ ~Between(proc[q])
    BY <1>1, <1>6, <2>2, AuthHolds DEF Apart
  <2>4. /\ logins \subseteq DOMAIN Loaded(disk["auth"])
        /\ Keeps(p) \subseteq DOMAIN proc[p].store
        /\ proc[p].pc = "write" => temp["auth"] # NoFile
        /\ proc[p].pc = "rename" => temp["auth"] = proc[p].store
    BY <1>1, <1>6, <2>2 DEF LoginInv, LoginsSurvive, InHand
  <2>5. CASE Create(p)
    <3>1. /\ temp'["auth"] = Torn /\ Step(p, "write")
          /\ UNCHANGED <<disk, logins>>
      BY <1>2, <1>6, <2>5 DEF Create, AuthKept, Names
    <3>2. /\ Becomes(p, proc'[p]) /\ proc'[p].pc = "write"
          /\ \A f \in {"do", "what", "file", "store"} : proc'[p][f] = proc[p][f]
      BY <1>4, <3>1
    <3>3. Keeps(p)' = Keeps(p) /\ proc'[p].store = proc[p].store
      BY <3>1, <3>2 DEF Keeps
    <3>4. \A q \in Procs : q # p => proc'[q] = proc[q]
      BY <3>2 DEF Becomes
    <3>5. logins' \subseteq DOMAIN Loaded(disk'["auth"])
      BY <2>4, <3>1
    <3>6. proc'[p].pc = "write" /\ Keeps(p)' \subseteq DOMAIN proc'[p].store
      BY <2>4, <3>2, <3>3
    <3> QED
      BY <2>3, <3>1, <3>3, <3>4, <3>5, <3>6, FilesAssumption DEF Writing, Between
  <2>6. CASE Write(p)
    <3>1. /\ temp'["auth"] = proc[p].store /\ Step(p, "rename")
          /\ UNCHANGED <<disk, logins>>
      BY <1>2, <1>6, <2>4, <2>6 DEF Write, AuthKept, Names
    <3>2. /\ Becomes(p, proc'[p]) /\ proc'[p].pc = "rename"
          /\ \A f \in {"do", "what", "file", "store"} : proc'[p][f] = proc[p][f]
      BY <1>4, <3>1
    <3>3. Keeps(p)' = Keeps(p) /\ proc'[p].store = proc[p].store
      BY <3>1, <3>2 DEF Keeps
    <3>4. \A q \in Procs : q # p => proc'[q] = proc[q]
      BY <3>2 DEF Becomes
    <3>5. logins' \subseteq DOMAIN Loaded(disk'["auth"])
      BY <2>4, <3>1
    <3>6. proc'[p].pc = "rename" /\ Keeps(p)' \subseteq DOMAIN proc'[p].store
      BY <2>4, <3>2, <3>3
    <3> QED
      BY <2>3, <3>1, <3>3, <3>4, <3>5, <3>6 DEF Writing, Between
  <2>7. CASE Rename(p)
    <3>1. temp["auth"] = proc[p].store /\ proc[p].store # NoFile
      BY <2>1, <2>4, <2>7, StoreIsLoaded DEF Rename
    <3>2. /\ disk'["auth"] = proc[p].store /\ Step(p, proc[p].then)
          /\ logins' = LoginsAfter(p, proc[p].store)
      BY <1>2, <1>6, <2>7, <3>1 DEF Rename, Names
    <3>3. /\ Becomes(p, proc'[p]) /\ proc'[p].pc \notin Writing \union {"flow"}
          /\ proc'[p].store = proc[p].store
      BY <1>1, <1>4, <3>2 DEF Writing
    <3>4. logins' \subseteq DOMAIN proc[p].store
      BY <2>1, <2>4, <3>2, StoreIsLoaded DEF LoginsAfter, Keeps
    <3> QED
      BY <2>1, <2>3, <3>2, <3>3, <3>4, StoreIsLoaded DEF Becomes, Writing
  <2> QED
    BY <2>5, <2>6, <2>7
<1> QED
  BY <1>1, <1>3, <1>5, <1>6 DEF Names

LEMMA AuthKeptBy ==
  ASSUME ProcTypes, FileTypes, OtherTypes, NEW p \in Procs, ProcessStep(p),
         ~(Create(p) \/ Write(p) \/ Rename(p))
  PROVE  AuthKept
<1>1. CASE UNCHANGED <<now, files, logins>>
  BY <1>1 DEF AuthKept, files
<1>2. CASE SkillAction(p) \/ UpdateAction(p) \/ DaemonAction(p)
  BY <1>1, <1>2, SkillMoves, UpdateMoves, DaemonMoves
<1>3. CASE KeyAction(p)
  BY <1>3, KeySteps DEF AuthKept
<1>4. CASE \E c \in offered : Begin(p, c)
  BY <1>1, <1>4 DEF Begin
<1>5. CASE QuietAction(p)
  BY <1>1, <1>3, <1>5
     DEF QuietAction, KeyAction, ConnectOAuth, DeviceFlow, ConnectApp, ConnectEmail,
         DisconnectOAuth, DisconnectAll, NextLogin, RunTask, MigrateKeys, Discover,
         Resolve, Build, Evolve, BackUpSoul, WriteSoul, Finish, Die, state
<1> QED
  BY <1>2, <1>4, <1>5, StepKinds

\* A step that has nothing to do with auth.json leads to no place that has.
LEMMA LoginOthers ==
  ASSUME ProcTypes, FileTypes, OtherTypes, LoginInv, AuthKept,
         overlap \subseteq overlap', NEW p \in Procs,
         \/ SkillAction(p) \/ UpdateAction(p) \/ DaemonAction(p)
         \/ \E c \in offered : Begin(p, c)
         \/ End(p)
  PROVE  LoginInv'
<1> USE DEF Writing
<1>1. Idle.pc = "idle"
  BY DEF Idle
<1>2. CASE End(p) \/ \E c \in offered : Begin(p, c)
  BY <1>1, <1>2, EndFacts, BeginStep, LoginElsewhere DEF Becomes
<1>3. CASE SkillAction(p)
  BY <1>1, <1>3, SkillMoves, LoginElsewhere DEF Goes, Becomes
<1>4. CASE UpdateAction(p)
  BY <1>1, <1>4, UpdateMoves, LoginElsewhere DEF Goes, Becomes
<1>5. CASE DaemonAction(p)
  <2>1. CASE KillsAnother(p)
    <3>1. \A q \in Procs : proc'[q] = proc[q] \/ proc'[q].pc \in {"idle", "daemon"}
      BY <1>1, <2>1 DEF KillsAnother, Fields
    <3> QED
      BY <3>1, LoginMove DEF Between
  <2> QED
    BY <1>1, <1>5, <2>1, DaemonMoves, LoginElsewhere DEF Goes, Becomes
<1> QED
  BY <1>2, <1>3, <1>4, <1>5

\* connect and disconnect start from the file as it is,
LEMMA LoginConnecting ==
  ASSUME ProcTypes, FileTypes, LoginInv, AuthKept, overlap \subseteq overlap',
         NEW p \in Procs,
         \/ ConnectOAuth(p) \/ DeviceFlow(p) \/ ConnectKey(p) \/ ConnectApp(p)
         \/ ConnectEmail(p) \/ DisconnectOAuth(p) \/ DisconnectKey(p)
         \/ DisconnectAll(p) \/ NextLogin(p) \/ RemoveRest(p)
  PROVE  LoginInv'
<1> USE DEF At, Does
<1> DEFINE store == Loaded(disk["auth"])
           id == proc[p].what
<1>1. store \in Stores /\ ("auth" \notin overlap => logins \subseteq DOMAIN store)
  BY LoadedType DEF FileTypes, LoginInv, LoginsSurvive
<1>2. DOMAIN proc[p] = Fields /\ DOMAIN proc = Procs
  BY DEF ProcTypes, Shape
<1>3. CASE End(p)
  BY <1>3, EndFacts, LoginElsewhere DEF Becomes, Idle, Writing
<1>4. CASE ConnectOAuth(p) /\ ~End(p)
  <2>1. proc' = [proc EXCEPT ![p].pc = "flow", ![p].store = store]
    BY <1>4 DEF ConnectOAuth
  <2>2. /\ Becomes(p, proc'[p])
        /\ proc'[p].pc = "flow" /\ proc'[p].store = store
    BY <1>2, <2>1 DEF Becomes, Fields
  <2> QED
    BY <1>1, <2>2, LoginMove DEF Becomes, Writing, Between
<1>5. CASE DeviceFlow(p) /\ ~End(p)
  <2> DEFINE with == IF Does(p, "connect") THEN proc[p].store ELSE store
             then == IF Does(p, "connect") THEN "done" ELSE "resolve"
  <2>1. PICK info : Saving(p, "auth", With(with, id, info), then, TRUE)
    BY <1>5 DEF DeviceFlow
  <2>2. "auth" \notin overlap => logins \subseteq DOMAIN with
    BY <1>1, <1>5 DEF DeviceFlow, LoginInv, InHand
  <2>3. "auth" \notin overlap => Keeps(p) \subseteq DOMAIN With(with, id, info)
    BY <2>2 DEF Keeps, With
  <2> QED
    BY <2>1, <2>3, LoginSaving
<1>6. CASE (ConnectApp(p) \/ ConnectEmail(p)) /\ ~End(p)
  <2>1. PICK new : Saving(p, "apps", new, "done", TRUE)
    BY <1>6 DEF ConnectApp, ConnectEmail
  <2> QED
    BY <2>1, LoginSaving
<1>7. CASE DisconnectOAuth(p) \/ DisconnectKey(p)
  <2>1. "auth" \notin overlap => Keeps(p) \subseteq DOMAIN Without(store, id)
    BY <1>1, <1>7 DEF DisconnectOAuth, DisconnectKey, Keeps, Without
  <2>2. CASE Saving(p, "auth", Without(store, id), "done", TRUE)
    BY <2>1, <2>2, LoginSaving
  <2> QED
    BY <1>3, <1>7, <2>2 DEF DisconnectOAuth, DisconnectKey
<1>8. ASSUME NEW login, NEW copy \in Stores, RemoveLogin(p, login, copy),
             proc[p].do = "disconnect",
             login = "copilot" \/ login = "chatgpt",
             "auth" \notin overlap /\ (login = "copilot" \/ "chatgpt" \in DOMAIN copy) =>
               logins \subseteq DOMAIN copy
      PROVE  LoginInv'
  <2>1. /\ Becomes(p, proc'[p])
        /\ proc'[p].what = login /\ proc'[p].store = Without(copy, login)
        /\ proc'[p].do = "disconnect"
        /\ \/ login \notin DOMAIN copy /\ proc'[p].pc = "all"
           \/ login \in DOMAIN copy /\ proc'[p].pc = "create"
    BY <1>8, RemoveFacts
  <2>2. DOMAIN proc'[p].store = DOMAIN copy \ {login}
    BY <1>8, <2>1, WithoutType
  <2>3. Keeps(p)' = logins \ {login}
    BY <2>1 DEF Keeps, AuthKept
  <2>4. "auth" \notin overlap =>
          /\ proc'[p].pc = "create" => Keeps(p)' \subseteq DOMAIN proc'[p].store
          /\ Between(proc'[p]) => logins \subseteq DOMAIN proc'[p].store
    BY <1>8, <2>1, <2>2, <2>3 DEF Between
  <2> QED
    BY <2>1, <2>4, LoginMove DEF Becomes, Writing
<1>9. CASE DisconnectAll(p)
  BY <1>1, <1>8, <1>9 DEF DisconnectAll
<1>10. CASE NextLogin(p)
  <2>1. /\ RemoveLogin(p, "chatgpt", proc[p].store)
        /\ proc[p].pc = "all" /\ proc[p].what = "copilot"
    BY <1>10 DEF NextLogin
  <2>2. proc[p].store \in Stores /\ proc[p].do = "disconnect"
    BY <2>1 DEF ProcTypes, Shape
  <2>3. "auth" \notin overlap /\ "chatgpt" \in DOMAIN proc[p].store =>
          logins \subseteq DOMAIN proc[p].store
    BY <2>1 DEF LoginInv, InHand, Between
  <2> QED
    BY <1>8, <2>1, <2>2, <2>3
<1> QED
  BY <1>3, <1>4, <1>5, <1>6, <1>7, <1>9, <1>10 DEF ConnectKey, RemoveRest

\* and so do migrations and refreshes.
LEMMA LoginProviding ==
  ASSUME ProcTypes, FileTypes, LoginInv, AuthKept, overlap \subseteq overlap',
         NEW p \in Procs,
         \/ RunTask(p) \/ MigrateKeys(p) \/ Discover(p) \/ Pick(p) \/ Resolve(p)
         \/ Build(p) \/ Evolve(p) \/ BackUpSoul(p) \/ WriteSoul(p)
         \/ Finish(p) \/ Die(p)
  PROVE  LoginInv'
<1> USE DEF At, Does
<1> DEFINE store == Loaded(disk["auth"])
<1>1. store \in Stores /\ ("auth" \notin overlap => logins \subseteq DOMAIN store)
  BY LoadedType DEF FileTypes, LoginInv, LoginsSurvive
<1>2. DOMAIN proc[p] = Fields /\ DOMAIN proc = Procs
  BY DEF ProcTypes, Shape
<1>3. CASE End(p)
  BY <1>3, EndFacts, LoginElsewhere DEF Becomes, Idle, Writing
<1>4. ASSUME NEW x, x \notin Writing \union {"flow", "all"}, Step(p, x) PROVE LoginInv'
  BY <1>4, StepFacts, LoginElsewhere
<1>5. CASE RunTask(p) \/ Evolve(p) \/ BackUpSoul(p) \/ WriteSoul(p)
           \/ Finish(p) \/ Die(p)
  <2>1. {"migrate", "backup", "evolved"} \intersect (Writing \union {"flow", "all"}) = {}
    BY DEF Writing
  <2> QED
    BY <1>3, <1>4, <1>5, <2>1
       DEF RunTask, Evolve, BackUpSoul, WriteSoul, Finish, Die
<1>6. CASE MigrateKeys(p)
  <2>1. Keeps(p) \subseteq logins
    BY DEF Keeps
  <2>2. "auth" \notin overlap => Keeps(p) \subseteq DOMAIN Migrated(store, keys)
    BY <1>1, <2>1, MigratedType
  <2>3. CASE Saving(p, "auth", Migrated(store, keys), "discover", FALSE)
    BY <2>2, <2>3, LoginSaving
  <2> QED
    BY <1>4, <1>6, <2>3 DEF MigrateKeys, Writing
<1>7. CASE Discover(p) \/ Build(p)
  <2>1. Becomes(p, proc'[p]) /\ proc'[p].pc \notin Writing \union {"flow", "all"}
    <3>1. CASE Discover(p)
      <4>1. \/ Step(p, "pick")
            \/ \E id : proc' = [proc EXCEPT ![p].pc = "resolve", ![p].found = id]
        BY <3>1 DEF Discover
      <4> QED
        BY <1>2, <4>1 DEF Step, Becomes, Fields, Writing
    <3>2. CASE Build(p)
      <4>1. \E x \in {"unavailable", "announce", "work"} :
              proc' = [proc EXCEPT ![p].pc = x, ![p].fresh = FALSE, ![p].store = Empty]
        <5>1. PICK ollama \in BOOLEAN :
                proc' = [proc EXCEPT
                  ![p].pc = IF proc[p].found \notin Resolved(proc[p].store, keys, url,
                                                            ollama, proc[p].fresh)
                            THEN "unavailable"
                            ELSE IF proc[p].do = "start" THEN "announce" ELSE "work",
                  ![p].fresh = FALSE, ![p].store = Empty]
          BY <3>2 DEF Build
        <5> QED
          BY <5>1
      <4> QED
        BY <1>2, <4>1 DEF Becomes, Fields, Writing
    <3> QED
      BY <1>7, <3>1, <3>2
  <2> QED
    BY <2>1, LoginElsewhere
<1>8. CASE Pick(p)
  <2>1. ASSUME NEW id, Picked(p, id) PROVE LoginInv'
    <3>1. Becomes(p, proc'[p]) /\ proc'[p].pc = "resolve"
      BY <1>2, <2>1 DEF Picked, Becomes, Fields
    <3> QED
      BY <3>1, LoginElsewhere DEF Writing
  <2>2. CASE SetupOAuth(p)
    <3>1. PICK id \in OAuthIds :
            proc' = [proc EXCEPT ![p].pc = "flow", ![p].what = id, ![p].found = id]
      BY <2>2 DEF SetupOAuth
    <3>2. proc[p].do # "connect"
      BY <1>8 DEF Pick, ProcTypes, Shape, Seeking
    <3>3. Becomes(p, proc'[p]) /\ proc'[p].pc = "flow" /\ proc'[p].do # "connect"
      BY <1>2, <3>1, <3>2 DEF Becomes, Fields
    <3> QED
      BY <3>3, LoginMove DEF Becomes, Writing, Between
  <2>3. CASE proc' = [proc EXCEPT ![p].tries = 1]
    <3>1. Becomes(p, proc'[p]) /\ proc'[p].pc = "pick"
      BY <1>2, <1>8, <2>3 DEF Pick, Becomes, Fields
    <3> QED
      BY <3>1, LoginElsewhere DEF Writing
  <2> QED
    BY <1>3, <1>8, <2>1, <2>2, <2>3
       DEF Pick, SetupApiKey, SetupOllama, SetupCustomProvider
<1>9. CASE Resolve(p)
  <2>1. proc[p].do # "disconnect"
    BY <1>9 DEF Resolve, ProcTypes, Shape, Seeking
  <2>2. PICK fresh \in BOOLEAN, info \in {None, OAuth(now + Life)} :
          LET with == [proc[p] EXCEPT !.pc = "build", !.store = store,
                                      !.fresh = fresh] IN
          proc' = [proc EXCEPT ![p] =
            IF info = None THEN with
            ELSE [with EXCEPT !.pc = "create", !.file = "auth", !.what = "none",
                    !.store = With(store, "chatgpt", info), !.then = "build",
                    !.strict = FALSE, !.fresh = TRUE]]
    <3> DEFINE stale == /\ "chatgpt" \in DOMAIN store
                        /\ store["chatgpt"].type = "oauth"
                        /\ IsExpired(store["chatgpt"], now)
    <3>1. (~stale) \in BOOLEAN
      OBVIOUS
    <3> QED
      BY <1>9, <3>1, Zenon DEF Resolve, OpenaiCodexRefreshToken
  <2>3. CASE info = None
    <3>1. Becomes(p, proc'[p]) /\ proc'[p].pc = "build"
      BY <1>2, <2>2, <2>3 DEF Becomes, Fields
    <3> QED
      BY <3>1, LoginElsewhere DEF Writing
  <2>4. CASE info # None
    <3>1. /\ Becomes(p, proc'[p])
          /\ proc'[p].pc = "create" /\ proc'[p].file = "auth"
          /\ proc'[p].store = With(store, "chatgpt", info)
          /\ proc'[p].do = proc[p].do
      BY <1>2, <2>2, <2>4 DEF Becomes, Fields
    <3>2. Keeps(p)' = logins
      BY <2>1, <3>1 DEF Keeps, AuthKept
    <3>3. DOMAIN store \subseteq DOMAIN With(store, "chatgpt", info)
      BY DEF With
    <3>4. "auth" \notin overlap' => Keeps(p)' \subseteq DOMAIN proc'[p].store
      BY <1>1, <3>1, <3>2, <3>3
    <3> QED
      BY <3>1, <3>4, LoginMove DEF Becomes, Between
  <2> QED
    BY <2>3, <2>4
<1> QED
  BY <1>5, <1>6, <1>7, <1>8, <1>9

LEMMA LoginStep ==
  ASSUME ProcTypes, FileTypes, OtherTypes, LoginInv, Apart,
         overlap \subseteq overlap', NEW p \in Procs, ProcessStep(p)
  PROVE  LoginInv'
<1>1. CASE Create(p) \/ Write(p) \/ Rename(p)
  BY <1>1, LoginWriting
<1>2. CASE ~(Create(p) \/ Write(p) \/ Rename(p))
  <2>1. AuthKept
    BY <1>2, AuthKeptBy
  <2> QED
    BY <1>2, <2>1, StepKinds, LoginOthers, LoginConnecting, LoginProviding
       DEF QuietAction
<1> QED
  BY <1>1, <1>2

-----------------------------------------------------------------------------
(* Onboarding and the resolver *)

\* What onboarding has found a provider in, and the resolver will find it in.
Backed(id, store, ks) ==
  \/ id \in {"chatgpt", "custom", "ollama"}
  \/ id \in DOMAIN ks
  \/ id = "copilot" /\ "copilot" \in DOMAIN store
  \/ id \in (Env \intersect KeyIds) \union Cli

\* What a process knows of the provider it has chosen.
Ready(p) ==
  /\ At(p, "flow") /\ ~Does(p, "connect") => proc[p].found = proc[p].what
  /\ proc[p].pc \in Writing /\ proc[p].then = "resolve" =>
       /\ proc[p].file = "auth" /\ proc[p].strict
       /\ Backed(proc[p].found, proc[p].store, keys)
  /\ proc[p].pc \in Writing /\ proc[p].then = "build" =>
       Backed(proc[p].found, proc[p].store, keys)
  /\ At(p, "resolve") => Backed(proc[p].found, Loaded(disk["auth"]), keys)
  /\ At(p, "build") => Backed(proc[p].found, proc[p].store, keys)
  /\ At(p, "unavailable") =>
       \/ proc[p].found \in {"chatgpt", "custom", "ollama"}
       \/ proc[p].found \in DOMAIN keys /\ ~keys[proc[p].found]

ReadyInv == \A p \in Procs \ moved : "auth" \notin overlap => Ready(p)

Chosen == Writing \union {"flow", "resolve", "build", "unavailable"}

LEMMA NotChosen ==
  ASSUME NEW p, \/ proc'[p].pc \notin Chosen
                \/ proc'[p].pc \in Writing /\ proc'[p].then \notin {"resolve", "build"}
  PROVE  Ready(p)'
  BY DEF Ready, Chosen, Writing, At

LEMMA PickBestFound ==
  ASSUME NEW found, NEW id \in PickBest(found)
  PROVE  id \in found
  BY DEF PickBest

\* What onboarding finds is backed,
LEMMA FoundIsBacked ==
  ASSUME NEW ollama \in BOOLEAN, NEW id \in Found(disk["auth"], keys, ollama)
  PROVE  Backed(id, Loaded(disk["auth"]), keys)
<1>1. OnboardingEnv \subseteq KeyIds
  BY DEF KeyIds
<1>2. ASSUME NEW oauth \in DiscoverOAuth(disk["auth"])
      PROVE  oauth \in DOMAIN Loaded(disk["auth"]) /\ oauth \in {"copilot", "chatgpt"}
  BY <1>2 DEF DiscoverOAuth, DefaultModelForOAuth
<1> QED
  BY <1>1, <1>2 DEF Found, Backed

\* and the resolver makes a provider of what is, with the exceptions.
LEMMA BackedIsResolved ==
  ASSUME FileTypes, NEW id, NEW store, Backed(id, store, keys),
         NEW ollama, NEW fresh, id \notin Resolved(store, keys, url, ollama, fresh)
  PROVE  id \in {"chatgpt", "custom", "ollama"} \/ (id \in DOMAIN keys /\ ~keys[id])
<1>1. DOMAIN keys \subseteq KeyIds \union {"custom"}
  BY DEF FileTypes, KeyFiles, KeyFileIds
<1>2. Cli \subseteq KeyIds
  BY CredentialsAssumption DEF KeyIds, OnboardingEnv
<1> QED
  BY <1>1, <1>2 DEF Backed, Resolved, KeyProviders

LEMMA ReadyWriting ==
  ASSUME ProcTypes, FileTypes, LoginInv, "auth" \notin overlap, NEW p \in Procs,
         Ready(p), Create(p) \/ Write(p) \/ Rename(p)
  PROVE  Ready(p)'
<1> USE DEF At, Does
<1>1. proc[p].pc \in Writing /\ Shape(proc[p])
  BY DEF Create, Write, Rename, ProcTypes, Writing
<1>2. CASE End(p)
  BY <1>2, EndFacts, NotChosen DEF Becomes, Idle, Chosen, Writing
<1>3. keys' = keys
  BY DEF Create, Write, Rename
<1>4. ASSUME NEW x, Step(p, x)
      PROVE  /\ proc'[p].pc = x /\ proc'[p].file = proc[p].file
             /\ proc'[p].store = proc[p].store /\ proc'[p].then = proc[p].then
             /\ proc'[p].strict = proc[p].strict /\ proc'[p].found = proc[p].found
  BY <1>4, StepFacts DEF Fields
<1>5. CASE Step(p, "write") \/ Step(p, "rename")
  BY <1>1, <1>3, <1>4, <1>5 DEF Ready, Writing
<1>6. CASE proc[p].then \notin {"resolve", "build"} /\ Step(p, proc[p].then)
  BY <1>1, <1>4, <1>6, NotChosen DEF Shape, Chosen, Writing
<1>7. CASE proc[p].then = "build" /\ Step(p, proc[p].then)
  BY <1>1, <1>3, <1>4, <1>7 DEF Ready, Writing
<1>8. CASE proc[p].then = "resolve"
  <2>1. /\ proc[p].file = "auth" /\ proc[p].strict
        /\ Backed(proc[p].found, proc[p].store, keys)
    BY <1>1, <1>8 DEF Ready
  <2>2. CASE AfterFailure(p)
    BY <1>2, <2>1, <2>2 DEF AfterFailure
  <2>3. CASE Rename(p) /\ ~AfterFailure(p)
    <3>1. proc[p].store \in Stores /\ DOMAIN disk = Names
      BY <1>1, <2>1 DEF Shape, FileTypes
    <3>2. temp["auth"] = proc[p].store
      BY <2>1, <2>3 DEF Rename, LoginInv, InHand
    <3>3. disk'["auth"] = proc[p].store /\ Step(p, "resolve")
      BY <1>8, <2>1, <2>3, <3>1, <3>2 DEF Rename, Names
    <3>4. Loaded(disk'["auth"]) = proc[p].store
      BY <3>1, <3>3, StoreIsLoaded
    <3>5. proc'[p].pc = "resolve" /\ proc'[p].found = proc[p].found
      BY <1>4, <3>3
    <3>6. Backed(proc'[p].found, Loaded(disk'["auth"]), keys')
      BY <1>3, <2>1, <3>4, <3>5
    <3> QED
      BY <3>5, <3>6 DEF Ready, Writing
  <2> QED
    BY <1>5, <2>2, <2>3 DEF Create, Write, Rename
<1> QED
  BY <1>2, <1>5, <1>6, <1>7, <1>8 DEF Create, Write, Rename, AfterFailure

LEMMA ReadyFinding ==
  ASSUME ProcTypes, FileTypes, NEW p \in Procs, Ready(p),
         Discover(p) \/ Pick(p) \/ Resolve(p) \/ Build(p) \/ DeviceFlow(p)
  PROVE  Ready(p)'
<1> USE DEF At, Does
<1> DEFINE store == Loaded(disk["auth"])
<1>1. DOMAIN proc[p] = Fields /\ DOMAIN proc = Procs /\ Shape(proc[p])
  BY DEF ProcTypes, Shape
<1>2. CASE End(p)
  BY <1>2, EndFacts, NotChosen DEF Becomes, Idle, Chosen, Writing
<1>3. ASSUME NEW id, proc' = [proc EXCEPT ![p].pc = "resolve", ![p].found = id]
      PROVE  proc'[p].pc = "resolve" /\ proc'[p].found = id
  BY <1>1, <1>3 DEF Fields
<1>4. CASE Discover(p)
  <2>1. UNCHANGED <<disk, keys>>
    BY <1>4 DEF Discover, files
  <2>2. CASE Step(p, "pick")
    BY <2>2, StepFacts, NotChosen DEF Chosen, Writing
  <2>3. ASSUME NEW ollama \in BOOLEAN,
               NEW id \in PickBest(Found(disk["auth"], keys, ollama)),
               proc' = [proc EXCEPT ![p].pc = "resolve", ![p].found = id]
        PROVE  Ready(p)'
    <3>1. Backed(id, store, keys)
      BY PickBestFound, FoundIsBacked
    <3> QED
      BY <1>3, <2>1, <2>3, <3>1 DEF Ready, Writing
  <2> QED
    BY <1>4, <2>2, <2>3 DEF Discover
<1>5. CASE Pick(p)
  <2>1. ASSUME NEW id, Picked(p, id), id \in {"custom", "ollama"} \union DOMAIN keys'
        PROVE  Ready(p)'
    <3>1. proc'[p].pc = "resolve" /\ proc'[p].found = id
      BY <1>3, <2>1 DEF Picked
    <3>2. Backed(id, Loaded(disk'["auth"]), keys')
      BY <2>1 DEF Backed
    <3> QED
      BY <3>1, <3>2 DEF Ready, Writing
  <2>2. CASE SetupOAuth(p)
    <3>1. PICK id \in OAuthIds :
            proc' = [proc EXCEPT ![p].pc = "flow", ![p].what = id, ![p].found = id]
      BY <2>2 DEF SetupOAuth
    <3>2. proc'[p].pc = "flow" /\ proc'[p].what = id /\ proc'[p].found = id
      BY <1>1, <3>1 DEF Fields
    <3> QED
      BY <3>2 DEF Ready, Writing
  <2>3. CASE SetupApiKey(p)
    BY <2>1, <2>3 DEF SetupApiKey, With
  <2>4. CASE proc' = [proc EXCEPT ![p].tries = 1]
    <3>1. proc'[p].pc = "pick"
      BY <1>1, <1>5, <2>4 DEF Pick, Fields
    <3> QED
      BY <3>1, NotChosen DEF Chosen, Writing
  <2> QED
    BY <1>2, <1>5, <2>1, <2>2, <2>3, <2>4 DEF Pick, SetupOllama, SetupCustomProvider
<1>6. CASE Resolve(p)
  <2>1. Backed(proc[p].found, store, keys) /\ UNCHANGED <<disk, keys>>
    BY <1>6 DEF Resolve, Ready, files
  <2>2. PICK fresh \in BOOLEAN, info \in {None, OAuth(now + Life)} :
          LET with == [proc[p] EXCEPT !.pc = "build", !.store = store,
                                      !.fresh = fresh] IN
          proc' = [proc EXCEPT ![p] =
            IF info = None THEN with
            ELSE [with EXCEPT !.pc = "create", !.file = "auth", !.what = "none",
                    !.store = With(store, "chatgpt", info), !.then = "build",
                    !.strict = FALSE, !.fresh = TRUE]]
    <3> DEFINE stale == /\ "chatgpt" \in DOMAIN store
                        /\ store["chatgpt"].type = "oauth"
                        /\ IsExpired(store["chatgpt"], now)
    <3>1. (~stale) \in BOOLEAN
      OBVIOUS
    <3> QED
      BY <1>6, <3>1, Zenon DEF Resolve, OpenaiCodexRefreshToken
  <2>3. CASE info = None
    <3>1. /\ proc'[p].pc = "build" /\ proc'[p].found = proc[p].found
          /\ proc'[p].store = store
      BY <1>1, <2>2, <2>3 DEF Fields
    <3> QED
      BY <2>1, <3>1 DEF Ready, Writing
  <2>4. CASE info # None
    <3>1. /\ proc'[p].pc = "create" /\ proc'[p].then = "build"
          /\ proc'[p].found = proc[p].found
          /\ proc'[p].store = With(store, "chatgpt", info)
      BY <1>1, <2>2, <2>4 DEF Fields
    <3>2. Backed(proc[p].found, With(store, "chatgpt", info), keys)
      BY <2>1 DEF Backed, With
    <3> QED
      BY <2>1, <3>1, <3>2 DEF Ready, Writing
  <2> QED
    BY <2>3, <2>4
<1>7. CASE Build(p)
  <2>1. Backed(proc[p].found, proc[p].store, keys) /\ UNCHANGED keys
    BY <1>7 DEF Build, Ready, files
  <2>2. PICK ollama \in BOOLEAN :
          proc' = [proc EXCEPT
            ![p].pc = IF proc[p].found \notin Resolved(proc[p].store, keys, url,
                                                      ollama, proc[p].fresh)
                      THEN "unavailable"
                      ELSE IF proc[p].do = "start" THEN "announce" ELSE "work",
            ![p].fresh = FALSE, ![p].store = Empty]
    BY <1>7 DEF Build
  <2> DEFINE there == proc[p].found \in Resolved(proc[p].store, keys, url, ollama,
                                                 proc[p].fresh)
  <2>3. CASE ~there
    <3>1. proc'[p].pc = "unavailable" /\ proc'[p].found = proc[p].found
      BY <1>1, <2>2, <2>3 DEF Fields
    <3>2. \/ proc[p].found \in {"chatgpt", "custom", "ollama"}
          \/ (proc[p].found \in DOMAIN keys /\ ~keys[proc[p].found])
      BY <2>1, <2>3, BackedIsResolved
    <3> QED
      BY <2>1, <3>1, <3>2 DEF Ready, Writing
  <2>4. CASE there
    <3>1. proc'[p].pc \in {"announce", "work"}
      BY <1>1, <2>2, <2>4 DEF Fields
    <3> QED
      BY <3>1, NotChosen DEF Chosen, Writing
  <2> QED
    BY <2>3, <2>4
<1>8. CASE DeviceFlow(p) /\ ~End(p)
  <2> DEFINE id == proc[p].what
             with == IF Does(p, "connect") THEN proc[p].store ELSE store
             then == IF Does(p, "connect") THEN "done" ELSE "resolve"
  <2>1. PICK info : Saving(p, "auth", With(with, id, info), then, TRUE)
    BY <1>8 DEF DeviceFlow
  <2>2. /\ proc'[p].pc = "create" /\ proc'[p].file = "auth" /\ proc'[p].then = then
        /\ proc'[p].store = With(with, id, info) /\ proc'[p].strict
        /\ proc'[p].found = proc[p].found
    BY <1>1, <2>1 DEF Saving, Fields
  <2>3. CASE Does(p, "connect")
    BY <2>2, <2>3, NotChosen DEF Writing
  <2>4. CASE ~Does(p, "connect")
    <3>1. proc[p].found = id /\ id \in OAuthIds /\ UNCHANGED keys
      BY <1>1, <1>8, <2>4 DEF DeviceFlow, Ready, Shape, files
    <3>2. Backed(id, With(with, id, info), keys)
      BY <3>1 DEF Backed, With, OAuthIds
    <3> QED
      BY <2>2, <2>4, <3>1, <3>2 DEF Ready, Writing
  <2> QED
    BY <2>3, <2>4
<1> QED
  BY <1>2, <1>4, <1>5, <1>6, <1>7, <1>8

\* No other step chooses a provider.
LEMMA ReadyOthers ==
  ASSUME ProcTypes, FileTypes, OtherTypes, NEW p \in Procs, ProcessStep(p),
         ~(Create(p) \/ Write(p) \/ Rename(p)),
         ~(Discover(p) \/ Pick(p) \/ Resolve(p) \/ Build(p) \/ DeviceFlow(p))
  PROVE  Ready(p)'
<1> USE DEF At, Does
<1>1. Idle.pc = "idle"
  BY DEF Idle
<1>2. DOMAIN proc[p] = Fields /\ DOMAIN proc = Procs
  BY DEF ProcTypes, Shape
<1>3. CASE End(p)
  BY <1>1, <1>3, EndFacts, NotChosen DEF Becomes, Chosen, Writing
<1>4. CASE SkillAction(p)
  BY <1>1, <1>4, SkillMoves, NotChosen DEF Goes, Becomes, Chosen, Writing
<1>5. CASE UpdateAction(p)
  BY <1>1, <1>5, UpdateMoves, NotChosen DEF Goes, Becomes, Chosen, Writing
<1>6. CASE DaemonAction(p)
  BY <1>1, <1>6, DaemonMoves, NotChosen DEF Goes, Becomes, Chosen, Writing, KillsAnother
<1>7. CASE \E c \in offered : Begin(p, c)
  BY <1>7, BeginStep, NotChosen DEF Chosen, Writing
<1>8. ASSUME NEW x \in {"done", "migrate", "discover", "backup", "evolved"},
             Step(p, x)
      PROVE  Ready(p)'
  BY <1>8, StepFacts, NotChosen DEF Chosen, Writing
<1>9. ASSUME NEW f, NEW store, NEW then \in {"done", "discover"}, NEW strict,
             Saving(p, f, store, then, strict)
      PROVE  Ready(p)'
  BY <1>9, SavingFacts, NotChosen DEF Writing
<1>10. CASE ConnectOAuth(p)
  <2>1. CASE proc' = [proc EXCEPT ![p].pc = "flow", ![p].store = Loaded(disk["auth"])]
    <3>1. proc'[p].pc = "flow" /\ proc'[p].do = proc[p].do
      BY <1>2, <2>1 DEF Fields
    <3> QED
      BY <1>10, <3>1 DEF ConnectOAuth, Ready, Writing
  <2> QED
    BY <1>3, <1>10, <2>1 DEF ConnectOAuth
<1>11. CASE DisconnectAll(p) \/ NextLogin(p)
  <2>1. PICK id \in {"copilot", "chatgpt"}, store \in Stores : RemoveLogin(p, id, store)
    BY <1>11, LoadedType DEF DisconnectAll, NextLogin, ProcTypes, Shape, FileTypes
  <2>2. \/ proc'[p].pc = "all"
        \/ proc'[p].pc = "create" /\ proc'[p].then = "all"
    BY <2>1, RemoveFacts
  <2> QED
    BY <2>2, NotChosen DEF Chosen, Writing
<1>12. CASE ConnectKey(p) \/ RemoveRest(p) \/ RunTask(p) \/ Evolve(p) \/ BackUpSoul(p)
            \/ WriteSoul(p) \/ Finish(p) \/ Die(p)
  BY <1>3, <1>8, <1>12
     DEF ConnectKey, RemoveRest, RunTask, Evolve, BackUpSoul, WriteSoul, Finish, Die
<1>13. CASE ConnectApp(p) \/ ConnectEmail(p)
  BY <1>3, <1>9, <1>13 DEF ConnectApp, ConnectEmail
<1>14. CASE DisconnectOAuth(p) \/ DisconnectKey(p)
  BY <1>3, <1>8, <1>9, <1>14 DEF DisconnectOAuth, DisconnectKey
<1>15. CASE MigrateKeys(p)
  BY <1>8, <1>9, <1>15 DEF MigrateKeys
<1> QED
  BY <1>4, <1>5, <1>6, <1>7, <1>10, <1>11, <1>12, <1>13, <1>14, <1>15, StepKinds
     DEF QuietAction

LEMMA ReadyStep ==
  ASSUME ProcTypes, FileTypes, OtherTypes, LoginInv, ReadyInv, Next,
         NEW r \in Procs, ProcessStep(r)
  PROVE  ReadyInv'
<1> SUFFICES ASSUME NEW p \in Procs, p \notin moved', "auth" \notin overlap'
             PROVE  Ready(p)'
  BY DEF ReadyInv
<1>1. CASE proc'[p].pc \in {"idle", "discover"}
  BY <1>1, NotChosen DEF Chosen, Writing
<1>2. CASE proc'[p].pc \notin {"idle", "discover"}
  <2>1. /\ p \notin moved
        /\ proc'[p] = proc[p] => UNCHANGED <<disk["auth"], keys, url>>
    BY <1>2 DEF Next
  <2>2. "auth" \notin overlap /\ Ready(p)
    BY <2>1, ApartStep DEF ReadyInv
  <2>3. CASE proc'[p] = proc[p]
    BY <2>1, <2>2, <2>3 DEF Ready, At, Does
  <2>4. CASE p = r
    BY <2>2, <2>4, ReadyWriting, ReadyFinding, ReadyOthers
  <2>5. CASE p # r /\ proc'[p] # proc[p]
    <3>1. CASE DaemonAction(r) /\ KillsAnother(r)
      <4>1. proc'[p] = Idle \/ proc'[p].pc = "daemon"
        BY <2>5, <3>1 DEF KillsAnother, Fields
      <4> QED
        BY <4>1, NotChosen DEF Idle, Chosen, Writing
    <3> QED
      BY <2>5, <3>1, StepKinds, QuietSteps, SkillMoves, UpdateMoves, DaemonMoves,
         BeginStep DEF Quiet, Goes, Becomes
  <2> QED
    BY <2>3, <2>4, <2>5
<1> QED
  BY <1>1, <1>2

-----------------------------------------------------------------------------
(* The inductive invariant *)

IInv ==
  /\ FileTypes /\ OtherTypes /\ ProcTypes /\ Apart
  /\ SkillInv /\ ExeInv /\ PidInv /\ LoginInv /\ ReadyInv

LEMMA Initially ==
  ASSUME Init
  PROVE  IInv
<1>1. proc = [p \in Procs |-> Idle] /\ logins = {} /\ pid = None
  BY DEF Init
<1>2. FileTypes
  <2>1. PICK auth \in Earlier : disk = [auth |-> auth, apps |-> NoFile]
    BY DEF Init
  <2>2. auth \in Stores \union {NoFile, Torn}
    BY HomeAssumption DEF IsStore, Stores
  <2>3. keys \in KeyFiles
    <3>1. keys = [id \in {} |-> TRUE] /\ {} \in SUBSET KeyFileIds
      BY DEF Init
    <3>2. keys \in [{} -> BOOLEAN]
      BY <3>1
    <3> QED
      BY <3>1, <3>2 DEF KeyFiles
  <2>4. now = 0 /\ temp = [auth |-> NoFile, apps |-> NoFile]
    BY DEF Init
  <2> QED
    BY <2>1, <2>2, <2>3, <2>4 DEF FileTypes, Names
<1>3. OtherTypes
  <2>1. /\ dirs = [s \in Skills |-> [proposed |-> "whole", user |-> "none"]]
        /\ exe = [file |-> 1, new |-> 0, bak |-> 0]
    BY DEF Init
  <2> QED
    BY <1>1, <2>1 DEF OtherTypes
<1>4. ProcTypes
  BY <1>1, IdleShape DEF ProcTypes
<1>5. \A p \in Procs : proc[p].pc = "idle" /\ proc[p].do = "none" /\ ~proc[p].stopping
  BY <1>1 DEF Idle
<1>6. Apart
  BY <1>5 DEF Apart, Holds, At, Does
<1>7. SkillInv
  BY <1>5 DEF Init, SkillInv, SkillKept, SkillMoving
<1>8. ExeInv
  <2>1. exe.file > 0
    BY DEF Init
  <2>2. \A p \in Procs : ~Does(p, "update")
    BY <1>5 DEF Does
  <2> QED
    BY <2>1, <2>2 DEF ExeInv, ExecutableKept, Replacing
<1>9. PidInv
  BY <1>5 DEF PidInv, At
<1>10. LoginInv
  BY <1>1, <1>5 DEF LoginInv, LoginsSurvive, InHand, Between, At, Does, Writing
<1>11. ReadyInv
  BY <1>5 DEF ReadyInv, Ready, At, Does, Writing
<1> QED
  BY <1>2, <1>3, <1>4, <1>6, <1>7, <1>8, <1>9, <1>10, <1>11 DEF IInv

\* Time and stuttering leave all of it.
LEMMA StillInv ==
  ASSUME IInv, UNCHANGED <<disk, temp, keys, pid, dirs, exe, proc, logins, dismissed>>,
         now' \in Nat, overlap \subseteq overlap', Apart', ReadyInv'
  PROVE  IInv'
<1>1. FileTypes' /\ OtherTypes' /\ ProcTypes'
  BY DEF IInv, FileTypes, OtherTypes, ProcTypes
<1>2. SkillInv' /\ ExeInv'
  BY DEF IInv, SkillInv, SkillKept, SkillMoving, ExeInv, ExecutableKept, Replacing, Does
<1>3. PidInv'
  BY PidAlone DEF IInv
<1>4. LoginInv'
  BY LoginMove DEF IInv, AuthKept
<1> QED
  BY <1>1, <1>2, <1>3, <1>4 DEF IInv

\* Every reachable state satisfies the invariant.
THEOREM Invariance == Spec => []IInv
<1>1. Init => IInv
  BY Initially
<1>2. IInv /\ [Next]_vars => IInv'
  <2> SUFFICES ASSUME IInv, [Next]_vars PROVE IInv'
    OBVIOUS
  <2>1. CASE UNCHANGED vars
    <3>1. UNCHANGED <<now, disk, temp, keys, url, pid, dirs, exe, proc, logins, dismissed,
                      moved, overlap>>
      BY <2>1 DEF vars
    <3>2. Apart'
      BY <3>1 DEF IInv, Apart, Holds, At, Does
    <3>3. ReadyInv'
      BY <3>1 DEF IInv, ReadyInv, Ready, At, Does
    <3> QED
      BY <3>1, <3>2, <3>3, StillInv DEF IInv, FileTypes
  <2>2. CASE Next
    <3>1. Apart' /\ overlap \subseteq overlap'
      BY <2>2, ApartStep
    <3>2. CASE Tick
      <4>1. /\ UNCHANGED <<disk, temp, keys, url, pid, dirs, exe, proc, logins, dismissed>>
            /\ now' = now + 1
        BY <3>2 DEF Tick, files, rest
      <4>2. ReadyInv'
        <5> SUFFICES ASSUME NEW p \in Procs, p \notin moved', "auth" \notin overlap'
                     PROVE  Ready(p)'
          BY DEF ReadyInv
        <5>1. CASE proc'[p].pc \in {"idle", "discover"}
          BY <5>1, NotChosen DEF Chosen, Writing
        <5>2. CASE proc'[p].pc \notin {"idle", "discover"}
          <6>1. p \notin moved /\ "auth" \notin overlap
            BY <2>2, <3>1, <5>2 DEF Next
          <6> QED
            BY <4>1, <6>1 DEF IInv, ReadyInv, Ready, At, Does
        <5> QED
          BY <5>1, <5>2
      <4>3. now' \in Nat
        BY <4>1 DEF IInv, FileTypes
      <4> QED
        BY <3>1, <4>1, <4>2, <4>3, StillInv
    <3>3. ASSUME NEW p \in Procs, ProcessStep(p) PROVE IInv'
      <4>1. /\ ProcTypes /\ FileTypes /\ OtherTypes /\ Apart
            /\ SkillInv /\ ExeInv /\ PidInv /\ LoginInv /\ ReadyInv
        BY DEF IInv
      <4>2. ProcTypes' /\ FileTypes' /\ OtherTypes'
        BY <3>3, <4>1, ProcStep, FileStep, OtherStep
      <4>3. SkillInv' /\ ExeInv' /\ PidInv'
        BY <3>1, <3>3, <4>1, SkillStep, ExeStep, PidStep
      <4>4. LoginInv' /\ ReadyInv'
        BY <2>2, <3>1, <3>3, <4>1, LoginStep, ReadyStep
      <4> QED
        BY <3>1, <4>2, <4>3, <4>4 DEF IInv
    <3> QED
      BY <2>2, <3>2, <3>3 DEF Next
  <2> QED
    BY <2>1, <2>2
<1> QED
  BY <1>1, <1>2, PTL DEF Spec

-----------------------------------------------------------------------------
(* What it shows *)

\* auth.json, its temporary file and the key files hold what they may, and a
\* process is where a command of its kind can be.
THEOREM TypeCorrect == Spec => [](FileTypes /\ OtherTypes /\ ProcTypes)
<1>1. IInv => FileTypes /\ OtherTypes /\ ProcTypes
  BY DEF IInv
<1> QED
  BY <1>1, Invariance, PTL

\* A saved login stays until it is disconnected, wherever a command dies or
\* fails, as long as no two commands had a copy of auth.json to write at once
\* (auth/mod.rs:153-168, connect.rs:274-281).
THEOREM LoginsKept == Spec => []LoginsSurvive
<1>1. IInv => LoginsSurvive
  BY DEF IInv, LoginInv
<1> QED
  BY <1>1, Invariance, PTL

\* A provider that onboarding found is one the resolver builds
\* (main.rs:130-156).
THEOREM ProviderReady == Spec => []ReadyIsUsable
<1>1. IInv => ReadyIsUsable
  BY DEF IInv, ReadyInv, Ready, ReadyIsUsable
<1> QED
  BY <1>1, Invariance, PTL

\* A proposed skill is whole in one directory wherever an approval dies
\* (cli/learn.rs:171).
THEOREM SkillSafe == Spec => []SkillKept
<1>1. IInv => SkillKept
  BY DEF IInv, SkillInv
<1> QED
  BY <1>1, Invariance, PTL

\* An update that dies leaves an executable (cli/update.rs:174-191).
THEOREM ExecutableSafe == Spec => []ExecutableKept
<1>1. IInv => ExecutableKept
  BY DEF IInv, ExeInv
<1> QED
  BY <1>1, Invariance, PTL

\* At most one daemon runs (main.rs:526, 610).
THEOREM SingleDaemon == Spec => []OneDaemon
<1>1. ASSUME IInv, "pid" \notin overlap
      PROVE  Cardinality({p \in Procs : At(p, "daemon")}) <= 1
  <2> DEFINE daemons == {p \in Procs : At(p, "daemon")}
  <2>1. \A p, q \in daemons : p = q
    BY <1>1 DEF IInv, PidInv
  <2>2. CASE daemons = {}
    BY <2>2, FS_EmptySet
  <2>3. CASE daemons # {}
    <3>1. PICK p : daemons = {p}
      BY <2>1, <2>3
    <3> QED
      BY <3>1, FS_Singleton
  <2> QED
    BY <2>2, <2>3
<1>2. IInv => OneDaemon
  BY <1>1 DEF OneDaemon
<1> QED
  BY <1>2, Invariance, PTL

=============================================================================
