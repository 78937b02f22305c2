-------------------------------- MODULE Home --------------------------------
(***************************************************************************)
(* The directory ~/.openkoi as the commands of several openkoi processes   *)
(* change it: auth.json and integrations.json, read whole and written      *)
(* whole through one temporary file each, the key files, the PID file of   *)
(* the daemon, the skill directories, the soul, and the executable that an *)
(* update replaces.  A command is one process; its steps interleave with   *)
(* those of the others, and it may die between any two of them.            *)
(*                                                                         *)
(* A process is named by its PID, which the system may give again.         *)
(***************************************************************************)
EXTENDS Credentials

CONSTANTS
  Procs,       \* PIDs
  Offers,      \* the sets of commands, [do, what], that meet in a behaviour
  Skills,      \* skills that are proposed at first
  Earlier,     \* what earlier commands may have left of auth.json
  Pasted,      \* providers whose key a user may paste into the picker
  Life,        \* how long a ChatGPT token lives
  None,        \* no PID, no provider
  MaxNow,      \* bound: the clock
  MaxCommands  \* bound: commands begun

ASSUME HomeAssumption ==
  /\ Life \in Nat /\ MaxNow \in Nat /\ MaxCommands \in Nat
  /\ None \notin Procs
  /\ \A auth \in Earlier : auth \in {NoFile, Torn} \/ IsStore(auth)
  /\ Pasted \subseteq {"anthropic", "openai", "openrouter"}

VARIABLES
  now,      \* seconds
  disk,     \* file -> auth.json and integrations.json
  temp,     \* file -> their temporary files
  keys,     \* credentials/*.key: id -> whether there is a key in it
  url,      \* whether credentials/custom.url is there
  pid,      \* daemon.pid
  dirs,     \* skill -> its SKILL.md in the proposed and the user directory
  soul,     \* SOUL.md and its backup: versions, 0 for none, -1 for cut short
  exe,      \* the executable, its replacement and its backup, likewise
  proc,     \* PID -> what the process is at
  offered,  \* the commands of this behaviour
  begun,    \* commands begun
  logins,   \* history: providers connected and not disconnected since
  dismissed, \* history: skills a user dismissed
  moved,    \* history: processes whose providers changed behind their back
  overlap   \* history: resources two commands worked on at once

files == <<disk, temp, keys, url>>
vars == <<now, disk, temp, keys, url, pid, dirs, soul, exe, proc, offered, begun,
          logins, dismissed, moved, overlap>>

Idle == [pc |-> "idle", do |-> "none", what |-> "none", store |-> Empty,
         file |-> "none", then |-> "none", strict |-> TRUE, found |-> "none",
         target |-> None, tries |-> 0, fresh |-> FALSE,
         stopping |-> FALSE]

Init ==
  /\ now = 0
  /\ \E auth \in Earlier : disk = [auth |-> auth, apps |-> NoFile]
  /\ temp = [auth |-> NoFile, apps |-> NoFile]
  /\ keys = [id \in {} |-> TRUE]
  /\ url = FALSE
  /\ pid = None
  /\ dirs = [s \in Skills |-> [proposed |-> "whole", user |-> "none"]]
  /\ soul = [file |-> 1, bak |-> 0]
  /\ exe = [file |-> 1, new |-> 0, bak |-> 0]
  /\ proc = [p \in Procs |-> Idle]
  /\ offered \in Offers
  /\ begun = 0
  /\ logins = {}
  /\ dismissed = {}
  /\ moved = {}
  /\ overlap = {}

At(p, pc) == proc[p].pc = pc
Alive(p) == ~At(p, "idle")
Does(p, do) == proc[p].do = do
Step(p, pc) == proc' = [proc EXCEPT ![p].pc = pc]
End(p) == proc' = [proc EXCEPT ![p] = Idle]

rest == <<dirs, soul, exe, dismissed>>

-----------------------------------------------------------------------------
(* Writing auth.json and integrations.json *)

\* The process goes on to write its copy of a file; `strict` when a failure
\* ends the command.
Saving(p, f, store, then, strict) ==
  proc' = [proc EXCEPT ![p].pc = "create", ![p].file = f, ![p].store = store,
                       ![p].then = then, ![p].strict = strict]

\* Where a process goes when a step of a save failed.
AfterFailure(p) == IF proc[p].strict THEN End(p) ELSE Step(p, proc[p].then)

CreateInPlaceMutant(p) ==
  /\ At(p, "create")
  /\ disk' = [disk EXCEPT ![proc[p].file] = Torn]
  /\ temp' = [temp EXCEPT ![proc[p].file] = Torn]
  /\ Step(p, "write")
  /\ UNCHANGED <<now, keys, url, pid, begun, logins, rest>>

\* fs::write creates or truncates the temporary file,
Create(p) ==
  /\ At(p, "create")
  /\ \/ temp' = [temp EXCEPT ![proc[p].file] = Torn] /\ Step(p, "write")
     \/ AfterFailure(p) /\ UNCHANGED temp
  /\ UNCHANGED <<now, disk, keys, url, pid, begun, logins, rest>>

\* and fills it, wherever another process has renamed it to by then,
Write(p) ==
  LET f == proc[p].file IN
  /\ At(p, "write")
  /\ \/ /\ IF temp[f] = NoFile
           THEN disk' = [disk EXCEPT ![f] = proc[p].store] /\ UNCHANGED temp
           ELSE temp' = [temp EXCEPT ![f] = proc[p].store] /\ UNCHANGED disk
        /\ Step(p, "rename")
     \/ AfterFailure(p) /\ UNCHANGED <<disk, temp>>
  /\ UNCHANGED <<now, keys, url, pid, begun, logins, rest>>

\* What a rename of the temporary file makes of the logins (history only).
LoginsAfter(p, file) ==
  IF Does(p, "disconnect") THEN logins \ {proc[p].what}
  ELSE IF proc[p].what \in OAuthIds \intersect DOMAIN Loaded(file)
       THEN logins \union {proc[p].what} ELSE logins

\* and it is renamed over the file; without one, rename fails.
Rename(p) ==
  LET f == proc[p].file IN
  /\ At(p, "rename")
  /\ IF temp[f] = NoFile
     THEN AfterFailure(p) /\ UNCHANGED <<disk, temp, logins>>
     ELSE /\ disk' = [disk EXCEPT ![f] = temp[f]]
          /\ temp' = [temp EXCEPT ![f] = NoFile]
          /\ Step(p, proc[p].then)
          /\ logins' = IF f = "auth" THEN LoginsAfter(p, temp[f]) ELSE logins
  /\ UNCHANGED <<now, keys, url, pid, begun, rest>>

-----------------------------------------------------------------------------
(* connect and disconnect *)

\* connect_provider_oauth reads the store before the login; a user who is
\* logged in already may leave it at that.
ConnectOAuth(p) ==
  LET store == Loaded(disk["auth"])
      id == proc[p].what IN
  /\ At(p, "begin") /\ Does(p, "connect") /\ id \in OAuthIds
  /\ \/ proc' = [proc EXCEPT ![p].pc = "flow", ![p].store = store]
     \/ id \in DOMAIN store /\ ~IsExpired(store[id], now) /\ End(p)
  /\ UNCHANGED <<now, files, pid, begun, logins, rest>>

\* What a device flow may end with: it polls until the user has answered, the
\* code expires, ten minutes are over or a request fails.  GitHub's credential
\* does not expire.
GithubDeviceCodeFlow == {None, OAuth(0)}
OpenaiCodexDeviceFlow == {None, OAuth(now + Life)}

\* connect puts the login into the store it read before, the picker into one it
\* reads now.
DeviceFlow(p) ==
  LET id == proc[p].what
      store == IF Does(p, "connect") THEN proc[p].store
               ELSE Loaded(disk["auth"])
      then == IF Does(p, "connect") THEN "done" ELSE "resolve" IN
  /\ At(p, "flow")
  /\ \E info \in IF id = "copilot" THEN GithubDeviceCodeFlow
                 ELSE OpenaiCodexDeviceFlow :
       IF info = None THEN End(p)
       ELSE Saving(p, "auth", With(store, id, info), then, TRUE)
  /\ UNCHANGED <<now, files, pid, begun, logins, rest>>

\* connect_api_key_provider: a key that is not empty, though it may be blank.
ConnectKey(p) ==
  /\ At(p, "begin") /\ Does(p, "connect") /\ proc[p].what \in KeyIds
  /\ \/ \E full \in BOOLEAN : keys' = With(keys, proc[p].what, full)
     \/ UNCHANGED keys
  /\ End(p)
  /\ UNCHANGED <<now, disk, temp, url, pid, begun, logins, rest>>

\* connect_integration: a token, over the one there is.
ConnectApp(p) ==
  LET creds == LoadedApps(disk["apps"])
      app == proc[p].what IN
  /\ At(p, "begin") /\ Does(p, "connect")
  /\ app \notin OAuthIds \union KeyIds \union {"email"}
  /\ \/ \E splits \in BOOLEAN : \E new \in SetToken(creds, app, splits) :
          Saving(p, "apps", new, "done", TRUE)
     \/ End(p)
  /\ UNCHANGED <<now, files, pid, begun, logins, rest>>

\* connect_email asks only when there is no address yet.
ConnectEmail(p) ==
  LET creds == LoadedApps(disk["apps"]) IN
  /\ At(p, "begin") /\ Does(p, "connect") /\ proc[p].what = "email"
  /\ \/ /\ ~HasCredentials(creds, "email")
        /\ \E new \in SetToken(creds, "email", TRUE) :
             Saving(p, "apps", new, "done", TRUE)
     \/ End(p)
  /\ UNCHANGED <<now, files, pid, begun, logins, rest>>

\* disconnect_provider
DisconnectOAuth(p) ==
  LET store == Loaded(disk["auth"])
      id == proc[p].what IN
  /\ At(p, "begin") /\ Does(p, "disconnect") /\ id \in OAuthIds
  /\ IF id \in DOMAIN store
     THEN Saving(p, "auth", Without(store, id), "done", TRUE) ELSE End(p)
  /\ UNCHANGED <<now, files, pid, begun, logins, rest>>

\* disconnect_api_key: the key file, and the entry migrated from one only when
\* there is no file.
DisconnectKey(p) ==
  LET store == Loaded(disk["auth"])
      id == proc[p].what IN
  /\ At(p, "begin") /\ Does(p, "disconnect") /\ id \in DisconnectIds
  /\ IF id \in DOMAIN keys
     THEN keys' = Without(keys, id) /\ End(p)
     ELSE /\ UNCHANGED keys
          /\ IF id \in DOMAIN store
             THEN Saving(p, "auth", Without(store, id), "done", TRUE) ELSE End(p)
  /\ UNCHANGED <<now, disk, temp, url, pid, begun, logins, rest>>

\* One login of `disconnect all`, whose copy of auth.json is `store`.
RemoveLogin(p, id, store) ==
  LET without == [proc[p] EXCEPT !.what = id, !.store = Without(store, id)] IN
  proc' = [proc EXCEPT ![p] =
    IF id \notin DOMAIN store THEN [without EXCEPT !.pc = "all"]
    ELSE [without EXCEPT !.pc = "create", !.file = "auth", !.then = "all",
                         !.strict = TRUE]]

\* `disconnect all` reads auth.json once and saves that copy after each of the two
\* logins it removes from it;
DisconnectAll(p) ==
  /\ At(p, "begin") /\ Does(p, "disconnect") /\ proc[p].what = "all"
  /\ RemoveLogin(p, "copilot", Loaded(disk["auth"]))
  /\ UNCHANGED <<now, files, pid, begun, logins, rest>>

NextLogin(p) ==
  /\ At(p, "all") /\ proc[p].what = "copilot"
  /\ RemoveLogin(p, "chatgpt", proc[p].store)
  /\ UNCHANGED <<now, files, pid, begun, logins, rest>>

\* then it removes the key files it knows of, the address of the custom provider
\* and the integrations; the keys that were migrated into auth.json stay.
RemoveRest(p) ==
  /\ At(p, "all") /\ proc[p].what = "chatgpt"
  /\ keys' = [id \in DOMAIN keys \ DisconnectIds |-> keys[id]]
  /\ url' = FALSE
  /\ disk' = [disk EXCEPT !["apps"] = NoFile]
  /\ End(p)
  /\ UNCHANGED <<now, temp, pid, begun, logins, rest>>

-----------------------------------------------------------------------------
(* Finding a provider: a task, and the start of the daemon *)

IsDaemonRunningMutant == FALSE

\* kill -0 of the PID in the file.
IsDaemonRunning == pid # None /\ Alive(pid)

\* daemon start: not when one is running, nor without integrations.
StartDaemon(p) ==
  /\ At(p, "begin") /\ Does(p, "start")
  /\ IF IsDaemonRunning \/ Adapters(LoadedApps(disk["apps"])) = {}
        \/ disk["apps"] = Torn
     THEN End(p) ELSE Step(p, "migrate")
  /\ UNCHANGED <<now, files, pid, begun, logins, rest>>

RunTask(p) ==
  /\ At(p, "begin") /\ Does(p, "run")
  /\ Step(p, "migrate")
  /\ UNCHANGED <<now, files, pid, begun, logins, rest>>

\* ensure_ready copies key files into auth.json, failures ignored,
MigrateKeys(p) ==
  LET store == Loaded(disk["auth"])
      all == Migrated(store, keys) IN
  /\ At(p, "migrate")
  /\ IF all # store THEN Saving(p, "auth", all, "discover", FALSE)
     ELSE Step(p, "discover")
  /\ UNCHANGED <<now, files, pid, begun, logins, rest>>

\* looks for credentials and takes the best provider, or asks.
Discover(p) ==
  /\ At(p, "discover")
  /\ \E ollama \in BOOLEAN :
       LET found == Found(disk["auth"], keys, ollama) IN
       IF found = {} THEN Step(p, "pick")
       ELSE \E id \in PickBest(found) :
              proc' = [proc EXCEPT ![p].pc = "resolve", ![p].found = id]
  /\ UNCHANGED <<now, files, pid, begun, logins, rest>>

Picked(p, id) == proc' = [proc EXCEPT ![p].pc = "resolve", ![p].found = id]

SetupOAuth(p) ==
  /\ \E id \in OAuthIds :
       proc' = [proc EXCEPT ![p].pc = "flow", ![p].what = id, ![p].found = id]
  /\ UNCHANGED <<keys, url>>

\* A pasted key, which may be empty.
SetupApiKey(p) ==
  /\ \E id \in Pasted, full \in BOOLEAN :
       keys' = With(keys, id, full) /\ Picked(p, id)
  /\ UNCHANGED url

\* Ollama must answer and have a model.
SetupOllama(p) == (Picked(p, "ollama") \/ End(p)) /\ UNCHANGED <<keys, url>>

\* Any address, with or without a key.
SetupCustomProvider(p) ==
  /\ \E k \in {keys, With(keys, "custom", TRUE)} : keys' = k
  /\ url' = TRUE
  /\ Picked(p, "custom")

\* pick_provider asks a second time when it is cancelled.
Pick(p) ==
  /\ At(p, "pick")
  /\ \/ SetupOAuth(p) \/ SetupApiKey(p) \/ SetupOllama(p) \/ SetupCustomProvider(p)
     \/ /\ IF proc[p].tries = 1 THEN End(p)
           ELSE proc' = [proc EXCEPT ![p].tries = 1]
        /\ UNCHANGED <<keys, url>>
  /\ UNCHANGED <<now, disk, temp, pid, begun, logins, rest>>

\* What a refresh of the ChatGPT token may end with.
OpenaiCodexRefreshToken == {None, OAuth(now + Life)}

\* The resolver refreshes an expired ChatGPT token and saves it, failures
\* ignored; the provider is built either way if the refresh succeeded.
Resolve(p) ==
  LET store == Loaded(disk["auth"])
      stale == /\ "chatgpt" \in DOMAIN store
               /\ store["chatgpt"].type = "oauth"
               /\ IsExpired(store["chatgpt"], now)
      with == [proc[p] EXCEPT !.pc = "build", !.store = store,
                              !.fresh = ~stale] IN
  /\ At(p, "resolve")
  /\ \E info \in IF stale THEN OpenaiCodexRefreshToken ELSE {None} :
       proc' = [proc EXCEPT ![p] =
         IF info = None THEN with
         ELSE [with EXCEPT !.pc = "create", !.file = "auth", !.what = "none",
                 !.store = With(store, "chatgpt", info), !.then = "build",
                 !.strict = FALSE, !.fresh = TRUE]]
  /\ UNCHANGED <<now, files, pid, begun, logins, rest>>

\* find_provider: the provider onboarding named must be one the resolver built.
Build(p) ==
  /\ At(p, "build")
  /\ \E ollama \in BOOLEAN :
       LET there == Resolved(proc[p].store, keys, url, ollama,
                             proc[p].fresh) IN
       proc' = [proc EXCEPT
         ![p].pc = IF proc[p].found \notin there THEN "unavailable"
                   ELSE IF Does(p, "start") THEN "announce" ELSE "work",
         ![p].fresh = FALSE, ![p].store = Empty]
  /\ UNCHANGED <<now, files, pid, begun, logins, rest>>

-----------------------------------------------------------------------------
(* The daemon's PID file *)

WritePid(p) ==
  /\ At(p, "announce")
  /\ pid' = p
  /\ Step(p, "daemon")
  /\ UNCHANGED <<now, files, begun, logins, rest>>

\* run_daemon returns after a signal, and removes whatever file is there.
DaemonReturns(p) ==
  /\ At(p, "daemon")
  /\ pid' = None
  /\ End(p)
  /\ UNCHANGED <<now, files, begun, logins, rest>>

\* daemon stop: the PID in the file,
StopReads(p) ==
  /\ At(p, "begin") /\ Does(p, "stop")
  /\ IF pid = None THEN End(p)
     ELSE proc' = [proc EXCEPT ![p].pc = "kill", ![p].target = pid]
  /\ UNCHANGED <<now, files, pid, begun, logins, rest>>

\* then, if a process has the one in the file now, SIGTERM to the one read: a
\* daemon ends when it gets to it, any other process at once.  The file is
\* removed without waiting.
StopKills(p) ==
  LET t == proc[p].target IN
  /\ At(p, "kill")
  /\ IF ~IsDaemonRunning THEN pid' = None /\ End(p)
     ELSE IF ~Alive(t) \/ t = p THEN End(p) /\ UNCHANGED pid
     ELSE /\ pid' = None
          /\ proc' = [proc EXCEPT ![p] = Idle,
                        ![t] = IF At(t, "daemon") THEN [@ EXCEPT !.stopping = TRUE]
                               ELSE Idle]
  /\ UNCHANGED <<now, files, begun, logins, rest>>

-----------------------------------------------------------------------------
(* learn: proposed skills and the soul *)

state == <<now, files, pid, begun, logins>>

\* approve_proposed_skill copies what is left of the proposed directory, file by
\* file,
Approve(p) ==
  LET s == proc[p].what IN
  /\ At(p, "begin") /\ Does(p, "approve")
  /\ IF dirs[s].proposed = "none" THEN End(p) ELSE Step(p, "copy")
  /\ dirs' = IF dirs[s].proposed = "whole" THEN [dirs EXCEPT ![s].user = "cut"]
             ELSE dirs
  /\ UNCHANGED <<state, soul, exe, dismissed>>

RemoveFirstMutant(p) ==
  /\ At(p, "copy")
  /\ dirs' = [dirs EXCEPT ![proc[p].what].proposed = "empty"]
  /\ Step(p, "removing")
  /\ UNCHANGED <<state, soul, exe, dismissed>>

\* fails if it is gone by now,
Copy(p) ==
  LET s == proc[p].what IN
  /\ At(p, "copy")
  /\ IF dirs[s].proposed = "none" THEN End(p) ELSE Step(p, "remove")
  /\ dirs' = IF dirs[s].user = "cut" /\ dirs[s].proposed = "whole"
             THEN [dirs EXCEPT ![s].user = "whole"] ELSE dirs
  /\ UNCHANGED <<state, soul, exe, dismissed>>

\* and removes the proposed directory, its files first.
RemoveProposed(p) ==
  /\ At(p, "remove")
  /\ dirs' = [dirs EXCEPT ![proc[p].what].proposed = "empty"]
  /\ Step(p, "removing")
  /\ UNCHANGED <<state, soul, exe, dismissed>>

Removed(p) ==
  /\ At(p, "removing")
  /\ dirs' = [dirs EXCEPT ![proc[p].what].proposed = "none"]
  /\ End(p)
  /\ UNCHANGED <<state, soul, exe, dismissed>>

Dismiss(p) ==
  LET s == proc[p].what IN
  /\ At(p, "begin") /\ Does(p, "dismiss")
  /\ IF dirs[s].proposed = "none" THEN End(p) ELSE Step(p, "remove")
  /\ dismissed' = dismissed \union {s}
  /\ UNCHANGED <<state, dirs, soul, exe>>

\* evolve_soul, when an evolution is proposed and applied: the file is copied
\* over the backup,
Evolve(p) ==
  /\ At(p, "begin") /\ Does(p, "evolve")
  /\ \/ /\ soul' = IF soul.file = 0 THEN soul ELSE [soul EXCEPT !.bak = -1]
        /\ Step(p, "backup")
     \/ End(p) /\ UNCHANGED soul
  /\ UNCHANGED <<state, dirs, exe, dismissed>>

BackUpSoul(p) ==
  /\ At(p, "backup")
  /\ soul' = [file |-> -1, bak |-> IF soul.file = 0 THEN soul.bak ELSE soul.file]
  /\ Step(p, "evolved")
  /\ UNCHANGED <<state, dirs, exe, dismissed>>

\* then written anew.
WriteSoul(p) ==
  /\ At(p, "evolved")
  /\ soul' = [soul EXCEPT !.file = 2]
  /\ End(p)
  /\ UNCHANGED <<state, dirs, exe, dismissed>>

-----------------------------------------------------------------------------
(* update *)

\* A release that is newer, has an archive for this platform and matches its
\* checksum, if it has one, is written beside the executable;
Update(p) ==
  /\ At(p, "begin") /\ Does(p, "update")
  /\ \/ exe' = [exe EXCEPT !.new = -1] /\ Step(p, "install")
     \/ End(p) /\ UNCHANGED exe
  /\ UNCHANGED <<state, dirs, soul, dismissed>>

Install(p) ==
  /\ At(p, "install")
  /\ exe' = [exe EXCEPT !.new = 2]
  /\ Step(p, "clear")
  /\ UNCHANGED <<state, dirs, soul, dismissed>>

ClearBothMutant(p) ==
  /\ At(p, "clear")
  /\ exe' = [exe EXCEPT !.bak = 0, !.file = 0]
  /\ Step(p, "replace")
  /\ UNCHANGED <<state, dirs, soul, dismissed>>

\* the backup before is removed,
ClearBackup(p) ==
  /\ At(p, "clear")
  /\ exe' = [exe EXCEPT !.bak = 0]
  /\ Step(p, "set aside")
  /\ UNCHANGED <<state, dirs, soul, dismissed>>

\* the executable becomes the backup,
SetAside(p) ==
  /\ At(p, "set aside")
  /\ IF exe.file = 0 THEN End(p) /\ UNCHANGED exe
     ELSE exe' = [exe EXCEPT !.bak = exe.file, !.file = 0] /\ Step(p, "replace")
  /\ UNCHANGED <<state, dirs, soul, dismissed>>

\* and the new one the executable.
Replace(p) ==
  /\ At(p, "replace")
  /\ exe' = IF exe.new = 0 THEN exe ELSE [exe EXCEPT !.file = exe.new, !.new = 0]
  /\ End(p)
  /\ UNCHANGED <<state, dirs, soul, dismissed>>

-----------------------------------------------------------------------------
(* Processes and time *)

Begin(p, c) ==
  /\ At(p, "idle") /\ begun < MaxCommands /\ exe.file > 0
  /\ begun' = begun + 1
  /\ proc' = [proc EXCEPT ![p] = [Idle EXCEPT !.pc = "begin", !.do = c.do,
                                             !.what = c.what]]
  /\ UNCHANGED <<now, files, pid, logins, rest>>

\* The command has done what it was for, or found no provider.
Finish(p) ==
  /\ proc[p].pc \in {"done", "work", "unavailable"}
  /\ End(p)
  /\ UNCHANGED <<now, files, pid, begun, logins, rest>>

Die(p) ==
  /\ Alive(p)
  /\ End(p)
  /\ UNCHANGED <<now, files, pid, begun, logins, rest>>

Tick ==
  /\ now < MaxNow
  /\ now' = now + 1
  /\ UNCHANGED <<files, pid, begun, logins, rest, proc>>

ProcessStep(p) ==
  \/ Create(p) \/ Write(p) \/ Rename(p)
  \/ ConnectOAuth(p) \/ DeviceFlow(p) \/ ConnectKey(p) \/ ConnectApp(p)
  \/ ConnectEmail(p)
  \/ DisconnectOAuth(p) \/ DisconnectKey(p) \/ DisconnectAll(p)
  \/ NextLogin(p) \/ RemoveRest(p)
  \/ StartDaemon(p) \/ RunTask(p) \/ MigrateKeys(p) \/ Discover(p) \/ Pick(p)
  \/ Resolve(p) \/ Build(p)
  \/ WritePid(p) \/ DaemonReturns(p) \/ StopReads(p) \/ StopKills(p)
  \/ Approve(p) \/ Copy(p) \/ RemoveProposed(p) \/ Removed(p) \/ Dismiss(p)
  \/ Evolve(p) \/ BackUpSoul(p) \/ WriteSoul(p)
  \/ Update(p) \/ Install(p) \/ ClearBackup(p) \/ SetAside(p) \/ Replace(p)
  \/ (\E c \in offered : Begin(p, c)) \/ Finish(p) \/ Die(p)

\* What process p is in the middle of changing (history only).  Of auth.json and
\* integrations.json, whose copy it has and is still to write: connect has it
\* while the user logs in, `disconnect all` between its two saves.
Holds(p) ==
  {r \in {"auth", "apps"} :
     \/ proc[p].pc \in {"create", "write", "rename"} /\ proc[p].file = r
     \/ At(p, "flow") /\ Does(p, "connect") /\ r = "auth"
     \/ /\ At(p, "all") /\ proc[p].what = "copilot" /\ r = "auth"
        /\ "chatgpt" \in DOMAIN proc[p].store}
  \union (IF proc[p].pc \in {"copy", "remove", "removing"}
          THEN {proc[p].what} ELSE {})
  \union (IF Does(p, "update") THEN {"exe"} ELSE {})
  \union (IF \/ At(p, "kill") \/ proc[p].stopping
             \/ Does(p, "start") /\ proc[p].pc \notin {"begin", "daemon"}
          THEN {"pid"} ELSE {})

Next ==
  /\ Tick \/ \E p \in Procs : ProcessStep(p)
  /\ UNCHANGED offered
  /\ overlap' = overlap \union UNION {Holds(pq[1])' \intersect Holds(pq[2])' :
                         pq \in {pq \in Procs \X Procs : pq[1] # pq[2]}}
  /\ moved' = {p \in Procs : /\ proc'[p].pc \notin {"idle", "discover"}
                             /\ \/ p \in moved
                                \/ /\ proc'[p] = proc[p]
                                   /\ <<disk["auth"], keys, url>>'
                                        # <<disk["auth"], keys, url>>}

Spec == Init /\ [][Next]_vars

-----------------------------------------------------------------------------
(* Properties *)

\* A login that was saved stays in auth.json until it is disconnected, whatever
\* process died or failed at whatever point of a save, as long as no two commands
\* had a copy of the file to write at once (connect.rs:274, 377).
LoginsSurvive ==
  "auth" \notin overlap => logins \subseteq DOMAIN Loaded(disk["auth"])

\* The provider onboarding names is one the resolver builds, although the two
\* read the credentials separately (main.rs:130-156): what is left of keys
\* after migrations and disconnects never makes a command fail.  Outside the
\* claim are ChatGPT, whose token may have expired and not been refreshed, a
\* custom provider, which may lack its key or its address, Ollama, which may have
\* stopped in between, an empty key file, and credentials another process changed
\* in between or tore by saving at the same time.
ReadyIsUsable ==
  \A p \in Procs :
    At(p, "unavailable") /\ p \notin moved /\ "auth" \notin overlap =>
      \/ proc[p].found \in {"chatgpt", "custom", "ollama"}
      \/ proc[p].found \in DOMAIN keys /\ ~keys[proc[p].found]

\* A proposed skill is complete in one of its two directories until it is
\* dismissed, wherever an approval dies, unless two commands worked on it at
\* once (cli/learn.rs:171).
SkillKept ==
  \A s \in Skills \ (dismissed \union overlap) :
    "whole" \in {dirs[s].proposed, dirs[s].user}

\* An update that dies or fails leaves a complete executable, in its place or
\* as the backup, unless two ran at once (cli/update.rs:174-191).  It may leave
\* none in its place: the two renames are two steps.
ExecutableKept == "exe" \notin overlap => exe.file > 0 \/ exe.bak > 0

\* One daemon runs at a time, unless two starts passed the check together, or
\* one did while a daemon that was told to stop was still running
\* (main.rs:526, 610).
OneDaemon ==
  "pid" \notin overlap => Cardinality({p \in Procs : At(p, "daemon")}) <= 1
=============================================================================
