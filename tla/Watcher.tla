------------------------------- MODULE Watcher -------------------------------
(***************************************************************************)
(* One watched integration, from the service to the daemon's answer.  A    *)
(* spawned task polls it: for every target it asks for the last few        *)
(* messages, emits those after the last one it saw, then compares every    *)
(* document with the hash it saw last.  The events go into a bounded       *)
(* channel; the daemon (DaemonLoop has its loop) takes them one by one and *)
(* answers the mentions, by a message in a chat that is polled in turn.    *)
(*                                                                         *)
(* Adapters has what the service's adapter does with messages.  A          *)
(* definition whose name ends in Mutant is a wrong version of the one      *)
(* after it, used only to show that a property would notice the mistake.   *)
(***************************************************************************)
EXTENDS Adapters

CONSTANTS
  Services,     \* the integrations that may be the one watched
  Credentials,  \* sets of apps there may be credentials for
  Polled,       \* chats polled, when it has messages
  Documents,    \* documents polled, when it has none
  Contents,     \* what a document may contain: sequences of blocks
  Sayings,      \* what people may say: sequences of words
  Outputs,      \* what the result of a task may say
  MaxMessages,  \* bound: messages posted, the bot's included
  MaxEdits,     \* bound: edits of documents
  MaxSent,      \* bound: events sent, after which no poll begins
  Batch,        \* messages asked for (5)
  PageSize,     \* blocks of a page of a document (100)
  Capacity      \* of the event channel (100)

ASSUME WatcherAssumption ==
  /\ Services \subseteq Watchable
  /\ Polled \subseteq Chats
  /\ MaxMessages \in Nat
  /\ MaxEdits \in Nat
  /\ MaxSent \in Nat
  /\ Batch \in Nat \ {0}
  /\ PageSize \in Nat \ {0}
  /\ Capacity \in Nat \ {0}

VARIABLES
  config,        \* the WatchConfig
  registry,      \* the adapters there are
  autoExecute,   \* daemon.auto_execute
  posts,         \* the messages of the service
  forgotten,     \* updates Telegram no longer keeps
  document,      \* the content of each document
  edits,         \* edits so far
  pc,            \* what the watcher is at
  left,          \* targets this poll has still to visit
  lastSeen,      \* the last message seen in each chat (its id, SameId)
  lastHash,      \* the content last seen of each document
  sending,       \* events this poll has still to send
  channel,       \* the event channel
  open,          \* whether the daemon still holds its end of it
  job,           \* the mention the daemon is handling
  base,          \* the message each chat was first found at
  shown,         \* messages some poll returned after that
  sent           \* events sent so far

inputs == <<config, registry, autoExecute>>
service == <<posts, forgotten, document, edits>>
seen == <<lastSeen, lastHash>>
ghosts == <<base, shown, sent>>
vars == <<inputs, service, pc, left, seen, sending, channel, open, job, ghosts>>

MessageEvent(k) ==
  LET command == DetectMention(config.service, Content(config.service, posts[k].words))
  IN  [type |-> IF command = None THEN "NewMessage" ELSE "Mention",
       of |-> k,
       words |-> IF command = None THEN <<>> ELSE command,
       source |-> Channel(config.service, posts[k].chat)]

DocumentEvent(d, c) == [type |-> "DocumentUpdated", of |-> <<d, c>>]

-----------------------------------------------------------------------------
Init ==
  /\ config \in {WatchConfig(s, IF HasMessaging(s) THEN Polled ELSE Documents) :
                   s \in Services}
  /\ registry \in {Registry(c, FALSE, TRUE) : c \in Credentials}
  /\ autoExecute \in BOOLEAN
  /\ posts = <<>>
  /\ forgotten = 0
  /\ document \in [Documents -> Contents]
  /\ edits = 0
  /\ pc = "sleep"
  /\ left = {}
  /\ lastSeen = [t \in Chats |-> None]
  /\ lastHash = [d \in Documents |-> None]
  /\ sending = <<>>
  /\ channel = <<>>
  /\ open = TRUE
  /\ job = None
  /\ base = [t \in Chats |-> None]
  /\ shown = {}
  /\ sent = <<>>

\* Somebody writes into a chat, polled or not.
Post(chat) ==
  /\ HasMessaging(config.service)
  /\ Len(posts) < MaxMessages
  /\ \E words \in Sayings :
       posts' = Append(posts, [chat |-> chat, by |-> "person", words |-> words])
  /\ UNCHANGED <<inputs, forgotten, document, edits, pc, left, seen, sending,
                 channel, open, job, ghosts>>

\* Telegram drops an update that is a day old.
Forget ==
  /\ config.service = "telegram"
  /\ forgotten < Len(posts)
  /\ forgotten' = forgotten + 1
  /\ UNCHANGED <<inputs, posts, document, edits, pc, left, seen, sending,
                 channel, open, job, ghosts>>

Edit(d) ==
  /\ ~HasMessaging(config.service)
  /\ edits < MaxEdits
  /\ edits' = edits + 1
  /\ \E c \in Contents : document' = [document EXCEPT ![d] = c]
  /\ UNCHANGED <<inputs, posts, forgotten, pc, left, seen, sending, channel,
                 open, job, ghosts>>

-----------------------------------------------------------------------------
\* The poll interval is over.  An integration that is enabled but has no
\* adapter is an error, which is logged.
Wake ==
  /\ pc = "sleep"
  /\ Len(sent) < MaxSent
  /\ pc' = "poll"
  /\ left' = IF config.service \in registry THEN config.targets ELSE {}
  /\ UNCHANGED <<inputs, service, seen, sending, channel, open, job, ghosts>>

\* The id is all that is kept of a message, and all that is compared.
SameId(j, k) ==
  MessageId(config.service, posts, j) = MessageId(config.service, posts, k)

FreshAtMutant(messages, last) ==
  LET at == SelectInSeq(messages, LAMBDA m : SameId(m, last)) IN
  IF at = 0 THEN messages ELSE SubSeq(messages, at, Len(messages))

FreshNoneMutant(messages, last) ==
  LET at == SelectInSeq(messages, LAMBDA m : SameId(m, last)) IN
  IF at = 0 THEN <<>> ELSE SubSeq(messages, at + 1, Len(messages))

\* What follows the first message with the id of the last one seen, everything
\* if there is none.
Fresh(messages, last) ==
  LET at == SelectInSeq(messages, LAMBDA m : SameId(m, last)) IN
  IF at = 0 THEN messages ELSE SubSeq(messages, at + 1, Len(messages))

Wanted(k) == MessageEvent(k).type = "Mention" \/ ~config.mentionsOnly

Batched(t) == History(config.service, posts, forgotten, t, Batch)

Found(t) == IF Batched(t) = <<>> THEN None ELSE Last(Batched(t))

FreshIn(t) == Fresh(Batched(t), lastSeen[t])

WantedIn(t) ==
  EntriesAt(FreshIn(t), {n \in DOMAIN FreshIn(t) : Wanted(FreshIn(t)[n])})

\* A chat is asked for its history: recorded the first time it is not empty,
\* compared afterwards.  (On Slack, a chat is then read as a document: there is
\* no file of that name, and nothing changes.)
VisitChannel(t) ==
  /\ pc = "poll"
  /\ sending = <<>>
  /\ HasMessaging(config.service)
  /\ t \in left
  /\ left' = left \ {t}
  /\ \/ UNCHANGED <<lastSeen, sending, base, shown>>  \* the request fails
     \/ /\ lastSeen[t] = None
        /\ lastSeen' = [lastSeen EXCEPT ![t] = Found(t)]
        /\ base' = [base EXCEPT ![t] = Found(t)]
        /\ UNCHANGED <<sending, shown>>
     \/ /\ lastSeen[t] # None
        /\ lastSeen' = [lastSeen EXCEPT ![t] =
                          IF FreshIn(t) = <<>> THEN @ ELSE Last(FreshIn(t))]
        /\ sending' = [k \in DOMAIN WantedIn(t) |-> MessageEvent(WantedIn(t)[k])]
        /\ shown' = shown \union {m \in ToSet(Batched(t)) : m > base[t]}
        /\ UNCHANGED base
  /\ UNCHANGED <<inputs, service, pc, lastHash, channel, open, job, sent>>

\* A document is read: its first content is recorded, a change is sent.
VisitDocument(d) ==
  /\ pc = "poll"
  /\ sending = <<>>
  /\ ~HasMessaging(config.service)
  /\ d \in left
  /\ left' = left \ {d}
  /\ LET content == ReadDocument(document[d], PageSize) IN
     \/ UNCHANGED <<lastHash, sending>>  \* the request fails, or nothing changed
     \/ /\ content # lastHash[d]
        /\ lastHash' = [lastHash EXCEPT ![d] = content]
        /\ sending' = IF lastHash[d] = None THEN <<>>
                      ELSE <<DocumentEvent(d, content)>>
  /\ UNCHANGED <<inputs, service, pc, lastSeen, channel, open, job, ghosts>>

SendWaitsMutant ==
  /\ pc = "poll"
  /\ sending # <<>>
  /\ Len(channel) < Capacity
  /\ channel' = Append(channel, Head(sending))
  /\ sent' = Append(sent, Head(sending))
  /\ sending' = Tail(sending)
  /\ UNCHANGED <<inputs, service, pc, left, seen, open, job, base, shown>>

\* tx.send(event).await waits while the channel is full; once the receiver is
\* gone it fails, and the poll ends.
Send ==
  /\ pc = "poll"
  /\ sending # <<>>
  /\ \/ /\ open
        /\ Len(channel) < Capacity
        /\ channel' = Append(channel, Head(sending))
        /\ sent' = Append(sent, Head(sending))
        /\ sending' = Tail(sending)
        /\ UNCHANGED left
     \/ /\ ~open
        /\ sending' = <<>>
        /\ left' = {}
        /\ UNCHANGED <<channel, sent>>
  /\ UNCHANGED <<inputs, service, pc, seen, open, job, base, shown>>

EndPoll ==
  /\ pc = "poll"
  /\ sending = <<>>
  /\ left = {}
  /\ pc' = "sleep"
  /\ UNCHANGED <<inputs, service, left, seen, sending, channel, open, job,
                 ghosts>>

-----------------------------------------------------------------------------
(* The daemon *)

\* It takes an event; only mentions make it do something.
Take ==
  /\ open
  /\ job = None
  /\ channel # <<>>
  /\ channel' = Tail(channel)
  /\ job' = IF Head(channel).type = "Mention" THEN Head(channel) ELSE None
  /\ UNCHANGED <<inputs, service, pc, left, seen, sending, open, ghosts>>

\* The messages the service may hold as the answer to the mention in hand: a
\* report or "disabled" sent plain, the result of the task sent rich.
Answers ==
  LET command == ParseCommand(job.words)
      plain(words) == DeliverResult(config.service, job.source, words)
  IN  CASE command.do = "help"   -> plain(HelpText)
        [] command.do = "status" -> plain(StatusText)
        [] command.do = "cost"   -> plain(CostText)
        [] command.do = "run" /\ ~autoExecute -> plain(DisabledText)
        [] command.do = "run" /\ autoExecute ->
             UNION {DeliverRichResult(config.service, job.source, o) : o \in Outputs}

\* The mention is handled; a delivery that fails is only logged.
Handle ==
  /\ job # None
  /\ job' = None
  /\ \/ UNCHANGED posts
     \/ /\ Len(posts) < MaxMessages
        /\ \E answer \in Answers : posts' = Append(posts, answer)
  /\ UNCHANGED <<inputs, forgotten, document, edits, pc, left, seen, sending,
                 channel, open, ghosts>>

\* The daemon shuts down: stop() broadcasts, and run_daemon drops the receiver.
DaemonStops ==
  /\ open
  /\ job = None
  /\ open' = FALSE
  /\ channel' = <<>>
  /\ UNCHANGED <<inputs, service, pc, left, seen, sending, job, ghosts>>

\* shutdown_rx.recv(), which only the select between two polls listens to.
Stop ==
  /\ pc = "sleep"
  /\ ~open
  /\ pc' = "stopped"
  /\ UNCHANGED <<inputs, service, left, seen, sending, channel, open, job,
                 ghosts>>

Halted == pc = "stopped" /\ UNCHANGED vars

Next ==
  \/ \E t \in Chats : Post(t) \/ VisitChannel(t)
  \/ \E d \in Documents : Edit(d) \/ VisitDocument(d)
  \/ Forget
  \/ Wake
  \/ Send
  \/ EndPoll
  \/ Take
  \/ Handle
  \/ DaemonStops
  \/ Stop
  \/ Halted

Spec == Init /\ [][Next]_vars

\* The watcher goes on when it can, requests return or fail, and select! takes
\* the shutdown that is ready (at a random branch when the interval is over
\* as well).
FairSpec ==
  /\ Spec
  /\ \A t \in Chats : WF_vars(VisitChannel(t))
  /\ \A d \in Documents : WF_vars(VisitDocument(d))
  /\ WF_vars(Send) /\ WF_vars(EndPoll)
  /\ SF_vars(Stop)

-----------------------------------------------------------------------------
(* Properties *)

\* Types; the channel keeps its capacity and holds the latest events sent, and
\* nothing is left to poll or send between two polls.
TypeOK ==
  /\ pc \in {"sleep", "poll", "stopped"}
  /\ left \subseteq config.targets
  /\ pc # "poll" => left = {} /\ sending = <<>>
  /\ lastSeen \in [Chats -> (DOMAIN posts) \union {None}]
  /\ forgotten \in 0..Len(posts)
  /\ Len(channel) <= Capacity
  /\ IsSuffix(channel, sent)

\* What was sent or is about to be.
Events == sent \o sending

IsMessage(e) == e.type # "DocumentUpdated"

Emitted(k) == \E n \in DOMAIN Events : IsMessage(Events[n]) /\ Events[n].of = k

\* No two messages have the same id: no two chats of a Telegram bot reached the
\* same number.
IdsDiffer == \A j, k \in DOMAIN posts : SameId(j, k) => j = k

\* Messages are emitted in the order they were posted and none twice, whatever
\* polls failed in between and whatever updates were dropped, as long as their
\* ids differ.  (It holds for Telegram, whose updates are listed oldest first,
\* and one target.)
EmittedInOrder ==
  IdsDiffer =>
    \A j, k \in DOMAIN Events :
      j < k /\ IsMessage(Events[j]) /\ IsMessage(Events[k])
        => Events[j].of < Events[k].of

\* Once a chat has been found at some message, whatever a poll returns after
\* that message is emitted, although each poll only compares with the id of the
\* last message of the one before; where two messages have the same id, only as
\* long as Telegram still lists the last one.
ShownIsEmitted ==
  open /\ (forgotten = 0 \/ IdsDiffer) => \A k \in shown : Wanted(k) => Emitted(k)

\* A watcher ends once the daemon shut down, even if it was waiting on the full
\* channel at that moment.
WatcherStops == ~open ~> pc = "stopped"

-----------------------------------------------------------------------------
(* What a comment says, refuted for services that list the newest first       *)

\* integrations/watcher.rs:138: last_seen is tracked "to avoid re-emitting
\* duplicate events across poll cycles".  The oldest message is kept for the
\* newest where the newest is listed first, and on Telegram the id that is kept
\* may be that of an earlier message of another chat (telegram.rs:237).
EmittedOnce ==
  \A j, k \in DOMAIN Events :
    j # k /\ IsMessage(Events[j]) /\ IsMessage(Events[k])
      => Events[j].of # Events[k].of
=============================================================================
