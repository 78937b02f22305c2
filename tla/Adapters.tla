------------------------------ MODULE Adapters ------------------------------
(***************************************************************************)
(* What lies between the watchers, the daemon and the services: the        *)
(* adapters' history(), send() and send_rich(), the detection of mentions  *)
(* and the commands they hold.                                             *)
(*                                                                         *)
(* The messages of a service are a sequence, in the order they were        *)
(* posted, of records [chat, by, words], and a message is named by its     *)
(* place in it; the id its service gives it is another matter (MessageId). *)
(* Its text is a sequence of words, of which only those that mean          *)
(* something to this code are told apart.  What the services do with a     *)
(* request is known from their documented APIs: Slack, Discord, Teams and  *)
(* the Messages database list the newest messages first, the bot's own     *)
(* among them; Telegram lists the oldest updates nobody confirmed,         *)
(* whatever the chat, never the bot's own messages.                        *)
(***************************************************************************)
EXTENDS ListOperators

CONSTANTS
  Chats,        \* the chats of the service
  Groups,       \* those with a title (Telegram)
  FirstId,      \* the id of the first message of each of them (Telegram)
  DefaultTeam,  \* whether the Teams adapter was given a team
  None          \* no message, no mention

ASSUME AdaptersAssumption ==
  /\ Groups \subseteq Chats
  /\ FirstId \in [Chats -> Nat]
  /\ DefaultTeam \in BOOLEAN
  /\ None \notin Nat

-----------------------------------------------------------------------------
(* What is watched *)

Watchable == {"slack", "discord", "telegram", "notion", "msteams", "imessage"}

\* build_watch_configs, for an integration that is enabled; the others (email,
\* Google, Office) are never watched.
WatchConfig(service, targets) ==
  [service |-> service, targets |-> targets,
   mentionsOnly |-> service = "imessage"]

HasMessaging(service) == service # "notion"

\* init_integrations: the ids of the adapters built from the credentials; Office
\* needs its directory, iMessage a Mac.
Registry(credentials, directory, mac) ==
  (credentials \cap {"slack", "discord", "telegram", "notion", "email", "msteams"})
  \union {id \in {"google_docs", "google_sheets"} : "google" \in credentials}
  \union {id \in {"msoffice"} : directory}
  \union {id \in {"imessage"} : mac}

-----------------------------------------------------------------------------
(* history(chat, limit): messages *)

\* IncomingMessage.id.  Telegram numbers the messages of a chat, its own and the
\* bot's, one after the other, so that two chats may use the same number.
MessageId(service, posts, k) ==
  LET chat == posts[k].chat IN
  IF service = "telegram"
  THEN FirstId[chat] + Cardinality({j \in 1 .. k - 1 : posts[j].chat = chat})
  ELSE k

\* What the services list: the newest messages first.
Newest(posts, ids, limit) == SubSeq(Reverse(ids), 1, Min({limit, Len(ids)}))

AllIds(posts) == [k \in DOMAIN posts |-> k]

InChat(posts, chat) == Ascending({k \in DOMAIN posts : posts[k].chat = chat})

SlackHistory(posts, chat, limit) == Newest(posts, InChat(posts, chat), limit)

DiscordHistory(posts, chat, limit) == Newest(posts, InChat(posts, chat), limit)

MsTeamsHistory(posts, chat, limit) == Newest(posts, InChat(posts, chat), limit)

\* getUpdates without an offset: the oldest updates since `forgotten`, which
\* the service drops after a day.
TelegramHistory(posts, forgotten, limit) ==
  LET updates == Ascending({k \in DOMAIN posts :
                              k > forgotten /\ posts[k].by = "person"})
  IN  SubSeq(updates, 1, Min({limit, Len(updates)}))

\* The chat.db reading, whatever the chat (the script before it asks Messages
\* for what it no longer offers, and fails).
IMessageHistory(posts, limit) == Newest(posts, AllIds(posts), limit)

History(service, posts, forgotten, chat, limit) ==
  CASE service = "slack"    -> SlackHistory(posts, chat, limit)
    [] service = "discord"  -> DiscordHistory(posts, chat, limit)
    [] service = "msteams"  -> MsTeamsHistory(posts, chat, limit)
    [] service = "telegram" -> TelegramHistory(posts, forgotten, limit)
    [] service = "imessage" -> IMessageHistory(posts, limit)

\* strip_html_tags: a mention chosen from the list of Teams is a tag, and the
\* name in it has no "@".
StripTags(words) ==
  [k \in DOMAIN words |-> IF words[k] = "<at>openkoi</at>" THEN "openkoi"
                          ELSE words[k]]

Content(service, words) == IF service = "msteams" THEN StripTags(words) ELSE words

Title(chat) == <<"title", chat>>

\* IncomingMessage.channel, where the answer will be sent.
Channel(service, chat) ==
  CASE service = "telegram" /\ chat \in Groups -> Title(chat)
    [] service = "imessage"                    -> "iMessage"
    [] OTHER                                   -> chat

-----------------------------------------------------------------------------
(* detect_mention and parse_command *)

Opening(service) ==
  CASE service = "telegram" -> {"/koi"}
    [] service = "imessage" -> {"koi:"}
    [] OTHER                -> {}

\* The words the pattern is found in ...
Triggers(service) ==
  CASE service = "telegram" -> {"@openkoi_bot"}
    [] service = "imessage" -> {}
    [] OTHER                -> {"@openkoi", "<@openkoi>", "@openkoi_bot"}

\* ... and what it leaves of them.  "<@openkoi>" is found by the first of the
\* two patterns, which leaves the bracket.
Leftover(service, word) ==
  CASE word = "<@openkoi>"                              -> <<">">>
    [] word = "@openkoi_bot" /\ service # "telegram"    -> <<"_bot">>
    [] OTHER                                            -> <<>>

Unaddressed(words) ==
  IF words # <<>> /\ Head(words) = "@openkoi_bot" THEN Tail(words) ELSE words

\* The command of a mention, None for any other message.
DetectMention(service, words) ==
  LET at     == SelectInSeq(words, LAMBDA w : w \in Triggers(service))
      before == SubSeq(words, 1, at - 1)
      after  == Leftover(service, words[at]) \o SubSeq(words, at + 1, Len(words))
  IN  CASE words # <<>> /\ Head(words) \in Opening(service) ->
             IF service = "telegram" THEN Unaddressed(Tail(words)) ELSE Tail(words)
        [] (words = <<>> \/ Head(words) \notin Opening(service)) /\ at # 0 ->
             IF after = <<>> THEN before ELSE after
        [] OTHER -> None

Run(words) == [do |-> "run", task |-> words]

Report(kind) == [do |-> kind, task |-> <<>>]

ParseCommand(words) ==
  CASE words \in {<<>>, <<"help">>, <<"?">>} -> Report("help")
    [] words = <<"status">>                  -> Report("status")
    [] words \in {<<"cost">>, <<"costs">>}   -> Report("cost")
    [] OTHER -> IF Head(words) = "run" /\ Len(words) > 1 THEN Run(Tail(words))
                ELSE Run(words)

-----------------------------------------------------------------------------
(* What the daemon says.  The reports' numbers and the descriptions they   *)
(* quote are left out.                                                     *)

HelpText == <<"commands:", "@openkoi", "<task description>", "@openkoi", "run",
              "@openkoi", "status", "@openkoi", "cost", "@openkoi", "help">>

StatusText == <<"tasks.">>

CostText == <<"events.">>

DisabledText == <<"disabled.">>

\* A character MarkdownV2 reserves: each text above holds one (a bracket, a
\* full stop), the help text in "(explicit)".
Unescaped(words) == words \in {HelpText, StatusText, CostText, DisabledText}

-----------------------------------------------------------------------------
(* send and send_rich: the message the service then holds, if it takes it *)

Taken(target, words) == {[chat |-> target, by |-> "bot", words |-> words]}

SlackSend(target, words) == Taken(target, words)

\* "text" carries the words; the history shows them.
SlackSendRich(target, words) == Taken(target, words)

DiscordSend(target, words) == Taken(target, words)

\* The text is in the embed; the content is empty.
DiscordSendRich(target, words) == Taken(target, <<>>)

\* parse_target: a channel alone needs the default team.
MsTeamsSend(target, words) == IF DefaultTeam THEN Taken(target, words) ELSE {}

TelegramSend(target, words) ==
  IF target \in Chats /\ ~Unescaped(words) THEN Taken(target, words) ELSE {}

TelegramSendRich(target, words) ==
  IF target \in Chats THEN Taken(target, words) ELSE {}

\* A buddy of that name is asked for: "iMessage" is none.
IMessageSend(target, words) == IF target \in Chats THEN Taken(target, words) ELSE {}

\* deliver_result.  (No adapter sets a thread, so the text is sent plain.)
DeliverResult(service, target, words) ==
  CASE service = "slack"    -> SlackSend(target, words)
    [] service = "discord"  -> DiscordSend(target, words)
    [] service = "msteams"  -> MsTeamsSend(target, words)
    [] service = "telegram" -> TelegramSend(target, words)
    [] service = "imessage" -> IMessageSend(target, words)

\* deliver_rich_result; Teams and iMessage have no send_rich of their own.
DeliverRichResult(service, target, words) ==
  CASE service = "slack"    -> SlackSendRich(target, words)
    [] service = "discord"  -> DiscordSendRich(target, words)
    [] service = "msteams"  -> MsTeamsSend(target, words)
    [] service = "telegram" -> TelegramSendRich(target, words)
    [] service = "imessage" -> IMessageSend(target, words)

-----------------------------------------------------------------------------
(* Documents *)

\* NotionAdapter::read: the blocks of the first page (100) whose type is known.
\* A document is a sequence of blocks [known, text].
ReadDocument(blocks, pageSize) ==
  SelectSeq(SubSeq(blocks, 1, Min({pageSize, Len(blocks)})), LAMBDA b : b.known)
=============================================================================
