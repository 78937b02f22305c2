---------------------------- MODULE Conversation ----------------------------
(***************************************************************************)
(* A run's conversation with a model: the provider's models are listed and *)
(* one is chosen, an MCP server is started and asked for its tools, and    *)
(* the executor sends requests through the provider and the model's tool   *)
(* calls to the server, to an integration or to nobody.                    *)
(*                                                                         *)
(* The executor's steps are Executor's; each action here says what the     *)
(* provider and the server add to one of them.  The server is a process of *)
(* its own: it may answer late, say what nobody asked for, and die.  A     *)
(* definition whose name ends in Mutant is a wrong version of the one      *)
(* after it.                                                               *)
(***************************************************************************)
EXTENDS Executor, Providers

CONSTANTS
  Asked,      \* models a user may ask for
  Caches,     \* lists of models the cache may hold
  Lists,      \* lists of models a service may give
  Abilities,  \* what the registered integration may be able to do
  MaxNotes    \* bound: lines the server writes unasked

ASSUME ConversationAssumption ==
  /\ MaxNotes \in Nat
  /\ \A list \in {Static} \union Lists \union {cache.models : cache \in Caches} :
       list \in Seq(Range(list))

VARIABLES
  stage,      \* how far the run is
  provider,   \* the provider found
  models,     \* the models it lists
  model,      \* the model that requests name
  session,    \* session token of Copilot
  abilities,  \* what the registered integration can do, {} if there is none
  server,     \* the MCP server: its process and both of its pipes
  asking,     \* a call has been written to the server and not read
  got         \* where the answer to each call came from

setup == <<provider, models, model, abilities>>
talk == <<stage, session, server, asking, got>>
all == <<vars, setup, talk>>

-----------------------------------------------------------------------------
\* A line the server writes: the answer to a request of the handshake, to a
\* tool call, or one that nobody asked for.
Line(kind, of) == [kind |-> kind, of |-> of]

IsJson(line) == line.kind # "text"

NoServer == [up |-> FALSE, alive |-> FALSE, todo |-> <<>>, lines |-> <<>>,
             notes |-> 0]

ConversationInit ==
  /\ Init
  /\ stage = "discover"
  /\ provider \in Providers
  /\ models = <<>>
  /\ model \in Asked
  /\ session = "none"
  /\ abilities \in Abilities
  /\ server = NoServer
  /\ asking = FALSE
  /\ got = <<>>

\* discover_providers and the choice of the model.  An Ollama that answers is a
\* provider, also with an empty list.  Probing Copilot takes a session token.
Discover ==
  /\ stage = "discover"
  /\ \E cache \in Caches, list \in Lists :
       /\ models' = Models(provider, cache, list)
       /\ session' = IF provider = "copilot" /\ Cached(cache) = <<>>
                        /\ list # <<>>
                     THEN "fresh" ELSE session
  /\ model' = Validated(models', model)
  /\ stage' = "spawn"
  /\ UNCHANGED <<vars, provider, abilities, server, asking, got>>

\* start_all: a server is configured and starts, or not.
Spawn ==
  /\ stage = "spawn"
  /\ \/ /\ server' = [server EXCEPT !.alive = TRUE, !.todo = <<Line("hello", 0)>>]
        /\ stage' = "hello"
     \/ /\ stage' = "run"
        /\ UNCHANGED server
  /\ UNCHANGED <<vars, setup, session, asking, got>>

ReadableMutant == server.lines # <<>>

\* read_response returns: a line is there, or the pipe is at its end.
Readable == server.lines # <<>> \/ ~server.alive

\* What the server's pipe holds next, taken as JSON.
ReadsJson == server.lines # <<>> /\ IsJson(Head(server.lines))

Taken == [server EXCEPT !.lines = IF @ = <<>> THEN @ ELSE Tail(@)]

\* initialize: any JSON is taken for the answer to the first request; writing
\* the next one fails if the server is gone, and so does the server's start.
ReadHello ==
  /\ stage = "hello"
  /\ Readable
  /\ IF ReadsJson /\ server.alive
     THEN /\ server' = [Taken EXCEPT !.todo = Append(@, Line("list", 0))]
          /\ stage' = "list"
     ELSE server' = Taken /\ stage' = "run"
  /\ UNCHANGED <<vars, setup, session, asking, got>>

\* Any JSON is also taken for the list of tools, which is empty if it is not.
ReadList ==
  /\ stage = "list"
  /\ Readable
  /\ server' = [Taken EXCEPT !.up = ReadsJson]
  /\ stage' = "run"
  /\ UNCHANGED <<vars, setup, session, asking, got>>

-----------------------------------------------------------------------------
(* The server's process. *)

\* It answers its requests in order.
ServerAnswers ==
  /\ server.alive
  /\ server.todo # <<>>
  /\ server' = [server EXCEPT !.todo = Tail(@),
                              !.lines = Append(@, Head(server.todo))]
  /\ UNCHANGED <<vars, setup, stage, session, asking, got>>

\* It writes a notification, or a text that is not JSON.
ServerSpeaks ==
  /\ server.alive
  /\ server.notes < MaxNotes
  /\ \E kind \in {"note", "text"} :
       server' = [server EXCEPT !.lines = Append(@, Line(kind, 0)),
                                !.notes = @ + 1]
  /\ UNCHANGED <<vars, setup, stage, session, asking, got>>

\* It ends; what it has written can still be read.
ServerDies ==
  /\ server.alive
  /\ server' = [server EXCEPT !.alive = FALSE, !.todo = <<>>]
  /\ UNCHANGED <<vars, setup, stage, session, asking, got>>

-----------------------------------------------------------------------------
(* Requests. *)

\* ensure_session_token has left a token that has not expired.
Renewed == IF provider = "copilot" THEN "fresh" ELSE session

\* Half an hour has passed.
TokenExpires ==
  /\ session = "fresh"
  /\ session' = "stale"
  /\ UNCHANGED <<vars, setup, stage, server, asking, got>>

\* The model answers; tool calls are read only from some services, and made
\* only if the request named tools.
Answer ==
  /\ stage = "run"
  /\ Respond
  /\ pc' = "dispatch" => Requests[provider].tools /\ Replies[provider].calls
  /\ session' = Renewed
  /\ UNCHANGED <<setup, stage, server, asking, got>>

\* The failed request's error decides whether it is repeated.
Caused(e) ==
  IF Retriable(e) /\ attempt < MaxRetries
  THEN pc' = "wait"
  ELSE pc' = "failed" /\ outcome' = Classified(e)

\* The request fails, or the exchange of the token before it.
FailRequest ==
  /\ stage = "run"
  /\ Fail
  /\ \E f \in Failures :
       \/ /\ Caused(ErrorOf(Replies[provider], f))
          /\ session' = Renewed
       \/ /\ provider = "copilot"
          /\ session # "fresh"
          /\ Caused(ErrorOf(ExchangeReply, f))
          /\ UNCHANGED session
  /\ UNCHANGED <<setup, stage, server, asking, got>>

Repeat ==
  /\ Retry
  /\ UNCHANGED <<setup, talk>>

-----------------------------------------------------------------------------
(* Tool calls, one after the other. *)

\* Where the answer to a call came from: the server (and the call it had it
\* from), an adapter, one that cannot do what its tool promised, or an error.
Got(from, of) == [from |-> from, of |-> of]

\* dispatch_mcp_tool, a server that is there: the call is written to it.
CallServer ==
  /\ pc = "dispatch"
  /\ pending # <<>>
  /\ ~asking
  /\ server.up /\ server.alive
  /\ asking' = TRUE
  /\ server' = [server EXCEPT !.todo = Append(@, Line("answer", Head(pending)))]
  /\ UNCHANGED <<vars, setup, stage, session, got>>

ReadResultMutant ==
  /\ asking
  /\ \/ Dispatch /\ got' = Append(got, Got("server", 0)) /\ UNCHANGED server
     \/ /\ Readable
        /\ got' = Append(got, Got("server", IF ReadsJson
                                            THEN Head(server.lines).of ELSE 0))
        /\ server' = Taken
        /\ Dispatch \/ (ReadsJson /\ Panic)
  /\ asking' = FALSE
  /\ UNCHANGED <<setup, stage, session>>

\* call_tool takes the server's next line for the answer, whatever it answers;
\* a line that is not JSON, or the end of the pipe, is an error.
ReadResult ==
  /\ asking
  /\ Readable
  /\ got' = Append(got, Got("server", IF ReadsJson THEN Head(server.lines).of
                                                   ELSE 0))
  /\ server' = Taken
  /\ asking' = FALSE
  /\ Dispatch \/ (ReadsJson /\ Panic)
  /\ UNCHANGED <<setup, stage, session>>

\* try_dispatch_integration: a tool the registered integration offers.
CallAdapter ==
  /\ pc = "dispatch"
  /\ ~asking
  /\ \E suffix \in IntegrationTools(abilities) :
       got' = Append(got, Got(IF Serves(abilities, suffix) THEN "adapter"
                                                       ELSE "unsupported", 0))
  /\ Dispatch \/ Panic
  /\ UNCHANGED <<setup, stage, session, server, asking>>

\* A tool nobody has, or of a server that never came up or is gone.
CallNobody ==
  /\ pc = "dispatch"
  /\ ~asking
  /\ got' = Append(got, Got("error", 0))
  /\ Dispatch
  /\ UNCHANGED <<setup, stage, session, server, asking>>

EndRound ==
  /\ CloseRound
  /\ ~asking
  /\ UNCHANGED <<setup, talk>>

\* shutdown_all kills the server; after a panic the process ends without it.
Shutdown ==
  /\ stage = "run"
  /\ pc \in Over
  /\ stage' = "closed"
  /\ server' = IF pc = "panicked" THEN server
               ELSE [server EXCEPT !.alive = FALSE, !.todo = <<>>]
  /\ UNCHANGED <<vars, setup, session, asking, got>>

Closed == stage = "closed" /\ UNCHANGED all

Run ==
  \/ Discover \/ Spawn \/ ReadHello \/ ReadList
  \/ Answer \/ FailRequest \/ Repeat
  \/ CallServer \/ ReadResult \/ CallAdapter \/ CallNobody \/ EndRound
  \/ Shutdown

ConversationNext ==
  Run \/ ServerAnswers \/ ServerSpeaks \/ ServerDies \/ TokenExpires \/ Closed

\* The run goes on when it can, and a server answers or is gone: nothing in
\* the code limits the time it may take to.
ConversationSpec ==
  /\ ConversationInit
  /\ [][ConversationNext]_all
  /\ WF_all(Run)
  /\ WF_all(ServerAnswers)

-----------------------------------------------------------------------------
(* Properties *)

\* Wherever a request is made, the service can accept it: the model is one the
\* provider lists, if it lists any; what answers a call comes after the call,
\* and the entries after one that makes calls answer them in their order, with
\* nothing in between.  The request of ChatGPT leaves the calls out and keeps
\* the answers; it is not claimed for.
WireAccepted ==
  stage = "run" /\ pc = "call" =>
    /\ models # <<>> => model \in Range(models)
    /\ LET wire == Wire(Requests[provider], messages) IN
       provider # "chatgpt" =>
         \A k \in DOMAIN wire :
           /\ \A n \in DOMAIN wire[k].uses :
                /\ k + n \in DOMAIN wire
                /\ wire[k + n].answers = <<wire[k].uses[n]>>
           /\ \A id \in Range(wire[k].answers) :
                \E j \in 1..(k - 1) : id \in Range(wire[j].uses)

\* An answer is never given to an earlier call than the one it answers, nor
\* given twice, and it comes late by no more calls than lines the server wrote
\* unasked; a tool that was offered is one its integration can serve.
AnswersMatch ==
  \A k \in DOMAIN got :
    /\ got[k].from # "unsupported"
    /\ LET of == got[k].of IN
       of > 0 =>
         /\ of <= k
         /\ \A j \in 1..(k - 1) : got[j].of < of
         /\ Cardinality({j \in (of + 1)..k : got[j].from = "server"})
              <= server.notes

\* Every run comes to its end.
RunEnds == <>(stage = "closed")
=============================================================================
