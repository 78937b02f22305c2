----------------------------- MODULE Providers -----------------------------
(***************************************************************************)
(* What the model providers make of a request and of what the service says *)
(* to it, and which models they list.  A provider is described by what its *)
(* request keeps of a conversation and by what its reply is read as; texts, *)
(* prices, headers, signatures and token counts are left out.              *)
(*                                                                         *)
(* A message has a role and the ids of the tool calls it makes (assistant) *)
(* or answers (tool).  A definition whose name ends in Mutant is a wrong   *)
(* version of the one after it, used only to show that a property would    *)
(* notice the mistake.                                                     *)
(***************************************************************************)
EXTENDS ListOperators

CONSTANTS
  Static,   \* the models a provider lists without asking its service
  Default   \* default_model of an OpenAI-compatible provider

-----------------------------------------------------------------------------
(* Requests: whether they name the tools, the calls the model made and the *)
(* call a result is for, and the role a result is sent under.              *)

AnthropicRequestMutant == [tools |-> TRUE, uses |-> FALSE, answers |-> TRUE,
                           result |-> "user"]
AnthropicRequest == [tools |-> TRUE, uses |-> TRUE, answers |-> TRUE,
                     result |-> "user"]

OpenAIRequest == [tools |-> TRUE, uses |-> TRUE, answers |-> TRUE,
                  result |-> "tool"]
CompatRequest == [tools |-> FALSE, uses |-> TRUE, answers |-> TRUE,
                  result |-> "tool"]
CopilotRequest == [tools |-> TRUE, uses |-> TRUE, answers |-> TRUE,
                   result |-> "tool"]
GoogleRequest == [tools |-> TRUE, uses |-> FALSE, answers |-> FALSE,
                  result |-> "user"]
BedrockRequest == [tools |-> FALSE, uses |-> FALSE, answers |-> FALSE,
                   result |-> "user"]
OllamaRequest == [tools |-> FALSE, uses |-> FALSE, answers |-> FALSE,
                  result |-> "tool"]
CodexRequest == [tools |-> TRUE, uses |-> FALSE, answers |-> TRUE,
                 result |-> "tool"]

\* The conversation as the service gets it, one entry for each message.
Wire(request, messages) ==
  [k \in DOMAIN messages |->
     LET m == messages[k] IN
     [role |-> CASE m.role = "assistant" -> "assistant"
                 [] m.role = "tool" -> request.result
                 [] OTHER -> "user",
      uses |-> IF m.role = "assistant" /\ request.uses THEN m.ids ELSE <<>>,
      answers |-> IF m.role = "tool" /\ request.answers THEN m.ids ELSE <<>>]]

-----------------------------------------------------------------------------
(* Replies: whether a 429 is a rate limit of its own, the failures that are *)
(* marked retriable, and whether tool calls are read.                       *)

Lost == {"timeout", "connect"}

AnthropicReply == [limits |-> TRUE, repeats |-> Lost \union {"5xx"},
                   calls |-> TRUE]
OpenAIReply == [limits |-> TRUE, repeats |-> Lost \union {"5xx"},
                calls |-> TRUE]
CompatReply == [limits |-> FALSE, repeats |-> {"timeout"}, calls |-> FALSE]
CopilotReply == [limits |-> TRUE, repeats |-> Lost \union {"5xx"},
                 calls |-> TRUE]
GoogleReply == [limits |-> TRUE, repeats |-> Lost \union {"5xx"},
                calls |-> TRUE]
BedrockReply == [limits |-> FALSE, repeats |-> {"timeout", "429", "5xx"},
                 calls |-> FALSE]
OllamaReply == [limits |-> FALSE, repeats |-> Lost, calls |-> FALSE]
CodexReply == [limits |-> TRUE, repeats |-> Lost \union {"5xx"},
               calls |-> TRUE]

\* ensure_session_token: the exchange Copilot makes before a request.
ExchangeReply == [limits |-> FALSE, repeats |-> Lost \union {"5xx"},
                  calls |-> FALSE]

\* How a request fails: it is lost, refused with a status whose text may look
\* like a context overflow, or answered by something that is not JSON.
Failures == [what : Lost \union {"unreadable"}, long : {FALSE}]
              \union [what : {"429", "5xx", "4xx"}, long : BOOLEAN]

\* The error the caller gets.
ErrorOf(reply, f) ==
  CASE f.what = "429" /\ reply.limits -> "RateLimited"
    [] f.what \in reply.repeats -> IF f.long THEN "TransientOverflow"
                                             ELSE "Transient"
    [] OTHER -> IF f.long THEN "Overflow" ELSE "Permanent"

Requests ==
  [anthropic |-> AnthropicRequest, openai |-> OpenAIRequest,
   compat |-> CompatRequest, copilot |-> CopilotRequest,
   google |-> GoogleRequest, bedrock |-> BedrockRequest,
   ollama |-> OllamaRequest, chatgpt |-> CodexRequest]

Replies ==
  [anthropic |-> AnthropicReply, openai |-> OpenAIReply,
   compat |-> CompatReply, copilot |-> CopilotReply,
   google |-> GoogleReply, bedrock |-> BedrockReply,
   ollama |-> OllamaReply, chatgpt |-> CodexReply]

Providers == DOMAIN Requests

-----------------------------------------------------------------------------
(* Models.  An id is the parts it is written of, in capitals or not; the   *)
(* service's list is <<>> also when it could not be had.                   *)

\* load_cached: a list older than the TTL, or empty, is as good as none.
Cached(cache) == IF cache.fresh THEN cache.models ELSE <<>>

\* fetch_models_from_api of the compatible providers leaves fine-tuned models
\* out; the one of Copilot does not.
CompatFetched(list) ==
  EntriesAt(list, {k \in DOMAIN list : Head(list[k].parts) # "ft"})

\* probe_models: what the cache holds, or else what the service lists.
Probed(cache, fetched) ==
  IF Cached(cache) # <<>> THEN Cached(cache) ELSE fetched

CompatModels(cache, list) ==
  LET probed == Probed(cache, CompatFetched(list)) IN
  IF probed # <<>> THEN probed ELSE <<Default>>

CopilotModels(cache, list) ==
  LET probed == Probed(cache, list) IN
  probed \o EntriesAt(Static, {k \in DOMAIN Static : Static[k] \notin Range(probed)})

\* models()
Models(provider, cache, list) ==
  CASE provider = "compat" -> CompatModels(cache, list)
    [] provider = "copilot" -> CopilotModels(cache, list)
    [] provider = "ollama" -> list
    [] OTHER -> Static

SameButForCase(m, n) == m.parts = n.parts

StartsOneAnother(m, n) ==
  m.caps = n.caps /\ (IsPrefix(m.parts, n.parts) \/ IsPrefix(n.parts, m.parts))

\* validate_model and the fallback of its caller: the same id, the same but for
\* case, or the only one that starts with it or that it starts with; otherwise
\* the first the provider lists.
Validated(models, model) ==
  LET same == {k \in DOMAIN models : SameButForCase(models[k], model)}
      near == {k \in DOMAIN models : StartsOneAnother(models[k], model)}
  IN  IF model \in Range(models) THEN model
      ELSE IF same # {} THEN models[Min(same)]
      ELSE IF Cardinality(near) = 1 THEN models[Min(near)]
      ELSE IF models # <<>> THEN Head(models) ELSE model

-----------------------------------------------------------------------------
(* Tools of the integrations, by the suffix of their names. *)

\* tools_for_integration, of what an adapter can do.
IntegrationTools(abilities) ==
  (IF "messaging" \in abilities THEN {"send", "read", "search"} ELSE {})
    \union (IF "document" \in abilities
            THEN {"read_doc", "write_doc", "create_doc", "search", "list_docs"}
            ELSE {})

\* try_dispatch_integration: the adapter has what the suffix asks for.
Serves(abilities, suffix) ==
  CASE suffix \in {"send", "read"} -> "messaging" \in abilities
    [] suffix = "search" -> abilities # {}
    [] OTHER -> "document" \in abilities
=============================================================================
