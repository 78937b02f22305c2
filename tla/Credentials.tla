---------------------------- MODULE Credentials -----------------------------
(***************************************************************************)
(* What openkoi keeps of logins and keys, and how two different parts of   *)
(* the program decide from it which providers there are: onboarding, which *)
(* picks the provider of a command, and the resolver, which builds it.     *)
(*                                                                         *)
(* auth.json is a function from provider ids to credentials, or Torn when  *)
(* it does not parse; a key file is a function from ids to whether it has  *)
(* a key in it (an empty file stays a file).                               *)
(***************************************************************************)
EXTENDS Integers, FiniteSets, SequencesExt, Functions

CONSTANTS
  NoFile,     \* a file that is not there
  Torn,       \* a file that does not parse
  Env,        \* providers whose API key is in the environment
  AppEnv,     \* integrations whose token is in the environment
  Cli,        \* providers another vendor's CLI has left a token of
  Configured, \* providers of the configuration file, which need no key
  Grace       \* seconds before its expiry that a token counts as expired

OAuthIds == {"copilot", "chatgpt"}

\* Providers whose environment variable onboarding looks at, and those the
\* resolver builds from a variable or a key file.
OnboardingEnv ==
  {"anthropic", "openai", "google", "groq", "openrouter", "together",
   "deepseek", "xai"}
KeyIds == OnboardingEnv \union {"moonshot", "qwen"}
DisconnectIds ==
  {"anthropic", "openai", "openrouter", "groq", "together", "deepseek",
   "moonshot"}

ASSUME CredentialsAssumption ==
  /\ Env \subseteq KeyIds \union {"bedrock"}
  /\ Cli \subseteq {"anthropic", "qwen"}
  /\ Grace \in Nat

-----------------------------------------------------------------------------
(* auth.json *)

\* What it can hold: logins, keys migrated from key files.
Infos == [type : {"api_key", "oauth"}, expires : Nat]
StoreIds == OAuthIds \union KeyIds \union {"custom"}
IsStore(file) == \E ids \in SUBSET StoreIds : file \in [ids -> Infos]

ASSUME FilesAssumption == NoFile # Torn /\ ~IsStore(NoFile) /\ ~IsStore(Torn)

\* An expiry of 0 means never.
ApiKey == [type |-> "api_key", expires |-> 0]
OAuth(expires) == [type |-> "oauth", expires |-> expires]

IsExpired(info, now) == info.expires # 0 /\ now >= info.expires - Grace

Empty == [id \in {} |-> ApiKey]

\* Every caller takes a file it cannot parse for an empty one.
Loaded(file) == IF file \in {NoFile, Torn} THEN Empty ELSE file

With(store, id, info) ==
  [i \in DOMAIN store \union {id} |-> IF i = id THEN info ELSE store[i]]

Without(store, id) == [i \in DOMAIN store \ {id} |-> store[i]]

\* migrate_legacy: the key files that are not empty and not in the store yet.
Migrated(store, keys) ==
  [i \in DOMAIN store \union {k \in DOMAIN keys : keys[k]} |->
    IF i \in DOMAIN store THEN store[i] ELSE ApiKey]

-----------------------------------------------------------------------------
(* integrations.json: which integrations have a credential *)

\* The environment's tokens are put over those of the file.
ApplyEnvOverrides(creds) == creds \union AppEnv

LoadedApps(file) ==
  ApplyEnvOverrides(IF file \in {NoFile, Torn} THEN {} ELSE file)

HasCredentials(creds, app) ==
  IF app \in {"google", "google_docs", "google_sheets"}
  THEN "google" \in creds ELSE app \in creds

\* set_token: email and Teams credentials have several parts, Google's cannot
\* be entered, and an entry that does not split is refused.
SetToken(creds, app, splits) ==
  IF app \in {"slack", "discord", "telegram", "notion"}
     \/ (app \in {"email", "msteams"} /\ splits)
  THEN {creds \union {app}} ELSE {}

\* What init_integrations makes of them; MS Office needs no credential.
Adapters(creds) ==
  (creds \ {"google"})
    \union IF "google" \in creds THEN {"google_docs", "google_sheets"} ELSE {}

-----------------------------------------------------------------------------
(* Onboarding *)

DefaultModelForOAuth(id) ==
  IF id = "copilot" THEN "gpt-4o"
  ELSE IF id = "chatgpt" THEN "gpt-5.1-codex" ELSE ""

DiscoverOAuthAllMutant(file) == DOMAIN Loaded(file)

\* Entries of auth.json that have a default model, whatever their expiry.
DiscoverOAuth(file) ==
  {id \in DOMAIN Loaded(file) : DefaultModelForOAuth(id) # ""}

\* discover_providers of the onboarding.
Found(file, keys, ollama) ==
  (Env \intersect OnboardingEnv) \union DiscoverOAuth(file) \union Cli
    \union DOMAIN keys \union (IF ollama THEN {"ollama"} ELSE {})

Priority ==
  <<"copilot", "chatgpt", "anthropic", "openai", "google", "openrouter", "groq",
    "together", "deepseek", "xai", "qwen", "ollama">>

\* pick_best_provider: the first of the list, or any when none is on it.
PickBest(found) ==
  LET listed == {i \in DOMAIN Priority : Priority[i] \in found}
      first  == {i \in listed : \A j \in listed : i <= j}
  IN  IF listed # {} THEN {Priority[i] : i \in first} ELSE found

-----------------------------------------------------------------------------
(* Resolver *)

\* resolve_key takes the variable before the file; Anthropic and Qwen fall back
\* on what their CLIs left, Bedrock knows variables only.
KeyProviders(keys) ==
  ((Env \union Cli \union {id \in DOMAIN keys : keys[id]}) \intersect KeyIds)
    \union (Env \intersect {"bedrock"})

\* discover_providers_with_config.  `fresh` says whether the ChatGPT token in
\* the store can be used, as it is or refreshed.
Resolved(store, keys, url, ollama, fresh) ==
  ({"copilot"} \intersect DOMAIN store)
    \union (IF fresh THEN {"chatgpt"} \intersect DOMAIN store ELSE {})
    \union KeyProviders(keys)
    \union Configured
    \union (IF url THEN {"custom"} \intersect {id \in DOMAIN keys : keys[id]}
            ELSE {})
    \union (IF ollama THEN {"ollama"} ELSE {})
=============================================================================
