-------------------------- MODULE ContextBuilding ---------------------------
(***************************************************************************)
(* The context of a request: the system prompt with its sections, the      *)
(* output of the previous iteration with the feedback on it, and what      *)
(* pruning leaves of the messages when they do not fit the window.         *)
(*                                                                         *)
(* A section has a name and a size in tokens; a message a role, a size and *)
(* the findings it shows.                                                  *)
(***************************************************************************)
EXTENDS ListOperators

CONSTANTS
  ContextBuffer,      \* CONTEXT_BUFFER_TOKENS
  ProtectRecent,      \* PROTECT_RECENT_TOKENS
  PlaceholderTokens,  \* size of PRUNED_PLACEHOLDER
  NoteTokens,         \* size of the note on removed messages
  OutputLimit         \* tokens an output is shown with (2000 bytes)

ASSUME ContextAssumption ==
  {ContextBuffer, ProtectRecent, PlaceholderTokens, NoteTokens, OutputLimit}
    \subseteq Nat

Saturating(a, b) == IF a > b THEN a - b ELSE 0

-----------------------------------------------------------------------------
(* System prompt *)

Section(name, tokens) == [name |-> name, tokens |-> tokens]

Present(condition, section) == IF condition THEN <<section>> ELSE <<>>

SoulSection(soul) == <<Section("soul", soul.tokens)>>

TaskSection(task) == <<Section("task", task.tokens)>>

PlanSection(plan) == Present(plan # <<>>, Section("plan", TokensOf(plan)))

\* The bodies of the three best skills, a line for each of the others; the
\* description stands for a body that cannot be read.
SkillsSection(ranked) ==
  LET lines == [k \in DOMAIN ranked |->
                 [tokens |-> IF k <= 3 /\ ranked[k].readable THEN ranked[k].body
                             ELSE ranked[k].summary]]
  IN  Present(ranked # <<>>, Section("skills", TokensOf(lines)))

RecallSection(recall) ==
  Present(recall.anti # <<>> \/ recall.learnings # <<>> \/ recall.skills # <<>>,
          Section("recall", recall.used))

ToolsSection(tools) == Present(tools # <<>>, Section("tools", TokensOf(tools)))

\* build_system_prompt_with_history
SystemPrompt(task, plan, soul, ranked, recall, tools, history) ==
  SoulSection(soul)
    \o Present(history > 0, Section("history", history))
    \o TaskSection(task) \o PlanSection(plan) \o SkillsSection(ranked)
    \o RecallSection(recall) \o ToolsSection(tools)

-----------------------------------------------------------------------------
(* Messages *)

ContextMessage(role, tokens, shows) ==
  [role |-> role, tokens |-> tokens, shows |-> shows]

CompressOutput(tokens) ==
  IF tokens > OutputLimit THEN OutputLimit + 1 ELSE tokens

\* build_delta_feedback: the findings that are more than suggestions.
Unresolved(findings) ==
  EntriesAt(findings, {k \in DOMAIN findings : findings[k].severity # "Suggestion"})

DeltaFeedback(findings) ==
  ContextMessage("user", 1 + Len(Unresolved(findings)), Unresolved(findings))

\* refine_plan: the steps that say how to fix a finding are those of the last
\* evaluation; `fixes` are the critical findings that come with a fix.
RefinePlan(plan, fixes) ==
  EntriesAt(plan, {k \in DOMAIN plan : ~plan[k].fix})
    \o [k \in DOMAIN fixes |-> [fix |-> TRUE, tokens |-> 1, title |-> fixes[k]]]

\* How many of the oldest messages it takes until the overshoot is gone.
Removed(messages, budget) ==
  LET gone(n) == TokensOf(SubSeq(messages, 1, n))
      overshoot == TokensOf(messages) - budget
  IN  CHOOSE n \in 0..Len(messages) :
        /\ gone(n) >= overshoot \/ n = Len(messages)
        /\ \A m \in 0 .. n - 1 : gone(m) < overshoot

WithNote(messages, removed) ==
  <<ContextMessage("user", NoteTokens, <<>>)>>
    \o SubSeq(messages, removed + 1, Len(messages))

DropOldestMutant(messages, budget) ==
  WithNote(messages, Removed(messages, budget))

\* prune_messages, third step: the oldest messages go, but never the last one.
DropOldest(messages, budget) ==
  IF Removed(messages, budget) = Len(messages) THEN <<Last(messages)>>
  ELSE WithNote(messages, Removed(messages, budget))

\* prune_messages, second step: a tool result goes once the results after it
\* fill the protected window.
ClearOldResults(messages) ==
  LET results == {k \in DOMAIN messages : messages[k].role = "tool"}
      newer(k) == TokensOf(EntriesAt(messages, {j \in results : j > k}))
  IN  [k \in DOMAIN messages |->
        IF k \in results /\ newer(k) >= ProtectRecent
        THEN [messages[k] EXCEPT !.tokens =
                IF @ < PlaceholderTokens THEN @ ELSE PlaceholderTokens]
        ELSE messages[k]]

PruneMessages(messages, budget) ==
  LET cleared == ClearOldResults(messages) IN
  IF messages = <<>> \/ TokensOf(messages) <= budget THEN messages
  ELSE IF TokensOf(cleared) <= budget THEN cleared
  ELSE DropOldest(cleared, budget)

\* build_context_with_history: the messages are empty at first, and after a
\* cycle that was not evaluated.
BuildContext(system, cycles) ==
  IF cycles = <<>> \/ ~Last(cycles).evaluated
  THEN [system |-> system, messages |-> <<>>]
  ELSE [system |-> system,
        messages |-> <<ContextMessage("assistant",
                         CompressOutput(Last(cycles).tokens), <<>>),
                       DeltaFeedback(Last(cycles).findings)>>]

Estimate(context) == TokensOf(context.system) + TokensOf(context.messages)

\* build_context_safe, which is used where the window is known.
BuildContextSafe(system, cycles, window) ==
  LET context == BuildContext(system, cycles)
      limit == Saturating(window, ContextBuffer)
  IN  IF window = 0 \/ Estimate(context) <= limit THEN context
      ELSE [context EXCEPT !.messages =
              PruneMessages(@, Saturating(limit, TokensOf(system)))]
=============================================================================
