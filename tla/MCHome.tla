------------------------------- MODULE MCHome -------------------------------
(* Instances of Home: two processes and the commands that meet. *)
EXTENDS Home, TLC

CONSTANTS p1, p2

MCProcs == {p1, p2}

MCCommand(do, what) == [do |-> do, what |-> what]

\* Logins and tasks; both logins; keys; the daemon; skills, the soul, the
\* executable and a credential nothing else uses.
MCOffers ==
  {{MCCommand("connect", "chatgpt"), MCCommand("disconnect", "anthropic"),
    MCCommand("run", "none")},
   {MCCommand("connect", "chatgpt"), MCCommand("connect", "copilot"),
    MCCommand("disconnect", "all")},
   {MCCommand("connect", "anthropic"), MCCommand("disconnect", "copilot"),
    MCCommand("disconnect", "all")},
   {MCCommand("connect", "slack"), MCCommand("start", "none"),
    MCCommand("stop", "none")},
   {MCCommand("approve", "skill"), MCCommand("dismiss", "skill"),
    MCCommand("evolve", "none"), MCCommand("update", "none"),
    MCCommand("connect", "email")}}

\* Two logins; an update.
MCLogins ==
  {{MCCommand("connect", "chatgpt"), MCCommand("connect", "copilot")}}
MCUpdate == {{MCCommand("update", "none")}}

\* A key file that was migrated and then deleted leaves its entry.
MCEarlier == {[anthropic |-> ApiKey]}

MCSymmetry == Permutations(MCProcs)
=============================================================================
