--------------------------- MODULE MCConversation ---------------------------
(***************************************************************************)
(* Conversation for TLC: a static model, one that only the service lists,  *)
(* a fine-tuned one and one spelled in capitals; an integration for        *)
(* documents only; a first iteration, which asks the model to begin, and a *)
(* later one.                                                              *)
(***************************************************************************)
EXTENDS Conversation

Id(parts) == [parts |-> parts, caps |-> FALSE]

Known == Id(<<"gpt", "4">>)
Newer == Id(<<"gpt", "5">>)
Tuned == Id(<<"ft", "gpt">>)

MCContexts ==
  LET user == Message("user", <<>>) IN
  {<<user>>, <<Message("assistant", <<>>), user>>}

MCStatic == <<Known>>
MCDefault == Known
MCAsked == {[Newer EXCEPT !.caps = TRUE], Id(<<"gpt", "5", "mini">>)}
MCCaches == {[fresh |-> FALSE, models |-> <<Newer>>],
             [fresh |-> TRUE, models |-> <<Newer>>]}
MCLists == {<<>>, <<Tuned, Newer>>}
MCAbilities == {{"document"}}
=============================================================================
