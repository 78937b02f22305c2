------------------------------ MODULE MCWatcher ------------------------------
(***************************************************************************)
(* Small instances of Watcher for TLC.                                     *)
(***************************************************************************)
EXTENDS Watcher

CONSTANTS team, alice, plan

MCChats     == {team, alice}
MCGroups    == {team}
\* A second message to the team has the number of the first one to alice.
MCFirstId   == [chat \in MCChats |-> IF chat = team THEN 1 ELSE 2]
MCPolled    == {team}
MCCredentials == {{}, Watchable \ {"imessage"}}
MCDocuments == {plan}

Block(text, known) == [text |-> text, known |-> known]

\* A change of the first page, one of a block that is not read, one of the
\* second page.
MCContents == {<<Block("old", TRUE)>>, <<Block("new", TRUE)>>,
               <<Block("old", TRUE), Block("image", FALSE)>>,
               <<Block("old", TRUE), Block("image", FALSE), Block("new", TRUE)>>}

MCSayings  == {<<"hello">>, <<"/koi", "status">>, <<"fix", "it", "@openkoi_bot">>}
MCOutputs  == {<<"done">>}

MCSlackSayings == {<<"hello">>, <<"@openkoi", "help">>}
=============================================================================
