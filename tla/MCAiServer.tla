----------------------------- MODULE MCAiServer -----------------------------
(***************************************************************************)
(* The AI server for TLC: two connections, one session, one question that  *)
(* mentions a tool keyword and one that does not, and a knowledge base of  *)
(* three documents, with an empty one and a file that does not parse.      *)
(***************************************************************************)
EXTENDS AiServer

MCAbout ==
  [flight |-> [mentions |-> {<<"status">>, <<"flight", "status">>}, tokens |-> TRUE,
               similarity |-> [flights |-> 10, gates |-> 25, shops |-> 0]],
   chat   |-> [mentions |-> {<<"shop">>}, tokens |-> TRUE,
               similarity |-> [flights |-> 0, gates |-> 20, shops |-> 5]]]
MCKeywords == {[phrase |-> <<"status">>, compiles |-> TRUE], [phrase |-> <<"shop">>, compiles |-> FALSE]}

MCPromptFile == [readable |-> TRUE,
  entries |-> {[key |-> "default", text |-> TRUE], [key |-> "tool_use", text |-> TRUE]}]
MCSchemaFile == [readable |-> TRUE, entries |-> {"find"}]

Doc(id, chars, keywords) == [id |-> id, chars |-> chars, keywords |-> keywords]
MCLibrary == <<
  [parses |-> TRUE, docs |-> <<Doc("flights", 8, <<<<"flight", "status">>, <<"status">>>>),
                               Doc("empty", 0, <<>>)>>],
  [parses |-> FALSE, docs |-> <<Doc("broken", 1, <<>>)>>],
  [parses |-> TRUE, docs |-> <<Doc("gates", 7, <<>>), Doc("shops", 6, <<<<"shop">>>>)>>]>>

MCDeployed == {{BaseFile, Merged("conversational"), Lora("tool_use")}}
=============================================================================
