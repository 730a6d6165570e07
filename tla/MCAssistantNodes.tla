-------------------------- MODULE MCAssistantNodes --------------------------
(***************************************************************************)
(* The assistant nodes for TLC: one question that mentions a tool keyword  *)
(* and one that does not, one tool, a merged conversational model and a    *)
(* LoRA for tool use that comes and goes.                                  *)
(***************************************************************************)
EXTENDS AssistantNodes

MCAbout == [q \in Questions |->
  [mentions |-> IF q = "flight" THEN {<<"status">>} ELSE {}, tokens |-> TRUE, similarity |-> <<>>]]
MCLibrary == <<>>
MCKeywords == {[phrase |-> <<"status">>, compiles |-> TRUE], [phrase |-> <<"shop">>, compiles |-> FALSE]}
MCMessages == {[question |-> "flight", session |-> "default", place |-> "b12"],
               [question |-> "chat", session |-> "default", place |-> NoPlace]}
MCInstalled == {BaseFile, Merged("conversational"), Lora("tool_use")}
MCVolatile == {Lora("tool_use")}
=============================================================================
