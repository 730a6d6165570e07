------------------------ MODULE MCPorterStateMachine ------------------------
(* The state machine for TLC: the .cfg files give all constants numbers. *)
EXTENDS PorterStateMachine
=============================================================================
