--------------------------- MODULE MCObservability ---------------------------
(***************************************************************************)
(* The observability nodes for TLC: two seconds for the journal, three     *)
(* days of two ticks for the files, a disk that fills up twice.            *)
(***************************************************************************)
EXTENDS Observability

MCHorizon == [event_journal |-> 3, metrics_emitter |-> 6, log_bridge |-> 6]
MCUpper == [READY |-> "READY", ERROR |-> "ERROR", recovery |-> "RECOVERY"]
MCLogs == {Message("log", FALSE, FALSE), Message("query", TRUE, TRUE)}
=============================================================================
