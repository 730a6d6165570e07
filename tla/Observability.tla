---------------------------- MODULE Observability ----------------------------
(***************************************************************************)
(* The observability nodes with the clock and the disk they run on.  The   *)
(* three are processes of their own that neither wait for nor answer one   *)
(* another, so a behaviour follows one of them.                            *)
(***************************************************************************)
EXTENDS EventJournal, MetricsEmitter, LogBridge

VARIABLE node   \* the one that is followed
vars == <<now, disk, filled, node, journalVars, metricsVars, bridgeVars>>

Init ==
  /\ now = TicksPerDay /\ disk = "ok" /\ filled = 0
  /\ node \in {"event_journal", "metrics_emitter", "log_bridge"}
  /\ JournalInit /\ MetricsInit /\ BridgeInit

Clock ==
  /\ now < Horizon[node] /\ now' = now + 1
  /\ UNCHANGED <<disk, filled, node, journalVars, metricsVars, bridgeVars>>

\* Other programs fill the disk, and someone makes room.
Disk ==
  /\ \/ disk = "ok" /\ filled < MaxFull /\ disk' = "full" /\ filled' = filled + 1
     \/ disk = "full" /\ disk' = "ok" /\ UNCHANGED filled
  /\ UNCHANGED <<now, node, journalVars, metricsVars, bridgeVars>>

Journal == node = "event_journal" /\ JournalNext /\ UNCHANGED <<now, disk, filled, node, metricsVars, bridgeVars>>
FollowMetrics(action) ==
  node = "metrics_emitter" /\ action /\ UNCHANGED <<now, disk, filled, node, journalVars, bridgeVars>>
FollowBridge(action) ==
  node = "log_bridge" /\ action /\ UNCHANGED <<now, disk, filled, node, journalVars, metricsVars>>

Next == Clock \/ Disk \/ Journal \/ FollowMetrics(MetricsNext) \/ FollowBridge(BridgeNext)

Spec == Init /\ [][Next]_vars

-----------------------------------------------------------------------------
(* Properties *)

\* What a file has taken stays for RetentionDays, whatever rotates, fails or is cleaned up
\* (a line that waits too, until an exception ends the node).
YoungFilesKept ==
  /\ \A record \in metrics.taken : Kept(metrics, record)
  /\ \A line \in bridge.taken : Kept(bridge, line)

\* The bridge logs that it could not write, is sent that message as well and cannot write
\* it either (log_bridge.py:94): while the disk is full, /rosout does not become quiet,
\* unless other nodes' messages push those of the bridge out of its queue.
Loud == bridge.up /\ disk = "full" /\ \E i \in 1 .. Len(rosout) : ~Filtered(rosout[i])
FullDiskIsLoud ==
  [][Loud /\ disk' = "full" /\ bridge'.up /\ (logged' # logged => Len(rosout) < RosoutDepth)
      => Loud']_vars
=============================================================================
