------------------------- MODULE LidarHealthMonitor -------------------------
(***************************************************************************)
(* The LIDAR health monitor (lidar_health_monitor.py): it turns the        *)
(* driver's diagnostics and the arrival of scans into one health level,    *)
(* twice a second.  Every callback runs to its end; time is counted in     *)
(* monitor ticks.                                                          *)
(***************************************************************************)
EXTENDS Ages

CONSTANTS
  ScanTimeout,   \* scan_timeout_sec, in ticks
  DiagTimeout,   \* diag_timeout_sec, in ticks
  WarnLimit,     \* warn_consecutive_limit
  ScanHorizon    \* how far past the timeout the age of a scan is followed

VARIABLES
  scan_seen,          \* last_scan_time_ is not None
  scan_age,           \* ticks since last_scan_time_; since the start before the first
  diag_age,           \* ticks since last_diag_time_, or NoTime
  last_diag_level,    \* last_diag_level_
  consecutive_warns   \* consecutive_warns_, counted up to WarnLimit

mvars == <<scan_seen, scan_age, diag_age, last_diag_level, consecutive_warns>>

DiagLevel == {"OK", "WARN", "ERROR", "STALE"}

----------------------------------------------------------------------------
\* _diagnostics_callback, for an array with the driver's status.
Diagnostics(level) ==
  /\ diag_age' = 0
  /\ last_diag_level' = level
  /\ consecutive_warns' = IF level # "WARN" THEN 0
                          ELSE IF consecutive_warns < WarnLimit THEN consecutive_warns + 1
                          ELSE consecutive_warns
  /\ UNCHANGED <<scan_seen, scan_age>>

\* _scan_heartbeat_callback
ScanHeartbeat ==
  /\ scan_seen' = TRUE
  /\ scan_age' = 0
  /\ UNCHANGED <<diag_age, last_diag_level, consecutive_warns>>

\* The level the driver's own diagnostics stand for.
DiagHealth ==
  IF last_diag_level = "WARN" /\ consecutive_warns >= WarnLimit THEN "ERROR"
  ELSE last_diag_level

DiagLate == Beyond(diag_age, DiagTimeout)
\* A scan that never came is never late.
ScanLate == IF scan_seen THEN Beyond(scan_age, ScanTimeout) ELSE {FALSE}

\* Mutant: the scan timeout is looked at only when the driver itself is not well.
EvaluateHealthTrustsDriver(level) ==
  \E diag_late \in DiagLate, scan_late \in ScanLate :
    level = IF diag_age = NoTime \/ diag_late THEN "STALE"
            ELSE IF scan_late /\ DiagHealth # "OK" THEN "ERROR"
            ELSE DiagHealth

\* _evaluate_health may return level.
EvaluateHealth(level) ==
  \E diag_late \in DiagLate, scan_late \in ScanLate :
    level = IF diag_age = NoTime \/ diag_late THEN "STALE"
            ELSE IF scan_late THEN "ERROR"
            ELSE DiagHealth

\* _monitor_tick publishes the level; then half a second passes.
MonitorTick(level) ==
  /\ EvaluateHealth(level)
  /\ scan_age' = Aged(scan_age, ScanTimeout + ScanHorizon)
  /\ diag_age' = Aged(diag_age, DiagTimeout)
  /\ UNCHANGED <<scan_seen, last_diag_level, consecutive_warns>>

Init ==
  /\ scan_seen = FALSE /\ scan_age = 0
  /\ diag_age = NoTime
  /\ last_diag_level = "STALE"
  /\ consecutive_warns = 0

Next == ScanHeartbeat \/ \E level \in DiagLevel : Diagnostics(level) \/ MonitorTick(level)

Spec == Init /\ [][Next]_mvars

----------------------------------------------------------------------------
=============================================================================
