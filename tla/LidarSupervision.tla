-------------------------- MODULE LidarSupervision --------------------------
(***************************************************************************)
(* The LIDAR health monitor and the system state machine, two processes    *)
(* joined by the topic /porter/health_status.  The driver is everything    *)
(* that may arrive on /scan and /diagnostics.                              *)
(***************************************************************************)
EXTENDS PorterStateMachine, Sequences

CONSTANTS
  ScanTimeout, DiagTimeout, WarnLimit, ScanHorizon     \* of the monitor

ASSUME LimitAssumption ==
  /\ ScanTimeout \in Nat /\ DiagTimeout \in Nat /\ ScanHorizon \in Nat
  /\ WarnLimit \in Nat \ {0}

VARIABLES
  scan_seen, scan_age, diag_age, last_diag_level, consecutive_warns,
  status,        \* messages under way to the state machine
  waited,        \* how many of them have waited for a state tick
  lead           \* monitor ticks minus state ticks

Monitor == INSTANCE LidarHealthMonitor

monitor_vars == <<scan_seen, scan_age, diag_age, last_diag_level, consecutive_warns>>
topic_vars   == <<status, waited>>
joint_vars   == <<monitor_vars, vars, topic_vars, lead>>

----------------------------------------------------------------------------
JointInit ==
  /\ Monitor!Init /\ Init
  /\ status = <<>> /\ waited = 0
  /\ lead = 0

\* What the driver sends reaches the monitor.  Nothing is followed once the machine is gone.
Driver ==
  /\ alive
  /\ \/ Monitor!ScanHeartbeat
     \/ \E level \in Level : Monitor!Diagnostics(level)
  /\ UNCHANGED <<vars, topic_vars, lead>>

\* Both timers run at 2 Hz: neither gets more than a tick ahead of the other.
MonitorTick ==
  /\ alive
  /\ lead < 1
  /\ \E level \in Level :
       Monitor!MonitorTick(level) /\ status' = Append(status, level)
  /\ lead' = lead + 1
  /\ UNCHANGED <<vars, waited>>

\* The topic delivers a message before the second state tick after it was sent, so its
\* queue of ten never overflows.
MachineTick ==
  /\ waited = 0
  /\ lead > -1
  /\ StateTick
  /\ waited' = Len(status)
  /\ lead' = lead - 1
  /\ UNCHANGED <<monitor_vars, status>>

Deliver ==
  /\ status # <<>>
  /\ HealthStatus(Head(status))
  /\ status' = Tail(status)
  /\ waited' = IF waited = 0 THEN 0 ELSE waited - 1
  /\ UNCHANGED <<monitor_vars, lead>>

Operator ==
  /\ RequestRecovery \/ Shutdown \/ DeferredShutdown
  /\ UNCHANGED <<monitor_vars, topic_vars, lead>>

JointNext == Driver \/ MonitorTick \/ MachineTick \/ Deliver \/ Operator

JointSpec == JointInit /\ [][JointNext]_joint_vars

----------------------------------------------------------------------------
Working == {"PROCESSOR_STARTING", "READY", "DEGRADED"}

\* Lost scans end the operation: once scans have come and then stop, the system is out
\* of its working states NoticeLag ticks after the timeout at the latest, whatever the
\* driver's diagnostics claim and however the two timers and the topic interleave.
NoticeLag == 5
LostScansNoticed ==
  alive /\ scan_seen /\ scan_age > ScanTimeout + NoticeLag => state \notin Working

----------------------------------------------------------------------------
(***************************************************************************)
(* The inductive invariant behind it.                                      *)
(***************************************************************************)

JointTypeOK ==
  /\ scan_seen \in BOOLEAN
  /\ scan_age \in Nat
  /\ diag_age \in {NoTime} \cup Nat
  /\ last_diag_level \in Level
  /\ consecutive_warns \in 0 .. WarnLimit
  /\ status \in Seq(Level)
  /\ waited \in 0 .. Len(status)
  /\ lead \in -1 .. 1

\* Ticks of the monitor that have missed the scans.
Missed == IF scan_seen THEN scan_age - ScanTimeout ELSE 0

\* At most one message more than the monitor leads has waited for no state tick.
TopicInv == Len(status) - waited <= lead + 1

\* From the second missed tick on the monitor has published nothing but critical levels.
\* Once the first of them is delivered the machine acts on nothing better.
AlarmInv ==
  /\ \A i \in 1 .. Len(status) :
       i > Len(status) - (Missed - 1) => status[i] \in Critical
  /\ Missed - 1 > Len(status) => last_health_level \in Critical \cup {"UNKNOWN"}

\* A level that has just arrived is young, and a forgotten level was never an OK of this
\* boot attempt.
LevelInv ==
  /\ last_health_level = "UNKNOWN" => ~ok_seen
  /\ state = "PROCESSOR_STARTING" => last_health_level = "OK" \/ health_age = 0
  /\ state = "READY" => last_health_level = "OK" \/ health_age <= 1

\* Of the state ticks since the alarm was sent there are at least Missed - 2 - lead: the
\* second of them finds it delivered, and the third leaves READY.
NoticeInv ==
  /\ Missed >= 4 + lead => state \notin {"PROCESSOR_STARTING", "DEGRADED"}
  /\ Missed >= 5 + lead => state \notin Working

JointInv == JointTypeOK /\ TopicInv /\ AlarmInv /\ LevelInv /\ NoticeInv
=============================================================================
