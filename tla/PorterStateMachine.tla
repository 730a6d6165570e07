------------------------- MODULE PorterStateMachine -------------------------
(***************************************************************************)
(* The orchestrator's system state machine (porter_state_machine.py): it   *)
(* watches the health level the LIDAR health monitor publishes, boots the  *)
(* system, degrades it and retries the boot sequence.                      *)
(*                                                                         *)
(* rclpy.spin runs every callback to its end, so each is one action.  Time *)
(* is counted in periods of the state timer: StateTick runs the handler of *)
(* the current state and lets one period pass; a callback runs between two *)
(* ticks.  Ages are rounded down to whole periods.                         *)
(***************************************************************************)
EXTENDS Ages

CONSTANTS
  BootGrace,        \* boot_grace_sec, in ticks
  BootTimeout,      \* boot_timeout_sec, in ticks
  Patience,         \* health_check_patience_sec, in ticks
  HealthTimeout,    \* health_timeout_sec, in ticks
  MaxRecovery,      \* max_recovery_attempts_
  ShutdownDelay     \* the 0.5 s of the deferred shutdown, in ticks

ASSUME PeriodAssumption ==
  /\ BootGrace \in Nat /\ BootTimeout \in Nat /\ Patience \in Nat
  /\ HealthTimeout \in Nat /\ HealthTimeout >= 2
  /\ MaxRecovery \in Nat
  /\ ShutdownDelay \in Nat

VARIABLES
  state,              \* state_
  last_health_level,  \* last_health_level_
  health_age,         \* ticks since last_health_time_
  boot_age,           \* ticks since boot_start_time_
  check_age,          \* ticks since health_check_enter_time_, or NoTime
  recovery_attempts,  \* recovery_attempts_
  shutdown_age,       \* ticks since the shutdown timer was made, or NoTime
  alive,              \* the process runs
  ok_seen             \* history: an OK arrived in this boot attempt

vars == <<state, last_health_level, health_age, boot_age, check_age,
          recovery_attempts, shutdown_age, alive, ok_seen>>

----------------------------------------------------------------------------
Level    == {"OK", "WARN", "ERROR", "STALE"}   \* what the monitor publishes
Critical == {"ERROR", "STALE"}
State    == {"DRIVER_STARTING", "HEALTH_CHECK", "PROCESSOR_STARTING", "READY",
             "DEGRADED", "ERROR", "RECOVERY", "SHUTDOWN"}

BootLimit == IF BootGrace > BootTimeout THEN BootGrace ELSE BootTimeout

\* One period passes: the timestamps a handler does not set grow older.
Elapse ==
  /\ health_age' = Aged(health_age, 2 * HealthTimeout)
  /\ shutdown_age' = Aged(shutdown_age, ShutdownDelay)
  /\ UNCHANGED <<alive>>

BootClock  == boot_age' = Aged(boot_age, BootLimit)
CheckClock == check_age' = Aged(check_age, Patience)

----------------------------------------------------------------------------
(***************************************************************************)
(* _state_tick: one disjunct per handler.                                  *)
(***************************************************************************)

\* OK moves on, in the grace period and after it; the timeout counts after it.
TickDriverStarting ==
  /\ state = "DRIVER_STARTING"
  /\ \/ /\ last_health_level = "OK"
        /\ state' = "HEALTH_CHECK"
        /\ check_age' = 1
     \/ /\ last_health_level # "OK"
        /\ \E timeout \in Beyond(boot_age, BootTimeout) :
             state' = IF boot_age >= BootGrace /\ timeout THEN "ERROR" ELSE state
        /\ CheckClock
  /\ BootClock
  /\ UNCHANGED <<last_health_level, recovery_attempts, ok_seen>>

\* WARN waits for ever; ERROR and STALE for the patience.
TickHealthCheck ==
  LET patience_elapsed == IF check_age = NoTime THEN 0 ELSE check_age
  IN
  /\ state = "HEALTH_CHECK"
  /\ \E late \in Beyond(patience_elapsed, Patience) :
       state' = IF last_health_level = "OK" THEN "PROCESSOR_STARTING"
                ELSE IF last_health_level \in Critical /\ late THEN "ERROR"
                ELSE state
  /\ check_age' = Aged(patience_elapsed, Patience)
  /\ BootClock
  /\ UNCHANGED <<last_health_level, recovery_attempts, ok_seen>>

\* Mutant: a boot that succeeds does not give the attempts back.
TickProcessorStartingKeepsAttempts ==
  /\ state = "PROCESSOR_STARTING"
  /\ UNCHANGED recovery_attempts
  /\ state' = "READY"
  /\ BootClock /\ CheckClock
  /\ UNCHANGED <<last_health_level, ok_seen>>

TickProcessorStarting ==
  /\ state = "PROCESSOR_STARTING"
  /\ recovery_attempts' = 0
  /\ state' = "READY"
  /\ BootClock /\ CheckClock
  /\ UNCHANGED <<last_health_level, ok_seen>>

\* Mutant: READY looks at the level only, not at its age.
TickReadyTrustsLevel ==
  /\ state = "READY"
  /\ \E stale \in {FALSE} :
       state' = IF stale \/ last_health_level = "WARN" THEN "DEGRADED"
                ELSE IF last_health_level \in Critical THEN "ERROR"
                ELSE state
  /\ BootClock /\ CheckClock
  /\ UNCHANGED <<last_health_level, recovery_attempts, ok_seen>>

TickReady ==
  /\ state = "READY"
  /\ \E stale \in Beyond(health_age, HealthTimeout) :
       state' = IF stale \/ last_health_level = "WARN" THEN "DEGRADED"
                ELSE IF last_health_level \in Critical THEN "ERROR"
                ELSE state
  /\ BootClock /\ CheckClock
  /\ UNCHANGED <<last_health_level, recovery_attempts, ok_seen>>

\* Mutant: DEGRADED never gives lost health data up.
TickDegradedTrustsLevel ==
  /\ state = "DEGRADED"
  /\ \E lost \in {FALSE} :
       state' = IF last_health_level = "OK" /\ health_age < HealthTimeout THEN "READY"
                ELSE IF last_health_level \in Critical \/ lost THEN "ERROR"
                ELSE state
  /\ BootClock /\ CheckClock
  /\ UNCHANGED <<last_health_level, recovery_attempts, ok_seen>>

TickDegraded ==
  /\ state = "DEGRADED"
  /\ \E lost \in Beyond(health_age, 2 * HealthTimeout) :
       state' = IF last_health_level = "OK" /\ health_age < HealthTimeout THEN "READY"
                ELSE IF last_health_level \in Critical \/ lost THEN "ERROR"
                ELSE state
  /\ BootClock /\ CheckClock
  /\ UNCHANGED <<last_health_level, recovery_attempts, ok_seen>>

TickError ==
  /\ state = "ERROR"
  /\ state' = IF recovery_attempts < MaxRecovery THEN "RECOVERY" ELSE state
  /\ BootClock /\ CheckClock
  /\ UNCHANGED <<last_health_level, recovery_attempts, ok_seen>>

\* Mutant: the level of the failed attempt is not forgotten.
TickRecoveryKeepsLevel ==
  /\ state = "RECOVERY"
  /\ recovery_attempts' = recovery_attempts + 1
  /\ UNCHANGED last_health_level
  /\ check_age' = NoTime
  /\ boot_age' = 1
  /\ state' = "DRIVER_STARTING"
  /\ ok_seen' = FALSE

TickRecovery ==
  /\ state = "RECOVERY"
  /\ recovery_attempts' = recovery_attempts + 1
  /\ last_health_level' = "UNKNOWN"
  /\ check_age' = NoTime
  /\ boot_age' = 1
  /\ state' = "DRIVER_STARTING"
  /\ ok_seen' = FALSE

\* SHUTDOWN has no handler.
TickShutdown ==
  /\ state = "SHUTDOWN"
  /\ BootClock /\ CheckClock
  /\ UNCHANGED <<state, last_health_level, recovery_attempts, ok_seen>>

StateTick ==
  /\ alive
  /\ \/ TickDriverStarting \/ TickHealthCheck \/ TickProcessorStarting
     \/ TickReady \/ TickDegraded \/ TickError \/ TickRecovery \/ TickShutdown
  /\ Elapse

----------------------------------------------------------------------------
(***************************************************************************)
(* Callbacks.                                                              *)
(***************************************************************************)

HealthStatus(l) ==
  /\ alive
  /\ last_health_level' = l
  /\ health_age' = 0
  /\ ok_seen' = (ok_seen \/ l = "OK")
  /\ UNCHANGED <<state, boot_age, check_age, recovery_attempts, shutdown_age, alive>>

\* The service forces ERROR, not RECOVERY as documented, and is refused in SHUTDOWN only;
\* whether a recovery follows is up to TickError, and the answer is success.
RequestRecovery ==
  /\ alive
  /\ state # "SHUTDOWN"
  /\ state' = "ERROR"
  /\ UNCHANGED <<last_health_level, health_age, boot_age, check_age, recovery_attempts,
                 shutdown_age, alive, ok_seen>>

\* Mutant: one timer, which every call starts again.
ShutdownRestartsTimer ==
  /\ alive
  /\ state' = "SHUTDOWN"
  /\ shutdown_age' = 0
  /\ UNCHANGED <<last_health_level, health_age, boot_age, check_age, recovery_attempts,
                 alive, ok_seen>>

\* Every call makes a timer of its own; the first one due ends the process.
Shutdown ==
  /\ alive
  /\ state' = "SHUTDOWN"
  /\ shutdown_age' = IF shutdown_age = NoTime THEN 0 ELSE shutdown_age
  /\ UNCHANGED <<last_health_level, health_age, boot_age, check_age, recovery_attempts,
                 alive, ok_seen>>

DeferredShutdown ==
  /\ alive
  /\ shutdown_age # NoTime /\ shutdown_age >= ShutdownDelay
  /\ alive' = FALSE
  /\ UNCHANGED <<state, last_health_level, health_age, boot_age, check_age,
                 recovery_attempts, shutdown_age, ok_seen>>

----------------------------------------------------------------------------
\* __init__ ends with the transition to DRIVER_STARTING.
Init ==
  /\ state = "DRIVER_STARTING"
  /\ last_health_level = "UNKNOWN"
  /\ health_age = 0 /\ boot_age = 0 /\ check_age = NoTime
  /\ recovery_attempts = 0
  /\ shutdown_age = NoTime /\ alive = TRUE
  /\ ok_seen = FALSE

Next ==
  \/ StateTick
  \/ \E l \in Level : HealthStatus(l)
  \/ RequestRecovery
  \/ Shutdown
  \/ DeferredShutdown

Spec == Init /\ [][Next]_vars

\* The executor runs every timer that is due.
Fairness == WF_vars(StateTick) /\ WF_vars(DeferredShutdown)

FairSpec == Spec /\ Fairness

----------------------------------------------------------------------------
(***************************************************************************)
(* Properties.                                                             *)
(***************************************************************************)

\* Every variable has its type.
TypeOK ==
  /\ state \in State
  /\ last_health_level \in Level \cup {"UNKNOWN"}
  /\ health_age \in 0 .. 2 * HealthTimeout + 2
  /\ boot_age \in 0 .. BootLimit + 2
  /\ check_age \in {NoTime} \cup (0 .. Patience + 2)
  /\ recovery_attempts \in 0 .. MaxRecovery
  /\ shutdown_age \in {NoTime} \cup (0 .. ShutdownDelay + 2)
  /\ alive \in BOOLEAN /\ ok_seen \in BOOLEAN

\* READY never rests on health data older than the timeout by more than the tick
\* that notices it, and DEGRADED not on data older than twice the timeout, although
\* no handler of the boot sequence looks at the age of the level it acts on.
OperationalIsFresh ==
  /\ state = "READY" => health_age <= HealthTimeout + 1
  /\ state = "DEGRADED" => health_age <= 2 * HealthTimeout + 1

\* The system gets past DRIVER_STARTING only on an OK that arrived in the present
\* boot attempt; a level left over from before the recovery never counts.
OperationalNeedsOK ==
  state \in {"HEALTH_CHECK", "PROCESSOR_STARTING", "READY", "DEGRADED"} => ok_seen

\* Why they hold, step by step: the level the boot sequence acts on is as young as the
\* number of ticks since it was OK; an OK in memory was seen in this attempt; and
\* RECOVERY is entered with an attempt left.
FreshInv ==
  /\ state = "DRIVER_STARTING" /\ last_health_level = "OK" => health_age = 0
  /\ state = "HEALTH_CHECK" /\ last_health_level = "OK" => health_age <= 1
  /\ state = "PROCESSOR_STARTING" => health_age <= 2
  /\ OperationalIsFresh
OKInv     == OperationalNeedsOK /\ (last_health_level = "OK" => ok_seen)
BudgetInv == state = "RECOVERY" => recovery_attempts < MaxRecovery
SafetyInv == TypeOK /\ FreshInv /\ OKInv /\ BudgetInv

\* Boot attempts are retried as BootSupervisor promises: never more often than allowed
\* without a boot that succeeds, whatever is asked for, fails or comes back in between.
\* Once the attempts are spent and it is in ERROR, nothing but SHUTDOWN leads out.
phase == CASE state \in {"DRIVER_STARTING", "HEALTH_CHECK", "PROCESSOR_STARTING"} -> "trying"
           [] state \in {"READY", "DEGRADED"} -> "up"
           [] state = "SHUTDOWN" -> "off"
           [] OTHER -> IF recovery_attempts < MaxRecovery THEN "failed" ELSE "gaveup"

Supervisor == INSTANCE BootSupervisor
                WITH MaxTries <- MaxRecovery, tries <- recovery_attempts
SupervisorSpec == Supervisor!Spec

\* When the monitor and the operator fall silent for ever the system ends in
\* ERROR or SHUTDOWN, except for a HEALTH_CHECK whose last level was WARN.
SilenceEndsInError ==
  <>[][~((\E l \in Level : HealthStatus(l)) \/ RequestRecovery)]_vars
    => <>[](\/ state \in {"ERROR", "SHUTDOWN"}
            \/ state = "HEALTH_CHECK" /\ last_health_level = "WARN")

\* A shutdown request ends the process, whatever else is asked in between.
ShutdownEnds == state = "SHUTDOWN" ~> ~alive
=============================================================================
