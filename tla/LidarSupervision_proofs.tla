----------------------- MODULE LidarSupervision_proofs -----------------------
(***************************************************************************)
(* Proofs about the state machine and about the supervision it is the half *)
(* of, for every value of their time constants and every number of         *)
(* recovery attempts: types, freshness, the OK each boot attempt needs,    *)
(* that the machine implements BootSupervisor, alone and behind the        *)
(* monitor and its topic, and that lost scans end the operation.           *)
(***************************************************************************)
EXTENDS LidarSupervision, SequenceTheorems, TLAPS


\* What the assumption says of each constant.
LEMMA ConstantTypes ==
  /\ BootGrace \in Nat /\ BootTimeout \in Nat /\ Patience \in Nat
  /\ HealthTimeout \in Nat /\ HealthTimeout >= 2
  /\ MaxRecovery \in Nat /\ ShutdownDelay \in Nat
BY PeriodAssumption DEF PeriodAssumption

LEMMA BootLimitType == BootLimit \in Nat
BY ConstantTypes DEF BootLimit

\* An age stays in its range: one step older, at most two past the limit.
LEMMA AgedType ==
  ASSUME NEW limit \in Nat, NEW age \in {NoTime} \cup (0 .. limit + 2)
  PROVE  /\ Aged(age, limit) \in {NoTime} \cup (0 .. limit + 2)
         /\ age # NoTime => Aged(age, limit) \in 0 .. limit + 2
         /\ Aged(age, limit) <= age + 1
BY SMT DEF Aged, NoTime

LEMMA AgedExact ==
  ASSUME NEW limit \in Nat, NEW age \in 0 .. limit + 1
  PROVE  Aged(age, limit) = age + 1
BY SMT DEF Aged, NoTime

\* The fraction of a period only matters at the limit.
LEMMA BeyondType ==
  ASSUME NEW limit \in Nat, NEW age \in Int, NEW b \in Beyond(age, limit), age > limit
  PROVE  b
<1>1. age # limit
  OBVIOUS
<1>2. b \in {age > limit}
  BY <1>1, Zenon DEF Beyond
<1> QED
  BY <1>2, Zenon

----------------------------------------------------------------------------
(***************************************************************************)
(* The initial states, and the tick of each state, keep the invariant.     *)
(***************************************************************************)

LEMMA InitSafe == Init => SafetyInv
<1> SUFFICES ASSUME Init PROVE SafetyInv
  OBVIOUS
<1>1. TypeOK
  <2>1. /\ health_age \in 0 .. 2 * HealthTimeout + 2
        /\ boot_age \in 0 .. BootLimit + 2
        /\ recovery_attempts \in 0 .. MaxRecovery
    BY ConstantTypes, BootLimitType DEF Init
  <2>2. /\ state \in State /\ last_health_level \in Level \cup {"UNKNOWN"}
        /\ check_age \in {NoTime} \cup (0 .. Patience + 2)
        /\ shutdown_age \in {NoTime} \cup (0 .. ShutdownDelay + 2)
    BY DEF Init, State, Level
  <2>3. alive \in BOOLEAN /\ ok_seen \in BOOLEAN
    BY Zenon DEF Init
  <2> QED
    BY <2>1, <2>2, <2>3, Zenon DEF TypeOK
<1>2. FreshInv /\ OKInv /\ BudgetInv
  BY ConstantTypes DEF Init, FreshInv, OperationalIsFresh, OKInv, OperationalNeedsOK,
                       BudgetInv
<1> QED
  BY <1>1, <1>2 DEF SafetyInv

\* The clocks keep their types in every tick.
LEMMA ElapseType ==
  ASSUME TypeOK, Elapse
  PROVE  /\ health_age' \in 0 .. 2 * HealthTimeout + 2
         /\ health_age' <= health_age + 1
         /\ shutdown_age' \in {NoTime} \cup (0 .. ShutdownDelay + 2)
         /\ alive' \in BOOLEAN
<1>1. health_age \in 0 .. 2 * HealthTimeout + 2 /\ 2 * HealthTimeout \in Nat
  BY ConstantTypes DEF TypeOK
<1>2. /\ health_age' \in 0 .. 2 * HealthTimeout + 2
      /\ health_age' <= health_age + 1
  BY <1>1, AgedType DEF Elapse, NoTime
<1>3. shutdown_age' \in {NoTime} \cup (0 .. ShutdownDelay + 2)
  BY ConstantTypes, AgedType DEF Elapse, TypeOK
<1> QED
  BY <1>2, <1>3, Zenon DEF Elapse, TypeOK

LEMMA BootClockType ==
  ASSUME TypeOK, BootClock
  PROVE  boot_age' \in 0 .. BootLimit + 2
BY BootLimitType, AgedType DEF BootClock, TypeOK, NoTime

LEMMA CheckClockType ==
  ASSUME TypeOK, CheckClock
  PROVE  check_age' \in {NoTime} \cup (0 .. Patience + 2)
BY ConstantTypes, AgedType DEF CheckClock, TypeOK

\* What a tick of any state has to establish beyond the clocks' types.
LEMMA TickType ==
  ASSUME TypeOK, Elapse,
         state' \in State, last_health_level' \in Level \cup {"UNKNOWN"},
         boot_age' \in 0 .. BootLimit + 2,
         check_age' \in {NoTime} \cup (0 .. Patience + 2),
         recovery_attempts' \in 0 .. MaxRecovery,
         ok_seen' \in BOOLEAN
  PROVE  TypeOK'
BY ElapseType, Zenon DEF TypeOK

LEMMA DriverStartingSafe ==
  ASSUME SafetyInv, TickDriverStarting, Elapse
  PROVE  SafetyInv'
<1> TypeOK /\ FreshInv /\ OKInv /\ BudgetInv
  BY Zenon DEF SafetyInv
<1>1. TypeOK'
  <2>1. /\ state' \in State
        /\ last_health_level' \in Level \cup {"UNKNOWN"}
        /\ ok_seen' \in BOOLEAN
    BY Zenon DEF TickDriverStarting, TypeOK, State
  <2>2. boot_age' \in 0 .. BootLimit + 2
    BY BootClockType, Zenon DEF TickDriverStarting
  <2>3. check_age' \in {NoTime} \cup (0 .. Patience + 2)
    <3>1. CASE check_age' = 1
      BY <3>1, ConstantTypes
    <3>2. CASE CheckClock
      BY <3>2, CheckClockType
    <3> QED
      BY <3>1, <3>2, Zenon DEF TickDriverStarting
  <2>4. recovery_attempts' \in 0 .. MaxRecovery
    BY Zenon DEF TickDriverStarting, TypeOK
  <2> QED
    BY <2>1, <2>2, <2>3, <2>4, TickType, Zenon
<1>2. FreshInv'
  BY ElapseType, ConstantTypes DEF TickDriverStarting, TypeOK, FreshInv, OperationalIsFresh
<1>3. OKInv' /\ BudgetInv'
  BY Zenon DEF TickDriverStarting, OKInv, OperationalNeedsOK, BudgetInv
<1> QED
  BY <1>1, <1>2, <1>3, Zenon DEF SafetyInv

LEMMA HealthCheckSafe ==
  ASSUME SafetyInv, TickHealthCheck, Elapse
  PROVE  SafetyInv'
<1> TypeOK /\ FreshInv /\ OKInv /\ BudgetInv
  BY Zenon DEF SafetyInv
<1>1. TypeOK'
  <2>1. /\ state' \in State
        /\ last_health_level' \in Level \cup {"UNKNOWN"}
        /\ ok_seen' \in BOOLEAN
    BY Zenon DEF TickHealthCheck, TypeOK, State
  <2>2. boot_age' \in 0 .. BootLimit + 2
    BY BootClockType, Zenon DEF TickHealthCheck
  <2>3. check_age' \in {NoTime} \cup (0 .. Patience + 2)
    <3> DEFINE elapsed == IF check_age = NoTime THEN 0 ELSE check_age
    <3>1. elapsed \in 0 .. Patience + 2
      BY ConstantTypes DEF TypeOK, NoTime
    <3>2. check_age' = Aged(elapsed, Patience)
      BY Zenon DEF TickHealthCheck
    <3> QED
      BY <3>1, <3>2, ConstantTypes, AgedType DEF NoTime
  <2>4. recovery_attempts' \in 0 .. MaxRecovery
    BY Zenon DEF TickHealthCheck, TypeOK
  <2> QED
    BY <2>1, <2>2, <2>3, <2>4, TickType, Zenon
<1>2. FreshInv'
  BY ElapseType, ConstantTypes DEF TickHealthCheck, TypeOK, FreshInv, OperationalIsFresh
<1>3. OKInv' /\ BudgetInv'
  BY Zenon DEF TickHealthCheck, OKInv, OperationalNeedsOK, BudgetInv
<1> QED
  BY <1>1, <1>2, <1>3, Zenon DEF SafetyInv

LEMMA ProcessorStartingSafe ==
  ASSUME SafetyInv, TickProcessorStarting, Elapse
  PROVE  SafetyInv'
<1> TypeOK /\ FreshInv /\ OKInv /\ BudgetInv
  BY Zenon DEF SafetyInv
<1>1. TypeOK'
  <2>1. /\ state' \in State
        /\ last_health_level' \in Level \cup {"UNKNOWN"}
        /\ ok_seen' \in BOOLEAN
    BY Zenon DEF TickProcessorStarting, TypeOK, State
  <2>2. boot_age' \in 0 .. BootLimit + 2
    BY BootClockType, Zenon DEF TickProcessorStarting
  <2>3. check_age' \in {NoTime} \cup (0 .. Patience + 2)
    BY CheckClockType, Zenon DEF TickProcessorStarting
  <2>4. recovery_attempts' \in 0 .. MaxRecovery
    BY ConstantTypes DEF TickProcessorStarting
  <2> QED
    BY <2>1, <2>2, <2>3, <2>4, TickType, Zenon
<1>2. FreshInv'
  BY ElapseType, ConstantTypes DEF TickProcessorStarting, TypeOK, FreshInv, OperationalIsFresh
<1>3. OKInv' /\ BudgetInv'
  BY Zenon DEF TickProcessorStarting, OKInv, OperationalNeedsOK, BudgetInv
<1> QED
  BY <1>1, <1>2, <1>3, Zenon DEF SafetyInv

LEMMA ReadySafe ==
  ASSUME SafetyInv, TickReady, Elapse
  PROVE  SafetyInv'
<1> TypeOK /\ FreshInv /\ OKInv /\ BudgetInv
  BY Zenon DEF SafetyInv
<1>1. TypeOK'
  <2>1. /\ state' \in State
        /\ last_health_level' \in Level \cup {"UNKNOWN"}
        /\ ok_seen' \in BOOLEAN
    BY Zenon DEF TickReady, TypeOK, State
  <2>2. boot_age' \in 0 .. BootLimit + 2
    BY BootClockType, Zenon DEF TickReady
  <2>3. check_age' \in {NoTime} \cup (0 .. Patience + 2)
    BY CheckClockType, Zenon DEF TickReady
  <2>4. recovery_attempts' \in 0 .. MaxRecovery
    BY Zenon DEF TickReady, TypeOK
  <2> QED
    BY <2>1, <2>2, <2>3, <2>4, TickType, Zenon
<1>2. FreshInv'
  BY ElapseType, ConstantTypes, BeyondType DEF TickReady, TypeOK, FreshInv, OperationalIsFresh
<1>3. OKInv' /\ BudgetInv'
  BY Zenon DEF TickReady, OKInv, OperationalNeedsOK, BudgetInv
<1> QED
  BY <1>1, <1>2, <1>3, Zenon DEF SafetyInv

LEMMA DegradedSafe ==
  ASSUME SafetyInv, TickDegraded, Elapse
  PROVE  SafetyInv'
<1> TypeOK /\ FreshInv /\ OKInv /\ BudgetInv
  BY Zenon DEF SafetyInv
<1>1. TypeOK'
  <2>1. /\ state' \in State
        /\ last_health_level' \in Level \cup {"UNKNOWN"}
        /\ ok_seen' \in BOOLEAN
    BY Zenon DEF TickDegraded, TypeOK, State
  <2>2. boot_age' \in 0 .. BootLimit + 2
    BY BootClockType, Zenon DEF TickDegraded
  <2>3. check_age' \in {NoTime} \cup (0 .. Patience + 2)
    BY CheckClockType, Zenon DEF TickDegraded
  <2>4. recovery_attempts' \in 0 .. MaxRecovery
    BY Zenon DEF TickDegraded, TypeOK
  <2> QED
    BY <2>1, <2>2, <2>3, <2>4, TickType, Zenon
<1>2. FreshInv'
  BY ElapseType, ConstantTypes, BeyondType DEF TickDegraded, TypeOK, FreshInv, OperationalIsFresh
<1>3. OKInv' /\ BudgetInv'
  BY Zenon DEF TickDegraded, OKInv, OperationalNeedsOK, BudgetInv
<1> QED
  BY <1>1, <1>2, <1>3, Zenon DEF SafetyInv

LEMMA ErrorSafe ==
  ASSUME SafetyInv, TickError, Elapse
  PROVE  SafetyInv'
<1> TypeOK /\ FreshInv /\ OKInv /\ BudgetInv
  BY Zenon DEF SafetyInv
<1>1. TypeOK'
  <2>1. /\ state' \in State
        /\ last_health_level' \in Level \cup {"UNKNOWN"}
        /\ ok_seen' \in BOOLEAN
    BY Zenon DEF TickError, TypeOK, State
  <2>2. boot_age' \in 0 .. BootLimit + 2
    BY BootClockType, Zenon DEF TickError
  <2>3. check_age' \in {NoTime} \cup (0 .. Patience + 2)
    BY CheckClockType, Zenon DEF TickError
  <2>4. recovery_attempts' \in 0 .. MaxRecovery
    BY Zenon DEF TickError, TypeOK
  <2> QED
    BY <2>1, <2>2, <2>3, <2>4, TickType, Zenon
<1>2. FreshInv'
  BY ElapseType, ConstantTypes DEF TickError, TypeOK, FreshInv, OperationalIsFresh
<1>3. OKInv' /\ BudgetInv'
  BY Zenon DEF TickError, OKInv, OperationalNeedsOK, BudgetInv
<1> QED
  BY <1>1, <1>2, <1>3, Zenon DEF SafetyInv

LEMMA RecoverySafe ==
  ASSUME SafetyInv, TickRecovery, Elapse
  PROVE  SafetyInv'
<1> TypeOK /\ FreshInv /\ OKInv /\ BudgetInv
  BY Zenon DEF SafetyInv
<1>1. TypeOK'
  <2>1. /\ state' \in State
        /\ last_health_level' \in Level \cup {"UNKNOWN"}
        /\ ok_seen' \in BOOLEAN
    BY Zenon DEF TickRecovery, TypeOK, State
  <2>2. boot_age' \in 0 .. BootLimit + 2
    BY BootLimitType DEF TickRecovery
  <2>3. check_age' \in {NoTime} \cup (0 .. Patience + 2)
    BY DEF TickRecovery
  <2>4. recovery_attempts' \in 0 .. MaxRecovery
    BY ConstantTypes DEF TickRecovery, TypeOK, BudgetInv
  <2> QED
    BY <2>1, <2>2, <2>3, <2>4, TickType, Zenon
<1>2. FreshInv'
  BY ElapseType, ConstantTypes DEF TickRecovery, TypeOK, FreshInv, OperationalIsFresh
<1>3. OKInv' /\ BudgetInv'
  BY Zenon DEF TickRecovery, OKInv, OperationalNeedsOK, BudgetInv
<1> QED
  BY <1>1, <1>2, <1>3, Zenon DEF SafetyInv

LEMMA ShutdownTickSafe ==
  ASSUME SafetyInv, TickShutdown, Elapse
  PROVE  SafetyInv'
<1> TypeOK /\ FreshInv /\ OKInv /\ BudgetInv
  BY Zenon DEF SafetyInv
<1>1. TypeOK'
  <2>1. /\ state' \in State
        /\ last_health_level' \in Level \cup {"UNKNOWN"}
        /\ ok_seen' \in BOOLEAN
    BY Zenon DEF TickShutdown, TypeOK, State
  <2>2. boot_age' \in 0 .. BootLimit + 2
    BY BootClockType, Zenon DEF TickShutdown
  <2>3. check_age' \in {NoTime} \cup (0 .. Patience + 2)
    BY CheckClockType, Zenon DEF TickShutdown
  <2>4. recovery_attempts' \in 0 .. MaxRecovery
    BY Zenon DEF TickShutdown, TypeOK
  <2> QED
    BY <2>1, <2>2, <2>3, <2>4, TickType, Zenon
<1>2. FreshInv'
  BY ElapseType, ConstantTypes DEF TickShutdown, TypeOK, FreshInv, OperationalIsFresh
<1>3. OKInv' /\ BudgetInv'
  BY Zenon DEF TickShutdown, OKInv, OperationalNeedsOK, BudgetInv
<1> QED
  BY <1>1, <1>2, <1>3, Zenon DEF SafetyInv

----------------------------------------------------------------------------
(***************************************************************************)
(* The callbacks keep the invariant.                                       *)
(***************************************************************************)

LEMMA HealthStatusSafe ==
  ASSUME SafetyInv, NEW l \in Level, HealthStatus(l)
  PROVE  SafetyInv'
<1> TypeOK /\ FreshInv /\ OKInv /\ BudgetInv
  BY Zenon DEF SafetyInv
<1>1. TypeOK'
  <2>1. health_age' \in 0 .. 2 * HealthTimeout + 2
    BY ConstantTypes DEF HealthStatus
  <2>2. ok_seen' \in BOOLEAN
    BY Zenon DEF HealthStatus, TypeOK
  <2> QED
    BY <2>1, <2>2, Zenon DEF HealthStatus, TypeOK
<1>2. FreshInv'
  BY ConstantTypes DEF HealthStatus, FreshInv, OperationalIsFresh
<1>3. OKInv' /\ BudgetInv'
  BY Zenon DEF HealthStatus, OKInv, OperationalNeedsOK, BudgetInv
<1> QED
  BY <1>1, <1>2, <1>3, Zenon DEF SafetyInv

LEMMA RequestRecoverySafe ==
  ASSUME SafetyInv, RequestRecovery
  PROVE  SafetyInv'
BY Zenon DEF RequestRecovery, SafetyInv, TypeOK, State, FreshInv, OperationalIsFresh,
             OKInv, OperationalNeedsOK, BudgetInv

LEMMA ShutdownSafe ==
  ASSUME SafetyInv, Shutdown
  PROVE  SafetyInv'
<1> TypeOK /\ FreshInv /\ OKInv /\ BudgetInv
  BY Zenon DEF SafetyInv
<1>1. TypeOK'
  <2>1. shutdown_age' \in {NoTime} \cup (0 .. ShutdownDelay + 2)
    BY ConstantTypes DEF Shutdown, TypeOK
  <2> QED
    BY <2>1, Zenon DEF Shutdown, TypeOK, State
<1>2. FreshInv' /\ OKInv' /\ BudgetInv'
  BY Zenon DEF Shutdown, FreshInv, OperationalIsFresh, OKInv, OperationalNeedsOK, BudgetInv
<1> QED
  BY <1>1, <1>2, Zenon DEF SafetyInv

LEMMA DeferredShutdownSafe ==
  ASSUME SafetyInv, DeferredShutdown
  PROVE  SafetyInv'
BY Zenon DEF DeferredShutdown, SafetyInv, TypeOK, FreshInv, OperationalIsFresh, OKInv,
             OperationalNeedsOK, BudgetInv

LEMMA NextSafe == SafetyInv /\ [Next]_vars => SafetyInv'
<1> SUFFICES ASSUME SafetyInv, [Next]_vars PROVE SafetyInv'
  OBVIOUS
<1>1. CASE StateTick
  BY <1>1, DriverStartingSafe, HealthCheckSafe, ProcessorStartingSafe, ReadySafe,
     DegradedSafe, ErrorSafe, RecoverySafe, ShutdownTickSafe, Zenon DEF StateTick
<1>2. CASE \E l \in Level : HealthStatus(l)
  BY <1>2, HealthStatusSafe, Zenon
<1>3. CASE RequestRecovery \/ Shutdown \/ DeferredShutdown
  BY <1>3, RequestRecoverySafe, ShutdownSafe, DeferredShutdownSafe, Zenon
<1>4. CASE UNCHANGED vars
  BY <1>4, Zenon DEF vars, SafetyInv, TypeOK, FreshInv, OperationalIsFresh, OKInv,
                     OperationalNeedsOK, BudgetInv
<1> QED
  BY <1>1, <1>2, <1>3, <1>4, Zenon DEF Next

----------------------------------------------------------------------------
(***************************************************************************)
(* The theorems.                                                           *)
(***************************************************************************)

THEOREM SpecSafe == Spec => []SafetyInv
BY InitSafe, NextSafe, PTL DEF Spec

\* Every state is well typed; in particular the attempts never pass the maximum.
THEOREM TypeCorrect == Spec => []TypeOK
<1>1. SafetyInv => TypeOK
  BY Zenon DEF SafetyInv
<1> QED
  BY SpecSafe, <1>1, PTL

\* READY and DEGRADED rest on fresh health data for every timeout of at least two
\* ticks, although the boot handlers never look at the age of the level.
THEOREM FreshnessSafe == Spec => []OperationalIsFresh
<1>1. SafetyInv => OperationalIsFresh
  BY Zenon DEF SafetyInv, FreshInv
<1> QED
  BY SpecSafe, <1>1, PTL

\* No boot attempt gets past DRIVER_STARTING on the level of an earlier one.
THEOREM NeedsOKSafe == Spec => []OperationalNeedsOK
<1>1. SafetyInv => OperationalNeedsOK
  BY Zenon DEF SafetyInv, OKInv
<1> QED
  BY SpecSafe, <1>1, PTL

----------------------------------------------------------------------------
(***************************************************************************)
(* PorterStateMachine implements BootSupervisor.                           *)
(***************************************************************************)

\* The states that count as failed, with and without an attempt left.
LEMMA FailedPhase ==
  ASSUME state \in {"ERROR", "RECOVERY"}
  PROVE  phase = IF recovery_attempts < MaxRecovery THEN "failed" ELSE "gaveup"
BY DEF phase

LEMMA TickRefines ==
  ASSUME SafetyInv, StateTick
  PROVE  Supervisor!Next \/ UNCHANGED Supervisor!svars
<1> TypeOK /\ BudgetInv /\ recovery_attempts \in 0 .. MaxRecovery /\ MaxRecovery \in Nat
  BY ConstantTypes, Zenon DEF SafetyInv, TypeOK
<1> USE DEF Supervisor!svars, Supervisor!Next
<1>1. CASE TickDriverStarting \/ TickHealthCheck
  BY <1>1 DEF TickDriverStarting, TickHealthCheck, phase, Supervisor!Fail
<1>2. CASE TickProcessorStarting
  BY <1>2 DEF TickProcessorStarting, phase, Supervisor!Succeed
<1>3. CASE TickReady \/ TickDegraded
  BY <1>3 DEF TickReady, TickDegraded, phase, Supervisor!Fail
<1>4. CASE TickError
  BY <1>4 DEF TickError, phase
<1>5. CASE TickRecovery
  BY <1>5 DEF TickRecovery, phase, BudgetInv, Supervisor!Retry
<1>6. CASE TickShutdown
  BY <1>6 DEF TickShutdown, phase
<1> QED
  BY <1>1, <1>2, <1>3, <1>4, <1>5, <1>6, Zenon DEF StateTick

LEMMA CallbackRefines ==
  ASSUME SafetyInv,
         RequestRecovery \/ Shutdown \/ DeferredShutdown \/ \E l \in Level : HealthStatus(l)
  PROVE  Supervisor!Next \/ UNCHANGED Supervisor!svars
<1> state \in State
  BY Zenon DEF SafetyInv, TypeOK
<1> USE DEF Supervisor!svars, Supervisor!Next
<1>1. CASE RequestRecovery
  BY <1>1 DEF RequestRecovery, State, phase, Supervisor!AskRestart
<1>2. CASE Shutdown
  BY <1>2 DEF Shutdown, State, phase, Supervisor!SwitchOff
<1>3. CASE DeferredShutdown \/ \E l \in Level : HealthStatus(l)
  BY <1>3, Zenon DEF DeferredShutdown, HealthStatus, phase
<1> QED
  BY <1>1, <1>2, <1>3

\* Boots are retried at most max_recovery_attempts_ times between two successes, and
\* SHUTDOWN is final: every step is a step of the abstract supervisor or none.
THEOREM Refinement == Spec => SupervisorSpec
<1>1. Init => Supervisor!Init
  BY DEF Init, phase, Supervisor!Init
<1>2. SafetyInv /\ [Next]_vars => [Supervisor!Next]_(Supervisor!svars)
  <2> SUFFICES ASSUME SafetyInv, [Next]_vars
               PROVE  Supervisor!Next \/ UNCHANGED Supervisor!svars
    OBVIOUS
  <2>1. CASE UNCHANGED vars
    BY <2>1, Zenon DEF vars, phase, Supervisor!svars
  <2> QED
    BY <2>1, TickRefines, CallbackRefines, Zenon DEF Next
<1> QED
  BY SpecSafe, <1>1, <1>2, PTL DEF Spec, SupervisorSpec, Supervisor!Spec
----------------------------------------------------------------------------
(***************************************************************************)
(* Monitor, topic and machine.                                             *)
(***************************************************************************)

LEMMA MonitorConstants ==
  ScanTimeout \in Nat /\ DiagTimeout \in Nat /\ ScanHorizon \in Nat /\ WarnLimit \in Nat \ {0}
BY LimitAssumption DEF LimitAssumption

\* What one tick adds to an age of the monitor.
LEMMA MonitorAged ==
  ASSUME NEW limit \in Nat, NEW age \in Nat
  PROVE  /\ Monitor!Aged(age, limit) \in Nat
         /\ Monitor!Aged(age, limit) = age \/ Monitor!Aged(age, limit) = age + 1
         /\ Monitor!Aged(Monitor!NoTime, limit) = NoTime
BY DEF Monitor!Aged, Monitor!NoTime, NoTime

\* Whatever the driver claims, the monitor reports a level, and a critical one when the
\* scans are late.
LEMMA ReportedLevel ==
  ASSUME JointTypeOK, NEW level, Monitor!EvaluateHealth(level)
  PROVE  /\ level \in Level
         /\ scan_seen /\ scan_age > ScanTimeout => level \in Critical
<1>1. PICK diag_late \in Monitor!DiagLate, scan_late \in Monitor!ScanLate :
        level = IF diag_age = Monitor!NoTime \/ diag_late THEN "STALE"
                ELSE IF scan_late THEN "ERROR"
                ELSE Monitor!DiagHealth
  BY DEF Monitor!EvaluateHealth
<1>2. Monitor!DiagHealth \in Level
  BY DEF Monitor!DiagHealth, JointTypeOK, Level
<1>3. level \in Level
  BY <1>1, <1>2 DEF Level
<1>4. ASSUME scan_seen, scan_age > ScanTimeout PROVE level \in Critical
  <2>1. scan_late \in Beyond(scan_age, ScanTimeout)
    BY <1>1, <1>4 DEF Monitor!ScanLate, Monitor!Beyond, Beyond
  <2>2. scan_late
    BY <1>4, <2>1, BeyondType, MonitorConstants DEF JointTypeOK
  <2>3. level = "STALE" \/ level = "ERROR"
    BY <1>1, <2>2
  <2> QED BY <2>3 DEF Critical
<1> QED BY <1>3, <1>4

\* The topic as a queue.
LEMMA StatusAppend ==
  ASSUME NEW line \in Seq(Level), NEW level \in Level
  PROVE  /\ Append(line, level) \in Seq(Level)
         /\ Len(Append(line, level)) = Len(line) + 1 /\ Len(line) \in Nat
         /\ \A i \in 1 .. Len(line) : Append(line, level)[i] = line[i]
         /\ Append(line, level)[Len(line) + 1] = level
BY AppendProperties, LenProperties

LEMMA StatusTail ==
  ASSUME NEW line \in Seq(Level), line # <<>>
  PROVE  /\ Tail(line) \in Seq(Level) /\ Head(line) \in Level
         /\ Len(line) \in Nat \ {0} /\ Len(Tail(line)) = Len(line) - 1
         /\ \A i \in 1 .. Len(line) - 1 : Tail(line)[i] = line[i + 1]
         /\ Head(line) = line[1]
BY HeadTailProperties, EmptySeq, LenProperties

\* The machine behind the topic takes the steps of the machine alone.
LEMMA MachineStep == JointTypeOK /\ [JointNext]_joint_vars => [Next]_vars
<1> SUFFICES ASSUME JointTypeOK, [JointNext]_joint_vars PROVE [Next]_vars
  OBVIOUS
<1>1. CASE Deliver
  BY <1>1, StatusTail DEF Deliver, Next, JointTypeOK
<1>2. CASE MachineTick \/ Operator
  BY <1>2 DEF MachineTick, Operator, Next
<1>3. CASE Driver \/ MonitorTick
  BY <1>3 DEF Driver, MonitorTick
<1>4. CASE UNCHANGED joint_vars
  BY <1>4 DEF joint_vars
<1> QED BY <1>1, <1>2, <1>3, <1>4 DEF JointNext

LEMMA JointTypeStep == JointTypeOK /\ [JointNext]_joint_vars => JointTypeOK'
<1> SUFFICES ASSUME JointTypeOK, [JointNext]_joint_vars PROVE JointTypeOK'
  OBVIOUS
<1> USE MonitorConstants
<1>1. CASE Driver
  <2>1. UNCHANGED <<status, waited, lead>>
    BY <1>1 DEF Driver, topic_vars
  <2>2. CASE Monitor!ScanHeartbeat
    BY <2>1, <2>2 DEF Monitor!ScanHeartbeat, JointTypeOK
  <2>3. ASSUME NEW level \in Level, Monitor!Diagnostics(level) PROVE JointTypeOK'
    BY <2>1, <2>3 DEF Monitor!Diagnostics, JointTypeOK
  <2> QED BY <1>1, <2>2, <2>3 DEF Driver
<1>2. CASE MonitorTick
  <2>1. PICK level \in Level : Monitor!MonitorTick(level) /\ status' = Append(status, level)
    BY <1>2 DEF MonitorTick
  <2>2. status' \in Seq(Level) /\ Len(status') = Len(status) + 1 /\ Len(status) \in Nat
    BY <2>1, StatusAppend DEF JointTypeOK
  <2>3. lead' \in -1 .. 1 /\ waited' \in 0 .. Len(status')
    BY <1>2, <2>2 DEF MonitorTick, JointTypeOK
  <2>4. scan_age' \in Nat /\ diag_age' \in {NoTime} \cup Nat
    <3>1. ScanTimeout + ScanHorizon \in Nat
      OBVIOUS
    <3>2. NoTime = Monitor!NoTime
      BY DEF NoTime, Monitor!NoTime
    <3> QED BY <2>1, <3>1, <3>2, MonitorAged DEF Monitor!MonitorTick, JointTypeOK
  <2> QED BY <2>1, <2>2, <2>3, <2>4 DEF Monitor!MonitorTick, JointTypeOK
<1>3. CASE MachineTick
  <2>1. /\ UNCHANGED monitor_vars /\ status' = status /\ waited' = Len(status)
        /\ lead > -1 /\ lead' = lead - 1
    BY <1>3 DEF MachineTick
  <2>2. lead' \in -1 .. 1 /\ waited' \in 0 .. Len(status')
    BY <2>1, LenProperties DEF JointTypeOK
  <2> QED BY <2>1, <2>2 DEF JointTypeOK, monitor_vars
<1>4. CASE Deliver
  <2>1. /\ UNCHANGED monitor_vars /\ lead' = lead /\ status # <<>> /\ status' = Tail(status)
        /\ waited' = IF waited = 0 THEN 0 ELSE waited - 1
    BY <1>4 DEF Deliver
  <2>2. /\ status' \in Seq(Level) /\ Len(status') = Len(status) - 1
        /\ Len(status) \in Nat \ {0}
    BY <2>1, StatusTail DEF JointTypeOK
  <2>3. waited' \in 0 .. Len(status')
    BY <2>1, <2>2 DEF JointTypeOK
  <2> QED BY <2>1, <2>2, <2>3 DEF JointTypeOK, monitor_vars
<1>5. CASE Operator \/ UNCHANGED joint_vars
  BY <1>5 DEF Operator, joint_vars, monitor_vars, topic_vars, JointTypeOK
<1> QED BY <1>1, <1>2, <1>3, <1>4, <1>5 DEF JointNext

\* An age below the limit is not beyond it.
LEMMA NotBeyond ==
  ASSUME NEW limit \in Nat, NEW age \in Nat, NEW b \in Beyond(age, limit), age < limit
  PROVE  ~b
<1>1. age # limit /\ ~(age > limit)
  OBVIOUS
<1>2. b \in {age > limit}
  BY <1>1, Zenon DEF Beyond
<1> QED
  BY <1>1, <1>2, Zenon

Bad == Critical \cup {"UNKNOWN"}

\* A tick of the machine on a bad level: it never enters PROCESSOR_STARTING or DEGRADED
\* and never stays in READY.
LEMMA TickNotices ==
  ASSUME SafetyInv, LevelInv, StateTick
  PROVE  /\ LevelInv'
         /\ last_health_level \in Bad => last_health_level' \in Bad
         /\ last_health_level \in Bad => state' \notin {"PROCESSOR_STARTING", "DEGRADED"}
         /\ last_health_level \in Bad /\ state \notin {"PROCESSOR_STARTING", "DEGRADED"}
              => state' \notin Working
<1> USE DEF LevelInv, Bad, Critical, Working
<1>1. health_age \in Nat /\ HealthTimeout \in Nat /\ HealthTimeout >= 2 /\ health_age' \in Nat
      /\ health_age' <= health_age + 1
  <2>1. health_age \in 0 .. 2 * HealthTimeout + 2 /\ 2 * HealthTimeout \in Nat
    BY ConstantTypes DEF SafetyInv, TypeOK
  <2>2. health_age' = Aged(health_age, 2 * HealthTimeout)
    BY DEF StateTick, Elapse
  <2>3. health_age # NoTime
    BY <2>1 DEF NoTime
  <2> QED BY <2>1, <2>2, <2>3, AgedType, ConstantTypes
<1>2. CASE TickDriverStarting
  BY <1>2 DEF TickDriverStarting
<1>3. CASE TickHealthCheck
  <2>1. ok_seen /\ last_health_level # "UNKNOWN"
    BY <1>3 DEF TickHealthCheck, SafetyInv, OKInv, OperationalNeedsOK
  <2> QED BY <1>3, <2>1 DEF TickHealthCheck
<1>4. CASE TickProcessorStarting
  <2>1. last_health_level = "OK" \/ health_age' <= 1
    BY <1>1, <1>4 DEF TickProcessorStarting
  <2> QED BY <1>4, <2>1 DEF TickProcessorStarting
<1>5. CASE TickReady
  <2>1. /\ state = "READY" /\ ok_seen /\ last_health_level # "UNKNOWN"
        /\ last_health_level' = last_health_level /\ ok_seen' = ok_seen
    BY <1>5 DEF TickReady, SafetyInv, OKInv, OperationalNeedsOK
  <2>2. PICK stale \in Beyond(health_age, HealthTimeout) :
          state' = IF stale \/ last_health_level = "WARN" THEN "DEGRADED"
                   ELSE IF last_health_level \in Critical THEN "ERROR"
                   ELSE state
    BY <1>5 DEF TickReady
  <2>3. state' = "READY" => last_health_level = "OK"
    BY <2>1, <2>2 DEF SafetyInv, TypeOK, Level
  <2>4. last_health_level \in Critical => state' = "ERROR"
    <3>1. ASSUME last_health_level \in Critical PROVE ~stale
      <4>1. health_age <= 1
        BY <2>1, <3>1
      <4>2. health_age < HealthTimeout
        BY <1>1, <4>1
      <4> QED BY <1>1, <2>2, <4>2, NotBeyond
    <3> QED BY <2>2, <3>1
  <2>5. state' \in {"READY", "DEGRADED", "ERROR"}
    BY <2>1, <2>2
  <2> QED BY <2>1, <2>3, <2>4, <2>5
<1>6. CASE TickDegraded
  <2>1. /\ state = "DEGRADED" /\ ok_seen /\ last_health_level # "UNKNOWN"
        /\ last_health_level' = last_health_level /\ ok_seen' = ok_seen
    BY <1>6 DEF TickDegraded, SafetyInv, OKInv, OperationalNeedsOK
  <2>2. /\ state' \in {"READY", "DEGRADED", "ERROR"}
        /\ state' = "READY" => last_health_level = "OK"
        /\ last_health_level \in Critical => state' = "ERROR"
    BY <1>6 DEF TickDegraded
  <2> QED BY <2>1, <2>2
<1>7. CASE TickError \/ TickShutdown
  BY <1>7 DEF TickError, TickShutdown
<1>8. CASE TickRecovery
  BY <1>8 DEF TickRecovery
<1> QED BY <1>2, <1>3, <1>4, <1>5, <1>6, <1>7, <1>8 DEF StateTick

\* What the monitor and the driver do to the count of missed ticks and to the topic.
LEMMA MissedType == JointTypeOK => Missed \in Int
BY MonitorConstants DEF Missed, JointTypeOK

LEMMA DriverFacts ==
  ASSUME JointTypeOK, Driver
  PROVE  /\ UNCHANGED <<vars, status, waited, lead>>
         /\ Missed' = Missed \/ Missed' <= 0
<1>1. UNCHANGED <<vars, status, waited, lead>>
  BY DEF Driver, topic_vars
<1>2. CASE Monitor!ScanHeartbeat
  <2>1. Missed' = 0 - ScanTimeout
    BY <1>2 DEF Monitor!ScanHeartbeat, Missed
  <2> QED BY <1>1, <2>1, MonitorConstants
<1>3. CASE \E level \in Level : Monitor!Diagnostics(level)
  BY <1>1, <1>3 DEF Monitor!Diagnostics, Missed
<1> QED BY <1>2, <1>3 DEF Driver

LEMMA MonitorTickFacts ==
  ASSUME JointTypeOK, MonitorTick
  PROVE  /\ UNCHANGED <<vars, waited>> /\ lead' = lead + 1
         /\ Missed' = Missed \/ Missed' = Missed + 1
         /\ \E level \in Level : /\ status' = Append(status, level)
                                 /\ Missed >= 1 => level \in Critical
<1>1. UNCHANGED <<vars, waited>> /\ lead' = lead + 1
  BY DEF MonitorTick
<1>2. PICK level \in Level : Monitor!MonitorTick(level) /\ status' = Append(status, level)
  BY DEF MonitorTick
<1>3. Monitor!EvaluateHealth(level) /\ scan_seen' = scan_seen
      /\ (scan_age' = scan_age \/ scan_age' = scan_age + 1)
  <2>1. ScanTimeout + ScanHorizon \in Nat
    BY MonitorConstants
  <2> QED BY <1>2, <2>1, MonitorAged DEF Monitor!MonitorTick, JointTypeOK
<1>4. Missed' = Missed \/ Missed' = Missed + 1
  BY <1>3, MonitorConstants DEF Missed, JointTypeOK
<1>5. Missed >= 1 => scan_seen /\ scan_age > ScanTimeout
  BY MonitorConstants DEF Missed, JointTypeOK
<1> QED BY <1>1, <1>2, <1>3, <1>4, <1>5, ReportedLevel

\* The invariant, part by part.
LEMMA JointStep ==
  ASSUME JointInv, JointTypeOK', SafetyInv, [JointNext]_joint_vars
  PROVE  TopicInv' /\ AlarmInv' /\ LevelInv' /\ NoticeInv'
<1>0. /\ Missed \in Int /\ Missed' \in Int /\ lead \in Int /\ lead >= -1 /\ lead <= 1
      /\ status \in Seq(Level) /\ Len(status) \in Nat /\ waited \in 0 .. Len(status)
  <2>1. Missed \in Int
    BY MissedType DEF JointInv
  <2>2. Missed' \in Int
    BY MonitorConstants DEF Missed, JointTypeOK
  <2> QED BY <2>1, <2>2, LenProperties DEF JointInv, JointTypeOK
<1>a. TopicInv /\ AlarmInv /\ LevelInv /\ NoticeInv
  BY DEF JointInv
<1>1. CASE Driver
  <2>1. /\ UNCHANGED <<status, waited, lead, state, health_age, last_health_level, ok_seen>>
        /\ Missed' = Missed \/ Missed' <= 0
    BY <1>1, DriverFacts DEF JointInv, vars
  <2>2. TopicInv'
    BY <1>a, <2>1 DEF TopicInv
  <2>3. AlarmInv'
    <3>1. CASE Missed' = Missed
      BY <1>a, <2>1, <3>1 DEF AlarmInv
    <3>2. CASE Missed' <= 0
      BY <1>0, <2>1, <3>2 DEF AlarmInv
    <3> QED BY <2>1, <3>1, <3>2
  <2>4. LevelInv'
    BY <1>a, <2>1 DEF LevelInv
  <2>5. NoticeInv'
    <3>1. CASE Missed' = Missed
      BY <1>a, <2>1, <3>1 DEF NoticeInv
    <3>2. CASE Missed' <= 0
      <4>1. ~(Missed' >= 4 + lead') /\ ~(Missed' >= 5 + lead')
        BY <1>0, <2>1, <3>2
      <4> QED BY <4>1 DEF NoticeInv
    <3> QED BY <2>1, <3>1, <3>2
  <2> QED BY <2>2, <2>3, <2>4, <2>5
<1>2. CASE MonitorTick
  <2>1. /\ UNCHANGED <<waited, state, health_age, last_health_level, ok_seen>>
        /\ lead' = lead + 1
        /\ Missed' = Missed \/ Missed' = Missed + 1
    BY <1>2, MonitorTickFacts DEF JointInv, vars
  <2>2. PICK level \in Level : /\ status' = Append(status, level)
                               /\ Missed >= 1 => level \in Critical
    BY <1>2, MonitorTickFacts DEF JointInv
  <2>3. /\ Len(status') = Len(status) + 1
        /\ \A i \in 1 .. Len(status) : status'[i] = status[i]
        /\ status'[Len(status) + 1] = level
    BY <1>0, <2>2, StatusAppend
  <2>4. TopicInv'
    BY <1>0, <1>a, <2>1, <2>3 DEF TopicInv
  <2>5. AlarmInv'
    <3>1. ASSUME NEW i \in 1 .. Len(status'), i > Len(status') - (Missed' - 1)
          PROVE  status'[i] \in Critical
      <4>1. CASE i = Len(status) + 1
        <5>1. Missed >= 1
          BY <1>0, <2>1, <2>3, <3>1, <4>1
        <5> QED BY <2>2, <2>3, <4>1, <5>1
      <4>2. CASE i # Len(status) + 1
        <5>1. i \in 1 .. Len(status) /\ i > Len(status) - (Missed - 1)
          BY <1>0, <2>1, <2>3, <3>1, <4>2
        <5> QED BY <1>a, <2>3, <5>1 DEF AlarmInv
      <4> QED BY <4>1, <4>2
    <3>2. Missed' - 1 > Len(status') => Missed - 1 > Len(status)
      BY <1>0, <2>1, <2>3
    <3> QED BY <1>a, <2>1, <3>1, <3>2 DEF AlarmInv
  <2>6. LevelInv'
    BY <1>a, <2>1 DEF LevelInv
  <2>7. NoticeInv'
    <3>1. /\ Missed' >= 4 + lead' => Missed >= 4 + lead
          /\ Missed' >= 5 + lead' => Missed >= 5 + lead
      BY <1>0, <2>1
    <3> QED BY <1>a, <2>1, <3>1 DEF NoticeInv
  <2> QED BY <2>4, <2>5, <2>6, <2>7
<1>3. CASE MachineTick
  <2>1. /\ waited = 0 /\ waited' = Len(status) /\ status' = status
        /\ lead > -1 /\ lead' = lead - 1 /\ Missed' = Missed /\ StateTick
    BY <1>3 DEF MachineTick, monitor_vars, Missed
  <2>2. /\ LevelInv'
        /\ last_health_level \in Bad => last_health_level' \in Bad
        /\ last_health_level \in Bad => state' \notin {"PROCESSOR_STARTING", "DEGRADED"}
        /\ last_health_level \in Bad /\ state \notin {"PROCESSOR_STARTING", "DEGRADED"}
             => state' \notin Working
    BY <1>a, <2>1, TickNotices
  <2>3. TopicInv'
    BY <1>0, <2>1 DEF TopicInv
  <2>4. AlarmInv'
    BY <1>a, <2>1, <2>2 DEF AlarmInv, Bad
  <2>5. Missed >= 3 + lead => last_health_level \in Bad
    <3>1. Missed >= 3 + lead => Missed - 1 > Len(status)
      BY <1>0, <1>a, <2>1 DEF TopicInv
    <3> QED BY <1>a, <3>1 DEF AlarmInv, Bad
  <2>6. NoticeInv'
    <3>1. /\ Missed' >= 4 + lead' => Missed >= 3 + lead
          /\ Missed' >= 5 + lead' => Missed >= 3 + lead /\ Missed >= 4 + lead
      BY <1>0, <2>1
    <3> QED BY <1>a, <2>2, <2>5, <3>1 DEF NoticeInv
  <2> QED BY <2>2, <2>3, <2>4, <2>6
<1>4. CASE Deliver
  <2>1. /\ status # <<>> /\ status' = Tail(status) /\ lead' = lead /\ Missed' = Missed
        /\ waited' = IF waited = 0 THEN 0 ELSE waited - 1
        /\ last_health_level' = Head(status) /\ health_age' = 0 /\ state' = state
    BY <1>4 DEF Deliver, HealthStatus, monitor_vars, Missed
  <2>2. /\ Head(status) = status[1] /\ Len(status) >= 1 /\ Len(status') = Len(status) - 1
        /\ Head(status) \in Level
        /\ \A i \in 1 .. Len(status) - 1 : status'[i] = status[i + 1]
    BY <1>0, <2>1, StatusTail
  <2>3. TopicInv'
    BY <1>0, <1>a, <2>1, <2>2 DEF TopicInv
  <2>4. AlarmInv'
    <3>1. ASSUME NEW i \in 1 .. Len(status'), i > Len(status') - (Missed' - 1)
          PROVE  status'[i] \in Critical
      <4>1. /\ i \in 1 .. Len(status) - 1 /\ i + 1 \in 1 .. Len(status)
            /\ i + 1 > Len(status) - (Missed - 1)
        BY <1>0, <2>1, <2>2, <3>1
      <4> QED BY <1>a, <2>2, <4>1 DEF AlarmInv
    <3>2. Missed' - 1 > Len(status') => status[1] \in Critical
      <4>1. 1 \in 1 .. Len(status)
        BY <1>0, <2>2
      <4>2. Missed' - 1 > Len(status') => 1 > Len(status) - (Missed - 1)
        BY <1>0, <2>1, <2>2
      <4> QED BY <1>a, <4>1, <4>2 DEF AlarmInv
    <3> QED BY <2>1, <2>2, <3>1, <3>2 DEF AlarmInv
  <2>5. LevelInv'
    <3>1. last_health_level' # "UNKNOWN"
      BY <2>1, <2>2 DEF Level
    <3>2. health_age' = 0 /\ health_age' <= 1
      BY <2>1
    <3> QED BY <3>1, <3>2 DEF LevelInv
  <2>6. NoticeInv'
    BY <1>a, <2>1 DEF NoticeInv
  <2> QED BY <2>3, <2>4, <2>5, <2>6
<1>5. CASE Operator \/ UNCHANGED joint_vars
  <2>1. /\ UNCHANGED <<status, waited, lead, health_age, last_health_level, ok_seen>>
        /\ Missed' = Missed
        /\ state' = state \/ state' \in {"ERROR", "SHUTDOWN"}
    BY <1>5 DEF Operator, joint_vars, vars, monitor_vars, topic_vars, Missed,
                RequestRecovery, Shutdown, DeferredShutdown
  <2>2. TopicInv' /\ AlarmInv'
    BY <1>a, <2>1 DEF TopicInv, AlarmInv
  <2>3. LevelInv' /\ NoticeInv'
    BY <1>a, <2>1 DEF LevelInv, NoticeInv, Working
  <2> QED BY <2>2, <2>3
<1> QED BY <1>1, <1>2, <1>3, <1>4, <1>5 DEF JointNext

LEMMA JointInit0 == JointInit => JointInv
<1> SUFFICES ASSUME JointInit PROVE JointInv
  OBVIOUS
<1>1. /\ scan_seen = FALSE /\ scan_age = 0 /\ diag_age = NoTime /\ last_diag_level = "STALE"
      /\ consecutive_warns = 0 /\ status = <<>> /\ waited = 0 /\ lead = 0
      /\ state = "DRIVER_STARTING" /\ ok_seen = FALSE
  BY DEF JointInit, Monitor!Init, Init, Monitor!NoTime, NoTime
<1>2. status \in Seq(Level) /\ Len(status) = 0
  BY <1>1, EmptySeq
<1>3. JointTypeOK
  <2>1. waited \in 0 .. Len(status) /\ lead \in -1 .. 1 /\ consecutive_warns \in 0 .. WarnLimit
    BY <1>1, <1>2, MonitorConstants
  <2> QED BY <1>1, <1>2, <2>1 DEF JointTypeOK, Level
<1>4. Missed = 0
  BY <1>1 DEF Missed
<1>5. ~(Missed >= 4 + lead) /\ ~(Missed >= 5 + lead) /\ ~(Missed - 1 > Len(status))
  BY <1>1, <1>2, <1>4
<1>6. TopicInv
  BY <1>1, <1>2 DEF TopicInv
<1>7. AlarmInv /\ NoticeInv
  BY <1>2, <1>5 DEF AlarmInv, NoticeInv
<1>8. LevelInv
  BY <1>1 DEF LevelInv
<1> QED BY <1>3, <1>6, <1>7, <1>8 DEF JointInv

\* Whatever the monitor, the topic and the operator do, the variables of the supervision
\* stay in their types.
THEOREM JointTypeCorrect == JointSpec => []JointTypeOK
<1>1. JointInit => JointTypeOK
  BY JointInit0 DEF JointInv
<1> QED BY <1>1, JointTypeStep, PTL DEF JointSpec

\* The state machine behind the monitor and its topic is the state machine of
\* PorterStateMachine: all that is proved of it for any levels holds of it here.
THEOREM JointImplementsMachine == JointSpec => Spec
<1>1. JointInit => Init
  BY DEF JointInit
<1> QED BY <1>1, MachineStep, JointTypeCorrect, PTL DEF JointSpec, Spec

LEMMA JointInductive == JointSpec => []JointInv
<1>1. JointInv /\ SafetyInv /\ JointTypeOK' /\ [JointNext]_joint_vars => JointInv'
  BY JointStep DEF JointInv
<1> QED BY <1>1, JointInit0, JointTypeCorrect, JointImplementsMachine, SpecSafe, PTL
        DEF JointSpec

\* Lost scans end the operation: for every scan timeout, every timeout of the machine and
\* every interleaving of the timers, the topic and the operator, the system is out of its
\* working states NoticeLag ticks after the scan timeout, whatever the driver claims.
THEOREM LostScansSafe == JointSpec => []LostScansNoticed
<1>1. JointInv => LostScansNoticed
  <2> SUFFICES ASSUME JointInv, alive, scan_seen, scan_age > ScanTimeout + NoticeLag
               PROVE  state \notin Working
    BY DEF LostScansNoticed
  <2>1. Missed >= 5 + lead
    BY MonitorConstants DEF Missed, NoticeLag, JointInv, JointTypeOK
  <2> QED BY <2>1 DEF JointInv, NoticeInv
<1> QED BY <1>1, JointInductive, PTL
==============================================================================
