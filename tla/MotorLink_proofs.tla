-------------------------- MODULE MotorLink_proofs --------------------------
(***************************************************************************)
(* Proofs about the motor controller, alone and at the end of the line to  *)
(* the motor bridge, for every speed range, ramp step, period and timeout: *)
(* the types, the inductive invariant behind StopMeansStopped, DeadMan,    *)
(* AtRest and StaleCommandsDie, and the one of the link behind             *)
(* LostLinkStops, SilenceStops and HealthyLinkNeverFaults.                 *)
(***************************************************************************)
EXTENDS MotorLink, SequenceTheorems, TLAPS

\* The limits the ages are compared with are numbers.
LEMMA LimitType ==
  /\ HeartbeatTimeout \in Nat /\ FaultDelay \in Nat
  /\ TicksPerHandler \in Nat /\ TicksPerHandler <= 1
  BY TimeAssumption DEF TimeAssumption

\* The clamp returns a duty.
LEMMA ClampType == ASSUME NEW v \in Int PROVE Clamp(v) \in Duty
  BY SpeedAssumption DEF Clamp, Duty

\* Ramping stays inside the duty range and is the identity at the goal.
LEMMA RampType ==
  ASSUME NEW c \in Duty, NEW g \in Duty, NEW step \in 1 .. MaxSpeed
  PROVE  /\ ramp_towards(c, g, step) \in Duty
         /\ c = g => ramp_towards(c, g, step) = g
  BY SpeedAssumption DEF ramp_towards, Duty

\* The ages stay below their saturation.
LEMMA AgedType ==
  ASSUME NEW limit \in Nat, NEW age \in 0 .. limit + 2
  PROVE  /\ Aged(age, limit) \in 0 .. limit + 2
         /\ age <= limit => Aged(age, limit) <= limit + 1
  BY DEF Aged, NoTime

\* What the answer of a comparison with a limit says of the age.
LEMMA BeyondMeans ==
  ASSUME NEW age \in Int, NEW limit \in Int
  PROVE  /\ FALSE \in Beyond(age, limit) => age <= limit
         /\ TRUE \in Beyond(age, limit) => age >= limit
<1>1. age = limit \/ Beyond(age, limit) = {age > limit}
  BY DEF Beyond
<1>2. \A answer : /\ FALSE \in {answer} => answer = FALSE
                  /\ TRUE \in {answer} => answer = TRUE
  OBVIOUS
<1>3. CASE Beyond(age, limit) = {age > limit}
  <2>1. /\ FALSE \in Beyond(age, limit) => (age > limit) = FALSE
        /\ TRUE \in Beyond(age, limit) => (age > limit) = TRUE
    BY <1>2, <1>3, Zenon
  <2>2. /\ (age > limit) = FALSE => age <= limit
        /\ (age > limit) = TRUE => age >= limit
    OBVIOUS
  <2> QED BY <2>1, <2>2
<1>4. age = limit => age <= limit /\ age >= limit
  OBVIOUS
<1> QED BY <1>1, <1>3, <1>4

\* What the entry functions and the passing of a tick leave behind.
LEMMA HaltType ==
  ASSUME Halt, ramp_enabled \in BOOLEAN
  PROVE  /\ target' \in [Side -> Duty] /\ actual' \in [Side -> Duty]
         /\ pwm' \in [Side -> Duty] /\ en' \in BOOLEAN
         /\ stale' \in [Side -> BOOLEAN] /\ ramp_enabled' \in BOOLEAN
  <1>1. Stopped \in [Side -> Duty]
    BY SpeedAssumption DEF Stopped, Duty
  <1> QED BY <1>1 DEF Halt

LEMMA ElapseType ==
  ASSUME Elapse, hb_age \in 0 .. HeartbeatTimeout + 2, fault_age \in 0 .. FaultDelay + 2
  PROVE  /\ hb_age' \in 0 .. HeartbeatTimeout + 2
         /\ fault_age' \in 0 .. FaultDelay + 2
  BY LimitType DEF Elapse, Aged, NoTime

LEMMA GotoType ==
  ASSUME pc \in [Thread -> Label], NEW t \in Thread, NEW l \in Label, Goto(t, l)
  PROVE  pc' \in [Thread -> Label]
  BY DEF Goto

LEMMA TypeStep == TypeOK /\ [Next]_vars => TypeOK'
<1> SUFFICES ASSUME TypeOK, [Next]_vars PROVE TypeOK'
  OBVIOUS
<1> USE SpeedAssumption, LimitType
<1>1. CASE MainTick
  <2>1. preempted' \in [Thread -> Nat]
    BY <1>1 DEF MainTick, TypeOK
  <2>2. Stopped \in [Side -> Duty]
    BY DEF Stopped, Duty
  <2>3. CASE EstopTick
    BY <1>1, <2>1, <2>3, HaltType, ElapseType
       DEF MainTick, EstopTick, TypeOK, State
  <2>4. CASE IdleStartTick
    <3>1. hb_age' \in 0 .. HeartbeatTimeout + 2
      BY <2>4 DEF IdleStartTick
    <3>2. state' \in State /\ en' \in BOOLEAN
      BY <2>4 DEF IdleStartTick, State
    <3> QED BY <1>1, <2>1, <2>4, <3>1, <3>2 DEF MainTick, IdleStartTick, TypeOK, command
  <2>5. CASE HeartbeatFaultTick
    <3>1. hb_age' \in 0 .. HeartbeatTimeout + 2
      BY <2>5, AgedType DEF HeartbeatFaultTick, TypeOK
    <3>2. fault_age' \in 0 .. FaultDelay + 2
      BY <2>5 DEF HeartbeatFaultTick
    <3> QED BY <1>1, <2>1, <2>5, <3>1, <3>2, HaltType
            DEF MainTick, HeartbeatFaultTick, TypeOK, State
  <2>6. CASE RampTick
    <3> DEFINE step == IF ramp_enabled THEN RampStep ELSE MaxSpeed
               next == [s \in Side |-> ramp_towards(actual[s], target[s], step)]
    <3>1. next \in [Side -> Duty]
      <4>1. step \in 1 .. MaxSpeed
        OBVIOUS
      <4> HIDE DEF step
      <4> QED BY <4>1, RampType DEF TypeOK
    <3>2. /\ target' \in [Side -> Duty] /\ actual' \in [Side -> Duty]
          /\ pwm' \in [Side -> Duty] /\ en' \in BOOLEAN
          /\ stale' \in [Side -> BOOLEAN] /\ ramp_enabled' \in BOOLEAN
          /\ state' \in State
      <4> HIDE DEF next
      <4>1. CASE state' = "IDLE" /\ Halt
        BY <4>1, HaltType DEF TypeOK, State
      <4>2. CASE actual' = next /\ pwm' = next
                 /\ UNCHANGED <<state, target, ramp_enabled, en, stale>>
        BY <4>2, <3>1 DEF TypeOK
      <4>3. \/ state' = "IDLE" /\ Halt
            \/ actual' = next /\ pwm' = next
               /\ UNCHANGED <<state, target, ramp_enabled, en, stale>>
        BY <2>6 DEF RampTick, next, step
      <4> QED BY <4>1, <4>2, <4>3
    <3>3. /\ Elapse /\ UNCHANGED fault_code
      BY <2>6 DEF RampTick
    <3> QED
      BY <1>1, <2>1, <3>2, <3>3, ElapseType DEF MainTick, TypeOK
  <2>7. CASE FaultClearTick
    BY <1>1, <2>1, <2>7, HaltType, ElapseType
       DEF MainTick, FaultClearTick, TypeOK, State
  <2>8. CASE QuietTick
    BY <1>1, <2>1, <2>8, ElapseType
       DEF MainTick, QuietTick, TypeOK, command, outputs
  <2> QED BY <1>1, <2>3, <2>4, <2>5, <2>6, <2>7, <2>8 DEF MainTick
<1>2. ASSUME NEW t \in Thread, HandlerStep(t) PROVE TypeOK'
  <2>1. /\ arg' \in [Thread -> [left : Duty, right : Duty, ramp : BOOLEAN]]
        /\ preempted' \in [Thread -> Nat]
    <3>1. NoArg \in [left : Duty, right : Duty, ramp : BOOLEAN]
      BY DEF NoArg, Duty
    <3> QED BY <1>2, <3>1 DEF HandlerStep, TypeOK
  <2>2. Stopped \in [Side -> Duty] /\ [s \in Side |-> FALSE] \in [Side -> BOOLEAN]
    BY DEF Stopped, Duty
  <2>3. CASE StoreLeft(t) \/ StoreRight(t)
    <3>1. ASSUME NEW s \in Side, NEW l \in Label, StoreTarget(t, s, l) PROVE TypeOK'
      <4>1. arg[t][s] \in Duty
        BY <3>1 DEF TypeOK, Side
      <4> QED BY <2>1, <3>1, <4>1, GotoType DEF StoreTarget, TypeOK, machine, outputs
    <3> QED BY <2>3, <3>1 DEF StoreLeft, StoreRight, Label, Side
  <2>4. CASE StoreRamp(t) \/ ShellRefresh(t)
    BY <2>1, <2>4 DEF StoreRamp, ShellRefresh, Goto, TypeOK, Label, machine, outputs,
       command, history
  <2>5. CASE ZeroTargets(t) \/ ZeroActuals(t) \/ ZeroPwm(t)
    BY <2>1, <2>2, <2>5 DEF ZeroTargets, ZeroActuals, ZeroPwm, Goto, TypeOK, Label,
       machine, outputs, command, history
  <2>6. CASE PublishEstop(t) \/ ClearFault(t) \/ ExitState(t)
    BY <2>1, <2>2, <2>6 DEF PublishEstop, ClearFault, ExitState, Goto, TypeOK, Label,
       machine, outputs, command, history
  <2>7. CASE DisableMotors(t) \/ SetCurrent(t)
    <3>1. pc' \in [Thread -> Label]
      BY <2>7, GotoType DEF DisableMotors, SetCurrent, TypeOK, Label
    <3>2. CASE DisableMotors(t)
      BY <2>1, <3>1, <3>2 DEF DisableMotors, TypeOK, machine, outputs, command, history
    <3>3. CASE SetCurrent(t)
      <4>1. fault_age' \in 0 .. FaultDelay + 2 /\ state' \in State
        BY <3>3 DEF SetCurrent, State
      <4> QED BY <2>1, <3>1, <3>3, <4>1
              DEF SetCurrent, TypeOK, outputs, command, history
    <3> QED BY <2>7, <3>2, <3>3
  <2> QED BY <1>2, <2>3, <2>4, <2>5, <2>6, <2>7 DEF HandlerStep
<1>3. CASE Request
  <2>1. CASE ReceiveOther \/ ReceiveStop \/ ReceiveReset
    BY <2>1 DEF ReceiveOther, ReceiveStop, ReceiveReset, ReceiveAt, Goto, TypeOK,
       Label, machine, command, outputs, threads, history
  <2>2. ASSUME NEW l \in Speeds, NEW r \in Speeds, NEW ramp \in BOOLEAN,
               ReceiveSetSpeed(l, r, ramp)
        PROVE  TypeOK'
    <3>1. [left |-> Clamp(l), right |-> Clamp(r), ramp |-> ramp]
            \in [left : Duty, right : Duty, ramp : BOOLEAN]
      BY ClampType
    <3>2. arg' \in [Thread -> [left : Duty, right : Duty, ramp : BOOLEAN]]
      BY <2>2, <3>1 DEF ReceiveSetSpeed, TypeOK
    <3> QED BY <2>2, <3>2, GotoType DEF ReceiveSetSpeed, ReceiveAt, TypeOK,
       Label, Thread, machine, command, outputs, history
  <2>3. CASE ShellStop \/ ShellReset
    BY <2>3 DEF ShellStop, ShellReset, ShellAt, Goto, TypeOK,
       Label, machine, command, outputs, history
  <2>4. ASSUME NEW l \in Speeds, NEW r \in Speeds, ShellSpeed(l, r) PROVE TypeOK'
    <3>1. [left |-> Clamp(l), right |-> Clamp(r), ramp |-> TRUE]
            \in [left : Duty, right : Duty, ramp : BOOLEAN]
      BY ClampType
    <3>2. arg' \in [Thread -> [left : Duty, right : Duty, ramp : BOOLEAN]]
      BY <2>4, <3>1 DEF ShellSpeed, TypeOK
    <3> QED BY <2>4, <3>2, GotoType DEF ShellSpeed, ShellAt, TypeOK,
       Label, Thread, machine, command, outputs, history
  <2> QED BY <1>3, <2>1, <2>2, <2>3, <2>4 DEF Request
<1>4. CASE UNCHANGED vars
  BY <1>4 DEF vars, machine, command, outputs, threads, history, TypeOK
<1> QED BY <1>1, <1>2, <1>3, <1>4 DEF Next

LEMMA TypeInit == Init => TypeOK
<1> SUFFICES ASSUME Init PROVE TypeOK
  OBVIOUS
<1>1. 0 \in Duty
  BY SpeedAssumption DEF Duty
<1>2. Stopped \in [Side -> Duty] /\ NoArg \in [left : Duty, right : Duty, ramp : BOOLEAN]
  BY <1>1 DEF Stopped, NoArg
<1>3. "idle" \in Label
  BY DEF Label
<1>4. fault_age \in 0 .. FaultDelay + 2 /\ hb_age \in 0 .. HeartbeatTimeout + 2
  BY LimitType DEF Init
<1>5. pc \in [Thread -> Label]
  BY <1>3 DEF Init
<1>6. arg \in [Thread -> [left : Duty, right : Duty, ramp : BOOLEAN]]
  BY <1>2 DEF Init
<1> QED BY <1>2, <1>4, <1>5, <1>6 DEF Init, TypeOK, State

\* Every state of every behaviour is well typed.
THEOREM TypeCorrect == Spec => []TypeOK
  BY TypeInit, TypeStep, PTL DEF Spec

----------------------------------------------------------------------------
(***************************************************************************)
(* The safety invariant.                                                   *)
(***************************************************************************)

\* A tick leaves RUNNING as the only state in which outputs may be on, and a
\* tick that runs at all finds the outputs of the other states off.
LEMMA TickSafety ==
  ASSUME SafetyInv, TypeOK', MainTick
  PROVE  SafetyInv'
<1> USE DEF Thread
<1>1. /\ UNCHANGED <<safety_event, pc, arg, stop_pending>>
      /\ \A t \in Thread : pc[t] # "idle" => preempted'[t] > 0
      /\ \A t \in Thread : pc[t] # "idle" => ~(preempted[t] > 0)
  BY TimeAssumption DEF MainTick, SafetyInv, TypeOK, TimeAssumption
<1>2. state # "RUNNING" => pwm = Stopped
  BY <1>1 DEF SafetyInv, RestInv, TypeOK, State
<1>3. ASSUME Halt, state' # "RUNNING", safety_event' = safety_event PROVE SafetyInv'
  <2>1. target' = Stopped /\ actual' = Stopped /\ pwm' = Stopped /\ en' = FALSE
    BY <1>3 DEF Halt
  <2>2. RestInv'
    BY <2>1, <1>3 DEF RestInv
  <2>3. StopInv'
    BY <2>1, <1>1 DEF StopInv, SafetyInv
  <2>4. DeadMan'
    BY <2>1 DEF DeadMan, Stopped
  <2>5. ~(\E s \in Side : stale'[s])
    BY <1>3 DEF Halt
  <2>6. StaleInv'
    BY <2>5 DEF StaleInv
  <2> QED BY <2>2, <2>3, <2>4, <2>6 DEF SafetyInv
<1>4. CASE EstopTick \/ HeartbeatFaultTick \/ FaultClearTick
  BY <1>1, <1>3, <1>4 DEF EstopTick, HeartbeatFaultTick, FaultClearTick
<1>5. CASE IdleStartTick
  <2>1. pwm' = Stopped /\ target' = target /\ actual' = actual /\ state' = "RUNNING"
    BY <1>2, <1>5 DEF IdleStartTick, command
  <2>2. RestInv'
    BY <2>1 DEF RestInv
  <2>3. StopInv'
    BY <2>1, <1>1 DEF StopInv, SafetyInv
  <2>4. DeadMan'
    BY <2>1 DEF DeadMan, Stopped
  <2>5. StaleInv'
    BY <2>1, <1>1, <1>5 DEF StaleInv, SafetyInv, IdleStartTick
  <2> QED BY <2>2, <2>3, <2>4, <2>5 DEF SafetyInv
<1>6. CASE RampTick
  <2> DEFINE step == IF ramp_enabled THEN RampStep ELSE MaxSpeed
             next == [s \in Side |-> ramp_towards(actual[s], target[s], step)]
  <2>1. CASE state' = "IDLE" /\ Halt
    BY <1>1, <1>3, <2>1
  <2>2. CASE /\ ~(target = Stopped /\ next = Stopped)
             /\ actual' = next /\ pwm' = next
             /\ UNCHANGED <<state, target, ramp_enabled, en, stale>>
    <3>1. /\ state = "RUNNING" /\ safety_event # EstopEvent /\ hb_age <= HeartbeatTimeout
          /\ hb_age' = Aged(hb_age, HeartbeatTimeout)
      <4>1. hb_age \in Int /\ HeartbeatTimeout \in Int
        BY LimitType DEF SafetyInv, TypeOK
      <4>2. FALSE \in Beyond(hb_age, HeartbeatTimeout)
        BY <1>6 DEF RampTick, heartbeat_expired
      <4> QED BY <1>6, <4>1, <4>2, BeyondMeans DEF RampTick, Elapse
    <3>2. target = Stopped /\ actual = Stopped => next = Stopped
      <4>1. step \in 1 .. MaxSpeed /\ 0 \in Duty
        BY SpeedAssumption DEF Duty
      <4> HIDE DEF step
      <4> QED BY <4>1, RampType DEF Stopped
    <3>3. RestInv'
      BY <1>1, <2>2, <3>1 DEF RestInv
    <3>4. StopInv'
      <4> HIDE DEF next
      <4> QED BY <1>1, <2>2, <3>1, <3>2 DEF StopInv, SafetyInv
    <3>5. DeadMan'
      BY <3>1, LimitType, AgedType DEF DeadMan, SafetyInv, TypeOK
    <3>6. StaleInv'
      BY <1>1, <2>2, <3>1 DEF StaleInv, SafetyInv
    <3> QED BY <3>3, <3>4, <3>5, <3>6 DEF SafetyInv
  <2> QED BY <1>6, <2>1, <2>2 DEF RampTick
<1>7. CASE QuietTick
  <2>1. /\ state # "RUNNING" /\ pwm = Stopped
        /\ UNCHANGED <<state, target, actual, pwm, en, stale>>
    BY <1>2, <1>7 DEF QuietTick, command, outputs
  <2>2. RestInv'
    BY <1>1, <2>1 DEF RestInv, SafetyInv
  <2>3. StopInv'
    BY <1>1, <2>1 DEF StopInv, SafetyInv
  <2>4. DeadMan'
    BY <2>1 DEF DeadMan, Stopped
  <2>5. StaleInv'
    BY <1>1, <2>1 DEF StaleInv, SafetyInv
  <2> QED BY <2>2, <2>3, <2>4, <2>5 DEF SafetyInv
<1> QED BY <1>4, <1>5, <1>6, <1>7 DEF MainTick
\* What every step of a handler has in common.
LEMMA HandlerFrame ==
  ASSUME SafetyInv, NEW t \in Thread, HandlerStep(t)
  PROVE  /\ pc[t] # "idle" /\ CanRun(t)
         /\ \A u \in Thread \ {t} : pc'[u] = pc[u] /\ preempted'[u] = preempted[u]
         /\ pc'[t] # "idle" => preempted'[t] = preempted[t]
<1>1. \A l : Goto(t, l) => \A u \in Thread \ {t} : pc'[u] = pc[u]
  BY DEF Goto, SafetyInv, TypeOK
<1>2. pc[t] # "idle" /\ \E l : Goto(t, l)
  BY DEF HandlerStep, StoreLeft, StoreRight, StoreTarget, StoreRamp, ShellRefresh,
         ZeroTargets, ZeroActuals, ZeroPwm, PublishEstop, ClearFault, ExitState,
         DisableMotors, SetCurrent
<1>3. /\ \A u \in Thread \ {t} : preempted'[u] = preempted[u]
      /\ pc'[t] # "idle" => preempted'[t] = preempted[t]
  BY DEF HandlerStep, SafetyInv, TypeOK
<1> QED BY <1>1, <1>2, <1>3 DEF HandlerStep

\* A statement of a handler preserves the invariant, wherever ticks fell.
LEMMA HandlerSafety ==
  ASSUME SafetyInv, TypeOK', NEW t \in Thread, HandlerStep(t)
  PROVE  SafetyInv'
<1> USE HandlerFrame DEF Thread
<1>1. ASSUME NEW s \in Side, NEW l, StoreTarget(t, s, l), pc[t] \in {"left", "right"},
             l \in {"right", "ramp", "refresh"}
      PROVE  SafetyInv'
  <2>1. /\ UNCHANGED <<state, pwm, en, hb_age, safety_event, actual>>
        /\ pc'[t] = l
    BY <1>1 DEF StoreTarget, Goto, machine, outputs, SafetyInv, TypeOK
  <2>2. RestInv'
    BY <1>1, <2>1 DEF RestInv, SafetyInv
  <2>3. StopInv'
    BY <1>1, <2>1 DEF StopInv, SafetyInv, CanRun
  <2>4. DeadMan'
    BY <2>1 DEF DeadMan, SafetyInv
  <2>5. StaleInv'
    BY <1>1, <2>1 DEF StaleInv, SafetyInv, StoreTarget, TypeOK
  <2> QED BY <2>2, <2>3, <2>4, <2>5 DEF SafetyInv
<1>2. CASE StoreLeft(t) \/ StoreRight(t)
  BY <1>1, <1>2 DEF StoreLeft, StoreRight, Side
<1>3. CASE StoreRamp(t) \/ ShellRefresh(t) \/ ClearFault(t)
  <2>1. /\ UNCHANGED <<state, target, actual, pwm, en, safety_event, stale>>
        /\ hb_age' = hb_age \/ hb_age' = 0
        /\ pc[t] \in {"ramp", "refresh", "clear_fault"} /\ pc'[t] \in {"idle", "exit"}
    BY <1>3 DEF StoreRamp, ShellRefresh, ClearFault, Goto, machine, outputs, command,
                history, SafetyInv, TypeOK
  <2>2. RestInv'
    BY <2>1 DEF RestInv, SafetyInv
  <2>3. StopInv'
    BY <2>1 DEF StopInv, SafetyInv
  <2>4. DeadMan'
    BY <2>1, LimitType DEF DeadMan, SafetyInv
  <2>5. StaleInv'
    BY <2>1 DEF StaleInv, SafetyInv
  <2> QED BY <2>2, <2>3, <2>4, <2>5 DEF SafetyInv
<1>4. CASE ZeroTargets(t)
  <2>1. /\ UNCHANGED <<state, actual, pwm, en, hb_age, safety_event>>
        /\ target' = Stopped
        /\ \/ pc[t] = "stop_targets" /\ pc'[t] = "stop_actuals"
           \/ pc[t] = "entry_targets" /\ pc'[t] = "entry_actuals"
    BY <1>4 DEF ZeroTargets, Goto, machine, outputs, SafetyInv, TypeOK
  <2>2. RestInv'
    BY <2>1 DEF RestInv, SafetyInv
  <2>3. StopInv'
    BY <2>1 DEF StopInv, SafetyInv, CanRun
  <2>4. DeadMan'
    BY <2>1 DEF DeadMan, SafetyInv
  <2>5. StaleInv'
    BY <1>4 DEF StaleInv, ZeroTargets
  <2> QED BY <2>2, <2>3, <2>4, <2>5 DEF SafetyInv
<1>5. CASE ZeroActuals(t)
  <2>1. /\ UNCHANGED <<state, target, pwm, en, hb_age, safety_event, stale>>
        /\ actual' = Stopped
        /\ \/ pc[t] = "stop_actuals" /\ pc'[t] = "stop_pwm"
           \/ pc[t] = "entry_actuals" /\ pc'[t] = "idle"
    BY <1>5 DEF ZeroActuals, Goto, machine, outputs, SafetyInv, TypeOK
  <2>2. RestInv'
    BY <2>1 DEF RestInv, SafetyInv
  <2>3. StopInv'
    BY <2>1 DEF StopInv, SafetyInv, CanRun
  <2>4. DeadMan'
    BY <2>1 DEF DeadMan, SafetyInv
  <2>5. StaleInv'
    BY <2>1 DEF StaleInv, SafetyInv
  <2> QED BY <2>2, <2>3, <2>4, <2>5 DEF SafetyInv
<1>6. CASE ZeroPwm(t)
  <2>1. /\ UNCHANGED <<state, target, actual, en, hb_age, safety_event, stale>>
        /\ pwm' = Stopped
        /\ \/ pc[t] = "stop_pwm" /\ pc'[t] = IF t = "proto" THEN "stop_event" ELSE "idle"
           \/ pc[t] = "entry_pwm" /\ pc'[t] = "entry_en"
    BY <1>6 DEF ZeroPwm, Goto, machine, command, history, SafetyInv, TypeOK
  <2>2. RestInv'
    BY <2>1 DEF RestInv, SafetyInv
  <2>3. StopInv'
    BY <2>1 DEF StopInv, SafetyInv, CanRun
  <2>4. DeadMan'
    BY <2>1 DEF DeadMan, SafetyInv
  <2>5. StaleInv'
    BY <2>1 DEF StaleInv, SafetyInv
  <2> QED BY <2>2, <2>3, <2>4, <2>5 DEF SafetyInv
<1>7. CASE PublishEstop(t)
  <2>1. /\ UNCHANGED <<state, target, actual, pwm, en, hb_age, stale>>
        /\ pc[t] = "stop_event" /\ pc'[t] = "idle"
    BY <1>7 DEF PublishEstop, Goto, machine, outputs, command, SafetyInv, TypeOK
  <2>2. RestInv'
    BY <2>1 DEF RestInv, SafetyInv
  <2>3. StopInv'
    BY <2>1 DEF StopInv, SafetyInv
  <2>4. DeadMan'
    BY <2>1 DEF DeadMan, SafetyInv
  <2>5. StaleInv'
    BY <2>1 DEF StaleInv, SafetyInv
  <2> QED BY <2>2, <2>3, <2>4, <2>5 DEF SafetyInv
<1>8. CASE ExitState(t)
  <2>1. /\ UNCHANGED <<state, target, actual, en, hb_age, safety_event, stale>>
        /\ pc[t] = "exit"
        /\ \/ pwm' = Stopped /\ pc'[t] = "exit_en"
           \/ state # "RUNNING" /\ pwm' = pwm /\ pc'[t] = "current"
    BY <1>8 DEF ExitState, Goto, machine, command, history, SafetyInv, TypeOK
  <2>2. RestInv'
    BY <2>1 DEF RestInv, SafetyInv
  <2>3. StopInv'
    BY <2>1 DEF StopInv, SafetyInv
  <2>4. DeadMan'
    BY <2>1 DEF DeadMan, SafetyInv
  <2>5. StaleInv'
    BY <2>1 DEF StaleInv, SafetyInv
  <2> QED BY <2>2, <2>3, <2>4, <2>5 DEF SafetyInv
<1>9. CASE DisableMotors(t)
  <2>1. /\ UNCHANGED <<state, target, actual, pwm, hb_age, safety_event, stale>>
        /\ en' = FALSE
        /\ \/ pc[t] = "exit_en" /\ pc'[t] = "current"
           \/ pc[t] = "entry_en" /\ pc'[t] = "entry_targets"
    BY <1>9 DEF DisableMotors, Goto, machine, command, history, SafetyInv, TypeOK
  <2>2. RestInv'
    BY <2>1 DEF RestInv, SafetyInv
  <2>3. StopInv'
    BY <2>1 DEF StopInv, SafetyInv
  <2>4. DeadMan'
    BY <2>1 DEF DeadMan, SafetyInv
  <2>5. StaleInv'
    BY <2>1 DEF StaleInv, SafetyInv
  <2> QED BY <2>2, <2>3, <2>4, <2>5 DEF SafetyInv
<1>10. CASE SetCurrent(t)
  <2>1. /\ UNCHANGED <<target, actual, pwm, en, hb_age, safety_event, stale>>
        /\ state' = "IDLE"
        /\ pc[t] = "current" /\ pc'[t] = "entry_pwm"
    BY <1>10 DEF SetCurrent, Goto, outputs, command, history, SafetyInv, TypeOK
  <2>2. RestInv'
    BY <2>1 DEF RestInv, SafetyInv, TypeOK, State
  <2>3. StopInv'
    BY <2>1 DEF StopInv, SafetyInv
  <2>4. DeadMan'
    BY <2>1 DEF DeadMan, SafetyInv
  <2>5. StaleInv'
    BY <2>1 DEF StaleInv, RestInv, SafetyInv, TypeOK, State
  <2> QED BY <2>2, <2>3, <2>4, <2>5 DEF SafetyInv
<1> QED BY <1>2, <1>3, <1>4, <1>5, <1>6, <1>7, <1>8, <1>9, <1>10 DEF HandlerStep

\* A request only starts a handler or refreshes the heartbeat.
LEMMA RequestSafety ==
  ASSUME SafetyInv, TypeOK', Request
  PROVE  SafetyInv'
<1> USE DEF Thread
<1>1. /\ UNCHANGED <<state, target, actual, pwm, en, safety_event, stale, preempted>>
      /\ hb_age' = hb_age \/ hb_age' = 0
      /\ \/ pc' = pc
         \/ \E t \in Thread :
              /\ pc[t] = "idle"
              /\ pc'[t] \in {"left", "stop_targets", "clear_fault"}
              /\ \A u \in Thread \ {t} : pc'[u] = pc[u]
  BY DEF Request, ReceiveOther, ReceiveStop, ReceiveReset, ReceiveSetSpeed, ReceiveAt,
         ShellStop, ShellReset, ShellSpeed, ShellAt, Goto, machine, command, outputs,
         threads, history, SafetyInv, TypeOK
<1>2. RestInv'
  BY <1>1 DEF RestInv, SafetyInv
<1>3. StopInv'
  BY <1>1 DEF StopInv, SafetyInv
<1>4. DeadMan'
  BY <1>1, LimitType DEF DeadMan, SafetyInv
<1>5. StaleInv'
  BY <1>1 DEF StaleInv, SafetyInv
<1> QED BY <1>2, <1>3, <1>4, <1>5 DEF SafetyInv

\* The safety invariant is inductive.
LEMMA SafetyInductive == Spec => []SafetyInv
<1>1. Init => SafetyInv
  BY TypeInit, LimitType
     DEF Init, SafetyInv, RestInv, StopInv, DeadMan, StaleInv, Thread, EstopEvent
<1>2. SafetyInv /\ [Next]_vars => SafetyInv'
  <2> SUFFICES ASSUME SafetyInv, [Next]_vars PROVE SafetyInv'
    OBVIOUS
  <2>1. TypeOK'
    BY TypeStep DEF SafetyInv
  <2>2. CASE UNCHANGED vars
    BY <2>1, <2>2 DEF vars, machine, command, outputs, threads, history,
                      SafetyInv, RestInv, StopInv, DeadMan, StaleInv
  <2> QED BY <2>1, <2>2, TickSafety, HandlerSafety, RequestSafety DEF Next
<1> QED BY <1>1, <1>2, PTL DEF Spec

\* For every timing, ramp and preemption: nothing drives a motor after the
\* emergency stop has been published.
THEOREM StopSafe == Spec => []StopMeansStopped
<1>1. SafetyInv => StopMeansStopped
  BY DEF SafetyInv, StopInv, StopMeansStopped
<1> QED BY <1>1, SafetyInductive, PTL

\* For every timeout: a duty is applied at most one tick longer than the
\* heartbeat timeout.
THEOREM DeadManSafe == Spec => []DeadMan
<1>1. SafetyInv => DeadMan
  BY DEF SafetyInv
<1> QED BY <1>1, SafetyInductive, PTL

\* The outputs are off in FAULT and ESTOP, and in IDLE once no reset runs.
THEOREM RestSafe == Spec => []AtRest
<1>1. SafetyInv => AtRest
  BY DEF SafetyInv, RestInv, AtRest
<1> QED BY <1>1, SafetyInductive, PTL

\* A command accepted in FAULT or ESTOP never reaches the motors.
THEOREM StaleSafe == Spec => []StaleCommandsDie
<1>1. SafetyInv => StaleCommandsDie
  BY DEF SafetyInv, TypeOK, State, RestInv, StaleInv, StaleCommandsDie, Stopped
<1> QED BY <1>1, SafetyInductive, PTL

----------------------------------------------------------------------------
(***************************************************************************)
(* The link.                                                               *)
(***************************************************************************)

LEMMA LinkLimits ==
  /\ Int16 \subseteq Speeds
  /\ WheelSpeeds \subseteq Int \X Int
  /\ CmdVelTimeout \in Nat /\ HeartbeatPeriod \in Nat \ {0} /\ MaxLost \in Nat
  /\ TicksPerPeriod \in Nat \ {0} /\ Lateness \in Nat /\ Lateness < TicksPerPeriod
  BY LinkAssumption DEF LinkAssumption

\* The products of periods and ticks are numbers.
LEMMA TickLimits ==
  /\ TimeoutTicks \in Nat /\ QuietTicks \in Nat /\ BeatTicks \in Nat
  /\ QuietTicks = TimeoutTicks + TicksPerPeriod
<1>1. \A m, n \in Nat : m * n \in Nat /\ m * (n + 1) = m * n + m
  OBVIOUS
<1> QED BY <1>1, LinkLimits DEF TimeoutTicks, QuietTicks, BeatTicks

\* Everything the bridge writes is a packet, and what the firmware reads is a speed.
LEMMA ByteRange == \A b : b \in Byte <=> b \in Nat /\ b < 256
  BY DEF Byte

LEMMA PacketType ==
  /\ Bridge!NoPacket \notin Packet
  /\ Bridge!Stop \in Packet /\ Bridge!Heartbeat \in Packet /\ Bridge!Status \in Packet
  /\ \A speeds \in WheelSpeeds : Bridge!SetSpeed(speeds) \in Packet
<1>1. ASSUME NEW v \in Int PROVE Bridge!HostBytes(v) \in Byte \X Byte
  <2>1. v % 256 \in Nat /\ v % 256 < 256 /\ v % 65536 \in Nat /\ v % 65536 < 65536
    OBVIOUS
  <2>2. \A u \in Nat : u < 65536 => u \div 256 \in Nat /\ u \div 256 < 256
    OBVIOUS
  <2> QED BY <2>1, <2>2, ByteRange DEF Bridge!HostBytes
<1>2. ASSUME NEW speeds \in WheelSpeeds PROVE speeds[1] \in Int /\ speeds[2] \in Int
  BY LinkLimits
<1>3. Bridge!NoPacket \notin Packet
  <2>1. \A packet \in Packet : packet.cmd # "NONE"
    BY DEF Packet
  <2> QED BY <2>1 DEF Bridge!NoPacket
<1> QED BY <1>1, <1>2, <1>3
        DEF Packet, Bridge!Stop, Bridge!Heartbeat, Bridge!Status, Bridge!SetSpeed

LEMMA SpeedType == ASSUME NEW bytes \in Byte \X Byte PROVE FromPayload(bytes) \in Speeds
<1>1. bytes[1] \in Nat /\ bytes[1] < 256 /\ bytes[2] \in Nat /\ bytes[2] < 256
  BY ByteRange
<1> DEFINE u == bytes[1] * 256 + bytes[2]
<1>2. u \in Nat /\ u < 2 * Sign /\ Sign \in Nat
  BY <1>1 DEF Sign
<1> HIDE DEF u
<1>3. (IF u >= Sign THEN u - 2 * Sign ELSE u) \in Int16
  BY <1>2 DEF Int16
<1> QED BY <1>3, LinkLimits DEF FromPayload, u

\* The line as a queue.
LEMMA LineAppend ==
  ASSUME NEW line \in Seq(Packet), NEW packet \in Packet
  PROVE  /\ Append(line, packet) \in Seq(Packet)
         /\ Append(line, packet) # <<>>
         /\ Len(Append(line, packet)) = Len(line) + 1
         /\ \A i \in 1 .. Len(line) : Append(line, packet)[i] = line[i]
         /\ Append(line, packet)[Len(line) + 1] = packet
         /\ \A cmd : Carries(Append(line, packet), cmd)
                       <=> Carries(line, cmd) \/ packet.cmd = cmd
<1>1. /\ Append(line, packet) \in Seq(Packet)
      /\ Len(Append(line, packet)) = Len(line) + 1
      /\ \A i \in 1 .. Len(line) : Append(line, packet)[i] = line[i]
      /\ Append(line, packet)[Len(line) + 1] = packet
  BY AppendProperties
<1>2. Len(line) \in Nat /\ DOMAIN line = 1 .. Len(line)
  BY LenProperties
<1>3. DOMAIN Append(line, packet) = 1 .. Len(line) + 1
  BY <1>1, LenProperties
<1>4. ASSUME NEW cmd
      PROVE  Carries(Append(line, packet), cmd) <=> Carries(line, cmd) \/ packet.cmd = cmd
  BY <1>1, <1>2, <1>3 DEF Carries
<1> QED BY <1>1, <1>2, <1>4

LEMMA LineTail ==
  ASSUME NEW line \in Seq(Packet), line # <<>>
  PROVE  /\ Tail(line) \in Seq(Packet) /\ Head(line) \in Packet
         /\ Len(line) \in Nat \ {0} /\ Len(Tail(line)) = Len(line) - 1
         /\ \A i \in 1 .. Len(line) - 1 : Tail(line)[i] = line[i + 1]
         /\ Head(line) = line[1]
         /\ \A cmd : Carries(line, cmd) <=> Head(line).cmd = cmd \/ Carries(Tail(line), cmd)
<1>1. /\ Tail(line) \in Seq(Packet) /\ Head(line) \in Packet
      /\ Len(line) \in Nat \ {0} /\ Len(Tail(line)) = Len(line) - 1
      /\ \A i \in 1 .. Len(line) - 1 : Tail(line)[i] = line[i + 1]
      /\ Head(line) = line[1]
  BY HeadTailProperties, EmptySeq, LenProperties
<1>2. DOMAIN line = 1 .. Len(line) /\ DOMAIN Tail(line) = 1 .. Len(line) - 1
  BY <1>1, LenProperties
<1>3. ASSUME NEW cmd
      PROVE  Carries(line, cmd) <=> Head(line).cmd = cmd \/ Carries(Tail(line), cmd)
  <2>1. ASSUME NEW i \in 1 .. Len(line), line[i].cmd = cmd
        PROVE  Head(line).cmd = cmd \/ Carries(Tail(line), cmd)
    <3>1. i = 1 \/ (i - 1 \in 1 .. Len(line) - 1 /\ i = (i - 1) + 1)
      BY <1>1
    <3> QED BY <1>1, <1>2, <2>1, <3>1 DEF Carries
  <2>2. ASSUME NEW i \in 1 .. Len(line) - 1, Tail(line)[i].cmd = cmd
        PROVE  Carries(line, cmd)
    <3>1. i + 1 \in 1 .. Len(line)
      BY <1>1
    <3> QED BY <1>1, <1>2, <2>2, <3>1 DEF Carries
  <2>3. 1 \in 1 .. Len(line)
    BY <1>1
  <2> QED BY <1>1, <1>2, <2>1, <2>2, <2>3 DEF Carries
<1> QED BY <1>1, <1>3

LEMMA LinePrefix ==
  ASSUME NEW line \in Seq(Packet), NEW n \in 0 .. Len(line)
  PROVE  /\ SubSeq(line, 1, n) \in Seq(Packet) /\ Len(SubSeq(line, 1, n)) = n
         /\ \A i \in 1 .. n : SubSeq(line, 1, n)[i] = line[i]
         /\ line = <<>> => SubSeq(line, 1, n) = <<>>
         /\ \A cmd : Carries(SubSeq(line, 1, n), cmd) => Carries(line, cmd)
<1>1. Len(line) \in Nat /\ DOMAIN line = 1 .. Len(line)
  BY LenProperties
<1>2. /\ SubSeq(line, 1, n) \in Seq(Packet) /\ Len(SubSeq(line, 1, n)) = n
      /\ \A i \in 1 .. n : SubSeq(line, 1, n)[i] = line[i]
  BY <1>1, SubSeqProperties
<1>3. line = <<>> => SubSeq(line, 1, n) = <<>>
  BY <1>1, <1>2, EmptySeq
<1>4. DOMAIN SubSeq(line, 1, n) = 1 .. n
  BY <1>1, <1>2, LenProperties
<1> QED BY <1>1, <1>2, <1>3, <1>4 DEF Carries

\* What a write does to the line and to the connection: it ends at once, or holds the
\* executor.
LEMMA WriteFacts ==
  ASSUME to_motors \in Seq(Packet), NEW packet \in Packet, Bridge!Write(packet)
  PROVE  /\ to_motors' \in Seq(Packet)
         /\ \/ to_motors' = Append(to_motors, packet) /\ connected' = connected
            \/ connected' = FALSE /\ to_motors' = to_motors
<1>1. Append(to_motors, packet) \in Seq(Packet)
  BY LineAppend
<1> QED BY <1>1 DEF Bridge!Write

LEMMA SendFacts ==
  ASSUME to_motors \in Seq(Packet), NEW packet \in Packet, Bridge!SendCommand(packet)
  PROVE  /\ connected /\ to_motors' \in Seq(Packet)
         /\ \/ /\ to_motors' = Append(to_motors, packet)
               /\ connected' = connected /\ writing' = writing
            \/ connected' = FALSE /\ to_motors' = to_motors /\ writing' = writing
            \/ connected' = connected /\ to_motors' = to_motors /\ writing' = packet
<1>1. connected
  BY DEF Bridge!SendCommand
<1>2. CASE Bridge!Write(packet) /\ UNCHANGED writing
  BY <1>1, <1>2, WriteFacts
<1>3. CASE writing' = packet /\ UNCHANGED <<connected, to_motors>>
  BY <1>1, <1>3
<1> QED BY <1>2, <1>3 DEF Bridge!SendCommand

\* Every callback of the bridge leaves the types of its variables alone.
LEMMA BridgeType ==
  ASSUME LinkTypeOK,
         \/ \E speeds \in WheelSpeeds : Bridge!CmdVel(speeds)
         \/ Bridge!Watchdog \/ Bridge!HeartbeatCallback \/ Bridge!StatusPoll
         \/ Bridge!Reconnect \/ Bridge!ReadError \/ Bridge!Terminate \/ Bridge!EndWrite
  PROVE  /\ running' \in BOOLEAN /\ connected' \in BOOLEAN /\ cmd_vel_active' \in BOOLEAN
         /\ vel_age' \in Nat /\ heartbeat_phase' \in 0 .. HeartbeatPeriod - 1
         /\ due' \subseteq Bridge!Timer /\ to_motors' \in Seq(Packet)
         /\ writing' \in Packet \cup {Bridge!NoPacket}
         /\ connected' => running'
         /\ writing' # Bridge!NoPacket => connected'
<1> USE LinkLimits DEF LinkTypeOK
<1>a. ASSUME Bridge!Ready PROVE writing = Bridge!NoPacket
  BY <1>a DEF Bridge!Ready
<1>1. CASE \E speeds \in WheelSpeeds : Bridge!CmdVel(speeds)
  <2>1. PICK speeds \in WheelSpeeds : Bridge!CmdVel(speeds)
    BY <1>1
  <2>2. CASE connected /\ cmd_vel_active' = TRUE /\ vel_age' = 0
             /\ Bridge!SendCommand(Bridge!SetSpeed(speeds))
    BY <1>a, <2>1, <2>2, PacketType, SendFacts DEF Bridge!CmdVel
  <2>3. CASE UNCHANGED <<connected, cmd_vel_active, vel_age, to_motors, writing>>
    BY <2>1, <2>3 DEF Bridge!CmdVel
  <2> QED BY <2>1, <2>2, <2>3 DEF Bridge!CmdVel, Bridge!port_vars
<1>2. CASE Bridge!Watchdog
  <2>1. running' = running /\ heartbeat_phase' = heartbeat_phase /\ due' \subseteq due
    BY <1>2 DEF Bridge!Watchdog, Bridge!Serve
  <2>2. CASE Bridge!SendCommand(Bridge!Stop) /\ cmd_vel_active' = FALSE /\ vel_age' = 0
    <3>1. writing = Bridge!NoPacket
      BY <1>2, <1>a DEF Bridge!Watchdog, Bridge!Serve
    <3> QED BY <2>1, <2>2, <3>1, PacketType, SendFacts
  <2>3. CASE UNCHANGED <<connected, cmd_vel_active, vel_age, to_motors, writing>>
    BY <2>1, <2>3
  <2> QED BY <1>2, <2>2, <2>3 DEF Bridge!Watchdog, Bridge!port_vars
<1>3. CASE Bridge!HeartbeatCallback
  BY <1>3, <1>a, PacketType, SendFacts
     DEF Bridge!HeartbeatCallback, Bridge!Serve, Bridge!SendIfConnected, Bridge!port_vars
<1>4. CASE Bridge!StatusPoll
  BY <1>4, <1>a, PacketType, SendFacts DEF Bridge!StatusPoll
<1>5. CASE Bridge!Reconnect
  <2>1. PICK n \in 0 .. Len(to_motors) : to_motors' = SubSeq(to_motors, 1, n)
    BY <1>5 DEF Bridge!Reconnect
  <2> QED BY <1>5, <1>a, <2>1, LinePrefix DEF Bridge!Reconnect, Bridge!Ready
<1>6. CASE Bridge!ReadError
  BY <1>6, <1>a DEF Bridge!ReadError
<1>7. CASE Bridge!Terminate
  <2>1. to_motors' = to_motors \/ to_motors' = Append(to_motors, Bridge!Stop)
    BY <1>7 DEF Bridge!Terminate
  <2>2. to_motors' \in Seq(Packet)
    BY <2>1, PacketType, LineAppend
  <2>3. /\ running' = FALSE /\ connected' = FALSE /\ cmd_vel_active' = FALSE
        /\ vel_age' = 0 /\ heartbeat_phase' = 0 /\ due' = {}
        /\ writing' = Bridge!NoPacket
    BY <1>7 DEF Bridge!Terminate
  <2>4. vel_age' \in Nat /\ heartbeat_phase' \in 0 .. HeartbeatPeriod - 1
    BY <2>3
  <2> QED BY <2>2, <2>3, <2>4
<1>8. CASE Bridge!EndWrite
  <2>1. writing \in Packet /\ Bridge!Write(writing) /\ writing' = Bridge!NoPacket
    BY <1>8 DEF Bridge!EndWrite
  <2> QED BY <1>8, <2>1, WriteFacts DEF Bridge!EndWrite
<1> QED BY <1>1, <1>2, <1>3, <1>4, <1>5, <1>6, <1>7, <1>8

\* The tick of the link.
LEMMA AtMostType ==
  ASSUME NEW limit \in Nat, NEW n \in Nat
  PROVE  /\ AtMost(limit, n) \in Nat /\ AtMost(limit, n) <= n /\ AtMost(limit, n) <= limit
         /\ n <= limit => AtMost(limit, n) = n
         /\ AtMost(limit, n) >= n \/ AtMost(limit, n) = limit
  BY DEF AtMost

LEMMA CountedType ==
  ASSUME NEW limit \in Nat, NEW n \in Nat
  PROVE  /\ Counted(n, limit) \in Nat /\ Counted(n, limit) <= n + 1
         /\ Counted(n, limit) <= limit
         /\ n < limit => Counted(n, limit) = n + 1
         /\ Counted(n, limit) >= n + 1 \/ Counted(n, limit) = limit
  BY DEF Counted, AtMost

\* What a tick does to the bridge and to the clocks.
LEMMA BridgeTickFacts ==
  ASSUME LinkTypeOK, Tick
  PROVE  /\ UNCHANGED <<running, connected, cmd_vel_active, writing, to_motors>>
         /\ vel_age' \in Nat /\ heartbeat_phase' \in 0 .. HeartbeatPeriod - 1
         /\ due \subseteq due' /\ due' \subseteq Bridge!Timer
         /\ phase' \in 0 .. TicksPerPeriod - 1 /\ behind' \in 0 .. Lateness
         /\ \/ /\ phase' = phase + 1
               /\ UNCHANGED <<heartbeat_phase, due, vel_age>>
            \/ /\ phase + 1 = TicksPerPeriod /\ phase' = 0
               /\ vel_age' = IF cmd_vel_active THEN Bridge!Aged(vel_age, CmdVelTimeout) ELSE 0
               /\ running => "watchdog" \in due'
               /\ ~running => due' = due /\ heartbeat_phase' = heartbeat_phase
               /\ running /\ heartbeat_phase + 1 # HeartbeatPeriod =>
                    /\ heartbeat_phase' = heartbeat_phase + 1
                    /\ "heartbeat" \in due' => "heartbeat" \in due
               /\ running /\ heartbeat_phase + 1 = HeartbeatPeriod =>
                    heartbeat_phase' = 0 /\ "heartbeat" \in due'
<1> USE LinkLimits DEF LinkTypeOK, Tick
<1>1. behind' \in 0 .. Lateness
  <2>1. behind \in Nat
    OBVIOUS
  <2>2. Counted(behind, Lateness) \in Nat /\ Counted(behind, Lateness) <= Lateness
    BY <2>1, CountedType
  <2> QED BY <2>2
<1>2. CASE phase + 1 = TicksPerPeriod
  <2>1. phase' = 0 /\ Bridge!Elapse
    BY <1>2 DEF BridgeTick
  <2>2. UNCHANGED <<running, connected, cmd_vel_active, writing, to_motors>>
    BY <2>1 DEF Bridge!Elapse, Bridge!port_vars
  <2>3. /\ vel_age' = IF cmd_vel_active THEN Bridge!Aged(vel_age, CmdVelTimeout) ELSE 0
        /\ vel_age' \in Nat
    BY <2>1 DEF Bridge!Elapse, Bridge!Aged, Bridge!NoTime
  <2>4. /\ running => due' = due \cup {"watchdog"} \cup
                           (IF heartbeat_phase + 1 = HeartbeatPeriod THEN {"heartbeat"} ELSE {})
        /\ ~running => due' = due /\ heartbeat_phase' = heartbeat_phase
        /\ running => heartbeat_phase' = IF heartbeat_phase + 1 = HeartbeatPeriod
                                         THEN 0 ELSE heartbeat_phase + 1
    BY <2>1 DEF Bridge!Elapse
  <2>6. heartbeat_phase' \in 0 .. HeartbeatPeriod - 1
    BY <2>4
  <2>7. /\ due \subseteq due' /\ due' \subseteq Bridge!Timer
        /\ running => "watchdog" \in due'
        /\ heartbeat_phase + 1 = HeartbeatPeriod /\ running => "heartbeat" \in due'
        /\ heartbeat_phase + 1 # HeartbeatPeriod => ("heartbeat" \in due' => "heartbeat" \in due)
    BY <2>4 DEF Bridge!Timer
  <2>5. phase' \in 0 .. TicksPerPeriod - 1
    BY <2>1
  <2> QED BY <1>1, <1>2, <2>1, <2>2, <2>3, <2>4, <2>5, <2>6, <2>7
<1>3. CASE phase + 1 # TicksPerPeriod
  <2>1. phase' = phase + 1 /\ UNCHANGED <<bridge_vars, to_motors>>
    BY <1>3 DEF BridgeTick
  <2>2. phase' \in 0 .. TicksPerPeriod - 1
    BY <1>3, <2>1
  <2> QED BY <1>1, <2>1, <2>2 DEF bridge_vars
<1> QED BY <1>2, <1>3

\* The types of the link.
LEMMA LinkTypeStep == LinkTypeOK /\ [LinkNext]_link_vars => LinkTypeOK'
<1> SUFFICES ASSUME LinkTypeOK, [LinkNext]_link_vars PROVE LinkTypeOK'
  OBVIOUS
<1> USE LinkLimits
<1>0. ASSUME KeepQuiet PROVE quiet' \in Nat
  BY <1>0, TickLimits, AtMostType DEF KeepQuiet, LinkTypeOK
<1>1. ASSUME OfBridge,
             \/ \E speeds \in WheelSpeeds : Bridge!CmdVel(speeds)
             \/ Bridge!Watchdog \/ Bridge!HeartbeatCallback \/ Bridge!StatusPoll
             \/ Bridge!Reconnect \/ Bridge!ReadError \/ Bridge!Terminate \/ Bridge!EndWrite,
             quiet' \in Nat, stop_lost' \in BOOLEAN
      PROVE  LinkTypeOK'
  <2>1. /\ running' \in BOOLEAN /\ connected' \in BOOLEAN /\ cmd_vel_active' \in BOOLEAN
        /\ vel_age' \in Nat /\ heartbeat_phase' \in 0 .. HeartbeatPeriod - 1
        /\ due' \subseteq Bridge!Timer /\ to_motors' \in Seq(Packet)
        /\ writing' \in Packet \cup {Bridge!NoPacket}
        /\ connected' => running'
        /\ writing' # Bridge!NoPacket => connected'
    BY <1>1, BridgeType
  <2>2. Len(to_motors') \in Nat
    BY <2>1, LenProperties
  <2>3. waited' \in 0 .. Len(to_motors') /\ lost' \in 0 .. MaxLost
    BY <1>1, <2>2 DEF OfBridge, AtMost, LinkTypeOK
  <2>4. /\ down' \in Nat /\ disturbed' \in BOOLEAN
        /\ phase' \in 0 .. TicksPerPeriod - 1 /\ behind' \in 0 .. Lateness
        /\ due' = {} => behind' = 0
    BY <1>1, <2>1 DEF OfBridge, LinkTypeOK
  <2> QED BY <1>1, <2>1, <2>3, <2>4 DEF LinkTypeOK
<1>2. ASSUME NEW speeds \in WheelSpeeds, Drive(speeds) PROVE LinkTypeOK'
  BY <1>1, <1>2 DEF Drive, LinkTypeOK
<1>3. CASE Watchdog
  BY <1>0, <1>1, <1>3 DEF Watchdog, LinkTypeOK
<1>4. CASE OtherCallback
  BY <1>0, <1>1, <1>4 DEF OtherCallback, LinkTypeOK
<1>9. CASE EndWrite
  BY <1>0, <1>1, <1>9 DEF EndWrite, LinkTypeOK
<1>5. CASE Handle \/ Lose
  <2>1. to_motors # <<>> /\ to_motors' = Tail(to_motors) /\ lost' \in 0 .. MaxLost
    BY <1>5 DEF Handle, Lose, LinkTypeOK
  <2>2. to_motors' \in Seq(Packet) /\ Len(to_motors') = Len(to_motors) - 1
        /\ Len(to_motors) \in Nat \ {0}
    BY <2>1, LineTail DEF LinkTypeOK
  <2>3. waited' \in 0 .. Len(to_motors')
    BY <1>5, <2>2 DEF Handle, Lose, LinkTypeOK
  <2>4. /\ UNCHANGED <<bridge_vars, clock_vars, quiet, down, disturbed>>
        /\ stop_lost' \in BOOLEAN
    BY <1>5 DEF Handle, Lose, history_vars, LinkTypeOK
  <2> QED BY <2>1, <2>2, <2>3, <2>4 DEF LinkTypeOK, bridge_vars, clock_vars
<1>6. CASE HandlePacket
  BY <1>6 DEF HandlePacket, LinkTypeOK, bridge_vars, clock_vars, line_vars, history_vars
<1>7. CASE Tick
  <2>1. /\ UNCHANGED <<running, connected, cmd_vel_active, writing, to_motors>>
        /\ vel_age' \in Nat /\ heartbeat_phase' \in 0 .. HeartbeatPeriod - 1
        /\ due' \subseteq Bridge!Timer
        /\ phase' \in 0 .. TicksPerPeriod - 1 /\ behind' \in 0 .. Lateness
        /\ due \subseteq due'
    BY <1>7, BridgeTickFacts
  <2>2. due' = {} => behind' = 0
    BY <1>7, <2>1 DEF Tick
  <2>3. waited' \in 0 .. Len(to_motors')
    BY <1>7, <2>1, LenProperties DEF Tick, LinkTypeOK
  <2>4. quiet' \in Nat /\ down' \in Nat
    <3>1. QuietTicks + QuietLag + 1 \in Nat /\ HeartbeatTimeout + LostLag + 1 \in Nat
      BY TickLimits, LimitType DEF QuietLag, LostLag
    <3> QED BY <1>7, <3>1, TickLimits, CountedType DEF Tick, LinkTypeOK
  <2>5. /\ lost' = lost /\ stop_lost' = stop_lost
        /\ disturbed' \in BOOLEAN
    BY <1>7 DEF Tick, LinkTypeOK, OnTime
  <2> QED BY <2>1, <2>2, <2>3, <2>4, <2>5 DEF LinkTypeOK
<1>8. CASE UNCHANGED link_vars
  BY <1>8 DEF link_vars, bridge_vars, clock_vars, line_vars, history_vars, LinkTypeOK
<1> QED BY <1>2, <1>3, <1>4, <1>5, <1>6, <1>7, <1>8, <1>9 DEF LinkNext

LEMMA LinkTypeInit == LinkInit => LinkTypeOK
<1> SUFFICES ASSUME LinkInit PROVE LinkTypeOK
  OBVIOUS
<1>1. to_motors = <<>> /\ to_motors \in Seq(Packet) /\ Len(to_motors) = 0
  BY EmptySeq DEF LinkInit, Bridge!Init
<1>2. /\ running = TRUE /\ connected \in BOOLEAN /\ cmd_vel_active = FALSE
      /\ disturbed = FALSE /\ stop_lost = FALSE /\ writing = Bridge!NoPacket
  BY DEF LinkInit, Bridge!Init
<1>3. vel_age = 0 /\ heartbeat_phase = 0 /\ due = {} /\ waited = 0 /\ lost = 0
      /\ quiet = 0 /\ down = 0 /\ phase = 0 /\ behind = 0
  BY DEF LinkInit, Bridge!Init
<1>4. /\ heartbeat_phase \in 0 .. HeartbeatPeriod - 1 /\ waited \in 0 .. Len(to_motors)
      /\ lost \in 0 .. MaxLost
      /\ phase \in 0 .. TicksPerPeriod - 1 /\ behind \in 0 .. Lateness
  BY <1>1, <1>3, LinkLimits
<1> QED BY <1>1, <1>2, <1>3, <1>4 DEF LinkTypeOK

\* The controller at the end of the line takes the steps of the controller alone.
LEMMA FirmwareStep == LinkTypeOK /\ [LinkNext]_link_vars => [Next]_vars
<1> SUFFICES ASSUME LinkTypeOK, [LinkNext]_link_vars PROVE [Next]_vars
  OBVIOUS
<1>1. CASE Handle
  <2>1. Receive(Head(to_motors)) /\ Head(to_motors) \in Packet
    BY <1>1, LineTail DEF Handle, LinkTypeOK
  <2>2. CASE Head(to_motors).cmd = "SET_SPEED"
    <3>1. /\ Head(to_motors).left \in Byte \X Byte
          /\ Head(to_motors).right \in Byte \X Byte
      BY <2>1, <2>2 DEF Packet
    <3> QED BY <2>1, <2>2, <3>1, SpeedType DEF Receive, Next, Request
  <2>3. CASE Head(to_motors).cmd # "SET_SPEED"
    BY <2>1, <2>3 DEF Receive, Next, Request
  <2> QED BY <2>2, <2>3
<1>2. CASE HandlePacket
  BY <1>2 DEF HandlePacket, Next, Thread
<1>3. CASE Tick
  BY <1>3 DEF Tick, Next
<1>4. CASE \/ Lose \/ OtherCallback \/ Watchdog \/ EndWrite
           \/ \E speeds \in WheelSpeeds : Drive(speeds)
  BY <1>4 DEF Lose, OtherCallback, Watchdog, EndWrite, Drive, OfBridge
<1>5. CASE UNCHANGED link_vars
  BY <1>5 DEF link_vars
<1> QED BY <1>1, <1>2, <1>3, <1>4, <1>5 DEF LinkNext

\* What the callbacks of the bridge have in common.
LEMMA CallbackFacts ==
  ASSUME LinkTypeOK,
         (\E speeds \in WheelSpeeds : Drive(speeds)) \/ Watchdog \/ OtherCallback \/ EndWrite
  PROVE  /\ Served /\ UNCHANGED vars /\ lost' = lost /\ phase' = phase
         /\ behind' = IF due' = {} THEN 0 ELSE behind
         /\ disturbed' = (disturbed \/ (connected /\ ~connected'))
         /\ down' = IF connected' = connected THEN down ELSE 0
         /\ waited' = AtMost(Len(to_motors'), waited)
         /\ due' \subseteq due
         /\ due' # {} \/ connected' => heartbeat_phase' = heartbeat_phase
         /\ connected' => running' = running
         /\ ~connected => \E n \in 0 .. Len(to_motors) : to_motors' = SubSeq(to_motors, 1, n)
         /\ connected /\ connected' =>
              \/ /\ to_motors' = to_motors /\ writing' = writing
                 /\ "heartbeat" \in due => "heartbeat" \in due'
              \/ \E packet \in Packet : to_motors' = Append(to_motors, packet)
              \/ to_motors' = to_motors /\ writing' # Bridge!NoPacket
<1>1. OfBridge
  BY DEF Drive, Watchdog, OtherCallback, EndWrite
<1>2. to_motors \in Seq(Packet) /\ Len(to_motors) \in Nat
      /\ SubSeq(to_motors, 1, Len(to_motors)) = to_motors
  BY LenProperties, SubSeqFull DEF LinkTypeOK
<1> DEFINE Framed ==
      /\ due' \subseteq due
      /\ due' # {} \/ connected' => heartbeat_phase' = heartbeat_phase
      /\ connected' => running' = running
      /\ ~connected => \E n \in 0 .. Len(to_motors) : to_motors' = SubSeq(to_motors, 1, n)
      /\ connected /\ connected' =>
           \/ /\ to_motors' = to_motors /\ writing' = writing
              /\ "heartbeat" \in due => "heartbeat" \in due'
           \/ \E packet \in Packet : to_motors' = Append(to_motors, packet)
           \/ to_motors' = to_motors /\ writing' # Bridge!NoPacket
<1>3. ASSUME UNCHANGED <<to_motors, writing, heartbeat_phase, running>>, due' \subseteq due,
             ~connected \/ ("heartbeat" \in due => "heartbeat" \in due')
      PROVE  Framed
  <2>1. Len(to_motors) \in 0 .. Len(to_motors)
    <3>1. \A n \in Nat : n \in 0 .. n
      OBVIOUS
    <3> QED BY <1>2, <3>1
  <2>2. ~connected => \E n \in 0 .. Len(to_motors) : to_motors' = SubSeq(to_motors, 1, n)
    BY <1>2, <1>3, <2>1
  <2> QED BY <1>3, <2>2
<1>4. ASSUME NEW packet \in Packet, Bridge!SendCommand(packet), due' \subseteq due,
             UNCHANGED <<heartbeat_phase, running>>
      PROVE  Framed
  <2>1. /\ connected
        /\ \/ to_motors' = Append(to_motors, packet)
           \/ connected' = FALSE
           \/ to_motors' = to_motors /\ writing' # Bridge!NoPacket
    <3>1. packet # Bridge!NoPacket
      BY PacketType
    <3> QED BY <1>2, <1>4, <3>1, SendFacts
  <2> QED BY <1>4, <2>1
<1>5. ASSUME NEW speeds \in WheelSpeeds, Bridge!CmdVel(speeds) PROVE Framed
  <2>1. UNCHANGED <<heartbeat_phase, running, due>>
    BY <1>5 DEF Bridge!CmdVel
  <2>2. Bridge!SetSpeed(speeds) \in Packet
    BY PacketType
  <2>3. Bridge!SendCommand(Bridge!SetSpeed(speeds)) \/ UNCHANGED <<to_motors, writing>>
    BY <1>5 DEF Bridge!CmdVel, Bridge!port_vars
  <2> HIDE DEF Framed
  <2> QED BY <1>3, <1>4, <2>1, <2>2, <2>3
<1>6. ASSUME Bridge!Watchdog PROVE Framed
  <2>1. UNCHANGED <<heartbeat_phase, running>> /\ due' = due \ {"watchdog"}
    BY <1>6 DEF Bridge!Watchdog, Bridge!Serve
  <2>2. Bridge!SendCommand(Bridge!Stop) \/ UNCHANGED <<to_motors, writing>>
    BY <1>6 DEF Bridge!Watchdog, Bridge!port_vars
  <2>3. due' \subseteq due /\ ("heartbeat" \in due => "heartbeat" \in due')
    BY <2>1
  <2> HIDE DEF Framed
  <2> QED BY <1>3, <1>4, <2>1, <2>2, <2>3, PacketType
<1>7. ASSUME Bridge!HeartbeatCallback PROVE Framed
  <2>1. UNCHANGED <<heartbeat_phase, running>> /\ due' \subseteq due
    BY <1>7 DEF Bridge!HeartbeatCallback, Bridge!Serve
  <2>2. CASE connected
    <3>1. Bridge!SendCommand(Bridge!Heartbeat)
      BY <1>7, <2>2 DEF Bridge!HeartbeatCallback, Bridge!SendIfConnected
    <3> HIDE DEF Framed
    <3> QED BY <1>4, <2>1, <3>1, PacketType
  <2>3. CASE ~connected
    <3>1. UNCHANGED <<connected, to_motors, writing>>
      BY <1>7, <2>3 DEF Bridge!HeartbeatCallback, Bridge!SendIfConnected, Bridge!port_vars
    <3> QED BY <1>3, <2>1, <2>3, <3>1
  <2> QED BY <2>2, <2>3
<1>8. ASSUME Bridge!StatusPoll PROVE Framed
  <2>1. Bridge!SendCommand(Bridge!Status) /\ UNCHANGED <<heartbeat_phase, running, due>>
    BY <1>8 DEF Bridge!StatusPoll
  <2> HIDE DEF Framed
  <2> QED BY <1>4, <2>1, PacketType
<1>9. ASSUME Bridge!Reconnect PROVE Framed
  BY <1>9 DEF Bridge!Reconnect
<1>10. ASSUME Bridge!ReadError PROVE Framed
  BY <1>10 DEF Bridge!ReadError
<1>11. ASSUME Bridge!Terminate PROVE Framed
  <2>1. connected' = FALSE /\ due' = {} /\ (~connected => to_motors' = to_motors)
    BY <1>11 DEF Bridge!Terminate
  <2> QED BY <1>2, <2>1
<1>12. ASSUME Bridge!EndWrite PROVE Framed
  <2>1. /\ UNCHANGED <<heartbeat_phase, running, due>>
        /\ writing \in Packet /\ connected /\ Bridge!Write(writing)
    BY <1>12 DEF Bridge!EndWrite, LinkTypeOK
  <2>2. to_motors' = Append(to_motors, writing) \/ connected' = FALSE
    BY <1>2, <2>1, WriteFacts
  <2> QED BY <2>1, <2>2
<1>13. Framed
  <2> HIDE DEF Framed
  <2> QED BY <1>5, <1>6, <1>7, <1>8, <1>9, <1>10, <1>11, <1>12
          DEF Drive, Watchdog, OtherCallback, EndWrite
<1> QED BY <1>1, <1>13 DEF OfBridge

\* The firmware side of a step: a packet restarts the clock of the heartbeat and starts at
\* most one of two handlers, which never reset; a tick lets the clock go on.
LEMMA HandleFacts ==
  ASSUME LinkTypeOK, TypeOK, Handle
  PROVE  /\ hb_age' = 0 /\ pc["proto"] = "idle" /\ lost' = 0
         /\ UNCHANGED <<state, fault_code, target, actual, pwm, safety_event, preempted>>
         /\ UNCHANGED <<bridge_vars, history_vars>>
         /\ pc'["proto"] = CASE Head(to_motors).cmd = "SET_SPEED" -> "left"
                             [] Head(to_motors).cmd = "STOP" -> "stop_targets"
                             [] OTHER -> "idle"
<1> USE DEF Handle, Receive
<1>1. pc["proto"] = "idle" /\ lost' = 0 /\ UNCHANGED <<bridge_vars, history_vars>>
  BY DEF Served
<1>2. CASE Head(to_motors).cmd = "SET_SPEED"
  BY <1>1, <1>2 DEF ReceiveSetSpeed, ReceiveAt, Goto, TypeOK, Thread, machine, command,
     outputs
<1>3. CASE Head(to_motors).cmd = "STOP"
  BY <1>1, <1>3 DEF ReceiveStop, ReceiveAt, Goto, TypeOK, Thread, machine, command, outputs
<1>4. CASE Head(to_motors).cmd \notin {"SET_SPEED", "STOP"}
  BY <1>1, <1>4 DEF ReceiveOther, machine, command, outputs, threads
<1> QED BY <1>2, <1>3, <1>4

LEMMA TickFacts ==
  ASSUME LinkTypeOK, TypeOK, MainTick
  PROVE  /\ UNCHANGED <<pc, safety_event>>
         /\ HandlerRuns => preempted["proto"] < TicksPerHandler
         /\ HandlerRuns => preempted'["proto"] >= 1
         /\ hb_age' >= 1 /\ hb_age' <= hb_age + 1
         /\ hb_age' > HeartbeatTimeout + 1 \/ hb_age' = hb_age + 1
              \/ (state = "IDLE" /\ target # Stopped)
         /\ state' = "IDLE" => target' = Stopped
         /\ target' # Stopped => target # Stopped
         /\ state' = "RUNNING" => state = "RUNNING" \/ target # Stopped
         /\ fault_code' = fault_code \/ (state = "RUNNING" /\ hb_age >= HeartbeatTimeout)
         /\ state # "RUNNING" /\ target = Stopped =>
              state' # "RUNNING" /\ (pwm' = pwm \/ pwm' = Stopped)
<1> USE LimitType
<1>1. /\ UNCHANGED <<pc, safety_event>>
      /\ HandlerRuns => preempted["proto"] < TicksPerHandler
      /\ HandlerRuns => preempted'["proto"] >= 1
  BY DEF MainTick, HandlerRuns, TypeOK, Thread
<1>2. \A age \in 0 .. HeartbeatTimeout + 2 :
        LET next == Aged(age, HeartbeatTimeout) IN
          /\ next >= 1 /\ next <= age + 1 /\ (next > HeartbeatTimeout + 1 \/ next = age + 1)
  BY DEF Aged, NoTime
<1>3. /\ hb_age \in 0 .. HeartbeatTimeout + 2
      /\ state \in {"IDLE", "RUNNING", "FAULT", "ESTOP"}
  BY DEF TypeOK, State
<1>4. CASE EstopTick
  BY <1>1, <1>2, <1>3, <1>4 DEF EstopTick, Elapse, Halt
<1>5. CASE IdleStartTick
  BY <1>1, <1>2, <1>3, <1>5 DEF IdleStartTick, command
<1>6. CASE HeartbeatFaultTick
  <2>1. TRUE \in Beyond(hb_age, HeartbeatTimeout)
    BY <1>6 DEF HeartbeatFaultTick, heartbeat_expired
  <2>3. hb_age \in Int /\ HeartbeatTimeout \in Int
    BY <1>3
  <2>2. hb_age >= HeartbeatTimeout
    BY <2>1, <2>3, BeyondMeans
  <2> QED BY <1>1, <1>2, <1>3, <1>6, <2>2 DEF HeartbeatFaultTick, Halt
<1>7. CASE RampTick
  <2>1. state = "RUNNING" /\ hb_age' = Aged(hb_age, HeartbeatTimeout)
        /\ fault_code' = fault_code
    BY <1>7 DEF RampTick, Elapse
  <2>2. (state' = "IDLE" /\ target' = Stopped) \/ (state' = state /\ target' = target)
    BY <1>7 DEF RampTick, Halt
  <2> QED BY <1>1, <1>2, <1>3, <2>1, <2>2
<1>8. CASE FaultClearTick
  BY <1>1, <1>2, <1>3, <1>8 DEF FaultClearTick, Elapse, Halt
<1>9. CASE QuietTick
  BY <1>1, <1>2, <1>3, <1>9 DEF QuietTick, Elapse, command, outputs
<1> QED BY <1>4, <1>5, <1>6, <1>7, <1>8, <1>9 DEF MainTick

\* A statement of one of the two handlers.
LEMMA StatementFacts ==
  ASSUME TypeOK, HandlerInv, HandlerStep("proto")
  PROVE  /\ HandlerRuns /\ HandlerInv'
         /\ UNCHANGED <<state, fault_code, hb_age>>
         /\ HandlerRuns' => preempted'["proto"] = preempted["proto"]
         /\ StopInForce => StopInForce'
         /\ StopRuns => /\ StopRuns' \/ StopInForce'
                        /\ ~SpeedRuns'
                        /\ target' = target \/ target' = Stopped
                        /\ pwm' = pwm \/ pwm' = Stopped
<1> USE DEF TypeOK, Thread, HandlerRuns, SpeedRuns, StopRuns, StopInForce, Goto
<1>1. HandlerRuns' => preempted'["proto"] = preempted["proto"]
  BY DEF HandlerStep
<1>2. CASE StoreLeft("proto") \/ StoreRight("proto")
  BY <1>1, <1>2 DEF StoreLeft, StoreRight, StoreTarget, machine, outputs, HandlerInv
<1>3. CASE StoreRamp("proto") \/ ShellRefresh("proto")
  BY <1>1, <1>3 DEF StoreRamp, ShellRefresh, machine, command, outputs, history, HandlerInv
<1>4. CASE ZeroTargets("proto") \/ ZeroActuals("proto")
  BY <1>1, <1>4 DEF ZeroTargets, ZeroActuals, machine, outputs, HandlerInv
<1>5. CASE ZeroPwm("proto") \/ PublishEstop("proto")
  BY <1>1, <1>5 DEF ZeroPwm, PublishEstop, machine, command, outputs, HandlerInv
<1>6. CASE ClearFault("proto") \/ ExitState("proto") \/ DisableMotors("proto")
             \/ SetCurrent("proto")
  BY <1>6 DEF ClearFault, ExitState, DisableMotors, SetCurrent, HandlerInv
<1> QED BY <1>2, <1>3, <1>4, <1>5, <1>6 DEF HandlerStep

LEMMA HandlerInvStep ==
  ASSUME LinkTypeOK, TypeOK, HandlerInv, [LinkNext]_link_vars
  PROVE  HandlerInv'
<1>1. CASE (\E speeds \in WheelSpeeds : Drive(speeds)) \/ Watchdog \/ OtherCallback \/ EndWrite
  BY <1>1, CallbackFacts DEF vars, threads, HandlerInv, HandlerRuns, SpeedRuns, StopRuns
<1>2. CASE Handle
  BY <1>2, HandleFacts DEF HandlerInv, HandlerRuns, SpeedRuns, StopRuns
<1>3. CASE HandlePacket
  BY <1>3, StatementFacts DEF HandlePacket
<1>4. CASE Tick
  BY <1>4, TickFacts DEF Tick, HandlerInv, HandlerRuns, SpeedRuns, StopRuns
<1>5. CASE Lose \/ UNCHANGED link_vars
  BY <1>5 DEF Lose, link_vars, vars, threads, HandlerInv, HandlerRuns, SpeedRuns, StopRuns
<1> QED BY <1>1, <1>2, <1>3, <1>4, <1>5 DEF LinkNext

\* A count that has lagged behind another by at most the lag still does when both grow.
LEMMA LagKept ==
  ASSUME NEW a \in Nat, NEW b \in Nat, NEW s \in Nat, NEW t \in Nat, NEW lag \in Nat,
         t <= s + 1, b >= 1
  PROVE  /\ s <= 1 + lag => b >= t - (1 + lag)
         /\ a >= s - (1 + lag) /\ b = a + 1 => b >= t - (1 + lag)
OBVIOUS

\* The line of a lost connection runs dry, and its heartbeat ages.
LEMMA LostStep ==
  ASSUME LinkTypeOK, LinkTypeOK', TypeOK, TypeOK', HandlerInv, LostInv, [LinkNext]_link_vars
  PROVE  LostInv'
<1> SUFFICES ASSUME ~connected' PROVE LostInv'
  BY DEF LostInv
<1> USE LimitType
<1>0. /\ to_motors \in Seq(Packet) /\ Len(to_motors) \in Nat /\ Len(to_motors') \in Nat
      /\ waited \in 0 .. Len(to_motors) /\ waited' \in 0 .. Len(to_motors')
      /\ down \in Nat /\ down' \in Nat
      /\ hb_age \in 0 .. HeartbeatTimeout + 2 /\ hb_age' \in 0 .. HeartbeatTimeout + 2
  BY LenProperties DEF LinkTypeOK, TypeOK
<1>1. CASE (\E speeds \in WheelSpeeds : Drive(speeds)) \/ Watchdog \/ OtherCallback \/ EndWrite
  <2>1. /\ UNCHANGED vars
        /\ down' = IF connected' = connected THEN down ELSE 0
        /\ waited' = AtMost(Len(to_motors'), waited)
        /\ ~connected => \E n \in 0 .. Len(to_motors) : to_motors' = SubSeq(to_motors, 1, n)
    BY <1>1, CallbackFacts
  <2>2. CASE connected
    <3>1. down' = 0
      BY <2>1, <2>2 DEF LinkTypeOK
    <3> QED BY <1>0, <3>1 DEF LostInv
  <2>3. CASE ~connected
    <3>1. down' = down
      BY <2>1, <2>3 DEF LinkTypeOK
    <3>2. PICK n \in 0 .. Len(to_motors) : to_motors' = SubSeq(to_motors, 1, n)
      BY <2>1, <2>3
    <3>3. Len(to_motors') = n /\ (to_motors = <<>> => to_motors' = <<>>)
      BY <1>0, <3>2, LinePrefix
    <3>4. down >= 1 => waited' = Len(to_motors')
      BY <1>0, <2>1, <2>3, <3>3 DEF LostInv, AtMost
    <3>5. UNCHANGED <<state, target, hb_age, pc, preempted>>
      BY <2>1 DEF vars, threads, command, machine
    <3> QED BY <2>3, <3>1, <3>3, <3>4, <3>5 DEF LostInv, HandlerRuns
  <2> QED BY <2>2, <2>3
<1>2. CASE Handle \/ Lose
  <2>1. /\ to_motors # <<>> /\ to_motors' = Tail(to_motors) /\ connected' = connected
        /\ down' = down /\ waited' = IF waited = 0 THEN 0 ELSE waited - 1
    BY <1>2 DEF Handle, Lose, bridge_vars, history_vars
  <2>2. down < 2
    BY <1>0, <2>1 DEF LostInv
  <2>3. Len(to_motors') = Len(to_motors) - 1
    BY <1>0, <2>1, LineTail
  <2>4. down >= 1 => waited' = Len(to_motors')
    BY <1>0, <2>1, <2>3 DEF LostInv
  <2> QED BY <1>0, <2>1, <2>2, <2>4 DEF LostInv
<1>3. CASE HandlePacket
  <2>1. /\ HandlerRuns /\ hb_age' = hb_age
        /\ HandlerRuns' => preempted'["proto"] = preempted["proto"]
        /\ UNCHANGED <<to_motors, waited, down, connected>>
    BY <1>3, StatementFacts DEF HandlePacket, bridge_vars, line_vars, history_vars
  <2>2. down < 2 + TicksPerHandler
    BY <1>0, <2>1 DEF LostInv
  <2> QED BY <1>0, <2>1, <2>2 DEF LostInv
<1>4. CASE Tick
  <2>1. /\ waited = 0 /\ waited' = Len(to_motors) /\ UNCHANGED <<to_motors, connected>>
        /\ down' <= down + 1
    <3>1. UNCHANGED <<to_motors, connected>>
      BY <1>4, BridgeTickFacts
    <3>2. waited = 0 /\ waited' = Len(to_motors)
      BY <1>4, <3>1 DEF Tick, LinkTypeOK
    <3>3. down' = Counted(down, HeartbeatTimeout + LostLag + 1)
      BY <1>4, <3>1 DEF Tick
    <3>4. HeartbeatTimeout + LostLag + 1 \in Nat
      BY DEF LostLag
    <3> QED BY <1>0, <3>1, <3>2, <3>3, <3>4, CountedType
  <2>2. /\ pc' = pc /\ (HandlerRuns => preempted["proto"] < TicksPerHandler)
        /\ HandlerRuns => preempted'["proto"] >= 1
        /\ hb_age' >= 1
        /\ hb_age' > HeartbeatTimeout + 1 \/ hb_age' = hb_age + 1
              \/ (state = "IDLE" /\ target # Stopped)
        /\ state' = "IDLE" => target' = Stopped
    BY <1>4, TickFacts DEF Tick
  <2>3. HandlerRuns' <=> HandlerRuns
    BY <2>2 DEF HandlerRuns
  <2>4. down >= 1 => to_motors = <<>>
    BY <1>0, <2>1, EmptySeq DEF LostInv
  <2>5. down' >= 2 + TicksPerHandler => ~HandlerRuns
    <3>1. CASE TicksPerHandler = 0
      BY <1>0, <2>2, <3>1 DEF TypeOK, Thread
    <3>2. CASE TicksPerHandler = 1
      <4>1. down' >= 3 => down >= 2
        BY <1>0, <2>1
      <4>2. HandlerRuns => ~(preempted["proto"] >= 1)
        BY <2>2, <3>2 DEF TypeOK, Thread
      <4>3. down' >= 2 + TicksPerHandler => down >= 2
        BY <3>2, <4>1
      <4> QED BY <2>1, <4>2, <4>3 DEF LostInv
    <3>3. TicksPerHandler = 0 \/ TicksPerHandler = 1
      OBVIOUS
    <3> QED BY <3>1, <3>2, <3>3
  <2>6. hb_age' > HeartbeatTimeout + 1 \/ hb_age' >= down' - (1 + TicksPerHandler)
    <3>1. /\ down \in Nat /\ down' \in Nat /\ down' <= down + 1
          /\ hb_age \in Nat /\ hb_age' \in Nat /\ hb_age' >= 1
      BY <1>0, <2>1, <2>2
    <3>2. /\ down <= 1 + TicksPerHandler => hb_age' >= down' - (1 + TicksPerHandler)
          /\ hb_age >= down - (1 + TicksPerHandler) /\ hb_age' = hb_age + 1
               => hb_age' >= down' - (1 + TicksPerHandler)
      BY <3>1, LagKept
    <3>3. CASE down <= 1 + TicksPerHandler
      BY <3>2, <3>3
    <3>4. CASE ~(down <= 1 + TicksPerHandler)
      <4>1. down >= 2 + TicksPerHandler
        BY <3>1, <3>4
      <4>2. ~(state = "IDLE" /\ target # Stopped)
        BY <2>1, <4>1 DEF LostInv
      <4>3. hb_age > HeartbeatTimeout + 1 => hb_age' > HeartbeatTimeout + 1
        BY <1>0, <2>2, <4>2
      <4>4. hb_age > HeartbeatTimeout + 1 \/ hb_age >= down - (1 + TicksPerHandler)
        BY <2>1 DEF LostInv
      <4> QED BY <2>2, <3>2, <4>2, <4>3, <4>4
    <3> QED BY <3>3, <3>4
  <2>7. down' >= 2 => down >= 1
    BY <1>0, <2>1
  <2> QED BY <2>1, <2>2, <2>3, <2>4, <2>5, <2>6, <2>7 DEF LostInv
<1>5. CASE UNCHANGED link_vars
  BY <1>5 DEF link_vars, bridge_vars, clock_vars, line_vars, history_vars, vars, threads, command,
     machine, LostInv, HandlerRuns
<1> QED BY <1>1, <1>2, <1>3, <1>4, <1>5 DEF LinkNext

\* Periods of the heartbeat, counted.
LEMMA BeatTimes ==
  ASSUME NEW a \in Nat, NEW b \in Nat
  PROVE  /\ Beats(a) \in Nat /\ Beats(b) \in Nat
         /\ a <= b => Beats(a) <= Beats(b)
         /\ a < b => Beats(a) + BeatTicks <= Beats(b)
<1>1. \A p, n \in Nat : p * n \in Nat /\ (n >= 1 => p * n >= p)
  <2>1. ASSUME NEW p \in Nat, NEW n \in Nat, n >= 1 PROVE p * n >= p
    <3>1. p * n = p * (n - 1) + p /\ p * (n - 1) >= 0
      BY <2>1
    <3> QED BY <3>1
  <2> QED BY <2>1
<1>2. BeatTicks * a \in Nat /\ BeatTicks * b \in Nat
  BY <1>1, TickLimits
<1>3. ASSUME a <= b
      PROVE  /\ BeatTicks * a <= BeatTicks * b
             /\ a < b => BeatTicks * a + BeatTicks <= BeatTicks * b
  <2>1. b - a \in Nat /\ (a < b => b - a >= 1)
    BY <1>3
  <2>2. BeatTicks * b = BeatTicks * a + BeatTicks * (b - a)
    BY TickLimits
  <2>3. /\ BeatTicks * (b - a) \in Nat
        /\ b - a >= 1 => BeatTicks * (b - a) >= BeatTicks
    BY <1>1, <2>1, TickLimits
  <2> QED BY <1>2, <2>1, <2>2, <2>3, TickLimits
<1>4. a < b => a <= b
  OBVIOUS
<1> QED BY <1>2, <1>3, <1>4 DEF Beats

\* Ticks of a count of periods.
LEMMA PeriodTimes ==
  ASSUME NEW t \in Nat, NEW n \in Nat, NEW m \in Nat, NEW p \in Nat, n < m, p < t
  PROVE  /\ t * n + p \in Nat /\ t * n + p < t * m
         /\ n + 1 = m /\ p + 1 = t => (t * n + p) + 1 = t * m
         /\ p + 1 = t => t * (n + 1) = (t * n + p) + 1
<1>1. t * n \in Nat /\ t * (m - n) \in Nat /\ t * m = t * n + t * (m - n)
  <2>1. m - n \in Nat
    OBVIOUS
  <2>2. \A k \in Nat : t * k \in Nat
    OBVIOUS
  <2> QED BY <2>1, <2>2
<1>2. t * (m - n) >= t /\ (n + 1 = m => t * (m - n) = t)
  <2>1. t * (m - n) = t * ((m - n) - 1) + t /\ (m - n) - 1 \in Nat
    OBVIOUS
  <2>2. t * ((m - n) - 1) \in Nat
    BY <2>1
  <2>3. n + 1 = m => m - n = 1
    OBVIOUS
  <2>4. t * 1 = t
    OBVIOUS
  <2> QED BY <2>1, <2>2, <2>3, <2>4
<1>3. t * (n + 1) = t * n + t
  OBVIOUS
<1>4. t * n + p \in Nat
  BY <1>1
<1>5. t * n + p < t * m
  BY <1>1, <1>2
<1>6. n + 1 = m /\ p + 1 = t => (t * n + p) + 1 = t * m
  BY <1>1, <1>2
<1>7. p + 1 = t => t * (n + 1) = (t * n + p) + 1
  BY <1>1, <1>3
<1> QED BY <1>4, <1>5, <1>6, <1>7

\* The age of the last period of the heartbeat.
LEMMA BeatAgeType ==
  ASSUME LinkTypeOK
  PROVE  BeatAge \in Nat /\ BeatAge < BeatTicks /\ (heartbeat_phase = 0 => BeatAge = phase)
<1>1. /\ TicksPerPeriod \in Nat /\ HeartbeatPeriod \in Nat /\ heartbeat_phase \in Nat
      /\ phase \in Nat /\ heartbeat_phase < HeartbeatPeriod /\ phase < TicksPerPeriod
  BY LinkLimits DEF LinkTypeOK
<1>2. BeatAge \in Nat /\ BeatAge < BeatTicks
  BY <1>1, PeriodTimes DEF BeatAge, BeatTicks
<1>3. heartbeat_phase = 0 => BeatAge = phase
  BY <1>1 DEF BeatAge
<1> QED BY <1>2, <1>3

LEMMA BeatAgeTick ==
  ASSUME LinkTypeOK, LinkTypeOK', Tick, running
  PROVE  \/ BeatAge' = BeatAge + 1
         \/ BeatAge' = 0 /\ BeatAge + 1 = BeatTicks /\ "heartbeat" \in due'
<1>1. /\ TicksPerPeriod \in Nat /\ HeartbeatPeriod \in Nat /\ heartbeat_phase \in Nat
      /\ phase \in Nat /\ heartbeat_phase < HeartbeatPeriod /\ phase < TicksPerPeriod
  BY LinkLimits DEF LinkTypeOK
<1>2. CASE phase' = phase + 1 /\ heartbeat_phase' = heartbeat_phase
  <2>1. BeatAge' = TicksPerPeriod * heartbeat_phase + (phase + 1)
    BY <1>2 DEF BeatAge
  <2>2. TicksPerPeriod * heartbeat_phase \in Nat
    BY <1>1
  <2> QED BY <1>1, <2>1, <2>2 DEF BeatAge
<1>3. CASE phase + 1 = TicksPerPeriod /\ phase' = 0 /\ heartbeat_phase' = heartbeat_phase + 1
  <2>1. BeatAge' = TicksPerPeriod * (heartbeat_phase + 1) + 0
    BY <1>3 DEF BeatAge
  <2>2. TicksPerPeriod * (heartbeat_phase + 1) = BeatAge + 1
    BY <1>1, <1>3, PeriodTimes DEF BeatAge
  <2>3. BeatAge \in Nat
    BY BeatAgeType
  <2> QED BY <2>1, <2>2, <2>3
<1>4. CASE /\ phase + 1 = TicksPerPeriod /\ heartbeat_phase + 1 = HeartbeatPeriod
           /\ phase' = 0 /\ heartbeat_phase' = 0 /\ "heartbeat" \in due'
  <2>1. BeatAge + 1 = BeatTicks
    BY <1>1, <1>4, PeriodTimes DEF BeatAge, BeatTicks
  <2>2. BeatAge' = TicksPerPeriod * 0 + 0
    BY <1>4 DEF BeatAge
  <2>3. \A n \in Nat : n * 0 + 0 = 0
    OBVIOUS
  <2> QED BY <1>1, <1>4, <2>1, <2>2, <2>3
<1> QED BY <1>2, <1>3, <1>4, BridgeTickFacts

\* An age within what pays for it, and what pays growing with it.
Within(age, paid, part, owed) == age <= paid + part + owed
Covers(next_paid, next_owed, paid, owed) == paid + owed <= next_paid + next_owed

LEMMA CoversKept ==
  ASSUME NEW paid \in Nat, NEW owed \in Nat, NEW next_paid \in Nat, NEW next_owed \in Nat,
         NEW beat \in Nat
  PROVE  /\ paid <= next_paid /\ (owed <= next_owed \/ owed = 0)
            => Covers(next_paid, next_owed, paid, owed)
         /\ paid + beat <= next_paid /\ owed <= beat => Covers(next_paid, next_owed, paid, owed)
  BY DEF Covers

\* What the age of the heartbeat may be before a tick, and what it may be after a step.
LEMMA AgeOnTime ==
  ASSUME NEW age \in Nat, NEW paid \in Nat, NEW all \in Nat, NEW beat \in Nat,
         NEW part \in Nat, NEW owed \in Nat, NEW timeout \in Nat, NEW late \in Nat,
         part < beat, paid + beat <= all, all + late < timeout,
         owed = 0 \/ (owed = beat /\ part <= late), Within(age, paid, part, owed)
  PROVE  age < timeout
  BY DEF Within

LEMMA AgeKept ==
  ASSUME NEW age \in Nat, NEW paid \in Nat, NEW part \in Nat, NEW owed \in Nat,
         NEW next_paid \in Nat, NEW next_owed \in Nat,
         Within(age, paid, part, owed), Covers(next_paid, next_owed, paid, owed)
  PROVE  Within(age, next_paid, part, next_owed)
  BY DEF Within, Covers

LEMMA AgeRestarted ==
  ASSUME NEW paid \in Nat, NEW part \in Nat, NEW owed \in Nat
  PROVE  Within(0, paid, part, owed)
  BY DEF Within

LEMMA AgeTicked ==
  ASSUME NEW age \in Nat, NEW paid \in Nat, NEW part \in Nat, NEW owed \in Nat,
         NEW next_age \in Nat, NEW next_paid \in Nat, NEW next_owed \in Nat,
         Within(age, paid, part, owed), next_age <= age + 1,
         Covers(next_paid, next_owed, paid, owed)
  PROVE  Within(next_age, next_paid, part + 1, next_owed)
  BY DEF Within, Covers

LEMMA AgeWrapped ==
  ASSUME NEW age \in Nat, NEW paid \in Nat, NEW part \in Nat, NEW owed \in Nat,
         NEW next_age \in Nat, NEW next_paid \in Nat,
         Within(age, paid, part, owed), next_age <= age + 1, paid + owed <= next_paid
  PROVE  Within(next_age, next_paid, 0, part + 1)
  BY DEF Within

\* On a link that has not been disturbed the age of the heartbeat is paid for by what was
\* lost.
LEMMA HealthStep ==
  ASSUME HeartbeatsSuffice, LinkTypeOK, LinkTypeOK', TypeOK, TypeOK', HandlerInv, HealthInv,
         [LinkNext]_link_vars
  PROVE  HealthInv'
<1> SUFFICES ASSUME ~disturbed' PROVE HealthInv'
  BY DEF HealthInv
<1> DEFINE Owed == IF Fresh THEN BeatTicks ELSE 0
           Paid == Beats(lost + waited)
<1>0. /\ to_motors \in Seq(Packet) /\ Len(to_motors) \in Nat /\ Len(to_motors') \in Nat
      /\ waited \in 0 .. Len(to_motors) /\ waited' \in 0 .. Len(to_motors')
      /\ lost \in 0 .. MaxLost /\ lost' \in 0 .. MaxLost
      /\ hb_age \in Nat /\ hb_age' \in Nat /\ MaxLost \in Nat
      /\ behind \in Nat /\ phase \in Nat /\ Lateness \in Nat /\ Lateness < TicksPerPeriod
      /\ TicksPerPeriod \in Nat
  BY LenProperties, LimitType, LinkLimits DEF LinkTypeOK, TypeOK
<1>a. /\ lost \in Nat /\ lost <= MaxLost /\ waited \in Nat /\ waited' \in Nat /\ lost' \in Nat
      /\ lost + waited \in Nat /\ lost' + waited' \in Nat /\ MaxLost + 1 \in Nat
  <2>1. \A n \in Nat : \A m \in 0 .. n : m \in Nat /\ m <= n
    OBVIOUS
  <2>2. /\ lost \in Nat /\ lost <= MaxLost /\ waited \in Nat /\ waited' \in Nat
        /\ lost' \in Nat
    BY <1>0, <2>1
  <2>3. \A m, n \in Nat : m + n \in Nat
    OBVIOUS
  <2>4. MaxLost + 1 \in Nat
    BY <1>0
  <2> QED BY <2>2, <2>3, <2>4
<1>b. Paid \in Nat /\ Paid' \in Nat /\ Beats(lost) \in Nat
  BY <1>a, BeatTimes
<1>c. /\ BeatAge \in Nat /\ BeatAge < BeatTicks /\ (heartbeat_phase = 0 => BeatAge = phase)
      /\ BeatAge' \in Nat /\ (heartbeat_phase' = 0 => BeatAge' = phase')
  <2>1. /\ BeatAge \in Nat /\ BeatAge < BeatTicks
        /\ heartbeat_phase = 0 => BeatAge = phase
    BY BeatAgeType
  <2>2. \A t, n, k \in Nat : t * n + k \in Nat /\ (n = 0 => t * n + k = k)
    OBVIOUS
  <2>3. TicksPerPeriod \in Nat /\ heartbeat_phase' \in Nat /\ phase' \in Nat
    BY LinkLimits DEF LinkTypeOK
  <2>4. BeatAge' = TicksPerPeriod * heartbeat_phase' + phase'
    BY DEF BeatAge
  <2> QED BY <2>1, <2>2, <2>3, <2>4
<1>d. Owed \in Nat /\ Owed' \in Nat /\ BeatTicks \in Nat
  BY TickLimits
<1>e. ~disturbed => /\ fault_code = 0
                    /\ due # {} => phase = behind
                    /\ "heartbeat" \in due => heartbeat_phase = 0
                    /\ ~connected => to_motors = <<>> /\ ~Commanded
                    /\ Commanded => Within(hb_age, Paid, BeatAge, Owed)
  BY DEF HealthInv, Within
<1>f. ASSUME /\ fault_code' = 0
             /\ due' # {} => phase' = behind'
             /\ "heartbeat" \in due' => heartbeat_phase' = 0
             /\ ~connected' => to_motors' = <<>> /\ ~Commanded'
             /\ Commanded' => Within(hb_age', Paid', BeatAge', Owed')
      PROVE  HealthInv'
  BY <1>f DEF HealthInv, Within
<1> HIDE DEF Owed, Paid
<1>g. /\ hb_age \in Nat /\ Paid \in Nat /\ BeatAge \in Nat /\ Owed \in Nat
      /\ hb_age' \in Nat /\ Paid' \in Nat /\ BeatAge' \in Nat /\ Owed' \in Nat
  BY <1>0, <1>b, <1>c, <1>d
<1>1. CASE (\E speeds \in WheelSpeeds : Drive(speeds)) \/ Watchdog \/ OtherCallback \/ EndWrite
  <2>1. /\ Served /\ UNCHANGED vars /\ lost' = lost /\ phase' = phase
        /\ behind' = IF due' = {} THEN 0 ELSE behind
        /\ disturbed' = (disturbed \/ (connected /\ ~connected'))
        /\ waited' = AtMost(Len(to_motors'), waited)
        /\ due' \subseteq due
        /\ due' # {} \/ connected' => heartbeat_phase' = heartbeat_phase
        /\ ~connected => \E n \in 0 .. Len(to_motors) : to_motors' = SubSeq(to_motors, 1, n)
        /\ connected /\ connected' =>
             \/ /\ to_motors' = to_motors /\ writing' = writing
                /\ "heartbeat" \in due => "heartbeat" \in due'
             \/ \E packet \in Packet : to_motors' = Append(to_motors, packet)
             \/ to_motors' = to_motors /\ writing' # Bridge!NoPacket
    BY <1>1, CallbackFacts
  <2>2. ~disturbed /\ (connected => connected')
    BY <2>1
  <2>3. UNCHANGED <<fault_code, hb_age, state, target, pc>>
    BY <2>1 DEF vars, machine, command, threads
  <2>4. Commanded' <=> Commanded
    BY <2>3 DEF Commanded, HandlerRuns
  <2>5. /\ fault_code' = 0
        /\ due' # {} => phase' = behind'
        /\ "heartbeat" \in due' => heartbeat_phase' = 0
    <3>1. due' # {} => due # {} /\ heartbeat_phase' = heartbeat_phase /\ behind' = behind
      BY <2>1
    <3>2. "heartbeat" \in due' => "heartbeat" \in due /\ due' # {}
      BY <2>1
    <3> QED BY <1>e, <2>1, <2>2, <2>3, <3>1, <3>2
  <2>6. CASE ~connected
    <3>1. to_motors = <<>> /\ ~Commanded
      BY <1>e, <2>2, <2>6
    <3>2. to_motors' = <<>>
      BY <1>0, <2>1, <2>6, <3>1, LinePrefix
    <3> QED BY <1>f, <2>4, <2>5, <3>1, <3>2
  <2>7. CASE connected
    <3>1. connected' /\ heartbeat_phase' = heartbeat_phase
      BY <2>1, <2>2, <2>7
    <3>2. Len(to_motors') >= Len(to_motors) /\ waited' = waited
      BY <1>0, <2>1, <2>7, <3>1, LineAppend DEF AtMost
    <3>3. BeatAge' = BeatAge
      BY <2>1, <3>1 DEF BeatAge
    <3>4. Fresh => Fresh'
      <4>1. CASE /\ to_motors' = to_motors /\ writing' = writing
                 /\ "heartbeat" \in due => "heartbeat" \in due'
        BY <3>2, <3>3, <4>1 DEF Fresh
      <4>2. CASE \E packet \in Packet : to_motors' = Append(to_motors, packet)
        <5>1. Len(to_motors') = Len(to_motors) + 1
          BY <1>0, <4>2, LineAppend
        <5>2. Len(to_motors') > waited'
          BY <1>0, <3>2, <5>1
        <5> QED BY <3>3, <5>2 DEF Fresh
      <4>3. CASE to_motors' = to_motors /\ writing' # Bridge!NoPacket
        BY <3>3, <4>3 DEF Fresh
      <4> QED BY <2>1, <2>7, <3>1, <4>1, <4>2, <4>3
    <3>5. Owed' >= Owed
      BY <1>d, <3>4 DEF Owed
    <3>6. Paid' = Paid
      BY <2>1, <3>2 DEF Paid
    <3>7. Commanded => Within(hb_age, Paid, BeatAge, Owed)
      BY <1>e, <2>2
    <3>8. Within(hb_age, Paid, BeatAge, Owed) => Within(hb_age', Paid', BeatAge', Owed')
      <4>1. Covers(Paid', Owed', Paid, Owed)
        BY <1>d, <1>g, <3>5, <3>6, CoversKept
      <4>2. Within(hb_age, Paid, BeatAge, Owed) => Within(hb_age, Paid', BeatAge, Owed')
        BY <1>g, <4>1, AgeKept
      <4> QED BY <2>3, <3>3, <4>2
    <3> QED BY <1>f, <2>4, <2>5, <3>1, <3>7, <3>8
  <2> QED BY <2>6, <2>7
<1>2. CASE Handle
  <2>1. /\ hb_age' = 0 /\ to_motors # <<>> /\ fault_code' = fault_code
        /\ UNCHANGED <<disturbed, connected, due, heartbeat_phase>>
    BY <1>2, HandleFacts DEF bridge_vars, history_vars, Handle
  <2>2. UNCHANGED <<phase, behind>>
    BY <1>2 DEF Handle, clock_vars
  <2>3. connected' /\ ~disturbed
    BY <1>e, <2>1
  <2>4. Within(hb_age', Paid', BeatAge', Owed')
    <3>1. Within(0, Paid', BeatAge', Owed')
      BY <1>g, AgeRestarted
    <3> QED BY <2>1, <3>1
  <2> QED BY <1>e, <1>f, <2>1, <2>2, <2>3, <2>4
<1>3. CASE Lose
  <2>1. /\ to_motors # <<>> /\ to_motors' = Tail(to_motors) /\ lost' = lost + 1
        /\ waited' = IF waited = 0 THEN 0 ELSE waited - 1
        /\ UNCHANGED <<fault_code, hb_age, state, target, pc, disturbed, connected, due,
                       heartbeat_phase, phase, behind, writing>>
    BY <1>3 DEF Lose, bridge_vars, clock_vars, vars, machine, command, threads
  <2>2. Len(to_motors') = Len(to_motors) - 1
    BY <1>0, <2>1, LineTail
  <2>3. Commanded' <=> Commanded
    BY <2>1 DEF Commanded, HandlerRuns
  <2>4. connected /\ (Commanded => Within(hb_age, Paid, BeatAge, Owed))
    BY <1>e, <2>1
  <2>5. BeatAge' = BeatAge
    BY <2>1 DEF BeatAge
  <2>6. Within(hb_age, Paid, BeatAge, Owed) => Within(hb_age', Paid', BeatAge', Owed')
    <3>1. CASE waited = 0
      <4>1. Beats(lost) + BeatTicks <= Beats(lost + 1)
        <5>1. lost + 1 \in Nat /\ lost < lost + 1
          BY <1>a
        <5> QED BY <1>a, <5>1, BeatTimes
      <4>2. lost + waited = lost /\ lost' + waited' = lost + 1
        BY <1>0, <2>1, <3>1
      <4>3. Paid = Beats(lost) /\ Paid' = Beats(lost + 1)
        BY <4>2 DEF Paid
      <4>4. Owed <= BeatTicks
        BY <1>d DEF Owed
      <4>5. Paid + BeatTicks <= Paid'
        BY <4>1, <4>3
      <4>6. Covers(Paid', Owed', Paid, Owed)
        BY <1>g, <1>d, <4>4, <4>5, CoversKept
      <4>7. Within(hb_age, Paid, BeatAge, Owed) => Within(hb_age, Paid', BeatAge, Owed')
        BY <1>g, <4>6, AgeKept
      <4> QED BY <2>1, <2>5, <4>7
    <3>2. CASE waited # 0
      <4>1. lost' + waited' = lost + waited
        BY <1>0, <2>1, <3>2
      <4>2. (Len(to_motors') > waited') <=> (Len(to_motors) > waited)
        BY <1>0, <2>1, <2>2, <3>2
      <4>3. Fresh' <=> Fresh
        BY <2>1, <2>5, <4>2 DEF Fresh
      <4>4. Paid' = Paid /\ Owed' = Owed
        BY <4>1, <4>3 DEF Paid, Owed
      <4> QED BY <2>1, <2>5, <4>4
    <3> QED BY <3>1, <3>2
  <2> QED BY <1>e, <1>f, <2>1, <2>3, <2>4, <2>6
<1>4. CASE HandlePacket
  <2>1. /\ HandlerRuns /\ UNCHANGED <<state, fault_code, hb_age>>
        /\ UNCHANGED <<bridge_vars, to_motors, clock_vars, line_vars, history_vars>>
    BY <1>4, StatementFacts DEF HandlePacket
  <2>2. Commanded /\ ~disturbed
    BY <2>1 DEF Commanded, history_vars
  <2>3. /\ UNCHANGED <<due, connected, heartbeat_phase, phase, behind, lost, waited, writing>>
        /\ UNCHANGED to_motors
    BY <2>1 DEF bridge_vars, clock_vars, line_vars
  <2>4. BeatAge' = BeatAge /\ (Fresh' <=> Fresh)
    BY <2>3 DEF BeatAge, Fresh
  <2>5. Paid' = Paid /\ Owed' = Owed
    BY <2>3, <2>4 DEF Paid, Owed
  <2> QED BY <1>e, <1>f, <2>1, <2>2, <2>3, <2>4, <2>5
<1>5. CASE Tick
  <2>1. /\ ~disturbed /\ writing = Bridge!NoPacket /\ (due # {} => behind < Lateness)
        /\ waited = 0 /\ waited' = Len(to_motors) /\ lost' = lost
        /\ behind' = IF due = {} THEN 0 ELSE Counted(behind, Lateness)
    BY <1>5 DEF Tick, OnTime
  <2>2. /\ UNCHANGED <<running, connected, writing, to_motors>>
        /\ due \subseteq due'
        /\ \/ /\ phase' = phase + 1
              /\ UNCHANGED <<heartbeat_phase, due>>
           \/ /\ phase + 1 = TicksPerPeriod /\ phase' = 0
              /\ ~running => due' = due /\ heartbeat_phase' = heartbeat_phase
              /\ running /\ heartbeat_phase + 1 # HeartbeatPeriod =>
                   /\ heartbeat_phase' = heartbeat_phase + 1
                   /\ "heartbeat" \in due' => "heartbeat" \in due
              /\ running /\ heartbeat_phase + 1 = HeartbeatPeriod =>
                   heartbeat_phase' = 0 /\ "heartbeat" \in due'
    BY <1>5, BridgeTickFacts
  <2>3. /\ pc' = pc /\ hb_age' <= hb_age + 1
        /\ target' # Stopped => target # Stopped
        /\ state' = "RUNNING" => state = "RUNNING" \/ target # Stopped
        /\ fault_code' = fault_code \/ (state = "RUNNING" /\ hb_age >= HeartbeatTimeout)
    BY <1>5, TickFacts DEF Tick
  <2>4. Commanded' => Commanded
    BY <2>3 DEF Commanded, HandlerRuns
  <2>5. /\ fault_code = 0
        /\ due # {} => phase = behind
        /\ "heartbeat" \in due => heartbeat_phase = 0
        /\ ~connected => to_motors = <<>> /\ ~Commanded
        /\ Commanded => Within(hb_age, Paid, BeatAge, Owed)
    BY <1>e, <2>1
  <2>6. Paid = Beats(lost)
    <3>1. lost + waited = lost
      BY <1>0, <2>1
    <3> QED BY <3>1 DEF Paid
  <2>7. due # {} => phase < Lateness /\ phase' = phase + 1 /\ behind' = behind + 1
    <3>1. due # {} => phase < Lateness /\ behind' = behind + 1
      BY <1>0, <2>1, <2>5, CountedType
    <3>2. phase < Lateness => phase + 1 # TicksPerPeriod
      BY <1>0
    <3> QED BY <2>2, <3>1, <3>2
  <2>8. /\ due' # {} => phase' = behind'
        /\ "heartbeat" \in due' => heartbeat_phase' = 0
    <3>1. CASE due # {}
      <4>1. UNCHANGED <<heartbeat_phase, due>>
        BY <1>0, <2>2, <2>7, <3>1
      <4> QED BY <2>5, <2>7, <3>1, <4>1
    <3>2. CASE due = {}
      <4>1. behind' = 0 /\ "heartbeat" \notin due
        BY <2>1, <3>2
      <4> QED BY <2>2, <3>2, <4>1
    <3> QED BY <3>1, <3>2
  <2>9. fault_code' = 0
    <3>1. Beats(MaxLost + 1) + Lateness < HeartbeatTimeout
      BY DEF HeartbeatsSuffice
    <3>2. Beats(lost) + BeatTicks <= Beats(MaxLost + 1)
      <4>1. lost < MaxLost + 1
        BY <1>0
      <4> QED BY <1>a, <4>1, BeatTimes
    <3>3. Beats(MaxLost + 1) \in Nat
      BY <1>a, BeatTimes
    <3>4. Owed = 0 \/ (Owed = BeatTicks /\ BeatAge <= Lateness)
      BY DEF Owed, Fresh
    <3>5. Commanded => hb_age < HeartbeatTimeout
      <4>1. Commanded => Within(hb_age, Beats(lost), BeatAge, Owed)
        BY <2>5, <2>6
      <4>2. Lateness \in Nat /\ HeartbeatTimeout \in Nat /\ BeatAge < BeatTicks
        BY <1>0, <1>c, LimitType
      <4> QED BY <1>b, <1>d, <1>g, <3>1, <3>2, <3>3, <3>4, <4>1, <4>2, AgeOnTime
    <3>6. state = "RUNNING" => Commanded
      BY DEF Commanded
    <3>7. hb_age < HeartbeatTimeout => ~(hb_age >= HeartbeatTimeout)
      BY <1>0, LimitType
    <3> QED BY <2>3, <2>5, <3>5, <3>6, <3>7
  <2>10. ASSUME Commanded PROVE Within(hb_age', Paid', BeatAge', Owed')
    <3>1. connected /\ running
      BY <2>5, <2>10 DEF LinkTypeOK
    <3>2. hb_age' <= hb_age + 1 /\ Within(hb_age, Paid, BeatAge, Owed)
      BY <2>3, <2>5, <2>10
    <3>3. Paid' = Beats(lost + Len(to_motors))
      BY <2>1 DEF Paid
    <3>4. /\ Beats(lost) <= Paid'
          /\ Len(to_motors) >= 1 => Beats(lost) + BeatTicks <= Paid'
      <4>1. /\ lost + Len(to_motors) \in Nat /\ lost <= lost + Len(to_motors)
            /\ Len(to_motors) >= 1 => lost < lost + Len(to_motors)
        BY <1>0, <1>a
      <4> QED BY <1>a, <3>3, <4>1, BeatTimes
    <3>5. CASE BeatAge' = BeatAge + 1
      <4>1. Fresh => Fresh' \/ Len(to_motors) >= 1
        <5>1. CASE "heartbeat" \in due
          <6>1. BeatAge = phase /\ phase < Lateness
            BY <1>c, <2>5, <2>7, <5>1
          <6>2. BeatAge' <= Lateness
            BY <1>0, <3>5, <6>1
          <6> QED BY <2>2, <5>1, <6>2 DEF Fresh
        <5>2. CASE "heartbeat" \notin due
          <6>1. Fresh => Len(to_motors) > waited
            BY <2>1, <5>2 DEF Fresh
          <6>2. Len(to_motors) > waited => Len(to_motors) >= 1
            BY <1>0, <2>1
          <6> QED BY <6>1, <6>2
        <5> QED BY <5>1, <5>2
      <4>2. Covers(Paid', Owed', Paid, Owed)
        <5>1. CASE Fresh /\ Fresh'
          <6>1. Owed <= Owed'
            BY <1>d, <5>1 DEF Owed
          <6> QED BY <1>d, <1>g, <2>6, <3>4, <6>1, CoversKept
        <5>2. CASE Fresh /\ ~Fresh'
          <6>1. Owed <= BeatTicks /\ Paid + BeatTicks <= Paid'
            BY <1>d, <2>6, <3>4, <4>1, <5>2 DEF Owed
          <6> QED BY <1>d, <1>g, <6>1, CoversKept
        <5>3. CASE ~Fresh
          <6>1. Owed = 0
            BY <5>3 DEF Owed
          <6> QED BY <1>d, <1>g, <2>6, <3>4, <6>1, CoversKept
        <5> QED BY <5>1, <5>2, <5>3
      <4>3. Within(hb_age', Paid', BeatAge + 1, Owed')
        BY <1>g, <3>2, <4>2, AgeTicked
      <4> QED BY <3>5, <4>3
    <3>6. CASE BeatAge' = 0 /\ BeatAge + 1 = BeatTicks /\ "heartbeat" \in due'
      <4>1. Fresh'
        <5>1. BeatAge' <= Lateness
          BY <1>0, <3>6
        <5> QED BY <3>6, <5>1 DEF Fresh
      <4>2. Owed' = BeatTicks
        BY <4>1 DEF Owed
      <4>3. Fresh => Len(to_motors) >= 1
        <5>1. "heartbeat" \in due => FALSE
          <6>1. "heartbeat" \in due =>
                  phase' = phase + 1 /\ BeatAge' = phase' /\ phase' \in Nat /\ phase \in Nat
            BY <1>c, <2>7, <2>8, <3>6 DEF LinkTypeOK
          <6> QED BY <3>6, <6>1
        <5>2. Fresh => Len(to_motors) > waited
          BY <2>1, <5>1 DEF Fresh
        <5>3. Len(to_motors) > waited => Len(to_motors) >= 1
          BY <1>0, <2>1
        <5> QED BY <5>2, <5>3
      <4>4. Paid + Owed <= Paid'
        <5>1. CASE Fresh
          BY <2>6, <3>4, <4>3, <5>1 DEF Owed
        <5>2. CASE ~Fresh
          <6>1. Owed = 0 /\ Paid + 0 = Paid
            BY <1>b, <5>2 DEF Owed
          <6> QED BY <2>6, <3>4, <6>1
        <5> QED BY <5>1, <5>2
      <4>5. Owed' = BeatAge + 1
        BY <3>6, <4>2
      <4>6. Within(hb_age', Paid', 0, BeatAge + 1)
        BY <1>g, <3>2, <4>4, AgeWrapped
      <4> QED BY <3>6, <4>5, <4>6
    <3> QED BY <1>5, <3>1, <3>5, <3>6, BeatAgeTick
  <2>11. ~connected' => to_motors' = <<>> /\ ~Commanded'
    BY <2>2, <2>4, <2>5
  <2> QED BY <1>f, <2>4, <2>8, <2>9, <2>10, <2>11
<1>6. CASE UNCHANGED link_vars
  <2>1. /\ UNCHANGED <<fault_code, hb_age, state, target, pc, disturbed, connected, due,
                       heartbeat_phase, phase, behind, writing, lost, waited>>
        /\ UNCHANGED to_motors
    BY <1>6 DEF link_vars, bridge_vars, clock_vars, line_vars, history_vars, vars, machine,
       command, threads
  <2>2. (Commanded' <=> Commanded) /\ BeatAge' = BeatAge /\ (Fresh' <=> Fresh)
    BY <2>1 DEF Commanded, HandlerRuns, BeatAge, Fresh
  <2>3. Paid' = Paid /\ Owed' = Owed
    BY <2>1, <2>2 DEF Paid, Owed
  <2> QED BY <1>e, <1>f, <2>1, <2>2, <2>3
<1> QED BY <1>1, <1>2, <1>3, <1>4, <1>5, <1>6 DEF LinkNext

\* How far the age of the last command lags behind the ticks since then, and how soon the
\* watchdog finds the timeout over.
Aging(ticks, age, part) == ticks <= TicksPerPeriod * age + part \/ age > CmdVelTimeout
Found(ticks, watching, part, late) ==
  ticks <= IF watching THEN QuietTicks + late ELSE TimeoutTicks + part

LEMMA AgingFacts ==
  ASSUME NEW ticks \in Nat, NEW next_ticks \in Nat, NEW age \in Nat, NEW next_age \in Nat,
         NEW part \in Nat, part < TicksPerPeriod, Aging(ticks, age, part)
  PROVE  /\ next_ticks <= ticks => Aging(next_ticks, age, part)
         /\ next_ticks <= ticks + 1 => Aging(next_ticks, age, part + 1)
         /\ part + 1 = TicksPerPeriod /\ next_ticks <= ticks + 1
              /\ (next_age = age + 1 \/ next_age > CmdVelTimeout)
            => Aging(next_ticks, next_age, 0)
         /\ age <= CmdVelTimeout => ticks <= TimeoutTicks + part
<1>1. TicksPerPeriod \in Nat /\ CmdVelTimeout \in Nat
  BY LinkLimits
<1>2. TicksPerPeriod * age \in Nat
  BY <1>1
<1>3. part + 1 = TicksPerPeriod => TicksPerPeriod * (age + 1) = (TicksPerPeriod * age + part) + 1
  BY <1>1, PeriodTimes
<1>4. age <= CmdVelTimeout => TicksPerPeriod * age <= TimeoutTicks
  <2>1. age < CmdVelTimeout => TicksPerPeriod * age + part < TicksPerPeriod * CmdVelTimeout
    BY <1>1, PeriodTimes
  <2>2. age = CmdVelTimeout => TicksPerPeriod * age = TimeoutTicks
    BY DEF TimeoutTicks
  <2>3. TicksPerPeriod * CmdVelTimeout = TimeoutTicks /\ TimeoutTicks \in Nat
    BY TickLimits DEF TimeoutTicks
  <2> QED BY <1>1, <1>2, <2>1, <2>2, <2>3
<1>5. age <= CmdVelTimeout => ticks <= TimeoutTicks + part
  <2>1. age <= CmdVelTimeout => ticks <= TicksPerPeriod * age + part
    BY <1>1 DEF Aging
  <2> QED BY <1>2, <1>4, <2>1, TickLimits
<1>6. ASSUME part + 1 = TicksPerPeriod, next_ticks <= ticks + 1,
             next_age = age + 1 \/ next_age > CmdVelTimeout
      PROVE  Aging(next_ticks, next_age, 0)
  <2>1. CASE next_age > CmdVelTimeout
    BY <2>1 DEF Aging
  <2>2. CASE next_age = age + 1 /\ ~(next_age > CmdVelTimeout)
    <3>1. ticks <= TicksPerPeriod * age + part
      BY <1>1, <2>2 DEF Aging
    <3>2. TicksPerPeriod * next_age = (TicksPerPeriod * age + part) + 1
      BY <1>3, <1>6, <2>2
    <3>3. TicksPerPeriod * next_age \in Nat
      BY <1>1
    <3>4. next_ticks <= TicksPerPeriod * next_age + 0
      BY <1>2, <1>6, <3>1, <3>2, <3>3
    <3> QED BY <3>4 DEF Aging
  <2> QED BY <1>6, <2>1, <2>2
<1>7. next_ticks <= ticks => Aging(next_ticks, age, part)
  BY <1>2 DEF Aging
<1>8. next_ticks <= ticks + 1 => Aging(next_ticks, age, part + 1)
  BY <1>2 DEF Aging
<1> QED BY <1>5, <1>6, <1>7, <1>8

LEMMA FoundFacts ==
  ASSUME NEW ticks \in Nat, NEW next_ticks \in Nat, NEW part \in Nat, NEW late \in Nat,
         part < TicksPerPeriod, late <= Lateness
  PROVE  /\ \A watching \in BOOLEAN :
              /\ Found(ticks, watching, part, late) /\ next_ticks <= ticks
                   => Found(next_ticks, watching, part, late)
              /\ Found(ticks, watching, part, late) => ticks <= QuietTicks + Lateness
         /\ Found(ticks, TRUE, part, late) /\ next_ticks <= ticks + 1
              => \A n \in Nat : Found(next_ticks, TRUE, n, late + 1)
         /\ Found(ticks, TRUE, part, late) /\ next_ticks <= ticks
              => \A n, m \in Nat : m >= late => Found(next_ticks, TRUE, n, m)
         /\ ticks <= TimeoutTicks + part /\ next_ticks <= ticks + 1
              => Found(next_ticks, FALSE, part + 1, late)
         /\ ticks <= TimeoutTicks + part /\ next_ticks <= ticks + 1
              => \A n, m \in Nat : Found(next_ticks, TRUE, n, m)
<1>1. /\ TicksPerPeriod \in Nat /\ TimeoutTicks \in Nat /\ QuietTicks \in Nat
      /\ Lateness \in Nat /\ QuietTicks = TimeoutTicks + TicksPerPeriod
  BY TickLimits, LinkLimits
<1> QED BY <1>1 DEF Found

LEMMA FoundEarly ==
  ASSUME NEW ticks \in Nat, NEW part \in Nat, NEW late \in Nat, NEW watching \in BOOLEAN,
         ticks <= TimeoutTicks
  PROVE  Found(ticks, watching, part, late)
<1>1. /\ TicksPerPeriod \in Nat /\ TimeoutTicks \in Nat /\ QuietTicks \in Nat
      /\ QuietTicks = TimeoutTicks + TicksPerPeriod
  BY TickLimits, LinkLimits
<1> QED BY <1>1 DEF Found

\* The watchdog finds the timeout over in the period after it, or in the first one with a
\* connection.
LEMMA ExpiryStep ==
  ASSUME LinkTypeOK, LinkTypeOK', ExpiryInv, [LinkNext]_link_vars
  PROVE  ExpiryInv'
<1> DEFINE Watching == "watchdog" \in due
<1>0. /\ quiet \in Nat /\ quiet' \in Nat /\ vel_age \in Nat /\ vel_age' \in Nat
      /\ phase \in Nat /\ phase < TicksPerPeriod /\ behind \in Nat /\ behind <= Lateness
      /\ phase' \in Nat /\ phase' < TicksPerPeriod /\ behind' \in Nat /\ behind' <= Lateness
      /\ TimeoutTicks \in Nat /\ CmdVelTimeout \in Nat /\ Lateness \in Nat
      /\ Watching \in BOOLEAN /\ Watching' \in BOOLEAN
  BY LinkLimits, TickLimits DEF LinkTypeOK
<1>a. /\ ~connected => quiet <= TimeoutTicks
      /\ cmd_vel_active => Aging(quiet, vel_age, phase)
      /\ connected /\ cmd_vel_active /\ vel_age > CmdVelTimeout
           => Found(quiet, Watching, phase, behind)
  BY DEF ExpiryInv, Expired, Aging, Found
<1>b. ASSUME /\ ~connected' => quiet' <= TimeoutTicks
             /\ cmd_vel_active' => Aging(quiet', vel_age', phase')
             /\ connected' /\ cmd_vel_active' /\ vel_age' > CmdVelTimeout
                  => Found(quiet', Watching', phase', behind')
      PROVE  ExpiryInv'
  BY <1>b DEF ExpiryInv, Expired, Aging, Found
<1> HIDE DEF Watching
<1>1. ASSUME NEW speeds \in WheelSpeeds, Drive(speeds) PROVE ExpiryInv'
  <2>1. /\ Bridge!CmdVel(speeds) /\ quiet' = 0
    BY <1>1 DEF Drive
  <2>2. vel_age' = 0 \/ connected' = FALSE \/ UNCHANGED <<connected, cmd_vel_active, vel_age>>
    BY <2>1 DEF Bridge!CmdVel, Bridge!port_vars
  <2>3. quiet' <= TimeoutTicks
    BY <1>0, <2>1
  <2>4. Found(quiet', Watching', phase', behind')
    BY <1>0, <2>3, FoundEarly
  <2>5. Aging(quiet', vel_age', phase')
    <3>1. TicksPerPeriod * vel_age' \in Nat
      <4>1. \A m, n \in Nat : m * n \in Nat
        OBVIOUS
      <4> QED BY <1>0, <4>1, LinkLimits
    <3>2. \A m, n \in Nat : 0 <= m + n
      OBVIOUS
    <3>3. 0 <= TicksPerPeriod * vel_age' + phase'
      BY <1>0, <3>1, <3>2
    <3> QED BY <2>1, <3>3 DEF Aging
  <2> QED BY <1>b, <2>3, <2>4, <2>5
<1>c. ASSUME KeepQuiet, phase' = phase,
             cmd_vel_active' => cmd_vel_active /\ vel_age' = vel_age,
             connected' /\ cmd_vel_active' /\ vel_age' > CmdVelTimeout =>
               ~connected \/ (Watching' = Watching /\ (Watching => behind' = behind))
      PROVE  ExpiryInv'
  <2>1. quiet' <= quiet /\ (~connected' => quiet' <= TimeoutTicks)
        /\ (connected' => quiet' = quiet)
    <3>1. quiet' = IF connected' THEN quiet ELSE AtMost(TimeoutTicks, quiet)
      BY <1>c DEF KeepQuiet
    <3>2. AtMost(TimeoutTicks, quiet) <= quiet /\ AtMost(TimeoutTicks, quiet) <= TimeoutTicks
      BY <1>0, AtMostType
    <3> QED BY <1>0, <3>1, <3>2
  <2>2. cmd_vel_active' => Aging(quiet', vel_age', phase')
    BY <1>0, <1>a, <1>c, <2>1, AgingFacts
  <2>3. ASSUME connected', cmd_vel_active', vel_age' > CmdVelTimeout
        PROVE  Found(quiet', Watching', phase', behind')
    <3>1. CASE ~connected
      <4>1. quiet' <= TimeoutTicks
        BY <1>a, <2>1, <2>3, <3>1
      <4> QED BY <1>0, <4>1, FoundEarly
    <3>2. CASE connected /\ Watching' = Watching /\ (Watching => behind' = behind)
      <4>1. Found(quiet', Watching, phase', behind)
        BY <1>a, <1>c, <2>1, <2>3, <3>2
      <4>2. ~Watching => (Found(quiet', Watching, phase', behind)
                            <=> Found(quiet', Watching, phase', behind'))
        BY DEF Found
      <4> QED BY <3>2, <4>1, <4>2
    <3> QED BY <1>c, <2>3, <3>1, <3>2
  <2> QED BY <1>b, <2>1, <2>2, <2>3
<1>2. CASE Watchdog
  <2>1. KeepQuiet /\ phase' = phase /\ Bridge!Watchdog
    BY <1>2 DEF Watchdog, OfBridge
  <2>2. CASE cmd_vel_active' = FALSE
    BY <1>c, <2>1, <2>2
  <2>3. CASE /\ cmd_vel_active /\ connected => FALSE \in Bridge!Beyond(vel_age, CmdVelTimeout)
             /\ UNCHANGED <<connected, cmd_vel_active, vel_age>>
    <3>1. cmd_vel_active /\ connected => vel_age <= CmdVelTimeout
      <4>1. Bridge!Beyond(vel_age, CmdVelTimeout) = Beyond(vel_age, CmdVelTimeout)
        BY DEF Bridge!Beyond, Beyond
      <4>2. vel_age \in Int /\ CmdVelTimeout \in Int
        BY <1>0
      <4> QED BY <2>3, <4>1, <4>2, BeyondMeans
    <3>2. ~(connected' /\ cmd_vel_active' /\ vel_age' > CmdVelTimeout)
      BY <1>0, <2>3, <3>1
    <3> QED BY <1>c, <2>1, <2>3, <3>2
  <2> QED BY <2>1, <2>2, <2>3 DEF Bridge!Watchdog, Bridge!port_vars
<1>3. CASE OtherCallback \/ EndWrite
  <2>1. /\ KeepQuiet /\ phase' = phase
        /\ behind' = IF due' = {} THEN 0 ELSE behind
    BY <1>3 DEF OtherCallback, EndWrite, OfBridge
  <2>2. cmd_vel_active' => cmd_vel_active /\ vel_age' = vel_age
    BY <1>3 DEF OtherCallback, EndWrite, Bridge!HeartbeatCallback, Bridge!StatusPoll,
                Bridge!Reconnect, Bridge!ReadError, Bridge!Terminate, Bridge!EndWrite
  <2>3. connected' => due' = due \/ due' = due \ {"heartbeat"}
    BY <1>3 DEF OtherCallback, EndWrite, Bridge!HeartbeatCallback, Bridge!StatusPoll,
                Bridge!Reconnect, Bridge!ReadError, Bridge!Terminate, Bridge!EndWrite,
                Bridge!Serve
  <2>4. connected' /\ cmd_vel_active' /\ vel_age' > CmdVelTimeout
          => ~connected \/ (Watching' = Watching /\ (Watching => behind' = behind))
    <3>1. connected' => Watching' = Watching /\ (Watching => due' # {})
      BY <2>3 DEF Watching
    <3> QED BY <2>1, <3>1
  <2> QED BY <1>c, <2>1, <2>2, <2>4
<1>4. CASE Handle \/ Lose \/ HandlePacket \/ UNCHANGED link_vars
  <2>1. UNCHANGED <<connected, cmd_vel_active, vel_age, due, phase, behind, quiet>>
    BY <1>4 DEF Handle, Lose, HandlePacket, link_vars, bridge_vars, clock_vars, history_vars
  <2> QED BY <1>a, <1>b, <2>1 DEF Watching
<1>5. CASE Tick
  <2>1. /\ UNCHANGED <<connected, cmd_vel_active>>
        /\ due \subseteq due'
        /\ \/ /\ phase' = phase + 1
              /\ UNCHANGED <<due, vel_age>>
           \/ /\ phase + 1 = TicksPerPeriod /\ phase' = 0
              /\ vel_age' = IF cmd_vel_active THEN Bridge!Aged(vel_age, CmdVelTimeout) ELSE 0
              /\ running => "watchdog" \in due'
    BY <1>5, BridgeTickFacts
  <2>2. /\ quiet' <= quiet + 1
        /\ ~OnTime => quiet' <= quiet
        /\ ~connected => quiet' <= TimeoutTicks
    <3>1. QuietTicks + QuietLag + 1 \in Nat
      BY TickLimits, LimitType, LinkLimits DEF QuietLag, LostLag
    <3>2. OnTime => quiet' = Counted(quiet, IF connected THEN QuietTicks + QuietLag + 1
                                                         ELSE TimeoutTicks)
      BY <1>5 DEF Tick
    <3>3. ~OnTime => quiet' = quiet
      BY <1>5 DEF Tick
    <3>4. /\ Counted(quiet, QuietTicks + QuietLag + 1) <= quiet + 1
          /\ Counted(quiet, TimeoutTicks) <= quiet + 1
          /\ Counted(quiet, TimeoutTicks) <= TimeoutTicks
      BY <1>0, <3>1, CountedType
    <3>5. OnTime => quiet' <= quiet + 1 /\ (~connected => quiet' <= TimeoutTicks)
      BY <3>2, <3>4
    <3>6. ~OnTime => quiet' <= quiet /\ quiet' <= quiet + 1
                       /\ (~connected => quiet' <= TimeoutTicks)
      BY <1>0, <1>a, <3>3
    <3> QED BY <3>5, <3>6
  <2>3. /\ Watching => behind' >= behind
        /\ Watching /\ OnTime => behind' = behind + 1
    <3>1. Watching => due # {} /\ behind' = Counted(behind, Lateness)
      BY <1>5 DEF Tick, Watching
    <3>2. Watching /\ OnTime => behind < Lateness
      BY <3>1 DEF OnTime
    <3>3. /\ behind < Lateness => Counted(behind, Lateness) = behind + 1
          /\ Counted(behind, Lateness) >= behind
      BY <1>0 DEF Counted, AtMost
    <3> QED BY <3>1, <3>2, <3>3
  <2>4. /\ Watching => Watching'
        /\ phase' # 0 => Watching' = Watching
        /\ connected' /\ phase' = 0 => Watching'
    <3>1. Watching => Watching'
      BY <2>1 DEF Watching
    <3>2. phase' # 0 => due' = due
      BY <1>0, <2>1
    <3>3. phase' # 0 => Watching' = Watching
      BY <3>2 DEF Watching
    <3>4. phase' = 0 /\ running => Watching'
      BY <1>0, <2>1 DEF Watching
    <3>5. connected' => running
      BY <2>1 DEF LinkTypeOK
    <3> QED BY <3>1, <3>3, <3>4, <3>5
  <2>5. cmd_vel_active' => Aging(quiet', vel_age', phase')
    <3> SUFFICES ASSUME cmd_vel_active PROVE Aging(quiet', vel_age', phase')
      BY <2>1
    <3>1. Aging(quiet, vel_age, phase)
      BY <1>a
    <3>2. CASE phase' = phase + 1 /\ vel_age' = vel_age
      <4>1. Aging(quiet', vel_age, phase + 1)
        BY <1>0, <2>2, <3>1, AgingFacts
      <4> QED BY <3>2, <4>1
    <3>3. CASE phase + 1 = TicksPerPeriod /\ phase' = 0
               /\ vel_age' = Bridge!Aged(vel_age, CmdVelTimeout)
      <4>1. vel_age' = vel_age + 1 \/ vel_age' > CmdVelTimeout
        BY <1>0, <3>3 DEF Bridge!Aged, Bridge!NoTime
      <4>2. Aging(quiet', vel_age', 0)
        BY <1>0, <2>2, <3>1, <3>3, <4>1, AgingFacts
      <4> QED BY <3>3, <4>2
    <3> QED BY <2>1, <3>2, <3>3
  <2>6. ASSUME connected, cmd_vel_active, vel_age' > CmdVelTimeout
        PROVE  Found(quiet', Watching', phase', behind')
    <3>1. CASE vel_age <= CmdVelTimeout
      <4>1. quiet <= TimeoutTicks + phase
        BY <1>0, <1>a, <2>6, <3>1, AgingFacts
      <4>2. phase' = 0
        BY <1>0, <2>1, <2>6, <3>1
      <4>3. Watching' = TRUE
        BY <1>0, <2>1, <2>4, <2>6, <4>2
      <4>4. Found(quiet', TRUE, phase', behind')
        BY <1>0, <2>2, <4>1, FoundFacts
      <4> QED BY <4>3, <4>4
    <3>2. CASE vel_age > CmdVelTimeout
      <4>1. Found(quiet, Watching, phase, behind)
        BY <1>a, <2>6, <3>2
      <4>2. CASE Watching = TRUE
        <5>1. CASE OnTime
          <6>1. Found(quiet', TRUE, phase', behind + 1)
            BY <1>0, <2>2, <4>1, <4>2, FoundFacts
          <6> QED BY <1>0, <2>3, <2>4, <4>2, <5>1, <6>1
        <5>2. CASE ~OnTime
          <6>1. quiet' <= quiet /\ behind' >= behind /\ Found(quiet, TRUE, phase, behind)
            BY <2>2, <2>3, <4>1, <4>2, <5>2
          <6>2. Found(quiet', TRUE, phase', behind')
            BY <1>0, <6>1, FoundFacts
          <6> QED BY <1>0, <2>4, <4>2, <6>2
        <5> QED BY <5>1, <5>2
      <4>3. CASE Watching = FALSE
        <5>1. quiet <= TimeoutTicks + phase
          BY <4>1, <4>3 DEF Found
        <5>2. CASE phase' = 0
          <6>1. Watching' = TRUE
            BY <1>0, <2>1, <2>4, <2>6, <5>2
          <6>2. Found(quiet', TRUE, phase', behind')
            BY <1>0, <2>2, <5>1, FoundFacts
          <6> QED BY <6>1, <6>2
        <5>3. CASE phase' # 0
          <6>1. phase' = phase + 1 /\ Watching' = FALSE
            BY <2>1, <2>4, <4>3, <5>3
          <6>2. Found(quiet', FALSE, phase + 1, behind)
            BY <1>0, <2>2, <5>1, FoundFacts
          <6>3. Found(quiet', FALSE, phase + 1, behind')
            BY <6>2 DEF Found
          <6> QED BY <6>1, <6>3
        <5> QED BY <5>2, <5>3
      <4> QED BY <1>0, <4>2, <4>3
    <3> QED BY <1>0, <3>1, <3>2
  <2> QED BY <1>b, <2>1, <2>2, <2>5, <2>6
<1> QED BY <1>1, <1>2, <1>3, <1>4, <1>5 DEF LinkNext

\* A bridge that has been silent for longer than the watchdog takes has run it; so it has by
\* the end of that time if the executor is on time.
LEMMA SilentIdle ==
  ASSUME LinkTypeOK, ExpiryInv, NEW lag \in Nat, Silent(lag), lag = 0 => OnTime
  PROVE  ~cmd_vel_active
<1> SUFFICES ASSUME cmd_vel_active PROVE FALSE
  OBVIOUS
<1>1. /\ quiet \in Nat /\ vel_age \in Nat /\ phase \in Nat /\ phase < TicksPerPeriod
      /\ behind \in Nat /\ behind <= Lateness
      /\ TicksPerPeriod \in Nat /\ TimeoutTicks \in Nat /\ QuietTicks \in Nat
      /\ Lateness \in Nat /\ CmdVelTimeout \in Nat /\ QuietTicks = TimeoutTicks + TicksPerPeriod
  BY LinkLimits, TickLimits DEF LinkTypeOK
<1>2. connected /\ quiet >= QuietTicks + Lateness + lag
  BY DEF Silent
<1>3. CASE vel_age > CmdVelTimeout
  <2>1. quiet <= IF "watchdog" \in due THEN QuietTicks + behind ELSE TimeoutTicks + phase
    BY <1>2, <1>3 DEF ExpiryInv, Expired
  <2>2. "watchdog" \in due /\ OnTime => behind < Lateness
    BY DEF OnTime
  <2>3. quiet < QuietTicks + Lateness + lag
    <3>1. CASE lag = 0
      BY <1>1, <2>1, <2>2, <3>1
    <3>2. CASE lag # 0
      BY <1>1, <2>1, <3>2
    <3> QED BY <3>1, <3>2
  <2> QED BY <1>1, <1>2, <2>3
<1>4. CASE ~(vel_age > CmdVelTimeout)
  <2>1. Aging(quiet, vel_age, phase)
    BY DEF ExpiryInv, Aging
  <2>2. quiet <= TimeoutTicks + phase
    BY <1>1, <1>4, <2>1, AgingFacts
  <2> QED BY <1>1, <1>2, <2>2
<1> QED BY <1>3, <1>4

\* A step without time leaves each phase of a silent bridge, or ends it forward.
LEMMA SilenceKept ==
  ASSUME LinkTypeOK, LinkTypeOK', ExpiryInv, SilenceInv, TicksPerHandler \in Nat,
         writing'.cmd = "SET_SPEED" => cmd_vel_active',
         running' => running /\ cmd_vel_active' = cmd_vel_active,
         stop_lost => stop_lost',
         \A lag \in Nat \ {0} : Silent(lag)' => Silent(lag),
         running' /\ ~cmd_vel_active' /\ ~stop_lost' =>
           /\ NeverDriven => NeverDriven'
           /\ StopInForce => StopInForce'
           /\ writing.cmd = "STOP" => writing'.cmd = "STOP" \/ Carries(to_motors', "STOP")
           /\ Carries(to_motors, "STOP") => Carries(to_motors', "STOP") \/ StopRuns'
           /\ StopRuns => StopRuns' \/ StopInForce'
           /\ StopRuns /\ preempted["proto"] >= 1 =>
                (StopRuns' /\ preempted'["proto"] >= 1) \/ StopInForce',
         Silent(1)' => (StopWaited => StopWaited' \/ StopRuns')
  PROVE  SilenceInv'
<1>1. \A lag \in Nat \ {0} : Silent(lag)' => running' /\ ~cmd_vel_active' /\ ~stop_lost'
  <2> SUFFICES ASSUME NEW lag \in Nat \ {0}, Silent(lag)'
               PROVE  running' /\ ~cmd_vel_active' /\ ~stop_lost'
    OBVIOUS
  <2>1. Silent(lag) /\ running' /\ ~stop_lost'
    BY DEF Silent, LinkTypeOK
  <2>2. ~cmd_vel_active
    BY <2>1, SilentIdle
  <2> QED BY <2>1, <2>2
<1>2. 1 \in Nat \ {0} /\ 2 \in Nat \ {0} /\ 2 + TicksPerHandler \in Nat \ {0}
  OBVIOUS
<1>3. (running /\ ~cmd_vel_active /\ ~stop_lost =>
         \/ NeverDriven \/ writing.cmd = "STOP" \/ Carries(to_motors, "STOP")
         \/ StopRuns \/ StopInForce)'
  <2> SUFFICES ASSUME running', ~cmd_vel_active', ~stop_lost'
               PROVE  NeverDriven' \/ writing'.cmd = "STOP" \/ Carries(to_motors', "STOP")
                        \/ StopRuns' \/ StopInForce'
    OBVIOUS
  <2>1. running /\ ~cmd_vel_active /\ ~stop_lost
    OBVIOUS
  <2>2. NeverDriven \/ writing.cmd = "STOP" \/ Carries(to_motors, "STOP") \/ StopRuns
          \/ StopInForce
    BY <2>1 DEF SilenceInv
  <2> QED BY <2>2
<1>4. (Silent(1) => NeverDriven \/ StopWaited \/ StopRuns \/ StopInForce)'
  <2>1. Silent(1) => NeverDriven \/ StopWaited \/ StopRuns \/ StopInForce
    BY DEF SilenceInv
  <2> QED BY <1>1, <1>2, <2>1
<1>5. (Silent(2) => NeverDriven \/ StopInForce \/ (StopRuns /\ preempted["proto"] >= 1))'
  <2>1. Silent(2) => NeverDriven \/ StopInForce \/ (StopRuns /\ preempted["proto"] >= 1)
    BY DEF SilenceInv
  <2> QED BY <1>1, <1>2, <2>1
<1>6. (Silent(2 + TicksPerHandler) => NeverDriven \/ StopInForce)'
  <2>1. Silent(2 + TicksPerHandler) => NeverDriven \/ StopInForce
    BY DEF SilenceInv
  <2> QED BY <1>1, <1>2, <2>1
<1> QED BY <1>3, <1>4, <1>5, <1>6 DEF SilenceInv

\* A callback does not make a bridge silent: what is quiet without a connection is no longer
\* than the timeout.
LEMMA SilentBefore ==
  ASSUME LinkTypeOK, ExpiryInv, NEW lag \in Nat \ {0}, Silent(lag)', KeepQuiet,
         stop_lost => stop_lost'
  PROVE  Silent(lag)
<1>1. connected' /\ ~stop_lost' /\ quiet' = quiet /\ quiet >= QuietTicks + Lateness + lag
  BY DEF Silent, KeepQuiet
<1>2. connected
  <2>1. ~connected => quiet <= TimeoutTicks
    BY DEF ExpiryInv
  <2> QED BY <1>1, <2>1, TickLimits, LinkLimits DEF LinkTypeOK
<1> QED BY <1>1, <1>2 DEF Silent

\* A callback of a bridge whose stop is on the line leaves it there.
LEMMA StopStays ==
  ASSUME LinkTypeOK, OtherCallback \/ EndWrite, connected, connected', StopWaited
  PROVE  StopWaited'
<1>1. /\ to_motors \in Seq(Packet) /\ Len(to_motors) \in Nat /\ waited \in 0 .. Len(to_motors)
  BY LenProperties DEF LinkTypeOK
<1>2. to_motors' = to_motors \/ \E packet \in Packet : to_motors' = Append(to_motors, packet)
  BY CallbackFacts
<1>3. /\ Len(to_motors') \in Nat /\ Len(to_motors') >= Len(to_motors)
      /\ \A i \in 1 .. Len(to_motors) : to_motors'[i] = to_motors[i]
  BY <1>1, <1>2, LineAppend
<1>4. waited' = AtMost(Len(to_motors'), waited)
  BY CallbackFacts
<1>5. waited' = waited
  BY <1>1, <1>3, <1>4 DEF AtMost
<1>6. \A i \in 1 .. waited : i \in 1 .. Len(to_motors)
  BY <1>1
<1> QED BY <1>3, <1>5, <1>6 DEF StopWaited

\* What only the callbacks that do not command the motors have in common.
LEMMA OtherFacts ==
  ASSUME LinkTypeOK, OtherCallback
  PROVE  /\ KeepQuiet
         /\ stop_lost' = (stop_lost \/ (Carries(to_motors, "STOP")
                                           /\ ~Carries(to_motors', "STOP")))
         /\ running' => running /\ writing = Bridge!NoPacket
         /\ running' => cmd_vel_active' = cmd_vel_active
         /\ writing'.cmd # "SET_SPEED"
         /\ running' /\ Carries(to_motors', "SET_SPEED") => Carries(to_motors, "SET_SPEED")
<1>1. /\ KeepQuiet
      /\ stop_lost' = (stop_lost \/ (Carries(to_motors, "STOP") /\ ~Carries(to_motors', "STOP")))
  BY DEF OtherCallback
<1>2. /\ to_motors \in Seq(Packet) /\ Bridge!Heartbeat \in Packet /\ Bridge!Status \in Packet
      /\ Bridge!Heartbeat.cmd # "SET_SPEED" /\ Bridge!Status.cmd # "SET_SPEED"
      /\ Bridge!NoPacket.cmd # "SET_SPEED"
  BY PacketType DEF LinkTypeOK, Bridge!Heartbeat, Bridge!Status, Bridge!NoPacket
<1>3. ASSUME NEW packet \in Packet, packet.cmd # "SET_SPEED", Bridge!SendCommand(packet),
             writing = Bridge!NoPacket
      PROVE  /\ Carries(to_motors', "SET_SPEED") => Carries(to_motors, "SET_SPEED")
             /\ writing'.cmd # "SET_SPEED"
  <2>1. /\ to_motors' = Append(to_motors, packet) \/ to_motors' = to_motors
        /\ writing' = writing \/ writing' = packet
    BY <1>2, <1>3, SendFacts
  <2>2. Carries(Append(to_motors, packet), "SET_SPEED")
          <=> Carries(to_motors, "SET_SPEED") \/ packet.cmd = "SET_SPEED"
    BY <1>2, LineAppend
  <2>3. writing'.cmd # "SET_SPEED"
    BY <1>2, <1>3, <2>1
  <2> QED BY <1>3, <2>1, <2>2, <2>3
<1>4. CASE Bridge!HeartbeatCallback
  <2>1. /\ running /\ running' = running /\ writing = Bridge!NoPacket
        /\ cmd_vel_active' = cmd_vel_active
        /\ Bridge!SendCommand(Bridge!Heartbeat) \/ UNCHANGED <<to_motors, writing>>
    BY <1>4 DEF Bridge!HeartbeatCallback, Bridge!Serve, Bridge!SendIfConnected, Bridge!Ready,
       Bridge!port_vars
  <2>2. /\ Carries(to_motors', "SET_SPEED") => Carries(to_motors, "SET_SPEED")
        /\ writing'.cmd # "SET_SPEED"
    BY <1>2, <1>3, <2>1
  <2> QED BY <1>1, <2>1, <2>2
<1>5. CASE Bridge!StatusPoll
  <2>1. /\ running /\ running' = running /\ writing = Bridge!NoPacket
        /\ cmd_vel_active' = cmd_vel_active
        /\ Bridge!SendCommand(Bridge!Status)
    BY <1>5 DEF Bridge!StatusPoll, Bridge!Ready
  <2>2. /\ Carries(to_motors', "SET_SPEED") => Carries(to_motors, "SET_SPEED")
        /\ writing'.cmd # "SET_SPEED"
    BY <1>2, <1>3, <2>1
  <2> QED BY <1>1, <2>1, <2>2
<1>6. CASE Bridge!Reconnect
  <2>1. PICK n \in 0 .. Len(to_motors) : to_motors' = SubSeq(to_motors, 1, n)
    BY <1>6 DEF Bridge!Reconnect
  <2>2. Carries(to_motors', "SET_SPEED") => Carries(to_motors, "SET_SPEED")
    BY <1>2, <2>1, LinePrefix
  <2>3. /\ running /\ running' = running /\ writing = Bridge!NoPacket /\ writing' = writing
        /\ cmd_vel_active' = cmd_vel_active
    BY <1>6 DEF Bridge!Reconnect, Bridge!Ready
  <2> QED BY <1>1, <1>2, <2>2, <2>3
<1>7. CASE Bridge!ReadError
  <2>1. /\ running /\ running' = running /\ writing = Bridge!NoPacket /\ writing' = writing
        /\ cmd_vel_active' = cmd_vel_active /\ to_motors' = to_motors
    BY <1>7 DEF Bridge!ReadError, Bridge!Ready
  <2> QED BY <1>1, <1>2, <2>1
<1>8. CASE Bridge!Terminate
  <2>1. running' = FALSE /\ writing' = Bridge!NoPacket
    BY <1>8 DEF Bridge!Terminate
  <2> QED BY <1>1, <1>2, <2>1
<1> QED BY <1>4, <1>5, <1>6, <1>7, <1>8 DEF OtherCallback

\* A stop that has waited moves up, or was the first.
LEMMA WaitedTail ==
  ASSUME to_motors \in Seq(Packet), to_motors # <<>>, to_motors' = Tail(to_motors),
         waited \in 0 .. Len(to_motors), waited' = (IF waited = 0 THEN 0 ELSE waited - 1),
         StopWaited
  PROVE  StopWaited' \/ Head(to_motors).cmd = "STOP"
<1>1. PICK i \in 1 .. waited : to_motors[i].cmd = "STOP"
  BY DEF StopWaited
<1>2. /\ Len(to_motors) \in Nat \ {0} /\ Head(to_motors) = to_motors[1]
      /\ \A j \in 1 .. Len(to_motors) - 1 : to_motors'[j] = to_motors[j + 1]
  BY LineTail
<1>3. CASE i = 1
  BY <1>1, <1>2, <1>3
<1>4. CASE i # 1
  <2>1. i - 1 \in 1 .. waited' /\ i - 1 \in 1 .. Len(to_motors) - 1 /\ (i - 1) + 1 = i
    BY <1>2, <1>4
  <2>2. to_motors'[i - 1] = to_motors[i]
    BY <1>2, <2>1
  <2> QED BY <1>1, <2>1, <2>2 DEF StopWaited
<1> QED BY <1>3, <1>4

\* From the last command on, the watchdog, its packet and its handler follow each other.
LEMMA SilenceStep ==
  ASSUME LinkTypeOK, LinkTypeOK', TypeOK, TypeOK', HandlerInv, HandlerInv', ExpiryInv,
         SilenceInv, [LinkNext]_link_vars
  PROVE  SilenceInv'
<1>0. /\ TicksPerHandler \in Nat /\ TicksPerHandler <= 1
      /\ quiet \in Nat /\ QuietTicks \in Nat /\ Lateness \in Nat
      /\ to_motors \in Seq(Packet) /\ Len(to_motors) \in Nat
      /\ waited \in 0 .. Len(to_motors)
      /\ preempted["proto"] \in Nat
      /\ 1 \in Nat \ {0} /\ 2 \in Nat \ {0} /\ 3 \in Nat \ {0} /\ 3 + TicksPerHandler \in Nat \ {0}
  <2>1. preempted["proto"] \in Nat
    BY DEF TypeOK, Thread
  <2>2. /\ quiet \in Nat /\ to_motors \in Seq(Packet) /\ waited \in 0 .. Len(to_motors)
    BY DEF LinkTypeOK
  <2>3. Len(to_motors) \in Nat
    BY <2>2, LenProperties
  <2>4. \A n \in Nat : 3 + n \in Nat \ {0}
    OBVIOUS
  <2> QED BY <2>1, <2>2, <2>3, <2>4, LimitType, LinkLimits, TickLimits
<1>n. /\ Bridge!NoPacket.cmd \notin {"SET_SPEED", "STOP"} /\ Bridge!Stop.cmd = "STOP"
      /\ Bridge!Stop \in Packet
  BY PacketType DEF Bridge!NoPacket, Bridge!Stop
<1>1. ASSUME NEW speeds \in WheelSpeeds, Drive(speeds) PROVE SilenceInv'
  <2>1. /\ Bridge!CmdVel(speeds) /\ quiet' = 0 /\ stop_lost' = (stop_lost /\ ~connected)
        /\ pc' = pc /\ safety_event' = safety_event /\ UNCHANGED <<state, target, pwm>>
    BY <1>1 DEF Drive, OfBridge, vars, threads, machine, command, outputs
  <2>2. \A lag \in Nat \ {0} : ~Silent(lag)'
    <3>1. \A lag \in Nat \ {0} : ~(0 >= QuietTicks + Lateness + lag)
      BY <1>0
    <3> QED BY <2>1, <3>1 DEF Silent
  <2>3. ~Silent(1)' /\ ~Silent(2)' /\ ~Silent(2 + TicksPerHandler)'
    BY <1>0, <2>2
  <2>4. CASE connected
    <3>1. cmd_vel_active' = TRUE
      BY <2>1, <2>4 DEF Bridge!CmdVel
    <3> QED BY <2>3, <3>1 DEF SilenceInv
  <2>5. CASE ~connected
    <3>1. /\ UNCHANGED <<cmd_vel_active, to_motors, writing, running>>
          /\ stop_lost' = stop_lost /\ writing = Bridge!NoPacket
      BY <2>1, <2>5 DEF Bridge!CmdVel, Bridge!port_vars, Bridge!Ready, LinkTypeOK
    <3>2. (\/ NeverDriven \/ writing.cmd = "STOP" \/ Carries(to_motors, "STOP")
           \/ StopRuns \/ StopInForce)'
            <=> \/ NeverDriven \/ writing.cmd = "STOP" \/ Carries(to_motors, "STOP")
                \/ StopRuns \/ StopInForce
      BY <2>1, <3>1 DEF NeverDriven, StopRuns, StopInForce, SpeedRuns
    <3> QED BY <1>n, <2>3, <3>1, <3>2 DEF SilenceInv
  <2> QED BY <2>4, <2>5
<1>2. CASE Watchdog
  <2>1. /\ Bridge!Watchdog /\ KeepQuiet
        /\ stop_lost' = (stop_lost \/ (connected /\ ~connected'))
        /\ UNCHANGED vars
        /\ waited' = AtMost(Len(to_motors'), waited)
    BY <1>2 DEF Watchdog, OfBridge
  <2>2. running /\ running' = running /\ writing = Bridge!NoPacket
    BY <2>1 DEF Bridge!Watchdog, Bridge!Serve, Bridge!Ready
  <2>3. \A lag \in Nat \ {0} : Silent(lag)' => Silent(lag)
    BY <2>1, SilentBefore
  <2>4. CASE cmd_vel_active /\ Bridge!SendCommand(Bridge!Stop) /\ cmd_vel_active' = FALSE
    <3>1. /\ connected /\ writing'.cmd # "SET_SPEED"
          /\ stop_lost' \/ Carries(to_motors', "STOP") \/ writing'.cmd = "STOP"
      <4>1. connected
        BY <2>4 DEF Bridge!SendCommand
      <4>2. \/ to_motors' = Append(to_motors, Bridge!Stop) /\ writing' = writing
            \/ connected' = FALSE /\ writing' = writing
            \/ writing' = Bridge!Stop
        BY <1>0, <1>n, <2>4, SendFacts
      <4>3. Carries(Append(to_motors, Bridge!Stop), "STOP")
        BY <1>0, <1>n, LineAppend
      <4>4. writing'.cmd # "SET_SPEED"
        BY <1>n, <2>2, <4>2
      <4> QED BY <1>n, <2>1, <4>1, <4>2, <4>3, <4>4
    <3>2. \A lag \in Nat \ {0} : ~Silent(lag)'
      BY <2>3, <2>4, SilentIdle
    <3>3. ~Silent(1)' /\ ~Silent(2)' /\ ~Silent(2 + TicksPerHandler)'
      BY <1>0, <3>2
    <3> QED BY <2>4, <3>1, <3>3 DEF SilenceInv
  <2>5. CASE UNCHANGED <<connected, cmd_vel_active, writing, to_motors>>
    <3>1. waited' = waited
      BY <1>0, <2>1, <2>5 DEF AtMost
    <3>2. /\ pc' = pc /\ safety_event' = safety_event /\ UNCHANGED <<state, target, pwm>>
          /\ preempted' = preempted
      BY <2>1 DEF vars, threads, machine, command, outputs
    <3>3. /\ NeverDriven' <=> NeverDriven
          /\ StopRuns' <=> StopRuns
          /\ StopInForce' <=> StopInForce
          /\ StopWaited' <=> StopWaited
          /\ Carries(to_motors', "STOP") <=> Carries(to_motors, "STOP")
      BY <2>5, <3>1, <3>2 DEF NeverDriven, StopRuns, StopInForce, SpeedRuns, StopWaited
    <3>4. stop_lost => stop_lost'
      BY <2>1
    <3>5. writing'.cmd # "SET_SPEED"
      BY <1>n, <2>2, <2>5
    <3> QED BY <1>0, <2>2, <2>3, <2>5, <3>2, <3>3, <3>4, <3>5, SilenceKept
  <2> QED BY <2>1, <2>4, <2>5 DEF Bridge!Watchdog, Bridge!port_vars
<1>3. CASE OtherCallback
  <2>1. /\ UNCHANGED vars /\ KeepQuiet
        /\ stop_lost' = (stop_lost \/ (Carries(to_motors, "STOP")
                                          /\ ~Carries(to_motors', "STOP")))
        /\ running' => running /\ writing = Bridge!NoPacket
        /\ running' => cmd_vel_active' = cmd_vel_active
        /\ writing'.cmd # "SET_SPEED"
        /\ running' /\ Carries(to_motors', "SET_SPEED") => Carries(to_motors, "SET_SPEED")
    BY <1>3, OtherFacts, CallbackFacts
  <2>2. /\ pc' = pc /\ safety_event' = safety_event /\ UNCHANGED <<state, target, pwm>>
        /\ preempted' = preempted
    BY <2>1 DEF vars, threads, machine, command, outputs
  <2>3. /\ StopRuns' <=> StopRuns
        /\ StopInForce' <=> StopInForce
        /\ running' => (NeverDriven => NeverDriven')
    BY <2>1, <2>2 DEF NeverDriven, StopRuns, StopInForce, SpeedRuns
  <2>4. stop_lost => stop_lost'
    BY <2>1
  <2>5. \A lag \in Nat \ {0} : Silent(lag)' => Silent(lag)
    BY <2>1, <2>4, SilentBefore
  <2>6. Silent(1)' => (StopWaited => StopWaited')
    <3>1. Silent(1)' => connected /\ connected'
      BY <1>0, <2>5 DEF Silent
    <3> QED BY <1>3, <3>1, StopStays
  <2>7. running' /\ ~stop_lost' =>
          /\ Carries(to_motors, "STOP") => Carries(to_motors', "STOP")
          /\ ~(writing.cmd = "STOP")
    BY <1>n, <2>1
  <2> QED BY <1>0, <2>1, <2>2, <2>3, <2>4, <2>5, <2>6, <2>7, SilenceKept
<1>4. CASE EndWrite
  <2>1. /\ running /\ running' = running /\ cmd_vel_active' = cmd_vel_active
        /\ writing \in Packet /\ writing' = Bridge!NoPacket /\ connected
        /\ Bridge!Write(writing)
        /\ KeepQuiet
        /\ stop_lost' = (stop_lost \/ (connected /\ ~connected' /\ writing.cmd = "STOP"))
    BY <1>4 DEF EndWrite, Bridge!EndWrite, LinkTypeOK
  <2>2. /\ pc' = pc /\ safety_event' = safety_event /\ UNCHANGED <<state, target, pwm>>
        /\ preempted' = preempted
    BY <1>4, CallbackFacts DEF vars, threads, machine, command, outputs
  <2>3. stop_lost => stop_lost'
    BY <2>1
  <2>4. \A lag \in Nat \ {0} : Silent(lag)' => Silent(lag)
    BY <2>1, <2>3, SilentBefore
  <2>5. Silent(1)' => (StopWaited => StopWaited')
    <3>1. Silent(1)' => connected /\ connected'
      BY <1>0, <2>4 DEF Silent
    <3> QED BY <1>4, <3>1, StopStays
  <2>6. /\ writing.cmd = "SET_SPEED" => cmd_vel_active'
        /\ writing'.cmd # "SET_SPEED"
    BY <1>n, <2>1 DEF SilenceInv
  <2>7. \/ /\ connected' = connected
           /\ \A cmd : Carries(to_motors', cmd) <=> Carries(to_motors, cmd) \/ writing.cmd = cmd
        \/ connected' = FALSE /\ to_motors' = to_motors
    <3>1. \/ to_motors' = Append(to_motors, writing) /\ connected' = connected
          \/ connected' = FALSE /\ to_motors' = to_motors
      BY <1>0, <2>1, WriteFacts
    <3>2. \A cmd : Carries(Append(to_motors, writing), cmd)
                     <=> Carries(to_motors, cmd) \/ writing.cmd = cmd
      BY <1>0, <2>1, LineAppend
    <3> QED BY <3>1, <3>2
  <2>8. /\ StopRuns' <=> StopRuns
        /\ StopInForce' <=> StopInForce
        /\ ~cmd_vel_active' => (NeverDriven => NeverDriven')
        /\ Carries(to_motors, "STOP") => Carries(to_motors', "STOP")
        /\ ~stop_lost' => (writing.cmd = "STOP" => Carries(to_motors', "STOP"))
    BY <2>1, <2>2, <2>6, <2>7 DEF NeverDriven, StopRuns, StopInForce, SpeedRuns
  <2> QED BY <1>0, <2>1, <2>2, <2>3, <2>4, <2>5, <2>6, <2>8, SilenceKept
<1>5. CASE Handle
  <2>1. /\ UNCHANGED <<state, target, pwm, safety_event, preempted>>
        /\ UNCHANGED <<bridge_vars, history_vars>>
        /\ pc["proto"] = "idle"
        /\ pc'["proto"] = CASE Head(to_motors).cmd = "SET_SPEED" -> "left"
                            [] Head(to_motors).cmd = "STOP" -> "stop_targets"
                            [] OTHER -> "idle"
        /\ to_motors # <<>> /\ to_motors' = Tail(to_motors)
        /\ waited' = IF waited = 0 THEN 0 ELSE waited - 1
    BY <1>5, HandleFacts DEF Handle
  <2>2. UNCHANGED <<running, connected, cmd_vel_active, writing, quiet, stop_lost>>
    BY <2>1 DEF bridge_vars, history_vars
  <2>3. /\ Head(to_motors).cmd = "STOP" => StopRuns'
        /\ Head(to_motors).cmd # "SET_SPEED" => ~SpeedRuns'
        /\ ~StopRuns
    BY <2>1 DEF StopRuns, SpeedRuns
  <2>4. \A cmd : Carries(to_motors, cmd)
                   <=> Head(to_motors).cmd = cmd \/ Carries(to_motors', cmd)
    BY <1>0, <2>1, LineTail
  <2>5. /\ NeverDriven => NeverDriven'
        /\ StopInForce' <=> StopInForce
    BY <2>1, <2>3, <2>4 DEF NeverDriven, StopInForce
  <2>6. \A lag : Silent(lag)' <=> Silent(lag)
    BY <2>2 DEF Silent
  <2>7. StopWaited => StopWaited' \/ StopRuns'
    BY <1>0, <2>1, <2>3, WaitedTail
  <2>8. writing'.cmd = "SET_SPEED" => cmd_vel_active'
    BY <2>2 DEF SilenceInv
  <2> QED BY <1>0, <2>2, <2>3, <2>4, <2>5, <2>6, <2>7, <2>8, SilenceKept
<1>6. CASE Lose
  <2>1. /\ UNCHANGED vars /\ UNCHANGED bridge_vars /\ quiet' = quiet
        /\ to_motors # <<>> /\ to_motors' = Tail(to_motors)
        /\ waited' = IF waited = 0 THEN 0 ELSE waited - 1
        /\ stop_lost' = (stop_lost \/ (Head(to_motors).cmd = "STOP"))
    BY <1>6 DEF Lose
  <2>2. /\ UNCHANGED <<running, connected, cmd_vel_active, writing>>
        /\ pc' = pc /\ safety_event' = safety_event /\ UNCHANGED <<state, target, pwm>>
        /\ preempted' = preempted
    BY <2>1 DEF bridge_vars, vars, threads, machine, command, outputs
  <2>3. \A cmd : Carries(to_motors, cmd)
                   <=> Head(to_motors).cmd = cmd \/ Carries(to_motors', cmd)
    BY <1>0, <2>1, LineTail
  <2>4. /\ NeverDriven => NeverDriven'
        /\ StopInForce' <=> StopInForce
        /\ StopRuns' <=> StopRuns
    BY <2>2, <2>3 DEF NeverDriven, StopInForce, SpeedRuns, StopRuns
  <2>5. \A lag : Silent(lag)' => Silent(lag)
    BY <2>1, <2>2 DEF Silent
  <2>6. Silent(1)' => ~(Head(to_motors).cmd = "STOP")
    BY <2>1 DEF Silent
  <2>7. StopWaited => StopWaited' \/ Head(to_motors).cmd = "STOP"
    BY <1>0, <2>1, WaitedTail
  <2>8. writing'.cmd = "SET_SPEED" => cmd_vel_active'
    BY <2>2 DEF SilenceInv
  <2> QED BY <1>0, <2>1, <2>2, <2>3, <2>4, <2>5, <2>6, <2>7, <2>8, SilenceKept
<1>7. CASE HandlePacket
  <2>1. /\ HandlerRuns
        /\ state' = state
        /\ HandlerRuns' => preempted'["proto"] = preempted["proto"]
        /\ StopInForce => StopInForce'
        /\ StopRuns => /\ StopRuns' \/ StopInForce'
                       /\ ~SpeedRuns'
                       /\ target' = target \/ target' = Stopped
                       /\ pwm' = pwm \/ pwm' = Stopped
        /\ UNCHANGED <<bridge_vars, to_motors, line_vars, history_vars>>
    BY <1>7, StatementFacts DEF HandlePacket
  <2>2. UNCHANGED <<running, connected, cmd_vel_active, writing, to_motors, waited, quiet,
                    stop_lost>>
    BY <2>1 DEF bridge_vars, history_vars, line_vars
  <2>3. NeverDriven => NeverDriven'
    BY <2>1, <2>2 DEF NeverDriven, HandlerInv
  <2>4. \A lag : Silent(lag)' <=> Silent(lag)
    BY <2>2 DEF Silent
  <2>5. (Carries(to_motors', "STOP") <=> Carries(to_motors, "STOP"))
          /\ (StopWaited' <=> StopWaited)
    BY <2>2 DEF StopWaited
  <2>6. StopRuns' => HandlerRuns'
    BY DEF StopRuns, HandlerRuns
  <2>7. writing'.cmd = "SET_SPEED" => cmd_vel_active'
    BY <2>2 DEF SilenceInv
  <2> QED BY <1>0, <2>1, <2>2, <2>3, <2>4, <2>5, <2>6, <2>7, SilenceKept
<1>8. CASE Tick
  <2>1. /\ UNCHANGED <<running, connected, cmd_vel_active, writing, to_motors, stop_lost>>
        /\ waited' = Len(to_motors)
    BY <1>8, BridgeTickFacts DEF Tick
  <2>2. /\ pc' = pc /\ safety_event' = safety_event
        /\ HandlerRuns => preempted["proto"] < TicksPerHandler
        /\ HandlerRuns => preempted'["proto"] >= 1
        /\ target' # Stopped => target # Stopped
        /\ state # "RUNNING" /\ target = Stopped =>
             state' # "RUNNING" /\ (pwm' = pwm \/ pwm' = Stopped)
    BY <1>8, TickFacts DEF Tick
  <2>3. /\ NeverDriven => NeverDriven'
        /\ StopRuns' <=> StopRuns
        /\ StopInForce' <=> StopInForce
    BY <2>1, <2>2 DEF NeverDriven, SpeedRuns, StopRuns, StopInForce
  <2>4. StopRuns => HandlerRuns
    BY DEF StopRuns, HandlerRuns
  <2>5. writing'.cmd = "SET_SPEED" => cmd_vel_active'
    BY <2>1 DEF SilenceInv
  <2>6. \A i \in 1 .. Len(to_motors) : to_motors[i].cmd = "STOP" => StopWaited'
    BY <2>1 DEF StopWaited
  <2>7. CASE ~OnTime
    <3>1. quiet' = quiet
      BY <1>8, <2>7 DEF Tick
    <3>2. \A lag : Silent(lag)' <=> Silent(lag)
      BY <2>1, <3>1 DEF Silent
    <3>3. \A i \in 1 .. waited : i \in 1 .. Len(to_motors)
      BY <1>0
    <3>4. StopWaited => StopWaited'
      BY <2>6, <3>3 DEF StopWaited
    <3> QED BY <1>0, <2>1, <2>2, <2>3, <2>4, <2>5, <3>2, <3>4, SilenceKept
  <2>8. CASE OnTime
    <3>1. waited = 0 /\ writing = Bridge!NoPacket
      BY <1>8, <2>8 DEF Tick, OnTime
    <3>2. \A lag \in Nat : Silent(lag + 1)' => Silent(lag)
      <4> SUFFICES ASSUME NEW lag \in Nat, Silent(lag + 1)' PROVE Silent(lag)
        OBVIOUS
      <4>1. connected' /\ ~stop_lost' /\ quiet' >= QuietTicks + Lateness + (lag + 1)
        BY DEF Silent
      <4>2. quiet' = Counted(quiet, QuietTicks + QuietLag + 1)
        BY <1>8, <2>1, <2>8, <4>1 DEF Tick
      <4>3. QuietTicks + QuietLag + 1 \in Nat
        BY <1>0 DEF QuietLag
      <4>4. Counted(quiet, QuietTicks + QuietLag + 1) <= quiet + 1
        BY <1>0, <4>3, CountedType
      <4>5. quiet' <= quiet + 1 /\ quiet' \in Nat
        BY <4>2, <4>4 DEF LinkTypeOK
      <4>6. quiet >= QuietTicks + Lateness + lag
        BY <1>0, <4>1, <4>5
      <4> QED BY <2>1, <4>1, <4>6 DEF Silent
    <3>3. /\ Silent(1)' => Silent(0)
          /\ Silent(2)' => Silent(1)
          /\ Silent(2 + TicksPerHandler)' => Silent(1 + TicksPerHandler)
      <4>1. /\ 0 \in Nat /\ 1 \in Nat /\ 1 + TicksPerHandler \in Nat
            /\ 1 = 0 + 1 /\ 2 = 1 + 1 /\ 2 + TicksPerHandler = (1 + TicksPerHandler) + 1
        BY <1>0
      <4> QED BY <3>2, <4>1
    <3>4. (running /\ ~cmd_vel_active /\ ~stop_lost =>
             \/ NeverDriven \/ writing.cmd = "STOP" \/ Carries(to_motors, "STOP")
             \/ StopRuns \/ StopInForce)'
      BY <2>1, <2>3 DEF SilenceInv
    <3>5. (Silent(1) => NeverDriven \/ StopWaited \/ StopRuns \/ StopInForce)'
      <4> SUFFICES ASSUME Silent(0)
                   PROVE  (NeverDriven \/ StopWaited \/ StopRuns \/ StopInForce)'
        BY <3>3
      <4>1. ~cmd_vel_active /\ running /\ ~stop_lost
        BY <1>0, <2>8, SilentIdle DEF Silent, LinkTypeOK
      <4>2. NeverDriven \/ Carries(to_motors, "STOP") \/ StopRuns \/ StopInForce
        BY <1>n, <3>1, <4>1 DEF SilenceInv
      <4>3. Carries(to_motors, "STOP") => StopWaited'
        BY <1>0, <2>6, LenProperties DEF Carries
      <4> QED BY <2>3, <4>2, <4>3
    <3>6. ~StopWaited
      BY <3>1 DEF StopWaited
    <3>7. (Silent(2) => NeverDriven \/ StopInForce \/ (StopRuns /\ preempted["proto"] >= 1))'
      BY <2>2, <2>3, <2>4, <3>3, <3>6 DEF SilenceInv
    <3>8. (Silent(2 + TicksPerHandler) => NeverDriven \/ StopInForce)'
      <4> SUFFICES ASSUME Silent(1 + TicksPerHandler) PROVE (NeverDriven \/ StopInForce)'
        BY <3>3
      <4>1. CASE TicksPerHandler = 0
        <5>1. 1 + TicksPerHandler = 1
          BY <4>1
        <5>2. ~HandlerRuns
          BY <1>0, <2>2, <4>1
        <5>3. Silent(1)
          BY <5>1
        <5> QED BY <2>3, <2>4, <3>6, <5>2, <5>3 DEF SilenceInv
      <4>2. CASE TicksPerHandler = 1
        <5>1. 1 + TicksPerHandler = 2
          BY <4>2
        <5>2. HandlerRuns => ~(preempted["proto"] >= 1)
          BY <1>0, <2>2, <4>2
        <5>3. Silent(2)
          BY <5>1
        <5> QED BY <2>3, <2>4, <5>2, <5>3 DEF SilenceInv
      <4>3. TicksPerHandler = 0 \/ TicksPerHandler = 1
        BY <1>0
      <4> QED BY <4>1, <4>2, <4>3
    <3> QED BY <2>5, <3>4, <3>5, <3>7, <3>8 DEF SilenceInv
  <2> QED BY <2>7, <2>8
<1>9. CASE UNCHANGED link_vars
  BY <1>9 DEF link_vars, bridge_vars, line_vars, history_vars, vars, threads, machine,
     command, outputs, SilenceInv, Silent, NeverDriven, StopRuns, SpeedRuns, StopInForce,
     StopWaited
<1> QED BY <1>1, <1>2, <1>3, <1>4, <1>5, <1>6, <1>7, <1>8, <1>9 DEF LinkNext

\* Whatever the capacity of the line, the losses and the timing, the variables of the link
\* stay in their types.
THEOREM LinkTypeCorrect == LinkSpec => []LinkTypeOK
<1> QED BY LinkTypeInit, LinkTypeStep, PTL DEF LinkSpec

\* The controller behind the bridge and the line is the controller of MotorController: all
\* that is proved of it for any requests holds of it here.
THEOREM LinkImplementsController == LinkSpec => Spec
<1>1. LinkInit => Init
  BY DEF LinkInit
<1> QED BY <1>1, FirmwareStep, LinkTypeCorrect, PTL DEF LinkSpec, Spec

\* What the phases of the silence and of the lost connection rest on.
LEMMA PhasesInductive ==
  LinkSpec => [](SafetyInv /\ HandlerInv /\ LostInv /\ ExpiryInv /\ SilenceInv)
<1>1. LinkInit => HandlerInv /\ LostInv /\ ExpiryInv /\ SilenceInv
  <2> SUFFICES ASSUME LinkInit PROVE HandlerInv /\ LostInv /\ ExpiryInv /\ SilenceInv
    OBVIOUS
  <2>1. /\ cmd_vel_active = FALSE /\ to_motors = <<>> /\ DOMAIN to_motors = {}
        /\ writing = Bridge!NoPacket /\ writing.cmd # "SET_SPEED"
        /\ quiet = 0 /\ down = 0 /\ hb_age \in Nat
        /\ pc["proto"] = "idle" /\ state = "IDLE" /\ target = Stopped /\ pwm = Stopped
    BY LimitType, EmptySeq DEF LinkInit, Bridge!Init, Bridge!NoPacket, Init, Thread
  <2>2. ~HandlerRuns /\ ~SpeedRuns /\ ~StopRuns /\ NeverDriven
    BY <2>1 DEF HandlerRuns, SpeedRuns, StopRuns, NeverDriven, Carries
  <2>3. TicksPerHandler \in Nat /\ QuietTicks \in Nat /\ Lateness \in Nat /\ TimeoutTicks \in Nat
    BY LimitType, LinkLimits, TickLimits
  <2>4. SilenceInv
    BY <2>1, <2>2 DEF SilenceInv
  <2>5. LostInv
    <3>1. ~(down >= 1) /\ ~(down >= 2) /\ ~(down >= 2 + TicksPerHandler)
          /\ hb_age >= down - (1 + TicksPerHandler)
      BY <2>1, <2>3
    <3> QED BY <3>1 DEF LostInv
  <2>6. ExpiryInv
    BY <2>1, <2>3 DEF ExpiryInv, Expired
  <2> QED BY <2>2, <2>4, <2>5, <2>6 DEF HandlerInv
<1>2. /\ LinkTypeOK /\ LinkTypeOK' /\ SafetyInv /\ SafetyInv'
      /\ HandlerInv /\ LostInv /\ ExpiryInv /\ SilenceInv /\ [LinkNext]_link_vars
      => HandlerInv' /\ LostInv' /\ ExpiryInv' /\ SilenceInv'
  BY HandlerInvStep, LostStep, ExpiryStep, SilenceStep DEF SafetyInv
<1> QED BY <1>1, <1>2, LinkTypeCorrect, LinkImplementsController, SafetyInductive, PTL
        DEF LinkSpec

\* "ESP32 stops motors if heartbeat lost": for every timeout, every number of lost packets,
\* every capacity of the line and every delay of a callback or of a write, the motors stand
\* once the connection has been gone for the heartbeat timeout and LostLag ticks.
THEOREM LostLinkSafe == LinkSpec => []LostLinkStops
<1>1. SafetyInv /\ LostInv /\ LinkTypeOK => LostLinkStops
  <2> SUFFICES ASSUME SafetyInv, LostInv, LinkTypeOK, ~connected,
                      down > HeartbeatTimeout + LostLag
               PROVE  AtStandstill
    BY DEF LostLinkStops
  <2>1. hb_age > HeartbeatTimeout + 1 \/ hb_age >= down - (1 + TicksPerHandler)
    BY DEF LostInv
  <2>2. ~(hb_age <= HeartbeatTimeout + 1)
    BY <2>1, LimitType DEF SafetyInv, TypeOK, LinkTypeOK, LostLag
  <2> QED BY <2>2 DEF SafetyInv, DeadMan, AtStandstill
<1> QED BY <1>1, PhasesInductive, LinkTypeCorrect, PTL

\* "Watchdog: stops motors if no /cmd_vel": for every timeout, every number of lost packets,
\* every capacity of the line and every delay that a callback on time may have, a silent
\* bridge has the motors standing QuietLag ticks on time after the first period past the
\* timeout, or the one stop that it sends was lost.
THEOREM SilenceSafe == LinkSpec => []SilenceStops
<1>1. SafetyInv /\ SilenceInv /\ LinkTypeOK => SilenceStops
  <2> SUFFICES ASSUME SafetyInv, SilenceInv, LinkTypeOK, Unattended, ~stop_lost
               PROVE  AtStandstill
    BY DEF SilenceStops, LinkTypeOK
  <2>1. connected /\ quiet >= QuietTicks + Lateness + (2 + TicksPerHandler)
    BY LimitType, LinkLimits, TickLimits DEF Unattended, QuietLag, LinkTypeOK
  <2>2. Silent(2 + TicksPerHandler)
    BY <2>1 DEF Silent
  <2>3. NeverDriven \/ StopInForce
    BY <2>2 DEF SilenceInv
  <2> QED BY <2>3 DEF NeverDriven, StopInForce, SafetyInv, StopInv, AtStandstill
<1> QED BY <1>1, PhasesInductive, LinkTypeCorrect, PTL

\* With a heartbeat timeout that covers one heartbeat more than may be lost in a row and the
\* delay of a callback on time, a connection that lasts never sends the controller into
\* FAULT at whichever control tick it looks, whatever else is on the line: for every length
\* of a period in control ticks.
THEOREM HealthyLinkSafe ==
  ASSUME HeartbeatsSuffice
  PROVE  LinkSpec => []HealthyLinkNeverFaults
<1>1. LinkInit => HealthInv
  <2> SUFFICES ASSUME LinkInit PROVE HealthInv
    OBVIOUS
  <2>1. /\ fault_code = 0 /\ to_motors = <<>> /\ pc["proto"] = "idle" /\ state = "IDLE"
        /\ target = Stopped /\ due = {}
    BY DEF LinkInit, Bridge!Init, Init, Thread
  <2> QED BY <2>1 DEF HealthInv, Commanded, HandlerRuns
<1>2. /\ LinkTypeOK /\ LinkTypeOK' /\ SafetyInv /\ SafetyInv' /\ HandlerInv
      /\ HealthInv /\ [LinkNext]_link_vars
      => HealthInv'
  BY HealthStep DEF SafetyInv
<1>3. HealthInv /\ LinkTypeOK => HealthyLinkNeverFaults
  BY DEF HealthInv, HealthyLinkNeverFaults, LinkTypeOK
<1> QED BY <1>1, <1>2, <1>3, PhasesInductive, LinkTypeCorrect, LinkImplementsController,
           SafetyInductive, PTL DEF LinkSpec
=============================================================================
