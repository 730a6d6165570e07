-------------------------- MODULE MotorController --------------------------
(***************************************************************************)
(* The motor-controller firmware                                           *)
(* (src/esp32_firmware/motor_controller/src/main.cpp): the 10 ms control   *)
(* loop that runs the state machine, the protocol thread that executes     *)
(* packets and the development shell.                                      *)
(*                                                                         *)
(* The three run on one core with strict priorities (main 0, protocol 1,   *)
(* shell 14).  A tick of main is therefore one atomic step, while a packet *)
(* handler can be preempted by a tick between any two of its statements    *)
(* and a shell command by both.  A handler is a walk of its thread's       *)
(* program counter pc[t]; each step is one group of stores that no other   *)
(* thread's decision can tell apart.  A handler is much shorter than a     *)
(* tick period, so at most TicksPerHandler ticks fall inside one.          *)
(*                                                                         *)
(* Time is counted in ticks of main.  The code compares milliseconds, so   *)
(* where the whole ticks of an age equal a limit either answer is possible. *)
(***************************************************************************)
EXTENDS Ages

CONSTANTS
  Speeds,            \* values a speed field can decode to (a set of integers)
  MaxSpeed,          \* the clamp, 100 in the code; also the step without ramp
  RampStep,          \* RAMP_STEP_PER_TICK
  HeartbeatTimeout,  \* HEARTBEAT_TIMEOUT_MS, in ticks
  FaultDelay,        \* FAULT_RECOVERY_DELAY_MS, in ticks
  TicksPerHandler    \* bound: ticks of main that fall inside one handler, which
                     \* runs for well under a millisecond of the 10 ms period

ASSUME SpeedAssumption ==
  /\ Speeds \subseteq Int
  /\ MaxSpeed \in Nat \ {0}
  /\ RampStep \in 1 .. MaxSpeed
ASSUME TimeAssumption ==
  /\ HeartbeatTimeout \in Nat
  /\ FaultDelay \in Nat
  /\ TicksPerHandler \in {0, 1}

VARIABLES
  state,         \* sm_obj.ctx.current
  fault_code,    \* sm_obj.fault_code
  fault_age,     \* ticks since sm_obj.fault_entry_time; kept in FAULT only
  target,        \* target_left, target_right
  actual,        \* actual_left, actual_right
  ramp_enabled,
  hb_age,        \* ticks since last_cmd_time
  safety_event,  \* the last message of safety_event_chan
  pwm,           \* duty the PWM hardware applies to each side, signed
  en,            \* the two motor enable GPIOs, always written together
  pc,            \* per thread: the next statement group of its handler
  arg,           \* per thread: the arguments of the speed command it runs
  preempted,     \* per thread: ticks that fell inside its handler so far
  stale,         \* history, per side: target was stored while FAULT or ESTOP
  stop_pending   \* history: an emergency stop was published after the last reset

outputs == <<pwm, en>>
command == <<target, actual, ramp_enabled>>
machine == <<state, fault_code, fault_age>>
threads == <<pc, arg, preempted>>
history == <<stale, stop_pending>>
vars == <<machine, command, hb_age, safety_event, outputs, threads, history>>

----------------------------------------------------------------------------
Side    == {"left", "right"}
Thread  == {"proto", "shell"}
State   == {"IDLE", "RUNNING", "FAULT", "ESTOP"}
Stopped == [s \in Side |-> 0]
EstopEvent == 2

\* Where a handler can stand.  "idle": no handler runs.
Label == {"idle",
          "left", "right", "ramp", "refresh",                  \* speed command
          "stop_targets", "stop_actuals", "stop_pwm", "stop_event",
          "clear_fault", "exit", "exit_en", "current",         \* reset:
          "entry_pwm", "entry_en", "entry_targets", "entry_actuals"}

Duty == (0 - MaxSpeed) .. MaxSpeed

\* No command runs, so no argument matters.
NoArg == [left |-> 0, right |-> 0, ramp |-> TRUE]

Clamp(v) == IF v > MaxSpeed THEN MaxSpeed
            ELSE IF v < 0 - MaxSpeed THEN 0 - MaxSpeed ELSE v

\* Mutants: the timeout is one tick too long; the watchdog is forgotten.
HeartbeatLate  == Beyond(hb_age, HeartbeatTimeout + 1)
HeartbeatNever == {FALSE}

\* What the comparison of the last command's time with the timeout may answer.
heartbeat_expired == Beyond(hb_age, HeartbeatTimeout)

\* The same of the time since the fault was entered.
fault_delay_over == Beyond(fault_age, FaultDelay)

ramp_towards(current, goal, step) ==
  LET diff == goal - current IN
    IF diff > step THEN current + step
    ELSE IF diff < 0 - step THEN current - step
    ELSE goal

----------------------------------------------------------------------------
(***************************************************************************)
(* The control loop.  Every disjunct of MainTick is one run function with  *)
(* the exit and entry functions of the transition it makes.                *)
(***************************************************************************)

\* Mutant: the drivers stay enabled.
HaltEnabled ==
  /\ pwm' = Stopped /\ en' = en /\ target' = Stopped /\ actual' = Stopped
  /\ stale' = [s \in Side |-> FALSE]
  /\ UNCHANGED ramp_enabled

\* motors_stop, motors_enable(false) and the zeroing that idle_entry,
\* fault_entry and estop_entry share.
Halt ==
  /\ pwm' = Stopped
  /\ en' = FALSE
  /\ target' = Stopped
  /\ actual' = Stopped
  /\ stale' = [s \in Side |-> FALSE]
  /\ UNCHANGED ramp_enabled

Elapse == /\ hb_age' = Aged(hb_age, HeartbeatTimeout)
          /\ fault_age' = IF state' = "FAULT" THEN Aged(fault_age, FaultDelay) ELSE 0

\* Mutant: fault_run does not look at the event.
EstopTickNotInFault ==
  /\ state \in {"IDLE", "RUNNING"} /\ safety_event = EstopEvent
  /\ state' = "ESTOP" /\ Halt /\ Elapse /\ UNCHANGED fault_code

\* idle_run, running_run and fault_run check the event first.
EstopTick ==
  /\ state \in {"IDLE", "RUNNING", "FAULT"}
  /\ safety_event = EstopEvent
  /\ state' = "ESTOP"
  /\ Halt
  /\ Elapse
  /\ UNCHANGED fault_code

\* idle_run with a target set: running_entry enables and refreshes.
IdleStartTick ==
  /\ state = "IDLE"
  /\ safety_event # EstopEvent
  /\ target # Stopped
  /\ state' = "RUNNING"
  /\ en' = TRUE
  /\ hb_age' = 1
  /\ UNCHANGED <<fault_code, fault_age, command, pwm, stale>>

HeartbeatFaultTick ==
  /\ state = "RUNNING"
  /\ safety_event # EstopEvent
  /\ TRUE \in heartbeat_expired
  /\ fault_code' = 1
  /\ state' = "FAULT"
  /\ Halt
  /\ hb_age' = Aged(hb_age, HeartbeatTimeout)
  /\ fault_age' = 1

RampTick ==
  LET step == IF ramp_enabled THEN RampStep ELSE MaxSpeed
      next == [s \in Side |-> ramp_towards(actual[s], target[s], step)]
  IN
  /\ state = "RUNNING"
  /\ safety_event # EstopEvent
  /\ FALSE \in heartbeat_expired
  /\ \/ /\ target = Stopped /\ next = Stopped
        /\ state' = "IDLE"
        /\ Halt
     \/ /\ ~(target = Stopped /\ next = Stopped)
        /\ actual' = next
        /\ pwm' = next
        /\ UNCHANGED <<state, target, ramp_enabled, en, stale>>
  /\ Elapse
  /\ UNCHANGED fault_code

FaultClearTick ==
  /\ state = "FAULT"
  /\ safety_event # EstopEvent
  /\ TRUE \in fault_delay_over
  /\ fault_code = 0
  /\ state' = "IDLE"
  /\ Halt
  /\ Elapse
  /\ UNCHANGED fault_code

\* idle_run, fault_run and estop_run with nothing to do.
QuietTick ==
  /\ \/ state = "IDLE" /\ safety_event # EstopEvent /\ target = Stopped
     \/ /\ state = "FAULT" /\ safety_event # EstopEvent
        /\ fault_code = 0 => FALSE \in fault_delay_over
     \/ state = "ESTOP"
  /\ UNCHANGED <<state, fault_code, command, outputs, stale>>
  /\ Elapse

MainTick ==
  /\ \A t \in Thread : pc[t] # "idle" => preempted[t] < TicksPerHandler
  /\ \/ EstopTick
     \/ IdleStartTick
     \/ HeartbeatFaultTick
     \/ RampTick
     \/ FaultClearTick
     \/ QuietTick
  /\ preempted' = [t \in Thread |-> IF pc[t] = "idle" THEN 0 ELSE preempted[t] + 1]
  /\ UNCHANGED <<safety_event, pc, arg, stop_pending>>

----------------------------------------------------------------------------
(***************************************************************************)
(* Handlers.  A thread runs when no thread of a higher priority is busy.   *)
(***************************************************************************)

CanRun(t) == t = "shell" => pc["proto"] = "idle"

Goto(t, l) == pc' = [pc EXCEPT ![t] = l]

\* handle_packet refreshes the heartbeat whatever the packet is; packets
\* that do nothing else (heartbeat, version, status, unknown, too short) end there.
ReceiveOther ==
  /\ pc["proto"] = "idle"
  /\ hb_age' = 0
  /\ UNCHANGED <<machine, command, safety_event, outputs, threads, history>>

ReceiveAt(first) ==
  /\ pc["proto"] = "idle"
  /\ hb_age' = 0
  /\ Goto("proto", first)
  /\ UNCHANGED <<preempted, machine, command, safety_event, outputs, history>>

ReceiveSetSpeed(l, r, ramp) ==
  /\ ReceiveAt("left")
  /\ arg' = [arg EXCEPT !["proto"] =
               [left |-> Clamp(l), right |-> Clamp(r), ramp |-> ramp]]

ReceiveStop  == ReceiveAt("stop_targets") /\ UNCHANGED arg
ReceiveReset == ReceiveAt("clear_fault") /\ UNCHANGED arg

ShellAt(first) ==
  /\ pc["proto"] = "idle" /\ pc["shell"] = "idle"
  /\ Goto("shell", first)
  /\ UNCHANGED <<preempted, machine, command, hb_age, safety_event, outputs, history>>

\* motor speed leaves the ramp flag alone.
ShellSpeed(l, r) ==
  /\ ShellAt("left")
  /\ arg' = [arg EXCEPT !["shell"] =
               [left |-> Clamp(l), right |-> Clamp(r), ramp |-> TRUE]]

ShellStop  == ShellAt("stop_targets") /\ UNCHANGED arg
ShellReset == ShellAt("clear_fault") /\ UNCHANGED arg

----------------------------------------------------------------------------
\* The statement groups of the handlers.

StoreTarget(t, s, next) ==
  /\ target' = [target EXCEPT ![s] = arg[t][s]]
  /\ stale' = [stale EXCEPT ![s] = state \in {"FAULT", "ESTOP"}]
  /\ Goto(t, next)
  /\ UNCHANGED <<machine, actual, ramp_enabled, hb_age, safety_event, outputs, stop_pending>>

StoreLeft(t)  == pc[t] = "left"  /\ StoreTarget(t, "left", "right")

\* The shell ends with the refresh, the protocol with the ramp flag.
StoreRight(t) ==
  /\ pc[t] = "right"
  /\ StoreTarget(t, "right", IF t = "proto" THEN "ramp" ELSE "refresh")

StoreRamp(t) ==
  /\ pc[t] = "ramp"
  /\ ramp_enabled' = arg[t].ramp
  /\ Goto(t, "idle")
  /\ UNCHANGED <<machine, target, actual, hb_age, safety_event, outputs, history>>

ShellRefresh(t) ==
  /\ pc[t] = "refresh"
  /\ hb_age' = 0
  /\ Goto(t, "idle")
  /\ UNCHANGED <<machine, command, safety_event, outputs, history>>

\* Mutants: the emergency stop, or idle_entry, leaves the targets alone.
SkipZeroTargets(t, from, to) ==
  /\ pc[t] = from /\ Goto(t, to)
  /\ UNCHANGED <<machine, command, hb_age, safety_event, outputs, history>>
DoZeroTargets(t, from, to) ==
  /\ pc[t] = from /\ Goto(t, to)
  /\ target' = Stopped /\ stale' = [s \in Side |-> FALSE]
  /\ UNCHANGED <<machine, actual, ramp_enabled, hb_age, safety_event, outputs, stop_pending>>
ZeroTargetsEntryOnly(t) ==
  \/ SkipZeroTargets(t, "stop_targets", "stop_actuals")
  \/ DoZeroTargets(t, "entry_targets", "entry_actuals")
ZeroTargetsStopOnly(t) ==
  \/ DoZeroTargets(t, "stop_targets", "stop_actuals")
  \/ SkipZeroTargets(t, "entry_targets", "entry_actuals")

\* Zeroing the targets, on an emergency stop and in idle_entry.
ZeroTargets(t) ==
  /\ \/ pc[t] = "stop_targets" /\ Goto(t, "stop_actuals")
     \/ pc[t] = "entry_targets" /\ Goto(t, "entry_actuals")
  /\ target' = Stopped
  /\ stale' = [s \in Side |-> FALSE]
  /\ UNCHANGED <<machine, actual, ramp_enabled, hb_age, safety_event, outputs, stop_pending>>

\* The last statement of idle_entry ends the reset.
ZeroActuals(t) ==
  /\ \/ /\ pc[t] = "stop_actuals"
        /\ Goto(t, "stop_pwm")
        /\ UNCHANGED stop_pending
     \/ /\ pc[t] = "entry_actuals"
        /\ Goto(t, "idle")
        /\ stop_pending' = FALSE
  /\ actual' = Stopped
  /\ UNCHANGED <<machine, target, ramp_enabled, hb_age, safety_event, outputs, stale>>

\* motors_stop: in MOTOR_STOP (the shell stops there) and in idle_entry.
ZeroPwm(t) ==
  /\ \/ pc[t] = "stop_pwm" /\ Goto(t, IF t = "proto" THEN "stop_event" ELSE "idle")
     \/ pc[t] = "entry_pwm" /\ Goto(t, "entry_en")
  /\ pwm' = Stopped
  /\ UNCHANGED <<machine, command, hb_age, safety_event, en, history>>

PublishEstop(t) ==
  /\ pc[t] = "stop_event"
  /\ safety_event' = EstopEvent
  /\ stop_pending' = TRUE
  /\ Goto(t, "idle")
  /\ UNCHANGED <<machine, command, hb_age, outputs, stale>>

ClearFault(t) ==
  /\ pc[t] = "clear_fault"
  /\ fault_code' = 0
  /\ Goto(t, "exit")
  /\ UNCHANGED <<state, fault_age, command, hb_age, safety_event, outputs, history>>

\* smf_set_state runs the exit function of the current state, if it has one:
\* running_exit stops and then disables the motors.
ExitState(t) ==
  /\ pc[t] = "exit"
  /\ \/ /\ state = "RUNNING"
        /\ pwm' = Stopped
        /\ Goto(t, "exit_en")
     \/ /\ state # "RUNNING"
        /\ pwm' = pwm
        /\ Goto(t, "current")
  /\ UNCHANGED <<machine, command, hb_age, safety_event, en, history>>

DisableMotors(t) ==
  /\ \/ pc[t] = "exit_en" /\ Goto(t, "current")
     \/ pc[t] = "entry_en" /\ Goto(t, "entry_targets")
  /\ en' = FALSE
  /\ UNCHANGED <<machine, command, hb_age, safety_event, pwm, history>>

SetCurrent(t) ==
  /\ pc[t] = "current"
  /\ state' = "IDLE"
  /\ fault_age' = 0
  /\ Goto(t, "entry_pwm")
  /\ UNCHANGED <<fault_code, command, hb_age, safety_event, outputs, history>>

HandlerStep(t) ==
  /\ CanRun(t)
  /\ \/ StoreLeft(t) \/ StoreRight(t) \/ StoreRamp(t) \/ ShellRefresh(t)
     \/ ZeroTargets(t) \/ ZeroActuals(t) \/ ZeroPwm(t) \/ PublishEstop(t)
     \/ ClearFault(t) \/ ExitState(t) \/ DisableMotors(t) \/ SetCurrent(t)
  /\ arg' = [arg EXCEPT ![t] = IF pc'[t] = "idle" THEN NoArg ELSE @]
  /\ preempted' = [preempted EXCEPT ![t] = IF pc'[t] = "idle" THEN 0 ELSE @]

----------------------------------------------------------------------------
\* hw_init, smf_set_initial and the initialisers of the static data.
Init ==
  /\ state = "IDLE" /\ fault_code = 0 /\ fault_age = 0
  /\ target = Stopped /\ actual = Stopped /\ ramp_enabled = TRUE
  /\ hb_age = 0
  /\ safety_event = 0
  /\ pwm = Stopped /\ en = FALSE
  /\ pc = [t \in Thread |-> "idle"]
  /\ arg = [t \in Thread |-> NoArg]
  /\ preempted = [t \in Thread |-> 0]
  /\ stale = [s \in Side |-> FALSE] /\ stop_pending = FALSE

\* What the host and the operator may ask for.
Request ==
  \/ ReceiveOther
  \/ ReceiveStop
  \/ ReceiveReset
  \/ \E l, r \in Speeds, ramp \in BOOLEAN : ReceiveSetSpeed(l, r, ramp)
  \/ ShellStop
  \/ ShellReset
  \/ \E l, r \in Speeds : ShellSpeed(l, r)

Next ==
  \/ MainTick
  \/ \E t \in Thread : HandlerStep(t)
  \/ Request

Spec == Init /\ [][Next]_vars

\* The scheduler runs main every period and a started packet handler to its
\* end; the protocol thread sleeps PROTOCOL_POLL_MS after every poll, which is
\* when a shell command gets its turn, again and again.
Fairness ==
  /\ WF_vars(MainTick)
  /\ WF_vars(HandlerStep("proto"))
  /\ SF_vars(HandlerStep("shell"))

FairSpec == Spec /\ Fairness

----------------------------------------------------------------------------
(***************************************************************************)
(* Properties.                                                             *)
(***************************************************************************)

\* Every variable has its type: speeds are clamped, a thread stands at a label.
TypeOK ==
  /\ state \in State
  /\ fault_code \in {0, 1}
  /\ fault_age \in 0 .. FaultDelay + 2
  /\ target \in [Side -> Duty]
  /\ actual \in [Side -> Duty]
  /\ ramp_enabled \in BOOLEAN
  /\ hb_age \in 0 .. HeartbeatTimeout + 2
  /\ safety_event \in {0, EstopEvent}
  /\ pwm \in [Side -> Duty]
  /\ en \in BOOLEAN
  /\ pc \in [Thread -> Label]
  /\ arg \in [Thread -> [left : Duty, right : Duty, ramp : BOOLEAN]]
  /\ preempted \in [Thread -> Nat]
  /\ stale \in [Side -> BOOLEAN]
  /\ stop_pending \in BOOLEAN

\* Once CMD_MOTOR_STOP has published its event no duty is ever applied again,
\* wherever the handler, a shell command or a reset was preempted (the event
\* is published only after the actuals and the outputs are zero).
StopMeansStopped == safety_event = EstopEvent => pwm = Stopped

\* The heartbeat watchdog ("no command in 500ms -> stop motors"): a duty is
\* applied only within one tick of the timeout after the last command, also
\* while a reset is half done.
DeadMan == pwm # Stopped => hb_age <= HeartbeatTimeout + 1

\* In FAULT and ESTOP, and outside RUNNING once no reset is half done, no duty
\* is applied and the drivers are disabled.
AtRest ==
  (\/ state \in {"FAULT", "ESTOP"}
   \/ state = "IDLE" /\ \A t \in Thread : pc[t] = "idle")
  => (pwm = Stopped /\ ~en)

\* A speed command accepted (and acknowledged) while the controller was in
\* FAULT or ESTOP never moves a motor after the reset: idle_entry zeroes it
\* before a second tick can run.
StaleCommandsDie == \A s \in Side : pwm[s] # 0 => ~stale[s]

\* An emergency stop is not missed: the state machine reaches ESTOP.
StopLatches == safety_event = EstopEvent ~> state = "ESTOP"

\* When the host and the shell fall silent the motors end up stopped and
\* disabled for good, whatever was going on.
SilenceStopsMotors ==
  <>[][~Request]_vars => <>[](pwm = Stopped /\ ~en)

\* "Latched state - requires explicit CMD_RESET from host to exit"
\* (main.cpp:372): ESTOP is entered only for a stop published after the last
\* reset.  The code re-reads the old event in idle_run.
ResetClearsStop ==
  [][state # "ESTOP" /\ state' = "ESTOP" => stop_pending]_vars

----------------------------------------------------------------------------
(***************************************************************************)
(* The inductive invariant behind the safety properties.                   *)
(***************************************************************************)

\* Outputs are on outside RUNNING only while a reset stands between the store
\* of the state and the statements of idle_entry that switch them off.
RestInv ==
  /\ state \in {"FAULT", "ESTOP"} => pwm = Stopped /\ ~en
  /\ state = "IDLE" =>
       /\ pwm # Stopped => \E t \in Thread : pc[t] = "entry_pwm" /\ preempted[t] > 0
       /\ en => \E t \in Thread : pc[t] \in {"entry_pwm", "entry_en"}
  /\ \A t \in Thread :
       pc[t] \in {"exit_en", "current"} /\ state = "RUNNING" /\ pwm # Stopped
         => preempted[t] > 0

\* The emergency stop leaves nothing that a tick could ramp back up before the
\* event is published, and after it no tick ramps.
StopInv ==
  /\ pc["shell"] # "stop_event"
  /\ pc["proto"] \in {"stop_actuals", "stop_pwm", "stop_event"} => target = Stopped
  /\ pc["proto"] \in {"stop_pwm", "stop_event"} => actual = Stopped
  /\ pc["proto"] = "stop_event" => pwm = Stopped
  /\ safety_event = EstopEvent => pwm = Stopped

\* A command stored in FAULT or ESTOP outlives that state only in a reset that
\* has not reached the zeroing of the targets and has no tick left to ramp it.
StaleInv ==
  (state \in {"IDLE", "RUNNING"} /\ \E s \in Side : stale[s]) =>
    /\ pwm = Stopped
    /\ \E t \in Thread : /\ pc[t] \in {"entry_pwm", "entry_en", "entry_targets"}
                         /\ state = "RUNNING" => preempted[t] > 0

SafetyInv == TypeOK /\ RestInv /\ StopInv /\ DeadMan /\ StaleInv
============================================================================
