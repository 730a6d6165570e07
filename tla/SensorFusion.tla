---------------------------- MODULE SensorFusion ----------------------------
(***************************************************************************)
(* The sensor-fusion firmware                                              *)
(* (src/esp32_firmware/sensor_fusion/src/main.cpp): the main loop that     *)
(* reads the sensors and runs the state machine, and the reset that the    *)
(* host (protocol thread) or the operator (shell) may ask for.             *)
(*                                                                         *)
(* Main has the highest priority.  It gives way in two places only: the    *)
(* sleep between two runs and the sleep inside the ToF measurement, in the *)
(* middle of a run.  The rest of a run is one step, however long the       *)
(* ultrasonic sensor is waited for.  A reset is a walk of its thread's     *)
(* program counter that main can preempt.                                  *)
(*                                                                         *)
(* Ages are kept as of the start of the latest run; since counts from      *)
(* there.                                                                  *)
(***************************************************************************)
EXTENDS Ages, FiniteSets

CONSTANTS
  SensorTimeout,       \* SENSOR_TIMEOUT_MS
  Sleep,               \* SENSOR_READ_PERIOD_MS
  TofTime,             \* the sleep inside the ToF measurement
  UsAnswers,           \* durations of an ultrasonic measurement
  UsTimeouts,          \* durations of one that fails
  CALIBRATION_SAMPLES,
  FreshBound,          \* a bound of the properties
  Threads              \* threads that may reset, of {"proto", "shell"}

ASSUME FusionAssumption ==
  /\ SensorTimeout \in Nat /\ TofTime \in Nat
  /\ Sleep \in Nat \ {0}
  /\ UsAnswers \subseteq Nat /\ UsTimeouts \subseteq Nat
  /\ CALIBRATION_SAMPLES \in Nat \ {0}
  /\ Threads \subseteq {"proto", "shell"}

VARIABLES
  state,         \* sm_obj.ctx.current
  calib_count,   \* sm_obj.calib_count
  health,        \* sensors[].health
  age,           \* sensors[].timestamp, as an age
  confident,     \* fused_confidence > 0
  fused_age,     \* age of the newest reading in fused_distance_cm
  body,          \* the run function that main is inside of, or "none"
  wait,          \* time until main wakes up
  since,         \* time since the latest run started
  failing,       \* distance sensors whose measurements fail
  pc,            \* per thread: the next statement of its reset
  ticked,        \* per thread: time has passed inside its reset
  unfused        \* history: the latest run that ended did not fuse

machine == <<state, calib_count>>
sensors == <<health, age>>
fused   == <<confident, fused_age, unfused>>
clock   == <<body, wait, since>>
threads == <<pc, ticked>>
vars == <<machine, sensors, fused, clock, failing, threads>>

Distance == {"tof", "us"}
Sensor   == Distance \cup {"mw"}
Present  == {s \in Sensor : health[s] # "NOT_PRESENT"}
Reads    == {"CALIBRATING", "ACTIVE", "DEGRADED", "FAULT"}

AgeLimit == SensorTimeout + Sleep + TofTime
Later(a, time) == IF a + time > AgeLimit THEN AgeLimit ELSE a + time

----------------------------------------------------------------------------
(* One run of the main loop. *)

InitRun ==
  /\ body = "none" /\ wait = 0 /\ state = "INIT"
  /\ IF Present = {} THEN UNCHANGED machine
     ELSE state' = "CALIBRATING" /\ calib_count' = 0
  /\ wait' = Sleep /\ since' = 0
  /\ age' = [s \in Distance |-> Later(age[s], since)]
  /\ UNCHANGED <<health, fused, body, failing, threads>>

\* sensor_read_tick takes the time once, at its start; the ToF sensor sleeps if it
\* is there and its measurement can be started.
StartRun ==
  /\ body = "none" /\ wait = 0 /\ state \in Reads
  /\ body' = state
  /\ wait' \in IF "tof" \notin Present THEN {0}
               ELSE IF "tof" \in failing THEN {0, TofTime} ELSE {TofTime}
  /\ since' = 0
  /\ age' = [s \in Distance |-> Later(age[s], since)]
  /\ fused_age' = Later(fused_age, since)
  /\ UNCHANGED <<machine, health, confident, unfused, failing, threads>>

\* A failed read degrades once the last good one is too old; a good one brings back.
NewHealth(s, late) ==
  CASE s \notin Present -> health[s]
    [] s \in Present \ failing -> "OK"
    [] s \in Present \cap failing -> IF late THEN "DEGRADED" ELSE health[s]

ReadSensors(late) ==
  /\ health' = [s \in Sensor |-> IF s \in Distance THEN NewHealth(s, s \in late)
                                 ELSE health[s]]
  /\ age' = [s \in Distance |-> IF s \in Present \ failing THEN 0 ELSE age[s]]

\* Mutant: without a reading the confidence is left as it was.
FuseKeepsConfidence(recent) ==
  LET used == {s \in recent : health'[s] = "OK"} IN
  IF used = {} THEN UNCHANGED <<confident, fused_age>>
  ELSE confident' = TRUE /\ fused_age' \in {age'[s] : s \in used}

\* fusion_tick: only healthy sensors with a recent reading count.
Fuse(recent) ==
  LET used == {s \in recent : health'[s] = "OK"} IN
  IF used = {} THEN confident' = FALSE /\ UNCHANGED fused_age
  ELSE /\ confident' = TRUE
       /\ fused_age' = CHOOSE a \in {age'[s] : s \in used} : \A s \in used : a <= age'[s]

AnyOK       == \E s \in Sensor : health'[s] = "OK"
AnyDegraded == \E s \in Sensor : health'[s] = "DEGRADED"

CalibratingRun ==
  /\ body = "CALIBRATING"
  /\ calib_count' = calib_count + 1
  /\ state' = IF calib_count + 1 >= CALIBRATION_SAMPLES THEN "ACTIVE" ELSE state
  /\ UNCHANGED <<confident, fused_age>>

\* Mutant: a degraded sensor does not end ACTIVE.
ActiveRunBlind(recent) ==
  /\ body = "ACTIVE" /\ Fuse(recent)
  /\ state' = IF ~AnyOK THEN "FAULT" ELSE state
  /\ UNCHANGED calib_count

ActiveRun(recent) ==
  /\ body = "ACTIVE"
  /\ Fuse(recent)
  /\ state' = IF ~AnyOK THEN "FAULT" ELSE IF AnyDegraded THEN "DEGRADED" ELSE state
  /\ UNCHANGED calib_count

DegradedRun(recent) ==
  /\ body = "DEGRADED"
  /\ Fuse(recent)
  /\ state' = IF ~AnyOK THEN "FAULT" ELSE IF ~AnyDegraded THEN "ACTIVE" ELSE state
  /\ UNCHANGED calib_count

FaultRun ==
  /\ body = "FAULT"
  /\ state' = IF AnyOK THEN "DEGRADED" ELSE state
  /\ UNCHANGED <<calib_count, confident, fused_age>>

\* The rest of a run, after the ToF sleep: what it decides overrides what was done to the
\* state meanwhile.
EndRun ==
  \E us_time \in IF "us" \notin Present THEN {0}
                 ELSE IF "us" \in failing THEN UsTimeouts ELSE UsAnswers :
  \E late, recent \in SUBSET Distance :
    /\ body # "none" /\ wait = 0
    /\ \A s \in Distance : (s \in late) \in Beyond(age[s], SensorTimeout)
    /\ ReadSensors(late)
    /\ \A s \in Distance : (s \notin recent) \in Beyond(age'[s] + since + us_time, SensorTimeout)
    /\ CalibratingRun \/ ActiveRun(recent) \/ DegradedRun(recent) \/ FaultRun
    /\ body' = "none"
    /\ wait' = Sleep
    /\ since' = since + us_time
    /\ unfused' = (body \in {"CALIBRATING", "FAULT"})
    /\ UNCHANGED <<failing, threads>>

Tick ==
  /\ wait > 0
  /\ \A t \in Threads : pc[t] = "idle" \/ ~ticked[t]
  /\ wait' = wait - 1
  /\ since' = since + 1
  /\ ticked' = [t \in Threads |-> pc[t] # "idle"]
  /\ UNCHANGED <<machine, sensors, fused, body, failing, pc>>

----------------------------------------------------------------------------
(* CMD_RESET and the shell's reset: the sensors in turn, then the state. *)

\* Lower priorities run while main sleeps and, for the shell, no packet is handled.
CanRun(t) == wait > 0 /\ (t = "shell" => \A u \in Threads \ {t} : pc[u] = "idle")

NextStatement == [idle |-> "tof", tof |-> "us", us |-> "mw", mw |-> "current",
                  current |-> "entry", entry |-> "idle"]

AskReset(t) ==
  /\ CanRun(t) /\ pc[t] = "idle"
  /\ pc' = [pc EXCEPT ![t] = "tof"]
  /\ UNCHANGED <<machine, sensors, fused, clock, failing, ticked>>

ClearSensor(t) ==
  /\ pc[t] \in Sensor
  /\ health' = [health EXCEPT ![pc[t]] = IF @ = "NOT_PRESENT" THEN @ ELSE "OK"]
  /\ UNCHANGED <<machine, age>>

\* smf_set_state stores the state and runs its entry function.
EnterCalibration(t) ==
  /\ \/ pc[t] = "current" /\ state' = "CALIBRATING" /\ UNCHANGED calib_count
     \/ pc[t] = "entry" /\ calib_count' = 0 /\ UNCHANGED state
  /\ UNCHANGED sensors

ResetStep(t) ==
  /\ CanRun(t) /\ pc[t] # "idle"
  /\ ClearSensor(t) \/ EnterCalibration(t)
  /\ pc' = [pc EXCEPT ![t] = NextStatement[@]]
  /\ ticked' = [ticked EXCEPT ![t] = @ /\ pc'[t] # "idle"]
  /\ UNCHANGED <<fused, clock, failing>>

\* A distance sensor breaks, or works again; only main looks, when its wait is over.
Change(s) ==
  /\ wait = 1
  /\ failing' = IF s \in failing THEN failing \ {s} ELSE failing \cup {s}
  /\ UNCHANGED <<machine, sensors, fused, clock, threads>>

----------------------------------------------------------------------------
\* hw_init finds some of the sensors; the timestamps are zero, the boot.
Init ==
  /\ state = "INIT" /\ calib_count = 0
  /\ health \in [Sensor -> {"OK", "NOT_PRESENT"}]
  /\ \E boot \in {0, AgeLimit} : age = [s \in Distance |-> boot]
  /\ confident = FALSE /\ fused_age = 0 /\ unfused = TRUE
  /\ body = "none" /\ wait = 0 /\ since = 0
  /\ failing = {}
  /\ pc = [t \in Threads |-> "idle"] /\ ticked = [t \in Threads |-> FALSE]

Next ==
  \/ InitRun \/ StartRun \/ EndRun \/ Tick
  \/ \E t \in Threads : AskReset(t) \/ ResetStep(t)
  \/ \E s \in Distance : Change(s)

Spec == Init /\ [][Next]_vars

\* Main runs for ever; time passes; a reset that was begun ends.
Fairness ==
  /\ WF_vars(InitRun) /\ WF_vars(StartRun) /\ WF_vars(EndRun) /\ WF_vars(Tick)
  /\ \A t \in Threads : SF_vars(ResetStep(t))

FairSpec == Spec /\ Fairness

----------------------------------------------------------------------------
\* Every variable has its type.
TypeOK ==
  /\ state \in Reads \cup {"INIT"}
  /\ calib_count \in Nat
  /\ health \in [Sensor -> {"OK", "DEGRADED", "NOT_PRESENT"}]
  /\ age \in [Distance -> 0 .. AgeLimit]
  /\ confident \in BOOLEAN /\ unfused \in BOOLEAN
  /\ fused_age \in 0 .. AgeLimit
  /\ body \in Reads \cup {"none"}
  /\ wait \in Nat /\ since \in Nat
  /\ failing \subseteq Distance
  /\ pc \in [Threads -> Sensor \cup {"idle", "current", "entry"}]
  /\ ticked \in [Threads -> BOOLEAN]

\* A distance published with confidence is never older than FreshBound, even though the
\* measurement sleeps, the reading may be a kept one and the next fusion is a run away.
\* Calibration and FAULT do not fuse and publish what was there (unfused).
ConfidentIsFresh == confident /\ ~unfused => fused_age + since <= FreshBound

\* The firmware does not stay in FAULT ("all distance sensors offline") with a healthy
\* sensor, whatever a reset interleaved with the run has made of the health.
FaultMeansOffline ==
  state = "FAULT" /\ body = "none" /\ (\A t \in Threads : pc[t] = "idle")
    => \A s \in Sensor : health[s] # "OK"

ResetsEnd == <>[](\A t \in Threads : pc[t] = "idle")

\* Distance sensors that are all broken for good end with no confidence and with a state
\* that says so.
BlindnessNoticed ==
  Present \cap Distance # {} /\ <>[](Present \cap Distance \subseteq failing)
    => <>[](~confident /\ state \in {"DEGRADED", "FAULT"})

\* Sensors that all work for good end with the firmware ACTIVE.
Recovers == Present # {} /\ <>[](failing = {}) => <>[](state = "ACTIVE")

\* Once the resets end, and whatever run they cut into, the state follows the sensors.
StateFollowsSensors == ResetsEnd => BlindnessNoticed /\ Recovers
=============================================================================
