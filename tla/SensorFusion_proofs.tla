------------------------ MODULE SensorFusion_proofs ------------------------
(***************************************************************************)
(* Proofs about SensorFusion for every timeout, period, duration of a      *)
(* measurement, number of samples and set of threads that reset.           *)
(***************************************************************************)
EXTENDS SensorFusion, TLAPS

----------------------------------------------------------------------------
(***************************************************************************)
(* The inductive invariant.                                                *)
(***************************************************************************)

\* Inside a run the state is the one it began with, unless a reset has changed it; before
\* the first run nothing was fused.
RunInv ==
  /\ body # "none" => state \in {body, "CALIBRATING"}
  /\ state = "INIT" => unfused

\* What is left of the wait counts too: a distance that would get too old before the next
\* run is too old already.
FreshInv ==
  confident /\ ~unfused =>
    fused_age + since + wait <= SensorTimeout + Sleep + IF body = "none" THEN 0 ELSE TofTime

\* Between runs a healthy sensor in FAULT is one that a reset has just cleared, and which
\* goes on to change the state.
Clearing == \E t \in Threads : pc[t] \in {"us", "mw", "current"}
OfflineInv ==
  state = "FAULT" /\ body = "none" /\ (\E s \in Sensor : health[s] = "OK") => Clearing

Inv == TypeOK /\ RunInv /\ FreshInv /\ OfflineInv

LEMMA Times ==
  /\ SensorTimeout \in Nat /\ Sleep \in Nat /\ TofTime \in Nat
  /\ UsAnswers \subseteq Nat /\ UsTimeouts \subseteq Nat
  /\ AgeLimit \in Nat /\ AgeLimit = SensorTimeout + Sleep + TofTime
BY FusionAssumption DEF FusionAssumption, AgeLimit

LEMMA LaterType ==
  ASSUME NEW a \in 0 .. AgeLimit, NEW time \in Nat
  PROVE  Later(a, time) \in 0 .. AgeLimit /\ Later(a, time) <= a + time
BY Times DEF Later

LEMMA NotBeyond ==
  ASSUME NEW a \in Nat, NEW limit \in Nat, FALSE \in Beyond(a, limit)
  PROVE  a <= limit
<1>1. CASE a = limit
  BY <1>1
<1>2. CASE a # limit
  <2>1. FALSE = (a > limit)
    BY <1>2 DEF Beyond
  <2> QED
    BY <2>1
<1> QED
  BY <1>1, <1>2

LEMMA SmallerSum ==
  ASSUME NEW a \in Nat, NEW b \in Nat, NEW c \in Nat, NEW limit \in Nat, NEW more \in Nat,
         a <= b, b <= limit, c <= more
  PROVE  a + 0 + c <= limit + more
OBVIOUS

LEMMA InitSafe == Init => Inv
<1> SUFFICES ASSUME Init PROVE Inv
  OBVIOUS
<1>1. age \in [Distance -> 0 .. AgeLimit]
  BY Times DEF Init
<1>2. TypeOK
  <2>1. /\ pc \in [Threads -> Sensor \cup {"idle", "current", "entry"}]
        /\ ticked \in [Threads -> BOOLEAN]
    BY DEF Init
  <2>2. health \in [Sensor -> {"OK", "DEGRADED", "NOT_PRESENT"}]
    BY DEF Init
  <2>3. fused_age \in 0 .. AgeLimit /\ wait \in Nat /\ since \in Nat /\ calib_count \in Nat
    BY Times DEF Init
  <2> QED
    BY <1>1, <2>1, <2>2, <2>3 DEF Init, TypeOK
<1>3. RunInv /\ FreshInv /\ OfflineInv
  BY DEF Init, RunInv, FreshInv, OfflineInv
<1> QED
  BY <1>2, <1>3 DEF Inv

LEMMA InitRunSafe == ASSUME Inv, InitRun PROVE Inv'
<1> USE DEF Inv
<1>1. age' \in [Distance -> 0 .. AgeLimit]
  BY LaterType DEF InitRun, TypeOK
<1>2. state' \in Reads \cup {"INIT"} /\ calib_count' \in Nat
  BY DEF InitRun, machine, TypeOK, Reads
<1>3. TypeOK'
  <2>1. wait' \in Nat /\ since' \in Nat
    BY Times DEF InitRun
  <2> QED
    BY <1>1, <1>2, <2>1 DEF InitRun, TypeOK, fused, threads
<1>4. unfused' /\ body' = "none" /\ state' # "FAULT"
  BY DEF InitRun, RunInv, fused, machine
<1>5. RunInv' /\ FreshInv' /\ OfflineInv'
  BY <1>4 DEF RunInv, FreshInv, OfflineInv
<1> QED
  BY <1>3, <1>5

LEMMA StartRunSafe == ASSUME Inv, StartRun PROVE Inv'
<1> USE DEF Inv
<1>1. age' \in [Distance -> 0 .. AgeLimit]
  BY LaterType DEF StartRun, TypeOK
<1>2. fused_age' \in 0 .. AgeLimit /\ fused_age' <= fused_age + since
  BY LaterType DEF StartRun, TypeOK
<1>3. wait' \in Nat /\ wait' <= TofTime /\ since' = 0
  BY Times DEF StartRun
<1>4. body' = state /\ body' \in Reads /\ body' # "none"
  BY DEF StartRun, Reads
<1>5. TypeOK'
  BY <1>1, <1>2, <1>3, <1>4 DEF StartRun, TypeOK, machine, threads
<1>6. RunInv'
  BY <1>4 DEF StartRun, machine, RunInv
<1>7. FreshInv'
  <2>1. UNCHANGED <<confident, unfused>> /\ body = "none" /\ wait = 0
    BY DEF StartRun
  <2>2. fused_age \in Nat /\ since \in Nat
    BY Times DEF TypeOK
  <2>3. confident /\ ~unfused => fused_age + since <= SensorTimeout + Sleep
    BY <2>1, <2>2, Times DEF FreshInv
  <2>4. fused_age' \in Nat
    BY <1>2, Times
  <2>5. confident /\ ~unfused => fused_age' + since' + wait' <= SensorTimeout + Sleep + TofTime
    <3> SUFFICES ASSUME confident, ~unfused
                 PROVE  fused_age' + since' + wait' <= SensorTimeout + Sleep + TofTime
      OBVIOUS
    <3>1. fused_age + since \in Nat /\ fused_age + since <= SensorTimeout + Sleep
      BY <2>2, <2>3
    <3>2. SensorTimeout + Sleep \in Nat
      BY Times
    <3>3. fused_age' + 0 + wait' <= SensorTimeout + Sleep + TofTime
      BY <1>2, <1>3, <2>4, <3>1, <3>2, Times, SmallerSum
    <3> QED
      BY <1>3, <3>3
  <2> QED
    BY <1>4, <2>1, <2>5 DEF FreshInv
<1>8. OfflineInv'
  BY <1>4 DEF OfflineInv
<1> QED
  BY <1>5, <1>6, <1>7, <1>8

LEMMA TickSafe == ASSUME Inv, Tick PROVE Inv'
<1> USE DEF Inv
<1>1. wait' \in Nat /\ since' \in Nat /\ since' + wait' = since + wait
  BY DEF Tick, TypeOK
<1>2. ticked' \in [Threads -> BOOLEAN]
  BY DEF Tick
<1>3. TypeOK'
  BY <1>1, <1>2 DEF Tick, TypeOK, machine, sensors, fused
<1>4. RunInv' /\ OfflineInv'
  BY DEF Tick, RunInv, OfflineInv, Clearing, machine, sensors, fused
<1>5. FreshInv'
  <2>1. UNCHANGED <<confident, unfused, fused_age, body>>
    BY DEF Tick, fused
  <2>2. fused_age \in Nat /\ since \in Nat /\ wait \in Nat
    BY Times DEF TypeOK
  <2>3. fused_age' + since' + wait' = fused_age + since + wait
    <3>1. fused_age + since' + wait' = fused_age + since + wait
      <4>1. fused_age + (since' + wait') = fused_age + (since + wait)
        BY <1>1
      <4>2. fused_age + since + wait = fused_age + (since + wait)
        BY <2>2
      <4>3. fused_age + since' + wait' = fused_age + (since' + wait')
        BY <1>1, <2>2
      <4> QED
        BY <4>1, <4>2, <4>3
    <3> QED
      BY <2>1, <3>1
  <2> QED
    BY <2>1, <2>3 DEF FreshInv
<1> QED
  BY <1>3, <1>4, <1>5

LEMMA ChangeSafe == ASSUME Inv, NEW s \in Distance, Change(s) PROVE Inv'
<1> USE DEF Inv
<1>1. TypeOK'
  BY DEF Change, TypeOK, machine, sensors, fused, clock, threads
<1>2. RunInv' /\ FreshInv' /\ OfflineInv'
  BY DEF Change, RunInv, FreshInv, OfflineInv, Clearing, machine, sensors, fused, clock, threads
<1> QED
  BY <1>1, <1>2

LEMMA AskResetSafe == ASSUME Inv, NEW t \in Threads, AskReset(t) PROVE Inv'
<1> USE DEF Inv
<1>1. pc' \in [Threads -> Sensor \cup {"idle", "current", "entry"}]
  BY DEF AskReset, TypeOK, Sensor, Distance
<1>2. TypeOK'
  BY <1>1 DEF AskReset, TypeOK, machine, sensors, fused, clock
<1>3. RunInv' /\ FreshInv'
  BY DEF AskReset, RunInv, FreshInv, machine, sensors, fused, clock
<1>4. Clearing => Clearing'
  BY DEF AskReset, Clearing, TypeOK
<1>5. OfflineInv'
  BY <1>4 DEF AskReset, OfflineInv, machine, sensors, clock
<1> QED
  BY <1>2, <1>3, <1>5

LEMMA ResetStepSafe == ASSUME Inv, NEW t \in Threads, ResetStep(t) PROVE Inv'
<1> USE DEF Inv
<1>1. /\ pc[t] \in Sensor \cup {"current", "entry"}
      /\ pc' = [pc EXCEPT ![t] = NextStatement[pc[t]]]
      /\ UNCHANGED <<fused, clock, failing>>
  BY DEF ResetStep, ClearSensor, EnterCalibration
<1>2. /\ pc[t] = "tof" => NextStatement[pc[t]] = "us"
      /\ pc[t] = "us" => NextStatement[pc[t]] = "mw"
      /\ pc[t] = "mw" => NextStatement[pc[t]] = "current"
      /\ pc[t] = "current" => NextStatement[pc[t]] = "entry"
      /\ pc[t] = "entry" => NextStatement[pc[t]] = "idle"
  BY DEF NextStatement
<1>3. pc' \in [Threads -> Sensor \cup {"idle", "current", "entry"}]
  BY <1>1, <1>2 DEF TypeOK, Sensor, Distance
<1>4. ticked' \in [Threads -> BOOLEAN]
  BY DEF ResetStep, TypeOK
<1>5. CASE ClearSensor(t)
  <2>1. health' \in [Sensor -> {"OK", "DEGRADED", "NOT_PRESENT"}]
    BY <1>5 DEF ClearSensor, TypeOK
  <2>2. TypeOK'
    BY <1>1, <1>3, <1>4, <1>5, <2>1 DEF ClearSensor, TypeOK, machine, fused, clock
  <2>3. pc'[t] \in {"us", "mw", "current"}
    BY <1>1, <1>2, <1>5 DEF ClearSensor, TypeOK, Sensor, Distance
  <2>4. RunInv' /\ FreshInv'
    BY <1>1, <1>5 DEF ClearSensor, RunInv, FreshInv, machine, fused, clock
  <2> QED
    BY <2>2, <2>3, <2>4 DEF OfflineInv, Clearing
<1>6. CASE EnterCalibration(t) /\ pc[t] = "current"
  <2>1. state' = "CALIBRATING" /\ UNCHANGED <<calib_count, health, age>>
    BY <1>6 DEF EnterCalibration, sensors
  <2>2. TypeOK'
    BY <1>1, <1>3, <1>4, <2>1 DEF TypeOK, fused, clock, Reads
  <2>3. RunInv' /\ FreshInv' /\ OfflineInv'
    BY <1>1, <2>1 DEF RunInv, FreshInv, OfflineInv, fused, clock
  <2> QED
    BY <2>2, <2>3
<1>7. CASE EnterCalibration(t) /\ pc[t] = "entry"
  <2>1. calib_count' = 0 /\ UNCHANGED <<state, health, age>>
    BY <1>7 DEF EnterCalibration, sensors
  <2>2. TypeOK'
    BY <1>1, <1>3, <1>4, <2>1 DEF TypeOK, fused, clock
  <2>3. RunInv' /\ FreshInv'
    BY <1>1, <2>1 DEF RunInv, FreshInv, fused, clock
  <2>4. Clearing => Clearing'
    BY <1>1, <1>7 DEF Clearing, TypeOK
  <2>5. OfflineInv'
    BY <1>1, <2>1, <2>4 DEF OfflineInv, clock
  <2> QED
    BY <2>2, <2>3, <2>5
<1> QED
  BY <1>5, <1>6, <1>7 DEF ResetStep, EnterCalibration

----------------------------------------------------------------------------
(***************************************************************************)
(* The end of a run: what is fused is recent, and FAULT is entered or kept *)
(* only without a healthy sensor.                                          *)
(***************************************************************************)

LEMMA Freshest ==
  ASSUME NEW used \in SUBSET Distance, used # {}, NEW a \in [Distance -> Nat]
  PROVE  LET least == CHOOSE n \in {a[s] : s \in used} : \A s \in used : n <= a[s]
         IN  \E s \in used : least = a[s] /\ \A u \in used : least <= a[u]
<1>1. \E n \in {a[s] : s \in used} : \A s \in used : n <= a[s]
  <2>1. PICK s \in used : TRUE
    OBVIOUS
  <2>2. CASE \A u \in used : a[s] <= a[u]
    BY <2>2
  <2>3. CASE \E u \in used : a[u] < a[s]
    <3>1. PICK u \in used : a[u] < a[s]
      BY <2>3
    <3>2. \A v \in used : v \in {s, u}
      BY <3>1 DEF Distance
    <3>3. \A v \in used : a[u] <= a[v]
      BY <3>1, <3>2
    <3> QED
      BY <3>3
  <2> QED
    BY <2>2, <2>3
<1> QED
  BY <1>1

LEMMA FuseFresh ==
  ASSUME NEW recent \in SUBSET Distance, Fuse(recent), age' \in [Distance -> 0 .. AgeLimit],
         fused_age \in 0 .. AgeLimit
  PROVE  /\ confident' \in BOOLEAN /\ fused_age' \in 0 .. AgeLimit
         /\ confident' => \E s \in recent : fused_age' = age'[s]
<1> DEFINE used == {s \in recent : health'[s] = "OK"}
<1>1. CASE used = {}
  BY <1>1 DEF Fuse
<1>2. CASE used # {}
  <2>1. age' \in [Distance -> Nat]
    BY Times
  <2>2. \E s \in used : fused_age' = age'[s]
    <3> DEFINE least == CHOOSE n \in {age'[s] : s \in used} : \A s \in used : n <= age'[s]
    <3>1. fused_age' = least
      BY <1>2 DEF Fuse
    <3>2. used \in SUBSET Distance
      OBVIOUS
    <3>3. \E s \in used : least = age'[s] /\ \A u \in used : least <= age'[u]
      <4> HIDE DEF used
      <4> QED
        BY <1>2, <2>1, <3>2, Freshest
    <3> QED
      BY <3>1, <3>3
  <2>3. confident' = TRUE
    BY <1>2 DEF Fuse
  <2> QED
    BY <2>2, <2>3
<1> QED
  BY <1>1, <1>2

LEMMA EndRunSafe == ASSUME Inv, EndRun PROVE Inv'
<1> USE DEF Inv
<1>1. PICK us_time \in IF "us" \notin Present THEN {0}
                      ELSE IF "us" \in failing THEN UsTimeouts ELSE UsAnswers,
           late \in SUBSET Distance, recent \in SUBSET Distance :
        /\ body # "none" /\ wait = 0
        /\ ReadSensors(late)
        /\ \A s \in Distance :
             (s \notin recent) \in Beyond(age'[s] + since + us_time, SensorTimeout)
        /\ CalibratingRun \/ ActiveRun(recent) \/ DegradedRun(recent) \/ FaultRun
        /\ body' = "none" /\ wait' = Sleep /\ since' = since + us_time
        /\ unfused' = (body \in {"CALIBRATING", "FAULT"})
        /\ UNCHANGED <<failing, threads>>
  BY DEF EndRun
<1>2. us_time \in Nat
  BY <1>1, Times
<1>3. age' \in [Distance -> 0 .. AgeLimit]
  BY <1>1, Times DEF ReadSensors, TypeOK
<1>4. health' \in [Sensor -> {"OK", "DEGRADED", "NOT_PRESENT"}]
  <2>1. health' = [s \in Sensor |-> IF s \in Distance THEN NewHealth(s, s \in late) ELSE health[s]]
    BY <1>1 DEF ReadSensors
  <2>2. \A s \in Sensor : NewHealth(s, s \in late) \in {"OK", "DEGRADED", "NOT_PRESENT"}
    BY DEF NewHealth, TypeOK, Present
  <2> QED
    BY <2>1, <2>2 DEF TypeOK
<1>5. state \in {body, "CALIBRATING"} /\ body \in Reads
  BY <1>1 DEF RunInv, TypeOK
<1>6. /\ state' \in Reads /\ calib_count' \in Nat
      /\ state' = "FAULT" => ~AnyOK
      /\ confident' \in BOOLEAN /\ fused_age' \in 0 .. AgeLimit
      /\ confident' /\ ~unfused' => \E s \in recent : fused_age' = age'[s]
  <2>1. CASE CalibratingRun
    BY <1>1, <1>5, <2>1 DEF CalibratingRun, TypeOK, Reads
  <2>2. CASE FaultRun
    BY <1>1, <1>5, <2>2 DEF FaultRun, TypeOK, Reads
  <2>3. CASE ActiveRun(recent)
    <3>1. Fuse(recent) /\ body = "ACTIVE"
      BY <2>3 DEF ActiveRun
    <3>2. state' \in Reads /\ calib_count' \in Nat /\ (state' = "FAULT" => ~AnyOK)
      BY <1>5, <2>3 DEF ActiveRun, TypeOK, Reads
    <3> QED
      BY <1>3, <3>1, <3>2, FuseFresh DEF TypeOK
  <2>4. CASE DegradedRun(recent)
    <3>1. Fuse(recent) /\ body = "DEGRADED"
      BY <2>4 DEF DegradedRun
    <3>2. state' \in Reads /\ calib_count' \in Nat /\ (state' = "FAULT" => ~AnyOK)
      BY <1>5, <2>4 DEF DegradedRun, TypeOK, Reads
    <3> QED
      BY <1>3, <3>1, <3>2, FuseFresh DEF TypeOK
  <2> QED
    BY <1>1, <2>1, <2>2, <2>3, <2>4
<1>7. TypeOK'
  <2>1. wait' \in Nat /\ since' \in Nat
    BY <1>1, <1>2, Times DEF TypeOK
  <2>2. unfused' \in BOOLEAN /\ body' \in Reads \cup {"none"}
    BY <1>1
  <2>3. UNCHANGED <<failing, pc, ticked>>
    BY <1>1 DEF threads
  <2> QED
    BY <1>3, <1>4, <1>6, <2>1, <2>2, <2>3 DEF TypeOK
<1>8. RunInv'
  BY <1>1, <1>6 DEF RunInv, Reads
<1>9. FreshInv'
  <2> SUFFICES ASSUME confident' /\ ~unfused' PROVE FreshInv'
    BY DEF FreshInv
  <2>1. PICK s \in recent : fused_age' = age'[s]
    BY <1>6
  <2>2. FALSE \in Beyond(age'[s] + since + us_time, SensorTimeout)
    BY <1>1, <2>1
  <2>3. age'[s] \in Nat /\ since \in Nat
    BY <1>3, Times DEF TypeOK
  <2>4. age'[s] + since + us_time <= SensorTimeout
    <3>1. age'[s] + since + us_time \in Nat
      BY <1>2, <2>3
    <3> QED
      BY <2>2, <3>1, Times, NotBeyond
  <2>5. age'[s] + (since + us_time) + Sleep <= SensorTimeout + Sleep
    BY <1>2, <2>3, <2>4, Times
  <2>6. fused_age' + since' + wait' <= SensorTimeout + Sleep
    BY <1>1, <2>1, <2>5
  <2>7. fused_age' + since' + wait' <= SensorTimeout + Sleep + 0
    BY <2>6, Times
  <2> QED
    BY <1>1, <2>7 DEF FreshInv
<1>10. OfflineInv'
  BY <1>6 DEF OfflineInv, AnyOK
<1> QED
  BY <1>7, <1>8, <1>9, <1>10

LEMMA StepSafe == Inv /\ [Next]_vars => Inv'
<1> SUFFICES ASSUME Inv, [Next]_vars PROVE Inv'
  OBVIOUS
<1>1. CASE UNCHANGED vars
  BY <1>1 DEF vars, machine, sensors, fused, clock, threads, Inv, TypeOK, RunInv, FreshInv,
              OfflineInv, Clearing
<1> QED
  BY <1>1, InitRunSafe, StartRunSafe, EndRunSafe, TickSafe, AskResetSafe, ResetStepSafe, ChangeSafe
  DEF Next

LEMMA Safe == Spec => []Inv
BY InitSafe, StepSafe, PTL DEF Spec

----------------------------------------------------------------------------
(***************************************************************************)
(* Theorems.                                                               *)
(***************************************************************************)

\* Every variable keeps its type.
THEOREM TypeCorrect == Spec => []TypeOK
<1>1. Inv => TypeOK
  BY DEF Inv
<1> QED
  BY <1>1, Safe, PTL

\* A distance published with confidence is no older than the timeout of a sensor, the period
\* of the loop and the sleep of the ToF measurement together.
THEOREM FreshDistances ==
  ASSUME FreshBound \in Nat, FreshBound >= SensorTimeout + Sleep + TofTime
  PROVE  FairSpec => []ConfidentIsFresh
<1>1. Inv => ConfidentIsFresh
  <2> SUFFICES ASSUME Inv, confident, ~unfused PROVE fused_age + since <= FreshBound
    BY DEF ConfidentIsFresh
  <2>1. fused_age \in Nat /\ since \in Nat /\ wait \in Nat
    BY Times DEF Inv, TypeOK
  <2>2. fused_age + since + wait <= SensorTimeout + Sleep + TofTime
    BY <2>1, Times DEF Inv, FreshInv
  <2> QED
    BY <2>1, <2>2, Times
<1> QED
  BY <1>1, Safe, PTL DEF FairSpec

\* Between runs, FAULT means that no sensor is healthy, however a reset and the runs interleave.
THEOREM FaultIsOffline == Spec => []FaultMeansOffline
<1>1. Inv => FaultMeansOffline
  BY DEF Inv, OfflineInv, Clearing, FaultMeansOffline
<1> QED
  BY <1>1, Safe, PTL
=============================================================================
