------------------------ MODULE LidarPipeline_proofs ------------------------
(***************************************************************************)
(* Proofs about the two ends of the LIDAR's pipeline, which share nothing  *)
(* but the scans: the driver, for every window, limit, threshold, number   *)
(* of retries and set of scans, and the processor, for scans of every      *)
(* length and geometry and every value of the parameters.                  *)
(***************************************************************************)
EXTENDS YdlidarDriver, LidarProcessor, FiniteSetTheorems, WellFoundedInduction, TLAPS

(***************************************************************************)
(* The driver.                                                             *)
(***************************************************************************)

\* A reconnect under way keeps the count of failures that began it, so that one which
\* fails comes back to the executor with the threshold still reached.
RetryInv  == pc \in {"init", "start"} => consecutive_failures >= ReconnectThreshold
SafetyInv == TypeOK /\ AdapterDiscipline /\ NeverStranded /\ RetryInv

LEMMA ParameterTypes ==
  /\ WindowSize \in Nat /\ WindowSize >= 1
  /\ FailureLimit \in Nat /\ FailureLimit >= 1
  /\ ReconnectThreshold \in Nat /\ ReconnectThreshold >= 1
  /\ MaxRetries \in Nat /\ MaxRetries >= 1
  /\ FailureCap \in Nat /\ FailureCap > ReconnectThreshold
<1>1. {WindowSize, FailureLimit, ReconnectThreshold, MaxRetries} \subseteq Nat \ {0}
  BY ParameterAssumption DEF ParameterAssumption
<1> QED
  BY <1>1 DEF FailureCap

\* The window stays a window when a record is added.
LEMMA RecordedType ==
  ASSUME history \in Seq(Record), Len(history) <= WindowSize, NEW record \in Record
  PROVE  Recorded(record) \in Seq(Record) /\ Len(Recorded(record)) <= WindowSize
<1> DEFINE longer == Append(history, record)
<1>1. longer \in Seq(Record) /\ Len(longer) = Len(history) + 1
  OBVIOUS
<1>2. CASE Len(longer) > WindowSize
  <2>1. longer # <<>> /\ Len(Tail(longer)) = Len(longer) - 1 /\ Tail(longer) \in Seq(Record)
    BY <1>1, <1>2, ParameterTypes
  <2>2. Recorded(record) = Tail(longer)
    BY <1>2 DEF Recorded
  <2> QED
    BY <1>1, <2>1, <2>2, ParameterTypes
<1>3. CASE ~(Len(longer) > WindowSize)
  <2>1. Recorded(record) = longer
    BY <1>3 DEF Recorded
  <2> QED
    BY <1>1, <1>3, <2>1, ParameterTypes
<1> QED
  BY <1>2, <1>3

LEMMA RecordFailureType ==
  ASSUME TypeOK, RecordFailure
  PROVE  /\ history' \in Seq(Record) /\ Len(history') <= WindowSize
         /\ consecutive_failures' \in 0 .. FailureCap
         /\ consecutive_failures' >= consecutive_failures
<1>1. Failure \in Record
  BY DEF Record
<1>2. history' \in Seq(Record) /\ Len(history') <= WindowSize
  BY <1>1, RecordedType DEF TypeOK, RecordFailure
<1>3. /\ consecutive_failures' \in 0 .. FailureCap
      /\ consecutive_failures' >= consecutive_failures
  BY ParameterTypes DEF TypeOK, RecordFailure
<1> QED
  BY <1>2, <1>3

LEMMA HealthType == Health \in {"OK", "WARN", "ERROR", "STALE"}
BY Zenon DEF Health

LEMMA InitSafe == Init => SafetyInv
<1> SUFFICES ASSUME Init PROVE SafetyInv
  OBVIOUS
<1>1. attempt \in 1 .. MaxRetries /\ consecutive_failures \in 0 .. FailureCap
  BY ParameterTypes DEF Init
<1>2. history \in Seq(Record) /\ Len(history) <= WindowSize
  BY ParameterTypes DEF Init
<1>3. TypeOK
  BY <1>1, <1>2, Zenon DEF Init, TypeOK, Place
<1>4. AdapterDiscipline /\ NeverStranded
  BY Zenon DEF Init, AdapterDiscipline, NeverStranded
<1>5. RetryInv
  BY Zenon DEF Init, RetryInv
<1> QED
  BY <1>3, <1>4, <1>5, Zenon DEF SafetyInv

----------------------------------------------------------------------------
(***************************************************************************)
(* Each step keeps the invariant.                                          *)
(***************************************************************************)

LEMMA InitAttemptSafe ==
  ASSUME SafetyInv, NEW ok \in BOOLEAN, InitAttempt(ok)
  PROVE  SafetyInv'
<1> TypeOK /\ AdapterDiscipline /\ NeverStranded /\ RetryInv
  BY Zenon DEF SafetyInv
<1>1. TypeOK'
  <2>1. attempt' \in 1 .. MaxRetries
    BY ParameterTypes DEF InitAttempt, TypeOK
  <2>2. pc' \in Place /\ initialized' \in BOOLEAN /\ scanning' \in BOOLEAN
    BY Zenon DEF InitAttempt, TypeOK, Place
  <2> QED
    BY <2>1, <2>2, Zenon DEF InitAttempt, health_vars, TypeOK
<1>2. AdapterDiscipline' /\ NeverStranded' /\ RetryInv'
  <2>1. UNCHANGED consecutive_failures
    BY Zenon DEF InitAttempt, health_vars
  <2>2. initialized \in BOOLEAN /\ scanning \in BOOLEAN
    BY Zenon DEF TypeOK
  <2> QED
    BY <2>1, <2>2 DEF InitAttempt, AdapterDiscipline, NeverStranded, RetryInv
<1> QED
  BY <1>1, <1>2, Zenon DEF SafetyInv

LEMMA StartAttemptSafe ==
  ASSUME SafetyInv, NEW ok \in BOOLEAN, StartAttempt(ok)
  PROVE  SafetyInv'
<1> TypeOK /\ AdapterDiscipline /\ NeverStranded /\ RetryInv
  BY Zenon DEF SafetyInv
<1>1. TypeOK'
  <2>1. attempt' \in 1 .. MaxRetries
    BY ParameterTypes DEF StartAttempt, TypeOK
  <2>2. pc' \in Place /\ initialized' \in BOOLEAN /\ scanning' \in BOOLEAN
    BY Zenon DEF StartAttempt, TypeOK, Place
  <2> QED
    BY <2>1, <2>2, Zenon DEF StartAttempt, health_vars, TypeOK
<1>2. AdapterDiscipline' /\ NeverStranded' /\ RetryInv'
  <2>1. UNCHANGED consecutive_failures
    BY Zenon DEF StartAttempt, health_vars
  <2>2. initialized \in BOOLEAN /\ scanning \in BOOLEAN
    BY Zenon DEF TypeOK
  <2> QED
    BY <2>1, <2>2 DEF StartAttempt, AdapterDiscipline, NeverStranded, RetryInv
<1> QED
  BY <1>1, <1>2, Zenon DEF SafetyInv

LEMMA ReadFailsSafe ==
  ASSUME SafetyInv, ReadFails
  PROVE  SafetyInv'
<1> TypeOK /\ AdapterDiscipline /\ NeverStranded /\ RetryInv
  BY Zenon DEF SafetyInv
<1>1. TypeOK'
  <2>1. attempt' \in 1 .. MaxRetries
    BY ParameterTypes DEF ReadFails, TypeOK
  <2>2. RecordFailure
    BY Zenon DEF ReadFails
  <2>3. pc' \in Place /\ initialized' \in BOOLEAN /\ scanning' \in BOOLEAN
    BY Zenon DEF ReadFails, adapter_vars, TypeOK, Place
  <2> QED
    BY <2>1, <2>2, <2>3, RecordFailureType, Zenon DEF ReadFails, TypeOK
<1>2. AdapterDiscipline' /\ NeverStranded' /\ RetryInv'
  <2>1. CASE UNCHANGED <<adapter_vars, pc, attempt>>
    <3>1. consecutive_failures' >= consecutive_failures
      BY RecordFailureType, Zenon DEF ReadFails
    <3>2. consecutive_failures \in Int /\ consecutive_failures' \in Int
      BY RecordFailureType, ParameterTypes DEF ReadFails, TypeOK
    <3>3. NeverStranded'
      BY <2>1, <3>1, <3>2, ParameterTypes DEF adapter_vars, NeverStranded
    <3> QED
      BY <2>1, <3>3, Zenon DEF ReadFails, adapter_vars, AdapterDiscipline, RetryInv
  <2>2. CASE consecutive_failures' >= ReconnectThreshold /\ pc' = "init"
             /\ scanning' = FALSE /\ initialized' = FALSE
    BY <2>2, Zenon DEF AdapterDiscipline, NeverStranded, RetryInv
  <2> QED
    BY <2>1, <2>2, Zenon DEF ReadFails
<1> QED
  BY <1>1, <1>2, Zenon DEF SafetyInv

LEMMA BadGeometrySafe ==
  ASSUME SafetyInv, BadGeometry
  PROVE  SafetyInv'
<1> TypeOK /\ AdapterDiscipline /\ NeverStranded /\ RetryInv
  BY Zenon DEF SafetyInv
<1>1. TypeOK'
  BY RecordFailureType, Zenon DEF BadGeometry, adapter_vars, TypeOK
<1>2. AdapterDiscipline' /\ NeverStranded' /\ RetryInv'
  BY Zenon DEF BadGeometry, adapter_vars, AdapterDiscipline, NeverStranded, RetryInv
<1> QED
  BY <1>1, <1>2, Zenon DEF SafetyInv

LEMMA ScanSafe ==
  ASSUME SafetyInv, NEW s \in Scans, Scan(s)
  PROVE  SafetyInv'
<1> TypeOK /\ AdapterDiscipline /\ NeverStranded /\ RetryInv
  BY Zenon DEF SafetyInv
<1>1. TypeOK'
  <2>1. Success(s) \in Record
    BY Zenon DEF Record
  <2>2. history' \in Seq(Record) /\ Len(history') <= WindowSize
    BY <2>1, RecordedType DEF TypeOK, Scan, RecordScan
  <2>3. consecutive_failures' \in 0 .. FailureCap
    BY ParameterTypes DEF Scan, RecordScan
  <2> QED
    BY <2>2, <2>3, Zenon DEF Scan, adapter_vars, TypeOK
<1>2. AdapterDiscipline' /\ NeverStranded' /\ RetryInv'
  BY Zenon DEF Scan, adapter_vars, AdapterDiscipline, NeverStranded, RetryInv
<1> QED
  BY <1>1, <1>2, Zenon DEF SafetyInv

LEMMA DiagnosticsSafe ==
  ASSUME SafetyInv, DiagnosticsCallback
  PROVE  SafetyInv'
<1> TypeOK /\ AdapterDiscipline /\ NeverStranded /\ RetryInv
  BY Zenon DEF SafetyInv
<1>1. TypeOK'
  BY HealthType, Zenon DEF DiagnosticsCallback, adapter_vars, TypeOK
<1>2. AdapterDiscipline' /\ NeverStranded' /\ RetryInv'
  BY Zenon DEF DiagnosticsCallback, adapter_vars, AdapterDiscipline, NeverStranded,
     RetryInv
<1> QED
  BY <1>1, <1>2, Zenon DEF SafetyInv

LEMMA TerminateSafe ==
  ASSUME SafetyInv, Terminate
  PROVE  SafetyInv'
<1> TypeOK /\ AdapterDiscipline /\ NeverStranded /\ RetryInv
  BY Zenon DEF SafetyInv
<1>1. TypeOK'
  BY Zenon DEF Terminate, health_vars, TypeOK, Place
<1>2. AdapterDiscipline' /\ NeverStranded' /\ RetryInv'
  BY Zenon DEF Terminate, AdapterDiscipline, NeverStranded, RetryInv
<1> QED
  BY <1>1, <1>2, Zenon DEF SafetyInv

LEMMA NextSafe == SafetyInv /\ [Next]_vars => SafetyInv'
<1> SUFFICES ASSUME SafetyInv, [Next]_vars PROVE SafetyInv'
  OBVIOUS
<1>1. CASE SdkAnswers
  BY <1>1, InitAttemptSafe, StartAttemptSafe, Zenon DEF SdkAnswers
<1>2. CASE ScanCallback
  BY <1>2, ReadFailsSafe, BadGeometrySafe, ScanSafe, Zenon DEF ScanCallback
<1>3. CASE DiagnosticsCallback \/ Terminate
  BY <1>3, DiagnosticsSafe, TerminateSafe, Zenon
<1>4. CASE UNCHANGED vars
  BY <1>4, Zenon DEF vars, SafetyInv, TypeOK, AdapterDiscipline, NeverStranded, RetryInv
<1> QED
  BY <1>1, <1>2, <1>3, <1>4, Zenon DEF Next

----------------------------------------------------------------------------
THEOREM SpecSafe == Spec => []SafetyInv
BY InitSafe, NextSafe, PTL DEF Spec

\* The types hold; the health window never outgrows its size, for every size.
THEOREM TypeCorrect == Spec => []TypeOK
<1>1. SafetyInv => TypeOK
  BY Zenon DEF SafetyInv
<1> QED
  BY SpecSafe, <1>1, PTL

\* The SDK is used in its order, connect, turn on, scan, on every path of the boot and
\* the reconnect, for every number of retries.
THEOREM DisciplineSafe == Spec => []AdapterDiscipline
<1>1. SafetyInv => AdapterDiscipline
  BY Zenon DEF SafetyInv
<1> QED
  BY SpecSafe, <1>1, PTL

\* No failed reconnect leaves the node without a scan and without another reconnect.
THEOREM StrandedSafe == Spec => []NeverStranded
<1>1. SafetyInv => NeverStranded
  BY Zenon DEF SafetyInv
<1> QED
  BY SpecSafe, <1>1, PTL

-----------------------------------------------------------------------------
(***************************************************************************)
(* The processor.                                                          *)
(***************************************************************************)

Reading == Nat \cup {NaN}

\* The filters are tuned by what the parameter services show, but for the switch.
Tuned == \A name \in Tuning : config[name] \in Int
TunedInv ==
  /\ DOMAIN parameters = Declared /\ DOMAIN config = Declared
  /\ \A name \in Declared \ {"filters_enabled"} : config[name] = parameters[name]
  /\ Tuned

\* What was published is the scan, through the filters in use.
OutInv ==
  out # Nothing =>
    /\ out.raw \in Seq(Reading)
    /\ config["filters_enabled"] => out.ranges = apply_filters(out.raw)

ChainInv == TunedInv /\ OutInv

\* What the filters in use leave of ray i.
Keeps(i) ==
  /\ config["roi.enabled"] =>
       Angle(angle_min, angle_increment, i) \in config["roi.angle_min_deg"] .. config["roi.angle_max_deg"]
  /\ config["downsample.enabled"] => Selected(config["downsample.factor"], i)

-----------------------------------------------------------------------------
(***************************************************************************)
(* The chain: every stage keeps the rays; the last two blank their share.  *)
(***************************************************************************)

LEMMA ClampKeepsRays == ASSUME NEW scan PROVE DOMAIN Clamp(scan) = DOMAIN scan
BY DEF Clamp, Stage, range_clamp_filter

LEMMA OutlierKeepsRays == ASSUME NEW scan PROVE DOMAIN Outlier(scan) = DOMAIN scan
BY DEF Outlier, Stage, outlier_rejection_filter

LEMMA MedianKeepsRays == ASSUME NEW scan PROVE DOMAIN MedianStage(scan) = DOMAIN scan
BY DEF MedianStage, Stage, median_filter

LEMMA SmoothingKeepsRays == ASSUME NEW scan PROVE DOMAIN Smoothing(scan) = DOMAIN scan
BY DEF Smoothing, Stage, moving_average_filter

\* A ray that the region of interest leaves out is blank.
LEMMA RoiBlanks ==
  ASSUME NEW scan, NEW i \in DOMAIN scan
  PROVE  /\ DOMAIN Roi(scan) = DOMAIN scan
         /\ config["roi.enabled"]
              /\ Angle(angle_min, angle_increment, i)
                   \notin config["roi.angle_min_deg"] .. config["roi.angle_max_deg"]
            => Roi(scan)[i] = NaN
BY DEF Roi, Stage, roi_crop_filter

\* A ray that the downsampling passes over is blank, and a blank one stays so.
LEMMA DownsampleBlanks ==
  ASSUME NEW scan, NEW i \in DOMAIN scan
  PROVE  /\ scan[i] = NaN => Downsample(scan)[i] = NaN
         /\ config["downsample.enabled"] /\ ~Selected(config["downsample.factor"], i)
              => Downsample(scan)[i] = NaN
BY DEF Downsample, Stage, downsample_filter

LEMMA ChainBlanks ==
  ASSUME NEW scan, NEW i \in DOMAIN scan, ~Keeps(i)
  PROVE  apply_filters(scan)[i] = NaN
<1> DEFINE smoothed == Smoothing(MedianStage(Outlier(Clamp(scan))))
<1>1. i \in DOMAIN smoothed
  BY ClampKeepsRays, OutlierKeepsRays, MedianKeepsRays, SmoothingKeepsRays
<1> HIDE DEF smoothed
<1>2. i \in DOMAIN Roi(smoothed)
  BY <1>1, RoiBlanks
<1>3. CASE config["roi.enabled"]
             /\ Angle(angle_min, angle_increment, i)
                  \notin config["roi.angle_min_deg"] .. config["roi.angle_max_deg"]
  <2>1. Roi(smoothed)[i] = NaN
    BY <1>1, <1>3, RoiBlanks
  <2>2. Downsample(Roi(smoothed))[i] = NaN
    BY <1>2, <2>1, DownsampleBlanks
  <2> QED
    BY <2>2 DEF apply_filters, smoothed
<1>4. CASE config["downsample.enabled"] /\ ~Selected(config["downsample.factor"], i)
  <2>1. Downsample(Roi(smoothed))[i] = NaN
    BY <1>2, <1>4, DownsampleBlanks
  <2> QED
    BY <2>1 DEF apply_filters, smoothed
<1> QED
  BY <1>3, <1>4 DEF Keeps

-----------------------------------------------------------------------------
(***************************************************************************)
(* Induction on the readings of a window, by sets: what holds of no        *)
(* element, and of a set if it holds of the set without any one of them,   *)
(* holds of every finite set.                                              *)
(***************************************************************************)

LEMMA LeastOf ==
  ASSUME NEW T, T \subseteq Nat, T # {}
  PROVE  \E x \in T : \A y \in T : ~(y < x)
<1>1. IsWellFoundedOn(OpToRel(<, Nat), Nat)
  BY NatLessThanWellFounded
<1>2. \E x \in T : \A y \in T : <<y, x>> \notin OpToRel(<, Nat)
  BY <1>1, WFMin
<1>3. \A x \in Nat, y \in Nat : y < x => <<y, x>> \in OpToRel(<, Nat)
  BY DEF OpToRel
<1> QED
  BY <1>2, <1>3

LEMMA SetInduction ==
  ASSUME NEW T, T \subseteq Nat, 0 \in T, \A n \in T : n + 1 \in T
  PROVE  T = Nat
<1>1. SUFFICES ASSUME Nat \ T # {} PROVE FALSE
  OBVIOUS
<1>2. PICK x \in Nat \ T : \A y \in Nat \ T : ~(y < x)
  BY <1>1, LeastOf
<1>3. x - 1 \in Nat /\ x - 1 < x /\ (x - 1) + 1 = x
  BY <1>2
<1>4. x - 1 \in T
  BY <1>2, <1>3
<1> QED
  BY <1>2, <1>3, <1>4

LEMMA FiniteInduction ==
  ASSUME NEW D, IsFiniteSet(D), NEW T, {} \in T,
         \A E \in SUBSET D : E # {} /\ (\A x \in E : E \ {x} \in T) => E \in T
  PROVE  \A E \in SUBSET D : E \in T
<1> DEFINE N == {n \in Nat : \A E \in SUBSET D : Cardinality(E) = n => E \in T}
<1>1. \A E \in SUBSET D : IsFiniteSet(E) /\ Cardinality(E) \in Nat
  BY FS_Subset, FS_CardinalityType
<1>2. 0 \in N
  BY <1>1, FS_EmptySet
<1>3. ASSUME NEW n \in N PROVE n + 1 \in N
  <2> SUFFICES ASSUME NEW E \in SUBSET D, Cardinality(E) = n + 1 PROVE E \in T
    OBVIOUS
  <2>1. E # {}
    <3>1. n + 1 # 0
      OBVIOUS
    <3> QED
      BY <3>1, FS_EmptySet
  <2>2. ASSUME NEW x \in E PROVE E \ {x} \in T
    <3>1. Cardinality(E \ {x}) = Cardinality(E) - 1
      BY <1>1, FS_RemoveElement
    <3>2. Cardinality(E \ {x}) = n
      BY <3>1
    <3> QED
      BY <3>2
  <2> QED
    BY <2>1, <2>2
<1>4. N = Nat
  <2>1. N \subseteq Nat
    OBVIOUS
  <2> HIDE DEF N
  <2> QED
    BY <1>2, <1>3, <2>1, SetInduction
<1> QED
  BY <1>1, <1>4

-----------------------------------------------------------------------------
(***************************************************************************)
(* The median and the mean of a window lie among its readings.             *)
(***************************************************************************)

\* The readings of some rays, at least one.
IsWindow(w) == DOMAIN w # {} /\ IsFiniteSet(DOMAIN w) /\ w \in [DOMAIN w -> Nat]

LEMMA Counted == ASSUME NEW w, IsWindow(w) PROVE Count(w) \in Nat /\ Count(w) >= 1
<1>1. Cardinality(DOMAIN w) \in Nat /\ Cardinality(DOMAIN w) # 0
  BY FS_CardinalityType, FS_EmptySet DEF IsWindow
<1> QED
  BY <1>1 DEF Count

LEMMA Extremes ==
  ASSUME NEW w, IsWindow(w)
  PROVE  /\ \E m \in DOMAIN w : \A j \in DOMAIN w : w[j] <= w[m]
         /\ \E m \in DOMAIN w : \A j \in DOMAIN w : w[m] <= w[j]
<1> DEFINE D == DOMAIN w
           T == {E \in SUBSET D : E # {} => /\ \E m \in E : \A j \in E : w[j] <= w[m]
                                            /\ \E m \in E : \A j \in E : w[m] <= w[j]}
<1>1. \A j \in D : w[j] \in Nat
  BY DEF IsWindow
<1>2. {} \in T
  OBVIOUS
<1>3. ASSUME NEW E \in SUBSET D, E # {}, \A x \in E : E \ {x} \in T PROVE E \in T
  <2>1. PICK x \in E : TRUE
    BY <1>3
  <2>2. CASE E = {x}
    <3>1. w[x] <= w[x]
      BY <1>1
    <3> QED
      BY <2>2, <3>1
  <2>3. CASE E # {x}
    <3>1. E \ {x} # {}
      BY <2>1, <2>3
    <3>2. PICK m \in E \ {x} : \A j \in E \ {x} : w[j] <= w[m]
      BY <1>3, <3>1
    <3>3. PICK l \in E \ {x} : \A j \in E \ {x} : w[l] <= w[j]
      BY <1>3, <3>1
    <3>4. w[x] \in Nat /\ w[m] \in Nat /\ w[l] \in Nat /\ \A j \in E : w[j] \in Nat
      BY <1>1
    <3>5. \E k \in E : \A j \in E : w[j] <= w[k]
      <4>1. CASE w[x] <= w[m]
        BY <3>2, <4>1
      <4>2. CASE ~(w[x] <= w[m])
        <5>1. \A j \in E : w[j] <= w[x]
          BY <3>2, <3>4, <4>2
        <5> QED
          BY <5>1
      <4> QED
        BY <4>1, <4>2
    <3>6. \E k \in E : \A j \in E : w[k] <= w[j]
      <4>1. CASE w[l] <= w[x]
        BY <3>3, <4>1
      <4>2. CASE ~(w[l] <= w[x])
        <5>1. \A j \in E : w[x] <= w[j]
          BY <3>3, <3>4, <4>2
        <5> QED
          BY <5>1
      <4> QED
        BY <4>1, <4>2
    <3> QED
      BY <3>5, <3>6
  <2> QED
    BY <2>2, <2>3
<1>4. D \in T
  <2>1. IsFiniteSet(D)
    BY DEF IsWindow
  <2> HIDE DEF T, D
  <2>2. \A E \in SUBSET D : E # {} /\ (\A x \in E : E \ {x} \in T) => E \in T
    BY <1>3
  <2>3. \A E \in SUBSET D : E \in T
    BY <1>2, <2>1, <2>2, FiniteInduction
  <2> QED
    BY <2>3
<1> QED
  BY <1>4 DEF IsWindow

LEMMA RankType == ASSUME NEW w, IsWindow(w), NEW v PROVE Rank(w, v) \in Nat /\ Rank(w, v) <= Count(w)
<1>1. {j \in DOMAIN w : w[j] <= v} \in SUBSET (DOMAIN w)
  OBVIOUS
<1> QED
  BY <1>1, FS_Subset, FS_CardinalityType DEF IsWindow, Rank, Count

\* There is an r-th reading.
LEMMA SortedIs ==
  ASSUME NEW w, IsWindow(w), NEW r \in 1 .. Count(w)
  PROVE  /\ Sorted(w, r) \in Range(w) /\ Rank(w, Sorted(w, r)) >= r
         /\ \A u \in Range(w) : Rank(w, u) >= r => Sorted(w, r) <= u
<1> DEFINE C == {v \in Range(w) : Rank(w, v) >= r}
<1>1. Range(w) = {w[j] : j \in DOMAIN w} /\ Range(w) \subseteq Nat
  BY DEF Range, IsWindow
<1>2. C # {}
  <2>1. PICK m \in DOMAIN w : \A j \in DOMAIN w : w[j] <= w[m]
    BY Extremes
  <2>2. {j \in DOMAIN w : w[j] <= w[m]} = DOMAIN w
    BY <2>1
  <2>3. Rank(w, w[m]) = Count(w)
    BY <2>2 DEF Rank, Count
  <2>4. Rank(w, w[m]) >= r
    BY <2>3, Counted
  <2> QED
    BY <1>1, <2>4
<1>3. C \subseteq Nat
  BY <1>1
<1>4. PICK v \in C : \A u \in C : ~(u < v)
  BY <1>2, <1>3, LeastOf
<1>5. v \in Range(w) /\ Rank(w, v) >= r /\ \A u \in Range(w) : Rank(w, u) >= r => v <= u
  BY <1>1, <1>4
<1> QED
  BY <1>5, Zenon DEF Sorted

LEMMA MedianBetween ==
  ASSUME NEW w, IsWindow(w)
  PROVE  /\ Median(w) \in Nat
         /\ \E a, b \in DOMAIN w : w[a] <= Median(w) /\ Median(w) <= w[b]
<1> DEFINE n == Count(w)
           low == Sorted(w, (n + 1) \div 2)
           high == Sorted(w, n \div 2 + 1)
<1>1. n \in Nat /\ n >= 1
  BY Counted
<1>2. (n + 1) \div 2 \in 1 .. n /\ n \div 2 + 1 \in 1 .. n
  <2> HIDE DEF n
  <2> QED
    BY <1>1
<1>3. low \in Range(w) /\ high \in Range(w)
  BY <1>2, SortedIs
<1>4. PICK a \in DOMAIN w, b \in DOMAIN w : low = w[a] /\ high = w[b]
  BY <1>3 DEF Range
<1>5. Median(w) = (low + high) \div 2
  BY DEF Median
<1>6. w[a] \in Nat /\ w[b] \in Nat
  BY DEF IsWindow
<1> HIDE DEF low, high
<1>7. CASE low <= high
  BY <1>4, <1>5, <1>6, <1>7
<1>8. CASE high <= low
  BY <1>4, <1>5, <1>6, <1>8
<1> QED
  BY <1>4, <1>6, <1>7, <1>8

\* The sum over some of the rays: the function that FoldFunction recurs by.
AnyOf(s) == CHOOSE x \in s : TRUE
SumFold(w, fold, sets) ==
  fold = [s \in sets |-> IF s = {} THEN 0 ELSE w[AnyOf(s)] + fold[s \ {AnyOf(s)}]]

LEMMA SumMore ==
  ASSUME NEW D, IsFiniteSet(D), NEW w, NEW n \in Nat,
         NEW fold, SumFold(w, fold, {s \in SUBSET D : Cardinality(s) <= n})
  PROVE  \E more : SumFold(w, more, {s \in SUBSET D : Cardinality(s) <= n + 1})
<1> DEFINE S(k) == {s \in SUBSET D : Cardinality(s) <= k}
           step(f, s) == IF s = {} THEN 0 ELSE w[AnyOf(s)] + f[s \ {AnyOf(s)}]
           more == [s \in S(n + 1) |-> step(fold, s)]
<1>1. \A s \in SUBSET D : IsFiniteSet(s) /\ Cardinality(s) \in Nat
  BY FS_Subset, FS_CardinalityType
<1>2. \A s \in S(n) : fold[s] = step(fold, s)
  BY DEF SumFold
<1>3. S(n) \subseteq S(n + 1)
  BY <1>1
<1>4. ASSUME NEW s \in S(n + 1), s # {} PROVE s \ {AnyOf(s)} \in S(n)
  <2>1. AnyOf(s) \in s
    BY <1>4 DEF AnyOf
  <2>2. Cardinality(s \ {AnyOf(s)}) = Cardinality(s) - 1
    BY <1>1, <2>1, FS_RemoveElement
  <2>3. Cardinality(s) - 1 <= n
    BY <1>1
  <2> QED
    BY <2>2, <2>3
<1>5. ASSUME NEW s \in S(n + 1) PROVE more[s] = step(more, s)
  <2>1. more[s] = step(fold, s)
    OBVIOUS
  <2>2. CASE s = {}
    BY <2>1, <2>2
  <2>3. CASE s # {}
    <3>1. s \ {AnyOf(s)} \in S(n) /\ s \ {AnyOf(s)} \in S(n + 1)
      BY <1>3, <1>4, <2>3
    <3>2. more[s \ {AnyOf(s)}] = fold[s \ {AnyOf(s)}]
      <4>1. more[s \ {AnyOf(s)}] = step(fold, s \ {AnyOf(s)})
        BY <3>1
      <4> HIDE DEF step, more, S
      <4> QED
        BY <1>2, <3>1, <4>1
    <3> HIDE DEF more, S
    <3> QED
      BY <2>1, <2>3, <3>2
  <2> QED
    BY <2>2, <2>3
<1>6. more = [s \in S(n + 1) |-> more[s]]
  OBVIOUS
<1>7. more = [s \in S(n + 1) |-> step(more, s)]
  <2> HIDE DEF more, step, S
  <2> QED
    BY <1>5, <1>6
<1>8. SumFold(w, more, S(n + 1))
  <2> HIDE DEF more, S
  <2> QED
    BY <1>7 DEF SumFold
<1> QED
  BY <1>8

LEMMA SumExists == ASSUME NEW D, IsFiniteSet(D), NEW w PROVE \E fold : SumFold(w, fold, SUBSET D)
<1> DEFINE S(k) == {s \in SUBSET D : Cardinality(s) <= k}
           T == {n \in Nat : \E fold : SumFold(w, fold, S(n))}
<1>1. \A s \in SUBSET D : IsFiniteSet(s) /\ Cardinality(s) \in Nat /\ Cardinality(s) <= Cardinality(D)
  BY FS_Subset, FS_CardinalityType
<1>2. 0 \in T
  <2>1. \A s \in S(0) : s = {}
    <3>1. \A s \in S(0) : Cardinality(s) = 0
      BY <1>1
    <3> QED
      BY <1>1, <3>1, FS_EmptySet
  <2> DEFINE none == [s \in S(0) |-> 0]
  <2>2. SumFold(w, none, S(0))
    <3> HIDE DEF S
    <3> QED
      BY <2>1 DEF SumFold
  <2> HIDE DEF none
  <2> QED
    BY <2>2
<1>3. ASSUME NEW n \in T PROVE n + 1 \in T
  <2>1. n \in Nat /\ n + 1 \in Nat
    OBVIOUS
  <2>2. PICK fold : SumFold(w, fold, S(n))
    BY <1>3
  <2>3. \E more : SumFold(w, more, S(n + 1))
    BY <2>1, <2>2, SumMore
  <2> HIDE DEF S
  <2> QED
    BY <2>1, <2>3
<1>4. T = Nat
  <2>1. T \subseteq Nat
    OBVIOUS
  <2> HIDE DEF T
  <2> QED
    BY <1>2, <1>3, <2>1, SetInduction
<1>5. Cardinality(D) \in T
  BY <1>4, FS_CardinalityType
<1>6. S(Cardinality(D)) = SUBSET D
  BY <1>1
<1> QED
  BY <1>5, <1>6

LEMMA Times ==
  ASSUME NEW n \in Nat, NEW v \in Nat
  PROVE  0 * v = 0 /\ (n + 1) * v = n * v + v /\ n * v \in Nat
OBVIOUS

\* The sum of n numbers from low to high is at least n low and at most n high.
LEMMA TotalBetween ==
  ASSUME NEW w, IsWindow(w), NEW low \in Nat, NEW high \in Nat,
         \A j \in DOMAIN w : low <= w[j] /\ w[j] <= high
  PROVE  /\ Total(w) \in Nat
         /\ Count(w) * low <= Total(w) /\ Total(w) <= Count(w) * high
<1> DEFINE D == DOMAIN w
           fold == CHOOSE fold : SumFold(w, fold, SUBSET D)
           T == {E \in SUBSET D : /\ fold[E] \in Nat
                                  /\ Cardinality(E) * low <= fold[E]
                                  /\ fold[E] <= Cardinality(E) * high}
<1>1. IsFiniteSet(D) /\ (\A j \in D : w[j] \in Nat)
  BY DEF IsWindow
<1>2. SumFold(w, fold, SUBSET D)
  BY <1>1, SumExists, Zenon
<1>3. Total(w) = fold[D]
  BY DEF Total, FoldFunction, FoldFunctionOnSet, MapThenFoldSet, SumFold, AnyOf
<1> HIDE DEF fold, D
<1>4. \A E \in SUBSET D : fold[E] = IF E = {} THEN 0 ELSE w[AnyOf(E)] + fold[E \ {AnyOf(E)}]
  BY <1>2 DEF SumFold
<1>5. {} \in T
  <2>1. fold[{}] = 0 /\ Cardinality({}) = 0
    BY <1>4, FS_EmptySet
  <2> QED
    BY <2>1, Times
<1>6. ASSUME NEW E \in SUBSET D, E # {}, \A x \in E : E \ {x} \in T PROVE E \in T
  <2> DEFINE x == AnyOf(E)
             rest == E \ {x}
  <2>1. x \in E
    BY <1>6 DEF AnyOf
  <2>2. Cardinality(rest) = Cardinality(E) - 1 /\ Cardinality(rest) \in Nat /\ Cardinality(E) \in Nat
    <3>1. IsFiniteSet(E) /\ IsFiniteSet(rest)
      BY <1>1, FS_Subset
    <3> QED
      BY <2>1, <3>1, FS_RemoveElement, FS_CardinalityType
  <2>3. fold[E] = w[x] + fold[rest]
    BY <1>4, <1>6
  <2>4. /\ fold[rest] \in Nat
        /\ Cardinality(rest) * low <= fold[rest] /\ fold[rest] <= Cardinality(rest) * high
    BY <1>6, <2>1
  <2>5. w[x] \in Nat /\ low <= w[x] /\ w[x] <= high
    BY <1>1, <2>1 DEF D
  <2>6. Cardinality(E) = Cardinality(rest) + 1
    BY <2>2
  <2> HIDE DEF x, rest
  <2>7. /\ Cardinality(E) * low = Cardinality(rest) * low + low
        /\ Cardinality(E) * high = Cardinality(rest) * high + high
        /\ Cardinality(rest) * low \in Nat /\ Cardinality(rest) * high \in Nat
    BY <2>2, <2>6, Times
  <2>8. /\ fold[E] \in Nat
        /\ Cardinality(E) * low <= fold[E] /\ fold[E] <= Cardinality(E) * high
    BY <2>3, <2>4, <2>5, <2>7
  <2> QED
    BY <2>8
<1>7. D \in T
  <2> HIDE DEF T
  <2>1. \A E \in SUBSET D : E # {} /\ (\A x \in E : E \ {x} \in T) => E \in T
    BY <1>6
  <2>2. \A E \in SUBSET D : E \in T
    BY <1>1, <1>5, <2>1, FiniteInduction
  <2> QED
    BY <2>2
<1> QED
  BY <1>3, <1>7 DEF Count, D

LEMMA Quotient ==
  ASSUME NEW t \in Nat, NEW n \in Nat, n >= 1, NEW low \in Nat, NEW high \in Nat,
         n * low <= t, t <= n * high
  PROVE  t \div n \in Nat /\ low <= t \div n /\ t \div n <= high
OBVIOUS

LEMMA MeanBetween ==
  ASSUME NEW w, IsWindow(w)
  PROVE  /\ Mean(w) \in Nat
         /\ \E a, b \in DOMAIN w : w[a] <= Mean(w) /\ Mean(w) <= w[b]
<1>1. PICK a \in DOMAIN w : \A j \in DOMAIN w : w[a] <= w[j]
  BY Extremes
<1>2. PICK b \in DOMAIN w : \A j \in DOMAIN w : w[j] <= w[b]
  BY Extremes
<1>3. w[a] \in Nat /\ w[b] \in Nat
  BY DEF IsWindow
<1>4. Total(w) \in Nat /\ Count(w) * w[a] <= Total(w) /\ Total(w) <= Count(w) * w[b]
  BY <1>1, <1>2, <1>3, TotalBetween
<1>5. Mean(w) = Total(w) \div Count(w)
  BY DEF Mean
<1> QED
  BY <1>3, <1>4, <1>5, Counted, Quotient

-----------------------------------------------------------------------------
(***************************************************************************)
(* Readings stay near where they were measured.  Each stage carries a      *)
(* reading no further than its window reaches, and the stages add up.      *)
(***************************************************************************)

\* What is valid in one scan lies between two readings of another, within reach of its ray.
Carried(from, to, reach) ==
  /\ to \in Seq(Reading) /\ DOMAIN to = DOMAIN from
  /\ \A i \in DOMAIN from : Valid(to[i]) =>
       \E a, b \in DOMAIN from :
         /\ Distance(i, a) <= reach /\ Distance(i, b) <= reach
         /\ Valid(from[a]) /\ Valid(from[b])
         /\ from[a] <= to[i] /\ to[i] <= from[b]

LEMMA DistanceIs ==
  ASSUME NEW i \in Int, NEW j \in Int, NEW k \in Int
  PROVE  /\ Distance(i, j) \in Nat /\ Distance(i, i) = 0 /\ Distance(i, j) = Distance(j, i)
         /\ Distance(i, k) <= Distance(i, j) + Distance(j, k)
BY DEF Distance

LEMMA ScanIs ==
  ASSUME NEW scan \in Seq(Reading)
  PROVE  /\ DOMAIN scan = 1 .. Len(scan) /\ Len(scan) \in Nat
         /\ \A j \in DOMAIN scan : j \in Nat /\ scan[j] \in Int /\ (Valid(scan[j]) => scan[j] \in Nat)
<1>1. /\ DOMAIN scan = 1 .. Len(scan) /\ Len(scan) \in Nat
      /\ \A j \in DOMAIN scan : scan[j] \in Reading
  OBVIOUS
<1>2. \A j \in DOMAIN scan : scan[j] \in Int /\ (Valid(scan[j]) => scan[j] \in Nat)
  BY <1>1 DEF Reading, Valid, NaN
<1>3. \A j \in 1 .. Len(scan) : j \in Nat
  BY <1>1
<1> QED
  BY <1>1, <1>2, <1>3

LEMMA MakeScan ==
  ASSUME NEW scan \in Seq(Reading), NEW f, f = [i \in DOMAIN scan |-> f[i]], \A i \in DOMAIN scan : f[i] \in Reading
  PROVE  f \in Seq(Reading) /\ DOMAIN f = DOMAIN scan
<1>1. DOMAIN scan = 1 .. Len(scan) /\ Len(scan) \in Nat
  OBVIOUS
<1>2. f \in [1 .. Len(scan) -> Reading]
  BY <1>1
<1> QED
  BY <1>1, <1>2

LEMMA AroundIs ==
  ASSUME NEW scan \in Seq(Reading), NEW reach, NEW i
  PROVE  /\ \A j : j \in DOMAIN Around(scan, reach, i)
                     <=> j \in DOMAIN scan /\ Distance(i, j) <= reach /\ Valid(scan[j])
         /\ \A j \in DOMAIN Around(scan, reach, i) : Around(scan, reach, i)[j] = scan[j]
         /\ IsFiniteSet(DOMAIN Around(scan, reach, i))
         /\ DOMAIN Around(scan, reach, i) # {} => IsWindow(Around(scan, reach, i))
<1> DEFINE w == Around(scan, reach, i)
<1>1. DOMAIN w = {j \in DOMAIN scan : Distance(i, j) <= reach /\ Valid(scan[j])}
  BY DEF Around
<1>2. \A j \in DOMAIN w : w[j] = scan[j]
  BY DEF Around
<1>3. IsFiniteSet(DOMAIN w)
  <2>1. DOMAIN scan = 1 .. Len(scan) /\ Len(scan) \in Nat
    BY ScanIs
  <2>2. IsFiniteSet(1 .. Len(scan))
    BY <2>1, FS_Interval
  <2>3. DOMAIN w \in SUBSET (DOMAIN scan)
    BY <1>1
  <2> QED
    BY <2>1, <2>2, <2>3, FS_Subset
<1>4. \A j \in DOMAIN w : w[j] \in Nat
  BY <1>1, <1>2, ScanIs
<1>5. w = [j \in DOMAIN w |-> w[j]]
  BY DEF Around
<1> HIDE DEF w
<1>6. w \in [DOMAIN w -> Nat]
  BY <1>4, <1>5
<1> QED
  BY <1>1, <1>2, <1>3, <1>6 DEF IsWindow, w

LEMMA EmptyCount ==
  ASSUME NEW w, IsFiniteSet(DOMAIN w)
  PROVE  (Count(w) = 0) <=> (DOMAIN w = {})
BY FS_EmptySet DEF Count

LEMMA HalfIs == ASSUME NEW k \in Int PROVE Half(k) \in Nat /\ Half(k) >= 1
<1>1. Odd(k) \in Nat /\ Odd(k) >= 3
  BY DEF Odd
<1> HIDE DEF Odd
<1> QED
  BY <1>1 DEF Half

LEMMA CarriedBySame ==
  ASSUME NEW scan \in Seq(Reading), NEW to, to = [i \in DOMAIN scan |-> to[i]],
         \A i \in DOMAIN scan : to[i] \in {scan[i], NaN}
  PROVE  Carried(scan, to, 0)
<1>1. \A i \in DOMAIN scan : scan[i] \in Reading /\ to[i] \in Reading
  BY ScanIs DEF Reading
<1>2. to \in Seq(Reading) /\ DOMAIN to = DOMAIN scan
  BY <1>1, MakeScan
<1>3. ASSUME NEW i \in DOMAIN scan, Valid(to[i])
      PROVE  /\ Distance(i, i) <= 0 /\ Valid(scan[i]) /\ scan[i] <= to[i] /\ to[i] <= scan[i]
  <2>1. to[i] = scan[i] /\ scan[i] \in Int /\ i \in Int
    BY <1>3, ScanIs DEF Valid
  <2> QED
    BY <1>3, <2>1, DistanceIs
<1> QED
  BY <1>2, <1>3 DEF Carried

\* A stage that puts something between the readings of a window in the place of a reading.
LEMMA CarriedByWindow ==
  ASSUME NEW scan \in Seq(Reading), NEW reach \in Nat, NEW to, to = [i \in DOMAIN scan |-> to[i]],
         \A i \in DOMAIN scan :
           LET w == Around(scan, reach, i)
           IN  IF DOMAIN w = {} THEN to[i] = scan[i]
               ELSE to[i] \in Nat /\ \E a, b \in DOMAIN w : w[a] <= to[i] /\ to[i] <= w[b]
  PROVE  Carried(scan, to, reach)
<1>1. ASSUME NEW i \in DOMAIN scan
      PROVE  /\ to[i] \in Reading
             /\ Valid(to[i]) => \E a, b \in DOMAIN scan :
                  /\ Distance(i, a) <= reach /\ Distance(i, b) <= reach
                  /\ Valid(scan[a]) /\ Valid(scan[b])
                  /\ scan[a] <= to[i] /\ to[i] <= scan[b]
  <2> DEFINE w == Around(scan, reach, i)
  <2>3. /\ \A j : j \in DOMAIN w <=> j \in DOMAIN scan /\ Distance(i, j) <= reach /\ Valid(scan[j])
        /\ \A j \in DOMAIN w : w[j] = scan[j]
    BY AroundIs
  <2>1. CASE DOMAIN w = {}
    <3>1. to[i] = scan[i] /\ scan[i] \in Reading /\ i \in Int
      BY <2>1, ScanIs
    <3>2. Distance(i, i) <= reach
      BY <3>1, DistanceIs
    <3>3. ~Valid(scan[i])
      BY <2>1, <2>3, <3>2
    <3> QED
      BY <3>1, <3>3
  <2>2. CASE DOMAIN w # {}
    <3>1. to[i] \in Nat
      BY <2>2
    <3>2. PICK a \in DOMAIN w, b \in DOMAIN w : w[a] <= to[i] /\ to[i] <= w[b]
      BY <2>2
    <3> HIDE DEF w
    <3> QED
      BY <2>3, <3>1, <3>2 DEF Reading
  <2> QED
    BY <2>1, <2>2
<1>2. to \in Seq(Reading) /\ DOMAIN to = DOMAIN scan
  BY <1>1, MakeScan
<1> QED
  BY <1>1, <1>2 DEF Carried

LEMMA Sums ==
  ASSUME NEW d \in Int, NEW d1 \in Int, NEW d2 \in Int, NEW r1 \in Int, NEW r2 \in Int,
         d <= d1 + d2, d1 <= r2, d2 <= r1
  PROVE  d <= r1 + r2
OBVIOUS

LEMMA AtMost == ASSUME NEW a \in Int, NEW b \in Int, NEW c \in Int, a <= b, b <= c PROVE a <= c
OBVIOUS

LEMMA CarriedOn ==
  ASSUME NEW x \in Seq(Reading), NEW y, NEW z, NEW r1 \in Nat, NEW r2 \in Nat,
         Carried(x, y, r1), Carried(y, z, r2)
  PROVE  Carried(x, z, r1 + r2)
<1>1. y \in Seq(Reading) /\ z \in Seq(Reading) /\ DOMAIN y = DOMAIN x /\ DOMAIN z = DOMAIN x
  BY DEF Carried
<1>2. ASSUME NEW i \in DOMAIN x, Valid(z[i])
      PROVE  \E a, b \in DOMAIN x :
               /\ Distance(i, a) <= r1 + r2 /\ Distance(i, b) <= r1 + r2
               /\ Valid(x[a]) /\ Valid(x[b])
               /\ x[a] <= z[i] /\ z[i] <= x[b]
  <2>1. PICK c \in DOMAIN x, d \in DOMAIN x :
          /\ Distance(i, c) <= r2 /\ Distance(i, d) <= r2
          /\ Valid(y[c]) /\ Valid(y[d])
          /\ y[c] <= z[i] /\ z[i] <= y[d]
    BY <1>1, <1>2 DEF Carried
  <2>2. PICK a \in DOMAIN x : Distance(c, a) <= r1 /\ Valid(x[a]) /\ x[a] <= y[c]
    BY <2>1 DEF Carried
  <2>3. PICK b \in DOMAIN x : Distance(d, b) <= r1 /\ Valid(x[b]) /\ y[d] <= x[b]
    BY <2>1 DEF Carried
  <2>4. /\ i \in Int /\ a \in Int /\ b \in Int /\ c \in Int /\ d \in Int
        /\ x[a] \in Int /\ x[b] \in Int /\ y[c] \in Int /\ y[d] \in Int /\ z[i] \in Int
    BY <1>1, ScanIs
  <2>5. /\ Distance(i, a) <= Distance(i, c) + Distance(c, a)
        /\ Distance(i, b) <= Distance(i, d) + Distance(d, b)
        /\ Distance(i, a) \in Nat /\ Distance(i, b) \in Nat /\ Distance(i, c) \in Nat
        /\ Distance(i, d) \in Nat /\ Distance(c, a) \in Nat /\ Distance(d, b) \in Nat
    BY <2>4, DistanceIs
  <2>6. Distance(i, a) <= r1 + r2 /\ Distance(i, b) <= r1 + r2
    <3>1. Distance(i, a) <= r1 + r2
      BY <2>1, <2>2, <2>5, Sums
    <3>2. Distance(i, b) <= r1 + r2
      BY <2>1, <2>3, <2>5, Sums
    <3> QED
      BY <3>1, <3>2
  <2>7. x[a] <= z[i] /\ z[i] <= x[b]
    BY <2>1, <2>2, <2>3, <2>4, AtMost
  <2> QED
    BY <2>2, <2>3, <2>6, <2>7
<1> QED
  BY <1>1, <1>2 DEF Carried

LEMMA ClampReads == ASSUME NEW scan \in Seq(Reading) PROVE Carried(scan, Clamp(scan), 0)
<1>1. Clamp(scan) = [i \in DOMAIN scan |-> Clamp(scan)[i]]
  <2>1. scan = [i \in DOMAIN scan |-> scan[i]]
    OBVIOUS
  <2> QED
    BY <2>1 DEF Clamp, Stage, range_clamp_filter
<1>2. \A i \in DOMAIN scan : Clamp(scan)[i] \in {scan[i], NaN}
  BY DEF Clamp, Stage, range_clamp_filter
<1> QED
  BY <1>1, <1>2, CarriedBySame

LEMMA OutlierCarries == ASSUME NEW scan \in Seq(Reading) PROVE Carried(scan, Outlier(scan), 0)
<1>1. Outlier(scan) = [i \in DOMAIN scan |-> Outlier(scan)[i]]
  <2>1. scan = [i \in DOMAIN scan |-> scan[i]]
    OBVIOUS
  <2> QED
    BY <2>1 DEF Outlier, Stage, outlier_rejection_filter
<1>2. \A i \in DOMAIN scan : Outlier(scan)[i] \in {scan[i], NaN}
  BY DEF Outlier, Stage, outlier_rejection_filter
<1> QED
  BY <1>1, <1>2, CarriedBySame

LEMMA RoiCarries == ASSUME NEW scan \in Seq(Reading) PROVE Carried(scan, Roi(scan), 0)
<1>1. Roi(scan) = [i \in DOMAIN scan |-> Roi(scan)[i]]
  <2>1. scan = [i \in DOMAIN scan |-> scan[i]]
    OBVIOUS
  <2> QED
    BY <2>1 DEF Roi, Stage, roi_crop_filter
<1>2. \A i \in DOMAIN scan : Roi(scan)[i] \in {scan[i], NaN}
  BY DEF Roi, Stage, roi_crop_filter
<1> QED
  BY <1>1, <1>2, CarriedBySame

LEMMA DownsampleCarries == ASSUME NEW scan \in Seq(Reading) PROVE Carried(scan, Downsample(scan), 0)
<1>1. Downsample(scan) = [i \in DOMAIN scan |-> Downsample(scan)[i]]
  <2>1. scan = [i \in DOMAIN scan |-> scan[i]]
    OBVIOUS
  <2> QED
    BY <2>1 DEF Downsample, Stage, downsample_filter
<1>2. \A i \in DOMAIN scan : Downsample(scan)[i] \in {scan[i], NaN}
  BY DEF Downsample, Stage, downsample_filter
<1> QED
  BY <1>1, <1>2, CarriedBySame

LEMMA MedianCarries ==
  ASSUME NEW scan \in Seq(Reading), NEW k \in Int
  PROVE  Carried(scan, median_filter(scan, k), Half(k))
<1> DEFINE to == median_filter(scan, k)
<1>1. Half(k) \in Nat
  BY HalfIs
<1>2. to = [i \in DOMAIN scan |-> to[i]]
  BY DEF median_filter
<1>3. ASSUME NEW i \in DOMAIN scan
      PROVE  LET w == Around(scan, Half(k), i)
             IN  IF DOMAIN w = {} THEN to[i] = scan[i]
                 ELSE to[i] \in Nat /\ \E a, b \in DOMAIN w : w[a] <= to[i] /\ to[i] <= w[b]
  <2> DEFINE w == Around(scan, Half(k), i)
  <2>1. to[i] = IF Count(w) = 0 THEN scan[i] ELSE Median(w)
    BY DEF median_filter, Window
  <2>2. (Count(w) = 0 <=> DOMAIN w = {}) /\ (DOMAIN w # {} => IsWindow(w))
    BY AroundIs, EmptyCount
  <2> HIDE DEF to, w
  <2>3. IF DOMAIN w = {} THEN to[i] = scan[i]
        ELSE to[i] \in Nat /\ \E a, b \in DOMAIN w : w[a] <= to[i] /\ to[i] <= w[b]
    BY <2>1, <2>2, MedianBetween
  <2> QED
    BY <2>3 DEF w
<1> HIDE DEF to
<1>4. Carried(scan, to, Half(k))
  BY <1>1, <1>2, <1>3, CarriedByWindow
<1> QED
  BY <1>4 DEF to

LEMMA MeanCarries ==
  ASSUME NEW scan \in Seq(Reading), NEW k \in Int
  PROVE  Carried(scan, moving_average_filter(scan, k), Half(k))
<1> DEFINE to == moving_average_filter(scan, k)
<1>1. Half(k) \in Nat
  BY HalfIs
<1>2. to = [i \in DOMAIN scan |-> to[i]]
  BY DEF moving_average_filter
<1>3. ASSUME NEW i \in DOMAIN scan
      PROVE  LET w == Around(scan, Half(k), i)
             IN  IF DOMAIN w = {} THEN to[i] = scan[i]
                 ELSE to[i] \in Nat /\ \E a, b \in DOMAIN w : w[a] <= to[i] /\ to[i] <= w[b]
  <2> DEFINE w == Around(scan, Half(k), i)
  <2>1. to[i] = IF Count(w) = 0 THEN scan[i] ELSE Mean(w)
    BY DEF moving_average_filter, Window
  <2>2. (Count(w) = 0 <=> DOMAIN w = {}) /\ (DOMAIN w # {} => IsWindow(w))
    BY AroundIs, EmptyCount
  <2> HIDE DEF to, w
  <2>3. IF DOMAIN w = {} THEN to[i] = scan[i]
        ELSE to[i] \in Nat /\ \E a, b \in DOMAIN w : w[a] <= to[i] /\ to[i] <= w[b]
    BY <2>1, <2>2, MeanBetween
  <2> QED
    BY <2>3 DEF w
<1> HIDE DEF to
<1>4. Carried(scan, to, Half(k))
  BY <1>1, <1>2, <1>3, CarriedByWindow
<1> QED
  BY <1>4 DEF to

\* The whole chain carries a reading as far as the median and the mean reach together.
MedianReach == IF config["median.enabled"] THEN Half(config["median.kernel_size"]) ELSE 0
MeanReach == IF config["smoothing.enabled"] THEN Half(config["smoothing.kernel_size"]) ELSE 0

LEMMA StandsStill == ASSUME NEW scan \in Seq(Reading) PROVE Carried(scan, scan, 0)
<1>1. scan = [i \in DOMAIN scan |-> scan[i]]
  OBVIOUS
<1> QED
  BY <1>1, CarriedBySame

LEMMA ChainCarries ==
  ASSUME Tuned, NEW scan \in Seq(Reading)
  PROVE  /\ Carried(Clamp(scan), apply_filters(scan), MedianReach + MeanReach)
         /\ Clamp(scan) \in Seq(Reading) /\ DOMAIN Clamp(scan) = DOMAIN scan
<1> DEFINE s1 == Clamp(scan)
           s2 == Outlier(s1)
           s3 == MedianStage(s2)
           s4 == Smoothing(s3)
           s5 == Roi(s4)
           s6 == Downsample(s5)
<1>1. MedianReach \in Nat /\ MeanReach \in Nat
  BY HalfIs DEF MedianReach, MeanReach, Tuned, Tuning
<1>2. s1 \in Seq(Reading) /\ DOMAIN s1 = DOMAIN scan
  BY ClampReads DEF Carried
<1> HIDE DEF s1
<1>3. Carried(s1, s2, 0) /\ s2 \in Seq(Reading)
  BY <1>2, OutlierCarries DEF Carried
<1> HIDE DEF s2
<1>4. Carried(s2, s3, MedianReach) /\ s3 \in Seq(Reading)
  <2>1. Carried(s2, s3, MedianReach)
    <3>1. CASE config["median.enabled"]
      <4>1. config["median.kernel_size"] \in Int
        BY DEF Tuned, Tuning
      <4> QED
        BY <1>3, <3>1, <4>1, MedianCarries DEF MedianStage, Stage, MedianReach
    <3>2. CASE ~config["median.enabled"]
      BY <1>3, <3>2, StandsStill DEF MedianStage, Stage, MedianReach
    <3> QED
      BY <3>1, <3>2
  <2> QED
    BY <2>1 DEF Carried
<1> HIDE DEF s3
<1>5. Carried(s3, s4, MeanReach) /\ s4 \in Seq(Reading)
  <2>1. Carried(s3, s4, MeanReach)
    <3>1. CASE config["smoothing.enabled"]
      <4>1. config["smoothing.kernel_size"] \in Int
        BY DEF Tuned, Tuning
      <4> QED
        BY <1>4, <3>1, <4>1, MeanCarries DEF Smoothing, Stage, MeanReach
    <3>2. CASE ~config["smoothing.enabled"]
      BY <1>4, <3>2, StandsStill DEF Smoothing, Stage, MeanReach
    <3> QED
      BY <3>1, <3>2
  <2> QED
    BY <2>1 DEF Carried
<1> HIDE DEF s4
<1>6. Carried(s4, s5, 0) /\ s5 \in Seq(Reading)
  BY <1>5, RoiCarries DEF Carried
<1> HIDE DEF s5
<1>7. Carried(s5, s6, 0)
  BY <1>6, DownsampleCarries
<1> HIDE DEF s6
<1>8. Carried(s1, s3, MedianReach)
  <2>1. Carried(s1, s3, 0 + MedianReach)
    BY <1>1, <1>2, <1>3, <1>4, CarriedOn
  <2> QED
    BY <1>1, <2>1
<1>9. Carried(s1, s4, MedianReach + MeanReach)
  BY <1>1, <1>2, <1>5, <1>8, CarriedOn
<1>10. MedianReach + MeanReach \in Nat /\ (MedianReach + MeanReach) + 0 = MedianReach + MeanReach
  BY <1>1
<1>11. Carried(s1, s5, MedianReach + MeanReach)
  <2>1. Carried(s1, s5, (MedianReach + MeanReach) + 0)
    BY <1>2, <1>6, <1>9, <1>10, CarriedOn
  <2> QED
    BY <1>10, <2>1
<1>12. Carried(s1, s6, MedianReach + MeanReach)
  <2>1. Carried(s1, s6, (MedianReach + MeanReach) + 0)
    BY <1>2, <1>7, <1>10, <1>11, CarriedOn
  <2> QED
    BY <1>10, <2>1
<1>13. apply_filters(scan) = s6
  BY DEF apply_filters, s1, s2, s3, s4, s5, s6
<1> QED
  BY <1>2, <1>12, <1>13 DEF s1

-----------------------------------------------------------------------------
(***************************************************************************)
(* A wall and a spike in it.                                               *)
(***************************************************************************)

\* The readings in the middle are the wall's, wherever the spike is sorted in.
LEMMA MiddleOfMost ==
  ASSUME NEW w, IsWindow(w), NEW x \in DOMAIN w, NEW d \in Nat, \A j \in DOMAIN w \ {x} : w[j] = d,
         NEW r \in 2 .. Count(w) - 1
  PROVE  Sorted(w, r) = d
<1> DEFINE v == Sorted(w, r)
<1>1. Count(w) \in Nat /\ IsFiniteSet(DOMAIN w) /\ (\A j \in DOMAIN w : w[j] \in Nat)
  BY Counted DEF IsWindow
<1>2. r \in 1 .. Count(w) /\ r >= 2 /\ r <= Count(w) - 1
  BY <1>1
<1>3. /\ v \in Range(w) /\ Rank(w, v) >= r
      /\ \A u \in Range(w) : Rank(w, u) >= r => v <= u
  BY <1>2, SortedIs
<1> HIDE DEF v
<1>4. PICK y \in DOMAIN w : v = w[y]
  BY <1>3 DEF Range
<1>5. ASSUME v < d PROVE FALSE
  <2>1. v \in Nat /\ y = x
    BY <1>1, <1>4, <1>5
  <2>2. {j \in DOMAIN w : w[j] <= v} = {x}
    BY <1>4, <1>5, <2>1
  <2>3. Rank(w, v) = 1
    BY <2>2, FS_Singleton DEF Rank
  <2> QED
    BY <1>2, <1>3, <2>3
<1>6. ASSUME d < v PROVE FALSE
  <2>1. v \in Nat /\ y = x
    BY <1>1, <1>4, <1>6
  <2>2. {j \in DOMAIN w : w[j] <= d} = DOMAIN w \ {x}
    BY <1>4, <1>6, <2>1
  <2>3. Rank(w, d) = Count(w) - 1
    BY <1>1, <2>2, FS_RemoveElement DEF Rank, Count
  <2>4. DOMAIN w # {x}
    <3>1. Count(w) # 1
      BY <1>1, <1>2
    <3> QED
      BY <3>1, FS_Singleton DEF Count
  <2>5. d \in Range(w)
    <3>1. PICK j \in DOMAIN w : j # x
      BY <2>4
    <3> QED
      BY <3>1 DEF Range
  <2>6. v <= d
    BY <1>2, <1>3, <2>3, <2>5
  <2> QED
    BY <1>6, <2>1, <2>6
<1>7. v \in Nat
  BY <1>1, <1>4
<1> QED
  BY <1>5, <1>6, <1>7 DEF v

LEMMA MedianOfMost ==
  ASSUME NEW w, IsWindow(w), Count(w) >= 3, NEW x \in DOMAIN w, NEW d \in Nat, \A j \in DOMAIN w \ {x} : w[j] = d
  PROVE  Median(w) = d
<1> DEFINE n == Count(w)
<1>1. n \in Nat
  BY Counted
<1>2. (n + 1) \div 2 \in 2 .. n - 1 /\ n \div 2 + 1 \in 2 .. n - 1
  <2> HIDE DEF n
  <2>1. n >= 3
    BY DEF n
  <2> QED
    BY <1>1, <2>1
<1>3. Sorted(w, (n + 1) \div 2) = d /\ Sorted(w, n \div 2 + 1) = d
  BY <1>2, MiddleOfMost
<1>4. Median(w) = (d + d) \div 2
  BY <1>3 DEF Median
<1> QED
  BY <1>4

\* The readings of a wall deviate by nothing, so that the limit is the least there is.
LEMMA LimitOfMost ==
  ASSUME NEW w, IsWindow(w), Count(w) >= 3, NEW x \in DOMAIN w, NEW d \in Nat,
         \A j \in DOMAIN w \ {x} : w[j] = d, NEW threshold
  PROVE  Limit(w, threshold) = threshold * (Metre \div 100)
<1> DEFINE dev == [k \in DOMAIN w |-> Distance(w[k], Median(w))]
<1>1. Median(w) = d
  BY MedianOfMost
<1>2. \A k \in DOMAIN w : w[k] \in Nat
  BY DEF IsWindow
<1>3. DOMAIN dev = DOMAIN w /\ \A k \in DOMAIN w : dev[k] = Distance(w[k], d)
  BY <1>1
<1>4. \A k \in DOMAIN w : dev[k] \in Nat
  BY <1>2, <1>3, DistanceIs
<1>5. dev = [k \in DOMAIN dev |-> dev[k]]
  OBVIOUS
<1> HIDE DEF dev
<1>6. IsWindow(dev) /\ Count(dev) >= 3
  <2>1. dev \in [DOMAIN dev -> Nat]
    BY <1>3, <1>4, <1>5
  <2> QED
    BY <1>3, <2>1 DEF IsWindow, Count
<1>7. \A k \in DOMAIN dev \ {x} : dev[k] = 0
  BY <1>3, DistanceIs
<1>8. Median(dev) = 0
  BY <1>3, <1>6, <1>7, MedianOfMost
<1>9. Limit(w, threshold) = threshold * (IF Median(dev) = 0 THEN Metre \div 100 ELSE Median(dev))
  BY DEF Limit, dev
<1> QED
  BY <1>8, <1>9

\* What is left of the wall once its spike is rejected, and what once its gap is filled.
Gap(scan, i, d) == \A j \in DOMAIN scan : scan[j] = IF j = i THEN NaN ELSE d
Filled(scan, d) == \A j \in DOMAIN scan : scan[j] = d

LEMMA SpikeRejected ==
  ASSUME NEW scan \in Seq(Reading), NEW i \in DOMAIN scan, NEW d \in Nat,
         \A j \in DOMAIN scan \ {i} : scan[j] = d,
         NEW k \in Int, NEW threshold,
         threshold * (Metre \div 100) \in Nat,
         Valid(scan[i]) => 2 * Distance(scan[i], d) > threshold * (Metre \div 100),
         Count(Window(scan, k, i)) >= 3
  PROVE  Gap(outlier_rejection_filter(scan, k, threshold), i, d)
<1> DEFINE least == threshold * (Metre \div 100)
<1>1. ASSUME NEW j \in DOMAIN scan, Count(Window(scan, k, j)) >= 3
      PROVE  Median(Window(scan, k, j)) = d /\ Limit(Window(scan, k, j), threshold) = least
  <2> DEFINE w == Window(scan, k, j)
  <2>1. w = Around(scan, Half(k), j)
    BY DEF Window
  <2>2. DOMAIN w # {}
    <3>1. IsFiniteSet(DOMAIN w) /\ Count(w) # 0
      BY <1>1, <2>1, AroundIs
    <3> QED
      BY <3>1, EmptyCount
  <2>3. /\ IsWindow(w) /\ \A m \in DOMAIN w : m \in DOMAIN scan /\ w[m] = scan[m]
    BY <2>1, <2>2, AroundIs
  <2>4. Count(w) >= 3
    BY <1>1
  <2> HIDE DEF w
  <2>5. PICK x \in DOMAIN w : i \in DOMAIN w => x = i
    BY <2>2
  <2>6. \A m \in DOMAIN w \ {x} : w[m] = d
    BY <2>3, <2>5
  <2>7. Median(w) = d /\ Limit(w, threshold) = least
    BY <2>3, <2>4, <2>6, MedianOfMost, LimitOfMost
  <2> QED
    BY <2>7 DEF w
<1>2. ASSUME NEW j \in DOMAIN scan, j # i PROVE ~Rejects(scan, k, threshold, j)
  <2>1. scan[j] = d /\ Distance(d, d) = 0
    BY <1>2, DistanceIs
  <2>2. ~(2 * 0 > least)
    OBVIOUS
  <2> HIDE DEF least
  <2> QED
    BY <1>1, <2>1, <2>2 DEF Rejects
<1>3. Valid(scan[i]) => Rejects(scan, k, threshold, i)
  BY <1>1 DEF Rejects
<1>4. \A j \in DOMAIN scan : outlier_rejection_filter(scan, k, threshold)[j]
                               = IF Rejects(scan, k, threshold, j) THEN NaN ELSE scan[j]
  BY DEF outlier_rejection_filter
<1>5. DOMAIN outlier_rejection_filter(scan, k, threshold) = DOMAIN scan
  BY DEF outlier_rejection_filter
<1> QED
  BY <1>2, <1>3, <1>4, <1>5 DEF Gap, Valid

LEMMA AllSame ==
  ASSUME NEW w, IsWindow(w), NEW d \in Nat, \A j \in DOMAIN w : w[j] = d
  PROVE  Median(w) = d /\ Mean(w) = d
<1>1. Median(w) \in Nat /\ d <= Median(w) /\ Median(w) <= d
  BY MedianBetween
<1>2. Mean(w) \in Nat /\ d <= Mean(w) /\ Mean(w) <= d
  BY MeanBetween
<1> QED
  BY <1>1, <1>2

\* Around each ray, that of the gap too, there are readings of the wall and no others.
LEMMA WindowOfGap ==
  ASSUME NEW scan \in Seq(Reading), NEW i \in DOMAIN scan, NEW d \in Nat, Gap(scan, i, d) \/ Filled(scan, d),
         Len(scan) >= 2, NEW reach \in Nat, reach >= 1, NEW j \in DOMAIN scan
  PROVE  LET w == Around(scan, reach, j)
         IN  IsWindow(w) /\ Count(w) # 0 /\ Median(w) = d /\ Mean(w) = d
<1> DEFINE w == Around(scan, reach, j)
<1>1. DOMAIN scan = 1 .. Len(scan) /\ Len(scan) \in Nat /\ Valid(d)
  BY ScanIs DEF Valid, NaN
<1>2. \E m \in DOMAIN scan : Distance(j, m) <= reach /\ scan[m] = d
  <2>1. CASE scan[j] = d
    <3>1. Distance(j, j) = 0
      BY <1>1, DistanceIs
    <3> QED
      BY <2>1, <3>1
  <2>2. CASE scan[j] # d
    <3>1. j = i /\ Gap(scan, i, d)
      BY <2>2 DEF Gap, Filled
    <3>2. CASE j < Len(scan)
      <4>1. j + 1 \in DOMAIN scan /\ j + 1 # i /\ Distance(j, j + 1) = 1
        BY <1>1, <3>1, <3>2 DEF Distance
      <4> QED
        BY <3>1, <4>1 DEF Gap
    <3>3. CASE ~(j < Len(scan))
      <4>1. j - 1 \in DOMAIN scan /\ j - 1 # i /\ Distance(j, j - 1) = 1
        BY <1>1, <3>1, <3>3 DEF Distance
      <4> QED
        BY <3>1, <4>1 DEF Gap
    <3> QED
      BY <3>2, <3>3
  <2> QED
    BY <2>1, <2>2
<1>3. /\ \A m : m \in DOMAIN w <=> m \in DOMAIN scan /\ Distance(j, m) <= reach /\ Valid(scan[m])
      /\ \A m \in DOMAIN w : w[m] = scan[m]
      /\ IsFiniteSet(DOMAIN w) /\ (DOMAIN w # {} => IsWindow(w))
  BY AroundIs
<1> HIDE DEF w
<1>4. DOMAIN w # {}
  BY <1>1, <1>2, <1>3
<1>5. \A m \in DOMAIN w : w[m] = d
  BY <1>3 DEF Gap, Filled, Valid
<1>6. IsWindow(w) /\ Count(w) # 0 /\ Median(w) = d /\ Mean(w) = d
  BY <1>3, <1>4, <1>5, AllSame, EmptyCount
<1> QED
  BY <1>6 DEF w

LEMMA MedianFills ==
  ASSUME NEW scan \in Seq(Reading), NEW i \in DOMAIN scan, NEW d \in Nat, Gap(scan, i, d) \/ Filled(scan, d),
         Len(scan) >= 2, NEW k \in Int
  PROVE  Filled(median_filter(scan, k), d)
<1>1. Half(k) \in Nat /\ Half(k) >= 1
  BY HalfIs
<1>2. DOMAIN median_filter(scan, k) = DOMAIN scan
  BY DEF median_filter
<1>3. ASSUME NEW j \in DOMAIN scan PROVE median_filter(scan, k)[j] = d
  <2> DEFINE w == Around(scan, Half(k), j)
  <2>1. Count(w) # 0 /\ Median(w) = d
    BY <1>1, WindowOfGap
  <2>2. median_filter(scan, k)[j] = IF Count(w) = 0 THEN scan[j] ELSE Median(w)
    BY DEF median_filter, Window
  <2> HIDE DEF w
  <2> QED
    BY <2>1, <2>2
<1> QED
  BY <1>2, <1>3 DEF Filled

LEMMA MeanFills ==
  ASSUME NEW scan \in Seq(Reading), NEW i \in DOMAIN scan, NEW d \in Nat, Gap(scan, i, d) \/ Filled(scan, d),
         Len(scan) >= 2, NEW k \in Int
  PROVE  Filled(moving_average_filter(scan, k), d)
<1>1. Half(k) \in Nat /\ Half(k) >= 1
  BY HalfIs
<1>2. DOMAIN moving_average_filter(scan, k) = DOMAIN scan
  BY DEF moving_average_filter
<1>3. ASSUME NEW j \in DOMAIN scan PROVE moving_average_filter(scan, k)[j] = d
  <2> DEFINE w == Around(scan, Half(k), j)
  <2>1. Count(w) # 0 /\ Mean(w) = d
    BY <1>1, WindowOfGap
  <2>2. moving_average_filter(scan, k)[j] = IF Count(w) = 0 THEN scan[j] ELSE Mean(w)
    BY DEF moving_average_filter, Window
  <2> HIDE DEF w
  <2> QED
    BY <2>1, <2>2
<1> QED
  BY <1>2, <1>3 DEF Filled

\* What is not cropped passes the last two stages unchanged.
LEMMA KeptPasses ==
  ASSUME NEW scan, NEW j \in DOMAIN scan, Keeps(j)
  PROVE  Downsample(Roi(scan))[j] = scan[j]
<1>1. Roi(scan)[j] = scan[j] /\ j \in DOMAIN Roi(scan)
  BY DEF Roi, Stage, roi_crop_filter, Keeps
<1> DEFINE cropped == Roi(scan)
<1> HIDE DEF cropped
<1>2. ASSUME j \in DOMAIN cropped PROVE Downsample(cropped)[j] = cropped[j]
  BY <1>2 DEF Downsample, Stage, downsample_filter, Keeps
<1> QED
  BY <1>1, <1>2 DEF cropped

LEMMA FirstRays == ASSUME NEW n \in Nat PROVE IsFiniteSet(1 .. n) /\ Cardinality(1 .. n) = n
<1>1. Cardinality(1 .. n) = IF 1 > n THEN 0 ELSE n - 1 + 1
  BY FS_Interval
<1>2. IsFiniteSet(1 .. n)
  BY FS_Interval
<1>3. (IF 1 > n THEN 0 ELSE n - 1 + 1) = n
  OBVIOUS
<1> QED
  BY <1>1, <1>2, <1>3

LEMMA TwoRays ==
  ASSUME NEW scan \in Seq(Reading), NEW k, NEW i, Count(Window(scan, k, i)) >= 3
  PROVE  Len(scan) >= 2
<1>1. DOMAIN scan = 1 .. Len(scan) /\ Len(scan) \in Nat
  BY ScanIs
<1>2. DOMAIN Window(scan, k, i) \in SUBSET (1 .. Len(scan))
  BY <1>1, AroundIs DEF Window
<1>3. IsFiniteSet(1 .. Len(scan)) /\ Cardinality(1 .. Len(scan)) = Len(scan)
  BY <1>1, FirstRays
<1>4. Count(Window(scan, k, i)) \in Nat /\ Count(Window(scan, k, i)) <= Len(scan)
  BY <1>2, <1>3, FS_Subset, FS_CardinalityType DEF Count
<1> QED
  BY <1>1, <1>4

\* A wall with one spike comes out of the chain as a wall.
LEMMA ChainSeesWall ==
  ASSUME Tuned, NEW scan \in Seq(Reading), NEW i \in DOMAIN scan, NEW d \in Nat,
         config["outlier.enabled"],
         \A j \in DOMAIN scan \ {i} : Clamp(scan)[j] = d,
         config["outlier.threshold"] * (Metre \div 100) \in Nat,
         Valid(Clamp(scan)[i]) => 2 * Distance(Clamp(scan)[i], d) > config["outlier.threshold"] * (Metre \div 100),
         Count(Window(Clamp(scan), config["outlier.kernel_size"], i)) >= 3,
         NEW j \in DOMAIN scan, Keeps(j)
  PROVE  apply_filters(scan)[j] \in
           {d} \cup (IF j = i /\ ~config["median.enabled"] /\ ~config["smoothing.enabled"] THEN {NaN} ELSE {})
<1> DEFINE s1 == Clamp(scan)
           s2 == Outlier(s1)
           s3 == MedianStage(s2)
           s4 == Smoothing(s3)
<1>1. s1 \in Seq(Reading) /\ DOMAIN s1 = DOMAIN scan
  BY ClampReads DEF Carried
<1>2. s2 \in Seq(Reading) /\ DOMAIN s2 = DOMAIN scan
  <2> HIDE DEF s1
  <2> QED
    BY <1>1, OutlierCarries DEF Carried
<1>3. Gap(s2, i, d)
  <2>1. config["outlier.kernel_size"] \in Int
    BY DEF Tuned, Tuning
  <2>2. Gap(outlier_rejection_filter(s1, config["outlier.kernel_size"], config["outlier.threshold"]), i, d)
    <3> HIDE DEF s1
    <3>1. /\ \A m \in DOMAIN s1 \ {i} : s1[m] = d
          /\ Valid(s1[i]) => 2 * Distance(s1[i], d) > config["outlier.threshold"] * (Metre \div 100)
          /\ Count(Window(s1, config["outlier.kernel_size"], i)) >= 3
          /\ i \in DOMAIN s1
      BY <1>1 DEF s1
    <3> QED
      BY <1>1, <2>1, <3>1, SpikeRejected
  <2> HIDE DEF s1
  <2> QED
    BY <2>2 DEF Outlier, Stage
<1>4. Len(s2) >= 2
  <2>1. Len(s1) >= 2
    <3> HIDE DEF s1
    <3>1. Count(Window(s1, config["outlier.kernel_size"], i)) >= 3
      BY DEF s1
    <3> QED
      BY <1>1, <3>1, TwoRays
  <2>2. DOMAIN s1 = 1 .. Len(s1) /\ Len(s1) \in Nat /\ DOMAIN s2 = 1 .. Len(s2) /\ Len(s2) \in Nat
    <3> HIDE DEF s1, s2
    <3> QED
      BY <1>1, <1>2, ScanIs
  <2>3. Len(s2) = Len(s1)
    <3> HIDE DEF s1, s2
    <3> QED
      BY <1>1, <1>2, <2>2
  <2> QED
    BY <2>1, <2>3
<1> HIDE DEF s1, s2
<1>5. /\ s3 \in Seq(Reading) /\ DOMAIN s3 = DOMAIN scan
      /\ IF config["median.enabled"] THEN Filled(s3, d) ELSE Gap(s3, i, d)
  <2>1. CASE config["median.enabled"]
    <3>1. config["median.kernel_size"] \in Int
      BY DEF Tuned, Tuning
    <3>2. s3 = median_filter(s2, config["median.kernel_size"])
      BY <2>1 DEF MedianStage, Stage
    <3> QED
      BY <1>2, <1>3, <1>4, <2>1, <3>1, <3>2, MedianCarries, MedianFills DEF Carried
  <2>2. CASE ~config["median.enabled"]
    BY <1>2, <1>3, <2>2 DEF MedianStage, Stage
  <2> QED
    BY <2>1, <2>2
<1> HIDE DEF s3
<1>6. /\ DOMAIN s4 = DOMAIN scan
      /\ IF config["median.enabled"] \/ config["smoothing.enabled"] THEN Filled(s4, d) ELSE Gap(s4, i, d)
  <2>1. CASE config["smoothing.enabled"]
    <3>1. config["smoothing.kernel_size"] \in Int
      BY DEF Tuned, Tuning
    <3>2. s4 = moving_average_filter(s3, config["smoothing.kernel_size"])
      BY <2>1 DEF Smoothing, Stage
    <3>3. Len(s3) >= 2
      <4>1. Len(s3) = Len(s2)
        BY <1>2, <1>5
      <4> QED
        BY <1>4, <4>1
    <3> QED
      BY <1>5, <2>1, <3>1, <3>2, <3>3, MeanCarries, MeanFills DEF Carried
  <2>2. CASE ~config["smoothing.enabled"]
    BY <1>5, <2>2 DEF Smoothing, Stage
  <2> QED
    BY <2>1, <2>2
<1> HIDE DEF s4
<1>7. apply_filters(scan) = Downsample(Roi(s4))
  BY DEF apply_filters, s1, s2, s3, s4
<1>8. apply_filters(scan)[j] = s4[j]
  BY <1>6, <1>7, KeptPasses
<1> QED
  BY <1>6, <1>8 DEF Filled, Gap

-----------------------------------------------------------------------------
(***************************************************************************)
(* The node.                                                               *)
(***************************************************************************)

LEMMA Starts == ASSUME ProcessorInit PROVE ChainInv
<1>1. Tuning \subseteq Declared
  BY DEF Tuning, Declared
<1>2. TunedInv
  BY <1>1, ProcessorAssumption DEF ProcessorInit, TunedInv, Tuned
<1>3. OutInv
  BY DEF ProcessorInit, OutInv
<1> QED
  BY <1>2, <1>3 DEF ChainInv

LEMMA TuningStep ==
  ASSUME ChainInv, SetParameter \/ \E data \in BOOLEAN : enable_filters(data)
  PROVE  ChainInv'
<1>1. OutInv'
  BY DEF SetParameter, enable_filters, OutInv
<1>2. CASE SetParameter
  <2> PICK name \in DOMAIN Values : \E value \in Values[name] :
             /\ parameters' = [parameters EXCEPT ![name] = value]
             /\ config' = [config EXCEPT ![name] = value]
    BY <1>2 DEF SetParameter, on_parameter_change
  <2> PICK value \in Values[name] :
             /\ parameters' = [parameters EXCEPT ![name] = value]
             /\ config' = [config EXCEPT ![name] = value]
    OBVIOUS
  <2>1. name \in Declared /\ (name \in Tuning => value \in Int)
    BY ProcessorAssumption
  <2>2. TunedInv'
    BY <2>1 DEF ChainInv, TunedInv, Tuned
  <2> QED
    BY <1>1, <2>2 DEF ChainInv
<1>3. CASE \E data \in BOOLEAN : enable_filters(data)
  <2>1. "filters_enabled" \notin Tuning
    BY DEF Tuning
  <2>2. TunedInv'
    BY <1>3, <2>1 DEF enable_filters, ChainInv, TunedInv, Tuned
  <2> QED
    BY <1>1, <2>2 DEF ChainInv
<1> QED
  BY <1>2, <1>3

\* The filters are those of the config.
LEMMA SameFilters == ASSUME UNCHANGED config PROVE \A scan : apply_filters(scan)' = apply_filters(scan)
<1>1. \A scan : Clamp(scan)' = Clamp(scan)
  BY DEF Clamp, Stage
<1>2. \A scan : Outlier(scan)' = Outlier(scan)
  BY DEF Outlier, Stage
<1>3. \A scan : MedianStage(scan)' = MedianStage(scan)
  BY DEF MedianStage, Stage
<1>4. \A scan : Smoothing(scan)' = Smoothing(scan)
  BY DEF Smoothing, Stage
<1>5. \A scan : Roi(scan)' = Roi(scan)
  BY DEF Roi, Stage
<1>6. \A scan : Downsample(scan)' = Downsample(scan)
  BY DEF Downsample, Stage
<1> QED
  BY <1>1, <1>2, <1>3, <1>4, <1>5, <1>6 DEF apply_filters

LEMMA ScanStep == ASSUME ChainInv, NEW scan \in RawScans, scan_callback(scan) PROVE ChainInv'
<1>1. UNCHANGED <<parameters, config>>
  BY DEF scan_callback
<1>2. TunedInv'
  BY <1>1 DEF ChainInv, TunedInv, Tuned
<1>3. out'.raw = scan /\ (config["filters_enabled"] => out'.ranges = apply_filters(scan))
  BY DEF scan_callback
<1>4. scan \in Seq(Reading)
  BY ProcessorAssumption DEF Reading
<1>5. apply_filters(out.raw)' = apply_filters(scan)
  BY <1>1, <1>3, SameFilters
<1>6. OutInv'
  BY <1>1, <1>3, <1>4, <1>5 DEF OutInv
<1> QED
  BY <1>2, <1>6 DEF ChainInv

LEMMA ChainStep == ASSUME ChainInv, [ProcessorNext]_processor_vars PROVE ChainInv'
<1>1. CASE UNCHANGED processor_vars
  <2>1. UNCHANGED <<parameters, config, out>>
    BY <1>1 DEF processor_vars
  <2>2. apply_filters(out.raw)' = apply_filters(out.raw)
    BY <2>1, SameFilters
  <2> QED
    BY <2>1, <2>2 DEF ChainInv, TunedInv, Tuned, OutInv, Nothing
<1>2. CASE SetParameter \/ \E data \in BOOLEAN : enable_filters(data)
  BY <1>2, TuningStep
<1>3. CASE \E scan \in RawScans : scan_callback(scan)
  BY <1>3, ScanStep
<1> QED
  BY <1>1, <1>2, <1>3 DEF ProcessorNext

\* What a filtered scan was made of, in the terms of the properties.
LEMMA PublishedIs ==
  ASSUME ChainInv, Filtered
  PROVE  out.raw \in Seq(Reading) /\ out.ranges = apply_filters(out.raw)
BY DEF ChainInv, OutInv, Filtered

LEMMA KeepsIs == ASSUME ChainInv, NEW i PROVE Wanted(i) <=> Keeps(i)
<1>1. \A name \in {"roi.enabled", "roi.angle_min_deg", "roi.angle_max_deg", "downsample.enabled", "downsample.factor"} :
        config[name] = parameters[name]
  BY DEF ChainInv, TunedInv, Declared
<1> QED
  BY <1>1 DEF Wanted, InRoi, Keeps

LEMMA ReachIs ==
  ASSUME ChainInv
  PROVE  /\ Reach = MedianReach + MeanReach
         /\ Reach = 0 <=> ~config["median.enabled"] /\ ~config["smoothing.enabled"]
<1>1. \A name \in {"median.enabled", "median.kernel_size", "smoothing.enabled", "smoothing.kernel_size"} :
        config[name] = parameters[name]
  BY DEF ChainInv, TunedInv, Declared
<1>2. Reach = MedianReach + MeanReach
  BY <1>1 DEF Reach, MedianReach, MeanReach
<1>3. config["median.kernel_size"] \in Int /\ config["smoothing.kernel_size"] \in Int
  BY DEF ChainInv, TunedInv, Tuned, Tuning
<1>4. MedianReach \in Nat /\ (MedianReach = 0 <=> ~config["median.enabled"])
  BY <1>3, HalfIs DEF MedianReach
<1>5. MeanReach \in Nat /\ (MeanReach = 0 <=> ~config["smoothing.enabled"])
  BY <1>3, HalfIs DEF MeanReach
<1>6. MedianReach + MeanReach = 0 <=> MedianReach = 0 /\ MeanReach = 0
  BY <1>4, <1>5
<1> QED
  BY <1>2, <1>4, <1>5, <1>6

LEMMA BlankByParameters == ASSUME ChainInv PROVE OutsideIsBlank
<1> SUFFICES ASSUME Filtered, NEW i \in Rays, ~Wanted(i) PROVE Published(i) = NaN
  BY DEF OutsideIsBlank, Valid
<1>1. ~Keeps(i)
  BY KeepsIs
<1> QED
  BY <1>1, PublishedIs, ChainBlanks DEF Published, Rays

LEMMA CarriedIsNear == ASSUME ChainInv PROVE NothingInvented
<1> SUFFICES ASSUME Filtered, NEW i \in Rays, Valid(Published(i))
             PROVE  \E low, high \in Range(Around(Clamp(out.raw), Reach, i)) : Published(i) \in low .. high
  BY DEF NothingInvented
<1> DEFINE from == Clamp(out.raw)
           near == Around(from, Reach, i)
<1>1. /\ Carried(from, out.ranges, Reach)
      /\ from \in Seq(Reading) /\ DOMAIN from = DOMAIN out.raw
  <2>1. Tuned
    BY DEF ChainInv, TunedInv
  <2> QED
    BY <2>1, PublishedIs, ReachIs, ChainCarries
<1> HIDE DEF from
<1>2. PICK a, b \in DOMAIN from :
        /\ Distance(i, a) <= Reach /\ Distance(i, b) <= Reach
        /\ Valid(from[a]) /\ Valid(from[b])
        /\ from[a] <= out.ranges[i] /\ out.ranges[i] <= from[b]
  BY <1>1 DEF Carried, Rays, Published
<1>3. a \in DOMAIN near /\ b \in DOMAIN near /\ near[a] = from[a] /\ near[b] = from[b]
  BY <1>1, <1>2, AroundIs
<1>4. from[a] \in Range(near) /\ from[b] \in Range(near)
  <2> HIDE DEF near
  <2> QED
    BY <1>3 DEF Range
<1>5. out.ranges[i] \in from[a] .. from[b]
  <2>1. from[a] \in Int /\ from[b] \in Int
    BY <1>1, ScanIs
  <2>2. out.ranges[i] \in Int
    <3>1. out.ranges \in Seq(Reading) /\ i \in DOMAIN out.ranges
      BY <1>1 DEF Carried, Rays
    <3> QED
      BY <3>1, ScanIs
  <2> QED
    BY <1>2, <2>1, <2>2
<1> QED
  BY <1>4, <1>5 DEF Published, from, near

LEMMA WallByParameters == ASSUME ChainInv PROVE WallSeen
<1> DEFINE least == config["outlier.threshold"] * (Metre \div 100)
<1> SUFFICES ASSUME Filtered, parameters["outlier.enabled"],
                    NEW i \in Rays, NEW d \in ToSet(out.raw) \ {NaN},
                    Wall(i, d), Spike(i, d), NEW j \in Rays, Wanted(j)
             PROVE  Published(j) \in {d} \cup (IF j = i /\ Reach = 0 THEN {NaN} ELSE {})
  BY DEF WallSeen, Seen
<1>1. \A name \in {"outlier.enabled", "outlier.kernel_size", "outlier.threshold"} : config[name] = parameters[name]
  BY DEF ChainInv, TunedInv, Declared
<1>2. d \in Nat
  <2>1. PICK k \in DOMAIN out.raw : d = out.raw[k]
    BY DEF ToSet
  <2>2. out.raw[k] \in Reading
    BY PublishedIs
  <2> QED
    BY <2>1, <2>2 DEF Reading
<1>3. least \in Nat
  <2>1. least >= 0
    BY <1>1 DEF Spike
  <2>2. config["outlier.threshold"] \in Int
    BY DEF ChainInv, TunedInv, Tuned, Tuning
  <2> QED
    BY <2>1, <2>2 DEF Metre
<1>4. /\ Valid(Clamp(out.raw)[i]) => 2 * Distance(Clamp(out.raw)[i], d) > least
      /\ Count(Window(Clamp(out.raw), config["outlier.kernel_size"], i)) >= 3
  BY <1>1 DEF Spike
<1>5. \A k \in DOMAIN out.raw \ {i} : Clamp(out.raw)[k] = d
  BY DEF Wall, Rays
<1>6. Keeps(j) /\ Tuned /\ config["outlier.enabled"]
  BY <1>1, KeepsIs DEF ChainInv, TunedInv
<1>7. i \in DOMAIN out.raw /\ j \in DOMAIN out.raw /\ out.raw \in Seq(Reading)
  BY PublishedIs DEF Rays
<1>8. apply_filters(out.raw)[j] \in
        {d} \cup (IF j = i /\ ~config["median.enabled"] /\ ~config["smoothing.enabled"] THEN {NaN} ELSE {})
  BY <1>2, <1>3, <1>4, <1>5, <1>6, <1>7, ChainSeesWall
<1> QED
  BY <1>8, PublishedIs, ReachIs DEF Published

\* A ray out of the region of interest or passed over by the downsampling is published as
\* NaN, whatever the scan, its geometry, the other stages and the order in which parameters
\* and switch were set (_apply_filters in processor_node.py).
THEOREM OutsideStaysBlank == ProcessorSpec => []OutsideIsBlank
BY Starts, ChainStep, BlankByParameters, PTL DEF ProcessorSpec

\* Whatever the scan and the kernels, the median, the mean and the rejection (filters.py)
\* publish nothing that does not lie between two readings measured near its ray.
THEOREM NothingIsInvented == ProcessorSpec => []NothingInvented
BY Starts, ChainStep, CarriedIsNear, PTL DEF ProcessorSpec

\* A wall with one spike in it that the rejection can tell is published as a wall, in a scan
\* of any length, at any distance, with any kernels (outlier_rejection_filter in filters.py).
THEOREM WallIsSeen == ProcessorSpec => []WallSeen
BY Starts, ChainStep, WallByParameters, PTL DEF ProcessorSpec
=============================================================================
