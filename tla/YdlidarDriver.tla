---------------------------- MODULE YdlidarDriver ----------------------------
(***************************************************************************)
(* The LIDAR driver node (ydlidar_node.cpp) with its SDK adapter and       *)
(* health window.  One executor thread runs the scan and the diagnostics   *)
(* timer; a scan callback that has failed too often reconnects before it   *)
(* returns, through retry loops that sleep, so nothing else runs then.     *)
(* What the SDK answers is the environment's choice.                       *)
(***************************************************************************)
EXTENDS Integers, Sequences, SequencesExt

CONSTANTS
  WindowSize,          \* health_window_size
  FailureLimit,        \* health_consecutive_failure_limit
  ReconnectThreshold,  \* health_reconnect_threshold
  MaxRetries,          \* init_max_retries
  FreqWarn, FreqError,         \* health_freq_*_ratio, in percent
  InvalidWarn, InvalidError,   \* health_invalid_*_ratio, in percent
  Scans                \* what scans measure: [freq (percent of the expected), points, invalid]

ASSUME ParameterAssumption ==
  /\ {WindowSize, FailureLimit, ReconnectThreshold, MaxRetries} \subseteq Nat \ {0}
  /\ \A s \in Scans : s.invalid \in 0 .. s.points

VARIABLES
  initialized,            \* SdkAdapter::initialized_
  scanning,               \* SdkAdapter::scanning_
  pc,                     \* where the thread is, see Place
  attempt,                \* the retry loop's counter
  history,                \* HealthMonitor::history_
  consecutive_failures,   \* consecutive_failures_
  diag                    \* the level published last on /diagnostics, or "none"

vars == <<initialized, scanning, pc, attempt, history, consecutive_failures, diag>>

adapter_vars == <<initialized, scanning>>
health_vars  == <<history, consecutive_failures, diag>>

\* "boot_init", "boot_start": initialize_and_start in the constructor; "init", "start":
\* attempt_reconnect; "spin": between callbacks; "gone": the node has shut down.
Place == {"boot_init", "boot_start", "spin", "init", "start", "gone"}

FailureCap == ReconnectThreshold + FailureLimit   \* consecutive_failures is counted up to it

----------------------------------------------------------------------------
(***************************************************************************)
(* HealthMonitor                                                           *)
(***************************************************************************)

Recorded(record) ==
  LET longer == Append(history, record)
  IN  IF Len(longer) > WindowSize THEN Tail(longer) ELSE longer

Failure == [success |-> FALSE, freq |-> 0, points |-> 0, invalid |-> 0]
Success(s) == [success |-> TRUE, freq |-> s.freq, points |-> s.points, invalid |-> s.invalid]
Record == {Failure} \cup {Success(s) : s \in Scans}

RecordFailure ==
  /\ history' = Recorded(Failure)
  /\ consecutive_failures' = IF consecutive_failures < FailureCap
                             THEN consecutive_failures + 1 ELSE FailureCap

RecordScan(s) ==
  /\ history' = Recorded(Success(s))
  /\ consecutive_failures' = 0

\* get_health: the first check that fails decides.
Health ==
  LET good    == SelectSeq(history, LAMBDA r : r.success)
      freq    == FoldSeq(LAMBDA r, sum : r.freq + sum, 0, good)
      points  == FoldSeq(LAMBDA r, sum : r.points + sum, 0, good)
      invalid == FoldSeq(LAMBDA r, sum : r.invalid + sum, 0, good)
      below(percent) == good # <<>> /\ freq < percent * Len(good)
      above(percent) == points > 0 /\ 100 * invalid > percent * points
  IN
  IF history = <<>> THEN "STALE"
  ELSE IF consecutive_failures >= FailureLimit THEN "ERROR"
  ELSE IF below(FreqError) THEN "ERROR"
  ELSE IF below(FreqWarn) THEN "WARN"
  ELSE IF above(InvalidError) THEN "ERROR"
  ELSE IF above(InvalidWarn) THEN "WARN"
  ELSE "OK"

----------------------------------------------------------------------------
(***************************************************************************)
(* SdkAdapter's retry loops, entered with attempt = 1.                     *)
(***************************************************************************)

\* laser_->initialize() answers; the constructor and attempt_reconnect share the loop.
InitAttempt(ok) ==
  /\ pc \in {"boot_init", "init"}
  /\ \/ /\ ok
        /\ initialized' = TRUE
        /\ pc' = IF pc = "boot_init" THEN "boot_start" ELSE "start"
        /\ attempt' = 1
     \/ /\ ~ok /\ attempt < MaxRetries
        /\ attempt' = attempt + 1
        /\ UNCHANGED <<initialized, pc>>
     \/ /\ ~ok /\ attempt = MaxRetries
        /\ pc' = IF pc = "boot_init" THEN "gone" ELSE "spin"
        /\ UNCHANGED <<initialized, attempt>>
  /\ UNCHANGED <<scanning, health_vars>>

\* laser_->turnOn() answers.
StartAttempt(ok) ==
  /\ pc \in {"boot_start", "start"}
  /\ \/ /\ ok
        /\ scanning' = TRUE
        /\ pc' = "spin"
        /\ UNCHANGED attempt
     \/ /\ ~ok /\ attempt < MaxRetries
        /\ attempt' = attempt + 1
        /\ UNCHANGED <<scanning, pc>>
     \/ /\ ~ok /\ attempt = MaxRetries
        /\ pc' = IF pc = "boot_start" THEN "gone" ELSE "spin"
        /\ UNCHANGED <<scanning, attempt>>
  /\ UNCHANGED <<initialized, health_vars>>

----------------------------------------------------------------------------
(***************************************************************************)
(* The node's timers.                                                      *)
(***************************************************************************)

\* Mutant: the adapter is not disconnected before it is initialized again.
ReadFailsKeepsConnection ==
  /\ pc = "spin"
  /\ RecordFailure
  /\ \/ /\ consecutive_failures' < ReconnectThreshold
        /\ UNCHANGED <<adapter_vars, pc, attempt>>
     \/ /\ consecutive_failures' >= ReconnectThreshold
        /\ scanning' = FALSE /\ UNCHANGED initialized
        /\ pc' = "init" /\ attempt' = 1
  /\ UNCHANGED diag

\* Mutant: a reconnect starts the count of failures afresh.
ReadFailsForgets ==
  /\ pc = "spin"
  /\ history' = Recorded(Failure)
  /\ \/ /\ consecutive_failures + 1 < ReconnectThreshold
        /\ consecutive_failures' = consecutive_failures + 1
        /\ UNCHANGED <<adapter_vars, pc, attempt>>
     \/ /\ consecutive_failures + 1 >= ReconnectThreshold
        /\ consecutive_failures' = 0
        /\ scanning' = FALSE /\ initialized' = FALSE
        /\ pc' = "init" /\ attempt' = 1
  /\ UNCHANGED diag

\* Mutant: a read while not scanning returns before it is counted.
ReadFailsWhenScanning ==
  /\ pc = "spin" /\ scanning
  /\ RecordFailure
  /\ \/ /\ consecutive_failures' < ReconnectThreshold
        /\ UNCHANGED <<adapter_vars, pc, attempt>>
     \/ /\ consecutive_failures' >= ReconnectThreshold
        /\ scanning' = FALSE /\ initialized' = FALSE
        /\ pc' = "init" /\ attempt' = 1
  /\ UNCHANGED diag

\* scan_callback, read_scan fails: always when the adapter is not scanning.  From the
\* threshold on, the callback goes into attempt_reconnect.
ReadFails ==
  /\ pc = "spin"
  /\ RecordFailure
  /\ \/ /\ consecutive_failures' < ReconnectThreshold
        /\ UNCHANGED <<adapter_vars, pc, attempt>>
     \/ /\ consecutive_failures' >= ReconnectThreshold
        /\ scanning' = FALSE /\ initialized' = FALSE
        /\ pc' = "init" /\ attempt' = 1
  /\ UNCHANGED diag

\* A scan without a usable geometry is a failure that asks for no reconnect.
BadGeometry ==
  /\ pc = "spin" /\ scanning
  /\ RecordFailure
  /\ UNCHANGED <<adapter_vars, pc, attempt, diag>>

Scan(s) ==
  /\ pc = "spin" /\ scanning
  /\ RecordScan(s)
  /\ UNCHANGED <<adapter_vars, pc, attempt, diag>>

DiagnosticsCallback ==
  /\ pc = "spin"
  /\ diag' = Health
  /\ UNCHANGED <<adapter_vars, pc, attempt, history, consecutive_failures>>

\* The process is told to end between two callbacks; the destructor stops the scan.
Terminate ==
  /\ pc = "spin"
  /\ pc' = "gone"
  /\ scanning' = FALSE /\ initialized' = FALSE
  /\ UNCHANGED <<attempt, health_vars>>

----------------------------------------------------------------------------
Init ==
  /\ initialized = FALSE /\ scanning = FALSE
  /\ pc = "boot_init" /\ attempt = 1
  /\ history = <<>> /\ consecutive_failures = 0
  /\ diag = "none"

ScanCallback == ReadFails \/ BadGeometry \/ \E s \in Scans : Scan(s)
SdkAnswers   == \E ok \in BOOLEAN : InitAttempt(ok) \/ StartAttempt(ok)

Next == SdkAnswers \/ ScanCallback \/ DiagnosticsCallback \/ Terminate

Spec == Init /\ [][Next]_vars

\* The thread goes on, and a round of the executor runs every timer that is due: a
\* callback cannot be kept from running by the other.
Fairness == WF_vars(SdkAnswers) /\ SF_vars(ScanCallback) /\ SF_vars(DiagnosticsCallback)

FairSpec == Spec /\ Fairness

----------------------------------------------------------------------------
(***************************************************************************)
(* Properties.                                                             *)
(***************************************************************************)

\* Every variable has its type.
TypeOK ==
  /\ initialized \in BOOLEAN /\ scanning \in BOOLEAN
  /\ pc \in Place /\ attempt \in 1 .. MaxRetries
  /\ history \in Seq(Record) /\ Len(history) <= WindowSize
  /\ consecutive_failures \in 0 .. FailureCap
  /\ diag \in {"none", "OK", "WARN", "ERROR", "STALE"}

\* turnOn() and scans need a connected SDK, and no connection is opened over one that
\* is still open, on whatever path the thread comes to it.  The checks at the head of
\* initialize and start_scan (sdk_adapter.cpp:144, 207, 212) never have anything to do, then;
\* the model is without them, as they would hide what this property looks for.
AdapterDiscipline ==
  /\ scanning => initialized
  /\ pc \in {"boot_init", "init"} => ~initialized
  /\ pc \in {"boot_start", "start"} => initialized /\ ~scanning

\* A node that spins without a scan is on its way to a reconnect: its next failed read
\* goes there, so no failed reconnect leaves it stranded.
NeverStranded ==
  pc = "spin" /\ ~scanning => consecutive_failures >= ReconnectThreshold

DeviceFails == \/ \E ok \in {FALSE} : InitAttempt(ok) \/ StartAttempt(ok)
               \/ scanning /\ (ReadFails \/ BadGeometry)

\* When the device works from some point on, the driver scans from some point on,
\* unless the node has ended; nobody has to restart it.
RecoversByItself == <>[][~DeviceFails]_vars => <>[](scanning \/ pc = "gone")

\* When the device never delivers a scan again, /diagnostics says ERROR for ever,
\* through all the reconnects, unless the node has ended.
DeadDeviceReported ==
  <>[][~(\E s \in Scans : Scan(s))]_vars => <>[](diag = "ERROR" \/ pc = "gone")
=============================================================================
