------------------------ MODULE Observability_proofs ------------------------
(***************************************************************************)
(* Proofs about the observability nodes for every length of a day, every   *)
(* retention, every size of the buffers and of the queue, and every text   *)
(* and message, whatever the clock and the disk do.                        *)
(***************************************************************************)
EXTENDS Observability, TLAPS

LEMMA Parameters ==
  /\ TicksPerDay \in Nat /\ TicksPerDay > 0
  /\ RetentionDays \in Nat /\ BufferLines \in Nat /\ BufferLines > 0
  /\ BufferMax \in Nat /\ BufferMax > 0
  /\ RosoutDepth \in Nat /\ RosoutDepth > 0
BY FilesAssumption, JournalAssumption, BridgeAssumption

LEMMA DayType == ASSUME NEW t \in Nat PROVE Day(t) \in Nat
BY Parameters DEF Day

LEMMA DayGrows ==
  ASSUME NEW t \in Nat, NEW u \in Nat, t <= u
  PROVE  Day(t) <= Day(u)
BY Parameters DEF Day

LEMMA FirstDay == ASSUME NEW t \in Nat, TicksPerDay <= t PROVE Day(t) >= 1
BY Parameters DEF Day


-----------------------------------------------------------------------------
(***************************************************************************)
(* The store of a node.                                                    *)
(***************************************************************************)

Store(Line) ==
  [files : UNION {[days -> Seq(Line)] : days \in SUBSET Nat}, date : Nat, waiting : Seq(Line),
   up : BOOLEAN, taken : SUBSET Line]

\* Where a line that was taken is: in the file of its day, or waiting for it.
There(store, line) ==
  \/ line \in Range(store.files[Day(line.at)])
  \/ Day(line.at) = store.date /\ line \in Range(store.waiting)

\* What waits is of the day of the open file, which is removed only when it is old.
StoreInv(store) ==
  /\ store.date <= Today
  /\ store.date = NoDate => store.waiting = <<>>
  /\ \A line \in Range(store.waiting) : Day(line.at) = store.date
  /\ store.date # NoDate /\ Today - store.date <= RetentionDays => store.date \in DOMAIN store.files
  /\ \A line \in store.taken :
       Today - Day(line.at) <= RetentionDays => Day(line.at) \in DOMAIN store.files /\ There(store, line)

ClockInv == now \in Nat /\ TicksPerDay <= now

LEMMA TodayType == ASSUME ClockInv PROVE Today \in Nat /\ Today >= 1
BY DayType, FirstDay DEF ClockInv, Today

LEMMA RangeConcat ==
  ASSUME NEW S, NEW s \in Seq(S), NEW t \in Seq(S)
  PROVE  Range(s \o t) = Range(s) \cup Range(t)
<1>1. ASSUME NEW x \in Range(s \o t) PROVE x \in Range(s) \cup Range(t)
  BY DEF Range
<1>2. ASSUME NEW i \in DOMAIN s PROVE s[i] \in Range(s \o t)
  BY DEF Range
<1>3. ASSUME NEW i \in DOMAIN t PROVE t[i] \in Range(s \o t)
  <2>1. Len(s) + i \in DOMAIN (s \o t) /\ (s \o t)[Len(s) + i] = t[i]
    OBVIOUS
  <2> QED
    BY <2>1 DEF Range
<1> QED
  BY <1>1, <1>2, <1>3 DEF Range

LEMMA RangeAppend ==
  ASSUME NEW S, NEW s \in Seq(S), NEW x \in S
  PROVE  Range(Append(s, x)) = Range(s) \cup {x}
<1>1. ASSUME NEW y \in Range(Append(s, x)) PROVE y \in Range(s) \cup {x}
  BY <1>1 DEF Range
<1>2. ASSUME NEW i \in DOMAIN s PROVE s[i] \in Range(Append(s, x))
  BY DEF Range
<1>3. x \in Range(Append(s, x))
  <2>1. Len(s) + 1 \in DOMAIN Append(s, x) /\ Append(s, x)[Len(s) + 1] = x
    OBVIOUS
  <2> QED
    BY <2>1 DEF Range
<1> QED
  BY <1>1, <1>2, <1>3 DEF Range

\* What the fields of a store are.
LEMMA StoreFields ==
  ASSUME NEW Line, NEW store \in Store(Line)
  PROVE  /\ DOMAIN store.files \subseteq Nat /\ store.files \in [DOMAIN store.files -> Seq(Line)]
         /\ store.date \in Nat /\ store.waiting \in Seq(Line) /\ store.up \in BOOLEAN
         /\ store.taken \subseteq Line
BY DEF Store

LEMMA FilesType ==
  ASSUME NEW Line, NEW days \in SUBSET Nat, NEW files \in [days -> Seq(Line)]
  PROVE  files \in UNION {[ds -> Seq(Line)] : ds \in SUBSET Nat}
OBVIOUS

LEMMA FlushedFields ==
  ASSUME NEW Line, NEW store \in Store(Line)
  PROVE  /\ Flushed(store) \in Store(Line)
         /\ Flushed(store).date = store.date /\ Flushed(store).waiting = <<>>
         /\ Flushed(store).up = store.up /\ Flushed(store).taken = store.taken
         /\ DOMAIN Flushed(store).files = DOMAIN store.files
         /\ \A day \in DOMAIN store.files :
              Range(Flushed(store).files[day])
                = Range(store.files[day]) \cup (IF day = store.date THEN Range(store.waiting) ELSE {})
<1> DEFINE new == IF store.date \in DOMAIN store.files
                  THEN [store.files EXCEPT ![store.date] = @ \o store.waiting] ELSE store.files
<1>1. /\ store.files \in [DOMAIN store.files -> Seq(Line)] /\ DOMAIN store.files \subseteq Nat
      /\ store.waiting \in Seq(Line)
  BY StoreFields
<1>2. /\ new \in [DOMAIN store.files -> Seq(Line)]
      /\ \A day \in DOMAIN store.files :
           new[day] = IF day = store.date THEN store.files[day] \o store.waiting ELSE store.files[day]
  BY <1>1
<1>3. \A day \in DOMAIN store.files :
        Range(new[day]) = Range(store.files[day]) \cup (IF day = store.date THEN Range(store.waiting) ELSE {})
  BY <1>1, <1>2, RangeConcat
<1>4. Flushed(store) = [store EXCEPT !.files = new, !.waiting = <<>>]
  BY DEF Flushed
<1> HIDE DEF new
<1>5. new \in UNION {[ds -> Seq(Line)] : ds \in SUBSET Nat}
  BY <1>1, <1>2, FilesType
<1>6. Flushed(store).files = new
  BY <1>4 DEF Store
<1>7. /\ Flushed(store).date = store.date /\ Flushed(store).waiting = <<>>
      /\ Flushed(store).up = store.up /\ Flushed(store).taken = store.taken
  BY <1>4 DEF Store
<1>8. Flushed(store) \in Store(Line)
  <2>1. <<>> \in Seq(Line)
    OBVIOUS
  <2> QED
    BY <1>4, <1>5, <2>1 DEF Store
<1> QED
  BY <1>2, <1>3, <1>6, <1>7, <1>8

LEMMA OpenedFields ==
  ASSUME NEW Line, NEW store \in Store(Line), NEW date \in Nat
  PROVE  /\ Opened(store, date) \in Store(Line)
         /\ Opened(store, date).date = date /\ Opened(store, date).waiting = store.waiting
         /\ Opened(store, date).up = store.up /\ Opened(store, date).taken = store.taken
         /\ DOMAIN Opened(store, date).files = DOMAIN store.files \cup {date}
         /\ \A day \in DOMAIN store.files : Opened(store, date).files[day] = store.files[day]
<1> DEFINE new == [day \in DOMAIN store.files \cup {date} |->
                     IF day \in DOMAIN store.files THEN store.files[day] ELSE <<>>]
<1>1. store.files \in [DOMAIN store.files -> Seq(Line)] /\ DOMAIN store.files \subseteq Nat
  BY StoreFields
<1>2. <<>> \in Seq(Line)
  OBVIOUS
<1>3. /\ new \in [DOMAIN store.files \cup {date} -> Seq(Line)]
      /\ DOMAIN new = DOMAIN store.files \cup {date}
      /\ \A day \in DOMAIN store.files : new[day] = store.files[day]
  BY <1>1, <1>2
<1>4. Opened(store, date) = [store EXCEPT !.date = date, !.files = new]
  BY DEF Opened, Store
<1> HIDE DEF new
<1>5. new \in UNION {[ds -> Seq(Line)] : ds \in SUBSET Nat}
  BY <1>1, <1>3, FilesType
<1>6. Opened(store, date) \in Store(Line)
  BY <1>4, <1>5 DEF Store
<1>7. /\ Opened(store, date).files = new
      /\ Opened(store, date).date = date /\ Opened(store, date).waiting = store.waiting
      /\ Opened(store, date).up = store.up /\ Opened(store, date).taken = store.taken
  BY <1>4 DEF Store
<1> QED
  BY <1>3, <1>6, <1>7

LEMMA EndedFields ==
  ASSUME NEW Line, NEW store \in Store(Line)
  PROVE  /\ Ended(store) \in Store(Line)
         /\ Ended(store).date = store.date /\ Ended(store).waiting = <<>>
         /\ ~Ended(store).up /\ Ended(store).files = store.files
         /\ Ended(store).taken = store.taken \ Range(store.waiting)
<1>1. <<>> \in Seq(Line)
  OBVIOUS
<1>2. store.taken \ Range(store.waiting) \in SUBSET Line
  BY StoreFields
<1> QED
  BY <1>1, <1>2 DEF Ended, Store

\* A flush keeps what is there, and leaves nothing waiting.
LEMMA FlushedKeeps ==
  ASSUME NEW Line, NEW store \in Store(Line), StoreInv(store)
  PROVE  StoreInv(Flushed(store))
<1> DEFINE s == Flushed(store)
<1>1. /\ s.date = store.date /\ s.waiting = <<>> /\ s.taken = store.taken
      /\ DOMAIN s.files = DOMAIN store.files
      /\ \A day \in DOMAIN store.files :
           Range(s.files[day])
             = Range(store.files[day]) \cup (IF day = store.date THEN Range(store.waiting) ELSE {})
  BY FlushedFields
<1> HIDE DEF s
<1>2. Range(s.waiting) = {}
  BY <1>1 DEF Range
<1>3. ASSUME NEW line \in store.taken, Today - Day(line.at) <= RetentionDays
      PROVE  Day(line.at) \in DOMAIN s.files /\ There(s, line)
  BY <1>1, <1>3 DEF StoreInv, There
<1>4. StoreInv(s)
  BY <1>1, <1>2, <1>3 DEF StoreInv
<1> QED
  BY <1>4 DEF s

\* Opening the file of the day keeps what is there, once nothing waits.
LEMMA OpenedKeeps ==
  ASSUME NEW Line, NEW store \in Store(Line), StoreInv(store), store.waiting = <<>>, ClockInv
  PROVE  StoreInv(Opened(store, Today))
<1> DEFINE s == Opened(store, Today)
<1>1. Today \in Nat /\ Today >= 1
  BY TodayType
<1>2. /\ s.date = Today /\ s.waiting = <<>> /\ s.taken = store.taken
      /\ DOMAIN s.files = DOMAIN store.files \cup {Today}
      /\ \A day \in DOMAIN store.files : s.files[day] = store.files[day]
  BY <1>1, OpenedFields
<1> HIDE DEF s
<1>3. Range(s.waiting) = {} /\ Range(store.waiting) = {}
  BY <1>2 DEF Range
<1>4. ASSUME NEW line \in store.taken, Today - Day(line.at) <= RetentionDays
      PROVE  Day(line.at) \in DOMAIN s.files /\ There(s, line)
  BY <1>2, <1>3, <1>4 DEF StoreInv, There
<1>5. StoreInv(s)
  BY <1>1, <1>2, <1>3, <1>4 DEF StoreInv
<1> QED
  BY <1>5 DEF s

\* What waited is lost when the node ends, and was taken no more.
LEMMA EndedKeeps ==
  ASSUME NEW Line, NEW store \in Store(Line), StoreInv(store)
  PROVE  StoreInv(Ended(store))
<1> DEFINE s == Ended(store)
<1>1. /\ s.date = store.date /\ s.waiting = <<>> /\ s.files = store.files
      /\ s.taken = store.taken \ Range(store.waiting)
  BY EndedFields
<1> HIDE DEF s
<1>2. Range(s.waiting) = {}
  BY <1>1 DEF Range
<1>3. ASSUME NEW line \in s.taken, Today - Day(line.at) <= RetentionDays
      PROVE  Day(line.at) \in DOMAIN s.files /\ There(s, line)
  BY <1>1, <1>3 DEF StoreInv, There
<1>4. StoreInv(s)
  BY <1>1, <1>2, <1>3 DEF StoreInv
<1> QED
  BY <1>4 DEF s

\* A store that is rotated is open for the day, or the node has ended.
LEMMA RotatedKeeps ==
  ASSUME NEW Line, NEW store \in Store(Line), StoreInv(store), ClockInv, NEW s \in Rotated(store)
  PROVE  s \in Store(Line) /\ StoreInv(s) /\ (s.up => s.date = Today)
<1>1. Today \in Nat
  BY TodayType
<1>2. CASE store.date = Today /\ s = store
  BY <1>2
<1>3. CASE s = Opened(Flushed(store), Today)
  BY <1>1, <1>3, FlushedFields, FlushedKeeps, OpenedFields, OpenedKeeps
<1>4. CASE store.waiting = <<>> /\ s = Opened(store, Today)
  BY <1>1, <1>4, OpenedFields, OpenedKeeps
<1>5. CASE s = Ended(store)
  BY <1>5, EndedFields, EndedKeeps
<1> QED
  BY <1>2, <1>3, <1>4, <1>5 DEF Rotated

\* A line that is taken goes into the file of the day, or waits for it.
LEMMA WrittenKeeps ==
  ASSUME NEW Line, NEW store \in Store(Line), StoreInv(store), ClockInv, store.date = Today,
         NEW line \in Line, line.at = now
  PROVE  Written(store, line) \in Store(Line) /\ StoreInv(Written(store, line))
<1> DEFINE longer == [store EXCEPT !.waiting = Append(@, line), !.taken = @ \cup {line}]
<1>1. Today \in Nat /\ Today >= 1 /\ Day(line.at) = Today
  BY TodayType DEF Today
<1>2. /\ longer \in Store(Line)
      /\ longer.date = store.date /\ longer.files = store.files
      /\ longer.waiting = Append(store.waiting, line) /\ longer.taken = store.taken \cup {line}
  <2>1. Append(store.waiting, line) \in Seq(Line) /\ store.taken \cup {line} \in SUBSET Line
    BY StoreFields
  <2> QED
    BY <2>1 DEF Store
<1> HIDE DEF longer
<1>3. Range(longer.waiting) = Range(store.waiting) \cup {line}
  BY <1>2, RangeAppend, StoreFields
<1>4. Today \in DOMAIN store.files
  BY <1>1, Parameters DEF StoreInv, NoDate
<1>5. ASSUME NEW l \in longer.taken, Today - Day(l.at) <= RetentionDays
      PROVE  Day(l.at) \in DOMAIN longer.files /\ There(longer, l)
  BY <1>1, <1>2, <1>3, <1>4, <1>5 DEF StoreInv, There
<1>6. \A l \in Range(longer.waiting) : Day(l.at) = longer.date
  BY <1>1, <1>2, <1>3 DEF StoreInv
<1>7. StoreInv(longer)
  BY <1>1, <1>2, <1>4, <1>5, <1>6 DEF StoreInv, NoDate
<1>8. Written(store, line) \in {Flushed(longer), longer, store}
  BY DEF Written, longer
<1> QED
  BY <1>2, <1>7, <1>8, FlushedFields, FlushedKeeps

\* The cleanup removes old files only.
LEMMA CleanupKeeps ==
  ASSUME NEW Line, NEW store \in Store(Line), StoreInv(store), ClockInv
  PROVE  cleanup(store) \in Store(Line) /\ StoreInv(cleanup(store))
<1> DEFINE young == {day \in DOMAIN store.files : Today - day <= RetentionDays}
           new == [day \in young |-> store.files[day]]
           s == [store EXCEPT !.files = new]
<1>1. store.files \in [DOMAIN store.files -> Seq(Line)] /\ DOMAIN store.files \subseteq Nat
  BY StoreFields
<1>2. young \in SUBSET Nat /\ new \in [young -> Seq(Line)]
  BY <1>1
<1>3. new \in UNION {[ds -> Seq(Line)] : ds \in SUBSET Nat}
  BY <1>2, FilesType
<1>4. DOMAIN new = young /\ \A day \in young : new[day] = store.files[day]
  OBVIOUS
<1>5. cleanup(store) = IF RetentionDays = 0 THEN store ELSE s
  BY DEF cleanup, Restrict, Store
<1> HIDE DEF new
<1>6. /\ s \in Store(Line)
      /\ s.date = store.date /\ s.waiting = store.waiting /\ s.files = new /\ s.taken = store.taken
  BY <1>3 DEF Store
<1> HIDE DEF s
<1>7. ASSUME NEW line \in s.taken, Today - Day(line.at) <= RetentionDays
      PROVE  Day(line.at) \in DOMAIN s.files /\ There(s, line)
  BY <1>4, <1>6, <1>7 DEF StoreInv, There
<1>8. s.date # NoDate /\ Today - s.date <= RetentionDays => s.date \in DOMAIN s.files
  BY <1>4, <1>6 DEF StoreInv
<1>9. StoreInv(s)
  BY <1>6, <1>7, <1>8 DEF StoreInv
<1> QED
  BY <1>5, <1>6, <1>9

\* A new store has taken nothing.
LEMMA NewStoreKeeps ==
  ASSUME NEW Line, ClockInv
  PROVE  NewStore \in Store(Line) /\ StoreInv(NewStore)
<1>1. <<>> \in [{} -> Seq(Line)] /\ <<>> \in Seq(Line)
  OBVIOUS
<1>2. <<>> \in UNION {[ds -> Seq(Line)] : ds \in SUBSET Nat}
  BY <1>1, FilesType
<1>3. NewStore \in Store(Line)
  BY <1>1, <1>2 DEF NewStore, Store, NoDate
<1>4. StoreInv(NewStore)
  BY TodayType DEF NewStore, StoreInv, NoDate, Range
<1> QED
  BY <1>3, <1>4

LEMMA TakenIsKept ==
  ASSUME NEW Line, NEW store \in Store(Line), StoreInv(store), NEW line \in store.taken
  PROVE  Kept(store, line)
<1> DEFINE d == Day(line.at)
<1> SUFFICES ASSUME Today - d <= RetentionDays
             PROVE  d \in DOMAIN store.files /\ line \in Range(Lines(store, d))
  BY DEF Kept
<1>1. d \in DOMAIN store.files /\ There(store, line)
  BY DEF StoreInv
<1>2. store.files[d] \in Seq(Line) /\ store.waiting \in Seq(Line) /\ <<>> \in Seq(Line)
  BY <1>1, StoreFields
<1>3. CASE d = store.date
  <2>1. Range(Lines(store, d)) = Range(store.files[d]) \cup Range(store.waiting)
    BY <1>2, <1>3, RangeConcat DEF Lines
  <2> QED
    BY <1>1, <2>1 DEF There
<1>4. CASE d # store.date
  <2>1. Lines(store, d) = store.files[d] \o <<>>
    BY <1>4 DEF Lines
  <2>2. Lines(store, d) = store.files[d]
    BY <1>2, <2>1
  <2> QED
    BY <1>1, <1>4, <2>2 DEF There
<1> QED
  BY <1>3, <1>4

-----------------------------------------------------------------------------
(***************************************************************************)
(* The metrics emitter and the log bridge keep their stores.               *)
(***************************************************************************)

Hardware == [battery : Readings, motor : Readings, hw_ts : Nat]
Metric   == [at : Nat, hardware : Hardware]
MetricsInv == hw_status \in Hardware /\ metrics \in Store(Metric) /\ StoreInv(metrics)

OwnMessages == {Own(text) : text \in {"rotated", "failed", "removed"}}
Messages    == Logs \cup OwnMessages
LogLine     == [at : Nat, message : {message.text : message \in Messages}]
BridgeInv == rosout \in Seq(Messages) /\ logged \in Nat /\ bridge \in Store(LogLine) /\ StoreInv(bridge)

LEMMA MetricsCarries ==
  ASSUME now' = now, NEW s, metrics' = s, StoreInv(s)
  PROVE  StoreInv(metrics)'
BY DEF StoreInv, There, Today, Day

LEMMA BridgeCarries ==
  ASSUME now' = now, NEW s, bridge' = s, StoreInv(s)
  PROVE  StoreInv(bridge)'
BY DEF StoreInv, There, Today, Day

LEMMA MetricsTurns ==
  ASSUME ClockInv, now' = now + 1, metrics' = metrics, metrics \in Store(Metric), StoreInv(metrics)
  PROVE  StoreInv(metrics)'
<1>1. Today <= Today' /\ Today \in Nat /\ Today' \in Nat
  BY DayGrows, DayType DEF ClockInv, Today
<1>2. metrics.date \in Nat /\ metrics.taken \subseteq Metric
  BY StoreFields
<1>3. metrics'.date <= Today'
  BY <1>1, <1>2 DEF StoreInv
<1>4. metrics'.date # NoDate /\ Today' - metrics'.date <= RetentionDays => metrics'.date \in DOMAIN metrics'.files
  BY <1>1, <1>2, Parameters DEF StoreInv
<1>5. ASSUME NEW line \in metrics'.taken, Today' - Day(line.at) <= RetentionDays
      PROVE  Day(line.at) \in DOMAIN metrics'.files /\ There(metrics, line)'
  <2>1. Day(line.at) \in Nat
    BY <1>2, DayType DEF Metric
  <2>2. Today - Day(line.at) <= RetentionDays
    BY <1>1, <1>5, <2>1, Parameters
  <2> QED
    BY <2>2 DEF StoreInv, There, Day
<1> QED
  BY <1>3, <1>4, <1>5 DEF StoreInv, Day

LEMMA BridgeTurns ==
  ASSUME ClockInv, now' = now + 1, bridge' = bridge, bridge \in Store(LogLine), StoreInv(bridge)
  PROVE  StoreInv(bridge)'
<1>1. Today <= Today' /\ Today \in Nat /\ Today' \in Nat
  BY DayGrows, DayType DEF ClockInv, Today
<1>2. bridge.date \in Nat /\ bridge.taken \subseteq LogLine
  BY StoreFields
<1>3. bridge'.date <= Today'
  BY <1>1, <1>2 DEF StoreInv
<1>4. bridge'.date # NoDate /\ Today' - bridge'.date <= RetentionDays => bridge'.date \in DOMAIN bridge'.files
  BY <1>1, <1>2, Parameters DEF StoreInv
<1>5. ASSUME NEW line \in bridge'.taken, Today' - Day(line.at) <= RetentionDays
      PROVE  Day(line.at) \in DOMAIN bridge'.files /\ There(bridge, line)'
  <2>1. Day(line.at) \in Nat
    BY <1>2, DayType DEF LogLine
  <2>2. Today - Day(line.at) <= RetentionDays
    BY <1>1, <1>5, <2>1, Parameters
  <2> QED
    BY <2>2 DEF StoreInv, There, Day
<1> QED
  BY <1>3, <1>4, <1>5 DEF StoreInv, Day

LEMMA MetricsStep ==
  ASSUME ClockInv, now' = now, MetricsInv, MetricsNext
  PROVE  MetricsInv'
<1> USE DEF MetricsInv
<1> SUFFICES ASSUME TRUE
             PROVE  hw_status' \in Hardware /\ \E s \in Store(Metric) : metrics' = s /\ StoreInv(s)
  BY MetricsCarries
<1>1. ASSUME NEW payload, NEW changed \in Hardware, NEW fatal, Replace(payload, changed, fatal)
      PROVE  hw_status' \in Hardware /\ \E s \in Store(Metric) : metrics' = s /\ StoreInv(s)
  <2>1. hw_status' \in Hardware
    BY <1>1 DEF Replace
  <2>2. metrics' \in {Ended(metrics), metrics}
    BY <1>1 DEF Replace
  <2> QED
    BY <2>1, <2>2, EndedFields, EndedKeeps
<1>2. ASSUME NEW payload, NEW reading \in Readings,
             \/ on_hw_status(payload, reading)
             \/ on_battery(payload, reading)
             \/ on_motor_current(payload, reading)
      PROVE  hw_status' \in Hardware /\ \E s \in Store(Metric) : metrics' = s /\ StoreInv(s)
  <2>1. /\ [battery |-> reading, motor |-> reading, hw_ts |-> now] \in Hardware
        /\ [hw_status EXCEPT !.battery = reading] \in Hardware
        /\ [hw_status EXCEPT !.motor = reading] \in Hardware
    BY DEF Hardware, ClockInv
  <2> QED
    BY <1>1, <1>2, <2>1 DEF on_hw_status, on_battery, on_motor_current
<1>3. CASE emit_metrics
  <2> DEFINE record == [at |-> now, hardware |-> hw_status]
  <2>1. record \in Metric /\ record.at = now
    BY DEF Metric, ClockInv
  <2>2. PICK s \in Rotated(metrics) : metrics' = IF s.up THEN Written(s, record) ELSE s
    BY <1>3 DEF emit_metrics, write_record
  <2>3. s \in Store(Metric) /\ StoreInv(s) /\ (s.up => s.date = Today)
    BY RotatedKeeps
  <2> HIDE DEF record
  <2>4. s.up => Written(s, record) \in Store(Metric) /\ StoreInv(Written(s, record))
    BY <2>1, <2>3, WrittenKeeps
  <2>5. hw_status' \in Hardware
    BY <1>3 DEF emit_metrics
  <2> QED
    BY <2>2, <2>3, <2>4, <2>5
<1>4. CASE cleanup_old_files
  BY <1>4, CleanupKeeps DEF cleanup_old_files
<1> QED
  BY <1>2, <1>3, <1>4 DEF MetricsNext

-----------------------------------------------------------------------------
(***************************************************************************)
(* The queue of the log bridge.                                            *)
(***************************************************************************)

\* The last messages stay in the queue.
LEMMA QueuedKeepsLast ==
  ASSUME NEW Message_, NEW queue \in Seq(Message_), NEW messages \in Seq(Message_)
  PROVE  /\ Queued(queue, messages) \in Seq(Message_)
         /\ messages # <<>> =>
              /\ Len(Queued(queue, messages)) > 0
              /\ Queued(queue, messages)[Len(Queued(queue, messages))] = messages[Len(messages)]
         /\ Len(queue) + Len(messages) <= RosoutDepth => Queued(queue, messages) = queue \o messages
<1> DEFINE longer == queue \o messages
           first == IF Len(longer) > RosoutDepth THEN Len(longer) - RosoutDepth + 1 ELSE 1
           kept == SubSeq(longer, first, Len(longer))
<1>1. /\ longer \in Seq(Message_) /\ Len(longer) = Len(queue) + Len(messages)
      /\ Len(queue) \in Nat /\ Len(messages) \in Nat
      /\ messages # <<>> => Len(messages) > 0 /\ longer[Len(longer)] = messages[Len(messages)]
  OBVIOUS
<1>2. Queued(queue, messages) = kept
  BY DEF Queued
<1> HIDE DEF longer
<1>3. first \in 1 .. Len(longer) + 1 /\ first \in Nat /\ first >= 1
  BY <1>1, Parameters
<1>4. messages # <<>> => first <= Len(longer)
  BY <1>1, Parameters
<1>5. Len(longer) <= RosoutDepth => first = 1
  BY <1>1, Parameters
<1> HIDE DEF first
<1>6. kept \in Seq(Message_) /\ Len(kept) = Len(longer) - first + 1
  BY <1>1, <1>3
<1>7. messages # <<>> => kept[Len(kept)] = longer[Len(longer)]
  BY <1>1, <1>3, <1>4, <1>6
<1>8. Len(longer) <= RosoutDepth => kept = longer
  BY <1>1, <1>5
<1> HIDE DEF kept
<1>9. messages # <<>> => Len(kept) > 0
  BY <1>1, <1>3, <1>4, <1>6
<1>10. messages # <<>> => kept[Len(kept)] = messages[Len(messages)]
  BY <1>1, <1>7
<1>11. Len(queue) + Len(messages) <= RosoutDepth => kept = queue \o messages
  <2>1. Len(queue) + Len(messages) <= RosoutDepth => kept = longer
    BY <1>1, <1>8
  <2> QED
    BY <2>1 DEF longer
<1> QED
  BY <1>2, <1>6, <1>9, <1>10, <1>11

LEMMA OwnLogsType ==
  ASSUME NEW store
  PROVE  /\ OwnLogs(store) \in Seq(OwnMessages)
         /\ disk = "full" => OwnLogs(store) # <<>> /\ OwnLogs(store)[Len(OwnLogs(store))] = Own("failed")
<1> DEFINE rotation == IF store.date = bridge.date THEN <<>> ELSE <<Own("rotated")>>
           failure == IF disk = "ok" THEN <<>> ELSE <<Own("failed")>>
<1>1. Own("rotated") \in OwnMessages /\ Own("failed") \in OwnMessages
  BY DEF OwnMessages
<1>2. rotation \in Seq(OwnMessages) /\ failure \in Seq(OwnMessages)
  BY <1>1
<1>3. disk = "full" => failure = <<Own("failed")>>
  OBVIOUS
<1>4. OwnLogs(store) = rotation \o failure
  BY DEF OwnLogs
<1> HIDE DEF rotation, failure
<1>5. OwnLogs(store) \in Seq(OwnMessages)
  BY <1>2, <1>4
<1>6. ASSUME disk = "full"
      PROVE  OwnLogs(store) # <<>> /\ OwnLogs(store)[Len(OwnLogs(store))] = Own("failed")
  <2>1. Len(failure) = 1 /\ failure[1] = Own("failed")
    BY <1>3, <1>6
  <2>2. /\ Len(rotation \o failure) = Len(rotation) + Len(failure) /\ Len(rotation) \in Nat
        /\ \A i \in 1 .. Len(failure) : (rotation \o failure)[Len(rotation) + i] = failure[i]
    BY <1>2
  <2>3. Len(rotation \o failure) = Len(rotation) + 1 /\ (rotation \o failure)[Len(rotation) + 1] = Own("failed")
    BY <2>1, <2>2
  <2> QED
    BY <1>4, <2>2, <2>3
<1> QED
  BY <1>5, <1>6

LEMMA OwnLogsAreMessages ==
  ASSUME NEW store, disk \in {"ok", "full"}
  PROVE  OwnLogs(store) \in Seq(Messages)
<1>1. OwnLogs(store) \in Seq(OwnMessages)
  BY OwnLogsType
<1> QED
  BY <1>1 DEF Messages

\* What on_log does to the store and to the queue.
LEMMA OnLogStep ==
  ASSUME ClockInv, disk \in {"ok", "full"}, BridgeInv, on_log
  PROVE  /\ \E s \in Store(LogLine) : bridge' = s /\ StoreInv(s)
         /\ rosout' \in Seq(Messages)
         /\ bridge'.up => \E store : rosout' = Queued(Tail(rosout), OwnLogs(store))
<1> DEFINE line == [at |-> now, message |-> Head(rosout).text]
<1>1. rosout \in Seq(Messages) /\ rosout # <<>> /\ bridge \in Store(LogLine) /\ StoreInv(bridge)
  BY DEF BridgeInv, on_log
<1>2. Tail(rosout) \in Seq(Messages) /\ Head(rosout) \in Messages
  BY <1>1
<1>3. line \in LogLine /\ line.at = now
  BY <1>2 DEF LogLine, ClockInv
<1>4. PICK s \in Rotated(bridge) :
        IF s.up THEN bridge' = Written(s, line) /\ rosout' = Queued(Tail(rosout), OwnLogs(s))
                ELSE bridge' = s /\ rosout' = Tail(rosout)
  BY DEF on_log
<1> HIDE DEF line
<1>5. s \in Store(LogLine) /\ StoreInv(s) /\ (s.up => s.date = Today)
  BY <1>1, RotatedKeeps
<1>6. CASE s.up
  <2>1. Written(s, line) \in Store(LogLine) /\ StoreInv(Written(s, line))
    BY <1>3, <1>5, <1>6, WrittenKeeps
  <2>2. OwnLogs(s) \in Seq(Messages)
    BY OwnLogsAreMessages
  <2>3. Queued(Tail(rosout), OwnLogs(s)) \in Seq(Messages)
    BY <1>2, <2>2, QueuedKeepsLast
  <2> QED
    BY <1>4, <1>6, <2>1, <2>3
<1>7. CASE ~s.up
  BY <1>2, <1>4, <1>5, <1>7
<1> QED
  BY <1>6, <1>7

LEMMA BridgeStep ==
  ASSUME ClockInv, disk \in {"ok", "full"}, now' = now, BridgeInv, BridgeNext
  PROVE  BridgeInv'
<1>1. rosout \in Seq(Messages) /\ logged \in Nat /\ bridge \in Store(LogLine) /\ StoreInv(bridge)
  BY DEF BridgeInv
<1> SUFFICES ASSUME TRUE
             PROVE  /\ rosout' \in Seq(Messages) /\ logged' \in Nat
                    /\ \E s \in Store(LogLine) : bridge' = s /\ StoreInv(s)
  BY BridgeCarries DEF BridgeInv
<1>2. CASE Pass
  BY <1>1, <1>2 DEF Pass
<1>3. CASE on_log
  BY <1>1, <1>3, OnLogStep DEF on_log
<1>4. CASE cleanup_old_logs
  <2>1. <<Own("removed")>> \in Seq(Messages)
    BY DEF Messages, OwnMessages
  <2>2. Queued(rosout, <<Own("removed")>>) \in Seq(Messages)
    BY <1>1, <2>1, QueuedKeepsLast
  <2>3. rosout' \in Seq(Messages) /\ logged' \in Nat
    BY <1>1, <1>4, <2>2 DEF cleanup_old_logs
  <2>4. cleanup(bridge) \in Store(LogLine) /\ StoreInv(cleanup(bridge)) /\ bridge' = cleanup(bridge)
    BY <1>1, <1>4, CleanupKeeps DEF cleanup_old_logs
  <2> QED
    BY <2>3, <2>4
<1>5. CASE \E message \in Logs : Log(message)
  <2> PICK message \in Logs : Log(message)
    BY <1>5
  <2>1. <<message>> \in Seq(Messages)
    BY DEF Messages
  <2>2. Queued(rosout, <<message>>) \in Seq(Messages)
    BY <1>1, <2>1, QueuedKeepsLast
  <2> QED
    BY <1>1, <2>2 DEF Log
<1> QED
  BY <1>2, <1>3, <1>4, <1>5 DEF BridgeNext

-----------------------------------------------------------------------------
(***************************************************************************)
(* The event journal.                                                      *)
(***************************************************************************)

States == {"UNKNOWN"} \cup {Upper[text] : text \in DOMAIN Upper}
Types  == {"fsm_transition", "sensor_fault", "diagnostic_warn", "diagnostic_error"}
Entry  == [id : Nat, at : Nat, type : Types, from : States, state : States]

\* The buffer holds the last events, by their numbers.
BufferInv ==
  /\ current \in States /\ events \in Nat /\ buffer \in Seq(Entry)
  /\ Len(buffer) = IF events < BufferMax THEN events ELSE BufferMax
  /\ \A i \in 1 .. Len(buffer) : buffer[i].id = events - Len(buffer) + i

TriggersInv ==
  \A trigger \in triggers :
    trigger.event.id \in Nat /\ 1 <= trigger.event.id /\ trigger.event.id <= events

JournalInv == BufferInv /\ TriggersInv /\ TriggersAreKept /\ HistoryUnbroken

\* A queue's last transition, if it has one, ends in state.
EndsIn(queue, state) == \A i \in 1 .. Len(queue) : LastTransition(queue, i) => queue[i].state = state

LEMMA TailChained ==
  ASSUME NEW queue \in Seq(Entry), queue # <<>>, Chained(queue), NEW state, EndsIn(queue, state)
  PROVE  Chained(Tail(queue)) /\ EndsIn(Tail(queue), state)
<1> DEFINE q == Tail(queue)
<1>1. /\ q \in Seq(Entry) /\ Len(q) = Len(queue) - 1 /\ Len(q) \in Nat /\ Len(queue) \in Nat
      /\ \A i \in 1 .. Len(q) : q[i] = queue[i + 1]
  OBVIOUS
<1> HIDE DEF q
<1>2. ASSUME NEW i \in 1 .. Len(q), NEW j \in 1 .. Len(q), Follow(q, i, j)
      PROVE  q[i].state = q[j].from
  <2>1. ASSUME NEW k \in i + 2 .. j PROVE queue[k].type # "fsm_transition"
    <3>1. k - 1 \in i + 1 .. j - 1 /\ k - 1 \in 1 .. Len(q) /\ (k - 1) + 1 = k
      BY <1>1
    <3>2. q[k - 1] = queue[k]
      BY <1>1, <3>1
    <3> QED
      BY <1>2, <3>1, <3>2 DEF Follow
  <2>2. i + 1 \in 1 .. Len(queue) /\ j + 1 \in 1 .. Len(queue) /\ (j + 1) - 1 = j /\ (i + 1) + 1 = i + 2
    BY <1>1
  <2>3. Follow(queue, i + 1, j + 1)
    BY <1>1, <1>2, <2>1, <2>2 DEF Follow
  <2> QED
    BY <1>1, <2>2, <2>3 DEF Chained
<1>3. ASSUME NEW i \in 1 .. Len(q), LastTransition(q, i)
      PROVE  q[i].state = state
  <2>1. ASSUME NEW k \in i + 2 .. Len(queue) PROVE queue[k].type # "fsm_transition"
    <3>1. k - 1 \in i + 1 .. Len(q) /\ k - 1 \in 1 .. Len(q) /\ (k - 1) + 1 = k
      BY <1>1
    <3>2. q[k - 1] = queue[k]
      BY <1>1, <3>1
    <3> QED
      BY <1>3, <3>1, <3>2 DEF LastTransition
  <2>2. i + 1 \in 1 .. Len(queue) /\ (i + 1) + 1 = i + 2
    BY <1>1
  <2>3. LastTransition(queue, i + 1)
    BY <1>1, <1>3, <2>1, <2>2 DEF LastTransition
  <2> QED
    BY <1>1, <2>2, <2>3 DEF EndsIn
<1>4. Chained(q) /\ EndsIn(q, state)
  BY <1>2, <1>3 DEF Chained, EndsIn
<1> QED
  BY <1>4 DEF q

LEMMA AppendChained ==
  ASSUME NEW queue \in Seq(Entry), NEW event \in Entry, Chained(queue), NEW state, EndsIn(queue, state),
         event.type = "fsm_transition" => event.from = state
  PROVE  /\ Chained(Append(queue, event))
         /\ EndsIn(Append(queue, event), IF event.type = "fsm_transition" THEN event.state ELSE state)
<1> DEFINE q == Append(queue, event)
           n == Len(queue)
<1>1. /\ q \in Seq(Entry) /\ Len(q) = n + 1 /\ n \in Nat
      /\ \A i \in 1 .. n : q[i] = queue[i]
      /\ q[n + 1] = event
  OBVIOUS
<1> HIDE DEF q, n
<1>2. ASSUME NEW i \in 1 .. n + 1, NEW j \in 1 .. n + 1, Follow(q, i, j)
      PROVE  q[i].state = q[j].from
  <2>1. i \in 1 .. n
    BY <1>1, <1>2 DEF Follow
  <2>2. CASE j \in 1 .. n
    <3>1. \A k \in i + 1 .. j - 1 : k \in 1 .. n
      BY <1>1, <2>1, <2>2
    <3>2. Follow(queue, i, j)
      BY <1>1, <1>2, <2>1, <2>2, <3>1 DEF Follow
    <3> QED
      BY <1>1, <2>1, <2>2, <3>2 DEF Chained, n
  <2>3. CASE j = n + 1
    <3>1. (n + 1) - 1 = n /\ \A k \in i + 1 .. n : k \in 1 .. n
      BY <1>1, <2>1
    <3>2. LastTransition(queue, i)
      BY <1>1, <1>2, <2>1, <2>3, <3>1 DEF Follow, LastTransition, n
    <3>3. queue[i].state = state
      BY <2>1, <3>2 DEF EndsIn, n
    <3>4. event.type = "fsm_transition"
      BY <1>1, <1>2, <2>3 DEF Follow
    <3> QED
      BY <1>1, <2>1, <2>3, <3>3, <3>4
  <2> QED
    BY <1>1, <2>2, <2>3
<1>3. ASSUME NEW i \in 1 .. n + 1, LastTransition(q, i)
      PROVE  q[i].state = IF event.type = "fsm_transition" THEN event.state ELSE state
  <2>1. CASE i = n + 1
    BY <1>1, <1>3, <2>1 DEF LastTransition
  <2>2. CASE i \in 1 .. n
    <3>1. n + 1 \in i + 1 .. Len(q) /\ \A k \in i + 1 .. n : k \in i + 1 .. Len(q) /\ k \in 1 .. n
      BY <1>1, <2>2
    <3>2. event.type # "fsm_transition"
      BY <1>1, <1>3, <3>1 DEF LastTransition
    <3>3. LastTransition(queue, i)
      BY <1>1, <1>3, <2>2, <3>1 DEF LastTransition, n
    <3>4. queue[i].state = state
      BY <2>2, <3>3 DEF EndsIn, n
    <3> QED
      BY <1>1, <2>2, <3>2, <3>4
  <2> QED
    BY <1>1, <2>1, <2>2
<1>4. Chained(q) /\ EndsIn(q, IF event.type = "fsm_transition" THEN event.state ELSE state)
  BY <1>1, <1>2, <1>3 DEF Chained, EndsIn
<1> QED
  BY <1>4 DEF q

\* A full buffer drops its oldest event for the new one.
LEMMA PushedStep ==
  ASSUME BufferInv, NEW event \in Entry, event.id = events + 1
  PROVE  /\ Pushed(buffer, event) \in Seq(Entry)
         /\ Len(Pushed(buffer, event)) = IF events + 1 < BufferMax THEN events + 1 ELSE BufferMax
         /\ \A i \in 1 .. Len(Pushed(buffer, event)) :
              Pushed(buffer, event)[i].id = (events + 1) - Len(Pushed(buffer, event)) + i
<1> DEFINE rest == IF Len(buffer) = BufferMax THEN Tail(buffer) ELSE buffer
           q == Append(rest, event)
<1>1. events \in Nat /\ buffer \in Seq(Entry) /\ Len(buffer) \in Nat
  BY DEF BufferInv
<1>2. Len(buffer) = BufferMax => buffer # <<>>
  BY <1>1, Parameters
<1>3. /\ rest \in Seq(Entry)
      /\ Len(rest) = IF Len(buffer) = BufferMax THEN BufferMax - 1 ELSE Len(buffer)
      /\ \A i \in 1 .. Len(rest) : rest[i] = IF Len(buffer) = BufferMax THEN buffer[i + 1] ELSE buffer[i]
  BY <1>1, <1>2
<1> HIDE DEF rest
<1>4. Len(rest) + 1 = IF events + 1 < BufferMax THEN events + 1 ELSE BufferMax
  BY <1>1, <1>3, Parameters DEF BufferInv
<1>5. ASSUME NEW i \in 1 .. Len(rest) PROVE rest[i].id = events - Len(rest) + i
  <2>1. CASE Len(buffer) = BufferMax
    <3>1. i + 1 \in 1 .. Len(buffer) /\ rest[i] = buffer[i + 1] /\ Len(rest) = BufferMax - 1
      BY <1>3, <2>1, Parameters
    <3>2. buffer[i + 1].id = events - Len(buffer) + (i + 1)
      BY <3>1 DEF BufferInv
    <3> QED
      BY <1>1, <2>1, <3>1, <3>2, Parameters
  <2>2. CASE Len(buffer) # BufferMax
    BY <1>3, <2>2 DEF BufferInv
  <2> QED
    BY <2>1, <2>2
<1>6. /\ q \in Seq(Entry) /\ Len(q) = Len(rest) + 1 /\ Len(rest) \in Nat
      /\ \A i \in 1 .. Len(rest) : q[i] = rest[i]
      /\ q[Len(rest) + 1] = event
  BY <1>3
<1>7. ASSUME NEW i \in 1 .. Len(q) PROVE q[i].id = (events + 1) - Len(q) + i
  <2>1. CASE i \in 1 .. Len(rest)
    BY <1>1, <1>5, <1>6, <2>1
  <2>2. CASE i = Len(rest) + 1
    BY <1>1, <1>6, <2>2
  <2> QED
    BY <1>6, <2>1, <2>2
<1>8. Pushed(buffer, event) = q
  BY DEF Pushed, rest
<1> HIDE DEF q
<1> QED
  BY <1>4, <1>6, <1>7, <1>8

LEMMA PushedChained ==
  ASSUME BufferInv, Chained(buffer), EndsIn(buffer, current), NEW event \in Entry,
         event.type = "fsm_transition" => event.from = current
  PROVE  /\ Chained(Pushed(buffer, event))
         /\ EndsIn(Pushed(buffer, event), IF event.type = "fsm_transition" THEN event.state ELSE current)
<1> DEFINE rest == IF Len(buffer) = BufferMax THEN Tail(buffer) ELSE buffer
<1>1. buffer \in Seq(Entry) /\ (Len(buffer) = BufferMax => buffer # <<>>)
  BY Parameters DEF BufferInv
<1>2. rest \in Seq(Entry) /\ Chained(rest) /\ EndsIn(rest, current)
  BY <1>1, TailChained
<1>3. Pushed(buffer, event) = Append(rest, event)
  BY DEF Pushed
<1> HIDE DEF rest
<1> QED
  BY <1>2, <1>3, AppendChained

\* What recording an event leaves.
LEMMA RecordStep ==
  ASSUME BufferInv, Chained(buffer), EndsIn(buffer, current), NEW event \in Entry, event.id = events + 1,
         event.type = "fsm_transition" => event.from = current,
         current' = (IF event.type = "fsm_transition" THEN event.state ELSE current),
         record_event(event)
  PROVE  BufferInv' /\ Chained(buffer)' /\ EndsIn(buffer, current)'
<1>1. events' = events + 1 /\ buffer' = Pushed(buffer, event) /\ events \in Nat /\ current \in States
  BY DEF record_event, BufferInv
<1>2. current' \in States
  BY <1>1 DEF Entry
<1>3. BufferInv'
  <2> DEFINE q == Pushed(buffer, event)
  <2>1. /\ q \in Seq(Entry) /\ Len(q) = (IF events + 1 < BufferMax THEN events + 1 ELSE BufferMax)
        /\ \A i \in 1 .. Len(q) : q[i].id = (events + 1) - Len(q) + i
    BY PushedStep
  <2>2. buffer' = q /\ events' = events + 1 /\ events + 1 \in Nat
    BY <1>1
  <2> HIDE DEF q
  <2> QED
    BY <1>2, <2>1, <2>2 DEF BufferInv
<1>4. Chained(Pushed(buffer, event)) /\ EndsIn(Pushed(buffer, event), current')
  BY PushedChained
<1>5. Chained(buffer)' /\ EndsIn(buffer, current)'
  BY <1>1, <1>4 DEF Chained, EndsIn, Follow, LastTransition
<1> QED
  BY <1>3, <1>5

LEMMA HistoryParts ==
  HistoryUnbroken <=>
    Chained(buffer) /\ EndsIn(buffer, current) /\ \A t \in DOMAIN incidents : Chained(incidents[t].events)
BY DEF HistoryUnbroken, EndsIn

LEMMA TornChained == Chained(Torn.events)
BY DEF Torn, Chained

\* An event that is no transition changes no trigger and no incident.
LEMMA DiagnosticsStep ==
  ASSUME JournalInv, ClockInv, NEW level, NEW sensor, on_diagnostics(level, sensor)
  PROVE  JournalInv'
<1> DEFINE event == make_event(EventType(level, sensor), current, current)
<1>1. BufferInv /\ Chained(buffer) /\ EndsIn(buffer, current) /\ events \in Nat /\ current \in States
  BY HistoryParts DEF JournalInv, BufferInv
<1>2. EventType(level, sensor) \in Types \ {"fsm_transition"}
  BY DEF EventType, Types
<1>3. event \in Entry /\ event.id = events + 1 /\ event.type # "fsm_transition"
  BY <1>1, <1>2 DEF make_event, Entry, ClockInv
<1>4. record_event(event) /\ UNCHANGED <<current, incidents, triggers>>
  BY DEF on_diagnostics
<1> HIDE DEF event
<1>5. BufferInv' /\ Chained(buffer)' /\ EndsIn(buffer, current)'
  BY <1>1, <1>3, <1>4, RecordStep
<1>6. TriggersInv' /\ TriggersAreKept'
  <2>1. events' = events + 1
    BY <1>4 DEF record_event
  <2> QED
    BY <1>1, <1>4, <2>1 DEF JournalInv, TriggersInv, TriggersAreKept, Contains
<1>7. HistoryUnbroken'
  BY <1>4, <1>5 DEF JournalInv, HistoryUnbroken, EndsIn, Chained, Follow
<1> QED
  BY <1>5, <1>6, <1>7 DEF JournalInv

LEMMA IncidentsFiles ==
  ASSUME NEW file
  PROVE  /\ DOMAIN Incidents(file) = DOMAIN incidents \cup {now}
         /\ Incidents(file)[now] = file
         /\ \A t \in DOMAIN incidents \ {now} : Incidents(file)[t] = incidents[t]
BY DEF Incidents

\* Freezing keeps every incident file one history.
LEMMA FreezeChained ==
  ASSUME \A t \in DOMAIN incidents : Chained(incidents[t].events), Chained(buffer'),
         NEW event, freeze_incident(event)
  PROVE  \A t \in DOMAIN incidents' : Chained(incidents'[t].events)
<1>1. CASE incidents' = incidents
  BY <1>1
<1>2. ASSUME NEW file, Chained(file.events), incidents' = Incidents(file)
      PROVE  \A t \in DOMAIN incidents' : Chained(incidents'[t].events)
  BY <1>2, IncidentsFiles
<1>3. CASE incidents' = Incidents(Torn)
  BY <1>2, <1>3, TornChained
<1>4. CASE incidents' = Incidents([trigger |-> event.id, events |-> buffer'])
  BY <1>2, <1>4
<1> QED
  BY <1>1, <1>3, <1>4 DEF freeze_incident

\* A queue of the last m of e events contains the last m numbers.
LEMMA QueueContains ==
  ASSUME NEW queue \in Seq(Entry), NEW e \in Nat, NEW m \in Nat, NEW id \in Nat,
         1 <= id, id <= e, e < id + m,
         Len(queue) = IF e < m THEN e ELSE m,
         \A i \in 1 .. Len(queue) : queue[i].id = e - Len(queue) + i
  PROVE  Contains(queue, id)
<1>1. (e < m => Len(queue) = e) /\ (e >= m => Len(queue) = m)
  OBVIOUS
<1>2. id + Len(queue) - e \in 1 .. Len(queue) /\ e - Len(queue) + (id + Len(queue) - e) = id
  BY <1>1
<1> QED
  BY <1>2 DEF Contains

\* The incident that an event freezes has every event that calls for one and is still in
\* the buffer; the files of other seconds stay.
LEMMA FreezeKeeps ==
  ASSUME JournalInv, BufferInv', events' = events + 1, ClockInv, disk \in {"ok", "full"}, now' = now,
         NEW event \in Entry, event.id = events + 1, event.at = now, freeze_incident(event)
  PROVE  TriggersInv' /\ TriggersAreKept'
<1> DEFINE new == [event |-> event, disk |-> disk]
<1>1. triggers' = triggers \cup {new} /\ events \in Nat /\ events + 1 \in Nat
  BY DEF freeze_incident, JournalInv, BufferInv
<1>2. TriggersInv'
  BY <1>1 DEF JournalInv, TriggersInv
<1>3. ASSUME NEW trigger \in triggers',
             \A other \in triggers' : other.event.at = trigger.event.at
               => other.disk = "ok" /\ other.event.id < trigger.event.id + BufferMax
      PROVE  /\ trigger.event.at \in DOMAIN incidents'
             /\ Contains(incidents'[trigger.event.at].events, trigger.event.id)
  <2>1. CASE trigger.event.at = now
    <3>1. disk = "ok" /\ events + 1 < trigger.event.id + BufferMax
      <4>1. new \in triggers' /\ new.event = event /\ new.disk = disk
        BY <1>1
      <4>2. new.disk = "ok" /\ new.event.id < trigger.event.id + BufferMax
        BY <1>3, <2>1, <4>1
      <4> QED
        BY <4>1, <4>2
    <3>2. trigger.event.id \in Nat /\ 1 <= trigger.event.id
      BY <1>2 DEF TriggersInv
    <3>3. trigger.event.id <= events + 1
      BY <1>1 DEF JournalInv, TriggersInv
    <3>4. Contains(buffer', trigger.event.id)
      <4>1. /\ buffer' \in Seq(Entry) /\ events' \in Nat
            /\ Len(buffer') = (IF events' < BufferMax THEN events' ELSE BufferMax)
            /\ \A i \in 1 .. Len(buffer') : buffer'[i].id = events' - Len(buffer') + i
        BY DEF BufferInv
      <4>2. trigger.event.id <= events' /\ events' < trigger.event.id + BufferMax
        BY <1>1, <3>1, <3>3
      <4>3. BufferMax \in Nat
        BY Parameters
      <4> QED
        BY <3>2, <4>1, <4>2, <4>3, QueueContains
    <3>5. incidents' = Incidents([trigger |-> event.id, events |-> buffer'])
      BY <3>1 DEF freeze_incident
    <3> QED
      BY <2>1, <3>4, <3>5, IncidentsFiles
  <2>2. CASE trigger.event.at # now
    <3>1. trigger \in triggers
      BY <1>1, <2>2
    <3>2. \A other \in triggers : other.event.at = trigger.event.at
            => other.disk = "ok" /\ other.event.id < trigger.event.id + BufferMax
      BY <1>1, <1>3
    <3>3. trigger.event.at \in DOMAIN incidents /\ Contains(incidents[trigger.event.at].events, trigger.event.id)
      BY <3>1, <3>2 DEF JournalInv, TriggersAreKept
    <3>4. incidents' = incidents \/ \E file : incidents' = Incidents(file)
      BY DEF freeze_incident
    <3> QED
      BY <2>2, <3>3, <3>4, IncidentsFiles
  <2> QED
    BY <2>1, <2>2
<1>4. TriggersAreKept'
  BY <1>3 DEF TriggersAreKept
<1> QED
  BY <1>2, <1>4

LEMMA StateStep ==
  ASSUME JournalInv, ClockInv, disk \in {"ok", "full"}, now' = now, NEW text \in DOMAIN Upper, on_state(text)
  PROVE  JournalInv'
<1> DEFINE event == make_event("fsm_transition", current, Upper[text])
<1>1. BufferInv /\ Chained(buffer) /\ EndsIn(buffer, current) /\ events \in Nat /\ current \in States
  BY HistoryParts DEF JournalInv, BufferInv
<1>2. /\ event \in Entry /\ event.id = events + 1 /\ event.type = "fsm_transition" /\ event.from = current
      /\ event.at = now /\ event.state = Upper[text]
  BY <1>1 DEF make_event, Entry, Types, States, ClockInv
<1>3. /\ current' = event.state /\ record_event(event)
      /\ IF Upper[text] \in IncidentTriggerStates THEN freeze_incident(event)
         ELSE UNCHANGED <<incidents, triggers>>
  BY DEF on_state, make_event
<1>4. events' = events + 1
  BY <1>3 DEF record_event
<1> HIDE DEF event
<1>5. BufferInv' /\ Chained(buffer)' /\ EndsIn(buffer, current)'
  BY <1>1, <1>2, <1>3, RecordStep
<1>6. Chained(buffer')
  BY <1>5 DEF Chained, Follow
<1>7. \A t \in DOMAIN incidents : Chained(incidents[t].events)
  BY DEF JournalInv, HistoryUnbroken
<1>8. CASE Upper[text] \in IncidentTriggerStates
  <2>1. freeze_incident(event)
    BY <1>3, <1>8
  <2>2. TriggersInv' /\ TriggersAreKept'
    BY <1>2, <1>4, <1>5, <2>1, FreezeKeeps
  <2>3. \A t \in DOMAIN incidents' : Chained(incidents'[t].events)
    BY <1>6, <1>7, <2>1, FreezeChained
  <2>4. HistoryUnbroken'
    BY <1>5, <2>3 DEF HistoryUnbroken, EndsIn, Chained, Follow
  <2> QED
    BY <1>5, <2>2, <2>4 DEF JournalInv
<1>9. CASE Upper[text] \notin IncidentTriggerStates
  <2>1. UNCHANGED <<incidents, triggers>>
    BY <1>3, <1>9
  <2>2. TriggersInv' /\ TriggersAreKept'
    BY <1>1, <1>4, <2>1 DEF JournalInv, TriggersInv, TriggersAreKept, Contains
  <2>3. HistoryUnbroken'
    BY <1>5, <1>7, <2>1 DEF HistoryUnbroken, EndsIn, Chained, Follow
  <2> QED
    BY <1>5, <2>2, <2>3 DEF JournalInv
<1> QED
  BY <1>8, <1>9

-----------------------------------------------------------------------------
(***************************************************************************)
(* The nodes together.                                                     *)
(***************************************************************************)

\* The inductive invariant.
NodesInv == ClockInv /\ disk \in {"ok", "full"} /\ JournalInv /\ MetricsInv /\ BridgeInv

LEMMA NodesStart == ASSUME Init PROVE NodesInv
<1>1. ClockInv /\ disk \in {"ok", "full"}
  BY Parameters DEF Init, ClockInv
<1>2. MetricsInv
  BY <1>1, NewStoreKeeps DEF Init, MetricsInit, MetricsInv, Hardware
<1>3. BridgeInv
  <2>1. <<>> \in Seq(Messages)
    OBVIOUS
  <2> QED
    BY <1>1, <2>1, NewStoreKeeps DEF Init, BridgeInit, BridgeInv
<1>4. /\ current = "UNKNOWN" /\ buffer = <<>> /\ events = 0 /\ triggers = {} /\ DOMAIN incidents = {}
  BY DEF Init, JournalInit
<1>5. BufferInv
  <2>1. <<>> \in Seq(Entry) /\ Len(<<>>) = 0
    OBVIOUS
  <2> QED
    BY <1>4, <2>1, Parameters DEF BufferInv, States
<1>6. HistoryUnbroken
  BY <1>4 DEF HistoryUnbroken, Chained
<1> QED
  BY <1>1, <1>2, <1>3, <1>4, <1>5, <1>6 DEF NodesInv, JournalInv, TriggersInv, TriggersAreKept

LEMMA JournalRests ==
  ASSUME JournalInv, UNCHANGED journalVars
  PROVE  JournalInv'
<1>1. BufferInv'
  BY DEF JournalInv, BufferInv, journalVars
<1>2. TriggersInv' /\ TriggersAreKept'
  BY DEF JournalInv, TriggersInv, TriggersAreKept, Contains, journalVars
<1>3. HistoryUnbroken'
  BY DEF JournalInv, HistoryUnbroken, Chained, Follow, LastTransition, journalVars
<1> QED
  BY <1>1, <1>2, <1>3 DEF JournalInv

LEMMA MetricsRest ==
  ASSUME MetricsInv, UNCHANGED <<now, metricsVars>>
  PROVE  MetricsInv'
<1>1. StoreInv(metrics)'
  BY MetricsCarries DEF MetricsInv, metricsVars
<1> QED
  BY <1>1 DEF MetricsInv, metricsVars

LEMMA BridgeRests ==
  ASSUME BridgeInv, UNCHANGED <<now, bridgeVars>>
  PROVE  BridgeInv'
<1>1. StoreInv(bridge)'
  BY BridgeCarries DEF BridgeInv, bridgeVars
<1> QED
  BY <1>1 DEF BridgeInv, bridgeVars

LEMMA NodesStep == ASSUME NodesInv, [Next]_vars PROVE NodesInv'
<1> USE DEF NodesInv
<1>1. CASE Clock
  <2>1. /\ now' = now + 1 /\ disk' = disk
        /\ UNCHANGED journalVars /\ UNCHANGED metricsVars /\ UNCHANGED bridgeVars
    BY <1>1 DEF Clock
  <2>2. ClockInv'
    BY <2>1, Parameters DEF ClockInv
  <2>3. JournalInv'
    BY <2>1, JournalRests
  <2>4. MetricsInv'
    BY <2>1, MetricsTurns DEF MetricsInv, metricsVars
  <2>5. BridgeInv'
    BY <2>1, BridgeTurns DEF BridgeInv, bridgeVars
  <2> QED
    BY <2>1, <2>2, <2>3, <2>4, <2>5
<1>2. CASE Disk
  BY <1>2, JournalRests, MetricsRest, BridgeRests DEF Disk, ClockInv
<1>3. CASE Journal
  <2>1. UNCHANGED <<now, disk, filled, node, metricsVars, bridgeVars>> /\ JournalNext
    BY <1>3 DEF Journal
  <2>2. JournalInv'
    BY <2>1, StateStep, DiagnosticsStep DEF JournalNext
  <2> QED
    BY <2>1, <2>2, MetricsRest, BridgeRests DEF ClockInv
<1>4. CASE FollowMetrics(MetricsNext)
  <2>1. UNCHANGED <<now, disk, filled, node, journalVars, bridgeVars>> /\ MetricsNext
    BY <1>4 DEF FollowMetrics
  <2>2. MetricsInv'
    BY <2>1, MetricsStep
  <2> QED
    BY <2>1, <2>2, JournalRests, BridgeRests DEF ClockInv
<1>5. CASE FollowBridge(BridgeNext)
  <2>1. UNCHANGED <<now, disk, filled, node, journalVars, metricsVars>> /\ BridgeNext
    BY <1>5 DEF FollowBridge
  <2>2. BridgeInv'
    BY <2>1, BridgeStep
  <2> QED
    BY <2>1, <2>2, JournalRests, MetricsRest DEF ClockInv
<1>6. CASE UNCHANGED vars
  BY <1>6, JournalRests, MetricsRest, BridgeRests DEF vars, ClockInv
<1> QED
  BY <1>1, <1>2, <1>3, <1>4, <1>5, <1>6 DEF Next

THEOREM NodesSafe == Spec => []NodesInv
BY NodesStart, NodesStep, PTL DEF Spec

\* The transitions in the buffer and in every incident file make one history, that ends in
\* the present state, for every size of the buffer (_on_state, _record_event, _freeze_incident).
THEOREM HistoryIsUnbroken == Spec => []HistoryUnbroken
<1>1. NodesInv => HistoryUnbroken
  BY DEF NodesInv, JournalInv
<1> QED
  BY <1>1, NodesSafe, PTL

\* Every event that calls for an incident is in the file of its second, unless the disk was
\* full or the buffer has forgotten it, for every size of the buffer (_freeze_incident).
THEOREM TriggersSafe == Spec => []TriggersAreKept
<1>1. NodesInv => TriggersAreKept
  BY DEF NodesInv, JournalInv
<1> QED
  BY <1>1, NodesSafe, PTL

\* What a daily file has taken stays for the retention, whatever rotates, fails or is
\* cleaned up, for every length of a day, retention and buffer (_write_record,
\* _ensure_log_file, _cleanup_old_files, _cleanup_old_logs).
THEOREM YoungFilesSafe == Spec => []YoungFilesKept
<1>1. NodesInv => YoungFilesKept
  BY TakenIsKept DEF NodesInv, MetricsInv, BridgeInv, YoungFilesKept
<1> QED
  BY <1>1, NodesSafe, PTL

-----------------------------------------------------------------------------
(***************************************************************************)
(* A full disk is loud.                                                    *)
(***************************************************************************)

\* Some message in a queue is one that the bridge tries to write.
Audible(queue) == \E i \in 1 .. Len(queue) : ~Filtered(queue[i])

LEMMA OwnIsAudible ==
  ASSUME NEW queue \in Seq(Messages), NEW messages \in Seq(Messages), messages # <<>>,
         NEW text, messages[Len(messages)] = Own(text)
  PROVE  Audible(Queued(queue, messages))
<1> DEFINE q == Queued(queue, messages)
<1>1. q \in Seq(Messages) /\ Len(q) > 0 /\ q[Len(q)] = Own(text)
  BY QueuedKeepsLast
<1>2. ~Filtered(Own(text))
  BY DEF Filtered, Own, Message
<1> HIDE DEF q
<1>3. Len(q) \in 1 .. Len(q)
  BY <1>1
<1>4. Audible(q)
  BY <1>1, <1>2, <1>3 DEF Audible
<1> QED
  BY <1>4 DEF q

\* While the disk is full, the bridge makes itself heard by each of its own steps.
LEMMA BridgeLoud ==
  ASSUME ClockInv, disk = "full", BridgeInv, Audible(rosout), BridgeNext, bridge'.up,
         logged' # logged => Len(rosout) < RosoutDepth
  PROVE  Audible(rosout')
<1>1. rosout \in Seq(Messages) /\ logged \in Nat
  BY DEF BridgeInv
<1>2. CASE Pass
  <2>1. Filtered(Head(rosout)) /\ rosout' = Tail(rosout) /\ rosout # <<>>
    BY <1>2 DEF Pass
  <2>2. PICK i \in 1 .. Len(rosout) : ~Filtered(rosout[i])
    BY DEF Audible
  <2>3. i # 1
    BY <1>1, <2>1, <2>2
  <2>4. i - 1 \in 1 .. Len(Tail(rosout)) /\ Tail(rosout)[i - 1] = rosout[i]
    BY <1>1, <2>1, <2>3
  <2> QED
    BY <2>1, <2>2, <2>4 DEF Audible
<1>3. CASE on_log
  <2>1. PICK store : rosout' = Queued(Tail(rosout), OwnLogs(store))
    BY <1>3, OnLogStep
  <2>2. Tail(rosout) \in Seq(Messages)
    BY <1>1, <1>3 DEF on_log
  <2>3. OwnLogs(store) \in Seq(Messages)
    BY OwnLogsAreMessages
  <2>4. OwnLogs(store) # <<>> /\ OwnLogs(store)[Len(OwnLogs(store))] = Own("failed")
    BY OwnLogsType
  <2> QED
    BY <2>1, <2>2, <2>3, <2>4, OwnIsAudible
<1>4. CASE cleanup_old_logs
  <2> DEFINE removed == <<Own("removed")>>
  <2>1. removed \in Seq(Messages) /\ removed # <<>> /\ removed[Len(removed)] = Own("removed")
    BY DEF Messages, OwnMessages
  <2>2. rosout' \in {rosout, Queued(rosout, removed)}
    BY <1>4 DEF cleanup_old_logs
  <2> HIDE DEF removed
  <2> QED
    BY <1>1, <2>1, <2>2, OwnIsAudible
<1>5. CASE \E message \in Logs : Log(message)
  <2> PICK message \in Logs : Log(message)
    BY <1>5
  <2>1. logged' # logged /\ rosout' = Queued(rosout, <<message>>)
    BY <1>1 DEF Log
  <2>2. <<message>> \in Seq(Messages) /\ Len(<<message>>) = 1
    BY DEF Messages
  <2>3. Len(rosout) + Len(<<message>>) <= RosoutDepth
    BY <1>1, <2>1, <2>2, Parameters
  <2>4. rosout' = rosout \o <<message>>
    BY <1>1, <2>1, <2>2, <2>3, QueuedKeepsLast
  <2>5. PICK i \in 1 .. Len(rosout) : ~Filtered(rosout[i])
    BY DEF Audible
  <2>6. i \in 1 .. Len(rosout \o <<message>>) /\ (rosout \o <<message>>)[i] = rosout[i]
    BY <1>1, <2>2, <2>5
  <2> QED
    BY <2>4, <2>5, <2>6 DEF Audible
<1> QED
  BY <1>2, <1>3, <1>4, <1>5 DEF BridgeNext

\* While the disk is full and the bridge runs, /rosout does not become quiet, for every
\* depth of its queue (_on_log, _ensure_log_file).
THEOREM FullDiskLoud == Spec => FullDiskIsLoud
<1>1. ASSUME NodesInv, [Next]_vars, Loud, disk' = "full", bridge'.up,
             logged' # logged => Len(rosout) < RosoutDepth
      PROVE  Loud'
  <2>1. disk = "full" /\ Audible(rosout)
    BY <1>1 DEF Loud, Audible
  <2>2. Audible(rosout')
    <3>1. CASE FollowBridge(BridgeNext)
      BY <1>1, <2>1, <3>1, BridgeLoud DEF FollowBridge, NodesInv
    <3>2. CASE UNCHANGED rosout
      BY <2>1, <3>2 DEF Audible
    <3> QED
      BY <1>1, <3>1, <3>2 DEF Next, Clock, Disk, Journal, FollowMetrics, vars, bridgeVars
  <2> QED
    BY <1>1, <2>2 DEF Loud, Audible, Filtered
<1> QED
  BY <1>1, NodesSafe, PTL DEF Spec, FullDiskIsLoud
=============================================================================
