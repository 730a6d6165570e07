----------------------------- MODULE DailyFiles -----------------------------
(***************************************************************************)
(* What the observability nodes share: the clock, the disk, and the JSONL  *)
(* files that metrics_emitter and log_bridge rotate every day and clean up *)
(* in the same way.                                                        *)
(*                                                                         *)
(* A line that cannot be flushed stays in the buffer of the file object    *)
(* and goes out with the next flush that succeeds; a line that finds the   *)
(* buffer full is lost.  Days are numbered from 1.                         *)
(***************************************************************************)
EXTENDS Naturals, Sequences, FiniteSets, Functions

CONSTANTS
  TicksPerDay,    \* ticks of the clock in a day; a tick stands for a second of it
  RetentionDays,  \* retention_days, 0 keeps everything
  BufferLines,    \* lines the buffer of a file object has room for
  Horizon,        \* bound: the last tick, for each node
  MaxFull         \* bound: how often the disk fills up

ASSUME FilesAssumption ==
  /\ TicksPerDay \in Nat \ {0}
  /\ RetentionDays \in Nat /\ BufferLines \in Nat \ {0}
  /\ \A node \in DOMAIN Horizon : Horizon[node] \in Nat
  /\ MaxFull \in Nat

VARIABLES
  now,   \* the clock
  disk,  \* "ok" or "full"
  filled \* how often it has filled up

Day(t) == t \div TicksPerDay
Today == Day(now)
NoDate == 0

\* A node's store: the files (for a day, its lines), the date of the file that is open, the
\* lines in its buffer, whether the node runs, and as history the lines taken and not lost.
NewStore == [files |-> <<>>, date |-> NoDate, waiting |-> <<>>, up |-> TRUE, taken |-> {}]

\* A file that has been removed while it was open takes its lines with it.
Flushed(store) ==
  [store EXCEPT
    !.files = IF store.date \in DOMAIN store.files
              THEN [store.files EXCEPT ![store.date] = @ \o store.waiting] ELSE @,
    !.waiting = <<>>]

Opened(store, date) ==
  [store EXCEPT !.date = date,
                !.files = [day \in DOMAIN @ \cup {date} |-> IF day \in DOMAIN @ THEN @[day] ELSE <<>>]]

\* The exception that ends the node: what waited is lost with it.
Ended(store) ==
  [store EXCEPT !.up = FALSE, !.waiting = <<>>, !.taken = @ \ Range(store.waiting)]

\* _ensure_log_file, and the same lines in _write_record: when the date is not that of the
\* open file, that is closed, which flushes it, and a new one opened; on a full disk neither
\* need succeed, and nothing catches the exception.
Rotated(store) ==
  IF store.date = Today THEN {store}
  ELSE IF disk = "ok" THEN {Opened(Flushed(store), Today)}
  ELSE IF store.waiting # <<>> THEN {Ended(store)}
  ELSE {Opened(store, Today), Ended(store)}

\* write and flush: the exception is caught.
Written(store, line) ==
  LET longer == [store EXCEPT !.waiting = Append(@, line), !.taken = @ \cup {line}]
  IN  IF disk = "ok" THEN Flushed(longer)
      ELSE IF Len(store.waiting) < BufferLines THEN longer ELSE store

\* Mutant: a file is removed on the last day it should be kept.
cleanupOneDayEarly(store) ==
  IF RetentionDays = 0 THEN store
  ELSE [store EXCEPT !.files = Restrict(@, {day \in DOMAIN @ : Today - day < RetentionDays})]

\* _cleanup_old_files and _cleanup_old_logs.
cleanup(store) ==
  IF RetentionDays = 0 THEN store
  ELSE [store EXCEPT !.files = Restrict(@, {day \in DOMAIN @ : Today - day <= RetentionDays})]

-----------------------------------------------------------------------------
(* Properties of a store; a line is a record with the tick at which it was made. *)

\* The lines of a file, and those that wait for the open one.
Lines(store, day) == store.files[day] \o (IF day = store.date THEN store.waiting ELSE <<>>)

\* A line that was taken is there for RetentionDays.
Kept(store, line) ==
  Today - Day(line.at) <= RetentionDays =>
    Day(line.at) \in DOMAIN store.files /\ line \in Range(Lines(store, Day(line.at)))
=============================================================================
