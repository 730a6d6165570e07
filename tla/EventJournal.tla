---------------------------- MODULE EventJournal ----------------------------
(***************************************************************************)
(* The event journal: transitions of the robot's state and diagnostics     *)
(* that are not OK go into a rolling buffer and a journal file; a state of *)
(* error freezes the buffer into an incident file named by the second.     *)
(***************************************************************************)
EXTENDS DailyFiles

CONSTANTS
  Levels,       \* levels of a status: "OK", "WARN", "ERROR" and "STALE"
  Upper,        \* for each text published as a state: without blanks, in upper case
  BufferMax,    \* buffer_max_events
  MaxEvents     \* bound: events recorded

ASSUME JournalAssumption == BufferMax \in Nat \ {0} /\ MaxEvents \in Nat

VARIABLES
  current,    \* _current_state
  buffer,     \* _buffer, a deque of BufferMax events
  journal,    \* journal.jsonl: a store of one file that is never rotated
  incidents,  \* the incident files: for a second, the trigger and the events, or a torn file
  events,     \* events so far
  triggers    \* history: the events that called for an incident, with what the disk said

journalVars == <<current, buffer, journal, incidents, events, triggers>>

IncidentTriggerStates == {"ERROR", "RECOVERY"}
Torn == [trigger |-> 0, events |-> <<>>]

JournalInit ==
  /\ current = "UNKNOWN"
  /\ buffer = <<>>
  /\ journal = Opened(NewStore, Today)
  /\ incidents = <<>>
  /\ events = 0 /\ triggers = {}

\* Events are numbered; _make_event stamps them and notes the state.
make_event(type, from, state) ==
  [id |-> events + 1, at |-> now, type |-> type, from |-> from, state |-> state]

\* Mutant: a full buffer takes no more events.
PushedUntilFull(queue, event) == IF Len(queue) = BufferMax THEN queue ELSE Append(queue, event)

Pushed(queue, event) == Append(IF Len(queue) = BufferMax THEN Tail(queue) ELSE queue, event)

record_event(event) ==
  /\ events' = events + 1
  /\ buffer' = Pushed(buffer, event)
  /\ journal' = Written(journal, [id |-> event.id, at |-> event.at])

\* The incident files when that of this second has been written from its beginning.
Incidents(file) == [t \in DOMAIN incidents \cup {now} |-> IF t = now THEN file ELSE incidents[t]]

\* Mutant: an incident is frozen before its own event is in the buffer.
freeze_incidentWithout(event) ==
  /\ triggers' = triggers \cup {[event |-> event, disk |-> disk]}
  /\ IF disk = "ok"
     THEN incidents' = Incidents([trigger |-> event.id, events |-> buffer])
     ELSE incidents' \in {incidents, Incidents(Torn)}

\* The file is opened to be written from its beginning: an incident of the same second is
\* overwritten, and a full disk leaves it torn, if it could be opened at all.  The clock is
\* read again for the name; here once for both.
freeze_incident(event) ==
  /\ triggers' = triggers \cup {[event |-> event, disk |-> disk]}
  /\ IF disk = "ok"
     THEN incidents' = Incidents([trigger |-> event.id, events |-> buffer'])
     ELSE incidents' \in {incidents, Incidents(Torn)}

\* A state that is published again is no event.
on_state(text) ==
  /\ events < MaxEvents
  /\ LET state == Upper[text]
         event == make_event("fsm_transition", current, state)
     IN  /\ state # current
         /\ current' = state
         /\ record_event(event)
         /\ IF state \in IncidentTriggerStates THEN freeze_incident(event)
            ELSE UNCHANGED <<incidents, triggers>>

EventType(level, sensor) ==
  CASE sensor /\ level \in {"ERROR", "STALE"} -> "sensor_fault"
    [] level = "WARN" -> "diagnostic_warn"
    [] OTHER -> "diagnostic_error"

\* One status of a diagnostics message; one that is OK is passed over.
on_diagnostics(level, sensor) ==
  /\ events < MaxEvents /\ level # "OK"
  /\ record_event(make_event(EventType(level, sensor), current, current))
  /\ UNCHANGED <<current, incidents, triggers>>

JournalNext ==
  \/ \E text \in DOMAIN Upper : on_state(text)
  \/ \E level \in Levels, sensor \in BOOLEAN : on_diagnostics(level, sensor)

-----------------------------------------------------------------------------
(* Properties *)

\* Two transitions of a queue that follow one another, whatever events are between them.
Follow(queue, i, j) ==
  /\ i < j /\ queue[i].type = "fsm_transition" /\ queue[j].type = "fsm_transition"
  /\ \A k \in i + 1 .. j - 1 : queue[k].type # "fsm_transition"
LastTransition(queue, i) ==
  /\ queue[i].type = "fsm_transition"
  /\ \A k \in i + 1 .. Len(queue) : queue[k].type # "fsm_transition"

\* The transitions kept make one history: each starts where the one before it ended, and
\* the last ends in the present state; in the buffer, and in every incident file.
Chained(queue) == \A i, j \in 1 .. Len(queue) : Follow(queue, i, j) => queue[i].state = queue[j].from
HistoryUnbroken ==
  /\ Chained(buffer)
  /\ \A i \in 1 .. Len(buffer) : LastTransition(buffer, i) => buffer[i].state = current
  /\ \A t \in DOMAIN incidents : Chained(incidents[t].events)

\* Every event that calls for an incident is in the incident file of its second, though a
\* later one of that second may have overwritten the file (event_journal.py:194), unless the
\* disk was full for one of them or as many events as the buffer holds came after it.  Its
\* second is that of the freeze (:193), which may be the one after that of its timestamp.
Contains(queue, id) == \E i \in 1 .. Len(queue) : queue[i].id = id
TriggersAreKept ==
  \A trigger \in triggers :
    LET second == trigger.event.at
        same == {other \in triggers : other.event.at = second}
    IN  (\A other \in same : other.disk = "ok" /\ other.event.id < trigger.event.id + BufferMax)
          => second \in DOMAIN incidents /\ Contains(incidents[second].events, trigger.event.id)
=============================================================================
