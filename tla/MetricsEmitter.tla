--------------------------- MODULE MetricsEmitter ---------------------------
(***************************************************************************)
(* The metrics emitter: once a tick, what was last heard of the hardware   *)
(* is published and written to the file of the day.                        *)
(***************************************************************************)
EXTENDS DailyFiles

CONSTANT Readings   \* values of a battery or a current

VARIABLES
  hw_status,    \* _hw_status: [battery, motor, hw_ts], the latest of each
  metrics,      \* the store of metrics_dir
  emitted       \* the last tick whose record was made

metricsVars == <<hw_status, metrics, emitted>>

Payloads == {"object", "broken", "scalar", "text"}  \* JSON of an object, no JSON, other JSON

MetricsInit ==
  /\ hw_status \in {[battery |-> reading, motor |-> reading, hw_ts |-> 0] : reading \in Readings}
  /\ metrics = NewStore
  /\ emitted = now

\* A reading is taken from an object; the payloads that end the node raise an exception
\* that its handler does not catch.
Replace(payload, changed, fatal) ==
  /\ metrics.up
  /\ hw_status' = IF payload = "object" THEN changed ELSE hw_status
  /\ metrics' = IF payload \in fatal THEN Ended(metrics) ELSE metrics
  /\ UNCHANGED emitted

\* virtus_msgs/HardwareStatus, or an object on the fallback topic, which a text does not
\* update (ValueError) and any other scalar neither (TypeError, caught).
on_hw_status(payload, reading) ==
  Replace(payload, [battery |-> reading, motor |-> reading, hw_ts |-> now], {"text"})

\* These replace one reading each and leave the stamp; a scalar has no get (AttributeError).
on_battery(payload, reading) == Replace(payload, [hw_status EXCEPT !.battery = reading], {"scalar", "text"})
on_motor_current(payload, reading) == Replace(payload, [hw_status EXCEPT !.motor = reading], {"scalar", "text"})

\* An exception in the rotation ends the node; a line that cannot be flushed waits.
write_record(record) ==
  \E store \in Rotated(metrics) : metrics' = IF store.up THEN Written(store, record) ELSE store

\* The timer: publish, then persist.
emit_metrics ==
  /\ metrics.up /\ emitted < now
  /\ emitted' = now
  /\ write_record([at |-> now, hardware |-> hw_status])
  /\ UNCHANGED hw_status

\* The hourly timer.
cleanup_old_files ==
  /\ metrics.up
  /\ metrics' = cleanup(metrics)
  /\ UNCHANGED <<hw_status, emitted>>

MetricsNext ==
  \/ \E payload \in Payloads, reading \in Readings :
       \/ on_hw_status(payload, reading)
       \/ on_battery(payload, reading)
       \/ on_motor_current(payload, reading)
  \/ emit_metrics \/ cleanup_old_files
=============================================================================
