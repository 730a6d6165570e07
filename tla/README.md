# Formal models of the Porter robot software

Porter is an autonomous luggage robot: two ESP32 firmwares (motors, distance
sensors), C++ ROS 2 nodes that talk to them over serial lines, a LIDAR driver,
Python nodes that boot and supervise the system, an on-device AI assistant and a
Flutter GUI. This directory holds TLA+ models of the parts whose correctness
depends on interleavings, timeouts, lost messages and long sequences of calls, the
TLC configurations that check them, and TLAPS proofs of the most important
properties for all values of the constants.

Paths are relative to the repository; `PROJECT.json` maps every modelled
definition to the lines it stands for.

## 1. Inventory

### Firmware

**Motor controller** (`esp32_firmware/motor_controller/src/main.cpp`).
State: an SMF state machine IDLE / RUNNING / FAULT / ESTOP, target and actual duty
of both sides, the PWM and enable outputs, the time of the last command, the last
message of the zbus channel `safety_event_chan`. Operations: the 10 ms control
tick (priority 0), the packet handler of the protocol thread, which the tick can
preempt between any two statements, and shell commands of still lower priority.
Hard: every multi-statement handler runs concurrently with the control loop without
a lock. Correct means: an emergency stop ends motion wherever it is preempted, a
silent host ends motion in bounded time, outputs are off at rest, a command that
was accepted in FAULT or ESTOP never moves a motor later.

**Sensor fusion** (`esp32_firmware/sensor_fusion/src/main.cpp`).
State: SMF state INIT / CALIBRATING / ACTIVE / DEGRADED / FAULT, health and
timestamp of each sensor, the fused distance and its confidence. Operations: the
50 ms main loop, whose run sleeps in the middle of the ToF measurement and waits
for the ultrasonic echo; CMD_RESET and the shell reset, which run in that sleep.
Hard: ages are compared in a run that itself takes as long as the age limit; a
reset changes sensors and state under a suspended run. Correct means: confidence
implies a fresh reading, blindness is reported, sensors that come back are used.

**Packet protocol** (`esp32_firmware/common`: `protocol.cpp`, `crc16.cpp`).
A byte-wise parser shared by both firmwares and both bridges. Hard: resynchronising
after damaged bytes without an inter-byte timeout, and callers that treat errors
differently. Correct means: what is accepted was sent, in order, once, and damage
stays local.

**Transport** (`transport.c`): UART reads and byte-wise writes of two threads.
**HAL** (`common/hal`): driver registry, health counters, sensor and actuator
drivers; neither firmware calls it yet.

### ROS nodes on the host

**Motor bridge** (`porter_esp32_bridge/src/esp32_motor_bridge.cpp`). State: the
connection, whether a velocity command is active and when it came, the timers.
Operations: `/cmd_vel`, watchdog, heartbeat, status poll, reconnect, serial read,
destructor. Hard: a write may fail and close the port in the middle of any callback;
the firmware has timeouts of its own and latches its faults.
**Sensor bridge** (`esp32_sensor_bridge.cpp`): the same connection; converts the
fused report to a Range message.

**LIDAR driver** (`ydlidar_driver`). State: the SDK adapter (connected, scanning),
the health window, consecutive failures. Operations: boot with retries, scan and
diagnostics timers, reconnect from inside the scan callback. Hard: any SDK call may
fail at any point of boot or reconnect. Correct means: the SDK is used in its order,
the driver never strands without a scan, a dead device is reported.

**LIDAR health monitor** and **system state machine**
(`orchestration/porter_orchestrator`). The monitor reduces `/scan` and
`/diagnostics` to one level on `/porter/health_status`; the state machine boots the
system on that level, watches it, retries a failed boot a bounded number of times and
shuts down on request. Hard: levels outlive what they reported, two independent
timers, services that may be called in any state, a deferred shutdown. Correct
means: operation only on fresh and good health, bounded retries, silence noticed.

**LIDAR processor** (Python: `porter_lidar_processor`; an alternative node in C++).
State: the parameters, and the configuration the filters are tuned by. Operations:
`/scan` through up to six filters to `/scan/processed`, the parameter callback, the
service that switches the filters. Hard: filters whose order matters (a median fills
rays that another stage blanks), windows cut off at the ends of a scan or thinned out
by missing readings, a configuration that must follow its parameters. Correct means:
nothing is invented, what is cropped stays blank, a wall is seen without its spikes.

**Observability** (`porter_observability`): three nodes. The event journal keeps a
rolling buffer of transitions and bad diagnostics and freezes it into an incident file
when the robot gets into trouble; the metrics emitter and the log bridge write files
that rotate by the day and are removed after a time. Hard: midnight on a disk that is
full, lines that wait in a file object, two incidents within a second, the bridge that
hears its own complaints. Correct means: an incident file holds the history that led to
it, lines stay for as long as they should.

### Assistant and GUI

All in `porter_ai_assistant`:

**Inference engine** (`inference_engine.py`). State: the model in memory, the adapter it
was loaded for, the model files found, a window of latencies. Operations: load, unload,
switch to another adapter (unload, then load), classify a question, query, stream.
**Retriever** (`rag_retriever.py`): documents, a keyword index, and the context a
question gets within a budget of characters.
**Orchestrator** (`orchestrator.py`). State: sessions with a bounded history and a
timeout. Operations: `process_query` with up to three tool calls and
`process_query_stream`, a generator with one. Both end by storing the exchange.
**ROS nodes** (`assistant_node.py`, `orchestrator_node.py`): topic and service callbacks
in a single thread, session cleanup, diagnostics. One of the two is launched.
**HTTP server** (`scripts/ai_server.py`): one thread for each connection, one lock around
the engine, streams written to clients with the lock held, an unlocked unload at the end.

Hard: a switch that has unloaded the old model and cannot load the new one; threads
between routing a question and answering it; clients that stall or leave in the middle
of a stream; sessions that expire with nothing to notice it. Correct means: a question
is answered by the model it was routed to, with the context of its own session as it
is, every stream is well formed, memory holds whole exchanges exactly as they were
given, every question ends, and a lost model is reported.

**GUI** (`porter_gui`): a rosbridge client with reconnects and pending service
calls, and the chat provider with its timers.

### How they interact

    /cmd_vel -> motor bridge --serial packets--> motor controller
    sensor fusion --serial packets--> sensor bridge -> Range topics
    LIDAR -> SDK -> ydlidar driver -> /scan, /diagnostics
         -> LIDAR health monitor -> /porter/health_status -> system state machine
         -> LIDAR processor -> /scan/processed
    GUI <-> AI server -> orchestrator -> retriever, engine
    /porter/ai_query -> assistant or orchestrator node -> (orchestrator ->) engine
    states, diagnostics, hardware topics, /rosout -> observability nodes -> files

Within a ROS node a single-threaded executor runs one callback at a time; within a
firmware, threads share atomics without locks; in the AI server they share the engine
and the sessions behind one lock; between programs there are topics and serial lines.

## 2. Modules

| Module | Models | Uses |
|---|---|---|
| `Ages` | timestamps as ages in ticks, comparison with a limit | |
| `MotorController` | motor firmware | `Ages` |
| `PorterStateMachine` | system state machine | `Ages`, refines `BootSupervisor` |
| `BootSupervisor` | abstract: a boot retried a bounded number of times | |
| `YdlidarDriver` | driver node, health window, SDK adapter | |
| `LidarHealthMonitor` | health monitor | `Ages` |
| `LidarSupervision` | monitor, topic and state machine together | `PorterStateMachine`, the monitor by INSTANCE |
| `MotorBridge` | motor bridge and its serial port | `Ages` |
| `MotorLink` | bridge, line and firmware together | `MotorController`, the bridge by INSTANCE |
| `Crc16`, `Protocol` | CRC, encoder, parser, damaging line | refines `PacketLine` |
| `PacketLine` | abstract: packets in order, at most once | |
| `SensorFusion` | sensor firmware | `Ages` |
| `InferenceEngine` | model, adapters, classification, latency window | |
| `KnowledgeBase` | retriever: index, ranking, context budget | |
| `ConversationOrchestrator` | sessions, tools, the steps of a question | both above |
| `AssistantNodes` | the two ROS nodes | `ConversationOrchestrator` |
| `AiServer` | HTTP server: threads, lock, clients | `ConversationOrchestrator`, refines `Conversation` |
| `Conversation` | abstract: memory changes by whole exchanges | |
| `DailyFiles` | clock, disk, files that rotate by the day | |
| `EventJournal`, `MetricsEmitter`, `LogBridge` | the observability nodes | `DailyFiles` |
| `Observability` | clock, disk and the three nodes | all four above |
| `ScanFilters` | the six filters as functions of a scan | |
| `LidarProcessor` | the node: parameters, configuration, chain | `ScanFilters` |
| `MotorLink_proofs` | proofs of the link and of `MotorController` | |
| `LidarSupervision_proofs` | proofs of the supervision and of `PorterStateMachine` | |
| `LidarPipeline_proofs` | proofs of `YdlidarDriver` and `LidarProcessor` | |
| `Observability_proofs` | proofs of the three nodes | |
| `Protocol_proofs`, `SensorFusion_proofs`, `AssistantNodes_proofs`, `AiServer_proofs` | proofs | the module they are named after |
| `MC*` | definitions for TLC | the module they are named after |

**Time.** Nodes store timestamps and compare differences with limits. The models
keep ages, counted in whole ticks of the relevant timer: of the control loop in the motor
firmware and in the link, of the node's own timer elsewhere. Where code compares
`age > limit`, the fraction of a tick decides at equality, so `Beyond` is
nondeterministic there, which is also how the heartbeat may expire a tick before its whole
ticks pass the timeout. Ages saturate two past their limit, beyond which nothing tells them
apart.

### MotorController

`MainTick` is one pass of the control loop: `smf_run_state` with every transition it
takes (exit, change of the current state, entry), the ramp and the outputs. It is one
step because nothing has a higher priority. A packet handler is a walk of the program
counter `pc["proto"]` over its statement groups (`StoreLeft`, `StoreRight`, ...,
`entry_pwm`, `entry_en`, `entry_targets`); a tick may come between any two. The
shell walks likewise and runs only while the protocol thread is idle.
`TicksPerHandler` bounds the ticks within one handler: 1, since a handler of a few
microseconds sees at most one of a 10 ms timer. The lift GPIO, the STATUS reply and
the reporting thread do not touch this state.

### PorterStateMachine and BootSupervisor

`StateTick` dispatches to one handler per state, as `_tick` does; `HealthStatus` is
the subscription, `RequestRecovery` and `Shutdown` the services, `DeferredShutdown`
the one-shot timer. `BootSupervisor` knows only trying / up / failed / gaveup / off
and the number of tries, and has a request for a restart as the code treats it; the refinement maps the nine states onto `phase`.

### YdlidarDriver

The adapter's retry loops are a program counter (`boot_init`, `boot_start`, `spin`,
`init`, `start`) whose SDK answers are free. `ScanCallback` is a read that fails, a
bad geometry or a scan; the checks at the head of `initialize` and `start_scan` are left
out, and `AdapterDiscipline` shows that they never have anything to do; the health window is a sequence of records of the distinctions
`get_health` makes. A reconnect blocks the executor, so no callback runs in it.

### LidarHealthMonitor and LidarSupervision

The composition joins monitor and machine by a queue. Assumed: the two 2 Hz timers
drift by at most one tick, and a message is delivered before the second state tick
after it was sent. What the driver sends is unrestricted.

### MotorBridge and MotorLink

A callback of the bridge is one step, or two when its write has to wait: `SendCommand`
succeeds, fails and closes the port, or leaves its packet in `writing`, since
`SerialPort::write` tries again for as long as the port has no room
(`serial_port.cpp:130`). No other callback runs until `EndWrite`, which may never come.
`due` holds timers that have fired and whose callbacks have not run, in any order.
`Reconnect` flushes a suffix of what was written. The status and reconnect timers may fire
at any time, which allows more than the code does.

The composition is the firmware, tick by tick and handler by handler as in
`MotorController`, with the bridge at the other end of the line. There are two clocks: a
tick is one of the control loop (10 ms), which is where the firmware compares the age of
the heartbeat, and every `TicksPerPeriod`-th of them (the code: the tenth) also ends a
period of the watchdog timer of the bridge. So an expiry that lasts for one control tick is
one, whichever part of the bridge's period it falls into. A callback may run at once or
wait for any number of ticks; `behind` counts them, and `disturbed` remembers that one has
waited for more than `Lateness`, that a write held the executor, or that a connection has
ended. Assumed of the line: a packet is handled before the second tick after it was written
(a packet of 11 bytes takes 1 ms at 115200 baud), also when the port has been closed in
between, as the driver transmits what it holds; while a write finds no room the line may
stand still. Assumed of the clocks: a period of the bridge is a whole number of ticks.
The firmware sleeps for 10 ms *between* two runs of its loop (`main.cpp:723`), so a real tick is a
little longer and 500 ms a little less than 50 of them, which the nine ticks of `Lateness`
have to make up for. A crash, in the middle of a write too, and an orderly end of the bridge
are included; a restart is not, as a container takes longer to come up than the heartbeat
timeout, nor is a reset of the ESP32 by opening its port.

### Protocol and PacketLine

The parser's states, header bytes, limits and the CRC are the real ones. Every byte
that leaves the encoder goes through two parsers: as the firmware calls it (reset after
a packet) and as the bridges do (reset after an error too). A byte may be lost or have
a bit flipped. What parser fields hold when they will be overwritten before they are
read is abstracted to a reset.

### SensorFusion

A run of main is two steps, `StartRun` up to the sleep in the ToF measurement and
`EndRun` from there; `wait` is the time until main wakes, `Tick` lets 25 ms pass. A
reset is a walk of `pc` that proceeds while main sleeps. `Change` breaks or repairs a
distance sensor; only the last tick before main looks matters, hence its guard. The
Kalman estimate, cross-validation, microwave baseline and reports decide no transition
and are left out.

### InferenceEngine, KnowledgeBase and ConversationOrchestrator

The engine has no thread of its own: it is one record, and its methods are operators
from the record before to the record after (a set of them where llama.cpp or the disk
decide). The same holds of the retriever, of which tokens and cosines come from outside;
the boosts, the ranking, the cut chunk and the budget are the code's. The keyword index is
read as what it is asked for, the number of a document's entries under the phrases that a
question mentions (`Entries`), and the sort as the place that each document gets (`Place`). `ConversationOrchestrator`
makes the steps. `job[c]` is the position of caller `c` in `process_query`, in the
generator `process_query_stream`, or in a bare `InferenceEngine.query`; a step ends
wherever another thread, the disk or a client can get in, above all between the two
halves of `switch_adapter` (`Unload`, `Load`) and at each `yield` (`event`). A text is a
sequence of tokens of which one may be a tool call, or a call that is no object, on
which `parse_tool_call` raises.

### AssistantNodes

`kind` says which node was launched. `doing` is the callback that runs; it ends before
the next one begins, while messages wait in `queue`, model files come and go and time
passes. Start, warmup, both callbacks, the cleanup, the clearing of a session and the
diagnostics are actions; `get_status` only reads.

### AiServer and Conversation

Each connection is a thread of `Threads`; `Main` loads, warms up, serves and, on Ctrl-C,
unloads without the lock. A client connects (`Connect`), and its body comes when it likes, or
never (`Body`): the read has no timeout, and until it ends the thread does nothing. `conn[c]` is where the handler stands, `Work(c)` the steps of
the orchestrator in it, `Send` the write of one event to `client[c]`, which may read,
stall or be gone. An exception, a broken pipe and the end of the generator each leave
by an action of their own, which is where the lock could be kept or the exchange half
stored. `Conversation` knows only a memory of exchanges for each session; the refinement
reads the histories in pairs, so that half an exchange has no image.

### Observability

The three nodes are processes that neither wait for nor answer one another, so a
behaviour follows one of them (`node`) with the clock and the disk. `DailyFiles` is what
two of them share: a line that cannot be flushed waits in the file object, a rotation
must flush it, and nothing catches the exception if that fails. An incident file is
named by the second; a tick is a second for the journal, half a day for the files.

### ScanFilters and LidarProcessor

A reading is a whole number of 1/600 m or NaN, so that the means and medians of a few
whole metres are exact. `config` is what the filters read, `parameters` what the
parameter services show: the callback keeps them together, the service that switches the
filters does not. The node remembers nothing of a scan, so one scan for each
configuration shows everything (`out`).

## 3. Runs

All pass unless marked. Times are for two workers.

| Run | Shows | Bounds |
|---|---|---|
| `motor_controller` | all interleavings of ticks with half-executed handlers: `StopMeansStopped`, `DeadMan`, `AtRest`, `StaleCommandsDie`; live: `StopLatches`, `SilenceStopsMotors` | one speed beyond the clamp and zero, duty to 2, ramp 1, heartbeat 2 ticks, fault delay 1; 490 000 states, 75 s |
| `motor_reset_clears_stop` | violated: `ResetClearsStop` | as `motor_controller` |
| `state_machine` | `OperationalIsFresh`, `OperationalNeedsOK`, refinement `SupervisorSpec`; live: `SilenceEndsInError`, `ShutdownEnds` | periods of 1 to 3 ticks, 2 recoveries |
| `ydlidar_driver` | `AdapterDiscipline`, `NeverStranded`; live: `RecoversByItself`, `DeadDeviceReported` | window 3, failure limit 2, reconnect at 3, 2 retries |
| `lidar_supervision` | `LostScansNoticed` | scan and diagnostics timeouts 1, health timeout 2, scans 4 ticks past the limit told apart; 2.8 M states, 30 s |
| `motor_link` | `LostLinkStops`, `HealthyLinkNeverFaults`, `SilenceStops` | 2 ticks in a period of the bridge, a callback on time waits for 1 of them, heartbeat and `/cmd_vel` timeout of one period, heartbeat timeout of 6 ticks, one packet lost in a row, one under way and one being written, one speed, a tick in a handler; 2.0 M states, 75 s |
| `protocol` | `DamageIsLocal`, refinement `LineSpec` | real CRC and sizes, one damaged byte; 19 000 states |
| `sensor_fusion` | `ConfidentIsFresh`; live: `StateFollowsSensors` | 25 ms ticks with the real 50 ms and 100 ms periods, 2 calibration samples, resets of the protocol thread; 760 000 states, 100 s |
| `assistant_nodes` | `ExpiredIsForgotten`; live: `LostModelReported`, `QuestionsEnd` | 2 questions, queue of 1, a LoRA file that comes and goes, 2 tool rounds, history of one exchange; 410 000 states, 130 s |
| `ai_server` | `RightModel`, `StreamsWellFormed`, `AnsweredIsRemembered`, `ContextStaysTrue`, `ContextWithinBudget`, refinement `ImplementsConversation`; live: `RequestsEnd` | 2 connections and 2 requests on one session, streams of one token, 1 tool round, one deployment of model files (a base model, a merged one, a LoRA file), 3 documents; 172 000 states, 80 s |
| `observability` | `HistoryUnbroken`, `TriggersAreKept`, `YoungFilesKept`, `FullDiskIsLoud` | two seconds and 4 events for a buffer of 3; three days of two ticks, files kept for one day; the disk fills up twice; 510 000 states, 20 s |
| `lidar_processor` | `NothingInvented`, `OutsideIsBlank`, `WallSeen` | all scans of 5 rays of nothing, 1 m, 3 m or 13 m (beyond the clamp), under every combination of the filters, two kernels of the rejection and two regions; 520 000 states, 90 s |

**Why the bounds are enough.** Handlers compare an age with a limit and nothing else, so
a limit of two or three ticks has every case: before, at and after. Counters have room
for two steps below their limit. In `Protocol` the alphabet is the real one; a payload
begins with a header byte, so that a false start inside a packet occurs. `SensorFusion`
keeps the ratio of the code's periods because its hazards are about one taking longer
than another; the shell's reset takes the same steps as that of the protocol thread, and
only `MotorController` runs both. Two connections on one session are the smallest case
of each hazard of the server (a holder of the lock and one that was let in before the
model went), two requests let one thread come back; a history of one exchange makes
every second exchange push one out; four documents would only add ties, of which three
already have one; that there is no file for an adapter is a case of `assistant_nodes`,
and of the theorem for every set of files. The link's heartbeat timeout is the shortest
that leaves one heartbeat to lose and the next one to come a tick late (the code: 200 ms,
500 ms and up to 90 ms); two ticks in a period are the fewest that tell the clocks apart;
a line that holds more, a handler without a tick inside it and a speed of zero (which
`motor_controller` has in its run) were checked once, and every other instance is covered
by the theorems of section 5, of which the run checks the smallest. The journal's hazards lie within one second and across the next, the files' in
midnight, the day after and the day of removal. Five rays hold a window of five in the
middle and cut ones at both ends.

**Tight numbers.** `NoticeLag` (5), `LostLag` (2 and the ticks that a handler can take, 3
together), `QuietLag` (1, those ticks and `Lateness`, 3 together), `LossLimit` (12) and `FreshBound` (7 ticks, 175 ms) are
the smallest values that pass, which no document states. With one less, TLC shows the
schedule that needs it. They are tight for the models, so for the code only up to the tick
that an age is rounded by: the 25 ms that stand for the ToF sensor's sleep of 30 ms, for
one, make 180 ms of the 175 (the theorem takes any sleep). `HealthyLinkNeverFaults` is
tight too: with `HeartbeatTimeout` = 5 it holds for `Lateness` = 0 and fails for 1.

**Limits of what passes.** `MaxLost` = 1 is an assumption about the line, and that a
heartbeat waits for no more than 90 ms one about the executor, which a write to a full port
can break by itself. A heartbeat lost and the next one later than that, or two lost in a
row, send the real firmware into FAULT, and nothing in the bridge clears it;
`HealthyLinkNeverFaults` promises only what it says, an undisturbed link. One flipped
bit in a length can cost twelve packets (`DamageIsLocal`), longer than the heartbeat
timeout, after which the firmware is in FAULT and the bridge has no reset to send.
With two damaged bytes TLC finds a wrongly accepted frame, a CRC collision, so
`LineSpec` is claimed for one. The twelve are those of the two packets of the run, a
heartbeat and a speed that begins with a header byte; a payload that holds a whole header
(AA 55) is not among them. `ConfidentIsFresh` excepts runs in CALIBRATING and
FAULT, which publish what was there before. `SilenceEndsInError` excepts WARN in
HEALTH_CHECK and `SilenceStops` a lost stop: see section 4. `SilenceStops` counts the
ticks at which the executor is on time. `SupervisorSpec` promises what the code keeps of
the retries, not what its documentation says of them (section 4). `LostScansNoticed` starts
from the first scan, and `YoungFilesKept` counts a line as taken only when the disk took it.
`BlindnessNoticed` (a part of `StateFollowsSensors`) accepts DEGRADED because a
microwave sensor never degrades. `RequestsEnd` excepts a connection whose body has not come, for as long as its client
neither sends nor closes (the server reads without a timeout), a client that does not read
its stream, and everyone else while such a client holds the lock. The context of
`ContextWithinBudget` is its chunks: the header above them and the line breaks between them
are counted neither in the code nor in the model. `TriggersAreKept` excepts incidents of a second in which the disk was full.
`FullDiskIsLoud` states a defect that the code really has, so that a repair of it will
be noticed.

**Deadlock** is checked for the motor controller, the link, the protocol, the sensor
fusion, the assistant nodes and the LIDAR processor, which never stop. The state machine,
the driver, the supervision and the server end with their process, and the observability
nodes with their horizon, so there it is off.

**Fairness.** Each assumption comes from a scheduler. Motor controller: the control
loop and handlers that have begun run on (weakly fair), the shell strongly fair since
the protocol thread sleeps between polls. State machine: its two timers. Driver: an
executor round runs each due timer once, so neither callback is kept out by the other
(strong). Sensor fusion: main and time weakly, a reset strongly, since it only runs in
main's sleeps. Assistant nodes: a callback that has begun runs on (weak); the
subscription and the diagnostics timer are taken strongly fair, as the executor takes
each that is due in its turn. AI server: every thread runs on (weak), once it has read its body; the lock has no
fairness of its own, and a thread gets it because the requests are bounded. Requests,
their bodies, messages, clients, SDK answers, the disk and time in the server are never fair.
`observability` and `lidar_processor` check safety only.

## 4. What the models showed

One disagreement is kept as a run:

1. After one CMD_MOTOR_STOP no CMD_RESET leaves ESTOP for longer than a tick:
   `idle_run` reads the old message again, while `main.cpp:372` calls the state
   "latched ... requires explicit CMD_RESET" (`ResetClearsStop`).

The rest is how the code behaves, met while modelling it; the models have it that way,
and the properties of section 3 say what holds all the same.

*State machine.* Its documentation promises more of a recovery than it does.
`porter_state_machine.py:55` has "`~/request_recovery` (Trigger) — forces transition to
RECOVERY", and so has line 334; the callback goes to ERROR (:348), which recovers only if
attempts are left. Line 273 has "Transitions to RECOVERY if attempts remain, SHUTDOWN if
exhausted"; the handler stays in ERROR (:284, where a comment says so). So once the attempts
are spent a request answers "Recovery initiated" (:350) and does nothing, for good; during
the last attempt it ends the boot that was under way and starts none. `BootSupervisor` has
this as the code does: `AskRestart` counts as a failure and changes nothing in `gaveup`,
which only switching off leaves.

*Supervision.* HEALTH_CHECK tolerates WARN for ever. Before its first scan the driver
reports OK while its window holds only a few failures, and the system boots on that.

*Motor link.* The bridge's watchdog sends one stop; if it is lost, heartbeats keep the
motors turning. Bridge and firmware disagree about the byte order of speeds, and so do
they about the distance report.

*Assistant.* Both nodes read the system prompts into a `PromptManager` that the engine
is never given (`assistant_node.py:174`, `orchestrator_node.py:176`); only the server
calls `load_system_prompts` and `load_tool_schemas`. A failed switch leaves no model,
and nothing but a restart brings one back. `parse_tool_call` raises on a call that is a
JSON number or null. A question on the topic that is not a string raises outside the
`try` of `orchestrator_node.py:304` and ends the node (the messages of the model have
strings). `_humanize_tool_response` (`ai_server.py:106`) is never called. A client that
stops reading its stream holds the lock for as long as it likes.

*Observability.* The journal listens on `/orchestrator/state`, the state machine
publishes `/porter/state` (`porter_state_machine.py:88`); `buffer_seconds` is never used;
an incident of the same second overwrites the one before it, which its own buffer still
contains. JSON scalars on the battery and current topics, and a JSON string on the
fallback topic of the hardware, end the metrics node; a rotation with unflushed lines on
a full disk ends either node that rotates. The privacy filter looks for
`/ai_assistant/` in a message, while the topics are `/porter/ai_...`. Readings of the
hardware never expire.

*LIDAR processor.* The service that switches the filters leaves their parameter as it
was. The Python and the C++ pipeline differ in the order and the kind of their stages.

## 5. Proofs

Every safety invariant and action property that a run checks is also a theorem, for every
value of the constants that the named assumptions allow, but for the two that depend on
what a CRC can tell apart (at the end of this section). A component's proofs are in a module
with those of the component it is composed with, since the theorems about the whole use the
invariants of the part.

### Motor controller and link (`MotorLink_proofs`)

*The controller*, for every speed range, ramp step, timeout and both values of
`TicksPerHandler`: `TypeCorrect`, `StopSafe`, `DeadManSafe`, `RestSafe`, `StaleSafe`. None
of these properties is inductive: a handler that is preempted between two statements passes
through states where outputs are on in IDLE. `SafetyInv` says which statement is then still
to come: `RestInv` ties outputs in IDLE to a reset that stands before switching them off,
`StopInv` says the targets and actuals are zero from the moment the stop has passed them,
`StaleInv` that a command stored in FAULT outlives it only in a reset with no tick left to
ramp it. One lemma covers the tick, one the handlers, one the requests. This is also where
the one-tick bound per handler is needed.

*The link.* `LinkImplementsController`: behind a bridge and a line the controller is still
`MotorController`, step by step, so everything above holds of it. On top of it stand
`LinkTypeCorrect` and the three properties of the run, each with an invariant of its own
in `MotorLink`:

- `LostLinkSafe`: the motors stand `LostLag` ticks after the heartbeat timeout when the
  connection is gone. `LostInv` follows the three phases: the line runs dry in two ticks,
  the last handler ends `TicksPerHandler` ticks later, and from then on the heartbeat ages
  with every tick.
- `SilenceSafe`: the same of silence on `/cmd_vel`, if the one stop of the watchdog
  arrives. `ExpiryInv` relates the ticks since the last message to the bridge's own clock, which
  counts periods, so that the watchdog is known to have run (`SilentIdle`); `SilenceInv`
  follows the stop from there: it is being written, it is on the line, it has waited for a
  tick, it is being handled, it is in force.
- `HealthyLinkSafe`: an undisturbed link never sends the firmware into FAULT, at whichever
  control tick it looks, under `HeartbeatsSuffice`: the timeout leaves `MaxLost` heartbeats
  to lose and the next one to come `Lateness` late. In ticks of the code, with one packet
  lost, that is 2 * 20 + `Lateness` < 50. `HealthInv` bounds the age of the heartbeat by one
  of its periods for each packet lost since the last one handled and for each that has
  waited, by the part of the period that runs, and by one more while a heartbeat of this
  period is due, being written or on its way.

### State machine and supervision (`LidarSupervision_proofs`)

*The machine*, for every timeout (health timeout of at least two ticks; the code has 5 s at
2 Hz) and every number of recoveries: `TypeCorrect`, `FreshnessSafe`, `NeedsOKSafe`,
`Refinement`. The boot handlers never look at the age of the level; freshness at READY
holds because each boot state lasts one tick on OK (`FreshInv`). `BudgetInv` (RECOVERY only
with an attempt left) gives the refinement step of a retry. With a health timeout of one
tick freshness would fail, which is why the assumption is there.

*The supervision.* `JointImplementsMachine`: with the monitor at the other end of the topic
the machine is still `PorterStateMachine`. `LostScansSafe`: it has left every working state
`NoticeLag` ticks after the scan timeout, for every timeout. The argument counts along the
way of an alarm. `TopicInv`: at most one message more than the monitor's timer leads has
waited for no state tick. `AlarmInv`: from the second missed tick on all the monitor has
sent is critical, and once the first of it is delivered the machine acts on nothing better.
`NoticeInv`: so many state ticks later the machine is in no working state. `LevelInv` closes
the gap that a forgotten level opens, UNKNOWN after a new boot attempt.

### LIDAR driver and processor (`LidarPipeline_proofs`)

*The driver*, for every window, limit and number of retries: `TypeCorrect`,
`DisciplineSafe`, `StrandedSafe`, from an invariant that adds `RetryInv`, what the adapter
and the failure count are at each place of the retry loops.

*The processor*, for scans of any length and parameters of any value: `OutsideStaysBlank`
(the last two stages blank what is outside), `NothingIsInvented` (a published reading lies
between two that were measured within reach of its ray) and `WallIsSeen` (a wall with one
spike that the rejection can tell is published as a wall). `ChainInv` says that the
configuration follows the parameters but for the switch, and that what was published is the
chain applied to the scan. Under it each filter has a lemma: a median is one of the readings
of its window, a mean lies between two of them, the rejection only takes readings away.

### Observability (`Observability_proofs`)

For every buffer, retention, number of events and days, and a disk that fills up at any
time: `HistoryIsUnbroken`, `TriggersSafe`, `YoungFilesSafe`, and the action property
`FullDiskLoud`. `NodesInv` has a part for each node. `BufferInv` says that the buffer of
the journal holds the last events by their numbers, in one unbroken chain of transitions, so
the same is true of what is frozen of it; `TriggersInv` that a trigger is an event of the past.
`StoreInv`, stated once for the two nodes that write files, says that what waits to be
flushed is of the day of the open file, that this file is removed only when it is old, and
that a line which was taken is in the file of its day or waits for it.

### Protocol (`Protocol_proofs`)

For every set of packets and every way a byte can be damaged: `SamePackets`, the firmware
and the bridges accept the same packets although they reset the parser at different times
(`AgreeInv`: the two parsers are the same, or the firmware's is in its error state and the
bridges' reset, and the next byte makes them the same again), and `NoOverrun`, no payload is
ever longer than the buffer it is put in (`BufferInv`: the length is within the limit, and
the payload below the length for as long as bytes are still put into it). The second assumes
of the CRC only that what is encoded, and what the line makes of it, are bytes
(`WireAssumption`).

As long as no byte has been damaged, nothing is lost and the line is `PacketLine`, for
packets of every length: `UndamagedLosesNothing` and `UndamagedLine`. `UndamagedInv` relates
the parser to the bytes that have left the encoder, field by field (`Progress`); `CrcGrows`
says that the CRC the parser computes byte by byte is the one the encoder computes of the
whole, and `Body` what both of them compute it of.

### Sensor fusion (`SensorFusion_proofs`)

For every timeout, sleep and answer time: `TypeCorrect`; `FreshDistances`, that
`ConfidentIsFresh` holds for every `FreshBound` of at least a sensor's timeout, the period
of the loop and the sleep of the ToF measurement together; and `FaultIsOffline`, that
between runs FAULT means no sensor is healthy. `FreshInv` counts what is left of the wait as
well: a distance that would get too old before the next run is too old already. `OfflineInv`
says that a healthy sensor in FAULT is one a reset has just cleared, and that the reset goes
on to change the state.

### Assistant (`AiServer_proofs`, `AssistantNodes_proofs`)

`AiServer_proofs` proves for any number of threads, sessions and adapters:

- `LockHeld`, at most one connection works, the one with the lock, and `JobsAreLocked`, a
  connection has a job only while it works. `LockInv` goes action by action through every
  way in which the lock is given back.
- `ModelIsRight`: a question reaches the model it was routed to, or there is no file for
  that, or no model. `MainInv` adds that the main thread has a job only in the warmup, when
  no connection is there yet. Then between `Route` or `Load` and the inference only the
  caller itself can move the engine (`Routed`), except for the unload at the end, after
  which there is no model to be wrong.
- `ContextIsTrue` rests on the same fact: whoever moves a job is alone, so no other question
  of the session is stored between the making of a context and the storing of its exchange,
  and every step before that keeps session and context (`Keeps`).
- `HistoriesAreConversations` is the refinement, `Spec => ImplementsConversation`, for every
  memory of an even number of turns. `SessionsInv` says that each history is questions and
  answers in turn, at most half the memory of each; `ExchangeRemembered` that the two turns
  of an exchange then push out exactly the oldest exchange. `Working` gives whoever stores a
  session that exists, a question and an answer, `Pending` the same of a request that is
  still waiting, and `Warm` keeps the warmup, which has no session, away from storing. That
  the memory is even is an assumption (`OrchestratorAssumption`); with an odd one the cut
  would separate an answer from its question. An answer has room for at least one token.
- `StreamsAreWellFormed` and `AnswersAreRemembered`: what a client has read of a stream is
  the beginning of one stream, and what it was told is what is remembered. `HeardInv` has
  for each place of the generator the stream it has written so far (`Stream`), which is what
  the client has been sent, with the event that is on its way; and once an exchange is
  stored nothing comes between that and the last event of its stream or its reply.
  `EventAssumption`: the tokens of a model are told apart from the types of the events.
- `ContextStaysInBudget`: the knowledge in a context is within its budget, from different
  documents, best first, none worse than one left out, for every library, similarity and
  budget. The state's part is small: the context of a job is what the retriever has for its
  question (`Informed`). The rest is about the retriever's functions: every document found
  has a place of its own, so the ranking is a function (`EveryPlace`, `RetrieveRanks`), and
  after `k` results the chunks taken are those of the first ones, whole, with their sum in
  `used`, or the last of them is cut and nothing more is taken (`Built`, `OneTaken`).

`AssistantNodes_proofs` proves `ExpiredForgotten`, an action property: a question in an
expired session gets a context without history, and without a place it has not named
itself. `RestInv` says the node has no job while no callback runs; so the context can only
have been made by this very step, from a fresh session.

### How

Each inductive invariant was checked by TLC on the instances of the runs before it was
proved; the runs themselves keep the parts that mean something to a reader.

**Induction over data.** The induction theorems of the library cannot be used, as they take
an operator. Where a proof needs induction it is over a *set* of numbers: `SetInduction`
(a set with 0 and every successor is `Nat`) follows from the well-foundedness of `<`, with
`WFMin` for the least number outside. Folds of the community modules are expanded to the
recursive function inside them, which then exists because one can be made step by step
(`FoldExists`), and is walked along the prefixes of a sequence (`FoldStays`, `Adding`,
`Taking`, `Summing`, `CrcGrows`).

**What the proofs changed in the models.** Guards of a `CASE` that overlapped were made
exclusive, as an overlap leaves the choice open. `WallSeen` spoke of any spike; the
proof attempt showed that one of less than the threshold times a centimetre stays, and
that a negative threshold rejects the wall, so it now speaks of a spike beyond the limit
that the rejection sets in a wall. Windows, medians, the keyword index and the ranking,
which were computed by recursion, are defined by what they are, which is also shorter.

**Only model-checked:**

- all liveness: `StopLatches`, `SilenceStopsMotors`, `SilenceEndsInError`, `ShutdownEnds`,
  `RecoversByItself`, `DeadDeviceReported`, `StateFollowsSensors`, `LostModelReported`,
  `QuestionsEnd`, `RequestsEnd` (out of TLAPS' reach);
- `DamageIsLocal` and `LineSpec` on a line that has damaged a byte. Whether a damaged frame
  is told from a good one is a fact about CRC-16-CCITT and the packets that are sent, true
  of one damaged byte and, as TLC shows, not of two. It is a computation over the real
  bytes and follows from nothing that holds of every checksum.

## 6. Not modelled

- **C++ LIDAR processor**: an alternative node, with a launch file of its own and other
  stages; the Python one is what the tests of the repository exercise.
- **Sensor bridge**: port, parser and reconnect are those of the motor bridge; its own
  part converts one report into one message.
- **Transport**: its effect is the line of `Protocol` and `MotorLink`. That two threads
  write bytes on one UART is listed as a hazard: it damages more than the one byte for
  which `Protocol` makes its promises.
- **HAL and drivers**: neither firmware calls them.
- **GUI**: its client and providers hold the state of a screen; what could go wrong there
  (callbacks after an await, a timer that outlives its question) is listed as hazards.
  Layout and painting are not behaviour.
- **Text processing, prompts, tf-idf numbers**: stateless functions of strings; where they
  decide something (a mentioned keyword, a similarity) the models take it as an input.
- **Training, data and benchmark scripts**: offline batch programs.
- **Messages, launch files, Docker, udev, tests, mocks, the vendored SDK**: no behaviour of
  the robot's own. Tests and docs were read for what they expect of the code.
- In the modelled parts: logging, wording, formatting, and parameters and reports that
  decide nothing.
