---------------------------- MODULE MotorBridge ----------------------------
(***************************************************************************)
(* The node esp32_motor_bridge                                             *)
(* (src/src/porter_esp32_bridge/src/esp32_motor_bridge.cpp): velocity      *)
(* commands in, packets for the motor controller out, with a watchdog, a   *)
(* heartbeat and a reconnect timer.  The executor has one thread, so a     *)
(* callback is one step, or two: a write that the port does not take at    *)
(* once is tried again until it does, and holds the executor meanwhile.    *)
(*                                                                         *)
(* Time is counted in periods of the watchdog timer, the shortest of the   *)
(* timers that send.  due holds those of watchdog and heartbeat that have  *)
(* fired and whose callbacks the executor has still to run, in any order;  *)
(* a timer that fires again before that has its callback run once.  The    *)
(* slower status and reconnect timers may fire at any time: no property    *)
(* counts on what their periods rule out.                                  *)
(***************************************************************************)
EXTENDS Ages, Sequences

CONSTANTS
  WheelSpeeds,     \* the pairs of wheel speeds, in percent, asked for on /cmd_vel
  CmdVelTimeout,   \* cmd_vel_timeout
  HeartbeatPeriod, \* heartbeat_interval
  WireCapacity     \* bound: packets under way to the motor controller

VARIABLES
  running,         \* the process runs
  connected,       \* connected_
  cmd_vel_active,  \* cmd_vel_active_
  vel_age,         \* age of last_cmd_vel_time_, kept while cmd_vel_active
  heartbeat_phase, \* periods since the heartbeat timer fired
  due,             \* timers that have fired and have not been served
  writing,         \* the packet whose write holds the executor
  to_motors        \* packets written and not yet handled, oldest first

port_vars == <<connected, writing, to_motors>>

Timer == {"watchdog", "heartbeat"}

\* std::memcpy of an int16_t into the payload: the host is little-endian.
HostBytes(v) == <<v % 256, (v % 65536) \div 256>>

SetSpeed(speeds) == [cmd |-> "SET_SPEED",
                     left |-> HostBytes(speeds[1]), right |-> HostBytes(speeds[2])]
Stop      == [cmd |-> "STOP"]
Heartbeat == [cmd |-> "HEARTBEAT"]
Status    == [cmd |-> "STATUS"]
NoPacket  == [cmd |-> "NONE"]

----------------------------------------------------------------------------
\* The executor runs one callback at a time.
Ready == running /\ writing = NoPacket

\* SerialPort::write takes the packet, or fails and has the port closed.
Write(packet) ==
  \/ /\ Len(to_motors) < WireCapacity
     /\ to_motors' = Append(to_motors, packet)
     /\ UNCHANGED connected
  \/ connected' = FALSE /\ UNCHANGED to_motors

\* send_command: the write ends at once, or finds no room (EAGAIN) and holds the executor.
SendCommand(packet) ==
  /\ connected
  /\ \/ Write(packet) /\ UNCHANGED writing
     \/ writing' = packet /\ UNCHANGED <<connected, to_motors>>

\* A callback that finds the port closed returns at once.
SendIfConnected(packet) ==
  IF connected THEN SendCommand(packet) ELSE UNCHANGED port_vars

\* A write that held the executor ends, and with it the callback.
EndWrite ==
  /\ running /\ writing # NoPacket
  /\ Write(writing)
  /\ writing' = NoPacket
  /\ UNCHANGED <<running, cmd_vel_active, vel_age, heartbeat_phase, due>>

CmdVel(speeds) ==
  /\ Ready
  /\ \/ /\ connected
        /\ cmd_vel_active' = TRUE
        /\ vel_age' = 0
        /\ SendCommand(SetSpeed(speeds))
     \/ ~connected /\ UNCHANGED <<port_vars, cmd_vel_active, vel_age>>
  /\ UNCHANGED <<running, heartbeat_phase, due>>

Serve(timer) ==
  /\ Ready
  /\ timer \in due
  /\ due' = due \ {timer}
  /\ UNCHANGED <<running, heartbeat_phase>>

\* Mutant: the watchdog compares with a timeout twice as long.
WatchdogTooLate ==
  /\ Serve("watchdog")
  /\ \/ /\ cmd_vel_active /\ connected /\ vel_age > 2 * CmdVelTimeout
        /\ SendCommand(Stop) /\ cmd_vel_active' = FALSE /\ vel_age' = 0
     \/ /\ ~(cmd_vel_active /\ connected /\ vel_age > 2 * CmdVelTimeout)
        /\ UNCHANGED <<port_vars, cmd_vel_active, vel_age>>

\* The stop is sent once: the command counts as inactive whatever became of the write.
Watchdog ==
  /\ Serve("watchdog")
  /\ \/ /\ cmd_vel_active /\ connected
        /\ TRUE \in Beyond(vel_age, CmdVelTimeout)
        /\ SendCommand(Stop)
        /\ cmd_vel_active' = FALSE
        /\ vel_age' = 0
     \/ /\ cmd_vel_active /\ connected => FALSE \in Beyond(vel_age, CmdVelTimeout)
        /\ UNCHANGED <<port_vars, cmd_vel_active, vel_age>>

\* Mutant: heartbeats are sent only while velocity commands come.
HeartbeatOnlyWhenActive ==
  /\ Serve("heartbeat")
  /\ IF cmd_vel_active THEN SendIfConnected(Heartbeat) ELSE UNCHANGED port_vars
  /\ UNCHANGED <<cmd_vel_active, vel_age>>

HeartbeatCallback ==
  /\ Serve("heartbeat")
  /\ SendIfConnected(Heartbeat)
  /\ UNCHANGED <<cmd_vel_active, vel_age>>

\* One poll a second: the line has carried one before the next.
StatusPoll ==
  /\ Ready /\ connected
  /\ \A i \in DOMAIN to_motors : to_motors[i] # Status
  /\ SendCommand(Status)
  /\ UNCHANGED <<running, cmd_vel_active, vel_age, heartbeat_phase, due>>

\* SerialPort::open flushes what has been written and not yet transmitted.
Reconnect ==
  /\ Ready /\ ~connected
  /\ connected' \in BOOLEAN
  /\ \E n \in 0 .. Len(to_motors) : to_motors' = SubSeq(to_motors, 1, n)
  /\ UNCHANGED <<running, writing, cmd_vel_active, vel_age, heartbeat_phase, due>>

\* serial_read_callback: what is read is only published; an error closes the port.
ReadError ==
  /\ Ready /\ connected
  /\ connected' = FALSE
  /\ UNCHANGED <<running, cmd_vel_active, vel_age, heartbeat_phase, due, writing, to_motors>>

\* The destructor sends a stop if the port is open; a crash, which may come in the middle
\* of a write, sends nothing.
Terminate ==
  /\ running
  /\ running' = FALSE
  /\ connected' = FALSE
  /\ writing' = NoPacket
  /\ to_motors' \in {to_motors} \cup
       (IF connected /\ writing = NoPacket /\ Len(to_motors) < WireCapacity
        THEN {Append(to_motors, Stop)} ELSE {})
  /\ cmd_vel_active' = FALSE /\ vel_age' = 0
  /\ heartbeat_phase' = 0 /\ due' = {}

\* A period of the watchdog timer passes.
Elapse ==
  LET beat == heartbeat_phase + 1 = HeartbeatPeriod IN
  /\ vel_age' = IF cmd_vel_active THEN Aged(vel_age, CmdVelTimeout) ELSE 0
  /\ IF running
     THEN /\ heartbeat_phase' = IF beat THEN 0 ELSE heartbeat_phase + 1
          /\ due' = due \cup {"watchdog"} \cup (IF beat THEN {"heartbeat"} ELSE {})
     ELSE UNCHANGED <<heartbeat_phase, due>>
  /\ UNCHANGED <<running, port_vars, cmd_vel_active>>

\* The constructor tries to connect once.
Init ==
  /\ running = TRUE
  /\ connected \in BOOLEAN
  /\ cmd_vel_active = FALSE /\ vel_age = 0
  /\ heartbeat_phase = 0 /\ due = {}
  /\ writing = NoPacket /\ to_motors = <<>>

----------------------------------------------------------------------------
=============================================================================
