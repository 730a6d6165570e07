----------------------------- MODULE MotorLink -----------------------------
(***************************************************************************)
(* The motor bridge, the serial line and the motor controller together.    *)
(* The line keeps the order of packets and may lose them: a damaged packet *)
(* fails its CRC and is dropped.                                           *)
(*                                                                         *)
(* A tick is a control tick of the firmware; every TicksPerPeriod of them  *)
(* a watchdog period of the bridge ends.  A packet is handled before the   *)
(* second tick after it was written, unless the line stands still because  *)
(* a write of the bridge finds no room; TicksPerHandler ticks fall inside  *)
(* its handler.  The executor may keep a callback waiting for any time:    *)
(* the bounds below count the ticks at which it is on time.                *)
(***************************************************************************)
EXTENDS MotorController, Sequences

CONSTANTS
  WheelSpeeds, CmdVelTimeout, HeartbeatPeriod, WireCapacity,  \* of the bridge
  TicksPerPeriod,  \* control ticks in a period of the watchdog timer
  Lateness,        \* ticks that a callback on time may wait for the executor
  MaxLost          \* packets that may be lost in a row

\* An int16_t, whose highest bit counts Sign.
Sign == 32768
Int16 == (0 - Sign) .. (Sign - 1)

ASSUME LinkAssumption ==
  /\ Int16 \subseteq Speeds
  /\ WheelSpeeds \subseteq Int \X Int
  /\ CmdVelTimeout \in Nat
  /\ HeartbeatPeriod \in Nat \ {0}
  /\ WireCapacity \in Nat \ {0}
  /\ TicksPerPeriod \in Nat \ {0}
  /\ Lateness \in 0 .. TicksPerPeriod - 1
  /\ MaxLost \in Nat

VARIABLES
  running, connected, cmd_vel_active, vel_age, heartbeat_phase, due,
  writing, to_motors,
  phase,       \* ticks since the last period of the bridge ended
  behind,      \* ticks that the callbacks in due have waited, at most Lateness
  waited,      \* packets under way that have waited for a tick
  lost,        \* packets lost since the last one handled
  quiet,       \* history: ticks on time since the last message on /cmd_vel; of those
               \* without a connection no more than the timeout count
  down,        \* history: ticks since the bridge lost its connection
  disturbed,   \* history: a connection has ended, or the executor was not on time
  stop_lost    \* history: the latest stop of the watchdog did not reach the firmware

Bridge == INSTANCE MotorBridge

\* The timeouts of the bridge in ticks; its watchdog looks once a period.
TimeoutTicks == TicksPerPeriod * CmdVelTimeout
QuietTicks   == TicksPerPeriod * (CmdVelTimeout + 1)
BeatTicks    == TicksPerPeriod * HeartbeatPeriod

\* What is left to do when those are over.  A packet waits for a tick and is handled before
\* the next, and ticks fall inside the handler; a stop has its callback wait before that, and
\* a heartbeat that was the last to be handled is found expired at one more tick.
QuietLag == Lateness + 1 + TicksPerHandler
LostLag  == 2 + TicksPerHandler

bridge_vars  == <<running, connected, cmd_vel_active, vel_age, heartbeat_phase, due, writing>>
clock_vars   == <<phase, behind>>
line_vars    == <<waited, lost>>
history_vars == <<quiet, down, disturbed, stop_lost>>
link_vars == <<bridge_vars, to_motors, vars, clock_vars, line_vars, history_vars>>

----------------------------------------------------------------------------
\* The firmware reads the first byte of a speed as the high one.
FromPayload(bytes) ==
  LET u == bytes[1] * 256 + bytes[2] IN IF u >= Sign THEN u - 2 * Sign ELSE u

Receive(packet) ==
  CASE packet.cmd = "SET_SPEED" ->
         ReceiveSetSpeed(FromPayload(packet.left), FromPayload(packet.right), FALSE)
    [] packet.cmd = "STOP" -> ReceiveStop
    [] OTHER -> ReceiveOther

----------------------------------------------------------------------------
LinkInit ==
  /\ Bridge!Init
  /\ Init
  /\ phase = 0 /\ behind = 0
  /\ waited = 0 /\ lost = 0
  /\ quiet = 0 /\ down = 0 /\ disturbed = FALSE /\ stop_lost = FALSE

Served == pc["proto"] = "idle"

Carries(line, cmd) == \E i \in DOMAIN line : line[i].cmd = cmd

AtMost(limit, n) == IF n > limit THEN limit ELSE n
Counted(ticks, limit) == AtMost(limit, ticks + 1)
KeepQuiet == quiet' = IF connected' THEN quiet ELSE AtMost(TimeoutTicks, quiet)

\* The statements of a handler commute with the callbacks of the bridge, which wait for them.
OfBridge ==
  /\ Served
  /\ behind' = IF due' = {} THEN 0 ELSE behind
  /\ disturbed' = (disturbed \/ (connected /\ ~connected'))
  /\ waited' = AtMost(Len(to_motors'), waited)
  /\ down' = IF connected' = connected THEN down ELSE 0
  /\ UNCHANGED <<vars, phase, lost>>

Drive(speeds) ==
  /\ Bridge!CmdVel(speeds)
  /\ OfBridge
  /\ quiet' = 0
  /\ stop_lost' = (stop_lost /\ ~connected)

Watchdog ==
  /\ Bridge!Watchdog
  /\ OfBridge
  /\ KeepQuiet
  /\ stop_lost' = (stop_lost \/ (connected /\ ~connected'))

OtherCallback ==
  /\ \/ Bridge!HeartbeatCallback \/ Bridge!StatusPoll \/ Bridge!Reconnect
     \/ Bridge!ReadError \/ Bridge!Terminate
  /\ OfBridge
  /\ KeepQuiet
  /\ stop_lost' = (stop_lost \/ (Carries(to_motors, "STOP") /\ ~Carries(to_motors', "STOP")))

EndWrite ==
  /\ Bridge!EndWrite
  /\ OfBridge
  /\ KeepQuiet
  /\ stop_lost' = (stop_lost \/ (connected /\ ~connected' /\ writing.cmd = "STOP"))

Handle ==
  /\ Served
  /\ to_motors # <<>>
  /\ Receive(Head(to_motors))
  /\ to_motors' = Tail(to_motors)
  /\ waited' = IF waited = 0 THEN 0 ELSE waited - 1
  /\ lost' = 0
  /\ UNCHANGED <<bridge_vars, clock_vars, history_vars>>

Lose ==
  /\ Served
  /\ to_motors # <<>>
  /\ lost < MaxLost
  /\ to_motors' = Tail(to_motors)
  /\ waited' = IF waited = 0 THEN 0 ELSE waited - 1
  /\ lost' = lost + 1
  /\ stop_lost' = (stop_lost \/ (Head(to_motors).cmd = "STOP"))
  /\ UNCHANGED <<bridge_vars, vars, clock_vars, quiet, down, disturbed>>

HandlePacket ==
  /\ HandlerStep("proto")
  /\ UNCHANGED <<bridge_vars, to_motors, clock_vars, line_vars, history_vars>>

\* No write holds the executor, and no callback has waited for Lateness ticks.
OnTime == writing = Bridge!NoPacket /\ (due # {} => behind < Lateness)

\* The part of the bridge in a tick: every TicksPerPeriod-th ends its period.
BridgeTick ==
  IF phase + 1 = TicksPerPeriod
  THEN phase' = 0 /\ Bridge!Elapse
  ELSE phase' = phase + 1 /\ UNCHANGED <<bridge_vars, to_motors>>

Tick ==
  /\ waited = 0 \/ writing # Bridge!NoPacket
  /\ MainTick
  /\ BridgeTick
  /\ behind' = IF due = {} THEN 0 ELSE Counted(behind, Lateness)
  /\ waited' = Len(to_motors)
  /\ quiet' = IF OnTime
              THEN Counted(quiet, IF connected THEN QuietTicks + QuietLag + 1 ELSE TimeoutTicks)
              ELSE quiet
  /\ down' = IF connected THEN 0 ELSE Counted(down, HeartbeatTimeout + LostLag + 1)
  /\ disturbed' = (disturbed \/ ~OnTime)
  /\ UNCHANGED <<lost, stop_lost>>

LinkNext ==
  \/ \E speeds \in WheelSpeeds : Drive(speeds)
  \/ Watchdog
  \/ OtherCallback
  \/ EndWrite
  \/ Handle
  \/ Lose
  \/ HandlePacket
  \/ Tick

LinkSpec == LinkInit /\ [][LinkNext]_link_vars

----------------------------------------------------------------------------
AtStandstill == pwm = Stopped

\* "ESP32 stops motors if heartbeat lost" (README of the bridge): when the connection is
\* gone, whatever was under way, the motors stand LostLag ticks after the heartbeat
\* timeout at the latest.
LostLinkStops == ~connected /\ down > HeartbeatTimeout + LostLag => AtStandstill

\* A heartbeat timeout shorter than what the bridge keeps up would leave the robot in
\* FAULT for good (nothing sends a reset): as long as the connection has never ended, the
\* executor has been on time and no more than MaxLost packets are lost in a row, the
\* heartbeat never expires, at whichever control tick it is looked at.
HealthyLinkNeverFaults == fault_code # 0 => disturbed

\* The timeout of the firmware leaves the bridge MaxLost heartbeats to lose and the next
\* one to come late.  In the code, in ticks of 10 ms, 2 * 20 + Lateness < 50 for one
\* lost packet: a heartbeat may wait for 90 ms; two losses in a row are one too many.
Beats(n)  == BeatTicks * n
HeartbeatsSuffice == Beats(MaxLost + 1) + Lateness < HeartbeatTimeout

\* "Watchdog: stops motors if no /cmd_vel" (README of the bridge): with nothing more on
\* /cmd_vel and a connection that lasts, the motors stand QuietLag ticks on time after the
\* first period past the timeout at the latest (and after the first one of a connection
\* gained later), if the one stop that the watchdog sends arrives.
Unattended == connected /\ quiet > QuietTicks + QuietLag
SilenceStops == Unattended => AtStandstill \/ stop_lost

----------------------------------------------------------------------------
(***************************************************************************)
(* The inductive invariant behind the three.                               *)
(***************************************************************************)

Byte   == 0 .. 255
Packet == [cmd : {"SET_SPEED"}, left : Byte \X Byte, right : Byte \X Byte]
            \cup [cmd : {"STOP", "HEARTBEAT", "STATUS"}]

LinkTypeOK ==
  /\ running \in BOOLEAN /\ connected \in BOOLEAN /\ cmd_vel_active \in BOOLEAN
  /\ vel_age \in Nat
  /\ heartbeat_phase \in 0 .. HeartbeatPeriod - 1
  /\ due \subseteq Bridge!Timer
  /\ writing \in Packet \cup {Bridge!NoPacket}
  /\ to_motors \in Seq(Packet)
  /\ phase \in 0 .. TicksPerPeriod - 1
  /\ behind \in 0 .. Lateness
  /\ waited \in 0 .. Len(to_motors)
  /\ lost \in 0 .. MaxLost
  /\ quiet \in Nat /\ down \in Nat
  /\ disturbed \in BOOLEAN /\ stop_lost \in BOOLEAN
  /\ connected => running
  /\ writing # Bridge!NoPacket => connected
  /\ due = {} => behind = 0

\* The bridge asks for speeds and stops, never for a reset.
HandlerRuns == pc["proto"] # "idle"
SpeedRuns   == pc["proto"] \in {"left", "right", "ramp"}
StopRuns    == pc["proto"] \in {"stop_targets", "stop_actuals", "stop_pwm", "stop_event"}
HandlerInv  == HandlerRuns => SpeedRuns \/ StopRuns

\* With the connection gone the line runs dry in two ticks, the last handler ends
\* TicksPerHandler ticks later, and from then on the heartbeat ages with every tick.
LostInv == ~connected =>
  /\ down >= 1 => waited = Len(to_motors)
  /\ down >= 2 => to_motors = <<>> /\ (HandlerRuns => preempted["proto"] >= 1)
  /\ down >= 2 + TicksPerHandler =>
       ~HandlerRuns /\ (state = "IDLE" => target = Stopped)
  /\ hb_age > HeartbeatTimeout + 1 \/ hb_age >= down - (1 + TicksPerHandler)

\* Undisturbed, the callbacks run within Lateness ticks of their period, and the age of the
\* heartbeat is at most one of its periods for every packet lost since the last one handled
\* and for every one that has waited, and the part of the period that runs; another one
\* while a fresh heartbeat is on its way.
Commanded == state = "RUNNING" \/ target # Stopped \/ HandlerRuns
BeatAge == TicksPerPeriod * heartbeat_phase + phase
Fresh == BeatAge <= Lateness /\ ("heartbeat" \in due \/ writing # Bridge!NoPacket
                                  \/ Len(to_motors) > waited)
HealthInv == ~disturbed =>
  /\ fault_code = 0
  /\ due # {} => phase = behind
  /\ "heartbeat" \in due => heartbeat_phase = 0
  /\ ~connected => to_motors = <<>> /\ ~Commanded
  /\ Commanded => hb_age <= Beats(lost + waited) + BeatAge + (IF Fresh THEN BeatTicks ELSE 0)

\* A silent bridge has never driven the motors, or its stop is being written, is on the
\* line, is being handled or is in force; each phase ends with a tick.
NeverDriven ==
  /\ ~Carries(to_motors, "SET_SPEED")
  /\ ~SpeedRuns
  /\ state # "RUNNING"
  /\ target = Stopped /\ pwm = Stopped
StopInForce == safety_event = EstopEvent
StopWaited  == \E i \in 1 .. waited : to_motors[i].cmd = "STOP"
Silent(lag) == connected /\ ~stop_lost /\ quiet >= QuietTicks + Lateness + lag

\* The watchdog that finds the timeout over runs Lateness ticks on time after the period
\* that ended it, or after the first one with a connection.
Expired == connected /\ cmd_vel_active /\ vel_age > CmdVelTimeout
ExpiryInv ==
  /\ ~connected => quiet <= TimeoutTicks
  /\ cmd_vel_active => quiet <= TicksPerPeriod * vel_age + phase \/ vel_age > CmdVelTimeout
  /\ Expired => quiet <= IF "watchdog" \in due THEN QuietTicks + behind
                          ELSE TimeoutTicks + phase

SilenceInv ==
  /\ writing.cmd = "SET_SPEED" => cmd_vel_active
  /\ running /\ ~cmd_vel_active /\ ~stop_lost =>
       \/ NeverDriven \/ writing.cmd = "STOP" \/ Carries(to_motors, "STOP")
       \/ StopRuns \/ StopInForce
  /\ Silent(1) => NeverDriven \/ StopWaited \/ StopRuns \/ StopInForce
  /\ Silent(2) => \/ NeverDriven \/ StopInForce
                  \/ StopRuns /\ preempted["proto"] >= 1
  /\ Silent(2 + TicksPerHandler) => NeverDriven \/ StopInForce

LinkInv == LinkTypeOK /\ HandlerInv /\ LostInv /\ HealthInv /\ ExpiryInv /\ SilenceInv
=============================================================================
