------------------------------ MODULE LogBridge ------------------------------
(***************************************************************************)
(* The log bridge: what every node logs comes through /rosout and is       *)
(* written to the file of the day.  What the bridge logs itself comes      *)
(* through /rosout too.                                                    *)
(***************************************************************************)
EXTENDS DailyFiles

CONSTANTS
  Logs,         \* what other nodes log
  RosoutDepth,  \* depth of the subscription's queue
  MaxLogs       \* bound: messages of other nodes

ASSUME BridgeAssumption == RosoutDepth \in Nat \ {0} /\ MaxLogs \in Nat

VARIABLES
  rosout,      \* messages not yet taken
  bridge,      \* the store of log_dir
  logged       \* messages of other nodes so far

bridgeVars == <<rosout, bridge, logged>>

\* A message and what the privacy filter looks at: the name of its node, its text.
Message(text, named, mentions) == [text |-> text, named |-> named, mentions |-> mentions]
Own(text) == Message(text, FALSE, FALSE)

BridgeInit ==
  /\ rosout = <<>>
  /\ bridge = NewStore
  /\ logged = 0

Queued(queue, messages) ==
  LET longer == queue \o messages
  IN  SubSeq(longer, IF Len(longer) > RosoutDepth THEN Len(longer) - RosoutDepth + 1 ELSE 1, Len(longer))

\* Another node logs.
Log(message) ==
  /\ logged < MaxLogs
  /\ logged' = logged + 1
  /\ rosout' = Queued(rosout, <<message>>)
  /\ UNCHANGED bridge

Filtered(message) == message.named \/ message.mentions

\* Mutant: a line that is refused is passed over in silence.
OwnLogsQuiet(store) == IF store.date = bridge.date THEN <<>> ELSE <<Own("rotated")>>

\* What the bridge logs while it handles a message: a rotation, and a line it cannot write.
OwnLogs(store) ==
  (IF store.date = bridge.date THEN <<>> ELSE <<Own("rotated")>>)
    \o (IF disk = "ok" THEN <<>> ELSE <<Own("failed")>>)

\* The privacy filter drops a message.
Pass ==
  /\ bridge.up /\ rosout # <<>> /\ Filtered(Head(rosout))
  /\ rosout' = Tail(rosout)
  /\ UNCHANGED <<bridge, logged>>

\* Any other is written, with _ensure_log_file before the write.
on_log ==
  /\ bridge.up /\ rosout # <<>> /\ ~Filtered(Head(rosout))
  /\ \E store \in Rotated(bridge) :
       IF store.up
       THEN /\ bridge' = Written(store, [at |-> now, message |-> Head(rosout).text])
            /\ rosout' = Queued(Tail(rosout), OwnLogs(store))
       ELSE bridge' = store /\ rosout' = Tail(rosout)
  /\ UNCHANGED logged

\* The hourly timer, which logs when it has removed a file.
cleanup_old_logs ==
  /\ bridge.up
  /\ bridge' = cleanup(bridge)
  /\ rosout' = IF bridge' = bridge THEN rosout ELSE Queued(rosout, <<Own("removed")>>)
  /\ UNCHANGED logged

BridgeNext == Pass \/ on_log \/ cleanup_old_logs \/ \E message \in Logs : Log(message)
=============================================================================
