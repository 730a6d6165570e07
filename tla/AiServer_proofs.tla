-------------------------- MODULE AiServer_proofs --------------------------
(***************************************************************************)
(* Proofs about AiServer for every number of threads, sessions, questions, *)
(* adapters, tools and documents.                                          *)
(***************************************************************************)
EXTENDS AiServer, SequenceTheorems, FiniteSetTheorems, WellFoundedInduction, TLAPS

\* Only a thread that holds the lock has a job, and only Acquire begins one.
WorkInv == \A c \in Threads : conn[c].phase # "working" => job[c] = Idle

LockInv ==
  /\ job = [c \in Callers |-> job[c]] /\ conn = [c \in Threads |-> conn[c]]
  /\ WorkInv /\ LockExcludes

Moves(c) == \E x : job' = [job EXCEPT ![c] = x]

----------------------------------------------------------------------------
(***************************************************************************)
(* A step of a job begins where a job is under way, and moves no other.    *)
(***************************************************************************)

LEMMA IdleIs == Idle.pc = "idle" /\ Idle.event = "none"
BY DEF Idle

LEMMA Going == ASSUME NEW c, NEW changes, Go(c, changes) PROVE Moves(c)
BY DEF Go, Moves

LEMMA Busy == ASSUME NEW c, NEW label, At(c, label), label # "idle" PROVE job[c] # Idle
BY IdleIs DEF At

LEMMA InferenceStep ==
  ASSUME NEW c,
         Refuse(c) \/ Route(c) \/ Unload(c) \/ Load(c) \/ Infer(c) \/ InferFails(c)
  PROVE  job[c] # Idle /\ Moves(c)
<1>1. CASE Refuse(c)
  BY <1>1, Busy, Going DEF Refuse
<1>2. CASE Route(c)
  BY <1>2, Busy, Going DEF Route
<1>3. CASE Unload(c)
  BY <1>3, Busy, Going DEF Unload
<1>4. CASE Load(c)
  BY <1>4, Busy, Going DEF Load
<1>5. CASE Infer(c)
  BY <1>5, Busy, Going DEF Infer
<1>6. CASE InferFails(c)
  BY <1>6, Busy, Going DEF InferFails
<1> QED
  BY <1>1, <1>2, <1>3, <1>4, <1>5, <1>6

LEMMA ToolStep ==
  ASSUME NEW c, ExecuteTool(c) \/ ParseRaises(c) \/ Settle(c) \/ Store(c)
  PROVE  job[c] # Idle /\ Moves(c)
<1>1. CASE ExecuteTool(c)
  BY <1>1, Busy, Going DEF ExecuteTool
<1>2. CASE ParseRaises(c)
  BY <1>2, Busy, Going DEF ParseRaises
<1>3. CASE Settle(c)
  BY <1>3, Busy, Going DEF Settle
<1>4. CASE Store(c)
  BY <1>4, Busy, Going DEF Store
<1> QED
  BY <1>1, <1>2, <1>3, <1>4

LEMMA StreamStep ==
  ASSUME NEW c,
         \/ StreamAdapter(c) \/ StreamError(c) \/ StreamCall(c) \/ StreamResult(c)
         \/ StreamAgain(c) \/ StreamToken(c) \/ StreamEnds(c) \/ StreamDone(c)
  PROVE  job[c] # Idle /\ Moves(c)
<1> USE DEF Streams, Yield
<1>1. CASE StreamAdapter(c)
  BY <1>1, Busy, Going DEF StreamAdapter
<1>2. CASE StreamError(c)
  BY <1>2, Busy, Going DEF StreamError
<1>3. CASE StreamCall(c)
  BY <1>3, Busy, Going DEF StreamCall
<1>4. CASE StreamResult(c)
  BY <1>4, Busy, Going DEF StreamResult
<1>5. CASE StreamAgain(c)
  BY <1>5, Busy, Going DEF StreamAgain
<1>6. CASE StreamToken(c)
  BY <1>6, Busy, Going DEF StreamToken
<1>7. CASE StreamEnds(c)
  BY <1>7, Busy, Going DEF StreamEnds
<1>8. CASE StreamDone(c)
  BY <1>8, Busy, Going DEF StreamDone
<1> QED
  BY <1>1, <1>2, <1>3, <1>4, <1>5, <1>6, <1>7, <1>8

LEMMA WorkStep ==
  ASSUME NEW c, Work(c)
  PROVE  job[c] # Idle /\ Moves(c) /\ UNCHANGED <<lock, conn>>
<1>1. UNCHANGED <<lock, conn>>
  BY DEF Work, front
<1>2. job[c] # Idle /\ Moves(c)
  BY InferenceStep, ToolStep, StreamStep, Zenon DEF Work
<1> QED
  BY <1>1, <1>2

----------------------------------------------------------------------------
(***************************************************************************)
(* The lock.                                                               *)
(***************************************************************************)

LEMMA Held ==
  ASSUME LockInv, NEW c \in Threads, job[c] # Idle
  PROVE  conn[c].phase = "working" /\ lock = c
BY DEF LockInv, WorkInv, LockExcludes

\* A thread's own job moves while it holds the lock and keeps it.
LEMMA MoveKeeps ==
  ASSUME LockInv, NEW c \in Callers, job[c] # Idle, Moves(c), UNCHANGED <<lock, conn>>
  PROVE  LockInv'
<1>1. /\ job' = [d \in Callers |-> job'[d]]
      /\ \A d \in Callers : d # c => job'[d] = job[d]
  BY DEF Moves, LockInv
<1>2. WorkInv'
  <2> SUFFICES ASSUME NEW d \in Threads, conn[d].phase # "working" PROVE job'[d] = Idle
    BY DEF WorkInv
  <2>1. job[d] = Idle
    BY DEF LockInv, WorkInv
  <2> QED
    BY <1>1, <2>1 DEF Threads
<1> QED
  BY <1>1, <1>2 DEF LockInv, LockExcludes

\* A thread that keeps its own job Idle or working, and with it the lock, disturbs no other.
LEMMA MainKeeps ==
  ASSUME LockInv, job' = [c \in Callers |-> job'[c]], \A c \in Threads : job'[c] = job[c],
         UNCHANGED <<lock, conn>>
  PROVE  LockInv'
BY DEF LockInv, WorkInv, LockExcludes

LEMMA ConnectionType ==
  ASSUME LockInv, NEW c \in Threads, NEW changes, conn' = [conn EXCEPT ![c] = changes]
  PROVE  /\ conn' = [d \in Threads |-> conn'[d]]
         /\ conn'[c] = changes /\ \A d \in Threads : d # c => conn'[d] = conn[d]
BY DEF LockInv

\* A connection that does not work and does not begin to changes as it likes.
LEMMA OutsideKeeps ==
  ASSUME LockInv, NEW c \in Threads, NEW r, conn' = [conn EXCEPT ![c] = r],
         conn[c].phase # "working", r.phase # "working", UNCHANGED <<lock, job>>
  PROVE  LockInv'
<1>1. /\ conn' = [d \in Threads |-> conn'[d]]
      /\ conn'[c] = r /\ \A d \in Threads : d # c => conn'[d] = conn[d]
  BY ConnectionType
<1> QED
  BY <1>1 DEF LockInv, WorkInv, LockExcludes

\* Who gives the lock back leaves nobody working.
LEMMA ReleaseKeeps ==
  ASSUME LockInv, NEW c \in Threads, job[c] # Idle, NEW r,
         lock' = Nobody, job' = [job EXCEPT ![c] = Idle],
         conn' = [conn EXCEPT ![c] = r], r.phase # "working"
  PROVE  LockInv'
<1>1. /\ conn' = [d \in Threads |-> conn'[d]]
      /\ conn'[c] = r /\ \A d \in Threads : d # c => conn'[d] = conn[d]
  BY ConnectionType
<1>2. c \in Callers
  BY DEF Threads
<1>3. /\ job' = [d \in Callers |-> job'[d]]
      /\ job'[c] = Idle /\ \A d \in Callers : d # c => job'[d] = job[d]
  BY <1>2 DEF LockInv
<1>4. lock = c
  BY Held
<1>5. ASSUME NEW d \in Threads PROVE conn'[d].phase # "working"
  <2>1. CASE d = c
    BY <1>1, <2>1
  <2>2. CASE d # c
    BY <1>1, <1>4, <2>2 DEF LockInv, LockExcludes
  <2> QED
    BY <2>1, <2>2
<1>6. ASSUME NEW d \in Threads PROVE job'[d] = Idle
  <2>1. CASE d = c
    BY <1>3, <2>1
  <2>2. CASE d # c
    <3>1. conn[d].phase # "working"
      BY <1>4, <2>2 DEF LockInv, LockExcludes
    <3>2. job[d] = Idle
      BY <3>1 DEF LockInv, WorkInv
    <3> QED
      BY <1>3, <2>2, <3>2 DEF Threads
  <2> QED
    BY <2>1, <2>2
<1> QED
  BY <1>1, <1>3, <1>5, <1>6 DEF LockInv, WorkInv, LockExcludes

----------------------------------------------------------------------------
(***************************************************************************)
(* The steps.                                                              *)
(***************************************************************************)

LEMMA Requests ==
  ASSUME LockInv, NEW c \in Threads, NEW phase, NEW reply, Request(c, phase, reply)
  PROVE  \E r : r.phase = phase /\ conn' = [conn EXCEPT ![c] = r]
BY DEF Request, LockInv

LEMMA ClosingIs ==
  ASSUME NEW code
  PROVE  [NoRequest EXCEPT !.phase = "closing", !.reply = code].phase # "working"
BY DEF NoRequest

LEMMA Starts == ASSUME Init PROVE LockInv
<1>1. job = [c \in Callers |-> Idle] /\ conn = [c \in Threads |-> NoRequest]
  BY DEF Init
<1>2. NoRequest.phase = "none"
  BY DEF NoRequest
<1>3. \A c \in Threads : c \in Callers
  BY DEF Threads
<1> QED
  BY <1>1, <1>2, <1>3 DEF LockInv, WorkInv, LockExcludes

LEMMA MainStep == ASSUME LockInv, MainThread \/ Close \/ Tick PROVE LockInv'
<1> USE ServerAssumption DEF Threads
<1>1. CASE load_engine
  <2>1. UNCHANGED job \/ Moves(Main)
    BY <1>1, Going DEF load_engine
  <2> QED
    BY <1>1, <2>1, MainKeeps DEF load_engine, LockInv, Moves
<1>2. CASE server = "warmup" /\ Work(Main)
  BY <1>2, WorkStep, MoveKeeps
<1>3. CASE Serve
  BY <1>3, MainKeeps DEF Serve, LockInv
<1>4. CASE Exit
  BY <1>4 DEF Exit, LockInv, WorkInv, LockExcludes, NoRequest
<1>5. CASE Close
  BY <1>5, MainKeeps DEF Close, LockInv
<1>6. CASE Tick
  BY <1>6, MainKeeps DEF Tick, front, LockInv
<1> QED
  BY <1>1, <1>2, <1>3, <1>4, <1>5, <1>6 DEF MainThread

\* What is known of a request when its client connects, and when its body has come.
LEMMA ReceivingIs ==
  ASSUME NEW mode
  PROVE  LET r == [NoRequest EXCEPT !.phase = "receiving", !.mode = mode]
         IN  r.phase = "receiving" /\ r.mode = mode
  BY DEF NoRequest

LEMMA Bodies ==
  ASSUME conn = [d \in Threads |-> conn[d]], NEW c \in Threads, NEW q, NEW s, Body(c, q, s)
  PROVE  \E r : /\ r.phase = "checking" /\ r.mode = conn[c].mode /\ r.question = q /\ r.session = s
                /\ conn' = [conn EXCEPT ![c] = r]
<1> DEFINE r == [phase |-> "checking", mode |-> conn[c].mode, question |-> q, session |-> s,
                 reply |-> 0]
<1>1. /\ r.phase = "checking" /\ r.mode = conn[c].mode /\ r.question = q /\ r.session = s
  OBVIOUS
<1>2. conn' = [conn EXCEPT ![c] = r]
  BY DEF Body
<1> HIDE DEF r
<1> QED
  BY <1>1, <1>2

\* The requests that come, are looked at, and go.
LEMMA OutsideStep ==
  ASSUME LockInv, NEW c \in Threads,
         Asks(c) \/ Check(c) \/ SendError(c) \/ Hangup(c) \/ Client(c)
  PROVE  LockInv'
<1>1. CASE Asks(c)
  <2>1. conn[c].phase \in {"none", "receiving"} /\ UNCHANGED <<lock, job>>
    BY <1>1 DEF Asks, Connect, Body
  <2>2. ASSUME NEW mode, Connect(c, mode)
        PROVE  \E r : r.phase = "receiving" /\ conn' = [conn EXCEPT ![c] = r]
    BY <2>2, ReceivingIs DEF Connect
  <2>3. ASSUME NEW q, NEW s, Body(c, q, s)
        PROVE  \E r : r.phase = "checking" /\ conn' = [conn EXCEPT ![c] = r]
    BY <2>3, Bodies DEF LockInv
  <2> PICK r : r.phase \in {"receiving", "checking"} /\ conn' = [conn EXCEPT ![c] = r]
    BY <1>1, <2>2, <2>3 DEF Asks
  <2> QED
    BY <2>1, OutsideKeeps
<1>2. CASE Check(c)
  <2>1. conn[c].phase = "checking" /\ UNCHANGED <<lock, job>>
    BY <1>2 DEF Check
  <2>2. ASSUME NEW code, Answered(c, code) PROVE LockInv'
    BY <2>1, <2>2, ClosingIs, OutsideKeeps DEF Answered
  <2>3. ASSUME NEW reply, Request(c, "waiting", reply) PROVE LockInv'
    <3> PICK r : r.phase = "waiting" /\ conn' = [conn EXCEPT ![c] = r]
      BY <2>3, Requests
    <3> QED
      BY <2>1, OutsideKeeps
  <2> QED
    BY <1>2, <2>2, <2>3 DEF Check
<1>3. CASE SendError(c)
  BY <1>3, ClosingIs, OutsideKeeps DEF SendError, Answered
<1>4. CASE Hangup(c)
  <2>1. NoRequest.phase # "working"
    BY DEF NoRequest
  <2> QED
    BY <1>4, <2>1, OutsideKeeps DEF Hangup
<1>5. CASE Client(c)
  BY <1>5, MainKeeps DEF Client, LockInv
<1> QED
  BY <1>1, <1>2, <1>3, <1>4, <1>5

\* The lock is free: nobody else works.
LEMMA AcquireStep == ASSUME LockInv, NEW c \in Threads, Acquire(c) PROVE LockInv'
<1>1. PICK r : r.phase = "working" /\ conn' = [conn EXCEPT ![c] = r]
  BY Requests DEF Acquire
<1>2. lock = Nobody /\ lock' = c /\ Moves(c)
  BY Going DEF Acquire, Process
<1>3. /\ conn' = [d \in Threads |-> conn'[d]]
      /\ conn'[c] = r /\ \A d \in Threads : d # c => conn'[d] = conn[d]
  BY <1>1, ConnectionType
<1>4. c \in Callers /\ c # Nobody
  BY ServerAssumption DEF Threads
<1>5. /\ job' = [d \in Callers |-> job'[d]]
      /\ \A d \in Callers : d # c => job'[d] = job[d]
  BY <1>2, <1>4 DEF Moves, LockInv
<1>6. ASSUME NEW d \in Threads, d # c PROVE conn'[d].phase # "working" /\ job'[d] = Idle
  <2>1. conn[d].phase # "working"
    BY <1>2, ServerAssumption DEF LockInv, LockExcludes, Threads
  <2> QED
    BY <1>3, <1>5, <1>6, <2>1 DEF LockInv, WorkInv, Threads
<1> QED
  BY <1>1, <1>2, <1>3, <1>5, <1>6 DEF LockInv, WorkInv, LockExcludes

\* The steps of a thread that holds the lock.
LEMMA InsideStep ==
  ASSUME LockInv, NEW c \in Threads,
         Work(c) \/ Send(c) \/ Disconnected(c) \/ Finish(c) \/ Broken(c)
  PROVE  LockInv'
<1>1. CASE Work(c)
  BY <1>1, WorkStep, MoveKeeps DEF Threads
<1>2. CASE Send(c)
  <2>1. job[c] # Idle /\ Moves(c) /\ UNCHANGED <<lock, conn>>
    BY <1>2, IdleIs, Going DEF Send
  <2> QED
    BY <2>1, MoveKeeps DEF Threads
<1>3. ASSUME NEW code, Release(c, code), job[c] # Idle PROVE LockInv'
  BY <1>3, ClosingIs, ReleaseKeeps DEF Release, Answered
<1>4. CASE Disconnected(c)
  BY <1>4, <1>3, IdleIs DEF Disconnected
<1>5. CASE Finish(c)
  <2>1. job[c] # Idle
    BY <1>5, Busy DEF Finish
  <2> QED
    BY <1>5, <1>3, <2>1 DEF Finish
<1>6. CASE Broken(c)
  <2>1. job[c] # Idle
    BY <1>6, Busy DEF Broken
  <2>2. CASE conn[c].mode = "stream"
    <3>1. PICK r : r.phase = "failing" /\ conn' = [conn EXCEPT ![c] = r]
      BY <1>6, <2>2, Requests DEF Broken
    <3>2. lock' = Nobody /\ job' = [job EXCEPT ![c] = Idle]
      BY <1>6, <2>2 DEF Broken
    <3> QED
      BY <2>1, <3>1, <3>2, ReleaseKeeps
  <2> QED
    BY <1>6, <1>3, <2>1, <2>2 DEF Broken
<1> QED
  BY <1>1, <1>2, <1>4, <1>5, <1>6

LEMMA LockStep == ASSUME LockInv, [Next]_vars PROVE LockInv'
<1>1. CASE UNCHANGED vars
  BY <1>1 DEF vars, LockInv, WorkInv, LockExcludes
<1>2. CASE MainThread \/ Close \/ Tick
  BY <1>2, MainStep
<1>3. CASE \E c \in Threads : Asks(c) \/ Step(c) \/ Client(c)
  <2> PICK c \in Threads : Asks(c) \/ Step(c) \/ Client(c)
    BY <1>3
  <2> QED
    BY OutsideStep, AcquireStep, InsideStep DEF Step
<1> QED
  BY <1>1, <1>2, <1>3 DEF Next

\* At most one connection works at a time, and it holds the lock, however many threads
\* there are and whatever fails in them (_engine_lock in _process_query and
\* _process_query_stream of ai_server.py).
THEOREM LockHeld == Spec => []LockExcludes
<1>1. LockInv => LockExcludes
  BY DEF LockInv
<1> QED
  BY Starts, LockStep, <1>1, PTL DEF Spec

\* Nobody is in the middle of a question without holding the lock: the engine and the
\* sessions are touched by its holder, and by the main thread.
THEOREM JobsAreLocked == Spec => []WorkInv
<1>1. LockInv => WorkInv
  BY DEF LockInv
<1> QED
  BY Starts, LockStep, <1>1, PTL DEF Spec

----------------------------------------------------------------------------
(***************************************************************************)
(* The model of a question.                                                *)
(***************************************************************************)

\* An inference about to run has the model it was routed to, as RightModel says.
Routed(c) ==
  job[c].pc = "infer" /\ engine.llm # NoModel =>
    engine.active = job[c].target \/ job[c].target \notin available(engine)

\* Jobs and the engine have their fields.
Fields ==
  /\ \A c \in Callers : {"pc", "mode", "question", "session", "context", "target", "round",
                         "result", "streaming", "answer", "ok", "event"} = DOMAIN job[c]
  /\ {"path", "llm", "active", "loaded", "merged", "loras", "window"} = DOMAIN engine

\* The main thread asks during its warmup only, when no connection is there.
MainInv ==
  /\ server \in {"loading", "warmup"} => \A c \in Threads : conn[c].phase = "none"
  /\ server # "warmup" => job[Main] = Idle

ModelInv == LockInv /\ MainInv /\ Fields /\ \A c \in Callers : Routed(c)

\* What the steps below have to show.
Right(c) == Fields' /\ Routed(c)'

LEMMA Gone ==
  ASSUME LockInv, NEW c \in Callers, NEW new, Go(c, new)
  PROVE  job'[c] = new /\ \A d \in Callers : d # c => job'[d] = job[d]
BY DEF Go, LockInv

\* A step that moves c's job to a place other than "infer", and leaves the engine its fields.
LEMMA Elsewhere ==
  ASSUME LockInv, Fields, NEW c \in Callers, NEW new, Go(c, new),
         DOMAIN new = DOMAIN job[c], new.pc # "infer", DOMAIN engine' = DOMAIN engine
  PROVE  Right(c)
<1>1. job'[c] = new /\ \A d \in Callers : d # c => job'[d] = job[d]
  BY Gone
<1> QED
  BY <1>1 DEF Right, Fields, Routed

LEMMA Labels ==
  ASSUME Fields, NEW c \in Callers, NEW label
  PROVE  To(c, label).pc = label /\ DOMAIN To(c, label) = DOMAIN job[c]
BY DEF To, Fields

LEMMA FailureElsewhere ==
  ASSUME Fields, NEW c \in Callers
  PROVE  Failure(c).pc # "infer" /\ DOMAIN Failure(c) = DOMAIN job[c]
BY DEF Failure, To, Fields

LEMMA RecordedFields ==
  ASSUME NEW latency, Fields PROVE DOMAIN Recorded(engine, latency) = DOMAIN engine
BY DEF Recorded

LEMMA InferenceRight ==
  ASSUME LockInv, Fields, NEW c \in Callers,
         Refuse(c) \/ Route(c) \/ Unload(c) \/ Load(c) \/ Infer(c) \/ InferFails(c)
  PROVE  Right(c)
<1>1. CASE Refuse(c)
  BY <1>1, FailureElsewhere, Elsewhere DEF Refuse
<1>2. CASE Route(c)
  <2>1. job'[c] = To(c, "infer") /\ (\A d \in Callers : d # c => job'[d] = job[d])
        /\ engine' = engine
    BY <1>2, Gone DEF Route
  <2>2. To(c, "infer").target = job[c].target /\ DOMAIN To(c, "infer") = DOMAIN job[c]
    BY DEF To, Fields
  <2> QED
    BY <1>2, <2>1, <2>2 DEF Route, NeedsSwitch, Right, Fields, Routed, available
<1>3. CASE Unload(c)
  <2>1. DOMAIN unload_model(engine) = DOMAIN engine
    BY DEF unload_model
  <2> QED
    BY <1>3, <2>1, Labels, Elsewhere DEF Unload
<1>4. CASE Load(c)
  <2> DEFINE new == [To(c, "infer") EXCEPT !.target = engine'.active]
  <2>1. job'[c] = new /\ \A d \in Callers : d # c => job'[d] = job[d]
    BY <1>4, Gone DEF Load
  <2>2. new.target = engine'.active /\ DOMAIN new = DOMAIN job[c]
    BY Labels DEF Fields
  <2>3. DOMAIN engine' = DOMAIN engine
    BY <1>4 DEF Load, load_model
  <2> QED
    BY <2>1, <2>2, <2>3 DEF Right, Fields, Routed
<1>5. CASE Infer(c)
  <2> DEFINE label == CASE job[c].mode = "ask" -> "reply"
                        [] job[c].mode = "stream" -> "adapter"
                        [] OTHER -> "parse"
  <2> PICK token, latency : /\ engine' = Recorded(engine, latency)
                            /\ Go(c, [To(c, label) EXCEPT !.answer = <<token>>, !.ok = TRUE])
    BY <1>5 DEF Infer, Records
  <2> DEFINE new == [To(c, label) EXCEPT !.answer = <<token>>, !.ok = TRUE]
  <2>1. label # "infer"
    OBVIOUS
  <2> HIDE DEF label
  <2>2. new.pc # "infer" /\ DOMAIN new = DOMAIN job[c]
    BY <2>1, Labels
  <2> QED
    BY <2>2, RecordedFields, Elsewhere
<1>6. CASE InferFails(c)
  BY <1>6, FailureElsewhere, RecordedFields, Elsewhere DEF InferFails, Records
<1> QED
  BY <1>1, <1>2, <1>3, <1>4, <1>5, <1>6

LEMMA ToolRight ==
  ASSUME LockInv, Fields, NEW c \in Callers,
         ExecuteTool(c) \/ ParseRaises(c) \/ Settle(c) \/ Store(c)
  PROVE  Right(c)
<1>1. CASE ExecuteTool(c)
  <2> PICK result : Go(c, [To(c, "query") EXCEPT !.target = "conversational", !.round = @ + 1,
                                                 !.result = result])
    BY <1>1 DEF ExecuteTool
  <2> DEFINE new == [To(c, "query") EXCEPT !.target = "conversational", !.round = @ + 1,
                                           !.result = result]
  <2>1. new.pc # "infer" /\ DOMAIN new = DOMAIN job[c]
    BY Labels
  <2>2. engine' = engine
    BY <1>1 DEF ExecuteTool
  <2> HIDE DEF new
  <2> QED
    BY <2>1, <2>2, Elsewhere DEF new
<1>2. CASE ParseRaises(c)
  BY <1>2, Labels, Elsewhere DEF ParseRaises
<1>3. CASE Settle(c)
  BY <1>3, Labels, Elsewhere DEF Settle
<1>4. CASE Store(c)
  <2> DEFINE reply == [To(c, "reply") EXCEPT !.ok = TRUE]
  <2>1. reply.pc # "infer" /\ DOMAIN reply = DOMAIN job[c]
    BY Labels
  <2>2. Go(c, To(c, "done")) \/ Go(c, reply)
    BY <1>4 DEF Store
  <2>3. engine' = engine
    BY <1>4 DEF Store
  <2> HIDE DEF reply
  <2> QED
    BY <2>1, <2>2, <2>3, Labels, Elsewhere
<1> QED
  BY <1>1, <1>2, <1>3, <1>4

LEMMA YieldRight ==
  ASSUME LockInv, Fields, NEW c \in Callers, NEW event, NEW new, Yield(c, event, new),
         DOMAIN new = DOMAIN job[c], new.pc # "infer"
  PROVE  Right(c)
<1> DEFINE yielded == [new EXCEPT !.event = event]
<1>1. yielded.pc # "infer" /\ DOMAIN yielded = DOMAIN job[c]
  BY DEF Fields
<1>2. Go(c, yielded) /\ engine' = engine
  BY DEF Yield
<1> HIDE DEF yielded
<1> QED
  BY <1>1, <1>2, Elsewhere

LEMMA StreamRight ==
  ASSUME LockInv, Fields, NEW c \in Callers, Routed(c),
         \/ StreamAdapter(c) \/ StreamError(c) \/ StreamCall(c) \/ StreamResult(c)
         \/ StreamAgain(c) \/ StreamToken(c) \/ StreamEnds(c) \/ StreamDone(c)
  PROVE  Right(c)
<1>1. CASE StreamAdapter(c)
  <2>1. Yield(c, "adapter", To(c, "parse")) \/ Yield(c, "adapter", To(c, "error"))
    BY <1>1 DEF StreamAdapter
  <2> QED
    BY <2>1, Labels, YieldRight
<1>2. CASE StreamError(c)
  BY <1>2, Labels, YieldRight DEF StreamError
<1>3. CASE StreamCall(c)
  BY <1>3, Labels, YieldRight DEF StreamCall
<1>4. CASE StreamResult(c)
  <2> DEFINE new == [To(c, "query") EXCEPT !.target = "conversational", !.round = 1,
                                           !.streaming = TRUE, !.answer = <<>>]
  <2>1. new.pc # "infer" /\ DOMAIN new = DOMAIN job[c]
    BY Labels
  <2>2. Yield(c, "tool_result", new)
    BY <1>4 DEF StreamResult
  <2> HIDE DEF new
  <2> QED
    BY <2>1, <2>2, YieldRight
<1>5. CASE StreamAgain(c)
  <2> DEFINE new == [To(c, "query") EXCEPT !.streaming = TRUE, !.answer = <<>>,
                                           !.target = Classified(job[c].question)]
  <2>1. new.pc # "infer" /\ DOMAIN new = DOMAIN job[c]
    BY Labels
  <2>2. Yield(c, "none", new)
    BY <1>5 DEF StreamAgain
  <2> HIDE DEF new
  <2> QED
    BY <2>1, <2>2, YieldRight
<1>6. CASE StreamToken(c)
  <2> PICK token : Yield(c, "token", [job[c] EXCEPT !.answer = Append(@, token)])
    BY <1>6 DEF StreamToken
  <2> DEFINE new == [[job[c] EXCEPT !.answer = Append(@, token)] EXCEPT !.event = "token"]
  <2>1. new.pc = job[c].pc /\ new.target = job[c].target /\ DOMAIN new = DOMAIN job[c]
    BY DEF Fields
  <2>2. job'[c] = new /\ (\A d \in Callers : d # c => job'[d] = job[d]) /\ engine' = engine
    BY Gone DEF Yield
  <2> HIDE DEF new
  <2> QED
    BY <2>1, <2>2 DEF Right, Fields, Routed, available
<1>7. CASE StreamEnds(c)
  <2> PICK latency : engine' = Recorded(engine, latency)
    BY <1>7 DEF StreamEnds, Records
  <2> QED
    BY <1>7, RecordedFields, Labels, Elsewhere DEF StreamEnds
<1>8. CASE StreamDone(c)
  BY <1>8, Labels, YieldRight DEF StreamDone
<1> QED
  BY <1>1, <1>2, <1>3, <1>4, <1>5, <1>6, <1>7, <1>8

LEMMA WorkRight ==
  ASSUME LockInv, Fields, NEW c \in Callers, Routed(c), Work(c) PROVE Right(c)
BY InferenceRight, ToolRight, StreamRight, Zenon DEF Work

LEMMA IdleRouted == ASSUME NEW c, job'[c] = Idle PROVE Routed(c)'
BY IdleIs DEF Routed

\* Nobody else has a job while somebody works: the steps that touch the engine are alone.
LEMMA Alone ==
  ASSUME ModelInv, NEW c \in Callers, job[c] # Idle, NEW d \in Callers, d # c
  PROVE  job[d] = Idle
<1>1. CASE c = Main
  <2>1. server = "warmup" /\ d \in Threads
    BY <1>1 DEF ModelInv, MainInv, Threads
  <2> QED
    BY <2>1 DEF ModelInv, MainInv, LockInv, WorkInv
<1>2. CASE c # Main
  <2>1. c \in Threads /\ conn[c].phase = "working" /\ lock = c
    BY <1>2, Held DEF ModelInv, Threads
  <2>2. CASE d = Main
    BY <2>1, <2>2 DEF ModelInv, MainInv
  <2>3. CASE d # Main
    BY <2>1, <2>3 DEF ModelInv, LockInv, WorkInv, LockExcludes, Threads
  <2> QED
    BY <2>2, <2>3
<1> QED
  BY <1>1, <1>2

\* A step of a job keeps every question with its model.
LEMMA WorkKeepsModel ==
  ASSUME ModelInv, NEW c \in Callers, Work(c)
  PROVE  Fields' /\ \A d \in Callers : Routed(d)'
<1>1. Right(c)
  BY WorkRight DEF ModelInv
<1>2. ASSUME NEW d \in Callers, d # c PROVE Routed(d)'
  <2>1. job[d] = Idle
    BY <1>2, WorkStep, Alone
  <2>2. job'[d] = job[d]
    BY <1>2, WorkStep DEF Moves, ModelInv, LockInv
  <2> QED
    BY <2>1, <2>2, IdleRouted
<1> QED
  BY <1>1, <1>2 DEF Right

\* A step that leaves the engine alone and moves one job to a place other than "infer".
LEMMA ElsewhereKeepsModel ==
  ASSUME ModelInv, NEW c \in Callers, NEW new, Go(c, new), UNCHANGED engine,
         DOMAIN new = DOMAIN job[c], new.pc # "infer" \/ Routed(c)'
  PROVE  Fields' /\ \A d \in Callers : Routed(d)'
<1>1. job'[c] = new /\ \A d \in Callers : d # c => job'[d] = job[d]
  BY Gone DEF ModelInv
<1>2. Fields'
  BY <1>1 DEF ModelInv, Fields
<1>3. ASSUME NEW d \in Callers PROVE Routed(d)'
  <2>1. CASE d = c
    BY <1>1, <2>1 DEF Routed
  <2>2. CASE d # c
    BY <1>1, <2>2 DEF ModelInv, Routed, available
  <2> QED
    BY <2>1, <2>2
<1> QED
  BY <1>2, <1>3

LEMMA SameKeepsModel ==
  ASSUME ModelInv, UNCHANGED <<engine, job>>
  PROVE  Fields' /\ \A d \in Callers : Routed(d)'
BY DEF ModelInv, Fields, Routed, available

LEMMA IdleFields == ASSUME Fields, NEW c \in Callers PROVE DOMAIN Idle = DOMAIN job[c]
BY DEF Fields, Idle

LEMMA ModelStarts == ASSUME Init PROVE ModelInv
<1>1. LockInv
  BY Starts
<1>2. MainInv
  BY ServerAssumption DEF Init, MainInv, NoRequest
<1>3. Fields /\ \A c \in Callers : Routed(c)
  BY DEF Init, Fields, Routed, Idle, NewEngine
<1> QED
  BY <1>1, <1>2, <1>3 DEF ModelInv

LEMMA MainModelStep == ASSUME ModelInv, MainThread \/ Close \/ Tick PROVE ModelInv'
<1> USE ServerAssumption
<1>0. LockInv'
  BY MainStep DEF ModelInv
<1>1. CASE load_engine
  <2> DEFINE new == [To(Main, "query") EXCEPT !.mode = "ask", !.target = "conversational"]
  <2>1. DOMAIN engine' = DOMAIN engine
    BY <1>1 DEF load_engine, load_model
  <2>2. new.pc # "infer" /\ DOMAIN new = DOMAIN job[Main]
    BY Labels DEF ModelInv
  <2>3. Go(Main, new) \/ job' = job
    BY <1>1 DEF load_engine
  <2> HIDE DEF new
  <2>4. Fields'
    BY <2>1, <2>2, <2>3, Gone DEF ModelInv, Fields
  <2>5. job[Main] = Idle /\ \A d \in Threads : job[d] = Idle
    BY <1>1 DEF load_engine, ModelInv, MainInv, LockInv, WorkInv
  <2>6. ASSUME NEW d \in Callers PROVE Routed(d)'
    <3>1. job'[d].pc # "infer"
      <4>1. job'[d] = new \/ job'[d] = Idle
        BY <2>3, <2>5, Gone DEF ModelInv, Threads
      <4> QED
        BY <4>1, <2>2, IdleIs
    <3> QED
      BY <3>1 DEF Routed
  <2>7. MainInv'
    <3>1. server = "loading" /\ conn' = conn
      BY <1>1 DEF load_engine
    <3>2. server' = "warmup" \/ (server' = "exited" /\ job' = job)
      BY <1>1 DEF load_engine
    <3> QED
      BY <3>1, <3>2, <2>5 DEF ModelInv, MainInv
  <2> QED
    BY <1>0, <2>4, <2>6, <2>7 DEF ModelInv
<1>2. CASE server = "warmup" /\ Work(Main)
  <2>1. MainInv'
    BY <1>2, WorkStep DEF ModelInv, MainInv, Work, front
  <2> QED
    BY <1>0, <1>2, <2>1, WorkKeepsModel DEF ModelInv
<1>3. CASE Serve
  <2>1. Go(Main, Idle) /\ UNCHANGED engine
    BY <1>3 DEF Serve, Go
  <2>2. Fields' /\ \A d \in Callers : Routed(d)'
    BY <2>1, IdleIs, IdleFields, ElsewhereKeepsModel DEF ModelInv
  <2>3. MainInv'
    BY <1>3, <2>1, Gone DEF Serve, MainInv, ModelInv
  <2> QED
    BY <1>0, <2>2, <2>3 DEF ModelInv
<1>4. CASE Exit
  <2>1. \A c \in Callers : job'[c] = Idle
    BY <1>4 DEF Exit
  <2>2. Fields'
    BY <1>4, <2>1, IdleFields DEF Exit, ModelInv, Fields
  <2>3. MainInv'
    BY <1>4, <2>1 DEF Exit, MainInv
  <2> QED
    BY <1>0, <2>1, <2>2, <2>3, IdleRouted DEF ModelInv
<1>5. CASE Close
  <2>1. engine'.llm = NoModel /\ DOMAIN engine' = DOMAIN engine
    BY <1>5 DEF Close, unload_model, ModelInv, Fields
  <2>2. UNCHANGED <<job, conn>> /\ server = "serving" /\ server' = "closed"
    BY <1>5 DEF Close
  <2>3. MainInv'
    BY <2>2 DEF ModelInv, MainInv
  <2> QED
    BY <1>0, <2>1, <2>2, <2>3 DEF ModelInv, Fields, Routed
<1>6. CASE Tick
  <2>1. UNCHANGED <<engine, job, conn, server>>
    BY <1>6 DEF Tick, front
  <2>2. MainInv'
    BY <2>1 DEF ModelInv, MainInv
  <2> QED
    BY <1>0, <2>1, <2>2, SameKeepsModel DEF ModelInv
<1> QED
  BY <1>1, <1>2, <1>3, <1>4, <1>5, <1>6 DEF MainThread

\* What a connection does leaves the main thread alone, and none is there before it serves.
LEMMA ConnectionKeepsMain ==
  ASSUME ModelInv, NEW c \in Threads, UNCHANGED server, job'[Main] = job[Main],
         UNCHANGED conn \/ conn[c].phase # "none" \/ server = "serving"
  PROVE  MainInv'
BY DEF ModelInv, MainInv

LEMMA OutsideModelStep ==
  ASSUME ModelInv, NEW c \in Threads,
         Asks(c) \/ Check(c) \/ SendError(c) \/ Hangup(c) \/ Client(c)
  PROVE  ModelInv'
<1>1. LockInv'
  BY OutsideStep DEF ModelInv
<1>2. UNCHANGED <<engine, job, server>>
  BY DEF Asks, Connect, Body, Check, SendError, Hangup, Client
<1>3. UNCHANGED conn \/ conn[c].phase # "none" \/ server = "serving"
  BY DEF Asks, Connect, Body, Check, SendError, Hangup, Client
<1>4. MainInv'
  BY <1>2, <1>3, ConnectionKeepsMain
<1> QED
  BY <1>1, <1>2, <1>4, SameKeepsModel DEF ModelInv

LEMMA InsideModelStep ==
  ASSUME ModelInv, NEW c \in Threads,
         Acquire(c) \/ Work(c) \/ Send(c) \/ Disconnected(c) \/ Finish(c) \/ Broken(c)
  PROVE  ModelInv'
<1> c \in Callers /\ c # Main
  BY DEF Threads
<1>1. LockInv'
  BY AcquireStep, InsideStep DEF ModelInv
<1>2. ASSUME NEW new, Go(c, new), UNCHANGED <<engine, server>>, conn[c].phase # "none",
             DOMAIN new = DOMAIN job[c], new.pc # "infer" \/ Routed(c)'
      PROVE  ModelInv'
  <2>1. job'[Main] = job[Main]
    BY <1>2, ServerAssumption, Gone DEF ModelInv
  <2> QED
    BY <1>1, <1>2, <2>1, ConnectionKeepsMain, ElsewhereKeepsModel DEF ModelInv
<1>3. CASE Acquire(c)
  <2> PICK mode, q, s, context, target :
        Go(c, [To(c, "query") EXCEPT !.mode = mode, !.question = q, !.session = s,
                                     !.context = context, !.target = target])
    BY <1>3 DEF Acquire, Process
  <2> DEFINE new == [To(c, "query") EXCEPT !.mode = mode, !.question = q, !.session = s,
                                           !.context = context, !.target = target]
  <2>1. new.pc # "infer" /\ DOMAIN new = DOMAIN job[c]
    BY Labels DEF ModelInv
  <2>2. UNCHANGED <<engine, server>> /\ conn[c].phase # "none"
    BY <1>3 DEF Acquire, Process
  <2> HIDE DEF new
  <2> QED
    BY <2>1, <2>2, <1>2 DEF new
<1>4. CASE Work(c)
  <2>1. UNCHANGED <<server, conn>>
    BY <1>4 DEF Work, front
  <2>2. job'[Main] = job[Main]
    BY <1>4, WorkStep, ServerAssumption DEF Moves, ModelInv, LockInv
  <2> QED
    BY <1>1, <1>4, <2>1, <2>2, WorkKeepsModel, ConnectionKeepsMain DEF ModelInv
<1>5. CASE Send(c)
  <2> DEFINE new == [job[c] EXCEPT !.event = "none"]
  <2>1. Go(c, new) /\ UNCHANGED <<engine, server>>
    BY <1>5 DEF Send
  <2>2. DOMAIN new = DOMAIN job[c] /\ new.pc = job[c].pc /\ new.target = job[c].target
    BY DEF ModelInv, Fields
  <2>3. conn[c].phase # "none"
    BY <1>5, IdleIs, Held DEF Send, ModelInv
  <2> HIDE DEF new
  <2>4. Routed(c)'
    BY <2>1, <2>2, Gone DEF ModelInv, Routed, available
  <2> QED
    BY <2>1, <2>2, <2>3, <2>4, <1>2
<1>6. CASE Disconnected(c) \/ Finish(c) \/ Broken(c)
  <2>1. job[c] # Idle
    BY <1>6, Busy, IdleIs DEF Disconnected, Finish, Broken
  <2>2. Go(c, Idle) /\ UNCHANGED <<engine, server>>
    BY <1>6 DEF Disconnected, Finish, Broken, Release, Go
  <2>3. conn[c].phase # "none"
    BY <2>1, Held DEF ModelInv
  <2> QED
    BY <2>2, <2>3, <1>2, IdleIs, IdleFields DEF ModelInv
<1> QED
  BY <1>3, <1>4, <1>5, <1>6

LEMMA ModelStep == ASSUME ModelInv, [Next]_vars PROVE ModelInv'
<1>1. CASE UNCHANGED vars
  BY <1>1, LockStep, SameKeepsModel DEF vars, ModelInv, MainInv
<1>2. CASE MainThread \/ Close \/ Tick
  BY <1>2, MainModelStep
<1>3. ASSUME NEW c \in Threads,
             Asks(c) \/ Step(c) \/ Client(c)
      PROVE  ModelInv'
  BY <1>3, OutsideModelStep, InsideModelStep DEF Step
<1> QED
  BY <1>1, <1>2, <1>3 DEF Next

\* The model a question is asked of is the one it was routed to, unless there is none for
\* its adapter, for every number of threads and adapters and every order in which models
\* fail to load (query and switch_adapter in inference_engine.py, under _engine_lock).
THEOREM ModelIsRight == Spec => []RightModel
<1>1. ModelInv => RightModel
  BY DEF ModelInv, Routed, RightModel, Prompt
<1> QED
  BY ModelStarts, ModelStep, <1>1, PTL DEF Spec

----------------------------------------------------------------------------
(***************************************************************************)
(* The context of a question.                                              *)
(***************************************************************************)

\* The question has a context and its exchange is not stored yet, or never will be.
Open(c) ==
  \/ job[c].pc \in {"query", "load", "infer", "adapter", "error", "parse", "execute", "store", "raised"}
  \/ job[c].pc = "reply" /\ ~job[c].ok

InContext(c) == Open(c) => Latest4(sessions[job[c].session].history) = job[c].context.recent

ContextInv == ModelInv /\ \A c \in Threads : InContext(c)

\* The same question of the same session, with an answer of at most MaxTokens.
Alike(c, new) ==
  /\ new.mode = job[c].mode /\ new.question = job[c].question
  /\ new.session = job[c].session /\ new.context = job[c].context
  /\ job[c].answer \in Answers => new.answer \in Answers

\* What a step does that stores nothing.
Keeps(c) ==
  /\ UNCHANGED sessions
  /\ Alike(c, job'[c])
  /\ Open(c)' => Open(c)

\* A step from an open place that moves the job and leaves its session and context alone.
LEMMA OpenKeeps ==
  ASSUME LockInv, NEW c \in Callers, NEW new, Go(c, new), UNCHANGED sessions, Open(c), Alike(c, new)
  PROVE  Keeps(c)
BY Gone DEF Keeps

LEMMA Same ==
  ASSUME Fields, NEW c \in Callers, NEW label
  PROVE  /\ Alike(c, To(c, label)) /\ To(c, label).answer = job[c].answer
         /\ DOMAIN To(c, label) = DOMAIN job[c]
BY DEF To, Fields, Alike

\* An answer of one token, of no token, and of one token more.
LEMMA ShortAnswers == <<>> \in Answers /\ \A token \in Tokens \cup {"found", "apology"} : <<token>> \in Answers
<1>1. <<>> \in [1 .. 0 -> Tokens \cup {"found", "apology"}]
  OBVIOUS
<1>2. ASSUME NEW token \in Tokens \cup {"found", "apology"}
      PROVE  <<token>> \in [1 .. 1 -> Tokens \cup {"found", "apology"}]
  OBVIOUS
<1>3. 0 \in 0 .. MaxTokens /\ 1 \in 0 .. MaxTokens
  BY OrchestratorAssumption, ServerAssumption DEF OrchestratorAssumption, ServerAssumption
<1> QED
  BY <1>1, <1>2, <1>3 DEF Answers, BoundedSeq, SeqOf

LEMMA LongerAnswer ==
  ASSUME NEW answer \in Answers, Len(answer) < MaxTokens, NEW token \in Tokens
  PROVE  Append(answer, token) \in Answers
<1> DEFINE Said == Tokens \cup {"found", "apology"}
<1>1. PICK n \in 0 .. MaxTokens : answer \in [1 .. n -> Said]
  BY DEF Answers, BoundedSeq, SeqOf
<1>2. MaxTokens \in Nat /\ answer \in Seq(Said) /\ Len(answer) = n /\ token \in Said
  BY <1>1, OrchestratorAssumption
<1> HIDE DEF Said
<1>3. Append(answer, token) \in Seq(Said) /\ Len(Append(answer, token)) = n + 1
  BY <1>2
<1>4. Append(answer, token) \in [1 .. n + 1 -> Said]
  BY <1>3, LenProperties
<1>5. n + 1 \in 0 .. MaxTokens
  BY <1>2
<1> QED
  BY <1>4, <1>5 DEF Answers, BoundedSeq, SeqOf, Said

LEMMA FailureSame == ASSUME Fields, NEW c \in Callers PROVE Alike(c, Failure(c))
<1>1. Fallback(job[c].result) \in Answers
  BY ShortAnswers DEF Fallback
<1> QED
  BY <1>1 DEF Failure, To, Fields, Alike

LEMMA InferenceKeeps ==
  ASSUME LockInv, Fields, NEW c \in Callers,
         Refuse(c) \/ Route(c) \/ Unload(c) \/ Load(c) \/ Infer(c) \/ InferFails(c)
  PROVE  Keeps(c)
<1>1. Open(c) /\ UNCHANGED sessions
  BY DEF Refuse, Route, Unload, Load, Infer, InferFails, At, Open
<1>2. CASE Refuse(c) \/ InferFails(c)
  BY <1>1, <1>2, FailureSame, OpenKeeps DEF Refuse, InferFails
<1>3. CASE Route(c) \/ Unload(c)
  BY <1>1, <1>3, Same, OpenKeeps DEF Route, Unload
<1>4. CASE Load(c)
  <2> DEFINE new == [To(c, "infer") EXCEPT !.target = engine'.active]
  <2>1. Alike(c, new)
    BY Same DEF Fields, Alike
  <2>2. Go(c, new)
    BY <1>4 DEF Load
  <2> HIDE DEF new
  <2> QED
    BY <1>1, <2>1, <2>2, OpenKeeps
<1>5. CASE Infer(c)
  <2> PICK token, label : token \in Tokens /\ Go(c, [To(c, label) EXCEPT !.answer = <<token>>, !.ok = TRUE])
    BY <1>5 DEF Infer
  <2> DEFINE new == [To(c, label) EXCEPT !.answer = <<token>>, !.ok = TRUE]
  <2>1. Alike(c, new)
    BY Same, ShortAnswers DEF Fields, Alike
  <2> HIDE DEF new
  <2> QED
    BY <1>1, <2>1, OpenKeeps DEF new
<1> QED
  BY <1>2, <1>3, <1>4, <1>5

LEMMA ToolKeeps ==
  ASSUME LockInv, Fields, NEW c \in Callers, ExecuteTool(c) \/ ParseRaises(c) \/ Settle(c)
  PROVE  Keeps(c)
<1>1. Open(c) /\ UNCHANGED sessions
  BY DEF ExecuteTool, ParseRaises, Settle, At, Open
<1>2. CASE ExecuteTool(c)
  <2> PICK result : Go(c, [To(c, "query") EXCEPT !.target = "conversational", !.round = @ + 1,
                                                 !.result = result])
    BY <1>2 DEF ExecuteTool
  <2> DEFINE new == [To(c, "query") EXCEPT !.target = "conversational", !.round = @ + 1,
                                           !.result = result]
  <2>1. Alike(c, new)
    BY Same DEF Fields, Alike
  <2> HIDE DEF new
  <2> QED
    BY <1>1, <2>1, OpenKeeps DEF new
<1>3. CASE ParseRaises(c) \/ Settle(c)
  BY <1>1, <1>3, Same, OpenKeeps DEF ParseRaises, Settle
<1> QED
  BY <1>2, <1>3

LEMMA YieldKeeps ==
  ASSUME LockInv, Fields, NEW c \in Callers, NEW event, NEW new, Yield(c, event, new),
         DOMAIN new = DOMAIN job[c],
         Alike(c, new), Open(c) \/ new.pc = "end"
  PROVE  Keeps(c)
<1> DEFINE yielded == [new EXCEPT !.event = event]
<1>1. Alike(c, yielded) /\ yielded.pc = new.pc
  BY DEF Fields, Alike
<1>2. Go(c, yielded) /\ UNCHANGED sessions
  BY DEF Yield
<1> HIDE DEF yielded
<1>3. CASE Open(c)
  BY <1>1, <1>2, <1>3, OpenKeeps
<1>4. CASE new.pc = "end"
  BY <1>1, <1>2, <1>4, Gone DEF Keeps, Open
<1> QED
  BY <1>3, <1>4

LEMMA StreamKeeps ==
  ASSUME LockInv, Fields, NEW c \in Callers,
         \/ StreamAdapter(c) \/ StreamError(c) \/ StreamCall(c) \/ StreamResult(c)
         \/ StreamAgain(c) \/ StreamToken(c) \/ StreamEnds(c) \/ StreamDone(c)
  PROVE  Keeps(c)
<1>1. Open(c) \/ StreamDone(c)
  BY DEF StreamAdapter, StreamError, StreamCall, StreamResult, StreamAgain, StreamToken,
         StreamEnds, Streams, At, Open
<1>2. CASE StreamAdapter(c) \/ StreamError(c) \/ StreamCall(c)
  <2> PICK event, label : Yield(c, event, To(c, label))
    BY <1>2 DEF StreamAdapter, StreamError, StreamCall
  <2>1. Open(c)
    BY <1>2 DEF StreamAdapter, StreamError, StreamCall, Streams, At, Open
  <2> QED
    BY <2>1, Same, YieldKeeps
<1>3. CASE StreamResult(c)
  <2> DEFINE new == [To(c, "query") EXCEPT !.target = "conversational", !.round = 1,
                                           !.streaming = TRUE, !.answer = <<>>]
  <2>1. Alike(c, new) /\ DOMAIN new = DOMAIN job[c]
    BY Same, ShortAnswers DEF Fields, Alike
  <2>2. Yield(c, "tool_result", new) /\ Open(c)
    BY <1>3 DEF StreamResult, Streams, At, Open
  <2> HIDE DEF new
  <2> QED
    BY <2>1, <2>2, YieldKeeps
<1>4. CASE StreamAgain(c)
  <2> DEFINE new == [To(c, "query") EXCEPT !.streaming = TRUE, !.answer = <<>>,
                                           !.target = Classified(job[c].question)]
  <2>1. Alike(c, new) /\ DOMAIN new = DOMAIN job[c]
    BY Same, ShortAnswers DEF Fields, Alike
  <2>2. Yield(c, "none", new) /\ Open(c)
    BY <1>4 DEF StreamAgain, Streams, At, Open
  <2> HIDE DEF new
  <2> QED
    BY <2>1, <2>2, YieldKeeps
<1>5. CASE StreamToken(c)
  <2> PICK token \in Tokens :
        Yield(c, "token", [job[c] EXCEPT !.answer = Append(@, token)])
    BY <1>5 DEF StreamToken
  <2>0. job[c].answer \in Answers => Append(job[c].answer, token) \in Answers
    BY <1>5, LongerAnswer DEF StreamToken
  <2> DEFINE new == [job[c] EXCEPT !.answer = Append(@, token)]
  <2>1. Alike(c, new) /\ DOMAIN new = DOMAIN job[c]
    BY <2>0 DEF Fields, Alike
  <2>2. Open(c)
    BY <1>5 DEF StreamToken, Streams, At, Open
  <2> HIDE DEF new
  <2> QED
    BY <2>1, <2>2, YieldKeeps DEF new
<1>6. CASE StreamEnds(c)
  <2>1. Open(c) /\ Go(c, To(c, "store")) /\ UNCHANGED sessions
    BY <1>6 DEF StreamEnds, Streams, At, Open
  <2> QED
    BY <2>1, Same, OpenKeeps
<1>7. CASE StreamDone(c)
  BY <1>7, Same, Labels, YieldKeeps DEF StreamDone
<1> QED
  BY <1>2, <1>3, <1>4, <1>5, <1>6, <1>7

LEMMA IdleInContext == ASSUME NEW c, job'[c] = Idle PROVE InContext(c)'
BY IdleIs DEF InContext, Open

\* Whoever moves a job is alone, and so changes no session under another question.
LEMMA AloneInContext ==
  ASSUME ModelInv, NEW c \in Callers, job[c] # Idle \/ lock = Nobody, NEW d \in Threads, d # c,
         job'[d] = job[d]
  PROVE  InContext(d)'
<1>1. job[d] = Idle
  <2>1. CASE job[c] # Idle
    BY <2>1, Alone DEF Threads
  <2>2. CASE lock = Nobody
    BY <2>2, ServerAssumption DEF ModelInv, LockInv, WorkInv, LockExcludes, Threads
  <2> QED
    BY <2>1, <2>2
<1> QED
  BY <1>1, IdleInContext

LEMMA WorkInContext ==
  ASSUME ContextInv, NEW c \in Callers, Work(c) PROVE \A d \in Threads : InContext(d)'
<1>1. ASSUME NEW d \in Threads, d # c PROVE InContext(d)'
  <2>1. job[c] # Idle /\ job'[d] = job[d]
    BY <1>1, WorkStep DEF Moves, ContextInv, ModelInv, LockInv, Threads
  <2> QED
    BY <1>1, <2>1, AloneInContext DEF ContextInv
<1>2. ASSUME c \in Threads PROVE InContext(c)'
  <2>1. CASE Store(c)
    <3> DEFINE reply == [To(c, "reply") EXCEPT !.ok = TRUE]
    <3>1. reply.pc = "reply" /\ reply.ok = TRUE
      BY Labels DEF ContextInv, ModelInv, Fields
    <3>2. Go(c, To(c, "done")) \/ Go(c, reply)
      BY <2>1 DEF Store
    <3> HIDE DEF reply
    <3> QED
      BY <3>1, <3>2, Gone, Labels DEF ContextInv, ModelInv, InContext, Open
  <2>2. CASE ~Store(c)
    <3>1. Keeps(c)
      BY <2>2, InferenceKeeps, ToolKeeps, StreamKeeps, Zenon DEF Work, ContextInv, ModelInv
    <3> QED
      BY <1>2, <3>1 DEF Keeps, Alike, InContext, ContextInv
  <2> QED
    BY <2>1, <2>2
<1> QED
  BY <1>1, <1>2

LEMMA AcquireInContext ==
  ASSUME ContextInv, NEW c \in Threads, Acquire(c) PROVE \A d \in Threads : InContext(d)'
<1> DEFINE s == conn[c].session
           q == conn[c].question
           session == WithContext(get_or_create_session(s), NoPlace)
           context == build_context_string(session, q)
           new == [To(c, "query") EXCEPT !.mode = conn[c].mode, !.question = q, !.session = s,
                                         !.context = context, !.target = Classified(q)]
<1> c \in Callers
  BY DEF Threads
<1>1. Go(c, new) /\ lock = Nobody
  BY DEF Acquire, Process
<1>2. sessions'[s] = session
  BY DEF Acquire, Process, Put
<1>3. new.session = s /\ new.context = context
  BY Labels DEF ContextInv, ModelInv, Fields
<1>4. context.recent = Latest4(session.history)
  BY DEF build_context_string, Latest4
<1> HIDE DEF new, context, session
<1>5. job'[c] = new /\ \A d \in Threads : d # c => job'[d] = job[d]
  BY <1>1, Gone DEF ContextInv, ModelInv, Threads
<1>6. InContext(c)'
  BY <1>2, <1>3, <1>4, <1>5 DEF InContext
<1> QED
  BY <1>1, <1>5, <1>6, AloneInContext DEF ContextInv

\* A step that changes no session, and no job but to end it.
LEMMA EndingInContext ==
  ASSUME ContextInv, UNCHANGED sessions,
         \A d \in Threads : job'[d] = job[d] \/ job'[d] = Idle
  PROVE  \A d \in Threads : InContext(d)'
BY IdleInContext DEF ContextInv, InContext, Open

\* A step that leaves every connection without a question.
LEMMA NobodyInContext ==
  ASSUME \A d \in Threads : job'[d] = Idle PROVE \A d \in Threads : InContext(d)'
BY IdleInContext

LEMMA MainInContext ==
  ASSUME ContextInv, MainThread \/ Close \/ Tick PROVE \A d \in Threads : InContext(d)'
<1> USE ServerAssumption
<1>1. CASE load_engine
  <2>1. UNCHANGED sessions
    BY <1>1 DEF load_engine
  <2>2. UNCHANGED job \/ \E new : Go(Main, new)
    BY <1>1 DEF load_engine
  <2>3. \A d \in Threads : job'[d] = job[d]
    BY <2>2, Gone DEF ContextInv, ModelInv, Threads
  <2> QED
    BY <2>1, <2>3, EndingInContext
<1>2. CASE server = "warmup" /\ Work(Main)
  BY <1>2, WorkInContext
<1>3. CASE Serve
  <2>1. Go(Main, Idle) /\ UNCHANGED sessions
    BY <1>3 DEF Serve, Go
  <2>2. \A d \in Threads : job'[d] = job[d]
    BY <2>1, Gone DEF ContextInv, ModelInv, Threads
  <2> QED
    BY <2>1, <2>2, EndingInContext
<1>4. CASE Exit
  BY <1>4, NobodyInContext DEF Exit, Threads
<1>5. CASE Close
  BY <1>5, EndingInContext DEF Close
<1>6. CASE Tick
  <2>1. lock = Nobody /\ UNCHANGED job
    BY <1>6 DEF Tick
  <2>2. \A d \in Threads : job[d] = Idle
    BY <2>1 DEF ContextInv, ModelInv, LockInv, WorkInv, LockExcludes, Threads
  <2> QED
    BY <2>1, <2>2, NobodyInContext
<1> QED
  BY <1>1, <1>2, <1>3, <1>4, <1>5, <1>6 DEF MainThread

LEMMA ConnectionInContext ==
  ASSUME ContextInv, NEW c \in Threads,
         Asks(c) \/ Step(c) \/ Client(c)
  PROVE  \A d \in Threads : InContext(d)'
<1> c \in Callers
  BY DEF Threads
<1>1. CASE Acquire(c)
  BY <1>1, AcquireInContext
<1>2. CASE Work(c)
  BY <1>2, WorkInContext
<1>3. CASE Send(c)
  <2> DEFINE new == [job[c] EXCEPT !.event = "none"]
  <2>1. Go(c, new) /\ UNCHANGED sessions
    BY <1>3 DEF Send
  <2>2. /\ new.pc = job[c].pc /\ new.ok = job[c].ok
        /\ new.session = job[c].session /\ new.context = job[c].context
    BY DEF ContextInv, ModelInv, Fields
  <2> HIDE DEF new
  <2>3. job'[c] = new /\ \A d \in Threads : d # c => job'[d] = job[d]
    BY <2>1, Gone DEF ContextInv, ModelInv, Threads
  <2> QED
    BY <2>1, <2>2, <2>3 DEF ContextInv, InContext, Open
<1>4. CASE Disconnected(c) \/ Finish(c) \/ Broken(c)
  <2>1. Go(c, Idle) /\ UNCHANGED sessions
    BY <1>4 DEF Disconnected, Finish, Broken, Release, Go
  <2>2. \A d \in Threads : job'[d] = job[d] \/ job'[d] = Idle
    BY <2>1, Gone DEF ContextInv, ModelInv, Threads
  <2> QED
    BY <2>1, <2>2, EndingInContext
<1>5. CASE Asks(c) \/ Check(c) \/ SendError(c) \/ Hangup(c) \/ Client(c)
  <2>1. UNCHANGED <<sessions, job>>
    BY <1>5 DEF Asks, Connect, Body, Check, SendError, Hangup, Client
  <2> QED
    BY <2>1, EndingInContext
<1> QED
  BY <1>1, <1>2, <1>3, <1>4, <1>5 DEF Step

LEMMA ContextStep == ASSUME ContextInv, [Next]_vars PROVE ContextInv'
<1>0. ModelInv'
  BY ModelStep DEF ContextInv
<1>1. CASE UNCHANGED vars
  BY <1>0, <1>1, EndingInContext DEF vars, ContextInv
<1>2. CASE MainThread \/ Close \/ Tick
  BY <1>0, <1>2, MainInContext DEF ContextInv
<1>3. ASSUME NEW c \in Threads,
             Asks(c) \/ Step(c) \/ Client(c)
      PROVE  ContextInv'
  BY <1>0, <1>3, ConnectionInContext DEF ContextInv
<1> QED
  BY <1>1, <1>2, <1>3 DEF Next

\* Until its exchange is stored, the session of a question is as its context shows it: the
\* lock keeps every other question out of it, and nothing that fails leaves a turn behind
\* (process_query and process_query_stream in orchestrator.py, under _engine_lock).
THEOREM ContextIsTrue == Spec => []ContextStaysTrue
<1>1. Init => ContextInv
  <2> SUFFICES ASSUME Init PROVE ContextInv
    OBVIOUS
  <2>1. \A c \in Threads : InContext(c)
    BY DEF Init, InContext, Open, Idle, Threads
  <2> QED
    BY <2>1, ModelStarts DEF ContextInv
<1>2. ContextInv => ContextStaysTrue
  BY DEF ContextInv, InContext, Open, ContextStaysTrue
<1> QED
  BY <1>1, ContextStep, <1>2, PTL DEF Spec

----------------------------------------------------------------------------
(***************************************************************************)
(* The memory of a session.                                                *)
(***************************************************************************)

Half == MemorySize \div 2
Turns == [role : {"user", "assistant"}, content : Asked \cup Answers]
Exchange == [question : Asked, answer : Answers]

\* Questions and answers in turn: m exchanges.
Converses(history, m) ==
  /\ history \in Seq(Turns) /\ Len(history) = 2 * m
  /\ \A i \in 1 .. m : history[2 * i - 1].content \in Asked /\ history[2 * i].content \in Answers

\* A history and one turn more.
Added(history, turn) ==
  IF Len(history) < MemorySize THEN Append(history, turn) ELSE Tail(Append(history, turn))

LEMMA Halves == Half \in Nat \ {0} /\ MemorySize = 2 * Half /\ MemorySize \in Nat
BY OrchestratorAssumption DEF OrchestratorAssumption, Half

LEMMA ExchangesAre ==
  ASSUME NEW history, NEW m \in Nat, Converses(history, m)
  PROVE  /\ ExchangesIn(history) \in Seq(Exchange) /\ Len(ExchangesIn(history)) = m
         /\ \A i \in 1 .. m : ExchangesIn(history)[i] =
              [question |-> history[2 * i - 1].content, answer |-> history[2 * i].content]
<1> DEFINE e == [i \in 1 .. m |-> [question |-> history[2 * i - 1].content,
                                   answer |-> history[2 * i].content]]
<1>1. ExchangesIn(history) = e
  BY DEF ExchangesIn, Converses
<1>2. e \in [1 .. m -> Exchange]
  BY DEF Converses, Exchange
<1>3. e \in Seq(Exchange) /\ Len(e) = m
  BY <1>2
<1> QED
  BY <1>1, <1>3

LEMMA TurnAdded ==
  ASSUME NEW session, {"history", "place", "age"} = DOMAIN session,
         session.history \in Seq(Turns), NEW turn \in Turns
  PROVE  /\ DOMAIN add_turn(session, turn) = {"history", "place", "age"}
         /\ add_turn(session, turn).history = Added(session.history, turn)
<1>1. Len(session.history) \in Nat /\ Len(Append(session.history, turn)) = Len(session.history) + 1
  OBVIOUS
<1>2. MemorySize \in Nat
  BY Halves
<1>3. (Len(Append(session.history, turn)) > MemorySize) <=> ~(Len(session.history) < MemorySize)
  BY <1>1, <1>2
<1>4. add_turn(session, turn).history =
        IF Len(Append(session.history, turn)) > MemorySize
        THEN Tail(Append(session.history, turn)) ELSE Append(session.history, turn)
  BY DEF add_turn
<1> QED
  BY <1>3, <1>4 DEF Added, add_turn

\* One turn more in a history that has room for it, and in one that has not.
LEMMA RoomForTurn ==
  ASSUME NEW h \in Seq(Turns), NEW turn \in Turns, NEW n \in Nat, Len(h) = n, n < MemorySize
  PROVE  /\ Added(h, turn) \in Seq(Turns) /\ Len(Added(h, turn)) = n + 1
         /\ \A i \in 1 .. n : Added(h, turn)[i] = h[i]
         /\ Added(h, turn)[n + 1] = turn
<1>1. Added(h, turn) = Append(h, turn)
  BY DEF Added
<1>2. /\ Append(h, turn) \in Seq(Turns) /\ Len(Append(h, turn)) = n + 1
      /\ \A i \in 1 .. n : Append(h, turn)[i] = h[i]
      /\ Append(h, turn)[n + 1] = turn
  BY AppendProperties
<1> QED
  BY <1>1, <1>2

LEMMA FirstTurnGoes ==
  ASSUME NEW h \in Seq(Turns), NEW turn \in Turns, Len(h) = MemorySize
  PROVE  /\ Added(h, turn) \in Seq(Turns) /\ Len(Added(h, turn)) = MemorySize
         /\ \A i \in 1 .. MemorySize - 1 : Added(h, turn)[i] = h[i + 1]
         /\ Added(h, turn)[MemorySize] = turn
<1> DEFINE longer == Append(h, turn)
           n == MemorySize
<1>1. n \in Nat /\ n > 0
  BY Halves
<1>2. /\ longer \in Seq(Turns) /\ Len(longer) = n + 1 /\ longer # <<>>
      /\ \A i \in 1 .. n : longer[i] = h[i]
      /\ longer[n + 1] = turn
  BY AppendProperties
<1>3. Added(h, turn) = Tail(longer)
  BY DEF Added
<1> HIDE DEF longer
<1>4. /\ Tail(longer) \in Seq(Turns) /\ Len(Tail(longer)) = n
      /\ \A i \in 1 .. n : Tail(longer)[i] = longer[i + 1]
  BY <1>2, HeadTailProperties
<1>5. ASSUME NEW i \in 1 .. n - 1 PROVE Tail(longer)[i] = h[i + 1]
  <2>1. i \in 1 .. n /\ i + 1 \in 1 .. n
    OBVIOUS
  <2> QED
    BY <1>2, <1>4, <2>1
<1>6. Tail(longer)[n] = turn
  BY <1>1, <1>2, <1>4
<1> QED
  BY <1>3, <1>4, <1>5, <1>6

\* The history after an exchange: that exchange at the end, after all there were if there is
\* room for it, and otherwise all but the first.
LEMMA RoomForExchange ==
  ASSUME NEW h, NEW m \in Nat, m < Half, Converses(h, m), NEW user \in Turns, NEW said \in Turns,
         user.content \in Asked, said.content \in Answers
  PROVE  LET new == Added(Added(h, user), said)
         IN  /\ Converses(new, m + 1)
             /\ \A i \in 1 .. m : new[2 * i - 1] = h[2 * i - 1] /\ new[2 * i] = h[2 * i]
             /\ new[2 * (m + 1) - 1] = user /\ new[2 * (m + 1)] = said
<1> DEFINE mid == Added(h, user)
           new == Added(mid, said)
<1>1. 2 * m < MemorySize /\ 2 * m + 1 < MemorySize /\ 2 * m \in Nat /\ 2 * m + 1 \in Nat
  BY Halves
<1>2. h \in Seq(Turns) /\ Len(h) = 2 * m
  BY DEF Converses
<1>3. /\ mid \in Seq(Turns) /\ Len(mid) = 2 * m + 1
      /\ \A i \in 1 .. 2 * m : mid[i] = h[i]
      /\ mid[2 * m + 1] = user
  BY <1>1, <1>2, RoomForTurn
<1> HIDE DEF mid
<1>4. /\ new \in Seq(Turns) /\ Len(new) = (2 * m + 1) + 1
      /\ \A i \in 1 .. 2 * m + 1 : new[i] = mid[i]
      /\ new[(2 * m + 1) + 1] = said
  BY <1>1, <1>3, RoomForTurn
<1> HIDE DEF new
<1>5. ASSUME NEW i \in 1 .. m
      PROVE  new[2 * i - 1] = h[2 * i - 1] /\ new[2 * i] = h[2 * i]
  <2>1. 2 * i - 1 \in 1 .. 2 * m /\ 2 * i \in 1 .. 2 * m
    OBVIOUS
  <2>2. 2 * i - 1 \in 1 .. 2 * m + 1 /\ 2 * i \in 1 .. 2 * m + 1
    OBVIOUS
  <2> QED
    BY <1>3, <1>4, <2>1, <2>2
<1>6. new[2 * m + 1] = user
  <2>1. 2 * m + 1 \in 1 .. 2 * m + 1
    OBVIOUS
  <2> QED
    BY <1>3, <1>4, <2>1
<1>7. 2 * (m + 1) - 1 = 2 * m + 1 /\ 2 * (m + 1) = (2 * m + 1) + 1
  OBVIOUS
<1>8. new[2 * (m + 1) - 1] = user /\ new[2 * (m + 1)] = said
  BY <1>4, <1>6, <1>7
<1>9. ASSUME NEW i \in 1 .. m + 1
      PROVE  new[2 * i - 1].content \in Asked /\ new[2 * i].content \in Answers
  <2>1. CASE i \in 1 .. m
    BY <1>5, <2>1 DEF Converses
  <2>2. CASE i = m + 1
    BY <1>8, <2>2
  <2> QED
    BY <2>1, <2>2
<1>10. Converses(new, m + 1)
  BY <1>4, <1>7, <1>9 DEF Converses
<1> QED
  BY <1>5, <1>8, <1>10 DEF new, mid

LEMMA FirstExchangeGoes ==
  ASSUME NEW h, NEW m \in Nat, m = Half, Converses(h, m), NEW user \in Turns, NEW said \in Turns,
         user.content \in Asked, said.content \in Answers
  PROVE  LET new == Added(Added(h, user), said)
         IN  /\ Converses(new, m)
             /\ \A i \in 1 .. m - 1 :
                  new[2 * i - 1] = h[2 * (i + 1) - 1] /\ new[2 * i] = h[2 * (i + 1)]
             /\ new[2 * m - 1] = user /\ new[2 * m] = said
<1> DEFINE mid == Added(h, user)
           new == Added(mid, said)
<1>1. 2 * m = MemorySize /\ 2 * m \in Nat /\ m > 0
  BY Halves
<1>2. h \in Seq(Turns) /\ Len(h) = 2 * m
  BY DEF Converses
<1>3. /\ mid \in Seq(Turns) /\ Len(mid) = 2 * m
      /\ \A i \in 1 .. 2 * m - 1 : mid[i] = h[i + 1]
      /\ mid[2 * m] = user
  BY <1>1, <1>2, FirstTurnGoes
<1> HIDE DEF mid
<1>4. /\ new \in Seq(Turns) /\ Len(new) = 2 * m
      /\ \A i \in 1 .. 2 * m - 1 : new[i] = mid[i + 1]
      /\ new[2 * m] = said
  BY <1>1, <1>3, FirstTurnGoes
<1> HIDE DEF new
<1>5. ASSUME NEW i \in 1 .. m - 1
      PROVE  new[2 * i - 1] = h[2 * (i + 1) - 1] /\ new[2 * i] = h[2 * (i + 1)]
  <2>1. 2 * i - 1 \in 1 .. 2 * m - 1 /\ 2 * i \in 1 .. 2 * m - 1
    OBVIOUS
  <2>2. (2 * i - 1) + 1 = 2 * i /\ 2 * i + 1 \in 1 .. 2 * m - 1
    OBVIOUS
  <2>3. 2 * i + 1 = 2 * (i + 1) - 1 /\ (2 * i + 1) + 1 = 2 * (i + 1)
    OBVIOUS
  <2>4. new[2 * i - 1] = mid[2 * i] /\ new[2 * i] = mid[2 * i + 1]
    BY <1>4, <2>1, <2>2
  <2>5. mid[2 * i] = h[2 * i + 1] /\ mid[2 * i + 1] = h[(2 * i + 1) + 1]
    BY <1>3, <2>1, <2>2
  <2> QED
    BY <2>3, <2>4, <2>5
<1>6. new[2 * m - 1] = user
  <2>1. 2 * m - 1 \in 1 .. 2 * m - 1 /\ (2 * m - 1) + 1 = 2 * m
    BY <1>1
  <2> QED
    BY <1>3, <1>4, <2>1
<1>7. ASSUME NEW i \in 1 .. m
      PROVE  new[2 * i - 1].content \in Asked /\ new[2 * i].content \in Answers
  <2>1. CASE i \in 1 .. m - 1
    <3>1. i + 1 \in 1 .. m
      BY <2>1
    <3> QED
      BY <1>5, <2>1, <3>1 DEF Converses
  <2>2. CASE i = m
    BY <1>4, <1>6, <2>2
  <2> QED
    BY <2>1, <2>2
<1>8. Converses(new, m)
  BY <1>4, <1>7 DEF Converses
<1> QED
  BY <1>4, <1>5, <1>6, <1>8 DEF new, mid

\* What is stored is remembered: the exchange comes last, and a full memory loses its first.
LEMMA ExchangeRemembered ==
  ASSUME NEW h, NEW m \in 0 .. Half, Converses(h, m), NEW user \in Turns, NEW said \in Turns,
         user.content \in Asked, said.content \in Answers
  PROVE  LET new == Added(Added(h, user), said)
         IN  /\ \E k \in 0 .. Half : Converses(new, k)
             /\ ExchangesIn(new) =
                  Remembered!Latest(Append(ExchangesIn(h), [question |-> user.content,
                                                            answer |-> said.content]))
<1> DEFINE new == Added(Added(h, user), said)
           old == ExchangesIn(h)
           exchange == [question |-> user.content, answer |-> said.content]
           longer == Append(old, exchange)
<1>1. Half \in Nat \ {0} /\ m \in Nat
  BY Halves
<1>2. /\ old \in Seq(Exchange) /\ Len(old) = m
      /\ \A i \in 1 .. m : old[i] = [question |-> h[2 * i - 1].content, answer |-> h[2 * i].content]
  BY <1>1, ExchangesAre
<1>3. exchange \in Exchange
  BY DEF Exchange
<1> HIDE DEF old
<1>4. /\ longer \in Seq(Exchange) /\ Len(longer) = m + 1 /\ longer # <<>>
      /\ \A i \in 1 .. m : longer[i] = old[i]
      /\ longer[m + 1] = exchange
  BY <1>1, <1>2, <1>3, AppendProperties
<1> HIDE DEF longer
<1>5. CASE m < Half
  <2> DEFINE k == m + 1
  <2>1. /\ Converses(new, k)
        /\ \A i \in 1 .. m : new[2 * i - 1] = h[2 * i - 1] /\ new[2 * i] = h[2 * i]
        /\ new[2 * k - 1] = user /\ new[2 * k] = said
    BY <1>1, <1>5, RoomForExchange
  <2> HIDE DEF new
  <2>2. k \in Nat /\ k \in 0 .. Half
    BY <1>1, <1>5
  <2>3. /\ ExchangesIn(new) \in Seq(Exchange) /\ Len(ExchangesIn(new)) = k
        /\ \A i \in 1 .. k : ExchangesIn(new)[i] =
             [question |-> new[2 * i - 1].content, answer |-> new[2 * i].content]
    BY <2>1, <2>2, ExchangesAre
  <2>4. ASSUME NEW i \in 1 .. k PROVE ExchangesIn(new)[i] = longer[i]
    <3>1. CASE i \in 1 .. m
      <4>1. longer[i] = [question |-> h[2 * i - 1].content, answer |-> h[2 * i].content]
        BY <1>2, <1>4, <3>1
      <4>2. new[2 * i - 1] = h[2 * i - 1] /\ new[2 * i] = h[2 * i]
        BY <2>1, <3>1
      <4>3. ExchangesIn(new)[i] = [question |-> new[2 * i - 1].content, answer |-> new[2 * i].content]
        BY <2>3
      <4> QED
        BY <4>1, <4>2, <4>3, Zenon
    <3>2. CASE i = k
      BY <1>4, <2>1, <2>3, <3>2
    <3> QED
      BY <1>1, <3>1, <3>2
  <2>5. ExchangesIn(new) = longer
    BY <1>4, <2>3, <2>4, SeqEqual
  <2>6. ~(Len(longer) > Half)
    BY <1>1, <1>4, <1>5
  <2> QED
    BY <2>1, <2>2, <2>5, <2>6 DEF Remembered!Latest, Half, longer, old, new
<1>6. CASE m = Half
  <2>1. /\ Converses(new, m)
        /\ \A i \in 1 .. m - 1 :
             new[2 * i - 1] = h[2 * (i + 1) - 1] /\ new[2 * i] = h[2 * (i + 1)]
        /\ new[2 * m - 1] = user /\ new[2 * m] = said
    BY <1>1, <1>6, FirstExchangeGoes
  <2> HIDE DEF new
  <2>2. /\ ExchangesIn(new) \in Seq(Exchange) /\ Len(ExchangesIn(new)) = m
        /\ \A i \in 1 .. m : ExchangesIn(new)[i] =
             [question |-> new[2 * i - 1].content, answer |-> new[2 * i].content]
    BY <1>1, <2>1, ExchangesAre
  <2>3. /\ Tail(longer) \in Seq(Exchange) /\ Len(Tail(longer)) = m
        /\ \A i \in 1 .. m : Tail(longer)[i] = longer[i + 1]
    BY <1>1, <1>4, HeadTailProperties
  <2>4. ASSUME NEW i \in 1 .. m PROVE ExchangesIn(new)[i] = Tail(longer)[i]
    <3>1. CASE i \in 1 .. m - 1
      <4>1. i + 1 \in 1 .. m
        BY <3>1
      <4>2. Tail(longer)[i] = [question |-> h[2 * (i + 1) - 1].content, answer |-> h[2 * (i + 1)].content]
        BY <1>2, <1>4, <2>3, <4>1
      <4> QED
        BY <2>1, <2>2, <3>1, <4>2
    <3>2. CASE i = m
      BY <1>4, <2>1, <2>2, <2>3, <3>2
    <3>3. i \in 1 .. m - 1 \/ i = m
      BY <1>1
    <3> QED
      BY <3>1, <3>2, <3>3
  <2>5. ExchangesIn(new) = Tail(longer)
    BY <2>2, <2>3, <2>4, SeqEqual
  <2>6. Len(longer) > Half /\ m \in 0 .. Half
    BY <1>1, <1>4, <1>6
  <2> QED
    BY <2>1, <2>5, <2>6 DEF Remembered!Latest, Half, longer, old, new
<1> QED
  BY <1>1, <1>5, <1>6

----------------------------------------------------------------------------
(***************************************************************************)
(* The sessions, and what is known of those who store into them.           *)
(***************************************************************************)

Remembering(session) ==
  {"history", "place", "age"} = DOMAIN session /\ \E m \in 0 .. Half : Converses(session.history, m)

SessionsInv == DOMAIN sessions \subseteq SessionIds /\ \A s \in DOMAIN sessions : Remembering(sessions[s])

\* A request that may become a question asks one of the questions, of one of the sessions.
Pending(c) ==
  conn[c].phase \in {"checking", "waiting"} =>
    conn[c].question \in Questions /\ conn[c].session \in SessionIds

Working(c) ==
  job[c] # Idle =>
    /\ job[c].question \in Questions /\ job[c].session \in DOMAIN sessions
    /\ job[c].answer \in Answers

\* The warmup is a bare query: it comes nowhere near a session.
Bare(j) == j.pc \in {"query", "load", "infer", "reply"} /\ j.mode = "ask" /\ j.streaming = FALSE
Warm == job[Main] # Idle => Bare(job[Main])

MemoryInv == ModelInv /\ SessionsInv /\ Warm /\ \A c \in Threads : Pending(c) /\ Working(c)

\* The memory of every session is one exchange longer, gone, or what it was.
Promise == Remembered!Next \/ UNCHANGED memory

LEMMA Nothing == ExchangesIn(<<>>) = <<>> /\ Converses(<<>>, 0) /\ Remembering(NewSession)
<1>1. Converses(<<>>, 0)
  BY DEF Converses
<1>2. ExchangesIn(<<>>) \in Seq(Exchange) /\ Len(ExchangesIn(<<>>)) = 0
  BY <1>1, ExchangesAre
<1>3. 0 \in 0 .. Half
  BY Halves
<1> QED
  BY <1>1, <1>2, <1>3, EmptySeq DEF Remembering, NewSession

LEMMA SameMemory ==
  ASSUME \A s \in SessionIds : ExchangesOf(s)' = ExchangesOf(s) PROVE UNCHANGED memory
BY DEF memory

LEMMA SameSessions == ASSUME UNCHANGED sessions PROVE UNCHANGED memory
BY DEF memory, ExchangesOf

LEMMA TurnsAdded ==
  ASSUME NEW session, Remembering(session), NEW q \in Questions, NEW answer \in Answers
  PROVE  LET new == add_turn(add_turn(session, Turn("user", <<q>>)), Turn("assistant", answer))
         IN  /\ Remembering(new)
             /\ ExchangesIn(new.history) =
                  Remembered!Latest(Append(ExchangesIn(session.history),
                                           [question |-> <<q>>, answer |-> answer]))
<1> DEFINE user == Turn("user", <<q>>)
           said == Turn("assistant", answer)
           h == session.history
           mid == add_turn(session, user)
           new == add_turn(mid, said)
<1>1. PICK m \in 0 .. Half : Converses(h, m)
  BY DEF Remembering
<1>2. /\ user \in Turns /\ user.content = <<q>> /\ user.content \in Asked
      /\ said \in Turns /\ said.content = answer
  BY DEF Turn, Turns, Asked
<1> HIDE DEF user, said
<1>3. h \in Seq(Turns) /\ Added(h, user) \in Seq(Turns)
  <2>1. h \in Seq(Turns) /\ Len(h) = 2 * m /\ 2 * m \in Nat /\ 2 * m <= MemorySize
    BY <1>1, Halves DEF Converses
  <2>2. CASE 2 * m < MemorySize
    BY <1>2, <2>1, <2>2, RoomForTurn
  <2>3. CASE 2 * m = MemorySize
    BY <1>2, <2>1, <2>3, FirstTurnGoes
  <2> QED
    BY <2>1, <2>2, <2>3, Halves
<1>4. DOMAIN mid = {"history", "place", "age"} /\ mid.history = Added(h, user)
  BY <1>2, <1>3, TurnAdded DEF Remembering
<1> HIDE DEF mid
<1>5. DOMAIN new = {"history", "place", "age"} /\ new.history = Added(Added(h, user), said)
  BY <1>2, <1>3, <1>4, TurnAdded
<1> HIDE DEF new, h
<1>6. /\ \E k \in 0 .. Half : Converses(Added(Added(h, user), said), k)
      /\ ExchangesIn(Added(Added(h, user), said)) =
           Remembered!Latest(Append(ExchangesIn(h), [question |-> user.content, answer |-> said.content]))
  BY <1>1, <1>2, ExchangeRemembered
<1>7. Remembering(new)
  BY <1>5, <1>6 DEF Remembering
<1>8. ExchangesIn(new.history) =
        Remembered!Latest(Append(ExchangesIn(h), [question |-> <<q>>, answer |-> answer]))
  BY <1>2, <1>5, <1>6
<1> QED
  BY <1>7, <1>8 DEF new, mid, h, user, said

LEMMA PutIs ==
  ASSUME NEW s, NEW session, Put(s, session)
  PROVE  /\ DOMAIN sessions' = DOMAIN sessions \cup {s} /\ sessions'[s] = session
         /\ \A t \in DOMAIN sessions : t # s => sessions'[t] = sessions[t]
BY DEF Put

\* A question of a known session is stored.
LEMMA StoreRemembers ==
  ASSUME SessionsInv, NEW s \in DOMAIN sessions, NEW q \in Questions, NEW answer \in Answers,
         Put(s, add_turn(add_turn(sessions[s], Turn("user", <<q>>)), Turn("assistant", answer)))
  PROVE  SessionsInv' /\ DOMAIN sessions' = DOMAIN sessions /\ Promise
<1> DEFINE new == add_turn(add_turn(sessions[s], Turn("user", <<q>>)), Turn("assistant", answer))
           exchange == [question |-> <<q>>, answer |-> answer]
<1>1. Remembering(new) /\ ExchangesIn(new.history) =
        Remembered!Latest(Append(ExchangesIn(sessions[s].history), exchange))
  BY TurnsAdded DEF SessionsInv
<1>2. Put(s, new) /\ exchange \in Exchange /\ s \in SessionIds
  BY DEF Exchange, Asked, SessionsInv
<1> HIDE DEF new, exchange
<1>3. /\ DOMAIN sessions' = DOMAIN sessions /\ sessions'[s] = new
      /\ \A t \in DOMAIN sessions : t # s => sessions'[t] = sessions[t]
  BY <1>2, PutIs
<1>4. SessionsInv'
  BY <1>1, <1>3 DEF SessionsInv
<1>5. ExchangesOf(s)' = Remembered!Latest(Append(ExchangesOf(s), exchange))
  BY <1>1, <1>3 DEF ExchangesOf
<1>6. \A t \in SessionIds : t # s => ExchangesOf(t)' = ExchangesOf(t)
  BY <1>3 DEF ExchangesOf
<1>7. memory' = [memory EXCEPT ![s] = Remembered!Latest(Append(@, exchange))]
  BY <1>2, <1>5, <1>6 DEF memory
<1>8. Remembered!Remember(s, exchange)
  BY <1>7 DEF Remembered!Remember
<1> QED
  BY <1>2, <1>3, <1>4, <1>8 DEF Promise, Remembered!Next, Exchange

\* A session found expired is forgotten, another is found as it was.
LEMMA FindForgets ==
  ASSUME SessionsInv, NEW s \in SessionIds, Put(s, WithContext(get_or_create_session(s), NoPlace))
  PROVE  SessionsInv' /\ DOMAIN sessions' = DOMAIN sessions \cup {s} /\ Promise
<1> DEFINE session == get_or_create_session(s)
<1>0. Put(s, session)
  BY DEF WithContext
<1>1. session = NewSession \/ (s \in DOMAIN sessions /\ session = sessions[s])
  BY DEF get_or_create_session
<1> HIDE DEF session
<1>2. /\ DOMAIN sessions' = DOMAIN sessions \cup {s} /\ sessions'[s] = session
      /\ \A t \in DOMAIN sessions : t # s => sessions'[t] = sessions[t]
  BY <1>0, PutIs
<1>3. SessionsInv'
  BY <1>1, <1>2, Nothing DEF SessionsInv
<1>4. \A t \in SessionIds : t # s => ExchangesOf(t)' = ExchangesOf(t)
  BY <1>2 DEF ExchangesOf
<1>5. CASE session = NewSession
  <2>1. ExchangesOf(s)' = <<>>
    BY <1>2, <1>5, Nothing DEF ExchangesOf, NewSession
  <2>2. memory' = [t \in SessionIds |-> IF t \in {s} THEN <<>> ELSE memory[t]]
    BY <1>4, <2>1 DEF memory
  <2> QED
    BY <1>2, <1>3, <2>2 DEF Promise, Remembered!Next, Remembered!Forget
<1>6. CASE s \in DOMAIN sessions /\ session = sessions[s]
  <2>1. ExchangesOf(s)' = ExchangesOf(s)
    BY <1>2, <1>6 DEF ExchangesOf
  <2> QED
    BY <1>2, <1>3, <1>4, <2>1, SameMemory DEF Promise
<1> QED
  BY <1>1, <1>5, <1>6

----------------------------------------------------------------------------
(***************************************************************************)
(* Every step keeps the promise.                                           *)
(***************************************************************************)

\* What a step has to show besides ModelInv'.
Kept == SessionsInv' /\ Warm' /\ (\A c \in Threads : Pending(c)' /\ Working(c)') /\ Promise

LEMMA MainIsCaller == Main \in Callers /\ Main \notin Threads /\ Threads \subseteq Callers
BY ServerAssumption DEF Threads

\* Work of the main thread: the steps of a bare query.
LEMMA WarmStays ==
  ASSUME MemoryInv, Work(Main) PROVE Warm' /\ UNCHANGED sessions /\ ~Store(Main)
<1> USE MainIsCaller
<1>1. job[Main] # Idle
  BY WorkStep
<1>2. Bare(job[Main])
  BY <1>1 DEF MemoryInv, Warm
<1>3. Fields /\ LockInv
  BY DEF MemoryInv, ModelInv
<1>4. Refuse(Main) \/ Route(Main) \/ Unload(Main) \/ Load(Main) \/ Infer(Main) \/ InferFails(Main)
  BY <1>2 DEF Bare, Work, ExecuteTool, ParseRaises, Settle, Store, StreamAdapter, StreamError, StreamCall,
              StreamResult, StreamAgain, StreamToken, StreamEnds, StreamDone, Streams, At
<1>5. UNCHANGED sessions /\ ~Store(Main)
  BY <1>2, <1>4 DEF Bare, Refuse, Route, Unload, Load, Infer, InferFails, Store, At
<1>6. ASSUME NEW new, Go(Main, new), Bare(new) PROVE Warm'
  <2>1. job'[Main] = new
    BY <1>3, <1>6, Gone
  <2> QED
    BY <1>6, <2>1, Zenon DEF Warm
<1>7. CASE Refuse(Main) \/ InferFails(Main)
  <2> DEFINE new == [To(Main, "reply") EXCEPT !.ok = FALSE]
  <2>1. Failure(Main) = new
    BY <1>2 DEF Bare, Failure
  <2>2. Bare(new)
    BY <1>2, <1>3 DEF To, Fields, Bare
  <2>3. Go(Main, new)
    BY <1>7, <2>1 DEF Refuse, InferFails
  <2> HIDE DEF new
  <2> QED
    BY <1>5, <1>6, <2>2, <2>3
<1>8. CASE Route(Main) \/ Unload(Main)
  <2> PICK label \in {"infer", "load"} : Go(Main, To(Main, label))
    BY <1>8 DEF Route, Unload
  <2>1. Bare(To(Main, label))
    BY <1>2, <1>3 DEF To, Fields, Bare
  <2> QED
    BY <1>5, <1>6, <2>1
<1>9. CASE Load(Main)
  <2> DEFINE new == [To(Main, "infer") EXCEPT !.target = engine'.active]
  <2>1. Bare(new)
    BY <1>2, <1>3 DEF To, Fields, Bare
  <2>2. Go(Main, new)
    BY <1>9 DEF Load
  <2> HIDE DEF new
  <2> QED
    BY <1>5, <1>6, <2>1, <2>2
<1>10. CASE Infer(Main)
  <2> PICK token \in Tokens : Go(Main, [To(Main, "reply") EXCEPT !.answer = <<token>>, !.ok = TRUE])
    BY <1>2, <1>10 DEF Bare, Infer
  <2> DEFINE new == [To(Main, "reply") EXCEPT !.answer = <<token>>, !.ok = TRUE]
  <2>1. Bare(new)
    BY <1>2, <1>3 DEF To, Fields, Bare
  <2> HIDE DEF new
  <2> QED
    BY <1>5, <1>6, <2>1 DEF new
<1> QED
  BY <1>4, <1>5, <1>7, <1>8, <1>9, <1>10

\* A step that changes no session, no connection, and no job but the main thread's.
LEMMA MainKept ==
  ASSUME MemoryInv, UNCHANGED <<sessions, conn>>, \A c \in Threads : job'[c] = job[c], Warm'
  PROVE  Kept
BY SameSessions DEF Kept, MemoryInv, SessionsInv, Pending, Working, Promise

LEMMA TickKept ==
  ASSUME MemoryInv, Tick PROVE Kept
<1>1. /\ DOMAIN sessions' = DOMAIN sessions
      /\ \A s \in DOMAIN sessions : /\ sessions'[s].history = sessions[s].history
                                    /\ DOMAIN sessions'[s] = DOMAIN sessions[s]
  BY DEF Tick, MemoryInv, SessionsInv, Remembering
<1>2. UNCHANGED <<job, conn>>
  BY DEF Tick, front
<1>3. SessionsInv'
  BY <1>1 DEF MemoryInv, SessionsInv, Remembering
<1>4. \A s \in SessionIds : ExchangesOf(s)' = ExchangesOf(s)
  BY <1>1 DEF ExchangesOf
<1> QED
  BY <1>1, <1>2, <1>3, <1>4, SameMemory
     DEF Kept, MemoryInv, Pending, Working, Warm, Promise

LEMMA MainStepKept == ASSUME MemoryInv, MainThread \/ Close \/ Tick PROVE Kept
<1> USE MainIsCaller
<1>0. LockInv /\ Fields /\ MainInv
  BY DEF MemoryInv, ModelInv
<1>1. CASE load_engine
  <2> DEFINE new == [To(Main, "query") EXCEPT !.mode = "ask", !.target = "conversational"]
  <2>1. UNCHANGED <<sessions, conn>> /\ (UNCHANGED job \/ Go(Main, new))
    BY <1>1 DEF load_engine
  <2>2. job[Main] = Idle
    BY <1>0, <1>1 DEF load_engine, MainInv
  <2>3. Bare(new)
    <3>1. Idle.streaming = FALSE
      BY Zenon DEF Idle
    <3> QED
      BY <1>0, <2>2, <3>1 DEF To, Fields, Bare
  <2> HIDE DEF new
  <2>4. Warm' /\ \A c \in Threads : job'[c] = job[c]
    <3>1. CASE UNCHANGED job
      BY <3>1, <2>2 DEF Warm
    <3>2. CASE Go(Main, new)
      BY <1>0, <2>3, <3>2, Gone DEF Warm
    <3> QED
      BY <2>1, <3>1, <3>2
  <2> QED
    BY <2>1, <2>4, MainKept
<1>2. CASE server = "warmup" /\ Work(Main)
  <2>1. UNCHANGED sessions /\ Warm'
    BY <1>2, WarmStays
  <2>2. UNCHANGED conn /\ \A c \in Threads : job'[c] = job[c]
    BY <1>0, <1>2, WorkStep DEF Work, front, Moves, LockInv
  <2> QED
    BY <2>1, <2>2, MainKept
<1>3. CASE Serve
  <2>1. Go(Main, Idle) /\ UNCHANGED <<sessions, conn>>
    BY <1>3 DEF Serve, Go
  <2>2. job'[Main] = Idle /\ \A c \in Threads : job'[c] = job[c]
    BY <1>0, <2>1, Gone
  <2> QED
    BY <2>1, <2>2, MainKept DEF Warm
<1>4. CASE Exit
  <2>1. UNCHANGED sessions /\ \A c \in Callers : job'[c] = Idle
    BY <1>4 DEF Exit
  <2>2. \A c \in Threads : conn'[c].phase = "none"
    BY <1>4 DEF Exit, NoRequest
  <2> QED
    BY <2>1, <2>2, SameSessions
       DEF Kept, MemoryInv, SessionsInv, Pending, Working, Warm, Promise
<1>5. CASE Close
  BY <1>5, MainKept DEF Close, MemoryInv, Warm
<1>6. CASE Tick
  BY <1>6, TickKept
<1> QED
  BY <1>1, <1>2, <1>3, <1>4, <1>5, <1>6 DEF MainThread

\* A connection's step that changes no session, leaves its job at the same question or Idle,
\* and its request settled or as it was.
LEMMA ThreadKept ==
  ASSUME MemoryInv, NEW c \in Threads, UNCHANGED sessions,
         \A d \in Callers : d # c => job'[d] = job[d],
         \A d \in Threads : d # c => conn'[d] = conn[d],
         Working(c)', Pending(c)'
  PROVE  Kept
<1>1. job'[Main] = job[Main]
  BY MainIsCaller
<1>2. \A d \in Threads : Pending(d)' /\ Working(d)'
  BY MainIsCaller DEF MemoryInv, Pending, Working
<1> QED
  BY <1>1, <1>2, SameSessions DEF Kept, MemoryInv, SessionsInv, Warm, Promise

LEMMA OutsideKept ==
  ASSUME MemoryInv, NEW c \in Threads,
         Asks(c) \/ Check(c) \/ SendError(c) \/ Hangup(c) \/ Client(c)
  PROVE  Kept
<1>1. UNCHANGED <<sessions, job>>
  BY DEF Asks, Connect, Body, Check, SendError, Hangup, Client
<1>2. Working(c)'
  BY <1>1 DEF MemoryInv, Working
<1>3. LockInv
  BY DEF MemoryInv, ModelInv
<1>4. ASSUME NEW r, conn' = [conn EXCEPT ![c] = r],
             r.phase \in {"checking", "waiting"} => r.question \in Questions /\ r.session \in SessionIds
      PROVE  Kept
  <2>1. conn'[c] = r /\ \A d \in Threads : d # c => conn'[d] = conn[d]
    BY <1>3, <1>4, ConnectionType
  <2>2. Pending(c)'
    BY <1>4, <2>1 DEF Pending
  <2> QED
    BY <1>1, <1>2, <2>1, <2>2, ThreadKept
<1>5. CASE Asks(c)
  <2>1. ASSUME NEW mode, Connect(c, mode) PROVE Kept
    <3> DEFINE r == [NoRequest EXCEPT !.phase = "receiving", !.mode = mode]
    <3>1. r.phase = "receiving" /\ conn' = [conn EXCEPT ![c] = r]
      BY <2>1, ReceivingIs DEF Connect
    <3> HIDE DEF r
    <3> QED
      BY <1>4, <3>1
  <2>2. ASSUME NEW q \in Questions, NEW s \in SessionIds, Body(c, q, s) PROVE Kept
    <3> PICK r : r.question = q /\ r.session = s /\ conn' = [conn EXCEPT ![c] = r]
      BY <1>3, <2>2, Bodies DEF LockInv
    <3> QED
      BY <1>4
  <2> QED
    BY <1>5, <2>1, <2>2 DEF Asks
<1>6. ASSUME NEW code, Answered(c, code) PROVE Kept
  <2> DEFINE r == [NoRequest EXCEPT !.phase = "closing", !.reply = code]
  <2>1. r.phase = "closing"
    BY DEF NoRequest
  <2>2. conn' = [conn EXCEPT ![c] = r]
    BY <1>6 DEF Answered
  <2> HIDE DEF r
  <2> QED
    BY <1>4, <2>1, <2>2
<1>7. CASE Check(c)
  <2>1. CASE \E code : Answered(c, code)
    BY <1>6, <2>1
  <2>2. CASE \E reply : Request(c, "waiting", reply)
    <3> PICK reply : Request(c, "waiting", reply)
      BY <2>2
    <3> DEFINE r == [phase |-> "waiting", mode |-> conn[c].mode, question |-> conn[c].question,
                     session |-> conn[c].session, reply |-> reply]
    <3>1. conn' = [conn EXCEPT ![c] = r]
      BY <1>3 DEF Request, LockInv
    <3>2. r.question \in Questions /\ r.session \in SessionIds
      BY <1>7 DEF Check, MemoryInv, Pending
    <3> HIDE DEF r
    <3> QED
      BY <1>4, <3>1, <3>2
  <2> QED
    BY <1>7, <2>1, <2>2 DEF Check
<1>8. CASE SendError(c)
  BY <1>6, <1>8 DEF SendError
<1>9. CASE Hangup(c)
  <2>1. conn' = [conn EXCEPT ![c] = NoRequest] /\ NoRequest.phase = "none"
    BY <1>9 DEF Hangup, NoRequest
  <2> QED
    BY <1>4, <2>1
<1>10. CASE Client(c)
  <2>1. UNCHANGED conn
    BY <1>10 DEF Client
  <2> QED
    BY <1>1, <1>2, <2>1, ThreadKept DEF MemoryInv, Pending
<1> QED
  BY <1>5, <1>7, <1>8, <1>9, <1>10

LEMMA AcquireKept ==
  ASSUME MemoryInv, NEW c \in Threads, Acquire(c) PROVE Kept
<1> DEFINE s == conn[c].session
           q == conn[c].question
           session == WithContext(get_or_create_session(s), NoPlace)
           new == [To(c, "query") EXCEPT !.mode = conn[c].mode, !.question = q, !.session = s,
                                         !.context = build_context_string(session, q),
                                         !.target = Classified(q)]
           r == [phase |-> "working", mode |-> conn[c].mode, question |-> q, session |-> s,
                 reply |-> conn[c].reply]
<1> USE MainIsCaller
<1>0. LockInv /\ Fields /\ SessionsInv
  BY DEF MemoryInv, ModelInv
<1>1. q \in Questions /\ s \in SessionIds
  BY DEF Acquire, MemoryInv, Pending
<1>2. job[c] = Idle
  BY <1>0 DEF Acquire, LockInv, WorkInv
<1>3. Put(s, session) /\ Go(c, new)
  BY DEF Acquire, Process
<1>4. conn' = [conn EXCEPT ![c] = r]
  BY <1>0 DEF Acquire, Request, LockInv
<1>5. SessionsInv' /\ DOMAIN sessions' = DOMAIN sessions \cup {s} /\ Promise
  BY <1>0, <1>1, <1>3, FindForgets
<1>6. new.question = q /\ new.session = s /\ new.answer = job[c].answer
  BY <1>0 DEF To, Fields
<1>7. new.answer \in Answers
  <2>1. Idle.answer = <<>>
    BY DEF Idle
  <2> QED
    BY <1>2, <1>6, <2>1, ShortAnswers
<1>8. job'[c] = new /\ \A d \in Callers : d # c => job'[d] = job[d]
  BY <1>0, <1>3, Gone
<1>9. r.phase = "working"
  OBVIOUS
<1> HIDE DEF new, r, session
<1>10. conn'[c] = r /\ \A d \in Threads : d # c => conn'[d] = conn[d]
  BY <1>0, <1>4, ConnectionType
<1>11. Working(c)' /\ Pending(c)'
  BY <1>1, <1>5, <1>6, <1>7, <1>8, <1>9, <1>10 DEF Working, Pending
<1>12. \A d \in Threads : Pending(d)' /\ Working(d)'
  BY <1>5, <1>8, <1>10, <1>11 DEF MemoryInv, Pending, Working
<1>13. Warm'
  BY <1>8 DEF MemoryInv, Warm
<1> QED
  BY <1>5, <1>12, <1>13 DEF Kept

\* A question is answered, or its exchange stored.
LEMMA WorkKept ==
  ASSUME MemoryInv, NEW c \in Threads, Work(c) PROVE Kept
<1> USE MainIsCaller
<1>0. LockInv /\ Fields /\ SessionsInv
  BY DEF MemoryInv, ModelInv
<1>1. /\ job[c] # Idle /\ UNCHANGED conn
      /\ \A d \in Callers : d # c => job'[d] = job[d]
  BY <1>0, WorkStep DEF Work, front, Moves, LockInv
<1>2. job[c].question \in Questions /\ job[c].session \in DOMAIN sessions /\ job[c].answer \in Answers
  BY <1>1 DEF MemoryInv, Working
<1>3. CASE Store(c)
  <2> DEFINE s == job[c].session
             reply == [To(c, "reply") EXCEPT !.ok = TRUE]
  <2>1. Put(s, add_turn(add_turn(sessions[s], Turn("user", <<job[c].question>>)),
                        Turn("assistant", job[c].answer)))
    BY <1>3 DEF Store
  <2>2. SessionsInv' /\ DOMAIN sessions' = DOMAIN sessions /\ Promise
    BY <1>0, <1>2, <2>1, StoreRemembers
  <2>3. Go(c, To(c, "done")) \/ Go(c, reply)
    BY <1>3 DEF Store
  <2>4. Alike(c, To(c, "done")) /\ Alike(c, reply)
    BY <1>0, Same DEF Fields, Alike
  <2> HIDE DEF reply
  <2>5. Alike(c, job'[c])
    BY <1>0, <2>3, <2>4, Gone
  <2>6. Working(c)'
    BY <1>2, <2>2, <2>5 DEF Working, Alike
  <2>7. \A d \in Threads : Pending(d)' /\ Working(d)'
    BY <1>1, <2>2, <2>6 DEF MemoryInv, Pending, Working
  <2>8. Warm'
    BY <1>1 DEF MemoryInv, Warm
  <2> QED
    BY <2>2, <2>7, <2>8 DEF Kept
<1>4. CASE ~Store(c)
  <2>1. Keeps(c)
    BY <1>0, <1>4, InferenceKeeps, ToolKeeps, StreamKeeps, Zenon DEF Work
  <2>2. Working(c)'
    BY <1>2, <2>1 DEF Working, Keeps, Alike
  <2>3. Pending(c)'
    BY <1>1 DEF MemoryInv, Pending
  <2> QED
    BY <1>1, <2>1, <2>2, <2>3, ThreadKept DEF Keeps
<1> QED
  BY <1>3, <1>4

LEMMA EndingKept ==
  ASSUME MemoryInv, NEW c \in Threads, Send(c) \/ Disconnected(c) \/ Finish(c) \/ Broken(c)
  PROVE  Kept
<1> USE MainIsCaller
<1>0. LockInv /\ Fields
  BY DEF MemoryInv, ModelInv
<1>1. CASE Send(c)
  <2> DEFINE new == [job[c] EXCEPT !.event = "none"]
  <2>1. Go(c, new) /\ UNCHANGED <<sessions, conn>>
    BY <1>1 DEF Send
  <2>2. Alike(c, new)
    BY <1>0 DEF Fields, Alike
  <2>3. job[c] # Idle
    BY <1>1, IdleIs DEF Send
  <2> HIDE DEF new
  <2>4. job'[c] = new /\ \A d \in Callers : d # c => job'[d] = job[d]
    BY <1>0, <2>1, Gone
  <2>5. Working(c)' /\ Pending(c)'
    BY <2>1, <2>2, <2>3, <2>4 DEF MemoryInv, Working, Pending, Alike
  <2> QED
    BY <2>1, <2>4, <2>5, ThreadKept
<1>2. CASE Disconnected(c) \/ Finish(c) \/ Broken(c)
  <2>1. Go(c, Idle) /\ UNCHANGED sessions
    BY <1>2 DEF Disconnected, Finish, Broken, Release, Go
  <2>2. job'[c] = Idle /\ \A d \in Callers : d # c => job'[d] = job[d]
    BY <1>0, <2>1, Gone
  <2>3. \E r : conn' = [conn EXCEPT ![c] = r] /\ r.phase \in {"closing", "failing"}
    <3>1. ASSUME NEW code, Answered(c, code)
          PROVE  \E r : conn' = [conn EXCEPT ![c] = r] /\ r.phase \in {"closing", "failing"}
      <4> DEFINE r == [NoRequest EXCEPT !.phase = "closing", !.reply = code]
      <4>1. r.phase = "closing" /\ conn' = [conn EXCEPT ![c] = r]
        BY <3>1 DEF NoRequest, Answered
      <4> HIDE DEF r
      <4> QED
        BY <4>1
    <3>2. CASE \E reply : Request(c, "failing", reply)
      BY <1>0, <3>2, Requests
    <3>3. (\E code : Answered(c, code)) \/ (\E reply : Request(c, "failing", reply))
      BY <1>2 DEF Disconnected, Finish, Broken, Release
    <3> QED
      BY <3>1, <3>2, <3>3
  <2>4. conn'[c].phase \in {"closing", "failing"} /\ \A d \in Threads : d # c => conn'[d] = conn[d]
    BY <1>0, <2>3, ConnectionType
  <2> QED
    BY <2>1, <2>2, <2>4, ThreadKept DEF Working, Pending
<1> QED
  BY <1>1, <1>2

LEMMA MemoryStep == ASSUME MemoryInv, [Next]_vars PROVE MemoryInv' /\ Promise
<1>1. ModelInv'
  BY ModelStep DEF MemoryInv
<1>2. Kept
  <2>1. CASE UNCHANGED vars
    BY <2>1, SameSessions DEF vars, Kept, MemoryInv, SessionsInv, Warm, Pending, Working, Promise
  <2>2. CASE MainThread \/ Close \/ Tick
    BY <2>2, MainStepKept
  <2>3. ASSUME NEW c \in Threads,
               Asks(c) \/ Step(c) \/ Client(c)
        PROVE  Kept
    BY <2>3, OutsideKept, AcquireKept, WorkKept, EndingKept DEF Step
  <2> QED
    BY <2>1, <2>2, <2>3 DEF Next
<1> QED
  BY <1>1, <1>2 DEF Kept, MemoryInv

LEMMA MemoryStarts == ASSUME Init PROVE MemoryInv /\ Remembered!Init
<1>1. sessions = <<>> /\ DOMAIN sessions = {}
  BY DEF Init
<1>2. \A c \in Callers : job[c] = Idle
  BY DEF Init
<1>3. \A c \in Threads : conn[c].phase = "none"
  BY DEF Init, NoRequest
<1>4. SessionsInv /\ Warm /\ \A c \in Threads : Pending(c) /\ Working(c)
  BY <1>1, <1>2, <1>3, MainIsCaller DEF SessionsInv, Warm, Pending, Working
<1>5. Remembered!Init
  BY <1>1 DEF Remembered!Init, memory, ExchangesOf
<1> QED
  BY <1>4, <1>5, ModelStarts DEF MemoryInv

\* Whatever is refused, broken off or abandoned by its client, a session's history is its
\* latest exchanges, each question with its answer, and changes by one exchange or by being
\* found expired (Session.add_turn and get_or_create_session in orchestrator.py, under
\* _engine_lock).
THEOREM HistoriesAreConversations == Spec => ImplementsConversation
<1>1. MemoryInv /\ [Next]_vars => MemoryInv' /\ [Remembered!Next]_memory
  BY MemoryStep DEF Promise
<1>2. Init => MemoryInv /\ Remembered!Init
  BY MemoryStarts
<1> QED
  BY <1>1, <1>2, PTL DEF Spec, ImplementsConversation, Remembered!Spec

----------------------------------------------------------------------------
(***************************************************************************)
(* The events of a stream.                                                 *)
(***************************************************************************)

Written == EventTypes \cup Tokens

\* The sequences a client can have read that hold no token.
Tokenless == {<<>>, <<"adapter">>, <<"adapter", "tool_call">>, <<"adapter", "error">>}
Openings == {<<"adapter">>, <<"adapter", "tool_call", "tool_result">>}

LEMMA TokensApart ==
  /\ Tokens \subseteq Written /\ EventTypes \subseteq Written
  /\ \A token \in Tokens : token \notin {"adapter", "tool_call", "tool_result", "done", "error"}
BY EventAssumption DEF EventAssumption, Written, EventTypes

LEMMA TokenlessAreStreams ==
  ASSUME NEW e \in Tokenless
  PROVE  StreamOf(e) /\ e \in Seq(Written) /\ (e # <<>> => Last(e) # "done")
<1>1. <<>> \in Seq(Tokens)
  OBVIOUS
<1>2. CASE e = <<>>
  BY <1>2 DEF StreamOf
<1>3. CASE e = <<"adapter">>
  <2>1. Len(e) = 1 /\ e[1] = "adapter"
    BY <1>3
  <2>2. CallEvents(e) = 0 /\ ~Ended(e)
    BY <2>1 DEF CallEvents, Ended, Last
  <2>3. Spoken(e) = <<>>
    BY <2>1, <2>2, SubSeqEmpty DEF Spoken
  <2> QED
    BY <1>1, <1>3, <2>1, <2>2, <2>3, TokensApart DEF StreamOf, Last, Written, EventTypes
<1>4. CASE e = <<"adapter", "tool_call">>
  <2>1. Len(e) = 2 /\ e[1] = "adapter" /\ e[2] = "tool_call"
    BY <1>4
  <2>2. CallEvents(e) = 2 /\ ~Ended(e)
    BY <2>1 DEF CallEvents, Ended, Last
  <2>3. Spoken(e) = <<>>
    BY <2>1, <2>2, SubSeqEmpty DEF Spoken
  <2> QED
    BY <1>1, <1>4, <2>1, <2>2, <2>3, TokensApart DEF StreamOf, Last, Written, EventTypes
<1>5. CASE e = <<"adapter", "error">>
  <2>1. Len(e) = 2 /\ e[1] = "adapter" /\ e[2] = "error"
    BY <1>5
  <2>2. CallEvents(e) = 0
    BY <2>1 DEF CallEvents
  <2>3. Ended(e)
    BY <1>5, <2>1 DEF Ended, Last
  <2>4. Spoken(e) = <<>>
    BY <2>1, <2>2, <2>3, SubSeqEmpty DEF Spoken
  <2> QED
    BY <1>1, <1>5, <2>1, <2>2, <2>4, TokensApart DEF StreamOf, Last, Written, EventTypes
<1> QED
  BY <1>2, <1>3, <1>4, <1>5 DEF Tokenless

\* k events, tokens, and done if it is over.
LEMMA TokensAreStreams ==
  ASSUME NEW e \in Seq(Written), NEW tokens \in Seq(Tokens), NEW k \in {1, 3}, NEW over \in {0, 1},
         Len(e) = k + Len(tokens) + over,
         e[1] = "adapter", k = 3 => e[2] = "tool_call" /\ e[3] = "tool_result",
         \A i \in 1 .. Len(tokens) : e[k + i] = tokens[i],
         over = 1 => e[Len(e)] = "done"
  PROVE  /\ StreamOf(e) /\ Spoken(e) = tokens
         /\ e # <<>> /\ (Last(e) = "done" <=> over = 1)
<1> DEFINE n == Len(tokens)
<1>0. /\ n \in Nat /\ Len(e) \in Nat /\ e # <<>>
      /\ \A i \in 1 .. n : tokens[i] \in Tokens
  OBVIOUS
<1>1. CallEvents(e) = k - 1
  <2>1. CASE k = 3
    BY <1>0, <2>1 DEF CallEvents
  <2>2. CASE k = 1
    <3>1. CASE n = 0
      <4>1. Len(e) > 1 => e[2] = "done"
        BY <2>2, <3>1
      <4> QED
        BY <2>2, <4>1 DEF CallEvents
    <3>2. CASE n > 0
      <4>1. e[2] = tokens[1] /\ tokens[1] \in Tokens
        BY <1>0, <2>2, <3>2
      <4> QED
        BY <2>2, <4>1, TokensApart DEF CallEvents
    <3> QED
      BY <1>0, <3>1, <3>2
  <2> QED
    BY <2>1, <2>2
<1>2. over = 0 => Last(e) \notin {"done", "error"}
  <2> SUFFICES ASSUME over = 0 PROVE Last(e) \notin {"done", "error"}
    OBVIOUS
  <2>1. CASE n = 0
    <3>1. Last(e) = e[k]
      BY <2>1 DEF Last
    <3> QED
      BY <3>1
  <2>2. CASE n > 0
    <3>1. Last(e) = e[k + n]
      BY <1>0 DEF Last
    <3>2. Last(e) = tokens[n] /\ tokens[n] \in Tokens
      BY <1>0, <2>2, <3>1
    <3> QED
      BY <3>2, TokensApart
  <2> QED
    BY <1>0, <2>1, <2>2
<1>3. over = 1 => Last(e) = "done"
  BY DEF Last
<1>4. Ended(e) <=> over = 1
  BY <1>0, <1>2, <1>3 DEF Ended
<1>5. Spoken(e) = SubSeq(e, k + 1, k + n)
  BY <1>0, <1>1, <1>4 DEF Spoken
<1>6. Spoken(e) = tokens
  <2>1. \A i \in k + 1 .. k + n : e[i] \in Written
    BY <1>0
  <2> DEFINE said == SubSeq(e, k + 1, k + n)
  <2>2. k + 1 \in Int /\ k + n \in Int
    BY <1>0
  <2>3. /\ said \in Seq(Written) /\ Len(said) = IF k + 1 <= k + n THEN k + n - (k + 1) + 1 ELSE 0
        /\ \A i \in 1 .. k + n - (k + 1) + 1 : said[i] = e[k + 1 + i - 1]
    BY <2>1, <2>2, SubSeqProperties
  <2> HIDE DEF said
  <2>4. Len(said) = n /\ \A i \in 1 .. n : said[i] = tokens[i]
    BY <1>0, <2>3
  <2>5. tokens \in Seq(Written)
    BY TokensApart
  <2>6. said = tokens
    BY <2>3, <2>4, <2>5, SeqEqual
  <2> QED
    BY <1>5, <2>6 DEF said
<1>7. Last(e) # "error"
  BY <1>2, <1>3
<1> QED
  BY <1>0, <1>1, <1>2, <1>3, <1>6, <1>7 DEF StreamOf

LEMMA WrittenSequences ==
  /\ \A head \in Openings : head \in Seq(Written)
  /\ \A tokens \in Seq(Tokens) : tokens \in Seq(Written)
  /\ \A token \in Written : <<token>> \in Seq(Written)
  /\ \A event \in {"adapter", "tool_call", "tool_result", "done", "error"} : event \in Written
<1>1. \A event \in {"adapter", "tool_call", "tool_result", "done", "error"} : event \in Written
  BY DEF Written, EventTypes
<1>2. \A token \in Written : <<token>> \in Seq(Written)
  OBVIOUS
<1>3. <<"adapter">> \in Seq(Written) /\ <<"adapter", "tool_call", "tool_result">> \in Seq(Written)
  BY <1>1
<1>4. \A tokens \in Seq(Tokens) : tokens \in Seq(Written)
  BY TokensApart
<1> QED
  BY <1>1, <1>2, <1>3, <1>4 DEF Openings

\* Tokens after the events of an opening, and an event more.
LEMMA Appended ==
  ASSUME NEW head \in Openings, NEW tokens \in Seq(Tokens), NEW token \in Tokens
  PROVE  head \o Append(tokens, token) = Append(head \o tokens, token)
<1>1. head \in Seq(Written) /\ tokens \in Seq(Written) /\ token \in Written /\ <<token>> \in Seq(Written)
  BY TokensApart, WrittenSequences
<1>2. head \o tokens \in Seq(Written)
  BY <1>1, ConcatProperties
<1>3. Append(tokens, token) = tokens \o <<token>> /\ Append(head \o tokens, token) = (head \o tokens) \o <<token>>
  BY <1>1, <1>2, AppendIsConcat
<1> QED
  BY <1>1, <1>3, ConcatAssociative

LEMMA TokensTold ==
  ASSUME NEW head \in Openings, NEW tokens \in Seq(Tokens)
  PROVE  /\ StreamOf(head \o tokens) /\ head \o tokens \in Seq(Written)
         /\ Last(head \o tokens) # "done"
         /\ Append(head \o tokens, "done") \in Seq(Written)
         /\ StreamOf(Append(head \o tokens, "done")) /\ Spoken(Append(head \o tokens, "done")) = tokens
<1> DEFINE e == head \o tokens
           over == Append(e, "done")
           k == Len(head)
           n == Len(tokens)
<1>1. /\ k \in {1, 3} /\ head[1] = "adapter"
      /\ k = 3 => head[2] = "tool_call" /\ head[3] = "tool_result"
  BY DEF Openings
<1>2. head \in Seq(Written) /\ tokens \in Seq(Written) /\ "done" \in Written /\ n \in Nat
  BY WrittenSequences
<1>3. /\ e \in Seq(Written) /\ Len(e) = k + n
      /\ \A i \in 1 .. k + n : e[i] = IF i <= k THEN head[i] ELSE tokens[i - k]
  BY <1>2, ConcatProperties
<1>4. /\ over \in Seq(Written) /\ Len(over) = k + n + 1
      /\ \A i \in 1 .. k + n : over[i] = e[i]
      /\ over[k + n + 1] = "done"
  BY <1>2, <1>3, AppendProperties
<1> HIDE DEF over, e, k, n
<1>5. /\ e[1] = "adapter" /\ (k = 3 => e[2] = "tool_call" /\ e[3] = "tool_result")
      /\ \A i \in 1 .. n : e[k + i] = tokens[i]
  BY <1>1, <1>2, <1>3
<1>6. /\ over[1] = "adapter" /\ (k = 3 => over[2] = "tool_call" /\ over[3] = "tool_result")
      /\ \A i \in 1 .. n : over[k + i] = tokens[i]
  BY <1>1, <1>2, <1>4, <1>5
<1>7. StreamOf(e) /\ Last(e) # "done"
  <2>1. Len(e) = k + Len(tokens) + 0 /\ 0 \in {0, 1}
    BY <1>1, <1>2, <1>3 DEF n
  <2> QED
    BY <1>1, <1>3, <1>5, <2>1, TokensAreStreams DEF n
<1>8. StreamOf(over) /\ Spoken(over) = tokens
  <2>1. Len(over) = k + Len(tokens) + 1 /\ 1 \in {0, 1} /\ over[Len(over)] = "done"
    BY <1>1, <1>2, <1>4 DEF n
  <2> QED
    BY <1>1, <1>4, <1>6, <2>1, TokensAreStreams DEF n
<1> QED
  BY <1>3, <1>4, <1>7, <1>8 DEF over, e

\* What was written before the event that completes one of these sequences.
LEMMA BeforeTokenless ==
  ASSUME NEW s \in Seq(Written), NEW event \in Written, Append(s, event) \in Tokenless
  PROVE  s \in Tokenless
<1> DEFINE none == <<>>
           one == <<"adapter">>
<1>1. /\ none \in Seq(Written) /\ one \in Seq(Written)
      /\ {"adapter", "tool_call", "error"} \subseteq Written
  BY DEF Written, EventTypes
<1>2. /\ <<"adapter">> = Append(none, "adapter")
      /\ <<"adapter", "tool_call">> = Append(one, "tool_call")
      /\ <<"adapter", "error">> = Append(one, "error")
  OBVIOUS
<1>3. none \in Tokenless /\ one \in Tokenless
  BY DEF Tokenless
<1>4. Append(s, event) # none
  BY AppendProperties
<1>5. \/ Append(s, event) = Append(none, "adapter")
      \/ Append(s, event) = Append(one, "tool_call")
      \/ Append(s, event) = Append(one, "error")
  BY <1>2, <1>4 DEF Tokenless
<1> HIDE DEF none, one
<1>6. s = none \/ s = one
  BY <1>1, <1>5, AppendInjective
<1> QED
  BY <1>3, <1>6

LEMMA BeforeTokens ==
  ASSUME NEW s \in Seq(Written), NEW event \in Written,
         NEW head \in Openings, NEW tokens \in Seq(Tokens), Append(s, event) = head \o tokens
  PROVE  s \in Tokenless \/ \E said \in Seq(Tokens) : s = head \o said
<1>1. CASE tokens = <<>>
  <2> DEFINE none == <<>>
             two == <<"adapter", "tool_call">>
  <2>1. none \in Seq(Written) /\ two \in Seq(Written) /\ {"adapter", "tool_result"} \subseteq Written
    BY DEF Written, EventTypes
  <2>2. head = Append(none, "adapter") \/ head = Append(two, "tool_result")
    BY DEF Openings
  <2>3. none \in Tokenless /\ two \in Tokenless
    BY DEF Tokenless
  <2>4. head \in Seq(Written)
    BY WrittenSequences
  <2>5. head \o tokens = head
    BY <1>1, <2>4, ConcatEmptySeq
  <2> HIDE DEF none, two
  <2>6. CASE head = Append(none, "adapter")
    <3>1. Append(s, event) = Append(none, "adapter") /\ "adapter" \in Written
      BY <2>1, <2>5, <2>6
    <3> QED
      BY <2>1, <2>3, <3>1, AppendInjective
  <2>7. CASE head = Append(two, "tool_result")
    <3>1. Append(s, event) = Append(two, "tool_result") /\ "tool_result" \in Written
      BY <2>1, <2>5, <2>7
    <3> QED
      BY <2>1, <2>3, <3>1, AppendInjective
  <2> QED
    BY <2>2, <2>6, <2>7
<1>2. CASE tokens # <<>>
  <2>1. PICK said \in Seq(Tokens), token \in Tokens : tokens = Append(said, token)
    BY <1>2, SequenceEmptyOrAppend
  <2>2. Append(s, event) = Append(head \o said, token)
    BY <2>1, Appended
  <2>3. head \o said \in Seq(Written) /\ token \in Written
    BY TokensTold, TokensApart
  <2> DEFINE t == head \o said
  <2>4. t \in Seq(Written) /\ token \in Written /\ Append(s, event) = Append(t, token)
    BY <2>2, <2>3
  <2> HIDE DEF t
  <2>5. s = t
    BY <2>4, AppendInjective
  <2> QED
    BY <2>5 DEF t
<1> QED
  BY <1>1, <1>2

----------------------------------------------------------------------------
(***************************************************************************)
(* The exchange that was stored last.                                      *)
(***************************************************************************)

LatestIs(history, q, answer) ==
  /\ Len(history) >= 2
  /\ SubSeq(history, Len(history) - 1, Len(history)) = <<Turn("user", <<q>>), Turn("assistant", answer)>>

\* A turn comes last, and behind it the one that was last before.
LEMMA TurnLast ==
  ASSUME NEW h \in Seq(Turns), Len(h) <= MemorySize, NEW turn \in Turns
  PROVE  LET new == Added(h, turn)
             n == Len(new)
         IN  /\ new \in Seq(Turns) /\ n >= 1 /\ n <= MemorySize /\ new[n] = turn
             /\ Len(h) >= 1 => n >= 2 /\ new[n - 1] = h[Len(h)]
<1> DEFINE new == Added(h, turn)
           k == Len(h)
<1>1. /\ k \in Nat /\ Half \in Nat \ {0} /\ MemorySize = 2 * Half /\ MemorySize \in Nat
      /\ MemorySize >= 2
  BY Halves
<1> HIDE DEF new
<1>2. CASE k < MemorySize
  <2>1. /\ new \in Seq(Turns) /\ Len(new) = k + 1 /\ new[k + 1] = turn
        /\ \A i \in 1 .. k : new[i] = h[i]
    BY <1>1, <1>2, RoomForTurn DEF new
  <2> QED
    BY <1>1, <1>2, <2>1 DEF new
<1>3. CASE k = MemorySize
  <2>1. /\ new \in Seq(Turns) /\ Len(new) = MemorySize /\ new[MemorySize] = turn
        /\ \A i \in 1 .. MemorySize - 1 : new[i] = h[i + 1]
    BY <1>3, FirstTurnGoes DEF new
  <2>2. MemorySize - 1 \in 1 .. MemorySize - 1 /\ MemorySize - 1 + 1 = k
    BY <1>1, <1>3
  <2> QED
    BY <1>1, <1>3, <2>1, <2>2 DEF new
<1> QED
  BY <1>1, <1>2, <1>3

LEMMA ExchangeLast ==
  ASSUME NEW session, Remembering(session), NEW q \in Questions, NEW answer \in Answers
  PROVE  LatestIs(add_turn(add_turn(session, Turn("user", <<q>>)), Turn("assistant", answer)).history,
                  q, answer)
<1> DEFINE user == Turn("user", <<q>>)
           said == Turn("assistant", answer)
           h == session.history
           mid == Added(h, user)
           new == Added(mid, said)
           n == Len(new)
<1>1. PICK m \in 0 .. Half : Converses(h, m)
  BY DEF Remembering
<1>2. user \in Turns /\ said \in Turns
  BY DEF Turn, Turns, Asked
<1> HIDE DEF user, said
<1>3. h \in Seq(Turns) /\ Len(h) <= MemorySize
  BY <1>1, Halves DEF Converses
<1>4. mid \in Seq(Turns) /\ Len(mid) >= 1 /\ Len(mid) <= MemorySize /\ mid[Len(mid)] = user
  BY <1>2, <1>3, TurnLast
<1>5. add_turn(add_turn(session, user), said).history = new
  <2>1. /\ DOMAIN add_turn(session, user) = {"history", "place", "age"}
        /\ add_turn(session, user).history = mid
    BY <1>2, <1>3, TurnAdded DEF Remembering
  <2> QED
    BY <1>2, <1>4, <2>1, TurnAdded
<1> HIDE DEF mid
<1>6. new \in Seq(Turns) /\ n >= 2 /\ new[n] = said /\ new[n - 1] = user
  BY <1>2, <1>4, TurnLast
<1> HIDE DEF new
<1>7. SubSeq(new, n - 1, n) = <<user, said>>
  <2> DEFINE two == SubSeq(new, n - 1, n)
  <2>1. n \in Nat /\ n - 1 \in Int /\ n \in Int /\ n - 1 <= n
    BY <1>6
  <2>2. \A i \in n - 1 .. n : new[i] \in Turns
    BY <1>2, <1>6, <2>1
  <2>3. /\ two \in Seq(Turns) /\ Len(two) = n - (n - 1) + 1
        /\ \A i \in 1 .. n - (n - 1) + 1 : two[i] = new[n - 1 + i - 1]
    BY <2>1, <2>2, SubSeqProperties
  <2>4. n - (n - 1) + 1 = 2 /\ 1 \in 1 .. 2 /\ 2 \in 1 .. 2 /\ n - 1 + 1 - 1 = n - 1 /\ n - 1 + 2 - 1 = n
    BY <2>1
  <2> HIDE DEF two
  <2>5. Len(two) = 2 /\ two[1] = user /\ two[2] = said
    BY <1>6, <2>3, <2>4
  <2>6. <<user, said>> \in Seq(Turns)
    BY <1>2
  <2>7. two = <<user, said>>
    BY <2>3, <2>5, <2>6, SeqEqual
  <2> QED
    BY <2>7 DEF two
<1> QED
  BY <1>5, <1>6, <1>7 DEF LatestIs, user, said

----------------------------------------------------------------------------
(***************************************************************************)
(* What the client of every connection has been told.                      *)
(***************************************************************************)

\* What a stream begins with, by the round its tokens are from.
Opening(j) == IF j.round = 0 THEN <<"adapter">> ELSE <<"adapter", "tool_call", "tool_result">>

\* All that the client of job j is told, the event that waits to be written included.
Stream(j) ==
  IF j.streaming = TRUE
  THEN IF j.pc = "end" THEN Append(Opening(j) \o j.answer, "done") ELSE Opening(j) \o j.answer
  ELSE CASE j.pc \in {"query", "load", "infer", "adapter"} -> <<>>
         [] j.pc = "execute" -> <<"adapter", "tool_call">>
         [] j.pc = "end" -> <<"adapter", "error">>
         [] OTHER -> <<"adapter">>

\* The places of a generator before and after it begins to yield tokens.
Placed(j) ==
  IF j.streaming = TRUE
  THEN j.pc \in {"query", "load", "infer", "store", "done", "end"} /\ j.answer \in Seq(Tokens)
  ELSE /\ j.pc \in {"query", "load", "infer", "adapter", "error", "parse", "execute", "raised", "end"}
       /\ j.round = 0

Told(c) ==
  /\ Placed(job[c]) /\ sent[c] \in Seq(Written)
  /\ job[c].event = "none" => sent[c] = Stream(job[c])
  /\ job[c].event # "none" => Event(c) \in Written /\ Append(sent[c], Event(c)) = Stream(job[c])

\* The exchange has been stored.
Settled(c) ==
  \/ job[c].mode = "stream" /\ job[c].streaming = TRUE /\ job[c].pc \in {"done", "end"}
  \/ job[c].mode = "process" /\ job[c].pc = "reply" /\ job[c].ok
Stored(c) == LatestIs(sessions[job[c].session].history, job[c].question, job[c].answer)

Hearing(c) ==
  /\ job[c].mode = conn[c].mode
  /\ job[c].mode = "process" => job[c].event = "none" /\ job[c].streaming = FALSE /\ sent[c] = <<>>
  /\ job[c].mode = "stream" => Told(c)
  /\ Settled(c) => Stored(c)

Heard(c) ==
  /\ conn[c].phase \in {"none", "receiving", "checking", "waiting", "working", "failing", "closing"}
  /\ conn[c].phase \in {"receiving", "checking", "waiting", "working"} => conn[c].mode \in {"process", "stream"}
  /\ conn[c].phase \in {"none", "receiving", "checking", "waiting"} => sent[c] = <<>>
  /\ conn[c].phase = "failing" => sent[c] = <<"adapter">>
  /\ conn[c].phase = "closing" => sent[c] \in {<<>>, <<"adapter", "error">>}
  /\ conn[c].phase = "working" => Hearing(c)

HeardInv == MemoryInv /\ sent = [c \in Threads |-> sent[c]] /\ \A c \in Threads : Heard(c)

LEMMA OpeningIs == \A j : Opening(j) \in Openings
BY DEF Opening, Openings

\* What was written of a stream is one; it says done after the answer, when that is stored.
LEMMA ToldIsStream ==
  ASSUME NEW c, Told(c)
  PROVE  /\ StreamOf(sent[c])
         /\ sent[c] # <<>> /\ Last(sent[c]) = "done" =>
              job[c].streaming = TRUE /\ job[c].pc = "end" /\ Spoken(sent[c]) = job[c].answer
<1> DEFINE j == job[c]
           s == sent[c]
           Result == /\ StreamOf(s)
                     /\ s # <<>> /\ Last(s) = "done" =>
                          j.streaming = TRUE /\ j.pc = "end" /\ Spoken(s) = j.answer
<1>1. ASSUME s \in Tokenless PROVE Result
  BY <1>1, TokenlessAreStreams
<1>2. ASSUME NEW head \in Openings, NEW said \in Seq(Tokens), s = head \o said PROVE Result
  BY <1>2, TokensTold
<1>3. CASE j.streaming # TRUE
  <2>1. Stream(j) \in Tokenless
    BY <1>3 DEF Stream, Tokenless
  <2>2. CASE j.event = "none"
    BY <1>1, <2>1, <2>2 DEF Told
  <2>3. CASE j.event # "none"
    <3>1. s \in Seq(Written) /\ Event(c) \in Written /\ Append(s, Event(c)) \in Tokenless
      BY <2>1, <2>3 DEF Told
    <3> QED
      BY <1>1, <3>1, BeforeTokenless
  <2> QED
    BY <2>2, <2>3
<1>4. CASE j.streaming = TRUE /\ j.pc # "end"
  <2>1. Stream(j) = Opening(j) \o j.answer /\ Opening(j) \in Openings /\ j.answer \in Seq(Tokens)
    BY <1>4, OpeningIs DEF Stream, Told, Placed
  <2>2. CASE j.event = "none"
    BY <1>2, <2>1, <2>2 DEF Told
  <2>3. CASE j.event # "none"
    <3>1. s \in Seq(Written) /\ Event(c) \in Written /\ Append(s, Event(c)) = Opening(j) \o j.answer
      BY <2>1, <2>3 DEF Told
    <3>2. s \in Tokenless \/ \E said \in Seq(Tokens) : s = Opening(j) \o said
      BY <2>1, <3>1, BeforeTokens
    <3> QED
      BY <1>1, <1>2, <2>1, <3>2
  <2> QED
    BY <2>2, <2>3
<1>5. CASE j.streaming = TRUE /\ j.pc = "end"
  <2> DEFINE told == Opening(j) \o j.answer
  <2>1. Opening(j) \in Openings /\ j.answer \in Seq(Tokens)
    BY <1>5, OpeningIs DEF Told, Placed
  <2>2. Stream(j) = Append(told, "done")
    BY <1>5 DEF Stream
  <2>3. told \in Seq(Written) /\ "done" \in Written
    BY <2>1, TokensTold, WrittenSequences
  <2>4. CASE j.event = "none"
    <3>1. s = Append(told, "done")
      BY <2>2, <2>4 DEF Told
    <3> QED
      BY <1>5, <2>1, <3>1, TokensTold
  <2>5. CASE j.event # "none"
    <3>1. Append(s, Event(c)) = Append(told, "done") /\ s \in Seq(Written) /\ Event(c) \in Written
      BY <2>2, <2>5 DEF Told
    <3> HIDE DEF told
    <3>2. s = told
      BY <2>3, <3>1, AppendInjective
    <3> QED
      BY <1>2, <2>1, <3>2 DEF told
  <2> QED
    BY <2>4, <2>5
<1> QED
  BY <1>3, <1>4, <1>5

LEMMA HeardIsEnough == ASSUME HeardInv PROVE StreamsWellFormed /\ AnsweredIsRemembered
<1>1. ASSUME NEW c \in Threads, conn[c].phase # "working"
      PROVE  sent[c] \in Tokenless /\ job[c] = Idle
  <2>1. job[c] = Idle
    BY <1>1 DEF HeardInv, MemoryInv, ModelInv, LockInv, WorkInv
  <2> QED
    BY <1>1, <2>1 DEF HeardInv, Heard, Tokenless
<1>2. ASSUME NEW c \in Threads, conn[c].phase = "working"
      PROVE  Hearing(c) /\ job[c].mode \in {"process", "stream"}
  BY <1>2 DEF HeardInv, Heard, Hearing
<1>3. StreamsWellFormed
  <2> SUFFICES ASSUME NEW c \in Threads PROVE StreamOf(sent[c])
    BY DEF StreamsWellFormed
  <2>1. CASE conn[c].phase # "working"
    BY <1>1, <2>1, TokenlessAreStreams
  <2>2. CASE conn[c].phase = "working" /\ job[c].mode = "process"
    <3>1. sent[c] \in Tokenless
      BY <1>2, <2>2 DEF Hearing, Tokenless
    <3> QED
      BY <3>1, TokenlessAreStreams
  <2>3. CASE conn[c].phase = "working" /\ job[c].mode = "stream"
    BY <1>2, <2>3, ToldIsStream DEF Hearing
  <2> QED
    BY <1>2, <2>1, <2>2, <2>3
<1>4. AnsweredIsRemembered
  <2> SUFFICES ASSUME NEW c \in Threads,
                      \/ job[c].mode = "stream" /\ sent[c] # <<>> /\ Last(sent[c]) = "done"
                      \/ job[c].mode = "process" /\ job[c].pc = "reply" /\ job[c].ok
               PROVE  LatestIs(sessions[job[c].session].history, job[c].question, Given(c))
    BY Zenon DEF AnsweredIsRemembered, LatestIs
  <2>1. Idle.mode = "none"
    BY DEF Idle
  <2>2. Hearing(c)
    BY <1>1, <1>2, <2>1
  <2>3. Settled(c) /\ Given(c) = job[c].answer
    <3>1. CASE job[c].mode = "stream" /\ sent[c] # <<>> /\ Last(sent[c]) = "done"
      BY <2>2, <3>1, ToldIsStream DEF Hearing, Settled, Given
    <3>2. CASE job[c].mode = "process" /\ job[c].pc = "reply" /\ job[c].ok
      BY <3>2 DEF Settled, Given
    <3> QED
      BY <3>1, <3>2
  <2> QED
    BY <2>2, <2>3 DEF Hearing, Stored
<1> QED
  BY <1>3, <1>4

----------------------------------------------------------------------------
(***************************************************************************)
(* The steps of a stream.                                                  *)
(***************************************************************************)

LEMMA Relabelled ==
  ASSUME Fields, NEW c \in Callers, NEW label
  PROVE  LET new == To(c, label)
         IN  /\ new.pc = label /\ new.mode = job[c].mode /\ new.question = job[c].question
             /\ new.session = job[c].session /\ new.round = job[c].round
             /\ new.streaming = job[c].streaming /\ new.answer = job[c].answer
             /\ new.ok = job[c].ok /\ new.event = job[c].event
             /\ DOMAIN new = DOMAIN job[c]
BY DEF To, Fields

\* A step that tells the client nothing, and one that does.
LEMMA SilentTold ==
  ASSUME LockInv, NEW c \in Callers, Told(c), job[c].event = "none", UNCHANGED sent,
         NEW new, Go(c, new), new.event = "none", Placed(new), Stream(new) = Stream(job[c])
  PROVE  Told(c)'
<1>1. job'[c] = new
  BY Gone
<1> QED
  BY <1>1 DEF Told

LEMMA YieldTold ==
  ASSUME LockInv, NEW c \in Callers, Told(c), job[c].event = "none", UNCHANGED sent,
         NEW new, Go(c, new), new.event # "none", Placed(new), NEW event \in Written,
         event = IF new.event = "token" THEN Last(new.answer) ELSE new.event,
         Stream(new) = Append(Stream(job[c]), event)
  PROVE  Told(c)'
<1>1. job'[c] = new /\ sent'[c] = sent[c]
  BY Gone
<1>2. Event(c)' = event
  BY <1>1 DEF Event
<1>3. Append(sent'[c], Event(c)') = Stream(job'[c])
  BY <1>1, <1>2 DEF Told
<1> QED
  BY <1>1, <1>2, <1>3 DEF Told

LEMMA InferenceTold ==
  ASSUME LockInv, Fields, NEW c \in Callers, job[c].mode = "stream", Told(c), UNCHANGED sent,
         Refuse(c) \/ Route(c) \/ Unload(c) \/ Load(c) \/ Infer(c) \/ InferFails(c)
  PROVE  Told(c)'
<1> DEFINE j == job[c]
<1>1. j.event = "none" /\ j.pc \in {"query", "load", "infer"}
  BY DEF Refuse, Route, Unload, Load, Infer, InferFails, At
<1>2. Placed(j)
  BY DEF Told
<1>3. ASSUME NEW new, Go(c, new), new.event = "none", new.streaming = j.streaming, new.round = j.round,
             \/ new.answer = j.answer /\ new.pc \in {"query", "load", "infer"}
             \/ new.answer = j.answer /\ new.pc = "store" /\ j.streaming = TRUE
             \/ new.pc = "adapter" /\ j.streaming # TRUE
      PROVE  Told(c)'
  <2>1. Placed(new)
    BY <1>2, <1>3 DEF Placed
  <2>2. Stream(new) = Stream(j)
    <3>1. Opening(new) = Opening(j)
      BY <1>3 DEF Opening
    <3>2. CASE j.streaming = TRUE
      BY <1>1, <1>3, <3>1, <3>2 DEF Stream
    <3>3. CASE j.streaming # TRUE
      BY <1>1, <1>3, <3>3 DEF Stream
    <3> QED
      BY <3>2, <3>3
  <2> QED
    BY <1>1, <1>3, <2>1, <2>2, SilentTold
<1>4. CASE Refuse(c) \/ InferFails(c)
  <2> DEFINE failed == [To(c, "adapter") EXCEPT !.ok = FALSE]
  <2>1. Go(c, Failure(c))
    BY <1>4 DEF Refuse, InferFails
  <2>2. Failure(c) = IF j.streaming = TRUE THEN To(c, "store") ELSE failed
    BY DEF Failure
  <2>3. CASE j.streaming = TRUE
    <3>1. Go(c, To(c, "store"))
      BY <2>1, <2>2, <2>3
    <3>2. /\ To(c, "store").event = "none" /\ To(c, "store").pc = "store"
          /\ To(c, "store").streaming = j.streaming /\ To(c, "store").round = j.round
          /\ To(c, "store").answer = j.answer
      BY <1>1, Relabelled
    <3> QED
      BY <1>3, <2>3, <3>1, <3>2
  <2>4. CASE j.streaming # TRUE
    <3>1. /\ failed.event = j.event /\ failed.streaming = j.streaming
          /\ failed.round = j.round /\ failed.pc = "adapter"
      BY Relabelled DEF Fields
    <3>2. Go(c, failed)
      BY <2>1, <2>2, <2>4
    <3> HIDE DEF failed
    <3> QED
      BY <1>1, <1>3, <2>4, <3>1, <3>2
  <2> QED
    BY <2>3, <2>4
<1>5. CASE Route(c) \/ Unload(c)
  <2> PICK label \in {"infer", "load"} : Go(c, To(c, label))
    BY <1>5 DEF Route, Unload
  <2> QED
    BY <1>1, <1>3, Relabelled
<1>6. CASE Load(c)
  <2> DEFINE new == [To(c, "infer") EXCEPT !.target = engine'.active]
  <2>1. /\ new.event = j.event /\ new.streaming = j.streaming /\ new.answer = j.answer
        /\ new.round = j.round /\ new.pc = "infer"
    BY Relabelled DEF Fields
  <2>2. Go(c, new)
    BY <1>6 DEF Load
  <2> HIDE DEF new
  <2> QED
    BY <1>1, <1>3, <2>1, <2>2
<1>7. CASE Infer(c)
  <2> PICK token : Go(c, [To(c, "adapter") EXCEPT !.answer = <<token>>, !.ok = TRUE])
    BY <1>7 DEF Infer
  <2> DEFINE new == [To(c, "adapter") EXCEPT !.answer = <<token>>, !.ok = TRUE]
  <2>1. /\ new.event = j.event /\ new.streaming = j.streaming
        /\ new.round = j.round /\ new.pc = "adapter"
    BY Relabelled DEF Fields
  <2>2. j.streaming # TRUE
    BY <1>7 DEF Infer
  <2>3. Go(c, new)
    OBVIOUS
  <2> HIDE DEF new
  <2> QED
    BY <1>1, <1>3, <2>1, <2>2, <2>3
<1> QED
  BY <1>4, <1>5, <1>6, <1>7

LEMMA ToolTold ==
  ASSUME LockInv, Fields, NEW c \in Callers, job[c].mode = "stream", Told(c), UNCHANGED sent,
         ExecuteTool(c) \/ ParseRaises(c) \/ Settle(c) \/ Store(c)
  PROVE  Told(c)'
<1> DEFINE j == job[c]
<1>1. Placed(j)
  BY DEF Told
<1>2. CASE ParseRaises(c)
  <2>1. Go(c, To(c, "raised")) /\ j.pc = "parse" /\ j.event = "none"
    BY <1>2 DEF ParseRaises, At
  <2>2. j.streaming # TRUE /\ j.round = 0
    BY <1>1, <2>1 DEF Placed
  <2> DEFINE new == To(c, "raised")
  <2>3. new.pc = "raised" /\ new.streaming = j.streaming /\ new.round = j.round /\ new.event = "none"
    BY <2>1, Relabelled
  <2> HIDE DEF new
  <2>4. Placed(new) /\ Stream(new) = Stream(j)
    BY <2>1, <2>2, <2>3 DEF Placed, Stream
  <2> QED
    BY <2>1, <2>3, <2>4, SilentTold DEF new
<1>3. CASE Store(c)
  <2>1. Go(c, To(c, "done")) /\ j.pc = "store" /\ j.event = "none"
    BY <1>3 DEF Store, At
  <2>2. j.streaming = TRUE /\ j.answer \in Seq(Tokens)
    BY <1>1, <2>1 DEF Placed
  <2> DEFINE new == To(c, "done")
  <2>3. /\ new.pc = "done" /\ new.streaming = j.streaming /\ new.round = j.round
        /\ new.event = "none" /\ new.answer = j.answer
    BY <2>1, Relabelled
  <2> HIDE DEF new
  <2>4. Placed(new)
    BY <2>2, <2>3 DEF Placed
  <2>5. Opening(new) = Opening(j)
    BY <2>3 DEF Opening
  <2>6. Stream(new) = Stream(j)
    BY <2>1, <2>2, <2>3, <2>5 DEF Stream
  <2> QED
    BY <2>1, <2>3, <2>4, <2>6, SilentTold DEF new
<1> QED
  BY <1>2, <1>3 DEF ExecuteTool, Settle

\* An event is yielded.
LEMMA Yielded ==
  ASSUME LockInv, NEW c \in Callers, Told(c), job[c].event = "none", UNCHANGED sent,
         NEW event, NEW changes, DOMAIN changes = DOMAIN job[c], Fields, Yield(c, event, changes),
         event \in {"adapter", "error", "tool_call", "tool_result", "done"},
         Placed(changes), Stream(changes) = Append(Stream(job[c]), event)
  PROVE  Told(c)'
<1> DEFINE new == [changes EXCEPT !.event = event]
<1>1. /\ new.pc = changes.pc /\ new.streaming = changes.streaming /\ new.round = changes.round
      /\ new.answer = changes.answer /\ new.event = event
  BY DEF Fields
<1>2. Go(c, new)
  BY DEF Yield
<1> HIDE DEF new
<1>3. Opening(new) = Opening(changes)
  BY <1>1 DEF Opening
<1>4. Placed(new)
  BY <1>1 DEF Placed
<1>5. Stream(new) = Stream(changes)
  BY <1>1, <1>3 DEF Stream
<1>6. event \in Written /\ new.event # "none" /\ new.event # "token"
  BY <1>1, WrittenSequences
<1> QED
  BY <1>1, <1>2, <1>4, <1>5, <1>6, YieldTold

LEMMA GeneratorTold ==
  ASSUME LockInv, Fields, NEW c \in Callers, job[c].mode = "stream", Told(c), UNCHANGED sent,
         \/ StreamAdapter(c) \/ StreamError(c) \/ StreamCall(c) \/ StreamResult(c)
         \/ StreamAgain(c) \/ StreamToken(c) \/ StreamEnds(c) \/ StreamDone(c)
  PROVE  Told(c)'
<1> DEFINE j == job[c]
<1>1. Placed(j)
  BY DEF Told
<1>2. ASSUME NEW label, NEW event, Yield(c, event, To(c, label)), j.event = "none",
             \/ j.pc = "adapter" /\ label \in {"parse", "error"} /\ event = "adapter"
             \/ j.pc = "error" /\ label = "end" /\ event = "error"
             \/ j.pc = "parse" /\ label = "execute" /\ event = "tool_call"
      PROVE  Told(c)'
  <2> DEFINE new == To(c, label)
  <2>1. j.streaming # TRUE /\ j.round = 0
    BY <1>1, <1>2 DEF Placed
  <2>2. /\ new.pc = label /\ new.streaming = j.streaming /\ new.round = j.round
        /\ DOMAIN new = DOMAIN j
    BY Relabelled
  <2> HIDE DEF new
  <2>3. Placed(new)
    BY <1>2, <2>1, <2>2 DEF Placed
  <2>4. Stream(new) = Append(Stream(j), event)
    <3>1. CASE j.pc = "adapter" /\ label \in {"parse", "error"} /\ event = "adapter"
      <4>1. Stream(j) = <<>> /\ Stream(new) = <<"adapter">>
        BY <3>1, <2>1, <2>2 DEF Stream
      <4> QED
        BY <3>1, <4>1
    <3>2. CASE j.pc = "error" /\ label = "end" /\ event = "error"
      <4>1. Stream(j) = <<"adapter">> /\ Stream(new) = <<"adapter", "error">>
        BY <3>2, <2>1, <2>2 DEF Stream
      <4> QED
        BY <3>2, <4>1
    <3>3. CASE j.pc = "parse" /\ label = "execute" /\ event = "tool_call"
      <4>1. Stream(j) = <<"adapter">> /\ Stream(new) = <<"adapter", "tool_call">>
        BY <3>3, <2>1, <2>2 DEF Stream
      <4> QED
        BY <3>3, <4>1
    <3> QED
      BY <1>2, <3>1, <3>2, <3>3
  <2>5. event \in {"adapter", "error", "tool_call", "tool_result", "done"}
    BY <1>2
  <2> QED
    BY <1>2, <2>2, <2>3, <2>4, <2>5, Yielded DEF new
<1>3. CASE StreamAdapter(c)
  BY <1>2, <1>3 DEF StreamAdapter, Streams, At
<1>4. CASE StreamError(c) \/ StreamCall(c)
  BY <1>2, <1>4 DEF StreamError, StreamCall, Streams, At
<1>5. CASE StreamResult(c)
  <2> DEFINE new == [To(c, "query") EXCEPT !.target = "conversational", !.round = 1,
                                           !.streaming = TRUE, !.answer = <<>>]
  <2>1. Yield(c, "tool_result", new) /\ j.pc = "execute" /\ j.event = "none"
    BY <1>5 DEF StreamResult, Streams, At
  <2>2. /\ new.pc = "query" /\ new.streaming = TRUE /\ new.round = 1 /\ new.answer = <<>>
        /\ DOMAIN new = DOMAIN j
    BY Relabelled DEF Fields
  <2>3. j.streaming # TRUE
    BY <1>1, <2>1 DEF Placed
  <2> HIDE DEF new
  <2>4. Placed(new)
    <3>1. <<>> \in Seq(Tokens)
      OBVIOUS
    <3> QED
      BY <2>2, <3>1 DEF Placed
  <2>5. Stream(j) = <<"adapter", "tool_call">>
    BY <2>1, <2>3 DEF Stream
  <2>6. Stream(new) = <<"adapter", "tool_call", "tool_result">>
    <3> DEFINE head == <<"adapter", "tool_call", "tool_result">>
    <3>1. Opening(new) = head
      BY <2>2 DEF Opening
    <3>2. Stream(new) = Opening(new) \o <<>>
      BY <2>2 DEF Stream
    <3>3. head \in Seq(Written)
      BY WrittenSequences DEF Openings
    <3> HIDE DEF head
    <3>4. head \o <<>> = head
      BY <3>3, ConcatEmptySeq
    <3> QED
      BY <3>1, <3>2, <3>4 DEF head
  <2>7. Stream(new) = Append(Stream(j), "tool_result")
    BY <2>5, <2>6
  <2> QED
    BY <2>1, <2>2, <2>4, <2>7, Yielded
<1>6. CASE StreamAgain(c)
  <2> DEFINE new == [To(c, "query") EXCEPT !.streaming = TRUE, !.answer = <<>>,
                                           !.target = Classified(job[c].question)]
             quiet == [new EXCEPT !.event = "none"]
  <2>1. Yield(c, "none", new) /\ j.pc = "parse" /\ j.event = "none"
    BY <1>6 DEF StreamAgain, Streams, At
  <2>2. j.streaming # TRUE /\ j.round = 0
    BY <1>1, <2>1 DEF Placed
  <2>3. Go(c, quiet)
    BY <2>1 DEF Yield
  <2>4. /\ quiet.pc = "query" /\ quiet.streaming = TRUE /\ quiet.round = 0 /\ quiet.answer = <<>>
        /\ quiet.event = "none"
    BY <2>2, Relabelled DEF Fields
  <2> HIDE DEF new, quiet
  <2>5. Placed(quiet)
    <3>1. <<>> \in Seq(Tokens)
      OBVIOUS
    <3> QED
      BY <2>4, <3>1 DEF Placed
  <2>6. Stream(quiet) = Stream(j)
    <3> DEFINE head == <<"adapter">>
    <3>1. Stream(j) = head
      BY <2>1, <2>2 DEF Stream
    <3>2. Opening(quiet) = head
      BY <2>4 DEF Opening
    <3>3. Stream(quiet) = Opening(quiet) \o <<>>
      BY <2>4 DEF Stream
    <3>4. head \in Seq(Written)
      BY WrittenSequences DEF Openings
    <3> HIDE DEF head
    <3>5. head \o <<>> = head
      BY <3>4, ConcatEmptySeq
    <3> QED
      BY <3>1, <3>2, <3>3, <3>5
  <2> QED
    BY <2>1, <2>3, <2>4, <2>5, <2>6, SilentTold
<1>7. CASE StreamToken(c)
  <2> PICK token \in Tokens :
        Yield(c, "token", [job[c] EXCEPT !.answer = Append(@, token)])
    BY <1>7 DEF StreamToken
  <2> DEFINE new == [[job[c] EXCEPT !.answer = Append(@, token)] EXCEPT !.event = "token"]
  <2>1. Go(c, new) /\ j.pc = "infer" /\ j.event = "none" /\ j.streaming = TRUE
    BY <1>7 DEF StreamToken, Streams, At, Yield
  <2>2. /\ new.pc = "infer" /\ new.streaming = TRUE /\ new.round = j.round
        /\ new.answer = Append(j.answer, token) /\ new.event = "token"
    BY <2>1 DEF Fields
  <2>3. j.answer \in Seq(Tokens)
    BY <1>1, <2>1 DEF Placed
  <2> HIDE DEF new
  <2>4. new.answer \in Seq(Tokens) /\ Last(new.answer) = token
    <3>1. /\ Append(j.answer, token) \in Seq(Tokens)
          /\ Len(Append(j.answer, token)) = Len(j.answer) + 1
          /\ Append(j.answer, token)[Len(j.answer) + 1] = token
      BY <2>3, AppendProperties
    <3> QED
      BY <2>2, <3>1 DEF Last
  <2>5. Placed(new)
    BY <2>2, <2>4 DEF Placed
  <2>6. Opening(new) = Opening(j) /\ Opening(j) \in Openings
    BY <2>2, OpeningIs DEF Opening
  <2>7. Stream(new) = Opening(j) \o Append(j.answer, token) /\ Stream(j) = Opening(j) \o j.answer
    BY <2>1, <2>2, <2>6 DEF Stream
  <2>8. Stream(new) = Append(Stream(j), token)
    BY <2>3, <2>6, <2>7, Appended
  <2>9. token \in Written /\ new.event # "none"
        /\ token = IF new.event = "token" THEN Last(new.answer) ELSE new.event
    BY <2>2, <2>4, TokensApart
  <2> QED
    BY <2>1, <2>5, <2>8, <2>9, YieldTold
<1>8. CASE StreamEnds(c)
  <2>1. Go(c, To(c, "store")) /\ j.pc = "infer" /\ j.event = "none" /\ j.streaming = TRUE
    BY <1>8 DEF StreamEnds, Streams, At
  <2> DEFINE new == To(c, "store")
  <2>2. /\ new.pc = "store" /\ new.streaming = TRUE /\ new.round = j.round
        /\ new.event = "none" /\ new.answer = j.answer
    BY <2>1, Relabelled
  <2> HIDE DEF new
  <2>3. Placed(new)
    BY <1>1, <2>1, <2>2 DEF Placed
  <2>4. Opening(new) = Opening(j)
    BY <2>2 DEF Opening
  <2>5. Stream(new) = Stream(j)
    BY <2>1, <2>2, <2>4 DEF Stream
  <2> QED
    BY <2>1, <2>2, <2>3, <2>5, SilentTold DEF new
<1>9. CASE StreamDone(c)
  <2> DEFINE new == To(c, "end")
  <2>1. Yield(c, "done", new) /\ j.pc = "done" /\ j.event = "none"
    BY <1>9 DEF StreamDone, Streams, At
  <2>2. j.streaming = TRUE
    BY <1>1, <2>1 DEF Placed
  <2>3. /\ new.pc = "end" /\ new.streaming = TRUE /\ new.round = j.round
        /\ new.answer = j.answer /\ DOMAIN new = DOMAIN j
    BY <2>2, Relabelled
  <2> HIDE DEF new
  <2>4. Placed(new)
    BY <1>1, <2>2, <2>3 DEF Placed
  <2>5. Opening(new) = Opening(j)
    BY <2>3 DEF Opening
  <2>6. Stream(new) = Append(Stream(j), "done")
    BY <2>1, <2>2, <2>3, <2>5 DEF Stream
  <2> QED
    BY <2>1, <2>3, <2>4, <2>6, Yielded
<1> QED
  BY <1>3, <1>4, <1>5, <1>6, <1>7, <1>8, <1>9

----------------------------------------------------------------------------
(***************************************************************************)
(* The steps of a whole answer, and of the exchange that is stored.        *)
(***************************************************************************)

\* A step towards a place where nothing is stored yet, or where the question has failed.
LEMMA Unsettled ==
  ASSUME LockInv, NEW c \in Callers, NEW new, Go(c, new),
         new.pc \notin {"done", "end", "reply"} \/ (new.pc = "reply" /\ new.ok = FALSE)
  PROVE  ~Settled(c)'
<1>1. job'[c] = new
  BY Gone
<1> QED
  BY <1>1 DEF Settled

LEMMA LabelUnsettled ==
  ASSUME LockInv, Fields, NEW c \in Callers, NEW label, Go(c, To(c, label)),
         label \notin {"done", "end", "reply"}
  PROVE  ~Settled(c)'
<1>1. To(c, label).pc = label
  BY Relabelled
<1> QED
  BY <1>1, Unsettled

LEMMA FailureUnsettled ==
  ASSUME LockInv, Fields, NEW c \in Callers, Go(c, Failure(c)), job[c].mode \in {"process", "stream"}
  PROVE  ~Settled(c)'
<1>1. \/ Failure(c).pc \in {"store", "adapter"}
      \/ Failure(c).pc = "reply" /\ Failure(c).ok = FALSE
  BY DEF Failure, To, Fields
<1> QED
  BY <1>1, Unsettled

LEMMA InferenceUnsettled ==
  ASSUME LockInv, Fields, NEW c \in Callers, job[c].mode \in {"process", "stream"},
         Refuse(c) \/ Route(c) \/ Unload(c) \/ Load(c) \/ Infer(c) \/ InferFails(c)
  PROVE  ~Settled(c)'
<1>1. CASE Refuse(c) \/ InferFails(c)
  BY <1>1, FailureUnsettled DEF Refuse, InferFails
<1>2. CASE Route(c) \/ Unload(c)
  BY <1>2, LabelUnsettled DEF Route, Unload
<1>3. CASE Load(c)
  <2> DEFINE new == [To(c, "infer") EXCEPT !.target = engine'.active]
  <2>1. new.pc = "infer" /\ Go(c, new)
    BY <1>3, Relabelled DEF Fields, Load
  <2> HIDE DEF new
  <2> QED
    BY <2>1, Unsettled
<1>4. CASE Infer(c)
  <2> PICK label \in {"adapter", "parse"}, token \in Tokens :
        Go(c, [To(c, label) EXCEPT !.answer = <<token>>, !.ok = TRUE])
    BY <1>4 DEF Infer
  <2> DEFINE new == [To(c, label) EXCEPT !.answer = <<token>>, !.ok = TRUE]
  <2>1. new.pc = label /\ Go(c, new)
    BY Relabelled DEF Fields
  <2> HIDE DEF new
  <2> QED
    BY <2>1, Unsettled
<1> QED
  BY <1>1, <1>2, <1>3, <1>4

LEMMA ToolUnsettled ==
  ASSUME LockInv, Fields, NEW c \in Callers, ExecuteTool(c) \/ ParseRaises(c) \/ Settle(c)
  PROVE  ~Settled(c)'
<1>1. CASE ExecuteTool(c)
  <2> PICK result : Go(c, [To(c, "query") EXCEPT !.target = "conversational", !.round = @ + 1,
                                                 !.result = result])
    BY <1>1 DEF ExecuteTool
  <2> DEFINE new == [To(c, "query") EXCEPT !.target = "conversational", !.round = @ + 1,
                                           !.result = result]
  <2>1. new.pc = "query" /\ Go(c, new)
    BY Relabelled DEF Fields
  <2> HIDE DEF new
  <2> QED
    BY <2>1, Unsettled
<1>2. CASE ParseRaises(c) \/ Settle(c)
  BY <1>2, LabelUnsettled DEF ParseRaises, Settle
<1> QED
  BY <1>1, <1>2

\* Once a stream's exchange is stored, only done is left to say.
LEMMA GeneratorSettled ==
  ASSUME LockInv, Fields, NEW c \in Callers, Told(c), Settled(c)',
         \/ StreamAdapter(c) \/ StreamError(c) \/ StreamCall(c) \/ StreamResult(c)
         \/ StreamAgain(c) \/ StreamToken(c) \/ StreamEnds(c) \/ StreamDone(c)
  PROVE  Settled(c) /\ job'[c].answer = job[c].answer
<1> DEFINE j == job[c]
<1>1. Placed(j)
  BY DEF Told
<1>2. ASSUME NEW event, NEW changes, Yield(c, event, changes), DOMAIN changes = DOMAIN j
      PROVE  /\ job'[c].pc = changes.pc /\ job'[c].streaming = changes.streaming
             /\ job'[c].answer = changes.answer /\ job'[c].mode = changes.mode
  <2> DEFINE new == [changes EXCEPT !.event = event]
  <2>1. /\ new.pc = changes.pc /\ new.streaming = changes.streaming
        /\ new.answer = changes.answer /\ new.mode = changes.mode
    BY <1>2 DEF Fields
  <2>2. Go(c, new)
    BY <1>2 DEF Yield
  <2> HIDE DEF new
  <2> QED
    BY <2>1, <2>2, Gone
<1>3. CASE StreamAdapter(c) \/ StreamCall(c)
  <2> PICK event \in {"adapter", "tool_call"}, label \in {"parse", "error", "execute"} :
        Yield(c, event, To(c, label))
    BY <1>3 DEF StreamAdapter, StreamCall
  <2>1. job'[c].pc = label
    BY <1>2, Relabelled
  <2> QED
    BY <2>1 DEF Settled
<1>4. CASE StreamError(c)
  <2>1. Yield(c, "error", To(c, "end")) /\ j.pc = "error" /\ j.mode = "stream"
    BY <1>4 DEF StreamError, Streams, At
  <2>2. j.streaming # TRUE
    BY <1>1, <2>1 DEF Placed
  <2>3. job'[c].streaming = j.streaming /\ job'[c].mode = "stream"
    BY <1>2, <2>1, Relabelled
  <2> QED
    BY <2>2, <2>3 DEF Settled
<1>5. CASE StreamResult(c)
  <2> DEFINE new == [To(c, "query") EXCEPT !.target = "conversational", !.round = 1,
                                           !.streaming = TRUE, !.answer = <<>>]
  <2>1. Yield(c, "tool_result", new)
    BY <1>5 DEF StreamResult
  <2>2. new.pc = "query" /\ DOMAIN new = DOMAIN j
    BY Relabelled DEF Fields
  <2> HIDE DEF new
  <2> QED
    BY <1>2, <2>1, <2>2 DEF Settled
<1>6. CASE StreamAgain(c)
  <2> DEFINE new == [To(c, "query") EXCEPT !.streaming = TRUE, !.answer = <<>>,
                                           !.target = Classified(job[c].question)]
  <2>1. Yield(c, "none", new)
    BY <1>6 DEF StreamAgain
  <2>2. new.pc = "query" /\ DOMAIN new = DOMAIN j
    BY Relabelled DEF Fields
  <2> HIDE DEF new
  <2> QED
    BY <1>2, <2>1, <2>2 DEF Settled
<1>7. CASE StreamToken(c)
  <2> PICK token : Yield(c, "token", [job[c] EXCEPT !.answer = Append(@, token)])
    BY <1>7 DEF StreamToken
  <2> DEFINE new == [job[c] EXCEPT !.answer = Append(@, token)]
  <2>1. Yield(c, "token", new) /\ j.pc = "infer"
    BY <1>7 DEF StreamToken, Streams, At
  <2>2. new.pc = "infer" /\ DOMAIN new = DOMAIN j
    BY <2>1 DEF Fields
  <2> HIDE DEF new
  <2> QED
    BY <1>2, <2>1, <2>2 DEF Settled
<1>8. CASE StreamEnds(c)
  BY <1>8, LabelUnsettled DEF StreamEnds
<1>9. CASE StreamDone(c)
  <2>1. Yield(c, "done", To(c, "end")) /\ j.pc = "done" /\ j.mode = "stream"
    BY <1>9 DEF StreamDone, Streams, At
  <2>2. j.streaming = TRUE
    BY <1>1, <2>1 DEF Placed
  <2>3. job'[c].answer = j.answer
    BY <1>2, <2>1, Relabelled
  <2> QED
    BY <2>1, <2>2, <2>3 DEF Settled
<1> QED
  BY <1>3, <1>4, <1>5, <1>6, <1>7, <1>8, <1>9

\* A whole answer is made without an event.
LEMMA WholeAnswer ==
  ASSUME LockInv, Fields, NEW c \in Callers, job[c].mode = "process",
         job[c].event = "none", job[c].streaming = FALSE, Work(c)
  PROVE  job'[c].event = "none" /\ job'[c].streaming = FALSE
<1> DEFINE j == job[c]
<1>1. ASSUME NEW new, Go(c, new), new.event = j.event, new.streaming = j.streaming
      PROVE  job'[c].event = "none" /\ job'[c].streaming = FALSE
  BY <1>1, Gone
<1>2. ASSUME NEW label, Go(c, To(c, label)) PROVE job'[c].event = "none" /\ job'[c].streaming = FALSE
  BY <1>1, <1>2, Relabelled
<1>3. CASE Refuse(c) \/ InferFails(c)
  <2>1. Failure(c).event = j.event /\ Failure(c).streaming = j.streaming
    BY DEF Failure, To, Fields
  <2> QED
    BY <1>1, <1>3, <2>1 DEF Refuse, InferFails
<1>4. CASE Route(c) \/ Unload(c) \/ ParseRaises(c) \/ Settle(c)
  BY <1>2, <1>4 DEF Route, Unload, ParseRaises, Settle
<1>5. CASE Load(c)
  <2> DEFINE new == [To(c, "infer") EXCEPT !.target = engine'.active]
  <2>1. new.event = j.event /\ new.streaming = j.streaming /\ Go(c, new)
    BY <1>5, Relabelled DEF Fields, Load
  <2> HIDE DEF new
  <2> QED
    BY <1>1, <2>1
<1>6. CASE Infer(c)
  <2> PICK label, token : Go(c, [To(c, label) EXCEPT !.answer = <<token>>, !.ok = TRUE])
    BY <1>6 DEF Infer
  <2> DEFINE new == [To(c, label) EXCEPT !.answer = <<token>>, !.ok = TRUE]
  <2>1. new.event = j.event /\ new.streaming = j.streaming /\ Go(c, new)
    BY Relabelled DEF Fields
  <2> HIDE DEF new
  <2> QED
    BY <1>1, <2>1
<1>7. CASE ExecuteTool(c)
  <2> PICK result : Go(c, [To(c, "query") EXCEPT !.target = "conversational", !.round = @ + 1,
                                                 !.result = result])
    BY <1>7 DEF ExecuteTool
  <2> DEFINE new == [To(c, "query") EXCEPT !.target = "conversational", !.round = @ + 1,
                                           !.result = result]
  <2>1. new.event = j.event /\ new.streaming = j.streaming /\ Go(c, new)
    BY Relabelled DEF Fields
  <2> HIDE DEF new
  <2> QED
    BY <1>1, <2>1
<1>8. CASE Store(c)
  <2> DEFINE new == [To(c, "reply") EXCEPT !.ok = TRUE]
  <2>1. new.event = j.event /\ new.streaming = j.streaming /\ Go(c, new)
    BY <1>8, Relabelled DEF Fields, Store
  <2> HIDE DEF new
  <2> QED
    BY <1>1, <2>1
<1> QED
  BY <1>3, <1>4, <1>5, <1>6, <1>7, <1>8
     DEF Work, StreamAdapter, StreamError, StreamCall, StreamResult, StreamAgain, StreamToken,
         StreamEnds, StreamDone, Streams

----------------------------------------------------------------------------
(***************************************************************************)
(* Every step keeps to what the clients have been told.                    *)
(***************************************************************************)

LEMMA HeardSame ==
  ASSUME NEW c, Heard(c), job'[c] = job[c], conn'[c] = conn[c], sent'[c] = sent[c],
         conn[c].phase # "working" \/ UNCHANGED sessions
  PROVE  Heard(c)'
<1>1. CASE conn[c].phase # "working"
  BY <1>1 DEF Heard
<1>2. CASE conn[c].phase = "working" /\ UNCHANGED sessions
  <2>1. Event(c)' = Event(c)
    BY DEF Event
  <2>2. Told(c) => Told(c)'
    BY <2>1 DEF Told
  <2>3. Settled(c)' <=> Settled(c)
    BY DEF Settled
  <2>4. Stored(c) => Stored(c)'
    BY <1>2 DEF Stored
  <2>5. Hearing(c)'
    BY <1>2, <2>2, <2>3, <2>4 DEF Heard, Hearing
  <2> QED
    BY <1>2, <2>5 DEF Heard
<1> QED
  BY <1>1, <1>2

\* A thread with a question is working at it.
LEMMA AtWork ==
  ASSUME HeardInv, NEW c \in Threads, job[c] # Idle
  PROVE  /\ conn[c].phase = "working" /\ lock = c /\ Hearing(c)
         /\ job[c].mode \in {"process", "stream"} /\ conn[c].mode \in {"process", "stream"}
<1>1. conn[c].phase = "working" /\ lock = c
  BY Held DEF HeardInv, MemoryInv, ModelInv
<1> QED
  BY <1>1 DEF HeardInv, Heard, Hearing

\* Nobody works beside the holder of the lock.
LEMMA NotAtWork ==
  ASSUME LockInv, NEW c \in Callers, lock \in {c, Nobody}, NEW d \in Threads, d # c
  PROVE  conn[d].phase # "working"
BY ServerAssumption DEF LockInv, LockExcludes, Threads

LEMMA StoreStored ==
  ASSUME HeardInv, NEW c \in Threads, Store(c) PROVE Stored(c)'
<1> DEFINE j == job[c]
           done == To(c, "done")
           reply == [To(c, "reply") EXCEPT !.ok = TRUE]
<1> c \in Callers
  BY DEF Threads
<1>0. LockInv /\ Fields /\ SessionsInv
  BY DEF HeardInv, MemoryInv, ModelInv
<1>1. j # Idle
  BY ToolStep
<1>2. j.question \in Questions /\ j.session \in DOMAIN sessions /\ j.answer \in Answers
  BY <1>1 DEF HeardInv, MemoryInv, Working
<1>3. Go(c, done) \/ Go(c, reply)
  BY DEF Store
<1>4. /\ done.question = j.question /\ done.session = j.session /\ done.answer = j.answer
      /\ reply.question = j.question /\ reply.session = j.session /\ reply.answer = j.answer
  BY <1>0, Relabelled DEF Fields
<1> HIDE DEF done, reply
<1>5. job'[c].question = j.question /\ job'[c].session = j.session /\ job'[c].answer = j.answer
  BY <1>0, <1>3, <1>4, Gone
<1> DEFINE new == add_turn(add_turn(sessions[j.session], Turn("user", <<j.question>>)),
                           Turn("assistant", j.answer))
<1>6. Put(j.session, new)
  BY DEF Store
<1>7. LatestIs(new.history, j.question, j.answer)
  BY <1>0, <1>2, ExchangeLast DEF SessionsInv
<1> HIDE DEF new
<1>8. sessions'[j.session] = new
  BY <1>6, PutIs
<1> QED
  BY <1>5, <1>7, <1>8 DEF Stored

LEMMA WorkHearing ==
  ASSUME HeardInv, NEW c \in Threads, Work(c) PROVE Hearing(c)'
<1> c \in Callers
  BY DEF Threads
<1>0. LockInv /\ Fields
  BY DEF HeardInv, MemoryInv, ModelInv
<1>1. job[c] # Idle /\ UNCHANGED <<conn, sent>>
  BY WorkStep DEF Work, front
<1>2. Hearing(c) /\ job[c].mode \in {"process", "stream"}
  BY <1>1, AtWork
<1>3. ASSUME ~Store(c) PROVE Keeps(c)
  BY <1>0, <1>3, InferenceKeeps, ToolKeeps, StreamKeeps, Zenon DEF Work
<1>4. job'[c].mode = job[c].mode
  <2>1. CASE Store(c)
    <3> DEFINE reply == [To(c, "reply") EXCEPT !.ok = TRUE]
    <3>1. Go(c, To(c, "done")) \/ Go(c, reply)
      BY <2>1 DEF Store
    <3>2. reply.mode = job[c].mode /\ To(c, "done").mode = job[c].mode
      BY <1>0, Relabelled DEF Fields
    <3> HIDE DEF reply
    <3> QED
      BY <1>0, <3>1, <3>2, Gone
  <2> QED
    BY <1>3, <2>1 DEF Keeps, Alike
<1>5. job[c].mode = "process" => job'[c].event = "none" /\ job'[c].streaming = FALSE /\ sent'[c] = <<>>
  BY <1>0, <1>1, <1>2, WholeAnswer DEF Hearing
<1>6. ASSUME job[c].mode = "stream" PROVE Told(c)'
  <2>1. Told(c) /\ UNCHANGED sent
    BY <1>1, <1>2, <1>6 DEF Hearing
  <2> QED
    BY <1>0, <1>6, <2>1, InferenceTold, ToolTold, GeneratorTold, Zenon DEF Work
<1>7. ASSUME Settled(c)' PROVE Stored(c)'
  <2>1. CASE Store(c)
    BY <2>1, StoreStored
  <2>2. CASE ~Store(c)
    <3>1. Keeps(c)
      BY <1>3, <2>2
    <3>2. Settled(c) /\ job'[c].answer = job[c].answer
      <4>1. \/ StreamAdapter(c) \/ StreamError(c) \/ StreamCall(c) \/ StreamResult(c)
            \/ StreamAgain(c) \/ StreamToken(c) \/ StreamEnds(c) \/ StreamDone(c)
        BY <1>0, <1>2, <1>7, <2>2, InferenceUnsettled, ToolUnsettled, Zenon DEF Work
      <4>2. job[c].mode = "stream"
        BY <4>1 DEF StreamAdapter, StreamError, StreamCall, StreamResult, StreamAgain, StreamToken,
                    StreamEnds, StreamDone, Streams
      <4>3. Told(c)
        BY <1>2, <4>2 DEF Hearing
      <4> QED
        BY <1>0, <1>7, <4>1, <4>3, GeneratorSettled
    <3> QED
      BY <1>2, <3>1, <3>2 DEF Keeps, Alike, Hearing, Stored
  <2> QED
    BY <2>1, <2>2
<1> QED
  BY <1>1, <1>2, <1>4, <1>5, <1>6, <1>7 DEF Hearing

\* An event is written: what the client was to be told, it now has been.
LEMMA SendHearing ==
  ASSUME HeardInv, NEW c \in Threads, Send(c) PROVE Hearing(c)'
<1> DEFINE j == job[c]
           new == [j EXCEPT !.event = "none"]
<1> c \in Callers
  BY DEF Threads
<1>0. LockInv /\ Fields
  BY DEF HeardInv, MemoryInv, ModelInv
<1>1. /\ Go(c, new) /\ UNCHANGED <<sessions, conn>> /\ j.event # "none"
      /\ sent' = [sent EXCEPT ![c] = Append(@, Event(c))]
  BY DEF Send
<1>2. Hearing(c) /\ j.mode \in {"process", "stream"}
  BY <1>1, IdleIs, AtWork
<1>3. j.mode = "stream" /\ Told(c)
  BY <1>1, <1>2 DEF Hearing
<1>4. sent'[c] = Append(sent[c], Event(c))
  BY <1>1 DEF HeardInv
<1>5. /\ new.event = "none" /\ new.pc = j.pc /\ new.streaming = j.streaming /\ new.round = j.round
      /\ new.answer = j.answer /\ new.mode = j.mode /\ new.question = j.question
      /\ new.session = j.session
  BY <1>0 DEF Fields
<1>6. Go(c, new)
  BY <1>1
<1> HIDE DEF new
<1>7. job'[c] = new
  BY <1>0, <1>6, Gone
<1>8. Placed(new)
  BY <1>3, <1>5 DEF Told, Placed
<1>9. Opening(new) = Opening(j)
  BY <1>5 DEF Opening
<1>10. Stream(new) = Stream(j)
  BY <1>5, <1>9 DEF Stream
<1>11. sent'[c] = Stream(new)
  BY <1>1, <1>3, <1>4, <1>10 DEF Told
<1>12. sent'[c] \in Seq(Written)
  <2>1. sent[c] \in Seq(Written) /\ Event(c) \in Written
    BY <1>1, <1>3 DEF Told
  <2> QED
    BY <1>4, <2>1, AppendProperties
<1>13. Told(c)'
  BY <1>5, <1>7, <1>8, <1>11, <1>12 DEF Told
<1>14. Settled(c)' => Stored(c)'
  BY <1>1, <1>2, <1>3, <1>5, <1>7 DEF Hearing, Settled, Stored
<1> QED
  BY <1>1, <1>2, <1>3, <1>5, <1>7, <1>13, <1>14 DEF Hearing

\* The lock is taken, and nothing told yet.
LEMMA AcquireHearing ==
  ASSUME HeardInv, NEW c \in Threads, Acquire(c)
  PROVE  Hearing(c)' /\ conn'[c].phase = "working" /\ conn'[c].mode \in {"process", "stream"}
<1> DEFINE s == conn[c].session
           q == conn[c].question
           new == [To(c, "query") EXCEPT !.mode = conn[c].mode, !.question = q, !.session = s,
                     !.context = build_context_string(WithContext(get_or_create_session(s), NoPlace), q),
                     !.target = Classified(q)]
           r == [phase |-> "working", mode |-> conn[c].mode, question |-> q, session |-> s,
                 reply |-> conn[c].reply]
<1> c \in Callers
  BY DEF Threads
<1>0. LockInv /\ Fields
  BY DEF HeardInv, MemoryInv, ModelInv
<1>1. conn[c].phase = "waiting" /\ UNCHANGED sent /\ Go(c, new)
  BY DEF Acquire, Process
<1>2. conn' = [conn EXCEPT ![c] = r]
  BY <1>0 DEF Acquire, Request, LockInv
<1>3. job[c] = Idle
  BY <1>0, <1>1 DEF LockInv, WorkInv
<1>4. sent'[c] = <<>> /\ conn[c].mode \in {"process", "stream"}
  BY <1>1 DEF HeardInv, Heard
<1>5. Idle.event = "none" /\ Idle.round = 0
  BY DEF Idle
<1>6. Idle.streaming = FALSE
  BY Zenon DEF Idle
<1>7. /\ new.mode = conn[c].mode /\ new.pc = "query" /\ new.event = "none" /\ new.round = 0
      /\ new.streaming = FALSE
  BY <1>0, <1>3, <1>5, <1>6, Relabelled DEF Fields
<1>8. r.phase = "working" /\ r.mode = conn[c].mode
  OBVIOUS
<1>9. Go(c, new)
  BY <1>1
<1> HIDE DEF new, r
<1>10. job'[c] = new /\ conn'[c] = r
  BY <1>0, <1>2, <1>9, Gone, ConnectionType
<1>11. Placed(new) /\ Stream(new) = <<>>
  BY <1>7 DEF Placed, Stream
<1>12. Told(c)'
  <2>1. <<>> \in Seq(Written)
    OBVIOUS
  <2> QED
    BY <1>4, <1>7, <1>10, <1>11, <2>1 DEF Told
<1>13. ~Settled(c)'
  BY <1>7, <1>10 DEF Settled
<1> QED
  BY <1>4, <1>7, <1>8, <1>10, <1>12, <1>13 DEF Hearing

AllHeard == sent' = [c \in Threads |-> sent'[c]] /\ \A c \in Threads : Heard(c)'

\* A step of one thread that changes no other's job, request or stream.
LEMMA OneHeard ==
  ASSUME HeardInv, NEW c \in Threads, Heard(c)',
         \A d \in Callers : d # c => job'[d] = job[d],
         \A d \in Threads : d # c => conn'[d] = conn[d],
         UNCHANGED sent \/ \E x : sent' = [sent EXCEPT ![c] = x],
         UNCHANGED sessions \/ lock \in {c, Nobody}
  PROVE  AllHeard
<1>1. sent' = [d \in Threads |-> sent'[d]] /\ \A d \in Threads : d # c => sent'[d] = sent[d]
  BY DEF HeardInv
<1>2. ASSUME NEW d \in Threads, d # c PROVE Heard(d)'
  <2>1. UNCHANGED sessions \/ conn[d].phase # "working"
    BY <1>2, NotAtWork, MainIsCaller DEF HeardInv, MemoryInv, ModelInv
  <2>2. job'[d] = job[d] /\ conn'[d] = conn[d] /\ sent'[d] = sent[d]
    BY <1>1, <1>2, MainIsCaller
  <2> QED
    BY <1>2, <2>1, <2>2, HeardSame DEF HeardInv
<1> QED
  BY <1>1, <1>2 DEF AllHeard

\* A request that is not being worked at.
Quiet(phase, mode, events) ==
  /\ phase \in {"none", "receiving", "checking", "waiting", "failing", "closing"}
  /\ phase \in {"receiving", "checking", "waiting"} => mode \in {"process", "stream"}
  /\ phase \in {"none", "receiving", "checking", "waiting"} => events = <<>>
  /\ phase = "failing" => events = <<"adapter">>
  /\ phase = "closing" => events \in {<<>>, <<"adapter", "error">>}

LEMMA QuietHeard ==
  ASSUME NEW c, Quiet(conn'[c].phase, conn'[c].mode, sent'[c]) PROVE Heard(c)'
BY DEF Quiet, Heard

LEMMA TwoInAll == ASSUME NEW first, NEW second PROVE Append(<<first>>, second) = <<first, second>>
<1> DEFINE S == {first, second}
           longer == Append(<<first>>, second)
<1>1. <<first>> \in Seq(S) /\ <<first, second>> \in Seq(S) /\ second \in S /\ Len(<<first>>) = 1
  OBVIOUS
<1>2. longer \in Seq(S) /\ Len(longer) = 2 /\ longer[1] = first /\ longer[2] = second
  BY <1>1, AppendProperties
<1> HIDE DEF longer, S
<1>3. longer = <<first, second>>
  BY <1>1, <1>2, SeqEqual
<1> QED
  BY <1>3 DEF longer

LEMMA OutsideHeard ==
  ASSUME HeardInv, NEW c \in Threads,
         Asks(c) \/ Check(c) \/ SendError(c) \/ Hangup(c) \/ Client(c)
  PROVE  AllHeard
<1>0. LockInv /\ UNCHANGED <<sessions, job>>
  BY DEF Asks, Connect, Body, Check, SendError, Hangup, Client, HeardInv, MemoryInv, ModelInv
<1>1. ASSUME NEW r, conn' = [conn EXCEPT ![c] = r],
             NEW events, sent' = [sent EXCEPT ![c] = events], Quiet(r.phase, r.mode, events)
      PROVE  AllHeard
  <2>1. conn'[c] = r /\ \A d \in Threads : d # c => conn'[d] = conn[d]
    BY <1>0, <1>1, ConnectionType
  <2>2. sent'[c] = events
    BY <1>1 DEF HeardInv
  <2>3. Heard(c)'
    BY <1>1, <2>1, <2>2, QuietHeard
  <2>4. \E x : sent' = [sent EXCEPT ![c] = x]
    BY <1>1
  <2> QED
    BY <1>0, <2>1, <2>3, <2>4, OneHeard
<1>2. ASSUME UNCHANGED sent PROVE sent' = [sent EXCEPT ![c] = sent[c]]
  BY <1>2 DEF HeardInv
<1>3. ASSUME NEW code, Answered(c, code)
      PROVE  \E r : conn' = [conn EXCEPT ![c] = r] /\ r.phase = "closing"
  <2> DEFINE r == [NoRequest EXCEPT !.phase = "closing", !.reply = code]
  <2>1. r.phase = "closing" /\ conn' = [conn EXCEPT ![c] = r]
    BY <1>3 DEF NoRequest, Answered
  <2> HIDE DEF r
  <2> QED
    BY <2>1
<1>4. CASE Asks(c)
  <2>1. conn[c].phase \in {"none", "receiving"} /\ UNCHANGED sent
    BY <1>4 DEF Asks, Connect, Body
  <2>2. sent[c] = <<>>
    BY <2>1 DEF HeardInv, Heard
  <2>3. ASSUME NEW mode \in {"process", "stream"}, Connect(c, mode) PROVE AllHeard
    <3> DEFINE r == [NoRequest EXCEPT !.phase = "receiving", !.mode = mode]
    <3>1. r.phase = "receiving" /\ r.mode = mode /\ conn' = [conn EXCEPT ![c] = r]
      BY <2>3, ReceivingIs DEF Connect
    <3> HIDE DEF r
    <3>2. Quiet(r.phase, r.mode, sent[c])
      BY <2>2, <3>1 DEF Quiet
    <3> QED
      BY <1>1, <1>2, <2>1, <3>1, <3>2
  <2>4. ASSUME NEW q, NEW s, Body(c, q, s) PROVE AllHeard
    <3>1. conn[c].phase = "receiving"
      BY <2>4 DEF Body
    <3>2. conn[c].mode \in {"process", "stream"}
      BY <3>1 DEF HeardInv, Heard
    <3> PICK r : r.phase = "checking" /\ r.mode = conn[c].mode /\ conn' = [conn EXCEPT ![c] = r]
      BY <1>0, <2>4, Bodies DEF LockInv
    <3>3. Quiet(r.phase, r.mode, sent[c])
      BY <2>2, <3>2 DEF Quiet
    <3> QED
      BY <1>1, <1>2, <2>1, <3>3
  <2> QED
    BY <1>4, <2>3, <2>4 DEF Asks
<1>5. CASE Check(c)
  <2>1. UNCHANGED sent /\ conn[c].phase = "checking"
    BY <1>5 DEF Check
  <2>2. sent[c] = <<>> /\ conn[c].mode \in {"process", "stream"}
    BY <2>1 DEF HeardInv, Heard
  <2>3. CASE \E code : Answered(c, code)
    <3> PICK r : conn' = [conn EXCEPT ![c] = r] /\ r.phase = "closing"
      BY <1>3, <2>3
    <3>1. Quiet(r.phase, r.mode, sent[c])
      BY <2>2 DEF Quiet
    <3> QED
      BY <1>1, <1>2, <2>1, <3>1
  <2>4. CASE \E reply : Request(c, "waiting", reply)
    <3> PICK reply : Request(c, "waiting", reply)
      BY <2>4
    <3> DEFINE r == [phase |-> "waiting", mode |-> conn[c].mode, question |-> conn[c].question,
                     session |-> conn[c].session, reply |-> reply]
    <3>1. conn' = [conn EXCEPT ![c] = r]
      BY <1>0 DEF Request, LockInv
    <3>2. Quiet(r.phase, r.mode, sent[c])
      BY <2>2 DEF Quiet
    <3> HIDE DEF r
    <3> QED
      BY <1>1, <1>2, <2>1, <3>1, <3>2
  <2> QED
    BY <1>5, <2>3, <2>4 DEF Check
<1>6. CASE SendError(c)
  <2> DEFINE events == Append(sent[c], "error")
  <2>1. sent' = [sent EXCEPT ![c] = events] /\ conn[c].phase = "failing"
    BY <1>6 DEF SendError
  <2>2. sent[c] = <<"adapter">>
    BY <2>1 DEF HeardInv, Heard
  <2>3. events = <<"adapter", "error">>
    BY <2>2, TwoInAll
  <2> HIDE DEF events
  <2> PICK r : conn' = [conn EXCEPT ![c] = r] /\ r.phase = "closing"
    BY <1>3, <1>6 DEF SendError
  <2>4. Quiet(r.phase, r.mode, events)
    BY <2>3 DEF Quiet
  <2> QED
    BY <1>1, <2>1, <2>4
<1>7. CASE Hangup(c)
  <2>1. conn' = [conn EXCEPT ![c] = NoRequest] /\ sent' = [sent EXCEPT ![c] = <<>>]
    BY <1>7 DEF Hangup
  <2>2. Quiet(NoRequest.phase, NoRequest.mode, <<>>)
    BY DEF Quiet, NoRequest
  <2> QED
    BY <1>1, <2>1, <2>2
<1>8. CASE Client(c)
  <2>1. UNCHANGED <<conn, sent, job, sessions>>
    BY <1>8 DEF Client
  <2>2. Heard(c)'
    BY <2>1, HeardSame DEF HeardInv
  <2> QED
    BY <2>1, <2>2, OneHeard
<1> QED
  BY <1>4, <1>5, <1>6, <1>7, <1>8

LEMMA WorkingHeard ==
  ASSUME HeardInv, NEW c \in Threads, Acquire(c) \/ Work(c) \/ Send(c)
  PROVE  AllHeard
<1> c \in Callers
  BY DEF Threads
<1>0. LockInv
  BY DEF HeardInv, MemoryInv, ModelInv
<1>1. CASE Acquire(c)
  <2>1. Hearing(c)' /\ conn'[c].phase = "working" /\ conn'[c].mode \in {"process", "stream"}
    BY <1>1, AcquireHearing
  <2>2. Heard(c)'
    BY <2>1 DEF Heard
  <2>3. lock = Nobody /\ UNCHANGED sent
    BY <1>1 DEF Acquire
  <2>4. \A d \in Callers : d # c => job'[d] = job[d]
    BY <1>0, <1>1, Gone DEF Acquire, Process
  <2>5. \A d \in Threads : d # c => conn'[d] = conn[d]
    BY <1>0, <1>1, Requests, ConnectionType DEF Acquire
  <2> QED
    BY <2>2, <2>3, <2>4, <2>5, OneHeard
<1>2. CASE Work(c) \/ Send(c)
  <2>1. Hearing(c)'
    BY <1>2, WorkHearing, SendHearing
  <2>2. job[c] # Idle
    BY <1>2, WorkStep, IdleIs DEF Send
  <2>3. conn[c].phase = "working" /\ lock = c /\ conn[c].mode \in {"process", "stream"}
    BY <2>2, AtWork
  <2>4. UNCHANGED conn
    BY <1>2 DEF Work, front, Send
  <2>5. Heard(c)'
    BY <2>1, <2>3, <2>4 DEF Heard
  <2>6. \A d \in Callers : d # c => job'[d] = job[d]
    BY <1>0, <1>2, WorkStep, Gone DEF Moves, Send, LockInv
  <2>7. UNCHANGED sent \/ \E x : sent' = [sent EXCEPT ![c] = x]
    BY <1>2 DEF Work, front, Send
  <2> QED
    BY <2>3, <2>4, <2>5, <2>6, <2>7, OneHeard
<1> QED
  BY <1>1, <1>2

LEMMA EndingHeard ==
  ASSUME HeardInv, NEW c \in Threads, Disconnected(c) \/ Finish(c) \/ Broken(c)
  PROVE  AllHeard
<1> c \in Callers
  BY DEF Threads
<1>0. LockInv
  BY DEF HeardInv, MemoryInv, ModelInv
<1>1. Go(c, Idle) /\ UNCHANGED sessions
  BY DEF Disconnected, Finish, Broken, Release, Go
<1>2. \A d \in Callers : d # c => job'[d] = job[d]
  BY <1>0, <1>1, Gone
<1>3. ASSUME NEW r, conn' = [conn EXCEPT ![c] = r], NEW events,
             sent' = [sent EXCEPT ![c] = events], Quiet(r.phase, r.mode, events)
      PROVE  AllHeard
  <2>1. conn'[c] = r /\ \A d \in Threads : d # c => conn'[d] = conn[d]
    BY <1>0, <1>3, ConnectionType
  <2>2. sent'[c] = events
    BY <1>3 DEF HeardInv
  <2>3. Heard(c)'
    BY <1>3, <2>1, <2>2, QuietHeard
  <2>4. \E x : sent' = [sent EXCEPT ![c] = x]
    BY <1>3
  <2> QED
    BY <1>1, <1>2, <2>1, <2>3, <2>4, OneHeard
<1>4. ASSUME NEW code, Release(c, code) PROVE AllHeard
  <2> DEFINE r == [NoRequest EXCEPT !.phase = "closing", !.reply = code]
  <2>1. conn' = [conn EXCEPT ![c] = r] /\ sent' = [sent EXCEPT ![c] = <<>>]
    BY <1>4 DEF Release, Answered
  <2>2. r.phase = "closing"
    BY DEF NoRequest
  <2> HIDE DEF r
  <2>3. Quiet(r.phase, r.mode, <<>>)
    BY <2>2 DEF Quiet
  <2> QED
    BY <1>3, <2>1, <2>3
<1>5. CASE Broken(c) /\ conn[c].mode = "stream"
  <2>1. Request(c, "failing", conn[c].reply) /\ UNCHANGED sent /\ At(c, "raised")
    BY <1>5 DEF Broken
  <2>2. job[c] # Idle
    BY <2>1, Busy
  <2>3. Told(c)
    BY <1>5, <2>2, AtWork DEF Hearing
  <2>4. job[c].streaming # TRUE /\ job[c].pc = "raised" /\ job[c].event = "none"
    BY <2>1, <2>3 DEF Told, Placed, At
  <2>5. sent[c] = <<"adapter">>
    BY <2>3, <2>4 DEF Told, Stream
  <2> PICK r : r.phase = "failing" /\ conn' = [conn EXCEPT ![c] = r]
    BY <1>0, <2>1, Requests
  <2>6. Quiet(r.phase, r.mode, sent[c])
    BY <2>5 DEF Quiet
  <2>7. sent' = [sent EXCEPT ![c] = sent[c]]
    BY <2>1 DEF HeardInv
  <2> QED
    BY <1>3, <2>6, <2>7
<1> QED
  BY <1>4, <1>5 DEF Disconnected, Finish, Broken

LEMMA MainHeard ==
  ASSUME HeardInv, MainThread \/ Close \/ Tick PROVE AllHeard
<1>0. LockInv /\ MemoryInv
  BY DEF HeardInv, MemoryInv, ModelInv
<1>1. ASSUME UNCHANGED <<conn, sent, sessions>>, \A d \in Threads : job'[d] = job[d] PROVE AllHeard
  BY <1>1, HeardSame DEF HeardInv, AllHeard
<1>2. CASE load_engine
  <2>1. UNCHANGED <<conn, sent, sessions>>
    BY <1>2 DEF load_engine
  <2>2. UNCHANGED job \/ \E new : Go(Main, new)
    BY <1>2 DEF load_engine
  <2>3. \A d \in Threads : job'[d] = job[d]
    BY <1>0, <2>2, Gone, MainIsCaller
  <2> QED
    BY <1>1, <2>1, <2>3
<1>3. CASE server = "warmup" /\ Work(Main)
  <2>1. UNCHANGED sessions
    BY <1>0, <1>3, WarmStays
  <2>2. UNCHANGED <<conn, sent>> /\ \A d \in Threads : job'[d] = job[d]
    BY <1>0, <1>3, WorkStep, MainIsCaller DEF Work, front, Moves, LockInv
  <2> QED
    BY <1>1, <2>1, <2>2
<1>4. CASE Serve
  <2>1. Go(Main, Idle) /\ UNCHANGED <<conn, sent, sessions>>
    BY <1>4 DEF Serve, Go
  <2>2. \A d \in Threads : job'[d] = job[d]
    BY <1>0, <2>1, Gone, MainIsCaller
  <2> QED
    BY <1>1, <2>1, <2>2
<1>5. CASE Exit
  <2>1. conn' = [c \in Threads |-> NoRequest] /\ sent' = [c \in Threads |-> <<>>]
    BY <1>5 DEF Exit
  <2>2. Quiet(NoRequest.phase, NoRequest.mode, <<>>)
    BY DEF Quiet, NoRequest
  <2> QED
    BY <2>1, <2>2, QuietHeard DEF AllHeard
<1>6. CASE Close
  BY <1>1, <1>6 DEF Close
<1>7. CASE Tick
  <2>1. UNCHANGED <<conn, sent, job>> /\ lock = Nobody
    BY <1>7 DEF Tick, front
  <2>2. \A d \in Threads : conn[d].phase # "working"
    BY <1>0, <2>1, ServerAssumption DEF LockInv, LockExcludes, Threads
  <2> QED
    BY <2>1, <2>2, HeardSame DEF HeardInv, AllHeard
<1> QED
  BY <1>2, <1>3, <1>4, <1>5, <1>6, <1>7 DEF MainThread

LEMMA HeardStep == ASSUME HeardInv, [Next]_vars PROVE HeardInv'
<1>1. MemoryInv'
  BY MemoryStep DEF HeardInv
<1>2. AllHeard
  <2>1. CASE UNCHANGED vars
    <3>1. UNCHANGED <<conn, sent, sessions, job>>
      BY <2>1 DEF vars
    <3> QED
      BY <3>1, HeardSame DEF HeardInv, AllHeard
  <2>2. CASE MainThread \/ Close \/ Tick
    BY <2>2, MainHeard
  <2>3. ASSUME NEW c \in Threads,
               Asks(c) \/ Step(c) \/ Client(c)
        PROVE  AllHeard
    BY <2>3, OutsideHeard, WorkingHeard, EndingHeard DEF Step
  <2> QED
    BY <2>1, <2>2, <2>3 DEF Next
<1> QED
  BY <1>1, <1>2 DEF HeardInv, AllHeard

LEMMA HeardStarts == ASSUME Init PROVE HeardInv
<1>1. sent = [c \in Threads |-> <<>>] /\ \A c \in Threads : conn[c].phase = "none"
  BY DEF Init, NoRequest
<1>2. \A c \in Threads : Heard(c)
  BY <1>1 DEF Heard
<1> QED
  BY <1>1, <1>2, MemoryStarts DEF HeardInv

\* Whenever the client of a stream stops reading, goes away or sees the generator raise, what
\* it has read is the beginning of one stream: its adapter; a call and its result, or neither;
\* tokens; done; or the adapter and one error (process_query_stream in orchestrator.py, and
\* _handle_chat_stream in ai_server.py, which sends an error of its own).
THEOREM StreamsAreWellFormed == Spec => []StreamsWellFormed
<1>1. Init => HeardInv
  BY HeardStarts
<1>2. HeardInv /\ [Next]_vars => HeardInv'
  BY HeardStep
<1>3. HeardInv => StreamsWellFormed
  BY HeardIsEnough
<1> QED
  BY <1>1, <1>2, <1>3, PTL DEF Spec

\* A stream that says done, and an answer given with success, is the last exchange of its
\* session, word for word: it was stored before it was given, and until the lock is given
\* back nothing else is stored (process_query and process_query_stream in orchestrator.py).
THEOREM AnswersAreRemembered == Spec => []AnsweredIsRemembered
<1>1. Init => HeardInv
  BY HeardStarts
<1>2. HeardInv /\ [Next]_vars => HeardInv'
  BY HeardStep
<1>3. HeardInv => AnsweredIsRemembered
  BY HeardIsEnough
<1> QED
  BY <1>1, <1>2, <1>3, PTL DEF Spec

----------------------------------------------------------------------------
(***************************************************************************)
(* Folds over sequences: the function that FoldLeft recurs by exists, and  *)
(* what it has reached after k elements is got from k - 1 by one step.     *)
(***************************************************************************)

LEMMA LeastOf ==
  ASSUME NEW T, T \subseteq Nat, T # {}
  PROVE  \E x \in T : \A y \in T : x <= y
<1>1. IsWellFoundedOn(OpToRel(<, Nat), Nat)
  BY NatLessThanWellFounded
<1>2. \E x \in T : \A y \in T : <<y, x>> \notin OpToRel(<, Nat)
  BY <1>1, WFMin
<1>3. \A x \in Nat, y \in Nat : y < x => <<y, x>> \in OpToRel(<, Nat)
  BY DEF OpToRel
<1>4. \A x \in T, y \in T : ~(y < x) => x <= y
  OBVIOUS
<1> QED
  BY <1>2, <1>3, <1>4

LEMMA SetInduction ==
  ASSUME NEW T, T \subseteq Nat, 0 \in T, \A n \in T : n + 1 \in T
  PROVE  T = Nat
<1>1. SUFFICES ASSUME Nat \ T # {} PROVE FALSE
  OBVIOUS
<1>2. PICK x \in Nat \ T : \A y \in Nat \ T : x <= y
  BY <1>1, LeastOf
<1>3. x - 1 \in Nat /\ ~(x <= x - 1) /\ (x - 1) + 1 = x
  BY <1>2
<1>4. x - 1 \in T
  BY <1>2, <1>3
<1> QED
  BY <1>2, <1>3, <1>4

LEMMA GreatestOf ==
  ASSUME NEW n \in Nat, NEW s, s \subseteq 1 .. n, s # {}
  PROVE  Max(s) \in s /\ \A y \in s : Max(s) >= y
<1> DEFINE T == {u \in Nat : \A y \in s : y <= u}
<1>1. n \in T /\ T \subseteq Nat /\ \A y \in s : y \in Nat /\ y >= 1
  OBVIOUS
<1>2. PICK x \in T : \A u \in T : x <= u
  <2> HIDE DEF T
  <2> QED
    BY <1>1, LeastOf
<1>3. x \in s
  <2> SUFFICES ASSUME x \notin s PROVE FALSE
    OBVIOUS
  <2>1. x \in Nat /\ \A y \in s : y < x
    BY <1>1, <1>2
  <2>2. PICK y \in s : y \in Nat /\ y >= 1 /\ y < x
    BY <1>1, <2>1
  <2>3. x - 1 \in Nat /\ ~(x <= x - 1)
    BY <2>1, <2>2
  <2>4. \A z \in s : z <= x - 1
    BY <1>1, <2>1
  <2>5. x - 1 \in T
    BY <2>3, <2>4
  <2> HIDE DEF T
  <2> QED
    BY <1>2, <2>3, <2>5
<1>4. \A y \in s : x >= y
  BY <1>1, <1>2
<1> QED
  BY <1>3, <1>4 DEF Max

LEMMA GreatestIs ==
  ASSUME NEW n \in Nat, NEW s, s \subseteq 1 .. n, n \in s
  PROVE  Max(s) = n
<1>1. Max(s) \in s /\ Max(s) >= n
  BY GreatestOf
<1>2. \A x \in s : x \in Nat /\ x <= n
  OBVIOUS
<1>3. Max(s) \in Nat /\ Max(s) <= n
  BY <1>1, <1>2
<1> QED
  BY <1>1, <1>3

\* The recursion, for a step that is a function of the position and of what was reached.
FoldOf(G, base, fold, n) ==
  fold = [s \in SUBSET (1 .. n) |-> IF s = {} THEN base ELSE G[Max(s)][fold[s \ {Max(s)}]]]

LEMMA FoldMore ==
  ASSUME NEW n \in Nat, NEW V, NEW G, NEW base, NEW fold,
         FoldOf(G, base, fold, n), \A s \in SUBSET (1 .. n) : fold[s] \in V,
         \A v \in V : G[n + 1][v] \in V
  PROVE  \E more : FoldOf(G, base, more, n + 1) /\ \A s \in SUBSET (1 .. n + 1) : more[s] \in V
<1> DEFINE more == [s \in SUBSET (1 .. n + 1) |->
                      IF n + 1 \in s THEN G[n + 1][fold[s \ {n + 1}]] ELSE fold[s]]
           step(f, s) == IF s = {} THEN base ELSE G[Max(s)][f[s \ {Max(s)}]]
<1>1. \A s \in SUBSET (1 .. n) : fold[s] = step(fold, s)
  BY DEF FoldOf
<1>2. ASSUME NEW s \in SUBSET (1 .. n + 1) PROVE more[s] = step(more, s) /\ more[s] \in V
  <2>1. CASE n + 1 \in s
    <3>1. Max(s) = n + 1
      <4>1. n + 1 \in Nat /\ s \subseteq 1 .. n + 1
        OBVIOUS
      <4> QED
        BY <2>1, <4>1, GreatestIs
    <3>2. s \ {n + 1} \in SUBSET (1 .. n) /\ s \ {n + 1} \in SUBSET (1 .. n + 1)
      OBVIOUS
    <3>3. more[s] = G[n + 1][fold[s \ {n + 1}]]
      BY <2>1
    <3>4. more[s \ {n + 1}] = fold[s \ {n + 1}]
      BY <3>2
    <3> HIDE DEF more
    <3> QED
      BY <2>1, <3>1, <3>2, <3>3, <3>4
  <2>2. CASE n + 1 \notin s
    <3>1. s \in SUBSET (1 .. n) /\ s \ {Max(s)} \in SUBSET (1 .. n + 1) /\ n + 1 \notin s \ {Max(s)}
      <4>1. 1 .. n + 1 = (1 .. n) \cup {n + 1}
        OBVIOUS
      <4> QED
        BY <2>2, <4>1
    <3>2. more[s] = fold[s] /\ more[s \ {Max(s)}] = fold[s \ {Max(s)}]
      BY <2>2, <3>1
    <3> HIDE DEF more
    <3> QED
      BY <1>1, <3>1, <3>2
  <2> QED
    BY <2>1, <2>2
<1>3. more = [s \in SUBSET (1 .. n + 1) |-> more[s]]
  OBVIOUS
<1>4. more = [s \in SUBSET (1 .. n + 1) |-> step(more, s)]
  <2> HIDE DEF more, step
  <2> QED
    BY <1>2, <1>3
<1>5. FoldOf(G, base, more, n + 1)
  <2> HIDE DEF more
  <2> QED
    BY <1>4 DEF FoldOf
<1> QED
  BY <1>2, <1>5

LEMMA FoldExists ==
  ASSUME NEW n \in Nat, NEW V, NEW base \in V, NEW G, \A k \in 1 .. n : \A v \in V : G[k][v] \in V
  PROVE  \E fold : FoldOf(G, base, fold, n) /\ \A s \in SUBSET (1 .. n) : fold[s] \in V
<1> DEFINE Done(m) == \E fold : FoldOf(G, base, fold, m) /\ \A s \in SUBSET (1 .. m) : fold[s] \in V
           T == {m \in Nat : m <= n => Done(m)}
<1>1. 0 \in T
  <2> DEFINE none == [s \in SUBSET {} |-> base]
  <2>1. \A s \in SUBSET {} : s = {}
    OBVIOUS
  <2>2. FoldOf(G, base, none, 0) /\ \A s \in SUBSET (1 .. 0) : none[s] \in V
    <3>1. 1 .. 0 = {}
      OBVIOUS
    <3> QED
      BY <2>1, <3>1 DEF FoldOf
  <2> QED
    BY <2>2
<1>2. ASSUME NEW m \in T PROVE m + 1 \in T
  <2> SUFFICES ASSUME m + 1 <= n PROVE Done(m + 1)
    OBVIOUS
  <2>1. m \in Nat /\ m <= n /\ m + 1 \in 1 .. n
    OBVIOUS
  <2>2. PICK fold : FoldOf(G, base, fold, m) /\ \A s \in SUBSET (1 .. m) : fold[s] \in V
    BY <2>1
  <2>3. \A v \in V : G[m + 1][v] \in V
    BY <2>1
  <2> QED
    BY <2>1, <2>2, <2>3, FoldMore
<1>3. T = Nat
  <2>1. T \subseteq Nat
    OBVIOUS
  <2> HIDE DEF T
  <2> QED
    BY <1>1, <1>2, <2>1, SetInduction
<1> QED
  BY <1>3

\* Step by step, from what is known of the recursion for every set of positions.
LEMMA FoldSteps ==
  ASSUME NEW n \in Nat
  PROVE  /\ 1 .. 0 = {} /\ 1 .. 0 \in SUBSET (1 .. n)
         /\ \A k \in 1 .. n : /\ 1 .. k \in SUBSET (1 .. n) /\ 1 .. k # {}
                              /\ Max(1 .. k) = k /\ (1 .. k) \ {k} = 1 .. k - 1
<1>1. 1 .. 0 = {} /\ 1 .. 0 \in SUBSET (1 .. n)
  OBVIOUS
<1>2. ASSUME NEW k \in 1 .. n
      PROVE  k \in 1 .. k /\ (1 .. k) \ {k} = 1 .. k - 1 /\ 1 .. k \in SUBSET (1 .. n) /\ k \in Nat
  OBVIOUS
<1>3. \A k \in 1 .. n : Max(1 .. k) = k
  BY <1>2, GreatestIs
<1> QED
  BY <1>1, <1>2, <1>3

\* What every step keeps is kept along the prefixes.
LEMMA FoldStays ==
  ASSUME NEW n \in Nat, NEW V, NEW fold, fold[1 .. 0] \in V,
         \A k \in 1 .. n : fold[1 .. k - 1] \in V => fold[1 .. k] \in V
  PROVE  \A k \in 0 .. n : fold[1 .. k] \in V
<1> DEFINE T == {k \in Nat : k <= n => fold[1 .. k] \in V}
<1>1. 0 \in T /\ T \subseteq Nat
  OBVIOUS
<1>2. ASSUME NEW k \in T PROVE k + 1 \in T
  <2>1. k \in Nat
    BY <1>1
  <2>2. CASE k + 1 <= n
    <3>1. k + 1 \in 1 .. n /\ (k + 1) - 1 = k /\ k <= n
      BY <2>1, <2>2
    <3>2. fold[1 .. k] \in V
      BY <3>1
    <3> QED
      BY <2>1, <3>1, <3>2
  <2> QED
    BY <2>1, <2>2
<1>3. T = Nat
  <2> HIDE DEF T
  <2> QED
    BY <1>1, <1>2, SetInduction
<1> QED
  BY <1>3

\* Documents added one by one.
AddedAll(base, seq) == FoldLeft(Add, base, seq)
AddingFold(base, seq, fold, positions) ==
  fold = [s \in SUBSET positions |->
            IF s = {} THEN base ELSE Add(fold[s \ {Max(s)}], seq[Max(s)])]

Adds(V, seq, n) == DOMAIN seq = 1 .. n /\ \A k \in 1 .. n : \A v \in V : Add(v, seq[k]) \in V
AddsTo(V, base, seq, n, after) ==
  /\ AddedAll(base, seq) = after[n]
  /\ after[0] = base /\ \A k \in 0 .. n : after[k] \in V
  /\ \A k \in 1 .. n : after[k] = Add(after[k - 1], seq[k])

LEMMA Adding ==
  ASSUME NEW V, NEW base \in V, NEW seq, NEW n \in Nat, Adds(V, seq, n)
  PROVE  \E after : AddsTo(V, base, seq, n, after)
<1> DEFINE G == [k \in 1 .. n |-> [v \in V |-> Add(v, seq[k])]]
           iter == CHOOSE fold : AddingFold(base, seq, fold, DOMAIN seq)
           after == [k \in 0 .. n |-> iter[1 .. k]]
<1>0. DOMAIN seq = 1 .. n /\ \A k \in 1 .. n : \A v \in V : Add(v, seq[k]) \in V
  BY DEF Adds
<1> USE <1>0
<1>1. \E fold : AddingFold(base, seq, fold, DOMAIN seq)
  <2>1. PICK fold : FoldOf(G, base, fold, n) /\ \A s \in SUBSET (1 .. n) : fold[s] \in V
    <3>1. \A k \in 1 .. n : \A v \in V : G[k][v] \in V
      OBVIOUS
    <3> HIDE DEF G
    <3> QED
      BY <3>1, FoldExists
  <2>2. ASSUME NEW s \in SUBSET (1 .. n), s # {}
        PROVE  G[Max(s)][fold[s \ {Max(s)}]] = Add(fold[s \ {Max(s)}], seq[Max(s)])
    <3>1. Max(s) \in 1 .. n /\ fold[s \ {Max(s)}] \in V
      BY <2>1, <2>2, GreatestOf
    <3> QED
      BY <3>1
  <2> HIDE DEF G
  <2>3. fold = [s \in SUBSET (1 .. n) |-> IF s = {} THEN base ELSE G[Max(s)][fold[s \ {Max(s)}]]]
    BY <2>1 DEF FoldOf
  <2>4. fold = [s \in SUBSET (1 .. n) |-> IF s = {} THEN base ELSE Add(fold[s \ {Max(s)}], seq[Max(s)])]
    BY <2>2, <2>3
  <2> QED
    BY <2>4 DEF AddingFold
<1>2. AddedAll(base, seq) = iter[1 .. n]
  <2>1. AddedAll(base, seq) = iter[DOMAIN seq]
    BY DEF AddedAll, FoldLeft, MapThenFoldSet, AddingFold
  <2> QED
    BY <2>1
<1>3. \A s \in SUBSET (1 .. n) :
        iter[s] = IF s = {} THEN base ELSE Add(iter[s \ {Max(s)}], seq[Max(s)])
  BY <1>1 DEF AddingFold
<1> HIDE DEF iter, G
<1>4. iter[1 .. 0] = base
  BY <1>3, FoldSteps
<1>5. ASSUME NEW k \in 1 .. n PROVE iter[1 .. k] = Add(iter[1 .. k - 1], seq[k])
  <2>1. 1 .. k \in SUBSET (1 .. n) /\ 1 .. k # {} /\ Max(1 .. k) = k /\ (1 .. k) \ {k} = 1 .. k - 1
    BY FoldSteps
  <2> QED
    BY <1>3, <2>1
<1>6. \A k \in 0 .. n : iter[1 .. k] \in V
  <2>1. \A k \in 1 .. n : iter[1 .. k - 1] \in V => iter[1 .. k] \in V
    BY <1>5
  <2>2. iter[1 .. 0] \in V
    BY <1>4
  <2> QED
    BY <2>1, <2>2, FoldStays
<1>7. after[0] = base /\ after[n] = iter[1 .. n] /\ \A k \in 0 .. n : after[k] \in V
  BY <1>4, <1>6
<1>8. ASSUME NEW k \in 1 .. n PROVE after[k] = Add(after[k - 1], seq[k])
  <2>1. k \in 0 .. n /\ k - 1 \in 0 .. n
    OBVIOUS
  <2>2. after[k] = iter[1 .. k] /\ after[k - 1] = iter[1 .. k - 1]
    BY <2>1
  <2> HIDE DEF after
  <2> QED
    BY <1>5, <2>2
<1> QED
  BY <1>2, <1>7, <1>8 DEF AddsTo

\* Files added one by one.
AddedFiles(base, seq) == FoldLeft(AddFile, base, seq)
AddingFilesFold(base, seq, fold, positions) ==
  fold = [s \in SUBSET positions |->
            IF s = {} THEN base ELSE AddFile(fold[s \ {Max(s)}], seq[Max(s)])]

AddsFiles(V, seq, n) == DOMAIN seq = 1 .. n /\ \A k \in 1 .. n : \A v \in V : AddFile(v, seq[k]) \in V
AddsFilesTo(V, base, seq, n, after) ==
  /\ AddedFiles(base, seq) = after[n]
  /\ after[0] = base /\ \A k \in 0 .. n : after[k] \in V
  /\ \A k \in 1 .. n : after[k] = AddFile(after[k - 1], seq[k])

LEMMA AddingFiles ==
  ASSUME NEW V, NEW base \in V, NEW seq, NEW n \in Nat, AddsFiles(V, seq, n)
  PROVE  \E after : AddsFilesTo(V, base, seq, n, after)
<1> DEFINE G == [k \in 1 .. n |-> [v \in V |-> AddFile(v, seq[k])]]
           iter == CHOOSE fold : AddingFilesFold(base, seq, fold, DOMAIN seq)
           after == [k \in 0 .. n |-> iter[1 .. k]]
<1>0. DOMAIN seq = 1 .. n /\ \A k \in 1 .. n : \A v \in V : AddFile(v, seq[k]) \in V
  BY DEF AddsFiles
<1> USE <1>0
<1>1. \E fold : AddingFilesFold(base, seq, fold, DOMAIN seq)
  <2>1. PICK fold : FoldOf(G, base, fold, n) /\ \A s \in SUBSET (1 .. n) : fold[s] \in V
    <3>1. \A k \in 1 .. n : \A v \in V : G[k][v] \in V
      OBVIOUS
    <3> HIDE DEF G
    <3> QED
      BY <3>1, FoldExists
  <2>2. ASSUME NEW s \in SUBSET (1 .. n), s # {}
        PROVE  G[Max(s)][fold[s \ {Max(s)}]] = AddFile(fold[s \ {Max(s)}], seq[Max(s)])
    <3>1. Max(s) \in 1 .. n /\ fold[s \ {Max(s)}] \in V
      BY <2>1, <2>2, GreatestOf
    <3> QED
      BY <3>1
  <2> HIDE DEF G
  <2>3. fold = [s \in SUBSET (1 .. n) |-> IF s = {} THEN base ELSE G[Max(s)][fold[s \ {Max(s)}]]]
    BY <2>1 DEF FoldOf
  <2>4. fold = [s \in SUBSET (1 .. n) |-> IF s = {} THEN base ELSE AddFile(fold[s \ {Max(s)}], seq[Max(s)])]
    BY <2>2, <2>3
  <2> QED
    BY <2>4 DEF AddingFilesFold
<1>2. AddedFiles(base, seq) = iter[1 .. n]
  <2>1. AddedFiles(base, seq) = iter[DOMAIN seq]
    BY DEF AddedFiles, FoldLeft, MapThenFoldSet, AddingFilesFold
  <2> QED
    BY <2>1
<1>3. \A s \in SUBSET (1 .. n) :
        iter[s] = IF s = {} THEN base ELSE AddFile(iter[s \ {Max(s)}], seq[Max(s)])
  BY <1>1 DEF AddingFilesFold
<1> HIDE DEF iter, G
<1>4. iter[1 .. 0] = base
  BY <1>3, FoldSteps
<1>5. ASSUME NEW k \in 1 .. n PROVE iter[1 .. k] = AddFile(iter[1 .. k - 1], seq[k])
  <2>1. 1 .. k \in SUBSET (1 .. n) /\ 1 .. k # {} /\ Max(1 .. k) = k /\ (1 .. k) \ {k} = 1 .. k - 1
    BY FoldSteps
  <2> QED
    BY <1>3, <2>1
<1>6. \A k \in 0 .. n : iter[1 .. k] \in V
  <2>1. \A k \in 1 .. n : iter[1 .. k - 1] \in V => iter[1 .. k] \in V
    BY <1>5
  <2>2. iter[1 .. 0] \in V
    BY <1>4
  <2> QED
    BY <2>1, <2>2, FoldStays
<1>7. after[0] = base /\ after[n] = iter[1 .. n] /\ \A k \in 0 .. n : after[k] \in V
  BY <1>4, <1>6
<1>8. ASSUME NEW k \in 1 .. n PROVE after[k] = AddFile(after[k - 1], seq[k])
  <2>1. k \in 0 .. n /\ k - 1 \in 0 .. n
    OBVIOUS
  <2>2. after[k] = iter[1 .. k] /\ after[k - 1] = iter[1 .. k - 1]
    BY <2>1
  <2> HIDE DEF after
  <2> QED
    BY <1>5, <2>2
<1> QED
  BY <1>2, <1>7, <1>8 DEF AddsFilesTo

\* Chunks taken one by one.
TakeOne(built, d) == Taken(built, Documents[d].chars, d)
TakenAll(base, seq) == FoldLeft(LAMBDA built, d : Taken(built, Documents[d].chars, d), base, seq)
TakingFold(base, seq, fold, positions) ==
  fold = [s \in SUBSET positions |->
            IF s = {} THEN base ELSE TakeOne(fold[s \ {Max(s)}], seq[Max(s)])]

Takes(V, seq, n) == DOMAIN seq = 1 .. n /\ \A k \in 1 .. n : \A v \in V : TakeOne(v, seq[k]) \in V
TakesTo(V, base, seq, n, after) ==
  /\ TakenAll(base, seq) = after[n]
  /\ after[0] = base /\ \A k \in 0 .. n : after[k] \in V
  /\ \A k \in 1 .. n : after[k] = TakeOne(after[k - 1], seq[k])

LEMMA Taking ==
  ASSUME NEW V, NEW base \in V, NEW seq, NEW n \in Nat, Takes(V, seq, n)
  PROVE  \E after : TakesTo(V, base, seq, n, after)
<1> DEFINE G == [k \in 1 .. n |-> [v \in V |-> TakeOne(v, seq[k])]]
           iter == CHOOSE fold : TakingFold(base, seq, fold, DOMAIN seq)
           after == [k \in 0 .. n |-> iter[1 .. k]]
<1>0. DOMAIN seq = 1 .. n /\ \A k \in 1 .. n : \A v \in V : TakeOne(v, seq[k]) \in V
  BY DEF Takes
<1> USE <1>0
<1>1. \E fold : TakingFold(base, seq, fold, DOMAIN seq)
  <2>1. PICK fold : FoldOf(G, base, fold, n) /\ \A s \in SUBSET (1 .. n) : fold[s] \in V
    <3>1. \A k \in 1 .. n : \A v \in V : G[k][v] \in V
      OBVIOUS
    <3> HIDE DEF G
    <3> QED
      BY <3>1, FoldExists
  <2>2. ASSUME NEW s \in SUBSET (1 .. n), s # {}
        PROVE  G[Max(s)][fold[s \ {Max(s)}]] = TakeOne(fold[s \ {Max(s)}], seq[Max(s)])
    <3>1. Max(s) \in 1 .. n /\ fold[s \ {Max(s)}] \in V
      BY <2>1, <2>2, GreatestOf
    <3> QED
      BY <3>1
  <2> HIDE DEF G
  <2>3. fold = [s \in SUBSET (1 .. n) |-> IF s = {} THEN base ELSE G[Max(s)][fold[s \ {Max(s)}]]]
    BY <2>1 DEF FoldOf
  <2>4. fold = [s \in SUBSET (1 .. n) |-> IF s = {} THEN base ELSE TakeOne(fold[s \ {Max(s)}], seq[Max(s)])]
    BY <2>2, <2>3
  <2> QED
    BY <2>4 DEF TakingFold
<1>2. TakenAll(base, seq) = iter[1 .. n]
  <2>1. TakenAll(base, seq) = iter[DOMAIN seq]
    BY DEF TakenAll, FoldLeft, MapThenFoldSet, TakingFold, TakeOne
  <2> QED
    BY <2>1
<1>3. \A s \in SUBSET (1 .. n) :
        iter[s] = IF s = {} THEN base ELSE TakeOne(iter[s \ {Max(s)}], seq[Max(s)])
  BY <1>1 DEF TakingFold
<1> HIDE DEF iter, G
<1>4. iter[1 .. 0] = base
  BY <1>3, FoldSteps
<1>5. ASSUME NEW k \in 1 .. n PROVE iter[1 .. k] = TakeOne(iter[1 .. k - 1], seq[k])
  <2>1. 1 .. k \in SUBSET (1 .. n) /\ 1 .. k # {} /\ Max(1 .. k) = k /\ (1 .. k) \ {k} = 1 .. k - 1
    BY FoldSteps
  <2> QED
    BY <1>3, <2>1
<1>6. \A k \in 0 .. n : iter[1 .. k] \in V
  <2>1. \A k \in 1 .. n : iter[1 .. k - 1] \in V => iter[1 .. k] \in V
    BY <1>5
  <2>2. iter[1 .. 0] \in V
    BY <1>4
  <2> QED
    BY <2>1, <2>2, FoldStays
<1>7. after[0] = base /\ after[n] = iter[1 .. n] /\ \A k \in 0 .. n : after[k] \in V
  BY <1>4, <1>6
<1>8. ASSUME NEW k \in 1 .. n PROVE after[k] = TakeOne(after[k - 1], seq[k])
  <2>1. k \in 0 .. n /\ k - 1 \in 0 .. n
    OBVIOUS
  <2>2. after[k] = iter[1 .. k] /\ after[k - 1] = iter[1 .. k - 1]
    BY <2>1
  <2> HIDE DEF after
  <2> QED
    BY <1>5, <2>2
<1> QED
  BY <1>2, <1>7, <1>8 DEF TakesTo

\* The characters of chunks, added up one by one.
Chars(base, seq) == FoldLeft(AddPart, base, seq)
SummingFold(base, seq, fold, positions) ==
  fold = [s \in SUBSET positions |->
            IF s = {} THEN base ELSE AddPart(fold[s \ {Max(s)}], seq[Max(s)])]

Sums(V, seq, n) == DOMAIN seq = 1 .. n /\ \A k \in 1 .. n : \A v \in V : AddPart(v, seq[k]) \in V
SumsTo(V, base, seq, n, after) ==
  /\ Chars(base, seq) = after[n]
  /\ after[0] = base /\ \A k \in 0 .. n : after[k] \in V
  /\ \A k \in 1 .. n : after[k] = AddPart(after[k - 1], seq[k])

LEMMA Summing ==
  ASSUME NEW V, NEW base \in V, NEW seq, NEW n \in Nat, Sums(V, seq, n)
  PROVE  \E after : SumsTo(V, base, seq, n, after)
<1> DEFINE G == [k \in 1 .. n |-> [v \in V |-> AddPart(v, seq[k])]]
           iter == CHOOSE fold : SummingFold(base, seq, fold, DOMAIN seq)
           after == [k \in 0 .. n |-> iter[1 .. k]]
<1>0. DOMAIN seq = 1 .. n /\ \A k \in 1 .. n : \A v \in V : AddPart(v, seq[k]) \in V
  BY DEF Sums
<1> USE <1>0
<1>1. \E fold : SummingFold(base, seq, fold, DOMAIN seq)
  <2>1. PICK fold : FoldOf(G, base, fold, n) /\ \A s \in SUBSET (1 .. n) : fold[s] \in V
    <3>1. \A k \in 1 .. n : \A v \in V : G[k][v] \in V
      OBVIOUS
    <3> HIDE DEF G
    <3> QED
      BY <3>1, FoldExists
  <2>2. ASSUME NEW s \in SUBSET (1 .. n), s # {}
        PROVE  G[Max(s)][fold[s \ {Max(s)}]] = AddPart(fold[s \ {Max(s)}], seq[Max(s)])
    <3>1. Max(s) \in 1 .. n /\ fold[s \ {Max(s)}] \in V
      BY <2>1, <2>2, GreatestOf
    <3> QED
      BY <3>1
  <2> HIDE DEF G
  <2>3. fold = [s \in SUBSET (1 .. n) |-> IF s = {} THEN base ELSE G[Max(s)][fold[s \ {Max(s)}]]]
    BY <2>1 DEF FoldOf
  <2>4. fold = [s \in SUBSET (1 .. n) |-> IF s = {} THEN base ELSE AddPart(fold[s \ {Max(s)}], seq[Max(s)])]
    BY <2>2, <2>3
  <2> QED
    BY <2>4 DEF SummingFold
<1>2. Chars(base, seq) = iter[1 .. n]
  <2>1. Chars(base, seq) = iter[DOMAIN seq]
    BY DEF Chars, FoldLeft, MapThenFoldSet, SummingFold
  <2> QED
    BY <2>1
<1>3. \A s \in SUBSET (1 .. n) :
        iter[s] = IF s = {} THEN base ELSE AddPart(iter[s \ {Max(s)}], seq[Max(s)])
  BY <1>1 DEF SummingFold
<1> HIDE DEF iter, G
<1>4. iter[1 .. 0] = base
  BY <1>3, FoldSteps
<1>5. ASSUME NEW k \in 1 .. n PROVE iter[1 .. k] = AddPart(iter[1 .. k - 1], seq[k])
  <2>1. 1 .. k \in SUBSET (1 .. n) /\ 1 .. k # {} /\ Max(1 .. k) = k /\ (1 .. k) \ {k} = 1 .. k - 1
    BY FoldSteps
  <2> QED
    BY <1>3, <2>1
<1>6. \A k \in 0 .. n : iter[1 .. k] \in V
  <2>1. \A k \in 1 .. n : iter[1 .. k - 1] \in V => iter[1 .. k] \in V
    BY <1>5
  <2>2. iter[1 .. 0] \in V
    BY <1>4
  <2> QED
    BY <2>1, <2>2, FoldStays
<1>7. after[0] = base /\ after[n] = iter[1 .. n] /\ \A k \in 0 .. n : after[k] \in V
  BY <1>4, <1>6
<1>8. ASSUME NEW k \in 1 .. n PROVE after[k] = AddPart(after[k - 1], seq[k])
  <2>1. k \in 0 .. n /\ k - 1 \in 0 .. n
    OBVIOUS
  <2>2. after[k] = iter[1 .. k] /\ after[k - 1] = iter[1 .. k - 1]
    BY <2>1
  <2> HIDE DEF after
  <2> QED
    BY <1>5, <2>2
<1> QED
  BY <1>2, <1>7, <1>8 DEF SumsTo

----------------------------------------------------------------------------
(***************************************************************************)
(* The documents and their scores.                                         *)
(***************************************************************************)

LEMMA RangeIs ==
  ASSUME NEW s, IsSequence(s)
  PROVE  /\ Len(s) \in Nat /\ DOMAIN s = 1 .. Len(s) /\ IsFiniteSet(DOMAIN s)
         /\ \A i \in DOMAIN s : s[i] \in Range(s)
<1>1. s \in Seq(Range(s))
  BY DEF IsSequence
<1>2. Len(s) \in Nat /\ DOMAIN s = 1 .. Len(s)
  BY <1>1
<1>3. IsFiniteSet(1 .. Len(s))
  BY <1>2, FS_Interval
<1> QED
  BY <1>2, <1>3 DEF Range

\* What is named by the positions of a sequence is finite.
LEMMA NamedIsFinite ==
  ASSUME NEW D, IsFiniteSet(D), NEW f, DOMAIN f = D
  PROVE  IsFiniteSet({f[k] : k \in D})
<1> DEFINE T == {f[k] : k \in D}
           g == [k \in D |-> f[k]]
<1>1. g \in [D -> T] /\ \A t \in T : \E k \in D : g[k] = t
  OBVIOUS
<1>2. g \in Surjection(D, T)
  <2> HIDE DEF g, T
  <2> QED
    BY <1>1 DEF Surjection
<1> HIDE DEF g, T
<1>3. IsFiniteSet(T)
  BY <1>2, FS_Surjection
<1> QED
  BY <1>3 DEF T

LEMMA WordsAreFinite ==
  ASSUME NEW doc \in Texts PROVE IsFiniteSet(DOMAIN doc.keywords) /\ IsFiniteSet(WordsOf(doc))
<1> DEFINE D == DOMAIN doc.keywords
           ranges == [k \in D |-> Range(doc.keywords[k])]
           S == {ranges[k] : k \in D}
<1>1. IsSequence(doc.keywords) /\ \A keyword \in Range(doc.keywords) : IsSequence(keyword)
  BY KnowledgeAssumption DEF KnowledgeAssumption
<1>2. IsFiniteSet(D)
  BY <1>1, RangeIs
<1>3. IsFiniteSet(S)
  BY <1>2, NamedIsFinite
<1>4. ASSUME NEW k \in D PROVE IsFiniteSet(Range(doc.keywords[k]))
  <2>1. IsSequence(doc.keywords[k])
    BY <1>1, RangeIs
  <2>2. IsFiniteSet(DOMAIN doc.keywords[k])
    BY <2>1, RangeIs
  <2> QED
    BY <2>2, NamedIsFinite DEF Range
<1>5. \A T \in S : IsFiniteSet(T)
  BY <1>4
<1>6. UNION S = WordsOf(doc)
  BY DEF WordsOf
<1> HIDE DEF S
<1>7. IsFiniteSet(UNION S)
  BY <1>3, <1>5, FS_UNION
<1> QED
  BY <1>2, <1>6, <1>7

LEMMA EntriesAre == ASSUME NEW doc \in Texts, NEW mentions PROVE Entries(doc, mentions) \in Nat
<1> DEFINE K == {k \in DOMAIN doc.keywords : doc.keywords[k] \in mentions}
           W == {word \in WordsOf(doc) : <<word>> \in mentions /\ FirstWith(doc, word) # <<word>>}
<1>1. K \subseteq DOMAIN doc.keywords /\ W \subseteq WordsOf(doc)
  OBVIOUS
<1>2. Entries(doc, mentions) = Cardinality(K) + Cardinality(W)
  BY DEF Entries
<1> HIDE DEF K, W
<1>3. Cardinality(K) \in Nat /\ Cardinality(W) \in Nat
  BY <1>1, WordsAreFinite, FS_Subset, FS_CardinalityType
<1> QED
  BY <1>2, <1>3

\* What is loaded are texts of the library, in some order.
LEMMA FileAdds ==
  ASSUME NEW i \in DOMAIN Library, NEW docs \in Seq(Texts)
  PROVE  AddFile(docs, Library[i]) \in Seq(Texts)
<1> DEFINE V == Seq(Texts)
           more == Library[i].docs
<1>1. IsSequence(more)
  BY KnowledgeAssumption DEF KnowledgeAssumption
<1>2. PICK n \in Nat : DOMAIN more = 1 .. n /\ \A k \in 1 .. n : more[k] \in Range(more)
  BY <1>1, RangeIs
<1>3. Range(more) \subseteq Texts
  BY DEF Texts
<1> HIDE DEF more
<1>4. \A k \in 1 .. n : \A v \in V : Add(v, more[k]) \in V
  BY <1>2, <1>3 DEF Add
<1>5. docs \in V
  OBVIOUS
<1> HIDE DEF V
<1>6. Adds(V, more, n)
  BY <1>2, <1>4 DEF Adds
<1>7. PICK after : AddsTo(V, docs, more, n, after)
  BY <1>5, <1>6, Adding
<1>8. AddedAll(docs, more) \in V
  BY <1>7 DEF AddsTo
<1> QED
  BY <1>8 DEF AddFile, AddedAll, more, V

LEMMA DocumentsAre ==
  /\ Documents \in Seq(Texts) /\ Len(Documents) \in Nat /\ DOMAIN Documents = 1 .. Len(Documents)
  /\ \A d \in DOMAIN Documents : Documents[d] \in Texts /\ Documents[d].chars \in Nat
<1> DEFINE V == Seq(Texts)
<1>1. PICK n \in Nat : DOMAIN Library = 1 .. n
  BY KnowledgeAssumption, RangeIs DEF KnowledgeAssumption
<1>2. <<>> \in V
  OBVIOUS
<1>3. \A k \in 1 .. n : \A v \in V : AddFile(v, Library[k]) \in V
  BY <1>1, FileAdds
<1> HIDE DEF V
<1>4. AddsFiles(V, Library, n)
  BY <1>1, <1>3 DEF AddsFiles
<1>5. PICK after : AddsFilesTo(V, <<>>, Library, n, after)
  BY <1>2, <1>4, AddingFiles
<1>6. Documents \in V
  BY <1>5 DEF AddsFilesTo, Documents, load, AddedFiles
<1>7. Documents \in Seq(Texts)
  BY <1>6 DEF V
<1>8. \A doc \in Texts : doc.chars \in Nat
  BY KnowledgeAssumption DEF KnowledgeAssumption
<1> QED
  BY <1>7, <1>8

LEMMA ScoresAre ==
  ASSUME NEW q \in Questions, NEW d \in DOMAIN Documents
  PROVE  Score(Documents, About[q], d) \in Nat
<1>1. Entries(Documents[d], About[q].mentions) \in Nat
  BY DocumentsAre, EntriesAre
<1>2. About[q].similarity[Documents[d].id] \in Nat
  BY SimilarityAssumption DEF SimilarityAssumption
<1> QED
  BY <1>1, <1>2 DEF Score, KeywordBoost

----------------------------------------------------------------------------
(***************************************************************************)
(* The ranking.                                                            *)
(***************************************************************************)

IsRanking(score, found) ==
  /\ IsFiniteSet(found)
  /\ \A d \in found : d \in Nat /\ score[d] \in Nat

LEMMA BetterOrders ==
  ASSUME NEW score, NEW found, IsRanking(score, found), NEW c \in found, NEW d \in found, NEW e \in found
  PROVE  /\ ~Better(score, d, d)
         /\ Better(score, c, d) /\ Better(score, d, e) => Better(score, c, e)
         /\ d # e => Better(score, d, e) \/ Better(score, e, d)
<1>1. /\ c \in Nat /\ d \in Nat /\ e \in Nat
      /\ score[c] \in Nat /\ score[d] \in Nat /\ score[e] \in Nat
  BY DEF IsRanking
<1> QED
  BY <1>1 DEF Better

\* Those that are better than one are fewer than all, and more than those that are better
\* than one of them.
LEMMA PlaceIs ==
  ASSUME NEW score, NEW found, IsRanking(score, found), NEW d \in found
  PROVE  /\ Cardinality(found) \in Nat
         /\ Place(score, found, d) \in 1 .. Cardinality(found)
         /\ \A e \in found : Better(score, e, d) => Place(score, found, e) < Place(score, found, d)
<1> DEFINE Above(x) == {e \in found : Better(score, e, x)}
<1>1. IsFiniteSet(found)
  BY DEF IsRanking
<1>2. ASSUME NEW x \in found
      PROVE  Above(x) \subseteq found /\ x \notin Above(x)
  BY BetterOrders
<1>3. \A x \in found : Place(score, found, x) = Cardinality(Above(x)) + 1
  BY DEF Place
<1>4. ASSUME NEW e \in found, Better(score, e, d) PROVE Above(e) \subseteq Above(d) /\ e \in Above(d)
  BY <1>4, BetterOrders
<1> HIDE DEF Above
<1>5. \A x \in found : IsFiniteSet(Above(x)) /\ Cardinality(Above(x)) \in Nat
  BY <1>1, <1>2, FS_Subset, FS_CardinalityType
<1>6. Cardinality(found) \in Nat /\ Cardinality(Above(d)) < Cardinality(found)
  <2>1. Above(d) # found /\ Above(d) \in SUBSET found
    BY <1>2
  <2>2. Cardinality(Above(d)) <= Cardinality(found) /\ Cardinality(Above(d)) # Cardinality(found)
    BY <1>1, <2>1, FS_Subset
  <2>3. Cardinality(found) \in Nat
    BY <1>1, FS_CardinalityType
  <2> QED
    BY <1>5, <2>2, <2>3
<1>7. ASSUME NEW e \in found, Better(score, e, d)
      PROVE  Place(score, found, e) < Place(score, found, d)
  <2>1. Above(e) # Above(d) /\ Above(e) \in SUBSET Above(d)
    BY <1>2, <1>4, <1>7
  <2>2. Cardinality(Above(e)) <= Cardinality(Above(d)) /\ Cardinality(Above(d)) # Cardinality(Above(e))
    BY <1>5, <2>1, FS_Subset
  <2> QED
    BY <1>3, <1>5, <2>2
<1>8. Place(score, found, d) \in 1 .. Cardinality(found)
  BY <1>3, <1>5, <1>6
<1> QED
  BY <1>6, <1>7, <1>8

\* There is one document in every place.
LEMMA EveryPlace ==
  ASSUME NEW score, NEW found, IsRanking(score, found), NEW r \in 1 .. Cardinality(found)
  PROVE  \E d \in found : Place(score, found, d) = r
<1> DEFINE P == 1 .. Cardinality(found)
           f == [d \in found |-> Place(score, found, d)]
<1>1. IsFiniteSet(found) /\ Cardinality(found) \in Nat
  BY FS_CardinalityType DEF IsRanking
<1>2. IsFiniteSet(P) /\ Cardinality(P) = Cardinality(found)
  BY <1>1, FS_Interval
<1>3. \A d \in found : f[d] \in P
  BY PlaceIs
<1>4. ASSUME NEW d \in found, NEW e \in found, f[d] = f[e] PROVE d = e
  <2>1. f[d] = Place(score, found, d) /\ f[e] = Place(score, found, e)
    OBVIOUS
  <2>2. Better(score, d, e) => f[d] < f[e]
    BY <2>1, PlaceIs
  <2>3. Better(score, e, d) => f[e] < f[d]
    BY <2>1, PlaceIs
  <2>4. f[d] \in Nat /\ f[e] \in Nat
    BY <1>1, <1>3
  <2> HIDE DEF f
  <2> QED
    BY <1>4, <2>2, <2>3, <2>4, BetterOrders
<1>5. f \in Injection(found, P)
  <2>1. f \in [found -> P]
    BY <1>3
  <2> HIDE DEF f, P
  <2> QED
    BY <1>4, <2>1 DEF Injection, IsInjective
<1> HIDE DEF P
<1>6. f \in Surjection(found, P)
  <2> HIDE DEF f
  <2> QED
    BY <1>2, <1>5, FS_Injection
<1>7. r \in P
  BY DEF P
<1> HIDE DEF f
<1>8. \E d \in found : f[d] = r
  BY <1>6, <1>7 DEF Surjection
<1> QED
  BY <1>8 DEF f

\* What a retrieval delivers: documents, the best first, TopK at most.
Ranked(q, results, n) ==
  /\ n \in Nat /\ n <= TopK /\ DOMAIN results = 1 .. n
  /\ \A i \in 1 .. n : results[i] \in DOMAIN Documents
  /\ \A i \in 1 .. n, j \in 1 .. n : i < j =>
       /\ results[i] # results[j]
       /\ Score(Documents, About[q], results[i]) >= Score(Documents, About[q], results[j])
  /\ n > 0 => \A d \in DOMAIN Documents :
       Score(Documents, About[q], d) > Score(Documents, About[q], results[1])
         => Score(Documents, About[q], d) < MinScore

LEMMA RetrieveRanks ==
  ASSUME NEW q \in Questions
  PROVE  \E n : Ranked(q, retrieve(Documents, About[q]), n)
<1> DEFINE D == DOMAIN Documents
           score == [d \in D |-> Score(Documents, About[q], d)]
           found == {d \in D : score[d] >= MinScore}
           n == IF Cardinality(found) < TopK THEN Cardinality(found) ELSE TopK
           results == [r \in 1 .. n |-> CHOOSE d \in found : Place(score, found, d) = r]
<1>1. TopK \in Nat /\ MinScore \in Nat
  BY KnowledgeAssumption DEF KnowledgeAssumption
<1>2. CASE ~About[q].tokens
  <2>1. retrieve(Documents, About[q]) = <<>>
    BY <1>2 DEF retrieve
  <2>2. DOMAIN <<>> = 1 .. 0 /\ 0 \in Nat /\ 0 <= TopK
    BY <1>1
  <2>3. Ranked(q, <<>>, 0)
    BY <2>2 DEF Ranked
  <2> QED
    BY <2>1, <2>3
<1>3. CASE About[q].tokens
  <2>1. retrieve(Documents, About[q]) = results
    BY <1>3 DEF retrieve
  <2>2. IsFiniteSet(D) /\ \A d \in D : d \in Nat
    BY DocumentsAre, FS_Interval
  <2>3. \A d \in D : score[d] = Score(Documents, About[q], d) /\ score[d] \in Nat
    BY ScoresAre
  <2>4. /\ \A d \in found : d \in D /\ d \in Nat /\ score[d] \in Nat
        /\ \A d \in D : d \notin found => score[d] < MinScore
    BY <1>1, <2>2, <2>3
  <2> HIDE DEF score, D
  <2>5. IsRanking(score, found)
    <3>1. found \in SUBSET D
      OBVIOUS
    <3> HIDE DEF found
    <3> QED
      BY <2>2, <2>4, <3>1, FS_Subset DEF IsRanking
  <2> HIDE DEF found
  <2>6. n \in Nat /\ n <= TopK /\ n <= Cardinality(found) /\ Cardinality(found) \in Nat
    <3>1. Cardinality(found) \in Nat
      BY <2>5, FS_CardinalityType DEF IsRanking
    <3> QED
      BY <1>1, <3>1
  <2>7. ASSUME NEW r \in 1 .. n PROVE results[r] \in found /\ Place(score, found, results[r]) = r
    <3>1. r \in 1 .. Cardinality(found)
      BY <2>6
    <3>2. \E d \in found : Place(score, found, d) = r
      BY <2>5, <3>1, EveryPlace
    <3> QED
      BY <3>2
  <2>8. DOMAIN results = 1 .. n
    OBVIOUS
  <2> HIDE DEF results, n
  <2>9. ASSUME NEW i \in 1 .. n, NEW j \in 1 .. n, i < j
        PROVE  results[i] # results[j] /\ score[results[i]] >= score[results[j]]
    <3>1. results[i] \in found /\ results[j] \in found
      BY <2>7
    <3>2. Place(score, found, results[i]) = i /\ Place(score, found, results[j]) = j
      BY <2>7
    <3>3. i \in Nat /\ j \in Nat /\ ~(j < i) /\ i # j
      BY <2>6, <2>9
    <3>4. ~Better(score, results[j], results[i])
      BY <2>5, <3>1, <3>2, <3>3, PlaceIs
    <3>5. score[results[i]] \in Nat /\ score[results[j]] \in Nat
      BY <2>4, <3>1
    <3> QED
      BY <3>2, <3>3, <3>4, <3>5 DEF Better
  <2>10. ASSUME n > 0, NEW d \in D, score[d] > score[results[1]] PROVE score[d] < MinScore
    <3>1. 1 \in 1 .. n
      BY <2>6, <2>10
    <3>2. results[1] \in found /\ Place(score, found, results[1]) = 1
      BY <2>7, <3>1
    <3>3. Better(score, d, results[1])
      BY <2>10 DEF Better
    <3>4. d \notin found
      <4> SUFFICES ASSUME d \in found PROVE FALSE
        OBVIOUS
      <4>1. Place(score, found, d) < 1 /\ Place(score, found, d) \in 1 .. Cardinality(found)
        BY <2>5, <3>2, <3>3, PlaceIs
      <4> QED
        BY <2>6, <4>1
    <3> QED
      BY <2>4, <3>4
  <2>11. \A d \in D : score[d] = Score(Documents, About[q], d)
    BY <2>3
  <2>12. \A i \in 1 .. n : results[i] \in D
    BY <2>4, <2>7
  <2>13. n > 0 => 1 \in 1 .. n
    BY <2>6
  <2>14. Ranked(q, results, n)
    <3>1. \A i \in 1 .. n, j \in 1 .. n : i < j =>
            /\ results[i] # results[j]
            /\ Score(Documents, About[q], results[i]) >= Score(Documents, About[q], results[j])
      BY <2>9, <2>11, <2>12
    <3>2. n > 0 => \A d \in D :
            Score(Documents, About[q], d) > Score(Documents, About[q], results[1])
              => Score(Documents, About[q], d) < MinScore
      BY <2>10, <2>11, <2>12, <2>13
    <3> QED
      BY <2>6, <2>8, <2>12, <3>1, <3>2 DEF Ranked, D
  <2> QED
    BY <2>1, <2>14
<1> QED
  BY <1>2, <1>3

----------------------------------------------------------------------------
(***************************************************************************)
(* The budget.                                                             *)
(***************************************************************************)

Part == [doc : Nat, chars : Nat]

\* The characters of the parts, counted one part at a time.
Counted(parts, total) ==
  \E sum : /\ sum[0] = 0 /\ sum[Len(parts)] = total
           /\ \A k \in 1 .. Len(parts) : sum[k] = sum[k - 1] + parts[k].chars

LEMMA CountedMore ==
  ASSUME NEW parts \in Seq(Part), NEW total, Counted(parts, total), NEW part
  PROVE  Counted(Append(parts, part), total + part.chars)
<1> DEFINE n == Len(parts)
           more == Append(parts, part)
<1>1. n \in Nat /\ Len(more) = n + 1 /\ more[n + 1] = part /\ \A k \in 1 .. n : more[k] = parts[k]
  OBVIOUS
<1>2. PICK sum : /\ sum[0] = 0 /\ sum[n] = total
                 /\ \A k \in 1 .. n : sum[k] = sum[k - 1] + parts[k].chars
  BY DEF Counted
<1> HIDE DEF n, more
<1> DEFINE longer == [k \in 0 .. n + 1 |-> IF k = n + 1 THEN total + part.chars ELSE sum[k]]
<1>3. longer[0] = 0 /\ longer[n + 1] = total + part.chars
  BY <1>1, <1>2
<1>4. ASSUME NEW k \in 1 .. n + 1 PROVE longer[k] = longer[k - 1] + more[k].chars
  <2>1. k \in 0 .. n + 1 /\ k - 1 \in 0 .. n + 1 /\ k - 1 # n + 1
    BY <1>1
  <2>2. longer[k - 1] = sum[k - 1] /\ longer[k] = IF k = n + 1 THEN total + part.chars ELSE sum[k]
    BY <2>1
  <2> HIDE DEF longer
  <2>3. CASE k = n + 1
    <3>1. k - 1 = n
      BY <1>1, <2>3
    <3> QED
      BY <1>1, <1>2, <2>2, <2>3, <3>1
  <2>4. CASE k # n + 1
    <3>1. k \in 1 .. n
      BY <1>1, <2>4
    <3> QED
      BY <1>1, <1>2, <2>2, <2>4, <3>1
  <2> QED
    BY <2>3, <2>4
<1> HIDE DEF longer
<1>5. Counted(more, total + part.chars)
  BY <1>1, <1>3, <1>4 DEF Counted
<1> QED
  BY <1>5 DEF more

\* There is one way to count them, that of the sum.
LEMMA CountedIs ==
  ASSUME NEW parts \in Seq(Part), NEW total, Counted(parts, total)
  PROVE  Chars(0, parts) = total
<1>1. PICK n \in Nat : n = Len(parts) /\ DOMAIN parts = 1 .. n
  OBVIOUS
<1>2. ASSUME NEW k \in 1 .. n, NEW v \in Nat PROVE AddPart(v, parts[k]) \in Nat
  <2>1. parts[k] \in Part
    BY <1>1
  <2> QED
    BY <2>1 DEF Part, AddPart
<1>3. PICK sum : /\ sum[0] = 0 /\ sum[n] = total
                 /\ \A k \in 1 .. n : sum[k] = sum[k - 1] + parts[k].chars
  BY <1>1 DEF Counted
<1> DEFINE V == Nat
<1>4. PICK zero \in V : zero = 0
  OBVIOUS
<1>5. PICK after : /\ Chars(zero, parts) = after[n] /\ after[0] = zero
                   /\ \A k \in 1 .. n : after[k] = AddPart(after[k - 1], parts[k])
  <2>1. Sums(V, parts, n)
    BY <1>1, <1>2 DEF Sums
  <2> HIDE DEF V
  <2>2. PICK after : SumsTo(V, zero, parts, n, after)
    BY <2>1, Summing
  <2> QED
    BY <2>2 DEF SumsTo
<1> DEFINE T == {k \in Nat : k <= n => after[k] = sum[k]}
<1>6. 0 \in T /\ T \subseteq Nat
  BY <1>3, <1>4, <1>5
<1>7. ASSUME NEW k \in T PROVE k + 1 \in T
  <2>1. k \in Nat
    BY <1>6
  <2>2. CASE k + 1 <= n
    <3>1. k + 1 \in 1 .. n /\ (k + 1) - 1 = k /\ k <= n
      BY <2>1, <2>2
    <3>2. after[k] = sum[k]
      BY <3>1
    <3>3. after[k + 1] = sum[k + 1]
      BY <1>3, <1>5, <3>1, <3>2 DEF AddPart
    <3> QED
      BY <2>1, <3>3
  <2> QED
    BY <2>1, <2>2
<1>8. T = Nat
  <2> HIDE DEF T
  <2> QED
    BY <1>6, <1>7, SetInduction
<1>9. after[n] = sum[n]
  BY <1>8
<1> QED
  BY <1>3, <1>4, <1>5, <1>9

\* What is built of the first k results: all of them, whole, or fewer of them, the last cut.
Built(b, results, k) ==
  /\ b = [parts |-> b.parts, used |-> b.used, full |-> b.full]
  /\ b.parts \in Seq(Part) /\ Len(b.parts) <= k
  /\ \A i \in 1 .. Len(b.parts) : b.parts[i].doc = results[i]
  /\ \E total \in Nat : /\ Counted(b.parts, total)
                        /\ total <= MaxContextChars + Ellipsis
                        /\ b.full = FALSE =>
                             total = b.used /\ b.used <= MaxContextChars /\ Len(b.parts) = k

LEMMA OneTaken ==
  ASSUME NEW b, NEW results, NEW k \in Nat, Built(b, results, k), b.full \in BOOLEAN,
         NEW d \in Nat, NEW chars \in Nat, results[k + 1] = d
  PROVE  Built(Taken(b, chars, d), results, k + 1) /\ Taken(b, chars, d).full \in BOOLEAN
<1> DEFINE left == MaxContextChars - b.used
           whole == [doc |-> d, chars |-> chars]
           cut == [doc |-> d, chars |-> left + Ellipsis]
<1>1. PICK total \in Nat : /\ Counted(b.parts, total)
                           /\ total <= MaxContextChars + Ellipsis
                           /\ b.full = FALSE =>
                                total = b.used /\ b.used <= MaxContextChars /\ Len(b.parts) = k
  BY DEF Built
<1>2. /\ b = [parts |-> b.parts, used |-> b.used, full |-> b.full]
      /\ b.parts \in Seq(Part) /\ Len(b.parts) <= k
      /\ \A i \in 1 .. Len(b.parts) : b.parts[i].doc = results[i]
  BY DEF Built
<1>3. MaxContextChars \in Nat /\ MinRemainder \in Nat /\ Ellipsis = 3
  BY KnowledgeAssumption DEF KnowledgeAssumption, Ellipsis
<1>4. Len(b.parts) \in Nat
  BY <1>2
<1>5. ASSUME NEW part \in Part, part.doc = d, Len(b.parts) = k
      PROVE  /\ Append(b.parts, part) \in Seq(Part) /\ Len(Append(b.parts, part)) = k + 1
             /\ \A i \in 1 .. Len(Append(b.parts, part)) : Append(b.parts, part)[i].doc = results[i]
             /\ Counted(Append(b.parts, part), total + part.chars)
  <2>1. Append(b.parts, part) \in Seq(Part) /\ Len(Append(b.parts, part)) = k + 1
    BY <1>2, <1>5
  <2>2. ASSUME NEW i \in 1 .. k + 1 PROVE Append(b.parts, part)[i].doc = results[i]
    <3>1. CASE i = k + 1
      <4>1. Append(b.parts, part)[k + 1] = part
        BY <1>2, <1>5
      <4> QED
        BY <1>5, <3>1, <4>1
    <3>2. CASE i # k + 1
      <4>1. i \in 1 .. Len(b.parts)
        BY <1>5, <3>2
      <4>2. Append(b.parts, part)[i] = b.parts[i]
        BY <1>2, <4>1
      <4> QED
        BY <1>2, <4>1, <4>2
    <3> QED
      BY <3>1, <3>2
  <2>3. Counted(Append(b.parts, part), total + part.chars)
    BY <1>1, <1>2, CountedMore
  <2> QED
    BY <2>1, <2>2, <2>3
<1>6. CASE b.full
  <2>1. Taken(b, chars, d) = b
    BY <1>6 DEF Taken
  <2>2. Built(b, results, k + 1)
    <3>1. Len(b.parts) <= k + 1
      BY <1>2, <1>4
    <3>2. ~(b.full = FALSE)
      BY <1>6
    <3> QED
      BY <1>1, <1>2, <3>1, <3>2 DEF Built
  <2> QED
    BY <2>1, <2>2
<1>7. CASE ~b.full
  <2>1. total = b.used /\ b.used <= MaxContextChars /\ Len(b.parts) = k /\ left \in Nat /\ b.full = FALSE
    BY <1>1, <1>3, <1>7
  <2>2. CASE chars <= left
    <3> DEFINE q == [parts |-> Append(b.parts, whole), used |-> b.used + chars, full |-> FALSE]
    <3>1. Taken(b, chars, d) = q
      BY <1>2, <1>7, <2>1, <2>2 DEF Taken
    <3>2. whole \in Part /\ whole.doc = d /\ whole.chars = chars
      BY DEF Part
    <3>3. total + chars \in Nat /\ total + chars = b.used + chars /\ b.used + chars <= MaxContextChars
          /\ total + chars <= MaxContextChars + Ellipsis
      BY <1>3, <2>1, <2>2
    <3> HIDE DEF whole, left
    <3>4. /\ q.parts \in Seq(Part) /\ Len(q.parts) = k + 1
          /\ \A i \in 1 .. Len(q.parts) : q.parts[i].doc = results[i]
          /\ Counted(q.parts, total + chars)
      BY <1>5, <2>1, <3>2
    <3>5. q = [parts |-> q.parts, used |-> q.used, full |-> q.full] /\ q.used = b.used + chars /\ q.full = FALSE
      OBVIOUS
    <3> HIDE DEF q
    <3>6. Built(q, results, k + 1)
      <4>1. Len(q.parts) <= k + 1
        BY <3>4
      <4> QED
        BY <3>3, <3>4, <3>5, <4>1 DEF Built
    <3> QED
      BY <3>1, <3>5, <3>6
  <2>3. CASE ~(chars <= left) /\ left > MinRemainder
    <3> DEFINE q == [parts |-> Append(b.parts, cut), used |-> b.used, full |-> TRUE]
    <3>1. Taken(b, chars, d) = q
      BY <1>2, <1>7, <2>1, <2>3 DEF Taken
    <3>2. cut \in Part /\ cut.doc = d /\ cut.chars = left + Ellipsis
      BY <1>3, <2>1 DEF Part
    <3>3. total + (left + Ellipsis) \in Nat /\ total + (left + Ellipsis) <= MaxContextChars + Ellipsis
      BY <1>3, <2>1
    <3> HIDE DEF cut, left
    <3>4. /\ q.parts \in Seq(Part) /\ Len(q.parts) = k + 1
          /\ \A i \in 1 .. Len(q.parts) : q.parts[i].doc = results[i]
          /\ Counted(q.parts, total + (left + Ellipsis))
      BY <1>5, <2>1, <3>2
    <3>5. q = [parts |-> q.parts, used |-> q.used, full |-> q.full] /\ q.full = TRUE
      OBVIOUS
    <3> HIDE DEF q
    <3>6. Built(q, results, k + 1)
      <4>1. Len(q.parts) <= k + 1 /\ ~(q.full = FALSE)
        BY <3>4, <3>5
      <4> QED
        BY <3>3, <3>4, <3>5, <4>1 DEF Built
    <3> QED
      BY <3>1, <3>5, <3>6
  <2>4. CASE ~(chars <= left) /\ ~(left > MinRemainder)
    <3> DEFINE q == [parts |-> b.parts, used |-> b.used, full |-> TRUE]
    <3>1. Taken(b, chars, d) = q
      BY <1>2, <1>7, <2>1, <2>4 DEF Taken
    <3>2. q = [parts |-> q.parts, used |-> q.used, full |-> q.full] /\ q.full = TRUE /\ q.parts = b.parts
      OBVIOUS
    <3> HIDE DEF q
    <3>3. Built(q, results, k + 1)
      <4>1. Len(q.parts) <= k + 1 /\ ~(q.full = FALSE)
        BY <1>2, <1>4, <3>2
      <4> QED
        BY <1>1, <1>2, <3>2, <4>1 DEF Built
    <3> QED
      BY <3>1, <3>2, <3>3
  <2> QED
    BY <2>2, <2>3, <2>4
<1> QED
  BY <1>6, <1>7

LEMMA TakenType ==
  ASSUME NEW b \in [parts : Seq(Part), used : Nat, full : BOOLEAN], NEW d \in Nat, NEW chars \in Nat
  PROVE  Taken(b, chars, d) \in [parts : Seq(Part), used : Nat, full : BOOLEAN]
<1> DEFINE left == MaxContextChars - b.used
           whole == [doc |-> d, chars |-> chars]
           cut == [doc |-> d, chars |-> left + Ellipsis]
<1>1. MaxContextChars \in Nat /\ MinRemainder \in Nat /\ Ellipsis = 3 /\ b.used \in Nat
  BY KnowledgeAssumption DEF KnowledgeAssumption, Ellipsis
<1>2. left \in Int /\ b.used + chars \in Nat /\ (left > MinRemainder => left + Ellipsis \in Nat)
  BY <1>1
<1>3. whole \in Part /\ (left > MinRemainder => cut \in Part)
  BY <1>2 DEF Part
<1> HIDE DEF left, whole, cut
<1>4. CASE b.full
  BY <1>4 DEF Taken
<1>5. CASE ~b.full /\ chars <= left
  <2>1. Taken(b, chars, d) = [b EXCEPT !.parts = Append(@, whole), !.used = @ + chars]
    BY <1>5 DEF Taken, left, whole
  <2>2. Append(b.parts, whole) \in Seq(Part)
    BY <1>3
  <2> QED
    BY <1>2, <2>1, <2>2
<1>6. CASE ~b.full /\ ~(chars <= left) /\ left > MinRemainder
  <2>1. Taken(b, chars, d) = [b EXCEPT !.full = TRUE, !.parts = Append(@, cut)]
    BY <1>6 DEF Taken, left, cut
  <2>2. Append(b.parts, cut) \in Seq(Part)
    BY <1>3, <1>6
  <2> QED
    BY <2>1, <2>2
<1>7. CASE ~b.full /\ ~(chars <= left) /\ ~(left > MinRemainder)
  <2>1. Taken(b, chars, d) = [b EXCEPT !.full = TRUE, !.parts = @]
    BY <1>7 DEF Taken, left
  <2> QED
    BY <2>1
<1> QED
  BY <1>4, <1>5, <1>6, <1>7

\* What ContextWithinBudget says of one question.
WithinBudget(q, parts) ==
  /\ Len(parts) <= TopK
  /\ FoldLeft(AddPart, 0, parts) <= MaxContextChars + Ellipsis
  /\ \A i, j \in 1 .. Len(parts) : i < j =>
       /\ parts[i].doc # parts[j].doc
       /\ Score(Documents, About[q], parts[i].doc) >= Score(Documents, About[q], parts[j].doc)
  /\ parts # <<>> => \A d \in DOMAIN Documents :
       Score(Documents, About[q], d) > Score(Documents, About[q], parts[1].doc)
         => Score(Documents, About[q], d) < MinScore

LEMMA EmptyWithinBudget == ASSUME NEW q PROVE WithinBudget(q, <<>>)
<1>1. Counted(<<>>, 0)
  <2> DEFINE sum == [k \in {0} |-> 0]
  <2>1. sum[0] = 0 /\ Len(<<>>) = 0 /\ 1 .. 0 = {}
    OBVIOUS
  <2> HIDE DEF sum
  <2> QED
    BY <2>1 DEF Counted
<1>2. <<>> \in Seq(Part) /\ Len(<<>>) = 0 /\ 1 .. 0 = {}
  OBVIOUS
<1>3. FoldLeft(AddPart, 0, <<>>) = 0
  BY <1>1, <1>2, CountedIs DEF Chars
<1>4. TopK \in Nat /\ MaxContextChars \in Nat /\ Ellipsis = 3
  BY KnowledgeAssumption DEF KnowledgeAssumption, Ellipsis
<1> QED
  BY <1>2, <1>3, <1>4 DEF WithinBudget

LEMMA KnowledgeWithinBudget == ASSUME NEW q \in Questions PROVE WithinBudget(q, Knowledge[q])
<1>0. PICK results : results = retrieve(Documents, About[q])
  OBVIOUS
<1> DEFINE V == [parts : Seq(Part), used : Nat, full : BOOLEAN]
<1>1. PICK n \in Nat : Ranked(q, results, n)
  <2>1. \A n : Ranked(q, results, n) => n \in Nat
    BY DEF Ranked
  <2> QED
    BY <1>0, <2>1, RetrieveRanks
<1>2. /\ n \in Nat /\ n <= TopK /\ DOMAIN results = 1 .. n
      /\ \A i \in 1 .. n : results[i] \in DOMAIN Documents
  BY <1>1 DEF Ranked
<1>3. \A i \in 1 .. n : results[i] \in Nat /\ Documents[results[i]].chars \in Nat
  BY <1>2, DocumentsAre
<1>4. Unused \in V
  BY DEF Unused
<1>5. ASSUME NEW k \in 1 .. n, NEW v \in V
      PROVE  TakeOne(v, results[k]) \in V
  BY <1>3, TakenType DEF TakeOne
<1>6. Takes(V, results, n)
  BY <1>2, <1>5 DEF Takes
<1>7. PICK after : TakesTo(V, Unused, results, n, after)
  <2> HIDE DEF V
  <2> QED
    BY <1>4, <1>6, Taking
<1>a. /\ TakenAll(Unused, results) = after[n]
      /\ after[0] = Unused /\ \A k \in 0 .. n : after[k] \in V
      /\ \A k \in 1 .. n : after[k] = TakeOne(after[k - 1], results[k])
  <2> HIDE DEF V
  <2> QED
    BY <1>7 DEF TakesTo
<1>8. Built(Unused, results, 0)
  <2>1. Counted(<<>>, 0)
    <3> DEFINE sum == [k \in {0} |-> 0]
    <3>1. sum[0] = 0 /\ Len(<<>>) = 0 /\ 1 .. 0 = {}
      OBVIOUS
    <3> HIDE DEF sum
    <3> QED
      BY <3>1 DEF Counted
  <2>2. MaxContextChars \in Nat /\ Ellipsis = 3
    BY KnowledgeAssumption DEF KnowledgeAssumption, Ellipsis
  <2>3. /\ Unused = [parts |-> Unused.parts, used |-> Unused.used, full |-> Unused.full]
        /\ Unused.parts = <<>> /\ Unused.used = 0 /\ Unused.full = FALSE
    BY DEF Unused
  <2>4. <<>> \in Seq(Part) /\ Len(<<>>) = 0 /\ 1 .. 0 = {}
    OBVIOUS
  <2> QED
    BY <2>1, <2>2, <2>3, <2>4 DEF Built
<1> DEFINE T == {k \in Nat : k <= n => Built(after[k], results, k)}
<1>9. 0 \in T /\ T \subseteq Nat
  BY <1>a, <1>8
<1>10. ASSUME NEW k \in T PROVE k + 1 \in T
  <2>1. k \in Nat
    BY <1>9
  <2>2. CASE k + 1 <= n
    <3>1. k + 1 \in 1 .. n /\ (k + 1) - 1 = k /\ k <= n /\ k \in 0 .. n
      BY <1>2, <2>1, <2>2
    <3>2. Built(after[k], results, k) /\ after[k].full \in BOOLEAN
      BY <1>a, <3>1
    <3>3. after[k + 1] = Taken(after[k], Documents[results[k + 1]].chars, results[k + 1])
      BY <1>a, <3>1 DEF TakeOne
    <3>4. results[k + 1] \in Nat /\ Documents[results[k + 1]].chars \in Nat
      BY <1>3, <3>1
    <3>5. Built(after[k + 1], results, k + 1)
      <4> DEFINE d == results[k + 1]
                 chars == Documents[d].chars
      <4>1. d \in Nat /\ chars \in Nat /\ results[k + 1] = d /\ after[k + 1] = Taken(after[k], chars, d)
        BY <3>3, <3>4
      <4> HIDE DEF d, chars
      <4> QED
        BY <2>1, <3>2, <4>1, OneTaken
    <3> QED
      BY <2>1, <3>5
  <2> QED
    BY <2>1, <2>2
<1>11. T = Nat
  <2> HIDE DEF T
  <2> QED
    BY <1>9, <1>10, SetInduction
<1>12. Built(after[n], results, n) /\ after[n] \in V
  BY <1>2, <1>a, <1>11
<1>13. Knowledge[q] = after[n].parts
  <2>1. Knowledge[q] = build_context(Documents, About[q])
    BY DEF Knowledge
  <2>2. build_context(Documents, About[q]) = TakenAll(Unused, results).parts
    BY <1>0 DEF build_context, TakenAll
  <2> QED
    BY <1>a, <2>1, <2>2
<1> DEFINE parts == Knowledge[q]
<1>14. /\ parts \in Seq(Part) /\ Len(parts) <= n
       /\ \A i \in 1 .. Len(parts) : parts[i].doc = results[i]
       /\ \E total \in Nat : Counted(parts, total) /\ total <= MaxContextChars + Ellipsis
  BY <1>12, <1>13 DEF Built
<1> HIDE DEF parts
<1>15. Len(parts) \in Nat /\ Len(parts) <= TopK /\ 1 .. Len(parts) \subseteq 1 .. n
  <2>1. Len(parts) \in Nat
    BY <1>14
  <2>2. TopK \in Nat
    BY KnowledgeAssumption DEF KnowledgeAssumption
  <2> QED
    BY <1>2, <1>14, <2>1, <2>2
<1>16. FoldLeft(AddPart, 0, parts) <= MaxContextChars + Ellipsis
  <2>1. PICK total \in Nat : Counted(parts, total) /\ total <= MaxContextChars + Ellipsis
    BY <1>14
  <2>2. Chars(0, parts) = total
    BY <1>14, <2>1, CountedIs
  <2> QED
    BY <2>1, <2>2 DEF Chars
<1>17. ASSUME NEW i \in 1 .. Len(parts), NEW j \in 1 .. Len(parts), i < j
       PROVE  /\ parts[i].doc # parts[j].doc
              /\ Score(Documents, About[q], parts[i].doc) >= Score(Documents, About[q], parts[j].doc)
  <2>1. i \in 1 .. n /\ j \in 1 .. n
    BY <1>15
  <2>2. parts[i].doc = results[i] /\ parts[j].doc = results[j]
    BY <1>14
  <2> QED
    BY <1>1, <1>17, <2>1, <2>2 DEF Ranked
<1>18. ASSUME parts # <<>>, NEW d \in DOMAIN Documents,
              Score(Documents, About[q], d) > Score(Documents, About[q], parts[1].doc)
       PROVE  Score(Documents, About[q], d) < MinScore
  <2>1. 1 \in 1 .. Len(parts) /\ n > 0
    <3>1. Len(parts) # 0
      BY <1>14, <1>18
    <3> QED
      BY <1>2, <1>14, <1>15, <3>1
  <2>2. parts[1].doc = results[1]
    BY <1>14, <2>1
  <2> QED
    BY <1>1, <1>18, <2>1, <2>2 DEF Ranked
<1> QED
  BY <1>15, <1>16, <1>17, <1>18 DEF WithinBudget, parts

----------------------------------------------------------------------------
\* The knowledge of a context is what the retriever has for its question.
Informed(c) ==
  job[c].context.parts # <<>> =>
    job[c].question \in Questions /\ job[c].context.parts = Knowledge[job[c].question]

AllInformed == \A c \in Threads : Informed(c)
BudgetInv == MemoryInv /\ AllInformed

LEMMA IdleContext == Idle.context.parts = <<>>
<1>1. Idle.context = NoContext
  BY Zenon DEF Idle
<1>2. NoContext.parts = <<>>
  BY DEF NoContext
<1> QED
  BY <1>1, <1>2

\* A step keeps question and context of every job that it does not end.
LEMMA SameInformed ==
  ASSUME NEW d \in Threads, Informed(d), job'[d] = job[d] \/ job'[d] = Idle \/ Alike(d, job'[d])
  PROVE  Informed(d)'
<1>1. CASE job'[d] = Idle
  BY <1>1, IdleContext DEF Informed
<1>2. CASE job'[d] = job[d] \/ Alike(d, job'[d])
  BY <1>2 DEF Alike, Informed
<1> QED
  BY <1>1, <1>2

LEMMA WorkInformed == ASSUME BudgetInv, NEW c \in Callers, Work(c) PROVE AllInformed'
<1>1. ModelInv /\ Fields /\ LockInv
  BY DEF BudgetInv, MemoryInv, ModelInv
<1>2. \A d \in Threads : d # c => job'[d] = job[d]
  BY <1>1, WorkStep DEF Moves, LockInv, Threads
<1>3. Alike(c, job'[c])
  <2>1. CASE Store(c)
    <3> DEFINE reply == [To(c, "reply") EXCEPT !.ok = TRUE]
    <3>1. Alike(c, reply)
      BY <1>1, Same DEF Fields, Alike
    <3>2. Go(c, To(c, "done")) \/ Go(c, reply)
      BY <2>1 DEF Store
    <3> HIDE DEF reply
    <3> QED
      BY <1>1, <3>1, <3>2, Gone, Same
  <2>2. CASE ~Store(c)
    <3>1. Keeps(c)
      BY <1>1, <2>2, InferenceKeeps, ToolKeeps, StreamKeeps, Zenon DEF Work
    <3> QED
      BY <3>1 DEF Keeps
  <2> QED
    BY <2>1, <2>2
<1>4. ASSUME NEW d \in Threads PROVE Informed(d)'
  <2>1. Informed(d)
    BY DEF BudgetInv, AllInformed
  <2> QED
    BY <1>2, <1>3, <2>1, SameInformed
<1> QED
  BY <1>4 DEF AllInformed

LEMMA AcquireInformed == ASSUME BudgetInv, NEW c \in Threads, Acquire(c) PROVE AllInformed'
<1> DEFINE s == conn[c].session
           q == conn[c].question
           session == WithContext(get_or_create_session(s), NoPlace)
           context == build_context_string(session, q)
           new == [To(c, "query") EXCEPT !.mode = conn[c].mode, !.question = q, !.session = s,
                                         !.context = context, !.target = Classified(q)]
<1> c \in Callers
  BY DEF Threads
<1>1. ModelInv /\ Fields /\ LockInv
  BY DEF BudgetInv, MemoryInv, ModelInv
<1>2. q \in Questions
  BY DEF BudgetInv, MemoryInv, Pending, Acquire
<1>3. Go(c, new)
  BY DEF Acquire, Process
<1>4. new.question = q /\ new.context = context
  BY <1>1, Labels DEF Fields
<1>5. context.parts = Knowledge[q]
  BY DEF build_context_string
<1> HIDE DEF new, context, session
<1>6. job'[c] = new /\ \A d \in Threads : d # c => job'[d] = job[d]
  BY <1>1, <1>3, Gone DEF Threads
<1>7. Informed(c)'
  BY <1>2, <1>4, <1>5, <1>6 DEF Informed
<1>8. ASSUME NEW d \in Threads PROVE Informed(d)'
  BY <1>6, <1>7, SameInformed DEF BudgetInv, AllInformed
<1> QED
  BY <1>8 DEF AllInformed

\* A step that moves no connection's job but to end it.
LEMMA EndingInformed ==
  ASSUME BudgetInv, \A d \in Threads : job'[d] = job[d] \/ job'[d] = Idle
  PROVE  AllInformed'
BY SameInformed DEF BudgetInv, AllInformed

LEMMA MainInformed == ASSUME BudgetInv, MainThread \/ Close \/ Tick PROVE AllInformed'
<1> USE ServerAssumption
<1>1. ModelInv /\ LockInv
  BY DEF BudgetInv, MemoryInv, ModelInv
<1>2. CASE load_engine
  <2>1. UNCHANGED job \/ \E new : Go(Main, new)
    BY <1>2 DEF load_engine
  <2>2. \A d \in Threads : job'[d] = job[d]
    BY <1>1, <2>1, Gone DEF Threads
  <2> QED
    BY <2>2, EndingInformed
<1>3. CASE server = "warmup" /\ Work(Main)
  BY <1>3, WorkInformed
<1>4. CASE Serve
  <2>1. Go(Main, Idle)
    BY <1>4 DEF Serve, Go
  <2>2. \A d \in Threads : job'[d] = job[d]
    BY <1>1, <2>1, Gone DEF Threads
  <2> QED
    BY <2>2, EndingInformed
<1>5. CASE Exit
  BY <1>5, EndingInformed DEF Exit, Threads
<1>6. CASE Close \/ Tick
  BY <1>6, EndingInformed DEF Close, Tick
<1> QED
  BY <1>2, <1>3, <1>4, <1>5, <1>6 DEF MainThread

LEMMA ConnectionInformed ==
  ASSUME BudgetInv, NEW c \in Threads,
         Asks(c) \/ Step(c) \/ Client(c)
  PROVE  AllInformed'
<1> c \in Callers
  BY DEF Threads
<1>1. ModelInv /\ LockInv /\ Fields
  BY DEF BudgetInv, MemoryInv, ModelInv
<1>2. CASE Acquire(c)
  BY <1>2, AcquireInformed
<1>3. CASE Work(c)
  BY <1>3, WorkInformed
<1>4. CASE Send(c)
  <2> DEFINE new == [job[c] EXCEPT !.event = "none"]
  <2>1. Go(c, new)
    BY <1>4 DEF Send
  <2>2. Alike(c, new)
    BY <1>1 DEF Fields, Alike
  <2> HIDE DEF new
  <2>3. job'[c] = new /\ \A d \in Threads : d # c => job'[d] = job[d]
    BY <1>1, <2>1, Gone DEF Threads
  <2>4. ASSUME NEW d \in Threads PROVE Informed(d)'
    BY <2>2, <2>3, SameInformed DEF BudgetInv, AllInformed
  <2> QED
    BY <2>4 DEF AllInformed
<1>5. CASE Disconnected(c) \/ Finish(c) \/ Broken(c)
  <2>1. Go(c, Idle)
    BY <1>5 DEF Disconnected, Finish, Broken, Release, Go
  <2>2. \A d \in Threads : job'[d] = job[d] \/ job'[d] = Idle
    BY <1>1, <2>1, Gone DEF Threads
  <2> QED
    BY <2>2, EndingInformed
<1>6. CASE Asks(c) \/ Check(c) \/ SendError(c) \/ Hangup(c) \/ Client(c)
  <2>1. UNCHANGED job
    BY <1>6 DEF Asks, Connect, Body, Check, SendError, Hangup, Client
  <2> QED
    BY <2>1, EndingInformed
<1> QED
  BY <1>2, <1>3, <1>4, <1>5, <1>6 DEF Step

LEMMA BudgetStep == ASSUME BudgetInv, [Next]_vars PROVE BudgetInv'
<1>0. MemoryInv'
  BY MemoryStep DEF BudgetInv
<1>1. CASE UNCHANGED vars
  BY <1>0, <1>1, EndingInformed DEF vars, BudgetInv
<1>2. CASE MainThread \/ Close \/ Tick
  BY <1>0, <1>2, MainInformed DEF BudgetInv
<1>3. ASSUME NEW c \in Threads,
             Asks(c) \/ Step(c) \/ Client(c)
      PROVE  BudgetInv'
  BY <1>0, <1>3, ConnectionInformed DEF BudgetInv
<1> QED
  BY <1>1, <1>2, <1>3 DEF Next

\* The knowledge in the context of a question fits its budget, and is the best there is: each
\* document once, the better ones first, and none left out that scores more than the first
\* (retrieve and build_context in rag_retriever.py, for every library and every question).
THEOREM ContextStaysInBudget == Spec => []ContextWithinBudget
<1>1. Init => BudgetInv
  <2> SUFFICES ASSUME Init PROVE BudgetInv
    OBVIOUS
  <2>1. \A c \in Threads : job[c].context.parts = <<>>
    BY IdleContext DEF Init, Threads
  <2> QED
    BY <2>1, MemoryStarts DEF BudgetInv, AllInformed, Informed
<1>2. BudgetInv => ContextWithinBudget
  <2> SUFFICES ASSUME BudgetInv, NEW c \in Threads
               PROVE  WithinBudget(job[c].question, job[c].context.parts)
    BY DEF ContextWithinBudget, WithinBudget
  <2>1. CASE job[c].context.parts = <<>>
    BY <2>1, EmptyWithinBudget
  <2>2. CASE job[c].context.parts # <<>>
    <3>1. job[c].question \in Questions /\ job[c].context.parts = Knowledge[job[c].question]
      BY <2>2 DEF BudgetInv, AllInformed, Informed
    <3> QED
      BY <3>1, KnowledgeWithinBudget
  <2> QED
    BY <2>1, <2>2
<1> QED
  BY <1>1, BudgetStep, <1>2, PTL DEF Spec
=============================================================================
