----------------------- MODULE AssistantNodes_proofs -----------------------
(***************************************************************************)
(* Proofs about AssistantNodes for every timeout, queue, history and set   *)
(* of questions, sessions, places, adapters and files.                     *)
(***************************************************************************)
EXTENDS AssistantNodes, TLAPS

\* Between two callbacks the node has no job.
RestInv ==
  /\ doing \in {"start", "none"} => job[Node] = Idle
  /\ job = [c \in Callers |-> job[c]]
  /\ queue \in Seq(Messages)

LEMMA NodeIs == Node \in Callers
BY NodeAssumption DEF Node

LEMMA IdleIs ==
  /\ Idle.pc = "idle" /\ Idle.context.recent = <<>> /\ Idle.context.place = NoPlace
BY DEF Idle, NoContext

LEMMA IdleContext ==
  /\ Idle.context = NoContext
  /\ DOMAIN Idle = {"pc", "mode", "question", "session", "context", "target", "round",
                    "result", "streaming", "answer", "ok", "event"}
BY Zenon DEF Idle

LEMMA Gone == ASSUME RestInv, NEW new, Go(Node, new) PROVE job'[Node] = new /\ job' = [c \in Callers |-> job'[c]]
BY NodeIs DEF Go, RestInv

LEMMA WorkBusy == ASSUME Work PROVE job[Node] # Idle /\ UNCHANGED node
<1>1. job[Node].pc # "idle"
  BY DEF Work, At, Refuse, Route, Unload, Load, Infer, InferFails, ExecuteTool, ParseRaises, Settle, Store
<1> QED
  BY <1>1, IdleIs DEF Work

LEMMA WorkMoves == ASSUME RestInv, Work PROVE job' = [c \in Callers |-> job'[c]]
<1>1. \E new : Go(Node, new)
  BY DEF Work, Refuse, Route, Unload, Load, Infer, InferFails, ExecuteTool, ParseRaises, Settle, Store
<1> QED
  BY <1>1, Gone

-----------------------------------------------------------------------------
(***************************************************************************)
(* The node rests between callbacks.                                       *)
(***************************************************************************)

LEMMA Rests == ASSUME Init PROVE RestInv
BY NodeIs DEF Init, AssistantNode, OrchestratorNode, RestInv

\* A question that is put is put to a node that rests, which then has a job.
LEMMA PutMoves ==
  ASSUME RestInv, NEW message, AskEngine(message) \/ AskOrchestrator(message)
  PROVE  job' = [c \in Callers |-> job'[c]]
<1>1. \E new : Go(Node, new)
  BY DEF AskEngine, AskOrchestrator, Ask, Process
<1> QED
  BY <1>1, Gone

LEMMA CallbackKeepsRest == ASSUME RestInv, Callback PROVE RestInv'
<1>1. CASE Start
  <2>1. CASE modelLoaded' /\ Warmup
    <3>1. doing' = "warmup" /\ queue' = queue /\ \E new : Go(Node, new)
      BY <1>1, <2>1 DEF Start, StartWarmup
    <3> QED
      BY <3>1, Gone DEF RestInv
  <2>2. CASE ~(modelLoaded' /\ Warmup)
    BY <1>1, <2>2 DEF Start, StartWarmup, LoadModel, RestInv
  <2> QED
    BY <2>1, <2>2
<1>2. CASE Work
  BY <1>2, WorkBusy, WorkMoves DEF node, RestInv
<1>3. CASE EndWarmup \/ EndTopic \/ EndService
  <2>1. Go(Node, Idle) /\ queue' = queue
    BY <1>3 DEF EndWarmup, EndTopic, EndService, Go
  <2> QED
    BY <2>1, Gone DEF RestInv
<1>4. CASE on_query_received
  <2>1. queue' \in Seq(Messages)
    BY <1>4 DEF on_query_received, RestInv
  <2>2. CASE modelLoaded
    BY <1>4, <2>1, <2>2, PutMoves DEF on_query_received, RestInv
  <2>3. CASE ~modelLoaded
    BY <1>4, <2>1, <2>3 DEF on_query_received, RestInv
  <2> QED
    BY <2>2, <2>3
<1>5. CASE handle_query
  <2>1. doing' = "service" /\ queue' = queue
        /\ \E message : AskEngine(message) \/ AskOrchestrator(message)
    BY <1>5 DEF handle_query
  <2> QED
    BY <2>1, PutMoves DEF RestInv
<1>6. CASE handle_clear_session \/ cleanup_sessions \/ publish_diagnostics
  BY <1>6 DEF handle_clear_session, cleanup_sessions, publish_diagnostics, node, RestInv
<1> QED
  BY <1>1, <1>2, <1>3, <1>4, <1>5, <1>6 DEF Callback

LEMMA RestStep == ASSUME RestInv, [Next]_vars PROVE RestInv'
<1>1. CASE UNCHANGED vars
  BY <1>1 DEF vars, RestInv
<1>2. ASSUME NEW message \in Messages, Publish(message) PROVE RestInv'
  <2>1. queue' \in Seq(Messages)
    BY <1>2, NodeAssumption DEF Publish, RestInv
  <2> QED
    BY <1>2, <2>1 DEF Publish, RestInv
<1>3. CASE (\E file \in Volatile : ChangeFile(file)) \/ Tick
  BY <1>3 DEF ChangeFile, Tick, node, RestInv
<1> QED
  BY <1>1, <1>2, <1>3, CallbackKeepsRest DEF Next

-----------------------------------------------------------------------------
(***************************************************************************)
(* An expired session.                                                     *)
(***************************************************************************)

\* What ExpiredIsForgotten says of a step.
Forgotten ==
  \A s \in DOMAIN sessions :
    Expired(sessions[s]) /\ Idling /\ job'[Node].session = s =>
      /\ job'[Node].context.recent = <<>>
      /\ job'[Node].context.place \in {NoPlace, Head(queue \o <<[place |-> NoPlace]>>).place}

\* A node that keeps its rest is in no session; nor is a question to the engine.
LEMMA NoContextForgotten ==
  ASSUME job'[Node].context = NoContext PROVE Forgotten
BY DEF Forgotten, NoContext

LEMMA EngineForgotten ==
  ASSUME RestInv, Idling, NEW message, AskEngine(message) PROVE Forgotten
<1> DEFINE new == [To(Node, "query") EXCEPT !.mode = "ask", !.question = message.question,
                                            !.target = Classified(message.question)]
<1>1. job'[Node] = new
  BY Gone DEF AskEngine, Ask
<1>2. job[Node] = Idle
  BY DEF RestInv, Idling
<1>3. new.context = NoContext
  BY <1>2, IdleContext DEF To
<1> QED
  BY <1>1, <1>3, NoContextForgotten

\* A new session has no history, and a question brings no other place than its own.
LEMMA FreshContext ==
  ASSUME NEW q, NEW place
  PROVE  LET context == build_context_string(WithContext(NewSession, place), q)
         IN  context.recent = <<>> /\ context.place \in {NoPlace, place}
<1> DEFINE session == WithContext(NewSession, place)
<1>1. session.history = <<>> /\ session.place \in {NoPlace, place}
  BY DEF WithContext, NewSession
<1>2. Len(session.history) = 0 /\ SubSeq(session.history, 1, 0) = <<>>
  BY <1>1
<1> HIDE DEF session
<1> QED
  BY <1>1, <1>2 DEF build_context_string, session

LEMMA OrchestratorForgotten ==
  ASSUME RestInv, Idling, NEW message, AskOrchestrator(message),
         message.place \in {NoPlace, Head(queue \o <<[place |-> NoPlace]>>).place}
  PROVE  Forgotten
<1> SUFFICES ASSUME NEW s \in DOMAIN sessions, Expired(sessions[s]), job'[Node].session = s
             PROVE  /\ job'[Node].context.recent = <<>>
                    /\ job'[Node].context.place
                         \in {NoPlace, Head(queue \o <<[place |-> NoPlace]>>).place}
  BY DEF Forgotten
<1> DEFINE context(session) == build_context_string(WithContext(session, message.place), message.question)
<1> DEFINE new == [To(Node, "query") EXCEPT
                     !.mode = "process", !.question = message.question, !.session = message.session,
                     !.context = context(get_or_create_session(message.session)),
                     !.target = Classified(message.question)]
<1>1. job'[Node] = new
  BY Gone DEF AskOrchestrator, Process
<1>2. new.session = message.session /\ new.context = context(get_or_create_session(message.session))
  BY DEF To, RestInv, Idling, Idle
<1>3. message.session = s
  BY <1>1, <1>2
<1>4. get_or_create_session(s) = NewSession
  BY DEF get_or_create_session
<1>5. job'[Node].context = context(NewSession)
  BY <1>1, <1>2, <1>3, <1>4
<1> HIDE DEF new
<1> QED
  BY <1>5, FreshContext

LEMMA ForgottenStep == ASSUME RestInv, [Next]_vars PROVE Forgotten
<1>1. CASE ~Idling
  BY <1>1 DEF Forgotten
<1>2. CASE Idling /\ UNCHANGED job
  <2>1. job'[Node].context = NoContext
    BY <1>2, IdleContext DEF Idling, RestInv
  <2> QED
    BY <2>1, NoContextForgotten
<1>3. CASE Idling /\ on_query_received
  <2>1. CASE ~modelLoaded
    BY <1>2, <1>3, <2>1 DEF on_query_received
  <2>2. CASE modelLoaded
    <3>1. queue # <<>> /\ queue \in Seq(Messages)
      BY <1>3 DEF on_query_received, RestInv
    <3>2. Head(queue \o <<[place |-> NoPlace]>>) = Head(queue)
      BY <3>1
    <3> QED
      BY <1>3, <2>2, <3>2, EngineForgotten, OrchestratorForgotten DEF on_query_received
  <2> QED
    BY <2>1, <2>2
<1>4. CASE Idling /\ handle_query
  <2>1. PICK message : message.place = NoPlace /\ (AskEngine(message) \/ AskOrchestrator(message))
    BY <1>4 DEF handle_query
  <2> QED
    BY <1>4, <2>1, EngineForgotten, OrchestratorForgotten
<1>5. CASE Idling /\ Callback /\ ~on_query_received /\ ~handle_query
  <2>1. UNCHANGED job
    BY <1>5, WorkBusy DEF Callback, Idling, RestInv, Start, LoadModel, EndWarmup, EndTopic,
       EndService, handle_clear_session, cleanup_sessions, publish_diagnostics
  <2> QED
    BY <1>2, <1>5, <2>1
<1>6. CASE UNCHANGED vars \/ (Next /\ ~Callback)
  <2>1. UNCHANGED job
    BY <1>6 DEF vars, Next, Publish, ChangeFile, Tick
  <2> QED
    BY <1>1, <1>2, <2>1
<1> QED
  BY <1>1, <1>3, <1>4, <1>5, <1>6

\* A question in a session that has expired is asked without anything that was said or known
\* in it, whichever of the callbacks finds it (get_or_create_session in orchestrator.py).
THEOREM ExpiredForgotten == Spec => ExpiredIsForgotten
<1>1. RestInv /\ [Next]_vars => [Forgotten]_vars
  BY ForgottenStep
<1> QED
  BY Rests, RestStep, <1>1, PTL DEF Spec, ExpiredIsForgotten, Forgotten
=============================================================================
