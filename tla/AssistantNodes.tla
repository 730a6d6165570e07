--------------------------- MODULE AssistantNodes ---------------------------
(***************************************************************************)
(* The two ROS nodes in front of the engine, of which the launch file      *)
(* starts one: assistant_node asks the engine directly, orchestrator_node  *)
(* goes through the orchestrator.  Each spins in a single thread, so a     *)
(* callback runs to its end while messages wait in the subscription's      *)
(* queue; the model files can change on disk at any time.                  *)
(***************************************************************************)
EXTENDS ConversationOrchestrator

CONSTANTS
  DefaultAdapter,    \* parameter default_adapter
  DefaultSession,    \* _default_session_id
  TestQuestion,      \* what ~/query asks when nothing is pending
  Warmup,            \* parameter warmup_on_start
  LatencyWarn, LatencyError,   \* max_latency_warn_ms, max_latency_error_ms
  QueueDepth,        \* depth of the subscription's queue
  Messages,          \* what is published on /porter/ai_query
  Installed,         \* model files on disk
  Volatile,          \* those of them that come and go
  MaxQuestions       \* bound: questions published and service calls

ASSUME NodeAssumption ==
  /\ Callers # {} /\ DefaultAdapter \in Adapters /\ DefaultSession \in SessionIds
  /\ QueueDepth \in Nat \ {0} /\ MaxQuestions \in Nat
  /\ Installed \subseteq Files /\ Volatile \subseteq Installed

VARIABLES
  kind,         \* "assistant" or "orchestrator": parameter use_orchestrator of the launch file
  modelLoaded,  \* the node's own _model_loaded
  pending,      \* _pending_query
  queue,        \* messages on /porter/ai_query not yet taken
  doing,        \* the callback that runs: "start", "warmup", "topic", "service" or "none"
  level,        \* level of the diagnostics published last
  asked         \* questions asked so far

vars == <<disk, prompts, engine, sessions, job,
          kind, modelLoaded, pending, queue, doing, level, asked>>
node == <<kind, modelLoaded, pending, queue, doing, level, asked>>

Node == CHOOSE c \in Callers : TRUE
NoQuestion == ""
Message == [question : Questions, session : SessionIds, place : Places]
ASSUME MessagesAssumption == Messages \subseteq Message /\ TestQuestion \in Questions

\* __init__ up to the loading of the model.  The file of system prompts is read into a
\* PromptManager of the node, and the engine is given none of it.
AssistantNode ==
  /\ kind = "assistant"
  /\ engine = NewEngine(BaseFile) /\ prompts = {}
  /\ modelLoaded = FALSE /\ pending = NoQuestion
  /\ doing = "start"

\* The same with a ConversationOrchestrator, which starts without a session.
OrchestratorNode ==
  /\ kind = "orchestrator"
  /\ engine = NewEngine(BaseFile) /\ prompts = {}
  /\ modelLoaded = FALSE /\ pending = NoQuestion
  /\ doing = "start"

Init ==
  /\ AssistantNode \/ OrchestratorNode
  /\ disk \in {Installed \ gone : gone \in SUBSET Volatile}
  /\ sessions = <<>> /\ job = [c \in Callers |-> Idle]
  /\ queue = <<>> /\ level = "none" /\ asked = 0

\* The end of __init__: the model is loaded and, if it was, warmed up before anything else.
LoadModel ==
  /\ doing = "start"
  /\ engine' \in load_model(engine, disk, engine.path, DefaultAdapter)
  /\ modelLoaded' = engine'.loaded

StartWarmup ==
  IF modelLoaded' /\ Warmup
  THEN /\ doing' = "warmup"
       /\ Go(Node, [To(Node, "query") EXCEPT !.mode = "ask", !.target = "conversational"])
  ELSE doing' = "none" /\ UNCHANGED job

Start ==
  /\ LoadModel /\ StartWarmup
  /\ UNCHANGED <<disk, prompts, sessions, kind, pending, queue, level, asked>>

\* The steps of the inference and of the tools, inside whichever callback runs.
Work ==
  /\ \/ Refuse(Node) \/ Route(Node) \/ Unload(Node) \/ Load(Node)
     \/ Infer(Node) \/ InferFails(Node)
     \/ ExecuteTool(Node) \/ ParseRaises(Node) \/ Settle(Node) \/ Store(Node)
  /\ UNCHANGED node

EndWarmup ==
  /\ doing = "warmup" /\ job[Node].pc = "reply"
  /\ doing' = "none"
  /\ job' = [job EXCEPT ![Node] = Idle]
  /\ UNCHANGED <<data, engine, sessions, kind, modelLoaded, pending, queue, level, asked>>

\* The assistant node puts a question to the engine alone, whatever else the message says.
AskEngine(message) ==
  kind = "assistant" /\ Ask(Node, message.question, Classified(message.question))

\* The orchestrator node puts it to the orchestrator, in the session the message names.
AskOrchestrator(message) ==
  /\ kind = "orchestrator"
  /\ Process(Node, "process", message.question, message.session, message.place)

\* Without a model the question is dropped.
on_query_received ==
  /\ doing = "none" /\ queue # <<>>
  /\ queue' = Tail(queue)
  /\ IF modelLoaded
     THEN /\ AskEngine(Head(queue)) \/ AskOrchestrator(Head(queue))
          /\ doing' = "topic"
     ELSE UNCHANGED <<data, engine, sessions, job, doing>>
  /\ UNCHANGED <<kind, modelLoaded, pending, level, asked>>

\* An inference has answered or failed, or an exception was raised, which the callback catches.
Returned == job[Node].pc \in {"reply", "raised"}

\* The answer is published (a failure by the orchestrator node only, an exception by neither);
\* the question stays pending for ~/query.
EndTopic ==
  /\ doing = "topic" /\ Returned
  /\ doing' = "none"
  /\ pending' = job[Node].question
  /\ job' = [job EXCEPT ![Node] = Idle]
  /\ UNCHANGED <<data, engine, sessions, kind, modelLoaded, queue, level, asked>>

\* ~/query: the pending question again, in the default session.
handle_query ==
  /\ doing = "none" /\ modelLoaded /\ asked < MaxQuestions
  /\ asked' = asked + 1
  /\ LET message == [question |-> IF pending = NoQuestion THEN TestQuestion ELSE pending,
                     session |-> DefaultSession, place |-> NoPlace]
     IN  AskEngine(message) \/ AskOrchestrator(message)
  /\ pending' = NoQuestion
  /\ doing' = "service"
  /\ UNCHANGED <<kind, modelLoaded, queue, level>>

\* The reply says whether it succeeded; only a success is published too.
EndService ==
  /\ doing = "service" /\ Returned
  /\ doing' = "none"
  /\ job' = [job EXCEPT ![Node] = Idle]
  /\ UNCHANGED <<data, engine, sessions, kind, modelLoaded, pending, queue, level, asked>>

handle_clear_session ==
  /\ doing = "none" /\ kind = "orchestrator" /\ DefaultSession \in DOMAIN sessions
  /\ sessions' = [sessions EXCEPT ![DefaultSession].history = <<>>]
  /\ UNCHANGED <<data, engine, job, node>>

\* The 60 s timer.
cleanup_sessions ==
  /\ doing = "none" /\ kind = "orchestrator"
  /\ sessions' = Without({s \in DOMAIN sessions : Expired(sessions[s])})
  /\ UNCHANGED <<data, engine, job, node>>

\* Mutant: the diagnostics look at latencies only.
LevelOfLatency ==
  IF AverageAbove(engine.window, LatencyError) THEN "ERROR"
  ELSE IF AverageAbove(engine.window, LatencyWarn) THEN "WARN" ELSE "OK"

Level ==
  IF ~engine.loaded \/ AverageAbove(engine.window, LatencyError) THEN "ERROR"
  ELSE IF AverageAbove(engine.window, LatencyWarn) THEN "WARN" ELSE "OK"

\* The health timer.  Too much memory in use is a warning too, and comes from outside.
publish_diagnostics ==
  /\ doing = "none"
  /\ level' \in {Level} \cup IF Level = "OK" THEN {"WARN"} ELSE {}
  /\ UNCHANGED <<data, engine, sessions, job, kind, modelLoaded, pending, queue, doing, asked>>

-----------------------------------------------------------------------------
(* Around the node *)

\* A question is published; a full queue loses its oldest message.
Publish(message) ==
  /\ asked < MaxQuestions
  /\ asked' = asked + 1
  /\ queue' = Append(IF Len(queue) = QueueDepth THEN Tail(queue) ELSE queue, message)
  /\ UNCHANGED <<data, engine, sessions, job, kind, modelLoaded, pending, doing, level>>

\* A model file is deployed or removed.
ChangeFile(file) ==
  /\ disk' = IF file \in disk THEN disk \ {file} ELSE disk \cup {file}
  /\ UNCHANGED <<prompts, engine, sessions, job, node>>

\* Time passes for the sessions.
Tick ==
  /\ \E s \in DOMAIN sessions : sessions[s].age <= SessionTimeout
  /\ sessions' = [s \in DOMAIN sessions |->
                    IF Expired(sessions[s]) THEN sessions[s]
                    ELSE [sessions[s] EXCEPT !.age = @ + 1]]
  /\ UNCHANGED <<data, engine, job, node>>

Callback ==
  \/ Start \/ EndWarmup \/ Work \/ on_query_received \/ EndTopic
  \/ handle_query \/ EndService
  \/ handle_clear_session \/ cleanup_sessions \/ publish_diagnostics

Next ==
  \/ Callback
  \/ \E message \in Messages : Publish(message)
  \/ \E file \in Volatile : ChangeFile(file)
  \/ Tick

\* The node's thread keeps running, takes its messages and serves its timers.
Fairness ==
  /\ WF_vars(Start \/ Work \/ EndWarmup \/ EndTopic \/ EndService)
  /\ SF_vars(on_query_received)
  /\ SF_vars(publish_diagnostics)

Spec == Init /\ [][Next]_vars /\ Fairness

-----------------------------------------------------------------------------
(* Properties *)

Idling == doing = "none"

\* A question in a session that has been silent for longer than its timeout is asked
\* without anything that was said or known before (orchestrator.py:166-176).
ExpiredIsForgotten ==
  [][\A s \in DOMAIN sessions :
       Expired(sessions[s]) /\ Idling /\ job'[Node].session = s =>
         /\ job'[Node].context.recent = <<>>
         /\ job'[Node].context.place \in {NoPlace, Head(queue \o <<[place |-> NoPlace]>>).place}]_vars

\* That it is lost is reported: the diagnostics come to ERROR and stay there, though the
\* orchestrator node's get_status still answers with its own flag (orchestrator_node.py:404).
LostModelReported == (Idling /\ ~engine.loaded) ~> [](level = "ERROR")

\* The thread comes back from every question, and every message is taken from the queue.
QuestionsEnd == []<>Idling /\ []<>(queue = <<>>)
=============================================================================
