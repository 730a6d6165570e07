------------------------------ MODULE AiServer ------------------------------
(***************************************************************************)
(* The HTTP server in front of the orchestrator, for the touchscreen.      *)
(* Every connection has a thread; one lock, _engine_lock, is held from the *)
(* first step of a question to its last, which for a stream is the last    *)
(* event written to the client.  Whether a model is loaded is looked at    *)
(* before the lock is taken, and the main thread unloads it without it.    *)
(***************************************************************************)
EXTENDS ConversationOrchestrator

CONSTANTS
  Main,           \* the main thread; every other caller is a connection's
  DefaultAdapter, \* option --adapter
  PromptFile,     \* contents of system_prompts.yaml
  SchemaFile,     \* contents of tool_schemas.json
  Deployed,       \* sets of model files that can be deployed
  MaxRequests     \* bound: requests in all

Nobody == "nobody"

ASSUME ServerAssumption ==
  /\ Main \in Callers /\ Nobody \notin Callers /\ DefaultAdapter \in Adapters
  /\ MaxRequests \in Nat /\ MaxTokens > 0
  /\ \A files \in Deployed : files \subseteq Files

\* An event has a type; only of the tokens is the text kept, and none is taken for a type.
EventTypes == {"adapter", "tool_call", "tool_result", "done", "error"}
ASSUME EventAssumption == EventTypes \cap Tokens = {}

VARIABLES
  server,     \* "loading", "warmup", "serving", "closed" or "exited"
  lock,       \* the thread that holds _engine_lock
  conn,       \* what each thread knows of its request
  client,     \* the other end: "reading", "stalled" or "gone"
  sent,       \* events written to the client of a stream
  requests    \* requests so far

vars == <<disk, engine, prompts, sessions, job,
          server, lock, conn, client, sent, requests>>
front == <<server, lock, conn, client, sent, requests>>

Threads == Callers \ {Main}
NoRequest == [phase |-> "none", mode |-> "none", question |-> "", session |-> "", reply |-> 0]

ToolSchemas == load_tool_schemas({}, SchemaFile)

\* A merged model of the default adapter is preferred to the base model.
find_merged_model(files) ==
  IF Merged(DefaultAdapter) \in files THEN Merged(DefaultAdapter) ELSE BaseFile

Init ==
  /\ disk \in Deployed
  /\ engine = NewEngine(find_merged_model(disk))
  /\ prompts = load_system_prompts({}, PromptFile)
  /\ sessions = <<>>
  /\ job = [c \in Callers |-> Idle]
  /\ server = "loading" /\ lock = Nobody
  /\ conn = [c \in Threads |-> NoRequest]
  /\ client = [c \in Threads |-> "reading"]
  /\ sent = [c \in Threads |-> <<>>]
  /\ requests = 0

-----------------------------------------------------------------------------
(* The main thread *)

\* The server does not start without a model.
load_engine ==
  /\ server = "loading"
  /\ engine' \in load_model(engine, disk, engine.path, DefaultAdapter)
  /\ server' = IF engine'.loaded THEN "warmup" ELSE "exited"
  /\ IF engine'.loaded
     THEN Go(Main, [To(Main, "query") EXCEPT !.mode = "ask", !.target = "conversational"])
     ELSE UNCHANGED job
  /\ UNCHANGED <<data, sessions, lock, conn, client, sent, requests>>

Serve ==
  /\ server = "warmup" /\ job[Main].pc = "reply"
  /\ server' = "serving"
  /\ job' = [job EXCEPT ![Main] = Idle]
  /\ UNCHANGED <<data, engine, sessions, lock, conn, client, sent, requests>>

\* Ctrl-C: the model is unloaded under threads that may be using it.
Close ==
  /\ server = "serving"
  /\ server' = "closed"
  /\ engine' = unload_model(engine)
  /\ UNCHANGED <<data, sessions, job, lock, conn, client, sent, requests>>

\* The threads are daemons: they die with the process.
Exit ==
  /\ server = "closed"
  /\ server' = "exited"
  /\ job' = [c \in Callers |-> Idle] /\ conn' = [c \in Threads |-> NoRequest]
  /\ client' = [c \in Threads |-> "reading"] /\ sent' = [c \in Threads |-> <<>>]
  /\ lock' = Nobody
  /\ UNCHANGED <<data, engine, sessions, requests>>

-----------------------------------------------------------------------------
(* The thread of a connection *)

Request(c, phase, reply) ==
  conn' = [conn EXCEPT ![c] = [phase |-> phase, mode |-> @.mode, question |-> @.question,
                               session |-> @.session, reply |-> reply]]
Answered(c, code) ==
  conn' = [conn EXCEPT ![c] = [NoRequest EXCEPT !.phase = "closing", !.reply = code]]

\* A client connects, to one of two paths.
Connect(c, mode) ==
  /\ server = "serving" /\ conn[c].phase = "none" /\ requests < MaxRequests
  /\ conn' = [conn EXCEPT ![c] = [NoRequest EXCEPT !.phase = "receiving", !.mode = mode]]
  /\ requests' = requests + 1
  /\ UNCHANGED <<data, engine, sessions, job, server, lock, client, sent>>

\* The body is read, with no timeout: the read ends when the client has sent all of it, or
\* closes.
Body(c, q, s) ==
  /\ conn[c].phase = "receiving"
  /\ conn' = [conn EXCEPT ![c] = [phase |-> "checking", mode |-> @.mode, question |-> q,
                                  session |-> s, reply |-> 0]]
  /\ UNCHANGED <<data, engine, sessions, job, server, lock, client, sent, requests>>

\* What a client does, when it likes, before its question is known.
Asks(c) ==
  \/ \E mode \in {"process", "stream"} : Connect(c, mode)
  \/ \E q \in Questions, s \in SessionIds : Body(c, q, s)

\* A body that is empty or cut off, that does not parse or asks nothing is refused; one of
\* another shape raises and is not answered.  health.model_loaded is read without the lock;
\* a stream gets its headers here.
Check(c) ==
  /\ conn[c].phase = "checking"
  /\ \/ \E code \in {400, 0} : Answered(c, code)
     \/ ~engine.loaded /\ Answered(c, 503)
     \/ engine.loaded /\ Request(c, "waiting", IF conn[c].mode = "stream" THEN 200 ELSE 0)
  /\ UNCHANGED <<data, engine, sessions, job, server, lock, client, sent, requests>>

\* The lock is taken, and the question put.
Acquire(c) ==
  /\ conn[c].phase = "waiting" /\ lock = Nobody
  /\ lock' = c
  /\ Request(c, "working", conn[c].reply)
  /\ Process(c, conn[c].mode, conn[c].question, conn[c].session, NoPlace)
  /\ UNCHANGED <<server, client, sent, requests>>

\* The steps of the inference, the tools and the generator.
Work(c) ==
  /\ \/ Refuse(c) \/ Route(c) \/ Unload(c) \/ Load(c) \/ Infer(c) \/ InferFails(c)
     \/ ExecuteTool(c) \/ ParseRaises(c) \/ Settle(c) \/ Store(c)
     \/ StreamAdapter(c) \/ StreamError(c) \/ StreamCall(c) \/ StreamResult(c)
     \/ StreamAgain(c) \/ StreamToken(c) \/ StreamEnds(c) \/ StreamDone(c)
  /\ UNCHANGED front

\* An event is written, unless the client does not read; what is written to a client that
\* has just gone is lost without an error.
Event(c) == IF job[c].event = "token" THEN Last(job[c].answer) ELSE job[c].event
Send(c) ==
  /\ job[c].event # "none" /\ client[c] # "stalled"
  /\ sent' = [sent EXCEPT ![c] = Append(@, Event(c))]
  /\ Go(c, [job[c] EXCEPT !.event = "none"])
  /\ UNCHANGED <<data, engine, sessions, server, lock, conn, client, requests>>

Release(c, code) ==
  /\ lock' = Nobody
  /\ job' = [job EXCEPT ![c] = Idle]
  /\ client' = [client EXCEPT ![c] = "reading"] /\ sent' = [sent EXCEPT ![c] = <<>>]
  /\ Answered(c, code)

\* Mutant: the question of a client that left is remembered without its answer.
DisconnectedRemembersQuestion(c) ==
  /\ job[c].event # "none" /\ client[c] = "gone"
  /\ Put(job[c].session, add_turn(sessions[job[c].session], Turn("user", <<job[c].question>>)))
  /\ Release(c, conn[c].reply)
  /\ UNCHANGED <<data, engine, server, requests>>

\* Mutant: the lock is not given back when a write fails.
DisconnectedKeepsLock(c) ==
  /\ job[c].event # "none" /\ client[c] = "gone"
  /\ job' = [job EXCEPT ![c] = Idle]
  /\ client' = [client EXCEPT ![c] = "reading"] /\ sent' = [sent EXCEPT ![c] = <<>>]
  /\ Answered(c, conn[c].reply)
  /\ UNCHANGED <<data, engine, sessions, server, lock, requests>>

\* A write fails: the generator is dropped where it stands.
Disconnected(c) ==
  /\ job[c].event # "none" /\ client[c] = "gone"
  /\ Release(c, conn[c].reply)
  /\ UNCHANGED <<data, engine, sessions, server, requests>>

\* process_query has returned, or the generator is exhausted.
Finish(c) ==
  /\ At(c, IF conn[c].mode = "stream" THEN "end" ELSE "reply") /\ lock = c
  /\ Release(c, IF conn[c].mode = "stream" \/ job[c].ok THEN 200 ELSE 500)
  /\ UNCHANGED <<data, engine, sessions, server, requests>>

\* An exception gives the lock back.  A whole answer is then never given; a stream is told.
Broken(c) ==
  /\ At(c, "raised")
  /\ IF conn[c].mode = "stream"
     THEN /\ lock' = Nobody
          /\ job' = [job EXCEPT ![c] = Idle]
          /\ Request(c, "failing", conn[c].reply)
          /\ UNCHANGED <<client, sent>>
     ELSE Release(c, 0)
  /\ UNCHANGED <<data, engine, sessions, server, requests>>

\* The error event is written without the lock; that it cannot be is ignored.
SendError(c) ==
  /\ conn[c].phase = "failing" /\ client[c] # "stalled"
  /\ sent' = [sent EXCEPT ![c] = Append(@, "error")]
  /\ client' = [client EXCEPT ![c] = "reading"]
  /\ Answered(c, conn[c].reply)
  /\ UNCHANGED <<data, engine, sessions, job, server, lock, requests>>

\* The reply is written and the connection closed.
Hangup(c) ==
  /\ conn[c].phase = "closing"
  /\ conn' = [conn EXCEPT ![c] = NoRequest]
  /\ sent' = [sent EXCEPT ![c] = <<>>]
  /\ UNCHANGED <<data, engine, sessions, job, server, lock, client, requests>>

-----------------------------------------------------------------------------
(* Around the server *)

\* A client stops reading until the buffers are full, reads on, or goes away: when it did
\* matters only once there is an event to write.
Client(c) ==
  /\ job[c].event # "none" \/ conn[c].phase = "failing"
  /\ \E state \in {"reading", "stalled", "gone"} \ {client[c]} :
       client[c] # "gone" /\ client' = [client EXCEPT ![c] = state]
  /\ UNCHANGED <<data, engine, sessions, job, server, lock, conn, sent, requests>>

\* Nothing cleans the sessions up: a question is what finds one expired, so time matters
\* only while none is worked on.
Tick ==
  /\ server = "serving" /\ lock = Nobody
  /\ \E s \in DOMAIN sessions : ~Expired(sessions[s])
  /\ sessions' = [s \in DOMAIN sessions |->
                    IF Expired(sessions[s]) THEN sessions[s]
                    ELSE [sessions[s] EXCEPT !.age = @ + 1]]
  /\ UNCHANGED <<data, engine, job, front>>

Step(c) ==
  \/ Check(c) \/ Acquire(c) \/ Work(c) \/ Send(c) \/ Disconnected(c)
  \/ Finish(c) \/ Broken(c) \/ SendError(c) \/ Hangup(c)

MainThread == load_engine \/ (server = "warmup" /\ Work(Main)) \/ Serve \/ Exit

Next ==
  \/ MainThread \/ Close
  \/ \E c \in Threads : Asks(c) \/ Step(c) \/ Client(c)
  \/ Tick

\* Every thread keeps running; clients do as they like, and need never send a body.  The
\* lock is not fair: a thread gets it when the others stop taking it, which the bound on the
\* requests sees to.
Fairness == WF_vars(MainThread) /\ \A c \in Threads : WF_vars(Step(c))

Spec == Init /\ [][Next]_vars /\ Fairness

-----------------------------------------------------------------------------
(* Properties *)

\* At most one connection works at a time, the one that holds the lock.
LockExcludes == \A c \in Threads : conn[c].phase = "working" => lock = c

\* Between routing a question and answering it no other thread moves the model: it is
\* asked of the adapter it was routed to (with the tools in its prompt for that adapter
\* only), unless there is no file for that adapter or the model is gone.
RightModel ==
  \A c \in Callers : job[c].pc = "infer" /\ engine.llm # NoModel =>
    /\ engine.active = job[c].target \/ job[c].target \notin available(engine)
    /\ Prompt(prompts, ToolSchemas, job[c].target).tools =>
         engine.active = "tool_use" \/ "tool_use" \notin available(engine)

\* What a client has read of a stream is the beginning of: the adapter; a call and its
\* result, or neither; tokens; done.  Or the adapter and an error (orchestrator.py:407-413).
CallEvents(events) == IF Len(events) > 1 /\ events[2] = "tool_call" THEN 2 ELSE 0
Ended(events) == events # <<>> /\ Last(events) \in {"done", "error"}
Spoken(events) ==
  SubSeq(events, CallEvents(events) + 2, IF Ended(events) THEN Len(events) - 1 ELSE Len(events))
StreamOf(events) ==
  events # <<>> =>
    /\ events[1] = "adapter"
    /\ CallEvents(events) = 2 /\ Len(events) > 2 => events[3] = "tool_result"
    /\ Spoken(events) \in Seq(Tokens)
    /\ Last(events) = "error" => Len(events) = 2
StreamsWellFormed == \A c \in Threads : StreamOf(sent[c])

\* When a stream says done, or a question is answered with success, the exchange is the
\* last one of its session, word for word what the client was given.
Given(c) == IF job[c].mode = "stream" THEN Spoken(sent[c]) ELSE job[c].answer
AnsweredIsRemembered ==
  \A c \in Threads :
    (job[c].mode = "stream" /\ sent[c] # <<>> /\ Last(sent[c]) = "done")
      \/ (job[c].mode = "process" /\ job[c].pc = "reply" /\ job[c].ok)
    => LET history == sessions[job[c].session].history
       IN  /\ Len(history) >= 2
           /\ SubSeq(history, Len(history) - 1, Len(history))
                = <<Turn("user", <<job[c].question>>), Turn("assistant", Given(c))>>

\* Until an exchange is stored, its session is as the context of its question shows it:
\* no other question of the session is answered in between, and a question that fails
\* leaves nothing behind.
Latest4(history) == SubSeq(history, IF Len(history) > 4 THEN Len(history) - 3 ELSE 1, Len(history))
ContextStaysTrue ==
  \A c \in Threads :
    job[c].pc \in {"query", "load", "infer", "adapter", "error", "parse", "execute", "store", "raised"}
      \/ (job[c].pc = "reply" /\ ~job[c].ok)
    => Latest4(sessions[job[c].session].history) = job[c].context.recent

AddPart(chars, part) == chars + part.chars

\* The knowledge in a context is within its budget but for the dots of a cut chunk, from
\* documents that exist, each once, none worse than one that was left out for its score.
\* The header above the chunks and the line breaks between them are counted nowhere.
ContextWithinBudget ==
  \A c \in Threads :
    LET parts == job[c].context.parts
        worth(d) == Score(Documents, About[job[c].question], d)
    IN  /\ Len(parts) <= TopK
        /\ FoldLeft(AddPart, 0, parts) <= MaxContextChars + Ellipsis
        /\ \A i, j \in 1 .. Len(parts) : i < j =>
             parts[i].doc # parts[j].doc /\ worth(parts[i].doc) >= worth(parts[j].doc)
        /\ parts # <<>> =>
             \A d \in DOMAIN Documents : worth(d) > worth(parts[1].doc) => worth(d) < MinScore

\* A connection whose body has come, or whose client has closed, ends, unless its client does
\* not read its stream, or one that holds the lock does not, or the server goes.  One that is
\* still waiting for a body keeps no other waiting.
Stuck == \E c \in Threads : client[c] = "stalled" /\ lock = c
RequestsEnd ==
  \A c \in Threads :
    (conn[c].phase \notin {"none", "receiving"})
      ~> (conn[c].phase = "none" \/ client[c] = "stalled" \/ Stuck \/ server = "exited")

\* The histories kept are conversations, whatever is broken off, refused or lost.
ExchangesIn(history) ==
  [i \in 1 .. Len(history) \div 2 |->
     [question |-> history[2 * i - 1].content, answer |-> history[2 * i].content]]
ExchangesOf(s) == IF s \in DOMAIN sessions THEN ExchangesIn(sessions[s].history) ELSE <<>>
memory == [s \in SessionIds |-> ExchangesOf(s)]
Asked == {<<q>> : q \in Questions}
Answers == BoundedSeq(Tokens \cup {"found", "apology"}, MaxTokens)

Remembered == INSTANCE Conversation WITH
  Sessions <- SessionIds, MaxExchanges <- MemorySize \div 2,
  Exchanges <- [question : Asked, answer : Answers],
  memory <- memory

ImplementsConversation == Remembered!Spec
=============================================================================
