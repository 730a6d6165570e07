---------------------- MODULE ConversationOrchestrator ----------------------
(***************************************************************************)
(* The life of a question: the session it belongs to, the inference it     *)
(* takes, the tools it calls, the answer and what is remembered of it.     *)
(*                                                                         *)
(* Callers are the threads that ask: one for a ROS node, several for the   *)
(* HTTP server.  A caller's job is its position in process_query, in the   *)
(* generator process_query_stream, or in a bare InferenceEngine.query;     *)
(* each step ends where another thread, the disk or a client can get in.   *)
(***************************************************************************)
EXTENDS InferenceEngine, KnowledgeBase

CONSTANTS
  Callers,         \* threads
  Questions,       \* what can be asked
  About,           \* for each question its mentions, tokens and similarity
  Keywords,        \* what is given to set_tool_keywords
  Registered,      \* tools registered with the ToolExecutor
  SessionIds,      \* session identifiers, the default one among them
  Places,          \* what a question's context can say, NoPlace for no context
  NoPlace,
  MemorySize,      \* deque length of a session's history, in turns
  SessionTimeout,  \* ticks without a turn after which a session has expired
  MaxToolRounds,   \* MAX_TOOL_ROUNDS
  MaxTokens        \* bound: tokens of a streamed answer

\* Histories of an odd number of turns would be cut in the middle of an exchange.
ASSUME OrchestratorAssumption ==
  /\ MemorySize \in Nat \ {0} /\ MemorySize % 2 = 0
  /\ SessionTimeout \in Nat /\ MaxToolRounds \in Nat /\ MaxTokens \in Nat
  /\ Registered \subseteq ToolNames
  /\ NoPlace \in Places

VARIABLES
  disk,      \* the model files that exist
  engine,    \* the InferenceEngine shared by all callers
  prompts,   \* keys of the system prompts the engine was given
  sessions,  \* _sessions: [history, place, age] for each session that exists
  job        \* what each caller is doing

data == <<disk, prompts>>

Turn(role, content) == [role |-> role, content |-> content]
NewSession == [history |-> <<>>, place |-> NoPlace, age |-> 0]

NoContext == [parts |-> <<>>, place |-> NoPlace, recent |-> <<>>]
Idle == [pc |-> "idle", mode |-> "none", question |-> "", session |-> "",
         context |-> NoContext, target |-> NoAdapter, round |-> 0,
         result |-> "none", streaming |-> FALSE, answer |-> <<>>, ok |-> FALSE, event |-> "none"]

Go(c, new) == job' = [job EXCEPT ![c] = new]
To(c, label) == [job[c] EXCEPT !.pc = label]

-----------------------------------------------------------------------------
(* Sessions *)

Expired(session) == SessionTimeout > 0 /\ session.age > SessionTimeout

\* Mutant: a session never expires.
get_or_create_sessionForEver(s) == IF s \in DOMAIN sessions THEN sessions[s] ELSE NewSession

get_or_create_session(s) ==
  IF s \in DOMAIN sessions /\ ~Expired(sessions[s]) THEN sessions[s] ELSE NewSession

\* The question's own context replaces what the session knew of the place.
WithContext(session, place) ==
  IF place = NoPlace THEN session ELSE [session EXCEPT !.place = place]

add_turn(session, turn) ==
  LET longer == Append(session.history, turn)
  IN  [session EXCEPT !.age = 0,
                      !.history = IF Len(longer) > MemorySize THEN Tail(longer) ELSE longer]

Put(s, session) ==
  sessions' = [t \in DOMAIN sessions \cup {s} |-> IF t = s THEN session ELSE sessions[t]]
Without(gone) == [s \in DOMAIN sessions \ gone |-> sessions[s]]

\* The retriever has loaded its files before the first question.  Knowledge, place and the
\* last two exchanges make the context.
Documents == load(Library)
Knowledge == [q \in Questions |-> build_context(Documents, About[q])]

ASSUME SimilarityAssumption ==
  \A q \in Questions : \A d \in DOMAIN Documents : About[q].similarity[Documents[d].id] \in Nat

build_context_string(session, q) ==
  LET n == Len(session.history)
  IN  [parts |-> Knowledge[q], place |-> session.place,
       recent |-> SubSeq(session.history, IF n > 4 THEN n - 3 ELSE 1, n)]

-----------------------------------------------------------------------------
(* The beginning of a job *)

ToolKeywords == set_tool_keywords(Keywords)
Classified(q) == classify_query(About[q].mentions, ToolKeywords)

\* InferenceEngine.query alone, as the assistant node and the warmup call it.
Ask(c, q, adapter) ==
  /\ job[c].pc = "idle"
  /\ Go(c, [To(c, "query") EXCEPT !.mode = "ask", !.question = q, !.target = adapter])
  /\ UNCHANGED <<data, engine, sessions>>

\* Mutant: the question is remembered before it is answered.
ProcessRemembersQuestion(c, mode, q, s, place) ==
  LET session == WithContext(get_or_create_session(s), place)
  IN  /\ job[c].pc = "idle"
      /\ Put(s, add_turn(session, Turn("user", <<q>>)))
      /\ Go(c, [To(c, "query") EXCEPT
                  !.mode = mode, !.question = q, !.session = s,
                  !.context = build_context_string(session, q),
                  !.target = Classified(q)])
      /\ UNCHANGED <<data, engine>>

\* process_query and process_query_stream.
Process(c, mode, q, s, place) ==
  LET session == WithContext(get_or_create_session(s), place)
  IN  /\ job[c].pc = "idle"
      /\ Put(s, session)
      /\ Go(c, [To(c, "query") EXCEPT
                  !.mode = mode, !.question = q, !.session = s,
                  !.context = build_context_string(session, q),
                  !.target = Classified(q)])
      /\ UNCHANGED <<data, engine>>

-----------------------------------------------------------------------------
(* One inference: refused, or routed to its adapter, and then run.           *)

\* A generator that has yielded an event stands still until it is asked for the next.
At(c, label) == job[c].pc = label /\ job[c].event = "none"

\* Mutant: a failed inference is tried again until it succeeds.
FailureRetries(c) ==
  IF job[c].streaming THEN To(c, "store")
  ELSE IF job[c].mode = "stream" THEN [To(c, "adapter") EXCEPT !.ok = FALSE] ELSE To(c, "query")

\* _format_tool_result_fallback: the passenger is given the data, or an apology.
Fallback(result) == IF result = "error" THEN <<"apology">> ELSE <<"found">>

\* Where the failure of an inference leads: it fails a question, but a follow-up fails
\* into the text of _format_tool_result_fallback, and a stream into what it has sent.
Failure(c) ==
  CASE job[c].mode = "stream" /\ job[c].streaming -> To(c, "store")
    [] job[c].mode = "stream" /\ ~job[c].streaming -> [To(c, "adapter") EXCEPT !.ok = FALSE]
    [] job[c].mode = "process" /\ job[c].round > 0 ->
         [To(c, "store") EXCEPT !.answer = Fallback(job[c].result)]
    [] OTHER -> [To(c, "reply") EXCEPT !.ok = FALSE]

\* The model is not loaded: nothing of this inference is recorded.
Refuse(c) ==
  /\ At(c, "query") /\ ~Ready(engine)
  /\ Go(c, Failure(c))
  /\ UNCHANGED <<data, engine, sessions>>

\* The adapter is the active one, or there is no file for it.
Route(c) ==
  /\ At(c, "query") /\ Ready(engine) /\ ~NeedsSwitch(engine, job[c].target)
  /\ Go(c, To(c, "infer"))
  /\ UNCHANGED <<data, engine, sessions>>

\* switch_adapter, first half: the old model is gone while the new one is read.
Unload(c) ==
  /\ At(c, "query") /\ Ready(engine) /\ NeedsSwitch(engine, job[c].target)
  /\ engine' = unload_model(engine)
  /\ Go(c, To(c, "load"))
  /\ UNCHANGED <<data, sessions>>

\* Second half.  After a failure the inference goes on, without a model.
Load(c) ==
  /\ At(c, "load")
  /\ engine' \in load_model(engine, disk, SwitchPath(engine, job[c].target), job[c].target)
  /\ Go(c, [To(c, "infer") EXCEPT !.target = engine'.active])
  /\ UNCHANGED <<data, sessions>>

Records(latency) == engine' = Recorded(engine, latency)

\* A whole answer: a bare query is finished, a stream announces its adapter, and
\* process_query looks for a tool call.
Infer(c) ==
  /\ At(c, "infer") /\ ~job[c].streaming /\ engine.llm # NoModel
  /\ \E token \in Tokens, latency \in LatencyOf(engine) :
       /\ Records(latency)
       /\ LET label == CASE job[c].mode = "ask" -> "reply"
                         [] job[c].mode = "stream" -> "adapter"
                         [] OTHER -> "parse"
          IN  Go(c, [To(c, label) EXCEPT !.answer = <<token>>, !.ok = TRUE])
  /\ UNCHANGED <<data, sessions>>

\* llama.cpp raises, or there is no model to call.
InferFails(c) ==
  /\ At(c, "infer")
  /\ \E latency \in LatencyOf(engine) : Records(latency)
  /\ Go(c, Failure(c))
  /\ UNCHANGED <<data, sessions>>

-----------------------------------------------------------------------------
(* Tools *)

Calls(c) == parse_tool_call(job[c].answer)

\* What the model puts into a call: an object, or (none and empty ones apart) something else.
Arguments == {"object", "other"}

\* The fourteen stubs look their arguments up in the object; one never does.
Stub(tool, arguments) ==
  IF arguments = "object" \/ tool = "weigh_luggage" THEN "data" ELSE "error"

\* A tool that is not registered, or that raises, gives an error for the model to explain.
execute(tool, arguments) == IF tool \in Registered THEN Stub(tool, arguments) ELSE "error"

\* process_query: up to MAX_TOOL_ROUNDS calls.  The result goes back to the model as a
\* question to the conversational adapter.
ExecuteTool(c) ==
  /\ At(c, "parse") /\ job[c].mode = "process"
  /\ Calls(c) \notin {NoCall, Raises} /\ job[c].round < MaxToolRounds
  /\ \E arguments \in Arguments :
       Go(c, [To(c, "query") EXCEPT !.target = "conversational", !.round = @ + 1,
                                    !.result = execute(Calls(c), arguments)])
  /\ UNCHANGED <<data, engine, sessions>>

\* The exception leaves process_query, or the generator, before anything is stored.
ParseRaises(c) ==
  /\ At(c, "parse") /\ Calls(c) = Raises
  /\ job[c].mode = "process" => job[c].round < MaxToolRounds
  /\ Go(c, To(c, "raised"))
  /\ UNCHANGED <<data, engine, sessions>>

\* No call, or no round left for it: the text is the answer.
Settle(c) ==
  /\ At(c, "parse") /\ job[c].mode = "process"
  /\ Calls(c) = NoCall \/ job[c].round = MaxToolRounds
  /\ Go(c, To(c, "store"))
  /\ UNCHANGED <<data, engine, sessions>>

\* Both turns of the exchange are added, whatever the answer is worth.
Store(c) ==
  /\ At(c, "store")
  /\ LET s == job[c].session
     IN  Put(s, add_turn(add_turn(sessions[s], Turn("user", <<job[c].question>>)),
                         Turn("assistant", job[c].answer)))
  /\ Go(c, IF job[c].mode = "stream" THEN To(c, "done") ELSE [To(c, "reply") EXCEPT !.ok = TRUE])
  /\ UNCHANGED <<data, engine>>

-----------------------------------------------------------------------------
(* The generator process_query_stream *)

Streams(c, label) == At(c, label) /\ job[c].mode = "stream"
Yield(c, event, new) == Go(c, [new EXCEPT !.event = event]) /\ UNCHANGED <<data, engine, sessions>>

StreamAdapter(c) ==
  Streams(c, "adapter") /\ Yield(c, "adapter", To(c, IF job[c].ok THEN "parse" ELSE "error"))

StreamError(c) == Streams(c, "error") /\ Yield(c, "error", To(c, "end"))

StreamCall(c) ==
  Streams(c, "parse") /\ Calls(c) \notin {NoCall, Raises} /\ Yield(c, "tool_call", To(c, "execute"))

\* Only one call is executed, its data or its error sent, and the follow-up streamed.
StreamResult(c) ==
  /\ Streams(c, "execute")
  /\ Yield(c, "tool_result", [To(c, "query") EXCEPT !.target = "conversational", !.round = 1,
                                                    !.streaming = TRUE, !.answer = <<>>])

\* Mutant: the question is asked again from the beginning.
StreamAgainFromStart(c) ==
  Streams(c, "parse") /\ Calls(c) = NoCall
  /\ Yield(c, "none", [To(c, "query") EXCEPT !.answer = <<>>, !.target = Classified(job[c].question)])

\* Without a call the same question is asked again, as a stream.
StreamAgain(c) ==
  Streams(c, "parse") /\ Calls(c) = NoCall
  /\ Yield(c, "none", [To(c, "query") EXCEPT !.streaming = TRUE, !.answer = <<>>,
                                             !.target = Classified(job[c].question)])

StreamToken(c) ==
  /\ Streams(c, "infer") /\ job[c].streaming /\ engine.llm # NoModel
  /\ Len(job[c].answer) < MaxTokens
  /\ \E token \in Tokens : Yield(c, "token", [job[c] EXCEPT !.answer = Append(@, token)])

\* Mutant: the end of the tokens is taken for the end of the question.
StreamEndsUnstored(c) ==
  /\ Streams(c, "infer") /\ job[c].streaming /\ engine.llm # NoModel
  /\ \E latency \in LatencyOf(engine) : Records(latency)
  /\ Go(c, To(c, "done"))
  /\ UNCHANGED <<data, sessions>>

\* The stream is exhausted; whether it failed is not looked at.
StreamEnds(c) ==
  /\ Streams(c, "infer") /\ job[c].streaming /\ engine.llm # NoModel
  /\ \E latency \in LatencyOf(engine) : Records(latency)
  /\ Go(c, To(c, "store"))
  /\ UNCHANGED <<data, sessions>>

StreamDone(c) == Streams(c, "done") /\ Yield(c, "done", To(c, "end"))
=============================================================================
