-------------------------- MODULE InferenceEngine --------------------------
(***************************************************************************)
(* The inference engine: the model held in memory, the adapter it was      *)
(* loaded for, the model files found on disk and the health figures.       *)
(*                                                                         *)
(* The engine has no thread of its own, so it is one record, and each of   *)
(* its methods an operator from the record before to the record after, or  *)
(* to the set of them where llama.cpp or the disk decide.  The modules     *)
(* that drive it (ConversationOrchestrator and above) say which thread     *)
(* takes the steps, and what the others see in between.                    *)
(***************************************************************************)
EXTENDS Naturals, Sequences, FiniteSets, SequencesExt

CONSTANTS
  Adapters,      \* names of adapters, "conversational" and "tool_use" among them
  ToolNames,     \* names the model can put into a tool call
  MaxLatencies,  \* MAX_LATENCY_HISTORY
  Durations      \* what an inference can take; one that fails at once takes nothing

ASSUME EngineAssumption ==
  /\ {"conversational", "tool_use"} \subseteq Adapters
  /\ MaxLatencies \in Nat \ {0}
  /\ Durations \subseteq Nat

NoAdapter == ""

\* The GGUF files: the base model, merged models and separate LoRA adapters.
BaseFile == <<"base", NoAdapter>>
Merged(a) == <<"merged", a>>
Lora(a) == <<"lora", a>>
Files == {BaseFile} \cup {Merged(a) : a \in Adapters} \cup {Lora(a) : a \in Adapters}

\* _llm: the file that was loaded and the LoRA applied to it, or nothing.
NoModel == [file |-> <<"none", NoAdapter>>, lora |-> NoAdapter]

\* path is config.model_path, active _active_lora, loaded health.model_loaded, merged and loras
\* the adapters the last scan of the disk found, window health.latency_history.
NewEngine(path) ==
  [path |-> path, llm |-> NoModel, active |-> NoAdapter, loaded |-> FALSE,
   merged |-> {}, loras |-> {}, window |-> <<>>]

-----------------------------------------------------------------------------
(* Loading and switching *)

discover_merged_models(disk) == {a \in Adapters : Merged(a) \in disk}
discover_lora_adapters(disk) == {a \in Adapters : Lora(a) \in disk}
available(e) == e.merged \cup e.loras

\* A merged model stands alone; otherwise the LoRA, if there is one, goes on the given file.
\* Neither found: the given file alone is loaded under the adapter's name.
Chosen(path, adapter, merged, loras) ==
  IF adapter \in merged
  THEN [file |-> Merged(adapter), lora |-> NoAdapter]
  ELSE [file |-> path, lora |-> IF adapter \in loras THEN adapter ELSE NoAdapter]

\* A missing file is refused before anything changes; llama.cpp may then refuse the file.
load_model(e, disk, path, adapter) ==
  LET found == [e EXCEPT !.merged = discover_merged_models(disk),
                         !.loras = discover_lora_adapters(disk)]
      model == Chosen(path, adapter, found.merged, found.loras)
  IN  IF path \notin disk
      THEN {e}
      ELSE {[found EXCEPT !.llm = model, !.active = adapter, !.loaded = TRUE],
            [found EXCEPT !.loaded = FALSE]}

unload_model(e) ==
  IF e.llm = NoModel THEN e
  ELSE [e EXCEPT !.llm = NoModel, !.active = NoAdapter, !.loaded = FALSE]

\* Mutant: separate LoRA adapters are not switched to.
NeedsSwitchMergedOnly(e, adapter) == adapter # e.active /\ adapter \in e.merged

\* switch_adapter unloads first; which file it loads next depends on what the last scan found.
NeedsSwitch(e, adapter) == adapter # e.active /\ adapter \in available(e)
SwitchPath(e, adapter) == IF adapter \in e.merged THEN Merged(adapter) ELSE e.path

Ready(e) == e.loaded /\ e.llm # NoModel

-----------------------------------------------------------------------------
(* Classification and prompts *)

\* A file of prompts or schemas that is missing or does not parse leaves what was there.
load_system_prompts(prompts, file) ==
  IF file.readable THEN {entry.key : entry \in {e \in file.entries : e.text}} ELSE prompts
load_tool_schemas(schemas, file) == IF file.readable THEN file.entries ELSE schemas

\* Words, and patterns that compile.
set_tool_keywords(keywords) == {k.phrase : k \in {keyword \in keywords : keyword.compiles}}

\* The phrases a question mentions, against the keywords.
classify_query(mentions, keywords) ==
  IF mentions \cap keywords # {} THEN "tool_use" ELSE "conversational"

\* Falls back to "default", then to the sentence built into the code.
get_system_prompt(prompts, key) ==
  IF key \in prompts THEN key ELSE IF "default" \in prompts THEN "default" ELSE "built-in"

\* The prompt an inference is given, and whether the tools are listed in it.
Prompt(prompts, schemas, adapter) ==
  [key   |-> get_system_prompt(prompts, IF adapter = "tool_use" THEN "tool_use" ELSE "default"),
   tools |-> adapter = "tool_use" /\ schemas # {}]

-----------------------------------------------------------------------------
(* Answers and health *)

\* A text is a sequence of tokens; a tool's name is a whole, well-formed call of it.  A call
\* that is not JSON is text like any other, but of one that is a JSON number or null the
\* name cannot be asked for: parse_tool_call raises, which Raises stands for.
Raises == "raises"
Tokens == {"word", Raises} \cup ToolNames
NoCall == ""
parse_tool_call(text) ==
  LET first == SelectInSeq(text, LAMBDA token : token \in ToolNames \cup {Raises})
  IN  IF first = 0 THEN NoCall ELSE text[first]

\* Every inference, failed ones included, goes into the bounded latency window.
Recorded(e, latency) ==
  LET longer == Append(e.window, latency)
  IN  [e EXCEPT !.window =
         SubSeq(longer, Max({1, Len(longer) - MaxLatencies + 1}), Len(longer))]

\* The latencies an inference can take: without a model it fails at once.
LatencyOf(e) == IF e.llm = NoModel THEN {0} ELSE Durations

Total(window) == FoldSeq(+, 0, window)
AverageAbove(window, limit) == window # <<>> /\ Total(window) > limit * Len(window)

=============================================================================
