------------------------------ MODULE ModelTurns ------------------------------
(***************************************************************************)
(* The turns of a caller of ModelRuntime.stream(), one after the other:    *)
(* the request is built and checked, dispatched with retries under a       *)
(* timeout and the caller's signal, its event stream is read in chunks and *)
(* mapped, and the provider state of an answer may go into a later call,   *)
(* also to another model.  A turn runs from one await or yield to the      *)
(* next; what the service and the network do is external.                  *)
(***************************************************************************)
EXTENDS ModelBodies, SseStream, StreamDecoding, Pricing

CONSTANTS
    Calls,          \* the package permission frames the caller may run in -> what it asks, without a state
    Timeout,        \* the providers have a timeout
    Responses,      \* provider -> the responses its service may give
    MaxRetries,     \* max_retries of the provider
    MaxTurns,       \* bound on the calls made
    MaxChunk        \* bound on the tokens of one read

\* What a call is made of, each part possibly empty.
CallFields ==
    {"ref", "hint", "config", "controls", "nested", "system", "input", "tools", "hosted", "output", "extra", "state"}
ASSUME CallsAssumption == \A permissions \in DOMAIN Calls : \A call \in Calls[permissions] : DOMAIN call = CallFields
ASSUME TimeoutAssumption == Timeout \in BOOLEAN
\* What the services with a stream answer: the items of OpenAI differ in their ids, and the cached
\* tokens of all but Anthropic are among those of the input.
Dialects == {"openai", "anthropic", "google"}
BlockTypes == [type : {"thinking", "text", "tool_use"}, id : STRING, pieces : Seq(STRING)]
UsageTypes == [input : Nat \ {0}, output : Nat \ {0}, read : Nat, created : Nat]
GivenTypes == [blocks : Seq(BlockTypes), usage : UsageTypes, finish : STRING]
Distinct(blocks) == \A a, b \in 1 .. Len(blocks) : blocks[a].id = blocks[b].id => a = b
Answers(dialect, given) ==
    /\ given \in GivenTypes
    /\ dialect = "openai" => Distinct(given.blocks)
    /\ dialect # "anthropic" => given.usage.read + given.usage.created <= given.usage.input
ASSUME ResponsesAssumption == \A dialect \in Dialects : \A given \in Responses[dialect] : Answers(dialect, given)
ASSUME TurnBoundsAssumption == MaxRetries \in Nat /\ MaxTurns \in Nat /\ MaxChunk \in Nat \ {0}

VARIABLES
    frames,     \* activePermissions()
    held,       \* the provider states the caller holds
    ledger,     \* history: the prefixes recorded for Fable 5.1
    turns,      \* history: calls made
    phase,      \* where the turn is
    asked,      \* the call, until its response comes
    sent,       \* [request, body, messages]: what was built
    attempts,   \* attempt of fetchWithRetry()
    aborted,    \* the signal of the fetch is aborted
    response,   \* what the service answers
    wire,       \* the tokens of the body not read yet
    buffer,     \* buffer of decodeSSE()
    pending,    \* messages of a read not yielded yet
    decoder     \* the event mapper

turnVars == <<phase, asked, sent, attempts, aborted, response, wire, buffer, pending, decoder>>
vars == <<frames, held, ledger, turns, turnVars>>

NoCall == [no_call |-> TRUE]
NoBody == [request |-> NoRef, body |-> Nothing, messages |-> << >>]
NoResponse == [blocks |-> << >>, usage |-> Nothing, finish |-> "none"]
Provider == sent.request.provider
\* The adapters with a stream retry and mind the caller's signal; chat completions do neither.
Streams == {"openai", "xai", "anthropic", "google"}
Dialect == IF Provider = "xai" THEN "openai" ELSE Provider

Init ==
    /\ frames \in DOMAIN Calls
    /\ held = {} /\ ledger = {} /\ turns = 0
    /\ phase = "idle" /\ asked = NoCall /\ sent = NoBody /\ attempts = 0
    /\ aborted = FALSE /\ response = NoResponse
    /\ wire = << >> /\ buffer = << >> /\ pending = << >> /\ decoder = NewDecoder

\* The turn is over: it threw, it was left, or its result was returned.
Over ==
    /\ phase' = "idle" /\ asked' = NoCall /\ sent' = NoBody /\ attempts' = 0
    /\ aborted' = FALSE /\ response' = NoResponse
    /\ wire' = << >> /\ buffer' = << >> /\ pending' = << >> /\ decoder' = NewDecoder
    /\ turns' = turns + 1
    /\ UNCHANGED frames
Fail == Over /\ UNCHANGED <<held, ledger>>

--------------------------------------------------------------------------
(* ModelRuntime.stream() up to the dispatch.                               *)

Asked == {[call EXCEPT !.state = state] : call \in Calls[frames], state \in held \cup {Nothing}}

Dispatch(request) ==
    /\ sent' = [request |-> request, body |-> BodyOf(request), messages |-> Messages(request)]
    /\ phase' = "fetching"
    /\ UNCHANGED <<frames, held, ledger, turns, attempts, aborted, response, wire, buffer, pending, decoder>>

\* A call that may not be sent throws before anything is dispatched.
Ask(call) ==
    /\ phase = "idle" /\ turns < MaxTurns
    /\ IF Sendable(frames, call)
       THEN Dispatch(PackageKeeps(frames, Normalized(call))) /\ asked' = call
       ELSE Fail

--------------------------------------------------------------------------
(* fetchWithRetry().                                                       *)

Retry ==
    /\ phase' = "sleeping"
    /\ UNCHANGED <<frames, held, ledger, turns, asked, sent, attempts, aborted, response, wire, buffer, pending, decoder>>

FetchRejects ==
    /\ phase = "fetching"
    /\ IF Provider \notin Streams \/ attempts >= MaxRetries \/ aborted THEN Fail ELSE Retry
FetchRefused(retryable) ==
    /\ phase = "fetching" /\ ~ aborted
    /\ IF retryable /\ Provider \in Streams /\ attempts < MaxRetries THEN Retry ELSE Fail

\* The sleep between two attempts is not cut short by the signal.
Wake ==
    /\ phase = "sleeping"
    /\ phase' = "fetching" /\ attempts' = attempts + 1
    /\ UNCHANGED <<frames, held, ledger, turns, asked, sent, aborted, response, wire, buffer, pending, decoder>>

--------------------------------------------------------------------------
(* The services: a streamed response is cut into payloads, each a data     *)
(* line of an event, and Gemini ends its lines with CR LF.                 *)

NoReport == [input |-> 0, output |-> 0, read |-> 0, created |-> 0]
AnthropicBlockPayloads(block, index) ==
    <<[t |-> "content_block_start", index |-> index, kind |-> block.type, id |-> block.id]>>
    \o [i \in 1 .. Len(block.pieces) |->
            [t |-> "content_block_delta", index |-> index, kind |-> block.type, piece |-> block.pieces[i]]]
    \o <<[t |-> "content_block_stop", index |-> index]>>
AnthropicPayloads(given) ==
    <<[t |-> "message_start", usage |-> [given.usage EXCEPT !.output = 1]]>>
    \o Joined([i \in 1 .. Len(given.blocks) |-> AnthropicBlockPayloads(given.blocks[i], i)])
    \o <<[t |-> "message_delta", usage |-> [NoReport EXCEPT !.output = given.usage.output]], [t |-> "message_stop"]>>

OpenAIBlockPayloads(block) ==
    <<[t |-> "output_item.added", kind |-> block.type, id |-> block.id, pieces |-> << >>]>>
    \o [i \in 1 .. Len(block.pieces) |->
            [t |-> IF block.type = "text" THEN "output_text.delta" ELSE "arguments.delta", piece |-> block.pieces[i]]]
    \o <<[t |-> "output_item.done", kind |-> block.type, id |-> block.id, pieces |-> block.pieces]>>
OpenAIPayloads(given) ==
    Joined([i \in 1 .. Len(given.blocks) |-> OpenAIBlockPayloads(given.blocks[i])])
    \o <<[t |-> "response.completed", response |-> given]>>

\* A chunk per block, the usage so far in each, then the reason for the end.
GooglePayloads(given) ==
    [i \in 1 .. Len(given.blocks) |->
        [t |-> "chunk", parts |-> <<given.blocks[i]>>, usage |-> [given.usage EXCEPT !.output = i], finish |-> "none"]]
    \o <<[t |-> "chunk", parts |-> << >>, usage |-> given.usage, finish |-> given.finish]>>

PayloadsOf(dialect, given) ==
    CASE dialect = "anthropic" -> AnthropicPayloads(given)
      [] dialect = "google" -> GooglePayloads(given)
      [] OTHER -> OpenAIPayloads(given)
Wire(dialect, count) ==
    LET size == IF dialect = "google" THEN 5 ELSE 3
    IN  [n \in 1 .. size * count |->
            CASE (n - 1) % size = 0 -> Token("data", 1 + (n - 1) \div size)
              [] dialect = "google" /\ (n - 1) % size \in {1, 3} -> CR
              [] OTHER -> LF]

--------------------------------------------------------------------------
(* streamTurn() once there is a response, and decodeSSE().                 *)

\* What the rest of a turn needs of the request.
Fable == sent.request.model = "claude-fable-5-1"
Kept ==
    [request |-> [provider |-> Provider, model |-> sent.request.model],
     body |-> IF Fable THEN Only(sent.body, {"system", "tools"}) ELSE Nothing, messages |-> << >>]

FetchStreams ==
    /\ phase = "fetching" /\ ~ aborted /\ Provider \in Streams
    /\ \E given \in Responses[Dialect] :
         /\ response' = given
         /\ wire' = Wire(Dialect, Len(PayloadsOf(Dialect, given)))
    /\ phase' = "reading" /\ asked' = NoCall /\ sent' = Kept /\ attempts' = 0
    /\ UNCHANGED <<frames, held, ledger, turns, aborted, buffer, pending, decoder>>

\* A response that is not a stream is mapped as a whole.
FetchWhole ==
    /\ phase = "fetching" /\ ~ aborted
    /\ \E given \in Responses[Dialect] :
         /\ response' = given
         /\ decoder' = [NewDecoder EXCEPT !.answer = WholeAnswer(Dialect, given)]
    /\ phase' = "ended" /\ asked' = NoCall /\ sent' = Kept /\ attempts' = 0
    /\ UNCHANGED <<frames, held, ledger, turns, aborted, wire, buffer, pending>>

\* The loop of decodeSSE() yields what it has, and looks at the signal before it reads on.
Receive(n) ==
    /\ phase = "reading" /\ ~ aborted /\ n <= Len(wire)
    /\ LET read == Received(buffer, SubSeq(wire, 1, n))
       IN  /\ buffer' = read.buffer
           /\ pending' = read.messages
           /\ phase' = IF read.messages = << >> THEN "reading" ELSE "yielding"
    /\ wire' = SubSeq(wire, n + 1, Len(wire))
    /\ UNCHANGED <<frames, held, ledger, turns, asked, sent, attempts, aborted, response, decoder>>

\* The body ends: complete, early (a line may be cut), or by the reader.cancel() of an abort.
LastTexts ==
    {buffer} \cup IF ~ aborted /\ wire # << >> /\ wire[1].k = "data" THEN {Append(buffer, Token("torn", wire[1].v))} ELSE {}
BodyEnds ==
    /\ phase = "reading"
    /\ \E text \in LastTexts :
         /\ pending' = Remaining(text)
         /\ phase' = IF Remaining(text) = << >> THEN "finishing" ELSE "flushing"
    /\ wire' = << >> /\ buffer' = << >>
    /\ UNCHANGED <<frames, held, ledger, turns, asked, sent, attempts, aborted, response, decoder>>

\* The connection is lost, or the fetch minds its signal.
BodyFails ==
    /\ phase = "reading"
    /\ Fail

\* The mapper takes a message that parses; the consumer asks for the next event.
Payload(message) == PayloadsOf(Dialect, response)[message[1].v]
ParsesJson(message) == Len(message) = 1 /\ message[1].k = "data"
AfterLast == IF phase = "flushing" THEN "finishing" ELSE "reading"
MapNext ==
    /\ phase \in {"yielding", "flushing"}
    /\ LET message == Head(pending)
           mapped  == Mapped(Dialect, decoder, Payload(message))
           last    == Tail(pending) = << >>
       IN  IF ~ ParsesJson(message) \/ mapped.failed \/ (last /\ phase = "yielding" /\ aborted)
           THEN Fail
           ELSE /\ decoder' = mapped
                /\ pending' = Tail(pending)
                /\ phase' = IF last THEN AfterLast ELSE phase
                /\ UNCHANGED <<frames, held, ledger, turns, asked, sent, attempts, aborted, response, wire, buffer>>

\* Gemini completes whatever came; the others have completed in the stream, or not at all.
Finish ==
    /\ phase = "finishing"
    /\ phase' = "ended"
    /\ decoder' = IF Provider = "google" THEN [decoder EXCEPT !.answer = GeminiComplete(decoder)] ELSE decoder
    /\ UNCHANGED <<frames, held, ledger, turns, asked, sent, attempts, aborted, response, wire, buffer, pending>>

\* A consumer may stop at any yield.
Leave ==
    /\ phase \in {"yielding", "flushing"}
    /\ Fail

\* The result of run(): the caller keeps the state, or a copy it has lost the guard or the thinking of.
StateOf(answer) ==
    [provider |-> Provider, model |-> sent.request.model, response |-> answer.response, history |-> answer.history,
     guard |-> IF Provider = "anthropic" THEN ReplayGuard(sent.request.model, sent.body, answer.history) ELSE Nothing]
WithoutThinking(history) ==
    [i \in 1 .. Len(history) |->
        <<history[i][1], SelectSeq(history[i][2], LAMBDA kind : kind # "thinking"), history[i][3]>>]
Copies(state) ==
    {state} \cup IF state.guard = Nothing THEN {}
                ELSE {[state EXCEPT !.guard = Nothing], [state EXCEPT !.history = WithoutThinking(@)]}

Return ==
    /\ phase = "ended"
    /\ IF decoder.answer.done /\ Provider \in Streams
       THEN LET state == StateOf(decoder.answer)
            IN  /\ held' = held \cup Copies(state)
                /\ ledger' = ledger \cup IF state.guard = Nothing THEN {} ELSE {state.guard}
       ELSE UNCHANGED <<held, ledger>>
    /\ Over

--------------------------------------------------------------------------
(* timeoutSignal(): the timer, and the caller's own signal.                *)

Abort ==
    /\ phase \notin {"idle", "ended"} /\ ~ aborted
    /\ aborted' = TRUE
    /\ UNCHANGED <<frames, held, ledger, turns, phase, asked, sent, attempts, response, wire, buffer, pending, decoder>>
\* A mutant: the timer is cleared when the response has come.
TimerFiresBeforeResponse == Timeout /\ phase \in {"fetching", "sleeping"} /\ Abort

TimerFires == Timeout /\ Abort
CallerAborts == Provider \in Streams /\ Abort

--------------------------------------------------------------------------
Next ==
    \/ \E call \in Asked : Ask(call)
    \/ FetchRejects \/ \E retryable \in BOOLEAN : FetchRefused(retryable)
    \/ Wake \/ FetchStreams \/ FetchWhole
    \/ \E n \in 1 .. MaxChunk : Receive(n)
    \/ BodyEnds \/ BodyFails \/ MapNext \/ Finish \/ Leave \/ Return
    \/ TimerFires \/ CallerAborts

Spec == Init /\ [][Next]_vars

(***************************************************************************)
(* The service may take for ever.  A timer fires, a sleep ends, an aborted *)
(* fetch or read is settled by the platform, and the caller takes every    *)
(* event.  Fairness is stated of the steps that leave a place, whichever   *)
(* action they are of.                                                     *)
(***************************************************************************)
Leaves(from, to) == phase = from /\ phase' \in to
Consumed == phase \in {"yielding", "flushing"} /\ pending' \in {Tail(pending), << >>}
FairSpec ==
    /\ Spec
    /\ WF_vars(TimerFires)
    /\ WF_phase(Leaves("sleeping", {"fetching"}))
    /\ WF_phase(aborted /\ Leaves("fetching", {"idle"}))
    /\ WF_phase(aborted /\ Leaves("reading", {"flushing", "finishing", "idle"}))
    /\ WF_pending(Consumed)
    /\ WF_phase(Leaves("finishing", {"ended"}))
    /\ WF_phase(Leaves("ended", {"idle"}))

--------------------------------------------------------------------------
\* A result has the text, the calls, the usage, the kinds of blocks and the reason that the same
\* response gives when it comes whole, however the stream was cut into reads (http.ts decodeSSE()
\* and the mappers).  A stream that ended early has no completed answer, or no reason from Gemini.
Answered == phase = "ended" /\ IF Provider = "google" THEN decoder.answer.finish # "none" ELSE decoder.answer.done
DecodedAsWhole == Answered => decoder.answer = WholeAnswer(Dialect, response)

\* The estimate of an answer is what its service charges for the counts it reported, each token at
\* one rate: Anthropic counts cached input apart from the rest, the others within it
\* (core/usage.ts, pricing/index.ts estimate()).
Fresh(usage) ==
    CASE Provider = "anthropic" -> usage.input
      [] Provider = "google" -> usage.input - usage.read
      [] OTHER -> usage.input - usage.read - usage.created
Bill(usage, rates) ==
    Fresh(usage) * rates.input + usage.output * rates.output + usage.read * rates.cache_read
    + IF Provider = "google" THEN 0 ELSE usage.created * rates.cache_creation
PricedOnce ==
    (Answered /\ Priced(Provider, sent.request.model)) =>
      LET rates    == RatesOf(Provider, sent.request.model)
          estimate == Estimate(rates, decoder.answer.usage, DefaultPolicy)
      IN  /\ estimate.cost = Bill(response.usage, rates)
          /\ estimate.user_billable - estimate.cost \in 0 .. DefaultPolicy.increment - 1

\* The layers that may set a control, the strongest first, and where a body has it.
EnvName == [temperature |-> "TEMPERATURE", reasoning_effort |-> "REASONING_EFFORT", tool_choice |-> "TOOL_CHOICE_JSON",
            parallel_tool_calls |-> "PARALLEL_TOOL_CALLS"]
Variables(env) == [name \in {n \in DOMAIN EnvName : Has(env, EnvName[n])} |-> env[EnvName[name]]]
Layers(call) ==
    <<call.nested ++ call.controls, call.config.mapping.overrides, call.config.mapping.values, call.config.file.overrides,
      call.config.file.values, Variables(call.config.env.variables), WorkflowProfiles[LoadedProfile(call.config)].defaults>>
Setting(call, name) == {i \in DOMAIN Layers(call) : Has(Layers(call)[i], name)}
Strongest(call, name) == Layers(call)[CHOOSE i \in Setting(call, name) : \A j \in Setting(call, name) : i <= j][name]
\* Anthropic and Gemini have a word of their own for "required", and for the choice of one tool.
Adapted(provider, name, value) ==
    IF name # "tool_choice" \/ provider \in {"openai", "xai"} \/ value \in {"auto", "none"} THEN value
    ELSE IF value = "required" THEN "any" ELSE "tool"
Carried(request, body, name) ==
    CASE name = "reasoning_effort" /\ request.provider \in {"openai", "xai"} -> {f.effort : f \in Field(body, "reasoning")}
      [] name = "reasoning_effort" /\ request.provider = "anthropic" ->
           {f.effort : f \in Field(body, IF Adaptive(request.model) THEN "output_config" ELSE "thinking")}
      [] name = "tool_choice" /\ request.provider = "google" -> Field(body, "toolConfig")
      [] name # "tool_choice" /\ request.provider = "google" ->
           UNION {Field(f, IF name = "reasoning_effort" THEN "thinkingLevel" ELSE name) : f \in Field(body, "generationConfig")}
      [] OTHER -> Field(body, name)

\* A control reaches the wire with the value of the strongest layer that sets it: the call itself,
\* mapping, file (the overrides block of either first), environment, and last the profile, of which
\* the first layer that names one counts (config/index.ts, ModelRuntime.stream(),
\* normalizeTurnRequest() and the builders).
SentAsAsked ==
    phase \in {"fetching", "sleeping"} =>
      \A name \in {"temperature", "reasoning_effort", "tool_choice", "parallel_tool_calls"} :
        Setting(asked, name) # {} =>
          Carried(sent.request, sent.body, name) = {Adapted(Provider, name, Strongest(asked, name))}

\* Thinking is sent to Fable 5.1 only below the system prompt, the tools and the very messages some
\* turn of it recorded, and what it recorded goes to no other model of Anthropic while the guard is
\* there (anthropic/index.ts validateAnthropicReplay() and recordReplayPrefix()).
ReplayGuarded ==
    (phase \in {"fetching", "sleeping"} /\ Provider = "anthropic" /\ asked.state # Nothing) =>
      /\ (Fable /\ Thinks(asked.state.history)) =>
           \E guard \in ledger :
             /\ guard.message_count <= Len(sent.messages)
             /\ guard.digest = Fingerprint(sent.body, SubSeq(sent.messages, 1, guard.message_count))
      /\ asked.state.guard # Nothing => Fable

\* The names of a search on the wire.
SearchWires == WebSearchTypes \cup {"web_search_20260209", "googleSearch"}

\* Inside a package a request carries only hosted tools that run here, and a search of the service
\* if every frame allows it outright (core/tool-permissions.ts validatePackageModelConfig()).
SentWithinPackage ==
    (phase \in {"fetching", "sleeping"} /\ frames # NoFrames /\ Has(sent.body, "tools")) =>
      \A tool \in sent.body["tools"] \ {<<"function", name>> : name \in asked.tools} :
        \/ tool[1] \in SearchWires
           /\ PackageDecision(frames, HostedRequest("web_search", "before_hosted_tool_config")) = "allow"
        \/ tool[1] \in ClientExecuted \cup DOMAIN HostedAliases

\* A turn with a timeout, or whose caller aborts it, comes to an end even if the service says
\* nothing more (http.ts timeoutSignal(), fetchWithRetry() and decodeSSE()).
TurnsSettle == (phase # "idle" /\ (Timeout \/ aborted)) ~> (phase = "idle")
=============================================================================
