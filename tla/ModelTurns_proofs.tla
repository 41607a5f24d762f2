-------------------------- MODULE ModelTurns_proofs --------------------------
(***************************************************************************)
(* ModelTurns for every set of calls, every package and every bound: what  *)
(* a provider is sent is built of an accepted call and stays as it was     *)
(* checked.  So a replayed state keeps to its guard, the tools of a        *)
(* package keep to its grants, and every control of the call, from         *)
(* whichever layer, is in the body.  And for every response, of any number *)
(* of blocks and pieces, and every way to cut its body into reads: what is *)
(* answered is what the response says as a whole, and is priced once.      *)
(***************************************************************************)
EXTENDS ModelTurns, SequenceTheorems, WellFoundedInduction, TLAPS

\* The guard of a state the caller holds is one some turn recorded.
GuardsRecorded == \A state \in held : state.guard = Nothing \/ state.guard \in ledger

\* Until the response comes the turn keeps the accepted call and what was built of it.
Waiting == phase \in {"fetching", "sleeping"}
Request == PackageKeeps(frames, Normalized(asked))
RequestBuilt ==
    Waiting =>
      /\ Sendable(frames, asked)
      /\ asked.state \in held \cup {Nothing}
      /\ sent = [request |-> Request, body |-> BodyOf(Request), messages |-> Messages(Request)]

TurnInv == frames \in DOMAIN Calls /\ GuardsRecorded /\ RequestBuilt

-----------------------------------------------------------------------------
(* Partial functions: where a field of an overlaid function comes from.      *)

LEMMA NothingIsEmpty == DOMAIN Nothing = {}
BY DEF Nothing

LEMMA SingleWhenDomain ==
    ASSUME NEW condition, NEW key, NEW value
    PROVE  DOMAIN When(condition, Single(key, value)) \subseteq {key}
<1>1. CASE condition
    BY <1>1 DEF When, Single
<1>2. CASE ~ condition
    BY <1>2, NothingIsEmpty DEF When
<1> QED  BY <1>1, <1>2

LEMMA OnlyDomain ==
    ASSUME NEW f, NEW keys
    PROVE  DOMAIN Only(f, keys) \subseteq keys
BY DEF Only

LEMMA OverlaidDomain ==
    ASSUME NEW f, NEW g
    PROVE  DOMAIN (f ++ g) = DOMAIN f \cup DOMAIN g
BY DEF ++

LEMMA NotOverlaid ==
    ASSUME NEW key, NEW f, key \notin DOMAIN f, NEW g, key \notin DOMAIN g
    PROVE  key \notin DOMAIN (f ++ g)
BY OverlaidDomain

\* A field that the upper function does not set is that of the lower one.
LEMMA FieldBelow ==
    ASSUME NEW f, NEW g, NEW key, key \notin DOMAIN f
    PROVE  Field(f ++ g, key) = Field(g, key)
<1>1. DOMAIN (f ++ g) = DOMAIN f \cup DOMAIN g
    BY OverlaidDomain
<1>2. ASSUME key \in DOMAIN g PROVE (f ++ g)[key] = g[key]
    BY <1>2 DEF ++
<1> QED  BY <1>1, <1>2 DEF Field, Has

\* A field that the lower function does not set is that of the upper one.
LEMMA FieldAbove ==
    ASSUME NEW f, NEW g, NEW key, key \notin DOMAIN g
    PROVE  Field(f ++ g, key) = Field(f, key)
<1>1. DOMAIN (f ++ g) = DOMAIN f \cup DOMAIN g
    BY OverlaidDomain
<1>2. ASSUME key \in DOMAIN f PROVE (f ++ g)[key] = f[key]
    BY <1>2 DEF ++
<1> QED  BY <1>1, <1>2 DEF Field, Has

-----------------------------------------------------------------------------
(* The body that is sent has the fields its checks looked at.                *)

LEMMA AdaptiveKeepsFields ==
    ASSUME NEW request, NEW body, NEW key, key \notin {"output_config", "thinking"}
    PROVE  Field(AdaptiveBody(request, body), key) = Field(body, key)
<1> DEFINE output == When(Has(request.controls, "reasoning_effort"), Single("output_config", OutputConfig(request, body)))
           thinking == When(Has(request.controls, "reasoning_effort") /\ ~ Has(body, "thinking"),
                            Single("thinking", [type |-> "adaptive", effort |-> "none", budget |-> FALSE]))
<1>1. DOMAIN output \subseteq {"output_config"}
    BY SingleWhenDomain
<1>2. DOMAIN thinking \subseteq {"thinking"}
    BY SingleWhenDomain
<1>3. AdaptiveBody(request, body) = (output ++ thinking) ++ body
    BY Zenon DEF AdaptiveBody
<1> HIDE DEF output, thinking
<1>4. key \notin DOMAIN (output ++ thinking)
    BY <1>1, <1>2, OverlaidDomain
<1> QED  BY <1>3, <1>4, FieldBelow

LEMMA AnthropicFieldsStay ==
    ASSUME NEW request, request.provider = "anthropic", NEW key, key \notin {"output_config", "thinking"}
    PROVE  Field(BodyOf(request), key) = Field(MergedBody(BaseOf(request), request.extra), key)
<1> DEFINE body == MergedBody(BaseOf(request), request.extra)
<1>1. CASE Adaptive(request.model)
    <2>1. BodyOf(request) = AdaptiveBody(request, body)
        BY <1>1 DEF BodyOf
    <2> HIDE DEF body
    <2> QED  BY <2>1, AdaptiveKeepsFields DEF body
<1>2. CASE ~ Adaptive(request.model)
    BY <1>2 DEF BodyOf
<1> QED  BY <1>1, <1>2

LEMMA FingerprintStays ==
    ASSUME NEW request, request.provider = "anthropic", NEW prefix
    PROVE  Fingerprint(BodyOf(request), prefix) = Fingerprint(MergedBody(BaseOf(request), request.extra), prefix)
BY AnthropicFieldsStay DEF Fingerprint

\* A package takes hosted tools away and changes nothing else.
LEMMA PackageKeepsRequest ==
    ASSUME NEW call, NEW permissions
    PROVE  LET kept == PackageKeeps(permissions, Normalized(call))
           IN  /\ kept.state = call.state
               /\ kept.provider = Target(call).provider /\ kept.model = Target(call).model
               /\ kept.extra = call.extra /\ kept.tools = call.tools
BY DEF PackageKeeps, Normalized

-----------------------------------------------------------------------------
(* The invariant.                                                            *)

LEMMA InitEstablishesTurns == Init => TurnInv
BY DEF Init, TurnInv, GuardsRecorded, RequestBuilt, Waiting

\* A turn that is over waits for nothing, and no state is lost.
LEMMA OverKeepsTurns ==
    ASSUME Fail, TurnInv PROVE TurnInv'
BY DEF Fail, Over, TurnInv, GuardsRecorded, RequestBuilt, Waiting

LEMMA AskKeepsTurns ==
    ASSUME NEW call \in Asked, Ask(call), TurnInv PROVE TurnInv'
<1>1. CASE ~ Sendable(frames, call)
    BY <1>1, OverKeepsTurns DEF Ask
<1>2. CASE Sendable(frames, call)
    <2> DEFINE request == PackageKeeps(frames, Normalized(call))
    <2>1. Dispatch(request) /\ asked' = call
        BY <1>2 DEF Ask
    <2>2. frames' = frames /\ held' = held /\ ledger' = ledger
        BY <2>1 DEF Dispatch
    <2>3. call.state \in held \cup {Nothing}
        <3>1. PICK given \in Calls[frames], state \in held \cup {Nothing} : call = [given EXCEPT !.state = state]
            BY DEF Asked
        <3>2. "state" \in DOMAIN given
            BY <3>1, CallsAssumption DEF TurnInv, CallFields
        <3> QED  BY <3>1, <3>2
    <2>4. Sendable(frames, asked)'
        BY <1>2, <2>1, <2>2 DEF Sendable
    <2>5. Request' = request
        BY <2>1, <2>2 DEF Request
    <2>6. (sent = [request |-> Request, body |-> BodyOf(Request), messages |-> Messages(Request)])'
        BY <2>1, <2>5 DEF Dispatch
    <2> QED  BY <2>1, <2>2, <2>3, <2>4, <2>6 DEF TurnInv, GuardsRecorded, RequestBuilt
<1> QED  BY <1>1, <1>2

\* A step that changes neither what was built nor what the caller holds, and starts no wait.
LEMMA OthersKeepTurns ==
    ASSUME UNCHANGED <<frames, held, ledger>>, ~ Waiting' \/ (Waiting /\ UNCHANGED <<asked, sent>>), TurnInv
    PROVE  TurnInv'
<1>1. frames' \in DOMAIN Calls /\ GuardsRecorded'
    BY DEF TurnInv, GuardsRecorded
<1>2. CASE ~ Waiting'
    BY <1>1, <1>2 DEF TurnInv, RequestBuilt
<1>3. CASE Waiting /\ UNCHANGED <<asked, sent>>
    <2>1. Sendable(frames, asked)' <=> Sendable(frames, asked)
        BY <1>3 DEF Sendable
    <2>2. Request' = Request
        BY <1>3 DEF Request
    <2> QED  BY <1>1, <1>3, <2>1, <2>2 DEF TurnInv, RequestBuilt
<1> QED  BY <1>2, <1>3

\* What the caller keeps of an answer is recorded, in each of its copies.
LEMMA ReturnKeepsTurns ==
    ASSUME Return, TurnInv PROVE TurnInv'
<1> DEFINE state == StateOf(decoder.answer)
<1>1. Over /\ phase' = "idle" /\ frames' = frames
    BY DEF Return, Over
<1>2. GuardsRecorded'
    <2>1. CASE decoder.answer.done /\ Provider \in Streams
        <3>1. /\ held' = held \cup Copies(state)
              /\ ledger' = ledger \cup IF state.guard = Nothing THEN {} ELSE {state.guard}
            BY <2>1 DEF Return
        <3>2. ASSUME NEW copy \in Copies(state) PROVE copy.guard = Nothing \/ copy.guard \in ledger'
            <4>1. state = [provider |-> state.provider, model |-> state.model, response |-> state.response,
                           history |-> state.history, guard |-> state.guard]
                BY DEF StateOf
            <4> HIDE DEF state
            <4> QED  BY <3>1, <3>2, <4>1 DEF Copies
        <3> QED  BY <3>1, <3>2 DEF TurnInv, GuardsRecorded
    <2>2. CASE ~ (decoder.answer.done /\ Provider \in Streams)
        BY <2>2 DEF Return, TurnInv, GuardsRecorded
    <2> QED  BY <2>1, <2>2
<1> QED  BY <1>1, <1>2 DEF TurnInv, RequestBuilt, Waiting

LEMMA StepKeepsTurns ==
    ASSUME TurnInv, [Next]_vars PROVE TurnInv'
<1>1. ASSUME NEW call \in Asked, Ask(call) PROVE TurnInv'
    BY <1>1, AskKeepsTurns
<1>2. CASE FetchRejects \/ \E retryable \in BOOLEAN : FetchRefused(retryable)
    BY <1>2, OverKeepsTurns, OthersKeepTurns DEF FetchRejects, FetchRefused, Retry, Waiting
<1>3. CASE Wake
    BY <1>3, OthersKeepTurns DEF Wake, Waiting
<1>4. CASE FetchStreams
    BY <1>4, OthersKeepTurns DEF FetchStreams, Waiting
<1>5. CASE FetchWhole
    BY <1>5, OthersKeepTurns DEF FetchWhole, Waiting
<1>6. ASSUME NEW n \in 1 .. MaxChunk, Receive(n) PROVE TurnInv'
    <2>1. UNCHANGED <<frames, held, ledger>> /\ phase' \in {"reading", "yielding"}
        BY <1>6 DEF Receive
    <2> QED  BY <2>1, OthersKeepTurns DEF Waiting
<1>7. CASE BodyEnds
    <2>1. UNCHANGED <<frames, held, ledger>> /\ phase' \in {"finishing", "flushing"}
        BY <1>7 DEF BodyEnds
    <2> QED  BY <2>1, OthersKeepTurns DEF Waiting
<1>8. CASE BodyFails \/ Leave
    BY <1>8, OverKeepsTurns DEF BodyFails, Leave
<1>9. CASE MapNext
    <2>1. CASE Fail
        BY <2>1, OverKeepsTurns
    <2>2. CASE ~ Fail
        <3>1. UNCHANGED <<frames, held, ledger>> /\ phase' \in {phase, "finishing", "reading"} /\ ~ Waiting
            BY <1>9, <2>2 DEF MapNext, AfterLast, Waiting
        <3> QED  BY <3>1, OthersKeepTurns DEF Waiting
    <2> QED  BY <2>1, <2>2
<1>10. CASE Finish
    BY <1>10, OthersKeepTurns DEF Finish, Waiting
<1>11. CASE Return
    BY <1>11, ReturnKeepsTurns
<1>12. CASE Abort
    BY <1>12, OthersKeepTurns DEF Abort, Waiting
<1>13. CASE UNCHANGED vars
    BY <1>13, OthersKeepTurns DEF vars, turnVars, Waiting
<1> QED
    BY <1>1, <1>2, <1>3, <1>4, <1>5, <1>6, <1>7, <1>8, <1>9, <1>10, <1>11, <1>12, <1>13
       DEF Next, TimerFires, CallerAborts

LEMMA TurnsKeepInv == Spec => []TurnInv
BY InitEstablishesTurns, StepKeepsTurns, PTL DEF Spec

-----------------------------------------------------------------------------
(* Replays.                                                                  *)

\* An accepted call of Anthropic keeps to the guard of the state it replays.
LEMMA AcceptedReplays ==
    ASSUME NEW permissions, NEW call, Sendable(permissions, call), call.state # Nothing,
           Target(call).provider = "anthropic"
    PROVE  LET request == PackageKeeps(permissions, Normalized(call))
               guard == call.state.guard
           IN  IF guard # Nothing
               THEN /\ request.model = "claude-fable-5-1"
                    /\ guard.message_count <= Len(Messages(request))
                    /\ guard.digest = Fingerprint(BodyOf(request), SubSeq(Messages(request), 1, guard.message_count))
               ELSE ~ (request.model = "claude-fable-5-1" /\ Thinks(call.state.history))
<1> DEFINE request == PackageKeeps(permissions, Normalized(call))
           body == MergedBody(BaseOf(request), request.extra)
<1>1. request.provider = "anthropic" /\ request.state = call.state
    BY PackageKeepsRequest
<1>2. BodyAccepted(request)
    BY DEF Sendable
<1> HIDE DEF request
<1>3. ReplayAccepted(request, body, Messages(request))
    BY <1>1, <1>2 DEF BodyAccepted
<1>4. \A prefix : Fingerprint(BodyOf(request), prefix) = Fingerprint(body, prefix)
    BY <1>1, FingerprintStays
<1> HIDE DEF body
<1>5. IF call.state.guard # Nothing
      THEN /\ request.model = "claude-fable-5-1"
           /\ call.state.guard.message_count <= Len(Messages(request))
           /\ call.state.guard.digest
                = Fingerprint(BodyOf(request), SubSeq(Messages(request), 1, call.state.guard.message_count))
      ELSE ~ (request.model = "claude-fable-5-1" /\ Thinks(call.state.history))
    BY <1>1, <1>3, <1>4 DEF ReplayAccepted
<1> QED  BY <1>5 DEF request

LEMMA TurnsReplayGuarded == TurnInv => ReplayGuarded
<1> SUFFICES ASSUME TurnInv, Waiting, Provider = "anthropic", asked.state # Nothing
             PROVE  /\ (Fable /\ Thinks(asked.state.history)) =>
                         \E guard \in ledger :
                           /\ guard.message_count <= Len(sent.messages)
                           /\ guard.digest = Fingerprint(sent.body, SubSeq(sent.messages, 1, guard.message_count))
                    /\ asked.state.guard # Nothing => Fable
    BY DEF ReplayGuarded, Waiting
<1>1. /\ Sendable(frames, asked)
      /\ sent.request = Request /\ sent.body = BodyOf(Request) /\ sent.messages = Messages(Request)
    BY DEF TurnInv, RequestBuilt
<1>2. Target(asked).provider = "anthropic"
    BY <1>1, PackageKeepsRequest DEF Provider, Request
<1>3. asked.state.guard = Nothing \/ asked.state.guard \in ledger
    BY DEF TurnInv, RequestBuilt, GuardsRecorded
<1>4. IF asked.state.guard # Nothing
      THEN /\ Request.model = "claude-fable-5-1"
           /\ asked.state.guard.message_count <= Len(Messages(Request))
           /\ asked.state.guard.digest
                = Fingerprint(BodyOf(Request), SubSeq(Messages(Request), 1, asked.state.guard.message_count))
      ELSE ~ (Request.model = "claude-fable-5-1" /\ Thinks(asked.state.history))
    BY <1>1, <1>2, AcceptedReplays DEF Request
<1> QED  BY <1>1, <1>3, <1>4 DEF Fable

\* Thinking reaches Fable 5.1 only below a recorded prefix, and what was recorded reaches no other
\* model of Anthropic with its guard (validateAnthropicReplay() and recordReplayPrefix()).
THEOREM ReplaysAreGuarded == Spec => []ReplayGuarded
BY TurnsKeepInv, TurnsReplayGuarded, PTL

-----------------------------------------------------------------------------
(* Packages.                                                                 *)

LEMMA ChosenDomain ==
    ASSUME NEW request, NEW name
    PROVE  DOMAIN Chosen(request, name) \subseteq {name}
<1>1. CASE Has(request.controls, name)
    BY <1>1, OnlyDomain DEF Chosen, When
<1>2. CASE ~ Has(request.controls, name)
    BY <1>2, NothingIsEmpty DEF Chosen, When
<1> QED  BY <1>1, <1>2

\* Of the parts of a body of OpenAI the tool list alone is called "tools".
LEMMA OpenAIToolsField ==
    ASSUME NEW request
    PROVE  Field(OpenAIBase(request), "tools") \subseteq {OpenAITools(request)}
<1> DEFINE A == Only(request.controls, {"temperature", "tool_choice", "parallel_tool_calls"})
           B == Renamed(request, "reasoning_effort", "reasoning", LAMBDA effort : [effort |-> effort])
           C == OpenAITruncation(request)
           D == OpenAICache(request)
           E == OpenAIText(request)
           F == When(request.system # "none", Single("instructions", request.system))
           T == When(OpenAITools(request) # {}, Single("tools", OpenAITools(request)))
           P == When(request.state # Nothing /\ request.state.response # "none",
                     Single("previous_response_id", request.state.response))
<1>1. OpenAIBase(request) = (A ++ B ++ C ++ D ++ E ++ F ++ T) ++ P
    BY Zenon DEF OpenAIBase
<1>2. "tools" \notin DOMAIN A
    BY OnlyDomain
<1>3. "tools" \notin DOMAIN B
    BY SingleWhenDomain DEF Renamed
<1>4. "tools" \notin DOMAIN C
    BY SingleWhenDomain DEF OpenAITruncation
<1>5. "tools" \notin DOMAIN D
    <2> DEFINE X == When(CacheTtl(request) # "none" /\ request.model \notin DOMAIN CurrentOpenAI,
                         Single("prompt_cache_retention", CacheTtl(request)))
               Y == When(Has(request.controls, "cache") /\ request.controls["cache"] = "key", Single("prompt_cache_key", "key"))
    <2>1. DOMAIN X \subseteq {"prompt_cache_retention"}
        BY SingleWhenDomain
    <2>2. DOMAIN Y \subseteq {"prompt_cache_key"}
        BY SingleWhenDomain
    <2>3. D = X ++ Y
        BY Zenon DEF OpenAICache
    <2> HIDE DEF X, Y
    <2>4. "tools" \notin DOMAIN (X ++ Y)
        BY <2>1, <2>2, NotOverlaid
    <2> QED  BY <2>3, <2>4
<1>6. "tools" \notin DOMAIN E
    BY SingleWhenDomain DEF OpenAIText
<1>7. "tools" \notin DOMAIN F
    BY SingleWhenDomain
<1>8. "tools" \notin DOMAIN P
    BY SingleWhenDomain
<1>9. Field(T, "tools") \subseteq {OpenAITools(request)}
    BY NothingIsEmpty DEF Field, Has, When, Single
<1> HIDE DEF A, B, C, D, E, F, T, P
<1>10. "tools" \notin DOMAIN (A ++ B ++ C ++ D ++ E ++ F)
    BY <1>2, <1>3, <1>4, <1>5, <1>6, <1>7, Zenon, NotOverlaid
<1>11. Field((A ++ B ++ C ++ D ++ E ++ F) ++ T, "tools") = Field(T, "tools")
    BY <1>10, FieldBelow
<1> QED  BY <1>1, <1>8, <1>9, <1>11, FieldAbove

LEMMA AnthropicToolsField ==
    ASSUME NEW request
    PROVE  Field(AnthropicBase(request), "tools") \subseteq {AnthropicTools(request)}
<1> DEFINE A == Chosen(request, "temperature")
           B == Renamed(request, "tool_choice", "tool_choice", AnthropicChoice)
           C == AnthropicOutput(request)
           D == AnthropicThinking(request)
           E == AnthropicCompaction(request)
           F == AnthropicSystem(request)
           T == When(AnthropicTools(request) # {}, Single("tools", AnthropicTools(request)))
<1>1. AnthropicBase(request) = (A ++ B ++ C ++ D ++ E ++ F) ++ T
    BY Zenon DEF AnthropicBase
<1>2. "tools" \notin DOMAIN A
    BY ChosenDomain
<1>3. "tools" \notin DOMAIN B
    BY SingleWhenDomain DEF Renamed
<1>4. "tools" \notin DOMAIN C
    BY SingleWhenDomain DEF AnthropicOutput
<1>5. "tools" \notin DOMAIN D
    <2>1. CASE Adaptive(request.model)
        BY <2>1, NothingIsEmpty DEF AnthropicThinking, When
    <2>2. CASE ~ Adaptive(request.model)
        <3> DEFINE X == Renamed(request, "reasoning_effort", "thinking",
                                LAMBDA effort : [type |-> "adaptive", effort |-> effort, budget |-> FALSE])
        <3>1. D = X
            BY <2>2 DEF AnthropicThinking, When
        <3>2. "tools" \notin DOMAIN X
            BY SingleWhenDomain DEF Renamed
        <3> QED  BY <3>1, <3>2
    <2> QED  BY <2>1, <2>2
<1>6. "tools" \notin DOMAIN E
    BY SingleWhenDomain DEF AnthropicCompaction
<1>7. "tools" \notin DOMAIN F
    BY SingleWhenDomain DEF AnthropicSystem
<1>8. Field(T, "tools") \subseteq {AnthropicTools(request)}
    BY NothingIsEmpty DEF Field, Has, When, Single
<1> HIDE DEF A, B, C, D, E, F, T
<1>9. "tools" \notin DOMAIN (A ++ B ++ C ++ D ++ E ++ F)
    BY <1>2, <1>3, <1>4, <1>5, <1>6, <1>7, Zenon, NotOverlaid
<1> QED  BY <1>1, <1>8, <1>9, FieldBelow

LEMMA GoogleToolsField ==
    ASSUME NEW request
    PROVE  Field(GoogleBase(request), "tools") \subseteq {GoogleTools(request)}
<1> DEFINE A == When(GenerationConfig(request) # Nothing, Single("generationConfig", GenerationConfig(request)))
           B == Renamed(request, "tool_choice", "toolConfig", GoogleChoice)
           C == CachedContent(request)
           D == When(SystemParts(request) # << >>, Single("systemInstruction", SystemParts(request)))
           T == When(GoogleTools(request) # {}, Single("tools", GoogleTools(request)))
<1>1. GoogleBase(request) = (A ++ B ++ C ++ D) ++ T
    BY Zenon DEF GoogleBase
<1>2. "tools" \notin DOMAIN A
    BY SingleWhenDomain
<1>3. "tools" \notin DOMAIN B
    BY SingleWhenDomain DEF Renamed
<1>4. "tools" \notin DOMAIN C
    BY SingleWhenDomain DEF CachedContent
<1>5. "tools" \notin DOMAIN D
    BY SingleWhenDomain
<1>6. Field(T, "tools") \subseteq {GoogleTools(request)}
    BY NothingIsEmpty DEF Field, Has, When, Single
<1> HIDE DEF A, B, C, D, T
<1>7. "tools" \notin DOMAIN (A ++ B ++ C ++ D)
    BY <1>2, <1>3, <1>4, <1>5, Zenon, NotOverlaid
<1> QED  BY <1>1, <1>6, <1>7, FieldBelow

\* The tool list of a body with no extra fields is the one its provider's builder made.
ToolsOf(request) ==
    CASE request.provider \in {"openai", "xai"} -> {OpenAITools(request)}
      [] request.provider = "anthropic" -> {AnthropicTools(request)}
      [] request.provider = "google" -> {GoogleTools(request)}
      [] OTHER -> {}

LEMMA SentTools ==
    ASSUME NEW request, request.extra = Nothing
    PROVE  Field(BodyOf(request), "tools") \subseteq ToolsOf(request)
<1> DEFINE body == MergedBody(BaseOf(request), request.extra)
<1>1. Field(body, "tools") = Field(BaseOf(request), "tools")
    BY NothingIsEmpty, FieldBelow DEF MergedBody
<1>2. CASE request.provider \in {"openai", "xai"}
    <2>1. BodyOf(request) = OpenAIBody(request, body) /\ BaseOf(request) = OpenAIBase(request)
        BY <1>2 DEF BodyOf, BaseOf
    <2> DEFINE options == When(request.model \in DOMAIN CurrentOpenAI /\ CacheOptions(request, body) # Nothing,
                               Single("prompt_cache_options", CacheOptions(request, body)))
    <2>2. "tools" \notin DOMAIN options
        BY SingleWhenDomain
    <2>3. OpenAIBody(request, body) = options ++ body
        BY Zenon DEF OpenAIBody
    <2> HIDE DEF options, body
    <2>4. Field(BodyOf(request), "tools") = Field(OpenAIBase(request), "tools")
        BY <1>1, <2>1, <2>2, <2>3, FieldBelow
    <2> QED  BY <1>2, <2>4, OpenAIToolsField DEF ToolsOf
<1>3. CASE request.provider = "anthropic"
    <2>1. BaseOf(request) = AnthropicBase(request)
        BY <1>3 DEF BaseOf
    <2>2. Field(BodyOf(request), "tools") = Field(body, "tools")
        BY <1>3, AnthropicFieldsStay
    <2> HIDE DEF body
    <2> QED  BY <1>1, <1>3, <2>1, <2>2, AnthropicToolsField DEF ToolsOf
<1>4. CASE request.provider = "google"
    <2>1. BaseOf(request) = GoogleBase(request) /\ BodyOf(request) = body
        BY <1>4 DEF BaseOf, BodyOf
    <2> HIDE DEF body
    <2> QED  BY <1>1, <1>4, <2>1, GoogleToolsField DEF ToolsOf
<1>5. CASE request.provider \notin {"openai", "xai", "anthropic", "google"}
    <2>1. BaseOf(request) = ChatBase(request) /\ BodyOf(request) = body
        BY <1>5 DEF BaseOf, BodyOf
    <2>2. "tools" \notin DOMAIN ChatBase(request)
        BY ChosenDomain DEF ChatBase
    <2> HIDE DEF body
    <2> QED  BY <1>1, <2>1, <2>2 DEF Field, Has
<1> QED  BY <1>2, <1>3, <1>4, <1>5

\* What a declared type stands for: itself, but for the two aliases.
LEMMA KindOfType ==
    ASSUME NEW type
    PROVE  HostedKind(type) = IF type \in DOMAIN HostedAliases THEN HostedAliases[type] ELSE type
BY DEF HostedKind, CanonicalRef

LEMMA KindNames ==
    ASSUME NEW type
    PROVE  /\ HostedKind(type) = "web_search" => type = "web_search"
           /\ HostedKind(type) \in ClientExecuted => type \in ClientExecuted \cup DOMAIN HostedAliases
           /\ type \in {"remote_mcp", "raw"} => HostedKind(type) \notin ClientExecuted \cup {"web_search"}
BY KindOfType DEF HostedAliases, ClientExecuted

\* A package that accepts a request leaves the tools that run here, and a search it allows outright.
Searches(permissions) == PackageDecision(permissions, HostedRequest("web_search", "before_hosted_tool_config")) = "allow"
LEMMA AcceptedTools ==
    ASSUME NEW permissions, permissions # NoFrames, NEW request, PackageAccepts(permissions, request),
           NEW spec \in PackageKeeps(permissions, request).hosted
    PROVE  /\ KindStands(spec)
           /\ \/ HostedKind(spec.type) = "web_search" /\ Searches(permissions)
              \/ HostedKind(spec.type) \in ClientExecuted
<1>1. spec \in request.hosted /\ HostedVerdict(permissions, spec) # "deny"
    BY DEF PackageKeeps
<1>2. KindStands(spec) /\ IF HostedKind(spec.type) = "web_search"
                          THEN HostedVerdict(permissions, spec) # "require_approval"
                          ELSE HostedKind(spec.type) \in ClientExecuted
    BY <1>1 DEF PackageAccepts
<1>3. HostedVerdict(permissions, spec) \in {"deny", "require_approval", "allow"}
    BY DEF HostedVerdict, PackageDecision
<1>4. HostedKind(spec.type) = "web_search" => Searches(permissions)
    BY <1>1, <1>2, <1>3 DEF HostedVerdict, Searches
<1> QED  BY <1>2, <1>4

\* What may reach the wire of a package, and what a declared tool may stand for there.
WireAllowed(permissions, type) ==
    \/ type \in SearchWires /\ Searches(permissions)
    \/ type \in ClientExecuted \cup DOMAIN HostedAliases
KindAllowed(permissions, spec) ==
    /\ KindStands(spec)
    /\ \/ HostedKind(spec.type) = "web_search" /\ Searches(permissions)
       \/ HostedKind(spec.type) \in ClientExecuted

LEMMA DeclaredAllowed ==
    ASSUME NEW permissions, NEW spec, KindAllowed(permissions, spec)
    PROVE  /\ WireAllowed(permissions, spec.type)
           /\ spec.as # "none" => WireAllowed(permissions, spec.as)
           /\ spec.type \notin {"remote_mcp", "raw"}
           /\ spec.type = "web_search" => Searches(permissions)
<1>1. ASSUME NEW type, \/ HostedKind(type) = "web_search" /\ Searches(permissions)
                       \/ HostedKind(type) \in ClientExecuted
      PROVE  WireAllowed(permissions, type)
    BY <1>1, KindNames DEF WireAllowed, SearchWires, WebSearchTypes
<1>2. WireAllowed(permissions, spec.type)
    BY <1>1 DEF KindAllowed
<1>3. ASSUME spec.as # "none" PROVE WireAllowed(permissions, spec.as)
    <2>1. CASE spec.as = spec.type
        BY <1>2, <2>1
    <2>2. CASE HostedKind(spec.type) = "web_search" /\ spec.as \in WebSearchTypes
        <3>1. Searches(permissions)
            BY <2>2 DEF KindAllowed, ClientExecuted
        <3> QED  BY <2>2, <3>1 DEF WireAllowed, SearchWires
    <2>3. CASE HostedKind(spec.as) = HostedKind(spec.type)
        BY <1>1, <2>3 DEF KindAllowed
    <2> QED  BY <1>3, <2>1, <2>2, <2>3 DEF KindAllowed, KindStands
<1>4. spec.type \notin {"remote_mcp", "raw"}
    BY KindNames DEF KindAllowed
<1>5. spec.type = "web_search" => Searches(permissions)
    <2>1. HostedKind("web_search") = "web_search"
        BY KindOfType DEF HostedAliases
    <2> QED  BY <2>1 DEF KindAllowed, ClientExecuted
<1> QED  BY <1>2, <1>3, <1>4, <1>5

\* Anthropic's profile knows three hosted tools and refuses the others.
LEMMA AnthropicHosts ==
    ASSUME NEW model, NEW type, HostedSupported(AnthropicProfile(model), type)
    PROVE  type \in {"web_search", "remote_mcp", "raw"}
<1> DEFINE hosted == Rated({"web_search", "remote_mcp"}, {"raw"}, {"hosted_tools"})
<1>1. AnthropicProfile(model).hosted = hosted
    BY DEF AnthropicProfile
<1>2. DOMAIN hosted = {"web_search", "remote_mcp", "raw", "hosted_tools"} /\ hosted["hosted_tools"] = "unsupported"
    BY DEF Rated
<1> HIDE DEF hosted
<1> QED  BY <1>1, <1>2 DEF HostedSupported, Supported

\* No builder turns an allowed tool into another: OpenAI sends the name it goes by, Anthropic and
\* Gemini have tools of their own for a search and for nothing else a package admits.
LEMMA BuiltToolsAllowed ==
    ASSUME NEW permissions, NEW request,
           \A spec \in request.hosted :
               KindAllowed(permissions, spec) /\ HostedSupported(ProfileOf(request.provider, request.model), spec.type),
           NEW list \in ToolsOf(request),
           NEW tool \in list \ {<<"function", name>> : name \in request.tools}
    PROVE  WireAllowed(permissions, tool[1])
<1>1. CASE request.provider \in {"openai", "xai"}
    <2>1. list = OpenAITools(request)
        BY <1>1 DEF ToolsOf
    <2>2. PICK spec \in request.hosted :
            tool = <<IF spec.as # "none" THEN spec.as ELSE IF spec.type = "remote_mcp" THEN "mcp" ELSE spec.type, "hosted">>
        BY <2>1 DEF OpenAITools
    <2>3. tool[1] = IF spec.as # "none" THEN spec.as ELSE spec.type
        BY <2>2, DeclaredAllowed
    <2> QED  BY <2>3, DeclaredAllowed
<1>2. CASE request.provider = "anthropic"
    <2>1. list = AnthropicTools(request)
        BY <1>2 DEF ToolsOf
    <2>2. PICK spec \in request.hosted :
            tool = <<IF spec.as # "none" THEN spec.as
                     ELSE IF spec.type = "web_search" THEN WebSearchVersion(request.model) ELSE "mcp_toolset", "hosted">>
        BY <2>1 DEF AnthropicTools
    <2>3. CASE spec.as # "none"
        BY <2>2, <2>3, DeclaredAllowed
    <2>4. CASE spec.as = "none"
        <3>1. HostedSupported(AnthropicProfile(request.model), spec.type)
            BY <1>2 DEF ProfileOf
        <3>2. spec.type \in {"web_search", "remote_mcp", "raw"}
            BY <3>1, AnthropicHosts
        <3>3. spec.type = "web_search" /\ Searches(permissions)
            BY <3>2, DeclaredAllowed
        <3>4. tool[1] = WebSearchVersion(request.model)
            BY <2>2, <2>4, <3>3
        <3> QED  BY <3>3, <3>4 DEF WebSearchVersion, WireAllowed, SearchWires, WebSearchTypes
    <2> QED  BY <2>3, <2>4
<1>3. CASE request.provider = "google"
    <2>1. list = GoogleTools(request)
        BY <1>3 DEF ToolsOf
    <2>2. PICK spec \in {hosted \in request.hosted : hosted.type \in {"web_search", "raw"}} :
            tool = <<IF spec.type = "web_search" THEN "googleSearch" ELSE spec.as, "hosted">>
        BY <2>1 DEF GoogleTools
    <2>3. spec.type = "web_search" /\ Searches(permissions)
        BY <2>2, DeclaredAllowed
    <2> QED  BY <2>2, <2>3 DEF WireAllowed, SearchWires
<1>4. CASE request.provider \notin {"openai", "xai", "anthropic", "google"}
    BY <1>4 DEF ToolsOf
<1> QED  BY <1>1, <1>2, <1>3, <1>4

LEMMA TurnsWithinPackage == TurnInv => SentWithinPackage
<1> SUFFICES ASSUME TurnInv, Waiting, frames # NoFrames, Has(sent.body, "tools"),
                    NEW tool \in sent.body["tools"] \ {<<"function", name>> : name \in asked.tools}
             PROVE  WireAllowed(frames, tool[1])
    BY DEF SentWithinPackage, Waiting, WireAllowed, Searches
<1>1. Sendable(frames, asked) /\ sent.body = BodyOf(Request)
    BY DEF TurnInv, RequestBuilt
<1>2. PackageAccepts(frames, Normalized(asked)) /\ CapabilitiesHold(ProfileOf(Request.provider, Request.model), Request)
    BY <1>1 DEF Sendable, Request
<1>3. Request.extra = Nothing /\ Request.tools = asked.tools
    BY <1>2, PackageKeepsRequest DEF PackageAccepts, Normalized, Request
<1>4. sent.body["tools"] \in ToolsOf(Request)
    BY <1>1, <1>3, SentTools DEF Field
<1>5. \A spec \in Request.hosted : KindAllowed(frames, spec)
    BY <1>2, AcceptedTools DEF Request, KindAllowed
<1>6. \A spec \in Request.hosted : HostedSupported(ProfileOf(Request.provider, Request.model), spec.type)
    BY <1>2 DEF CapabilitiesHold
<1> QED  BY <1>3, <1>4, <1>5, <1>6, BuiltToolsAllowed

\* Inside a package no hosted tool reaches the wire but those that run here, and a search that every
\* frame allows outright, under whatever name it was declared (validatePackageModelConfig()).
THEOREM PackagesBoundRequests == Spec => []SentWithinPackage
BY TurnsKeepInv, TurnsWithinPackage, PTL

-----------------------------------------------------------------------------
(* Controls.  A field carries a value if it is set to it.                    *)

ControlNames == {"temperature", "reasoning_effort", "tool_choice", "parallel_tool_calls"}
Carries(f, key, value) == Field(f, key) = {value}

LEMMA CarriesMeans ==
    ASSUME NEW f, NEW key, NEW value
    PROVE  Carries(f, key, value) <=> key \in DOMAIN f /\ f[key] = value
BY DEF Carries, Field, Has

LEMMA CarriesAbove ==
    ASSUME NEW f, NEW g, NEW key, NEW value, Carries(f, key, value)
    PROVE  Carries(f ++ g, key, value)
<1>1. key \in DOMAIN f /\ f[key] = value
    BY CarriesMeans
<1>2. key \in DOMAIN (f ++ g) /\ (f ++ g)[key] = value
    BY <1>1 DEF ++
<1> QED  BY <1>2, CarriesMeans

LEMMA CarriesBelow ==
    ASSUME NEW f, NEW g, NEW key, NEW value, key \notin DOMAIN f, Carries(g, key, value)
    PROVE  Carries(f ++ g, key, value)
BY FieldBelow DEF Carries

LEMMA CarriesOnly ==
    ASSUME NEW f, NEW keys, NEW key \in keys, NEW value, Carries(f, key, value)
    PROVE  Carries(Only(f, keys), key, value)
<1>1. key \in DOMAIN f /\ f[key] = value
    BY CarriesMeans
<1>2. key \in DOMAIN Only(f, keys) /\ Only(f, keys)[key] = value
    BY <1>1 DEF Only
<1> QED  BY <1>2, CarriesMeans

\* The variable of a control is the only one for its field.
LEMMA EnvironmentField ==
    ASSUME NEW env, NEW name \in ControlNames
    PROVE  Field(FromEnv(env), name) = Field(Variables(env.variables), name)
<1> DEFINE given == {i \in DOMAIN EnvFields : Has(env.variables, EnvFields[i][1])}
           Named(n) == {i \in given : EnvFields[i][2] = n}
           Latest(n) == CHOOSE i \in Named(n) : \A j \in Named(n) : j <= i
           row == CASE name = "temperature" -> 3 [] name = "tool_choice" -> 6
                    [] name = "parallel_tool_calls" -> 7 [] name = "reasoning_effort" -> 8
<1>1. FromEnv(env) = [n \in {EnvFields[i][2] : i \in given} |-> env.variables[EnvFields[Latest(n)][1]]]
    BY DEF FromEnv
<1>2. /\ row \in DOMAIN EnvFields /\ row \in Nat
      /\ EnvFields[row][2] = name /\ EnvFields[row][1] = EnvName[name]
      /\ \A i \in DOMAIN EnvFields : EnvFields[i][2] = name => i = row
    BY DEF EnvFields, EnvName, ControlNames
<1> HIDE DEF row
<1>3. name \in DOMAIN EnvName
    BY DEF ControlNames, EnvName
<1>4. CASE Has(env.variables, EnvName[name])
    <2>1. row \in given
        BY <1>2, <1>4
    <2>2. Named(name) = {row}
        BY <1>2, <2>1
    <2> HIDE DEF given
    <2>3. Latest(name) = row
        BY <1>2, <2>2
    <2> HIDE DEF Latest
    <2>4. name \in {EnvFields[i][2] : i \in given}
        BY <1>2, <2>1
    <2>5. Carries(FromEnv(env), name, env.variables[EnvName[name]])
        BY <1>1, <1>2, <2>3, <2>4, CarriesMeans
    <2>6. Carries(Variables(env.variables), name, env.variables[EnvName[name]])
        BY <1>3, <1>4, CarriesMeans DEF Variables
    <2> QED  BY <2>5, <2>6 DEF Carries
<1>5. CASE ~ Has(env.variables, EnvName[name])
    <2>1. name \notin {EnvFields[i][2] : i \in given}
        BY <1>2, <1>5
    <2>2. name \notin DOMAIN FromEnv(env)
        <3> HIDE DEF given, Latest
        <3> QED  BY <1>1, <2>1
    <2>3. name \notin DOMAIN Variables(env.variables)
        BY <1>5 DEF Variables
    <2> QED  BY <2>2, <2>3 DEF Field, Has
<1> QED  BY <1>4, <1>5

\* The field of an overlay is that of the first function that has it.
LEMMA FieldOverlaid ==
    ASSUME NEW f, NEW g, NEW key
    PROVE  Field(f ++ g, key) = IF key \in DOMAIN f THEN Field(f, key) ELSE Field(g, key)
<1>1. ASSUME key \in DOMAIN f PROVE (f ++ g)[key] = f[key] /\ key \in DOMAIN (f ++ g)
    BY <1>1 DEF ++
<1> QED  BY <1>1, FieldBelow DEF Field, Has

\* The controls of a request are those of the strongest layers.
LEMMA LayersCollected ==
    ASSUME NEW call, NEW name \in ControlNames
    PROVE  Field(Normalized(call).controls, name) =
             LET L == Layers(call)
             IN  IF name \in DOMAIN L[1] THEN Field(L[1], name)
                 ELSE IF name \in DOMAIN L[2] THEN Field(L[2], name)
                 ELSE IF name \in DOMAIN L[3] THEN Field(L[3], name)
                 ELSE IF name \in DOMAIN L[4] THEN Field(L[4], name)
                 ELSE IF name \in DOMAIN L[5] THEN Field(L[5], name)
                 ELSE IF name \in DOMAIN L[6] THEN Field(L[6], name)
                 ELSE Field(L[7], name)
<1> DEFINE config == call.config
           values == MergedValues(config)
           mo == config.mapping.overrides
           mv == config.mapping.values
           fo == config.file.overrides
           fv == config.file.values
           ev == FromEnv(config.env)
           vs == Variables(config.env.variables)
           ds == WorkflowProfiles[LoadedProfile(config)].defaults
           only == Only(values, DOMAIN values \ {"provider", "model"})
<1>1. Normalized(call).controls = call.nested ++ (call.controls ++ only)
    BY DEF Normalized, Combined
<1>2. values = ((mo ++ mv) ++ (fo ++ fv) ++ ev) ++ ds
    BY DEF MergedValues, Overrides, FromMapping, FromFile
<1>3. /\ Layers(call)[1] = call.nested ++ call.controls /\ Layers(call)[2] = mo /\ Layers(call)[3] = mv
      /\ Layers(call)[4] = fo /\ Layers(call)[5] = fv /\ Layers(call)[6] = vs /\ Layers(call)[7] = ds
    BY DEF Layers
<1>4. Field(ev, name) = Field(vs, name)
    BY EnvironmentField
<1>5. (name \in DOMAIN ev) <=> (name \in DOMAIN vs)
    BY <1>4 DEF Field, Has
<1>6. Field(only, name) = Field(values, name)
    BY DEF Field, Has, Only, ControlNames
<1> HIDE DEF values, mo, mv, fo, fv, ev, vs, ds, only
<1>7. Field(Normalized(call).controls, name) =
        IF name \in DOMAIN (call.nested ++ call.controls) THEN Field(call.nested ++ call.controls, name)
        ELSE Field(values, name)
    <2>1. DOMAIN (call.nested ++ call.controls) = DOMAIN call.nested \cup DOMAIN call.controls
        BY OverlaidDomain
    <2> QED  BY <1>1, <1>6, <2>1, FieldOverlaid
<1>8. Field(values, name) =
        IF name \in DOMAIN mo THEN Field(mo, name) ELSE IF name \in DOMAIN mv THEN Field(mv, name)
        ELSE IF name \in DOMAIN fo THEN Field(fo, name) ELSE IF name \in DOMAIN fv THEN Field(fv, name)
        ELSE IF name \in DOMAIN vs THEN Field(vs, name) ELSE Field(ds, name)
    <2>1. Field(values, name) = IF name \in DOMAIN ((mo ++ mv) ++ (fo ++ fv) ++ ev)
                                THEN Field((mo ++ mv) ++ (fo ++ fv) ++ ev, name) ELSE Field(ds, name)
        BY <1>2, FieldOverlaid
    <2>2. Field((mo ++ mv) ++ (fo ++ fv) ++ ev, name) =
            IF name \in DOMAIN ((mo ++ mv) ++ (fo ++ fv)) THEN Field((mo ++ mv) ++ (fo ++ fv), name) ELSE Field(ev, name)
        BY FieldOverlaid
    <2>3. Field((mo ++ mv) ++ (fo ++ fv), name) =
            IF name \in DOMAIN (mo ++ mv) THEN Field(mo ++ mv, name) ELSE Field(fo ++ fv, name)
        BY FieldOverlaid
    <2>4. Field(mo ++ mv, name) = IF name \in DOMAIN mo THEN Field(mo, name) ELSE Field(mv, name)
        BY FieldOverlaid
    <2>5. Field(fo ++ fv, name) = IF name \in DOMAIN fo THEN Field(fo, name) ELSE Field(fv, name)
        BY FieldOverlaid
    <2>6. /\ DOMAIN ((mo ++ mv) ++ (fo ++ fv) ++ ev) = DOMAIN ((mo ++ mv) ++ (fo ++ fv)) \cup DOMAIN ev
          /\ DOMAIN ((mo ++ mv) ++ (fo ++ fv)) = DOMAIN (mo ++ mv) \cup DOMAIN (fo ++ fv)
          /\ DOMAIN (mo ++ mv) = DOMAIN mo \cup DOMAIN mv
          /\ DOMAIN (fo ++ fv) = DOMAIN fo \cup DOMAIN fv
        BY OverlaidDomain
    <2> QED  BY <1>4, <1>5, <2>1, <2>2, <2>3, <2>4, <2>5, <2>6
<1> QED  BY <1>3, <1>7, <1>8

LEMMA StrongestCarried ==
    ASSUME NEW call, NEW name \in ControlNames, Setting(call, name) # {}
    PROVE  Carries(Normalized(call).controls, name, Strongest(call, name))
<1> DEFINE L == Layers(call)
<1>1. DOMAIN L = 1 .. 7
    BY DEF Layers
<1> HIDE DEF L
<1>2. Setting(call, name) = {i \in 1 .. 7 : name \in DOMAIN L[i]}
    BY <1>1 DEF Setting, Has, L
<1>3. ASSUME NEW i \in 1 .. 7, name \in DOMAIN L[i], \A j \in 1 .. 7 : name \in DOMAIN L[j] => i <= j
      PROVE  Strongest(call, name) = L[i][name]
    <2>1. (CHOOSE k \in Setting(call, name) : \A j \in Setting(call, name) : k <= j) = i
        BY <1>2, <1>3
    <2> QED  BY <2>1 DEF Strongest, L
<1>4. ASSUME NEW i \in 1 .. 7, name \in DOMAIN L[i], \A j \in 1 .. 7 : name \in DOMAIN L[j] => i <= j
      PROVE  Field(L[i], name) = {Strongest(call, name)}
    BY <1>3, <1>4 DEF Field, Has
<1> DEFINE F == Field(Normalized(call).controls, name)
<1>5. F = IF name \in DOMAIN L[1] THEN Field(L[1], name) ELSE IF name \in DOMAIN L[2] THEN Field(L[2], name)
          ELSE IF name \in DOMAIN L[3] THEN Field(L[3], name) ELSE IF name \in DOMAIN L[4] THEN Field(L[4], name)
          ELSE IF name \in DOMAIN L[5] THEN Field(L[5], name) ELSE IF name \in DOMAIN L[6] THEN Field(L[6], name)
          ELSE Field(L[7], name)
    BY LayersCollected DEF L
<1> HIDE DEF F
<1>6. \E i \in 1 .. 7 : /\ name \in DOMAIN L[i] /\ \A j \in 1 .. 7 : name \in DOMAIN L[j] => i <= j
                        /\ F = Field(L[i], name)
    <2>1. \E i \in 1 .. 7 : name \in DOMAIN L[i]
        BY <1>2
    <2>2. \A i \in 1 .. 7 : i = 1 \/ i = 2 \/ i = 3 \/ i = 4 \/ i = 5 \/ i = 6 \/ i = 7
        OBVIOUS
    <2> QED  BY <1>5, <2>1, <2>2
<1>7. F = {Strongest(call, name)}
    BY <1>4, <1>6
<1> QED  BY <1>7 DEF F, Carries

LEMMA SingleCarries ==
    ASSUME NEW condition, condition, NEW key, NEW value
    PROVE  Carries(When(condition, Single(key, value)), key, value)
BY CarriesMeans DEF When, Single

LEMMA ChosenCarries ==
    ASSUME NEW request, NEW name, NEW value, Carries(request.controls, name, value)
    PROVE  Carries(Chosen(request, name), name, value)
<1>1. Has(request.controls, name)
    BY CarriesMeans DEF Has
<1>2. Chosen(request, name) = Only(request.controls, {name})
    BY <1>1 DEF Chosen, When
<1> QED  BY <1>2, CarriesOnly

\* Fields of the body that "extra" does not collide with stay as they were built.
LEMMA MergedCarries ==
    ASSUME NEW base, NEW extra, ~ Collides(base, extra), NEW key, NEW value, Carries(base, key, value)
    PROVE  Carries(MergedBody(base, extra), key, value)
<1>1. key \notin DOMAIN extra
    BY CarriesMeans DEF Collides
<1> QED  BY <1>1, CarriesBelow DEF MergedBody

LEMMA OpenAICarries ==
    ASSUME NEW request, NEW name \in {"temperature", "tool_choice", "parallel_tool_calls"}, NEW value,
           Carries(request.controls, name, value)
    PROVE  Carries(OpenAIBase(request), name, value)
<1> DEFINE A == Only(request.controls, {"temperature", "tool_choice", "parallel_tool_calls"})
           B == Renamed(request, "reasoning_effort", "reasoning", LAMBDA effort : [effort |-> effort])
           C == OpenAITruncation(request)
           D == OpenAICache(request)
           E == OpenAIText(request)
           F == When(request.system # "none", Single("instructions", request.system))
           T == When(OpenAITools(request) # {}, Single("tools", OpenAITools(request)))
           P == When(request.state # Nothing /\ request.state.response # "none",
                     Single("previous_response_id", request.state.response))
<1>1. OpenAIBase(request) = A ++ B ++ C ++ D ++ E ++ F ++ T ++ P
    BY Zenon DEF OpenAIBase
<1>2. Carries(A, name, value)
    BY CarriesOnly
<1> HIDE DEF A, B, C, D, E, F, T, P
<1>3. Carries(A ++ B ++ C ++ D ++ E ++ F ++ T ++ P, name, value)
    BY <1>2, CarriesAbove, Zenon
<1> QED  BY <1>1, <1>3

LEMMA OpenAICarriesEffort ==
    ASSUME NEW request, NEW value, Carries(request.controls, "reasoning_effort", value)
    PROVE  Carries(OpenAIBase(request), "reasoning", [effort |-> value])
<1> DEFINE A == Only(request.controls, {"temperature", "tool_choice", "parallel_tool_calls"})
           B == Renamed(request, "reasoning_effort", "reasoning", LAMBDA effort : [effort |-> effort])
           C == OpenAITruncation(request)
           D == OpenAICache(request)
           E == OpenAIText(request)
           F == When(request.system # "none", Single("instructions", request.system))
           T == When(OpenAITools(request) # {}, Single("tools", OpenAITools(request)))
           P == When(request.state # Nothing /\ request.state.response # "none",
                     Single("previous_response_id", request.state.response))
<1>1. OpenAIBase(request) = A ++ B ++ C ++ D ++ E ++ F ++ T ++ P
    BY Zenon DEF OpenAIBase
<1>2. "reasoning" \notin DOMAIN A
    BY OnlyDomain
<1>3. Has(request.controls, "reasoning_effort") /\ request.controls["reasoning_effort"] = value
    BY CarriesMeans DEF Has
<1>4. B = When(TRUE, Single("reasoning", [effort |-> value]))
    BY <1>3 DEF Renamed, When
<1>5. Carries(B, "reasoning", [effort |-> value])
    BY <1>4, SingleCarries
<1> HIDE DEF A, B, C, D, E, F, T, P
<1>6. Carries(A ++ B, "reasoning", [effort |-> value])
    BY <1>2, <1>5, CarriesBelow
<1>7. Carries(A ++ B ++ C ++ D ++ E ++ F ++ T ++ P, "reasoning", [effort |-> value])
    BY <1>6, CarriesAbove, Zenon
<1> QED  BY <1>1, <1>7

LEMMA AnthropicCarries ==
    ASSUME NEW request, NEW value
    PROVE  /\ Carries(request.controls, "temperature", value) => Carries(AnthropicBase(request), "temperature", value)
           /\ Carries(request.controls, "tool_choice", value) =>
                Carries(AnthropicBase(request), "tool_choice", AnthropicChoice(value))
           /\ Carries(request.controls, "reasoning_effort", value) /\ ~ Adaptive(request.model) =>
                Carries(AnthropicBase(request), "thinking", [type |-> "adaptive", effort |-> value, budget |-> FALSE])
<1> DEFINE A == Chosen(request, "temperature")
           B == Renamed(request, "tool_choice", "tool_choice", AnthropicChoice)
           C == AnthropicOutput(request)
           D == AnthropicThinking(request)
           E == AnthropicCompaction(request)
           F == AnthropicSystem(request)
           T == When(AnthropicTools(request) # {}, Single("tools", AnthropicTools(request)))
           thinking == [type |-> "adaptive", effort |-> value, budget |-> FALSE]
<1>1. AnthropicBase(request) = A ++ B ++ C ++ D ++ E ++ F ++ T
    BY Zenon DEF AnthropicBase
<1>2. DOMAIN A \subseteq {"temperature"}
    BY ChosenDomain
<1>3. DOMAIN B \subseteq {"tool_choice"}
    BY SingleWhenDomain DEF Renamed
<1>4. DOMAIN C \subseteq {"output_config"}
    BY SingleWhenDomain DEF AnthropicOutput
<1>5. Carries(request.controls, "temperature", value) => Carries(A, "temperature", value)
    BY ChosenCarries
<1>6. Carries(request.controls, "tool_choice", value) => Carries(B, "tool_choice", AnthropicChoice(value))
    <2> HAVE Carries(request.controls, "tool_choice", value)
    <2>1. Has(request.controls, "tool_choice") /\ request.controls["tool_choice"] = value
        BY CarriesMeans DEF Has
    <2>2. B = When(TRUE, Single("tool_choice", AnthropicChoice(value)))
        BY <2>1 DEF Renamed, When
    <2> QED  BY <2>2, SingleCarries
<1>7. Carries(request.controls, "reasoning_effort", value) /\ ~ Adaptive(request.model) => Carries(D, "thinking", thinking)
    <2> HAVE Carries(request.controls, "reasoning_effort", value) /\ ~ Adaptive(request.model)
    <2>1. Has(request.controls, "reasoning_effort") /\ request.controls["reasoning_effort"] = value
        BY CarriesMeans DEF Has
    <2>2. D = When(TRUE, Single("thinking", thinking))
        BY <2>1 DEF AnthropicThinking, Renamed, When
    <2> QED  BY <2>2, SingleCarries
<1> HIDE DEF A, B, C, D, E, F, T, thinking
<1>8. ASSUME Carries(A, "temperature", value) PROVE Carries(A ++ B ++ C ++ D ++ E ++ F ++ T, "temperature", value)
    BY <1>8, CarriesAbove, Zenon
<1>9. ASSUME Carries(B, "tool_choice", AnthropicChoice(value))
      PROVE  Carries(A ++ B ++ C ++ D ++ E ++ F ++ T, "tool_choice", AnthropicChoice(value))
    <2>1. "tool_choice" \notin DOMAIN A
        BY <1>2
    <2>2. Carries(A ++ B, "tool_choice", AnthropicChoice(value))
        BY <1>9, <2>1, CarriesBelow
    <2> QED  BY <2>2, CarriesAbove, Zenon
<1>10. ASSUME Carries(D, "thinking", thinking) PROVE Carries(A ++ B ++ C ++ D ++ E ++ F ++ T, "thinking", thinking)
    <2>1. "thinking" \notin DOMAIN A /\ "thinking" \notin DOMAIN B /\ "thinking" \notin DOMAIN C
        BY <1>2, <1>3, <1>4
    <2>2. "thinking" \notin DOMAIN (A ++ B ++ C)
        BY <2>1, NotOverlaid, Zenon
    <2>3. Carries((A ++ B ++ C) ++ D, "thinking", thinking)
        BY <1>10, <2>2, CarriesBelow
    <2> QED  BY <2>3, CarriesAbove, Zenon
<1> QED  BY <1>1, <1>5, <1>6, <1>7, <1>8, <1>9, <1>10 DEF thinking

LEMMA GoogleCarries ==
    ASSUME NEW request, NEW value
    PROVE  /\ Carries(request.controls, "tool_choice", value) =>
                Carries(GoogleBase(request), "toolConfig", GoogleChoice(value))
           /\ Carries(request.controls, "temperature", value) =>
                \E config : Carries(GoogleBase(request), "generationConfig", config) /\ Carries(config, "temperature", value)
           /\ Carries(request.controls, "reasoning_effort", value) =>
                \E config : Carries(GoogleBase(request), "generationConfig", config) /\ Carries(config, "thinkingLevel", value)
<1> DEFINE X == Chosen(request, "temperature")
           Y == Renamed(request, "reasoning_effort", "thinkingLevel", LAMBDA effort : effort)
           Z == When(request.output = "provider_native", Single("responseJsonSchema", "json_schema"))
           G == GenerationConfig(request)
           A == When(G # Nothing, Single("generationConfig", G))
           B == Renamed(request, "tool_choice", "toolConfig", GoogleChoice)
           C == CachedContent(request)
           D == When(SystemParts(request) # << >>, Single("systemInstruction", SystemParts(request)))
           T == When(GoogleTools(request) # {}, Single("tools", GoogleTools(request)))
<1>1. GoogleBase(request) = A ++ B ++ C ++ D ++ T
    BY Zenon DEF GoogleBase
<1>2. G = X ++ Y ++ Z
    BY Zenon DEF GenerationConfig
<1>3. DOMAIN A \subseteq {"generationConfig"}
    BY SingleWhenDomain
<1>4. DOMAIN X \subseteq {"temperature"}
    BY ChosenDomain
<1>5. Carries(request.controls, "temperature", value) => Carries(X, "temperature", value)
    BY ChosenCarries
<1>6. Carries(request.controls, "reasoning_effort", value) => Carries(Y, "thinkingLevel", value)
    <2> HAVE Carries(request.controls, "reasoning_effort", value)
    <2>1. Has(request.controls, "reasoning_effort") /\ request.controls["reasoning_effort"] = value
        BY CarriesMeans DEF Has
    <2>2. Y = When(TRUE, Single("thinkingLevel", value))
        BY <2>1 DEF Renamed, When
    <2> QED  BY <2>2, SingleCarries
<1>7. Carries(request.controls, "tool_choice", value) => Carries(B, "toolConfig", GoogleChoice(value))
    <2> HAVE Carries(request.controls, "tool_choice", value)
    <2>1. Has(request.controls, "tool_choice") /\ request.controls["tool_choice"] = value
        BY CarriesMeans DEF Has
    <2>2. B = When(TRUE, Single("toolConfig", GoogleChoice(value)))
        BY <2>1 DEF Renamed, When
    <2> QED  BY <2>2, SingleCarries
<1> HIDE DEF X, Y, Z, G
<1>8. ASSUME NEW key, Carries(G, key, value) PROVE Carries(A, "generationConfig", G)
    <2>1. G # Nothing
        BY <1>8, CarriesMeans, NothingIsEmpty
    <2> QED  BY <2>1, SingleCarries
<1> HIDE DEF A, B, C, D, T
<1>9. ASSUME Carries(A, "generationConfig", G) PROVE Carries(GoogleBase(request), "generationConfig", G)
    <2>1. Carries(A ++ B ++ C ++ D ++ T, "generationConfig", G)
        BY <1>9, CarriesAbove, Zenon
    <2> QED  BY <1>1, <2>1
<1>10. ASSUME Carries(B, "toolConfig", GoogleChoice(value)) PROVE Carries(GoogleBase(request), "toolConfig", GoogleChoice(value))
    <2>1. "toolConfig" \notin DOMAIN A
        BY <1>3
    <2>2. Carries(A ++ B, "toolConfig", GoogleChoice(value))
        BY <1>10, <2>1, CarriesBelow
    <2>3. Carries(A ++ B ++ C ++ D ++ T, "toolConfig", GoogleChoice(value))
        BY <2>2, CarriesAbove, Zenon
    <2> QED  BY <1>1, <2>3
<1>11. ASSUME Carries(X, "temperature", value) PROVE Carries(G, "temperature", value)
    <2>1. Carries(X ++ Y ++ Z, "temperature", value)
        BY <1>11, CarriesAbove, Zenon
    <2> QED  BY <1>2, <2>1
<1>12. ASSUME Carries(Y, "thinkingLevel", value) PROVE Carries(G, "thinkingLevel", value)
    <2>1. "thinkingLevel" \notin DOMAIN X
        BY <1>4
    <2>2. Carries(X ++ Y, "thinkingLevel", value)
        BY <1>12, <2>1, CarriesBelow
    <2>3. Carries(X ++ Y ++ Z, "thinkingLevel", value)
        BY <2>2, CarriesAbove
    <2> QED  BY <1>2, <2>3
<1> QED  BY <1>5, <1>6, <1>7, <1>8, <1>9, <1>10, <1>11, <1>12

LEMMA OneEffort ==
    ASSUME NEW body, NEW key, NEW setting, Carries(body, key, setting)
    PROVE  {f.effort : f \in Field(body, key)} = {setting.effort}
<1>1. Field(body, key) = {setting}
    BY DEF Carries
<1> QED  BY <1>1

\* Provider by provider, a control of an accepted request is in the body that is sent.
LEMMA OpenAISends ==
    ASSUME NEW request, request.provider \in {"openai", "xai"}, BodyAccepted(request),
           NEW name \in ControlNames, NEW value, Carries(request.controls, name, value)
    PROVE  Carried(request, BodyOf(request), name) = {Adapted(request.provider, name, value)}
<1> DEFINE base == OpenAIBase(request)
           body == MergedBody(base, request.extra)
           options == When(request.model \in DOMAIN CurrentOpenAI /\ CacheOptions(request, body) # Nothing,
                           Single("prompt_cache_options", CacheOptions(request, body)))
<1>1. BaseOf(request) = base
    BY DEF BaseOf
<1>2. ~ Collides(base, request.extra)
    BY <1>1 DEF BodyAccepted
<1>3. BodyOf(request) = options ++ body
    BY <1>1 DEF BodyOf, OpenAIBody
<1>4. DOMAIN options \subseteq {"prompt_cache_options"}
    BY SingleWhenDomain
<1> HIDE DEF base, body, options
<1>5. ASSUME NEW key, key # "prompt_cache_options", NEW given, Carries(base, key, given)
      PROVE  Carries(BodyOf(request), key, given)
    <2>1. Carries(body, key, given)
        BY <1>2, <1>5, MergedCarries DEF body
    <2> QED  BY <1>3, <1>4, <1>5, <2>1, CarriesBelow
<1>6. Adapted(request.provider, name, value) = value
    BY DEF Adapted
<1>7. CASE name = "reasoning_effort"
    <2>1. Carries(base, "reasoning", [effort |-> value])
        BY <1>7, OpenAICarriesEffort DEF base
    <2>2. Carries(BodyOf(request), "reasoning", [effort |-> value])
        BY <1>5, <2>1
    <2>3. Carried(request, BodyOf(request), name) = {f.effort : f \in Field(BodyOf(request), "reasoning")}
        BY <1>7 DEF Carried
    <2>4. {f.effort : f \in Field(BodyOf(request), "reasoning")} = {[effort |-> value].effort}
        BY <2>2, OneEffort
    <2> QED  BY <2>3, <2>4, <1>6
<1>8. CASE name # "reasoning_effort"
    <2>1. Carries(base, name, value)
        BY <1>8, OpenAICarries DEF base, ControlNames
    <2>2. Carries(BodyOf(request), name, value)
        BY <1>5, <2>1 DEF ControlNames
    <2>3. Carried(request, BodyOf(request), name) = Field(BodyOf(request), name)
        BY <1>8 DEF Carried
    <2> QED  BY <2>2, <2>3, <1>6 DEF Carries
<1> QED  BY <1>7, <1>8

LEMMA AnthropicSends ==
    ASSUME NEW request, request.provider = "anthropic", BodyAccepted(request),
           NEW name \in {"temperature", "tool_choice", "reasoning_effort"}, NEW value,
           Carries(request.controls, name, value)
    PROVE  Carried(request, BodyOf(request), name) = {Adapted("anthropic", name, value)}
<1> DEFINE base == AnthropicBase(request)
           body == MergedBody(base, request.extra)
<1>1. BaseOf(request) = base
    BY DEF BaseOf
<1>2. ~ Collides(base, request.extra)
    BY <1>1 DEF BodyAccepted
<1>3. ASSUME NEW key, key \notin {"output_config", "thinking"}, NEW given, Carries(base, key, given)
      PROVE  Carries(BodyOf(request), key, given)
    <2>1. Carries(body, key, given)
        BY <1>2, <1>3, MergedCarries
    <2> QED  BY <1>1, <1>3, <2>1, AnthropicFieldsStay DEF Carries
<1>4. CASE name = "temperature"
    <2>1. Carries(BodyOf(request), "temperature", value)
        BY <1>3, <1>4, AnthropicCarries
    <2>2. Carried(request, BodyOf(request), name) = Field(BodyOf(request), "temperature")
        BY <1>4 DEF Carried
    <2> QED  BY <1>4, <2>1, <2>2 DEF Carries, Adapted
<1>5. CASE name = "tool_choice"
    <2>1. Carries(BodyOf(request), "tool_choice", AnthropicChoice(value))
        BY <1>3, <1>5, AnthropicCarries
    <2>2. Carried(request, BodyOf(request), name) = Field(BodyOf(request), "tool_choice")
        BY <1>5 DEF Carried
    <2>3. Adapted("anthropic", "tool_choice", value) = AnthropicChoice(value)
        BY DEF Adapted, AnthropicChoice
    <2> QED  BY <1>5, <2>1, <2>2, <2>3 DEF Carries
<1>6. CASE name = "reasoning_effort" /\ ~ Adaptive(request.model)
    <2> DEFINE thinking == [type |-> "adaptive", effort |-> value, budget |-> FALSE]
    <2>1. Carries(body, "thinking", thinking)
        BY <1>2, <1>6, AnthropicCarries, MergedCarries
    <2>2. BodyOf(request) = body
        BY <1>1, <1>6 DEF BodyOf
    <2>3. Carried(request, BodyOf(request), name) = {f.effort : f \in Field(BodyOf(request), "thinking")}
        BY <1>6 DEF Carried
    <2>4. Adapted("anthropic", name, value) = value
        BY <1>6 DEF Adapted
    <2> HIDE DEF body, thinking
    <2>5. {f.effort : f \in Field(body, "thinking")} = {thinking.effort}
        BY <2>1, OneEffort
    <2> QED  BY <2>2, <2>3, <2>4, <2>5 DEF thinking
<1>7. CASE name = "reasoning_effort" /\ Adaptive(request.model)
    <2>1. Has(request.controls, "reasoning_effort") /\ request.controls["reasoning_effort"] = value
        BY <1>7, CarriesMeans DEF Has
    <2> DEFINE config == OutputConfig(request, body)
               given == When(Has(body, "output_config"), body["output_config"])
    <2>2. "effort" \in DOMAIN config
        <3>1. config = given ++ Renamed(request, "reasoning_effort", "effort", LAMBDA effort : effort)
            BY Zenon DEF OutputConfig
        <3>2. Renamed(request, "reasoning_effort", "effort", LAMBDA effort : effort) = Single("effort", value)
            BY <2>1 DEF Renamed, When
        <3>3. "effort" \in DOMAIN Single("effort", value)
            BY DEF Single
        <3> HIDE DEF config, given
        <3>4. DOMAIN config = DOMAIN given \cup DOMAIN Single("effort", value)
            BY <3>1, <3>2, OverlaidDomain
        <3> QED  BY <3>3, <3>4
    <2>3. config.effort = value
        <3>1. AdaptiveAccepts(request, body)
            BY <1>1, <1>7 DEF BodyAccepted
        <3> HIDE DEF body
        <3> QED  BY <2>1, <2>2, <3>1 DEF AdaptiveAccepts, Has
    <2>4. Carries(BodyOf(request), "output_config", config)
        <3> DEFINE X == When(Has(request.controls, "reasoning_effort"), Single("output_config", config))
                   Y == When(Has(request.controls, "reasoning_effort") /\ ~ Has(body, "thinking"),
                             Single("thinking", [type |-> "adaptive", effort |-> "none", budget |-> FALSE]))
        <3>1. BodyOf(request) = X ++ Y ++ body
            BY <1>1, <1>7 DEF BodyOf, AdaptiveBody
        <3>2. Carries(X, "output_config", config)
            BY <2>1, SingleCarries
        <3> HIDE DEF X, Y, body, config
        <3>3. Carries(X ++ Y ++ body, "output_config", config)
            BY <3>2, CarriesAbove
        <3> QED  BY <3>1, <3>3
    <2>5. Carried(request, BodyOf(request), name) = {f.effort : f \in Field(BodyOf(request), "output_config")}
        BY <1>7 DEF Carried
    <2>6. Adapted("anthropic", name, value) = value
        BY <1>7 DEF Adapted
    <2> HIDE DEF config, body
    <2>7. {f.effort : f \in Field(BodyOf(request), "output_config")} = {config.effort}
        BY <2>4, OneEffort
    <2> QED  BY <2>3, <2>5, <2>6, <2>7
<1> QED  BY <1>4, <1>5, <1>6, <1>7

LEMMA GoogleSends ==
    ASSUME NEW request, request.provider = "google", BodyAccepted(request),
           NEW name \in {"temperature", "tool_choice", "reasoning_effort"}, NEW value,
           Carries(request.controls, name, value)
    PROVE  Carried(request, BodyOf(request), name) = {Adapted("google", name, value)}
<1> DEFINE base == GoogleBase(request)
<1>1. BaseOf(request) = base /\ BodyOf(request) = MergedBody(base, request.extra)
    BY DEF BaseOf, BodyOf
<1>2. ~ Collides(base, request.extra)
    BY <1>1 DEF BodyAccepted
<1>3. ASSUME NEW key, NEW given, Carries(base, key, given) PROVE Carries(BodyOf(request), key, given)
    BY <1>1, <1>2, <1>3, MergedCarries
<1>4. CASE name = "tool_choice"
    <2>1. Carries(BodyOf(request), "toolConfig", GoogleChoice(value))
        BY <1>3, <1>4, GoogleCarries
    <2>2. Carried(request, BodyOf(request), name) = Field(BodyOf(request), "toolConfig")
        BY <1>4 DEF Carried
    <2>3. Adapted("google", "tool_choice", value) = GoogleChoice(value)
        BY DEF Adapted, GoogleChoice
    <2> QED  BY <1>4, <2>1, <2>2, <2>3 DEF Carries
<1>5. CASE name # "tool_choice"
    <2> DEFINE key == IF name = "reasoning_effort" THEN "thinkingLevel" ELSE name
    <2>1. PICK config : Carries(base, "generationConfig", config) /\ Carries(config, key, value)
        BY <1>5, GoogleCarries
    <2>2. Carries(BodyOf(request), "generationConfig", config)
        BY <1>3, <2>1
    <2>3. Carried(request, BodyOf(request), name) = UNION {Field(f, key) : f \in Field(BodyOf(request), "generationConfig")}
        BY <1>5 DEF Carried
    <2>4. Adapted("google", name, value) = value
        BY <1>5 DEF Adapted
    <2> HIDE DEF key
    <2> QED  BY <2>1, <2>2, <2>3, <2>4 DEF Carries
<1> QED  BY <1>4, <1>5

LEMMA ChatSends ==
    ASSUME NEW request, request.provider \notin {"openai", "xai", "anthropic", "google"}, BodyAccepted(request),
           NEW value, Carries(request.controls, "temperature", value)
    PROVE  Carried(request, BodyOf(request), "temperature") = {value}
<1>1. BaseOf(request) = ChatBase(request) /\ BodyOf(request) = MergedBody(ChatBase(request), request.extra)
    BY DEF BaseOf, BodyOf
<1>2. Carries(BodyOf(request), "temperature", value)
    BY <1>1, ChosenCarries, MergedCarries DEF ChatBase, BodyAccepted
<1>3. Carried(request, BodyOf(request), "temperature") = Field(BodyOf(request), "temperature")
    BY DEF Carried
<1> QED  BY <1>2, <1>3 DEF Carries

\* A control that a provider has no field for is refused.
LEMMA RefusedControls ==
    ASSUME NEW request, CapabilitiesHold(ProfileOf(request.provider, request.model), request),
           NEW name \in DOMAIN request.controls, name \in ControlNames
    PROVE  /\ request.provider \in {"anthropic", "google"} => name # "parallel_tool_calls"
           /\ request.provider \notin {"openai", "xai", "anthropic", "google"} => name = "temperature"
<1> DEFINE profile == ProfileOf(request.provider, request.model)
<1>1. Supported(profile.controls, name, FALSE)
    BY DEF CapabilitiesHold
<1>2. CASE request.provider = "anthropic"
    <2>1. profile = AnthropicProfile(request.model)
        BY <1>2 DEF ProfileOf
    <2> HIDE DEF profile
    <2>2. PICK more : profile.controls = Rated(Sampling \cup {"instructions", "reasoning_effort", "compaction", "cache"}, {"extra"},
                                               {"parallel_tool_calls"} \cup more)
        BY <2>1 DEF AnthropicProfile
    <2>3. name # "parallel_tool_calls"
        BY <1>1, <2>2 DEF Supported, Rated
    <2> QED  BY <1>2, <2>3
<1>3. CASE request.provider = "google"
    <2>1. profile = GoogleProfile(request.model)
        BY <1>3 DEF ProfileOf
    <2> HIDE DEF profile
    <2>2. profile.controls = Rated(Sampling \cup {"instructions", "reasoning_effort", "cache"}, {"extra"}, {"parallel_tool_calls"})
        BY <2>1 DEF GoogleProfile
    <2>3. name # "parallel_tool_calls"
        BY <1>1, <2>2 DEF Supported, Rated
    <2> QED  BY <1>3, <2>3
<1>4. CASE request.provider \notin {"openai", "xai", "anthropic", "google"}
    <2>1. profile = TextProfile
        BY <1>4 DEF ProfileOf
    <2>2. profile.controls = Rated({"instructions", "temperature"}, {}, {"extra"})
        BY <2>1 DEF TextProfile
    <2> HIDE DEF profile
    <2>3. name \in {"instructions", "temperature", "extra"}
        BY <1>1, <2>2 DEF Supported, Rated
    <2> QED  BY <1>4, <2>3 DEF ControlNames
<1> QED  BY <1>2, <1>3, <1>4

\* Whatever the provider, an accepted request carries its controls.
LEMMA RequestCarries ==
    ASSUME NEW request, BodyAccepted(request), CapabilitiesHold(ProfileOf(request.provider, request.model), request),
           NEW name \in ControlNames, NEW value, Carries(request.controls, name, value)
    PROVE  Carried(request, BodyOf(request), name) = {Adapted(request.provider, name, value)}
<1>1. name \in DOMAIN request.controls
    BY CarriesMeans
<1>2. /\ request.provider \in {"anthropic", "google"} => name # "parallel_tool_calls"
      /\ request.provider \notin {"openai", "xai", "anthropic", "google"} => name = "temperature"
    BY <1>1, RefusedControls
<1>3. CASE request.provider \in {"openai", "xai"}
    BY <1>3, OpenAISends
<1>4. CASE request.provider = "anthropic"
    BY <1>2, <1>4, AnthropicSends DEF ControlNames
<1>5. CASE request.provider = "google"
    BY <1>2, <1>5, GoogleSends DEF ControlNames
<1>6. CASE request.provider \notin {"openai", "xai", "anthropic", "google"}
    <2>1. Carried(request, BodyOf(request), "temperature") = {value}
        BY <1>2, <1>6, ChatSends
    <2> QED  BY <1>2, <1>6, <2>1 DEF Adapted
<1> QED  BY <1>3, <1>4, <1>5, <1>6

LEMMA TurnsSendAsAsked == TurnInv => SentAsAsked
<1> SUFFICES ASSUME TurnInv, Waiting, NEW name \in ControlNames, Setting(asked, name) # {}
             PROVE  Carried(sent.request, sent.body, name) = {Adapted(Provider, name, Strongest(asked, name))}
    BY DEF SentAsAsked, Waiting, ControlNames
<1> DEFINE value == Strongest(asked, name)
<1>1. Sendable(frames, asked) /\ sent.request = Request /\ sent.body = BodyOf(Request) /\ Provider = Request.provider
    BY DEF TurnInv, RequestBuilt, Provider
<1>2. BodyAccepted(Request) /\ CapabilitiesHold(ProfileOf(Request.provider, Request.model), Request)
    BY <1>1 DEF Sendable, Request
<1>3. Request.controls = Normalized(asked).controls
    BY DEF Request, PackageKeeps, Normalized
<1>4. Carries(Request.controls, name, value)
    BY <1>3, StrongestCarried
<1> HIDE DEF value
<1>5. Carried(Request, BodyOf(Request), name) = {Adapted(Request.provider, name, value)}
    BY <1>2, <1>4, RequestCarries
<1> QED  BY <1>1, <1>5 DEF value

\* Every control reaches the wire with the value of the strongest layer that sets it, under the name
\* its provider has for it, or the call is refused (RuntimeConfig, ModelRuntime.stream(),
\* normalizeTurnRequest() and the body builders of the adapters).
THEOREM ControlsReachTheWire == Spec => []SentAsAsked
BY TurnsKeepInv, TurnsSendAsAsked, PTL

-----------------------------------------------------------------------------
(* Numbers, and sequences that are joined: Joins is the recursive function it *)
(* is written as, and grows with every sequence.                             *)

LEMMA Least ==
  ASSUME NEW S \in SUBSET Nat, S # {}
  PROVE  \E x \in S : \A y \in S : x <= y
  <1>1. PICK x \in S : \A y \in S : ~ (<<y, x>> \in OpToRel(<, Nat))
    BY NatLessThanWellFounded, WFMin
  <1>2. \A y \in S : x <= y
    <2> TAKE y \in S
    <2>1. y \in Nat /\ x \in Nat
      OBVIOUS
    <2>2. y < x => <<y, x>> \in OpToRel(<, Nat)
      BY <2>1 DEF OpToRel
    <2>3. ~ (y < x)
      BY <1>1, <2>2
    <2> QED  BY <2>1, <2>3
  <1> QED  BY <1>2

LEMMA Inducted ==
  ASSUME NEW S, NEW top \in Nat, 0 \in S, \A n \in 0 .. top - 1 : n \in S => n + 1 \in S
  PROVE  \A n \in 0 .. top : n \in S
  <1> DEFINE Missed == (0 .. top) \ S
  <1> SUFFICES ASSUME Missed # {}  PROVE  FALSE
    OBVIOUS
  <1>1. PICK x \in Missed : \A y \in Missed : x <= y
    <2>1. Missed \in SUBSET Nat
      OBVIOUS
    <2> QED  BY <2>1, Least
  <1>2. x # 0 /\ x - 1 \in 0 .. top - 1
    OBVIOUS
  <1>3. x - 1 \notin Missed
    BY <1>1, <1>2
  <1> QED  BY <1>2, <1>3

LEMMA Greatest ==
  ASSUME NEW top \in Nat, NEW S \in SUBSET (0 .. top), S # {}
  PROVE  Max(S) \in S /\ \A y \in S : y <= Max(S)
  <1> DEFINE T == {top - s : s \in S}
  <1>1. T \in SUBSET Nat /\ T # {}
    <2>1. \A s \in S : top - s \in Nat
      OBVIOUS
    <2> QED  BY <2>1
  <1>2. PICK t \in T : \A y \in T : t <= y
    <2> HIDE DEF T
    <2> QED  BY <1>1, Least
  <1>3. PICK g \in S : t = top - g
    BY <1>2
  <1>4. \A y \in S : g >= y
    <2> TAKE y \in S
    <2>1. top - y \in T
      OBVIOUS
    <2>2. top - g <= top - y
      BY <1>2, <1>3, <2>1
    <2> QED  BY <2>2
  <1> DEFINE m == CHOOSE x \in S : \A y \in S : x >= y
  <1>5. m \in S /\ \A y \in S : m >= y
    BY <1>4
  <1> HIDE DEF m
  <1>6. \A y \in S : y <= m
    BY <1>5
  <1> QED  BY <1>5, <1>6 DEF Max, m

LEMMA JoinsEquation ==
  ASSUME NEW sequences, NEW N \in Nat, N = Len(sequences)
  PROVE  /\ Joins(sequences)[0] = << >>
         /\ \A n \in 1 .. N : Joins(sequences)[n] = Joins(sequences)[n - 1] \o sequences[n]
  <1> DEFINE Rule(f, d) == f = [n \in 0 .. d |-> IF n = 0 THEN << >> ELSE f[n - 1] \o sequences[n]]
             S == {d \in 0 .. N : \E f : Rule(f, d)}
  <1>1. 0 \in S
    <2> DEFINE g == [n \in 0 .. 0 |-> << >>]
    <2>1. Rule(g, 0)
      OBVIOUS
    <2> HIDE DEF g, Rule
    <2> QED  BY <2>1
  <1>2. ASSUME NEW d \in 0 .. N - 1, d \in S  PROVE  d + 1 \in S
    <2>1. PICK f : Rule(f, d)
      BY <1>2
    <2> DEFINE g == [n \in 0 .. d + 1 |-> IF n = d + 1 THEN f[d] \o sequences[d + 1] ELSE f[n]]
    <2>2. \A n \in 0 .. d + 1 : g[n] = IF n = 0 THEN << >> ELSE g[n - 1] \o sequences[n]
      BY <2>1
    <2>3. Rule(g, d + 1)
      <3>1. g = [n \in 0 .. d + 1 |-> g[n]]
        OBVIOUS
      <3> HIDE DEF g
      <3> QED BY <2>2, <3>1
    <2> HIDE DEF g, Rule
    <2> QED  BY <2>3
  <1>3. \E f : Rule(f, N)
    <2>1. N \in S
      <3> HIDE DEF S
      <3> QED  BY <1>1, <1>2, Inducted
    <2> HIDE DEF Rule
    <2> QED  BY <2>1
  <1>4. Joins(sequences) = CHOOSE f : Rule(f, N)
    BY Zenon DEF Joins
  <1>5. Rule(Joins(sequences), N)
    <2> HIDE DEF Rule
    <2> QED  BY <1>3, <1>4, Zenon
  <1> DEFINE J == Joins(sequences)
  <1>6. ASSUME NEW n \in 0 .. N  PROVE  J[n] = IF n = 0 THEN << >> ELSE J[n - 1] \o sequences[n]
    <2>1. J = [n_1 \in 0 .. N |-> IF n_1 = 0 THEN << >> ELSE J[n_1 - 1] \o sequences[n_1]]
      BY <1>5
    <2> HIDE DEF J
    <2> QED  BY <2>1, Zenon
  <1> HIDE DEF J
  <1>7. J[0] = << >>
    <2>1. 0 \in 0 .. N
      OBVIOUS
    <2> QED  BY <1>6, <2>1, Zenon
  <1>8. ASSUME NEW n \in 1 .. N  PROVE  J[n] = J[n - 1] \o sequences[n]
    <2>1. n \in 0 .. N /\ n # 0
      OBVIOUS
    <2> QED  BY <1>6, <2>1, Zenon
  <1> QED  BY <1>7, <1>8, Zenon DEF J

LEMMA JoinsNext ==
  ASSUME NEW sequences, Len(sequences) \in Nat, NEW n \in 0 .. Len(sequences) - 1
  PROVE  Joins(sequences)[n + 1] = Joins(sequences)[n] \o sequences[n + 1]
  <1>1. n + 1 \in 1 .. Len(sequences) /\ (n + 1) - 1 = n
    OBVIOUS
  <1> QED  BY <1>1, JoinsEquation, Zenon

LEMMA Concatenated ==
  ASSUME NEW X, NEW s \in Seq(X), NEW t \in Seq(X), NEW r, r = s \o t
  PROVE  /\ r \in Seq(X) /\ Len(s) \in Nat /\ Len(t) \in Nat /\ Len(r) = Len(s) + Len(t)
         /\ \A i \in 1 .. Len(s) : r[i] = s[i]
         /\ \A i \in 1 .. Len(t) : r[Len(s) + i] = t[i]
OBVIOUS

Follows(X, s, t, r) ==
    /\ r \in Seq(X) /\ Len(s) \in Nat /\ Len(t) \in Nat /\ Len(r) = Len(s) + Len(t)
    /\ \A i \in 1 .. Len(s) : r[i] = s[i]
    /\ \A i \in 1 .. Len(t) : r[Len(s) + i] = t[i]

LEMMA ConcatenatedAs ==
  ASSUME NEW X, NEW s \in Seq(X), NEW t \in Seq(X), NEW r, r = s \o t
  PROVE  Follows(X, s, t, r)
  <1>1. /\ r \in Seq(X) /\ Len(s) \in Nat /\ Len(t) \in Nat /\ Len(r) = Len(s) + Len(t)
        /\ \A i \in 1 .. Len(s) : r[i] = s[i]
        /\ \A i \in 1 .. Len(t) : r[Len(s) + i] = t[i]
    BY Concatenated
  <1> QED  BY <1>1, Zenon DEF Follows

LEMMA JoinsTyped ==
  ASSUME NEW X, NEW sequences \in Seq(Seq(X)), NEW n \in 0 .. Len(sequences)
  PROVE  Joins(sequences)[n] \in Seq(X)
  <1> DEFINE S == {m \in 0 .. Len(sequences) : Joins(sequences)[m] \in Seq(X)}
  <1>1. Len(sequences) \in Nat /\ 0 \in 0 .. Len(sequences)
    OBVIOUS
  <1>2. 0 \in S
    <2>1. Joins(sequences)[0] = << >>
      BY <1>1, JoinsEquation, Zenon
    <2>2. << >> \in Seq(X)
      OBVIOUS
    <2> QED  BY <1>1, <2>1, <2>2, Zenon
  <1>3. ASSUME NEW m \in 0 .. Len(sequences) - 1, m \in S  PROVE  m + 1 \in S
    <2>1. Joins(sequences)[m + 1] = Joins(sequences)[m] \o sequences[m + 1]
      BY <1>1, JoinsNext, Zenon
    <2>2. m + 1 \in 0 .. Len(sequences) /\ sequences[m + 1] \in Seq(X) /\ Joins(sequences)[m] \in Seq(X)
      BY <1>3
    <2>3. Joins(sequences)[m + 1] \in Seq(X)
      BY <2>1, <2>2, Concatenated, Zenon
    <2> QED  BY <2>2, <2>3, Zenon
  <1>4. \A m \in 0 .. Len(sequences) : m \in S
    <2> HIDE DEF S
    <2> QED  BY <1>1, <1>2, <1>3, Inducted
  <1> QED  BY <1>4

LEMMA JoinsLonger ==
  ASSUME NEW X, NEW sequences \in Seq(Seq(X)), NEW n \in 0 .. Len(sequences) - 1
  PROVE  /\ Joins(sequences)[n] \in Seq(X) /\ sequences[n + 1] \in Seq(X)
         /\ Joins(sequences)[n + 1] = Joins(sequences)[n] \o sequences[n + 1]
         /\ Len(Joins(sequences)[n + 1]) = Len(Joins(sequences)[n]) + Len(sequences[n + 1])
  <1>1. Len(sequences) \in Nat /\ n \in 0 .. Len(sequences) /\ sequences[n + 1] \in Seq(X)
    OBVIOUS
  <1>2. Joins(sequences)[n] \in Seq(X)
    BY <1>1, JoinsTyped
  <1>3. Joins(sequences)[n + 1] = Joins(sequences)[n] \o sequences[n + 1]
    BY <1>1, JoinsNext, Zenon
  <1> QED  BY <1>1, <1>2, <1>3

LEMMA ConcatenatedTail ==
  ASSUME NEW X, NEW s \in Seq(X), NEW t \in Seq(X), NEW r, r = s \o t, NEW j \in 1 .. Len(t)
  PROVE  r[Len(s) + j] = t[j]
OBVIOUS

LEMMA Longer ==
  ASSUME NEW a \in Nat, NEW b \in Nat, NEW c, c = a + b, NEW j \in 1 .. b
  PROVE  a + j \in 1 .. c
OBVIOUS

\* A join begins with every shorter one.
LEMMA JoinsGrow ==
  ASSUME NEW X, NEW sequences \in Seq(Seq(X)), NEW a \in 0 .. Len(sequences), NEW b \in a .. Len(sequences)
  PROVE  /\ Len(Joins(sequences)[a]) <= Len(Joins(sequences)[b])
         /\ \A i \in 1 .. Len(Joins(sequences)[a]) : Joins(sequences)[b][i] = Joins(sequences)[a][i]
  <1> DEFINE J == Joins(sequences)
             Begins(s, r) == Len(s) <= Len(r) /\ \A i \in 1 .. Len(s) : r[i] = s[i]
             S == {d \in 0 .. b - a : Begins(J[a], J[a + d])}
  <1>1. b - a \in Nat /\ a + 0 = a /\ J[a] \in Seq(X) /\ a + (b - a) = b
    BY JoinsTyped
  <1>2. ASSUME NEW s \in Seq(X), NEW r \in Seq(X), NEW t \in Seq(X), NEW q, q = r \o t, Begins(s, r)
        PROVE  Begins(s, q)
    BY <1>2
  <1>3. 0 \in S
    BY <1>1
  <1>4. ASSUME NEW d \in 0 .. (b - a) - 1, d \in S  PROVE  d + 1 \in S
    <2>1. a + d \in 0 .. Len(sequences) - 1 /\ d + 1 \in 0 .. b - a /\ a + (d + 1) = (a + d) + 1
      OBVIOUS
    <2>2. Begins(J[a], J[a + d])
      BY <1>4
    <2>3. J[a + d] \in Seq(X) /\ sequences[(a + d) + 1] \in Seq(X)
          /\ J[(a + d) + 1] = J[a + d] \o sequences[(a + d) + 1]
      BY <2>1, JoinsLonger, Zenon
    <2> HIDE DEF J, Begins
    <2>4. Begins(J[a], J[(a + d) + 1])
      BY <1>1, <1>2, <2>2, <2>3, Zenon
    <2> QED  BY <2>1, <2>4, Zenon
  <1>5. \A d \in 0 .. b - a : d \in S
    <2> HIDE DEF S
    <2> QED  BY <1>1, <1>3, <1>4, Inducted
  <1>6. Begins(J[a], J[b])
    <2>1. b - a \in S
      <3> HIDE DEF S
      <3> QED  BY <1>1, <1>5
    <2>2. Begins(J[a], J[a + (b - a)])
      <3> HIDE DEF Begins
      <3> QED  BY <2>1
    <2> QED  BY <1>1, <2>2, Zenon
  <1> QED  BY <1>6, Zenon

\* Where each element of the sequences is in the join.
LEMMA JoinedAt ==
  ASSUME NEW X, NEW sequences \in Seq(Seq(X)), NEW n \in 0 .. Len(sequences) - 1
  PROVE  /\ Len(Joins(sequences)[n]) + Len(sequences[n + 1]) <= Len(Joined(sequences))
         /\ \A j \in 1 .. Len(sequences[n + 1]) :
              Joined(sequences)[Len(Joins(sequences)[n]) + j] = sequences[n + 1][j]
  <1> DEFINE N == Len(sequences)
             J == Joins(sequences)
  <1>1. n + 1 \in 0 .. N /\ N \in n + 1 .. N
    OBVIOUS
  <1>2. J[n] \in Seq(X) /\ sequences[n + 1] \in Seq(X) /\ J[n + 1] = J[n] \o sequences[n + 1]
    BY JoinsLonger, Zenon
  <1>3. Len(J[n + 1]) = Len(J[n]) + Len(sequences[n + 1])
    BY JoinsLonger, Zenon
  <1>4. Len(J[n + 1]) <= Len(J[N]) /\ \A i \in 1 .. Len(J[n + 1]) : J[N][i] = J[n + 1][i]
    BY JoinsGrow, <1>1, Zenon
  <1> HIDE DEF N, J
  <1>5. Len(J[n]) \in Nat /\ Len(sequences[n + 1]) \in Nat
    BY <1>2, LenProperties
  <1>6. ASSUME NEW j \in 1 .. Len(sequences[n + 1])
        PROVE  J[N][Len(J[n]) + j] = sequences[n + 1][j]
    <2>1. Len(J[n]) + j \in 1 .. Len(J[n + 1])
      BY <1>3, <1>5, Longer, Zenon
    <2>2. J[n + 1][Len(J[n]) + j] = sequences[n + 1][j]
      <3> DEFINE s == J[n]
                 t == sequences[n + 1]
                 r == J[n + 1]
      <3>1. s \in Seq(X) /\ t \in Seq(X) /\ r = s \o t /\ j \in 1 .. Len(t)
        BY <1>2
      <3> HIDE DEF s, t, r
      <3>2. r[Len(s) + j] = t[j]
        BY <3>1, ConcatenatedTail
      <3> QED  BY <3>2 DEF s, t, r
    <2> QED  BY <1>4, <2>1, <2>2, Zenon
  <1>7. Len(J[n]) + Len(sequences[n + 1]) <= Len(J[N])
    BY <1>3, <1>4, Zenon
  <1> QED  BY <1>6, <1>7, Zenon DEF N, J, Joined

\* Two lists of sequences that begin alike are joined alike so far.
LEMMA JoinsSame ==
  ASSUME NEW N \in Nat, NEW s, NEW t, Len(s) \in Nat, Len(t) \in Nat, N <= Len(s), N <= Len(t),
         \A i \in 1 .. N : s[i] = t[i]
  PROVE  Joins(s)[N] = Joins(t)[N]
  <1> DEFINE S == {n \in 0 .. N : Joins(s)[n] = Joins(t)[n]}
  <1>1. 0 \in S
    <2>1. Joins(s)[0] = << >> /\ Joins(t)[0] = << >>
      BY JoinsEquation, Zenon
    <2> QED  BY <2>1
  <1>2. ASSUME NEW n \in 0 .. N - 1, n \in S  PROVE  n + 1 \in S
    <2>1. n \in 0 .. Len(s) - 1 /\ n \in 0 .. Len(t) - 1 /\ n + 1 \in 1 .. N /\ n + 1 \in 0 .. N
      OBVIOUS
    <2>2. Joins(s)[n + 1] = Joins(s)[n] \o s[n + 1] /\ Joins(t)[n + 1] = Joins(t)[n] \o t[n + 1]
      BY <2>1, JoinsNext, Zenon
    <2>3. Joins(s)[n] = Joins(t)[n] /\ s[n + 1] = t[n + 1]
      BY <1>2, <2>1
    <2>4. Joins(s)[n + 1] = Joins(t)[n + 1]
      BY <2>2, <2>3, Zenon
    <2> QED  BY <2>1, <2>4, Zenon
  <1>3. \A n \in 0 .. N : n \in S
    <2> HIDE DEF S
    <2> QED  BY <1>1, <1>2, Inducted
  <1> QED  BY <1>3

-----------------------------------------------------------------------------
(* The messages of a text.                                                   *)

Tokens == [k : {"lf", "cr", "data", "torn"}, v : Nat]
DataParts(block) == [i \in 1 .. Len(block) |-> DataIn(block[i])]

LEMMA DataPartsTyped ==
  ASSUME NEW block \in Seq(Tokens)
  PROVE  /\ DataParts(block) \in Seq(Seq(Tokens)) /\ Len(DataParts(block)) = Len(block)
         /\ \A i \in 1 .. Len(block) : DataParts(block)[i] = DataIn(block[i])
         /\ DataOf(block) = IF block = << >> THEN << >> ELSE Joined(DataParts(block))
  <1>1. \A token \in Tokens : DataIn(token) \in Seq(Tokens)
    BY DEF DataIn
  <1>2. \A i \in 1 .. Len(block) : block[i] \in Tokens
    OBVIOUS
  <1>3. DataParts(block) \in Seq(Seq(Tokens)) /\ Len(DataParts(block)) = Len(block)
    <2>1. Len(block) \in Nat /\ \A i \in 1 .. Len(block) : DataIn(block[i]) \in Seq(Tokens)
      BY <1>1, <1>2
    <2> QED  BY <2>1, IsASeq DEF DataParts
  <1>4. \A i \in 1 .. Len(block) : DataParts(block)[i] = DataIn(block[i])
    BY DEF DataParts
  <1>5. block # << >> => block[1].k # "comment"
    <2>1. block # << >> => block[1] \in Tokens
      OBVIOUS
    <2> QED  BY <2>1 DEF Tokens
  <1>6. DataOf(block) = IF block = << >> THEN << >> ELSE Joined(DataParts(block))
    BY <1>5, Zenon DEF DataOf, DataParts
  <1> QED  BY <1>3, <1>4, <1>6

LEMMA DataTyped ==
  ASSUME NEW block \in Seq(Tokens)
  PROVE  DataOf(block) \in Seq(Tokens) /\ MessageOf(block) \in Seq(Seq(Tokens))
  <1>1. Joined(DataParts(block)) \in Seq(Tokens)
    <2>1. Len(DataParts(block)) \in 0 .. Len(DataParts(block))
      BY DataPartsTyped
    <2> QED  BY <2>1, DataPartsTyped, JoinsTyped DEF Joined
  <1>2. DataOf(block) \in Seq(Tokens)
    BY <1>1, DataPartsTyped
  <1> QED  BY <1>2 DEF MessageOf

\* A block of line ends around at most one line of data, at place p.
LEMMA DataFound ==
  ASSUME NEW block \in Seq(Tokens), NEW p \in Nat,
         \A i \in 1 .. Len(block) : DataIn(block[i]) = IF i = p THEN <<block[i]>> ELSE << >>
  PROVE  DataOf(block) = IF p \in 1 .. Len(block) THEN <<block[p]>> ELSE << >>
  <1> DEFINE J == Joins(DataParts(block))
             Found(n) == IF p \in 1 .. n THEN <<block[p]>> ELSE << >>
             S == {n \in 0 .. Len(block) : J[n] = Found(n)}
  <1>1. Len(block) \in Nat /\ Len(DataParts(block)) = Len(block)
    BY DataPartsTyped
  <1>2. 0 \in S
    <2>1. J[0] = << >>
      BY <1>1, JoinsEquation, Zenon
    <2> HIDE DEF J
    <2> QED  BY <1>1, <2>1
  <1>3. ASSUME NEW n \in 0 .. Len(block) - 1, n \in S  PROVE  n + 1 \in S
    <2>1. n + 1 \in 1 .. Len(block) /\ n + 1 \in 0 .. Len(block) /\ n \in 0 .. Len(DataParts(block)) - 1
      BY <1>1
    <2>2. J[n + 1] = J[n] \o DataParts(block)[n + 1]
      BY <1>1, <2>1, JoinsNext, Zenon
    <2>3. J[n] = Found(n)
      BY <1>3
    <2>4. DataParts(block)[n + 1] = IF n + 1 = p THEN <<block[n + 1]>> ELSE << >>
      BY <2>1, DataPartsTyped, Zenon
    <2> HIDE DEF J
    <2>5. J[n + 1] = Found(n + 1)
      <3>1. CASE n + 1 = p
        <4>1. Found(n) = << >> /\ Found(n + 1) = <<block[p]>>
          BY <3>1
        <4> HIDE DEF Found
        <4> QED  BY <2>2, <2>3, <2>4, <3>1, <4>1
      <3>2. CASE n + 1 # p
        <4>1. Found(n + 1) = Found(n) /\ Found(n) \in Seq(Tokens)
          <5>1. p \in 1 .. n + 1 <=> p \in 1 .. n
            BY <3>2
          <5>2. p \in 1 .. n => block[p] \in Tokens
            BY <2>1
          <5> QED  BY <5>1, <5>2
        <4> HIDE DEF Found
        <4>2. Found(n) \o << >> = Found(n)
          BY <4>1
        <4> QED  BY <2>2, <2>3, <2>4, <3>2, <4>1, <4>2
      <3> QED  BY <3>1, <3>2
    <2> QED  BY <2>1, <2>5, Zenon
  <1>4. \A n \in 0 .. Len(block) : n \in S
    <2> HIDE DEF S
    <2> QED  BY <1>1, <1>2, <1>3, Inducted
  <1>5. J[Len(block)] = Found(Len(block))
    <2>1. Len(block) \in S
      <3> HIDE DEF S
      <3> QED  BY <1>1, <1>4
    <2> HIDE DEF J, Found
    <2> QED  BY <2>1
  <1>6. block # << >> => DataOf(block) = J[Len(block)]
    BY <1>1, DataPartsTyped, Zenon DEF Joined
  <1>7. block = << >> => DataOf(block) = << >> /\ Found(Len(block)) = << >>
    <2>1. block = << >> => DataOf(block) = << >>
      BY DataPartsTyped, Zenon
    <2>2. block = << >> => ~ (p \in 1 .. Len(block))
      OBVIOUS
    <2> QED  BY <2>1, <2>2
  <1> HIDE DEF J
  <1> QED  BY <1>5, <1>6, <1>7

\* A line end at the end of a block changes nothing.
LEMMA LineEndIgnored ==
  ASSUME NEW block \in Seq(Tokens)
  PROVE  MessageOf(Append(block, LF)) = MessageOf(block)
  <1> DEFINE longer == Append(block, LF)
             N == Len(block)
  <1>1. longer \in Seq(Tokens) /\ N \in Nat /\ Len(longer) = N + 1 /\ longer # << >> /\ longer[N + 1] = LF
        /\ \A i \in 1 .. N : longer[i] = block[i]
    <2>1. LF \in Tokens
      BY DEF LF, Token, Tokens
    <2> QED  BY <2>1, AppendProperties
  <1> HIDE DEF longer, N
  <1>2. /\ DataParts(longer) \in Seq(Seq(Tokens)) /\ Len(DataParts(longer)) = N + 1
        /\ \A i \in 1 .. N + 1 : DataParts(longer)[i] = DataIn(longer[i])
        /\ DataOf(longer) = Joined(DataParts(longer))
    <2>1. DataOf(longer) = Joined(DataParts(longer))
      BY <1>1, DataPartsTyped, Zenon
    <2> QED  BY <1>1, <2>1, DataPartsTyped
  <1>3. /\ DataParts(block) \in Seq(Seq(Tokens)) /\ Len(DataParts(block)) = N
        /\ \A i \in 1 .. N : DataParts(block)[i] = DataIn(block[i])
    BY DataPartsTyped DEF N
  <1>4. Joins(DataParts(longer))[N] = Joins(DataParts(block))[N]
    <2>1. \A i \in 1 .. N : DataParts(longer)[i] = DataParts(block)[i]
      BY <1>1, <1>2, <1>3
    <2>2. N <= N + 1 /\ N + 1 \in Nat /\ N <= N
      BY <1>1
    <2> QED  BY <1>1, <1>2, <1>3, <2>1, <2>2, JoinsSame
  <1>5. DataIn(LF) = << >>
    BY DEF DataIn, LF, Token
  <1>6. Joins(DataParts(longer))[N + 1] = Joins(DataParts(block))[N]
    <2>1. N \in 0 .. Len(DataParts(longer)) - 1 /\ N \in 0 .. Len(DataParts(block)) /\ N + 1 \in 1 .. N + 1
      BY <1>1, <1>2, <1>3
    <2>2. Joins(DataParts(longer))[N + 1] = Joins(DataParts(longer))[N] \o DataParts(longer)[N + 1]
      BY <1>2, <2>1, JoinsLonger, Zenon
    <2>3. DataParts(longer)[N + 1] = << >>
      BY <1>1, <1>2, <1>5, <2>1, Zenon
    <2>4. Joins(DataParts(block))[N] \in Seq(Tokens)
      BY <1>3, <2>1, JoinsTyped, Zenon
    <2>5. Joins(DataParts(block))[N] \o << >> = Joins(DataParts(block))[N]
      BY <2>4, ConcatEmptySeq, Zenon
    <2> QED  BY <1>4, <2>2, <2>3, <2>5, Zenon
  <1>7. DataOf(block) = Joins(DataParts(block))[N]
    <2>1. CASE block = << >>
      <3>1. N = 0 /\ DataOf(block) = << >>
        BY <2>1, DataPartsTyped DEF N
      <3>2. Joins(DataParts(block))[0] = << >>
        BY <1>1, <1>3, JoinsEquation, Zenon
      <3> QED  BY <3>1, <3>2
    <2>2. CASE block # << >>
      BY <1>3, <2>2, DataPartsTyped, Zenon DEF Joined
    <2> QED  BY <2>1, <2>2
  <1>8. DataOf(longer) = DataOf(block)
    BY <1>2, <1>6, <1>7, Zenon DEF Joined
  <1> QED  BY <1>8, Zenon DEF MessageOf, longer

-----------------------------------------------------------------------------
(* Splitting a text into blocks.                                             *)

NoScan == [messages |-> << >>, block |-> << >>]

\* The recursion over the tokens of a text is a function.
LEMMA ScansEquation ==
  ASSUME NEW text, NEW N \in Nat, N = Len(text)
  PROVE  /\ Scans(text)[0] = NoScan
         /\ \A n \in 1 .. N : Scans(text)[n] = Scanned(Scans(text)[n - 1], text[n])
  <1> DEFINE Rule(f, d) == f = [n \in 0 .. d |-> IF n = 0 THEN NoScan ELSE Scanned(f[n - 1], text[n])]
             S == {d \in 0 .. N : \E f : Rule(f, d)}
  <1>1. 0 \in S
    <2> DEFINE g == [n \in 0 .. 0 |-> NoScan]
    <2>1. Rule(g, 0)
      OBVIOUS
    <2> HIDE DEF g, Rule
    <2> QED  BY <2>1
  <1>2. ASSUME NEW d \in 0 .. N - 1, d \in S  PROVE  d + 1 \in S
    <2>1. PICK f : Rule(f, d)
      BY <1>2
    <2> DEFINE g == [n \in 0 .. d + 1 |-> IF n = d + 1 THEN Scanned(f[d], text[d + 1]) ELSE f[n]]
    <2>2. \A n \in 0 .. d + 1 : g[n] = IF n = 0 THEN NoScan ELSE Scanned(g[n - 1], text[n])
      BY <2>1
    <2>3. Rule(g, d + 1)
      <3>1. g = [n \in 0 .. d + 1 |-> g[n]]
        OBVIOUS
      <3> HIDE DEF g
      <3> QED BY <2>2, <3>1
    <2> HIDE DEF g, Rule
    <2> QED  BY <2>3
  <1>3. \E f : Rule(f, N)
    <2>1. N \in S
      <3> HIDE DEF S
      <3> QED  BY <1>1, <1>2, Inducted
    <2> HIDE DEF Rule
    <2> QED  BY <2>1
  <1>4. Scans(text) = CHOOSE f : Rule(f, N)
    BY Zenon DEF Scans, NoScan
  <1>5. Rule(Scans(text), N)
    <2> HIDE DEF Rule
    <2> QED  BY <1>3, <1>4, Zenon
  <1> DEFINE J == Scans(text)
  <1>6. ASSUME NEW n \in 0 .. N  PROVE  J[n] = IF n = 0 THEN NoScan ELSE Scanned(J[n - 1], text[n])
    <2>1. J = [n_1 \in 0 .. N |-> IF n_1 = 0 THEN NoScan ELSE Scanned(J[n_1 - 1], text[n_1])]
      BY <1>5
    <2> HIDE DEF J
    <2> QED  BY <2>1, Zenon
  <1> HIDE DEF J
  <1>7. J[0] = NoScan
    <2>1. 0 \in 0 .. N
      OBVIOUS
    <2> QED  BY <1>6, <2>1, Zenon
  <1>8. ASSUME NEW n \in 1 .. N  PROVE  J[n] = Scanned(J[n - 1], text[n])
    <2>1. n \in 0 .. N /\ n # 0
      OBVIOUS
    <2> QED  BY <1>6, <2>1, Zenon
  <1> QED  BY <1>7, <1>8, Zenon DEF J

LEMMA ScansNext ==
  ASSUME NEW text, Len(text) \in Nat, NEW n \in 0 .. Len(text) - 1
  PROVE  Scans(text)[n + 1] = Scanned(Scans(text)[n], text[n + 1])
  <1>1. n + 1 \in 1 .. Len(text) /\ (n + 1) - 1 = n
    OBVIOUS
  <1> QED  BY <1>1, ScansEquation, Zenon

\* One token more: the end of a block, or a block one token longer.
Splits(block, token) == token = LF /\ Len(block) > 0 /\ block[Len(block)] = LF
ScanTypes == [messages : Seq(Seq(Tokens)), block : Seq(Tokens)]
Continues(scan, token, next) ==
    /\ scan \in ScanTypes /\ next \in ScanTypes
    /\ Splits(scan.block, token) =>
         /\ next.messages = scan.messages \o MessageOf(SubSeq(scan.block, 1, Len(scan.block) - 1))
         /\ next.block = << >>
    /\ ~ Splits(scan.block, token) =>
         /\ next.messages = scan.messages
         /\ next.block = Append(scan.block, token)

\* A token joins the block, or is the second of two line ends and completes it.
LEMMA ScannedContinues ==
  ASSUME NEW scan \in ScanTypes, NEW token \in Tokens
  PROVE  Continues(scan, token, Scanned(scan, token))
  <1>1. scan.block \in Seq(Tokens) /\ scan.messages \in Seq(Seq(Tokens)) /\ Len(scan.block) \in Nat
    BY DEF ScanTypes
  <1>2. Append(scan.block, token) \in Seq(Tokens)
    BY <1>1
  <1>3. Splits(scan.block, token) => scan.messages \o MessageOf(SubSeq(scan.block, 1, Len(scan.block) - 1)) \in Seq(Seq(Tokens))
    <2> SUFFICES ASSUME Splits(scan.block, token)
                 PROVE  scan.messages \o MessageOf(SubSeq(scan.block, 1, Len(scan.block) - 1)) \in Seq(Seq(Tokens))
      OBVIOUS
    <2>1. SubSeq(scan.block, 1, Len(scan.block) - 1) \in Seq(Tokens)
      BY <1>1
    <2>2. MessageOf(SubSeq(scan.block, 1, Len(scan.block) - 1)) \in Seq(Seq(Tokens))
      BY <2>1, DataTyped
    <2> QED  BY <1>1, <2>2, ConcatProperties
  <1>4. << >> \in Seq(Tokens)
    OBVIOUS
  <1> DEFINE added == scan.messages \o MessageOf(SubSeq(scan.block, 1, Len(scan.block) - 1))
             longer == Append(scan.block, token)
  <1>5. Splits(scan.block, token) => Scanned(scan, token) = [messages |-> added, block |-> << >>]
    BY Zenon DEF Scanned, Splits
  <1>6. ~ Splits(scan.block, token) => Scanned(scan, token) = [messages |-> scan.messages, block |-> longer]
    BY Zenon DEF Scanned, Splits
  <1> HIDE DEF added, longer
  <1>7. CASE Splits(scan.block, token)
    <2>1. added \in Seq(Seq(Tokens))
      BY <1>3, <1>7 DEF added
    <2>2. [messages |-> added, block |-> << >>] \in ScanTypes
      BY <1>4, <2>1 DEF ScanTypes
    <2>3. Scanned(scan, token).messages = added /\ Scanned(scan, token).block = << >>
      BY <1>5, <1>7
    <2> QED  BY <1>5, <1>7, <2>2, <2>3, Zenon DEF added, Continues
  <1>8. CASE ~ Splits(scan.block, token)
    <2>1. longer \in Seq(Tokens)
      BY <1>2 DEF longer
    <2>2. [messages |-> scan.messages, block |-> longer] \in ScanTypes
      BY <1>1, <2>1 DEF ScanTypes
    <2>3. Scanned(scan, token).messages = scan.messages /\ Scanned(scan, token).block = longer
      BY <1>6, <1>8
    <2> QED  BY <1>6, <1>8, <2>2, <2>3, Zenon DEF longer, Continues
  <1> QED  BY <1>7, <1>8

LEMMA ScansTyped ==
  ASSUME NEW text \in Seq(Tokens), NEW n \in 0 .. Len(text)
  PROVE  Scans(text)[n] \in ScanTypes
  <1> DEFINE S == {m \in 0 .. Len(text) : Scans(text)[m] \in ScanTypes}
  <1>1. Len(text) \in Nat /\ 0 \in 0 .. Len(text)
    OBVIOUS
  <1>2. 0 \in S
    <2>1. Scans(text)[0] = NoScan
      BY <1>1, ScansEquation, Zenon
    <2>2. NoScan \in ScanTypes
      BY DEF NoScan, ScanTypes
    <2> QED  BY <1>1, <2>1, <2>2, Zenon
  <1>3. ASSUME NEW m \in 0 .. Len(text) - 1, m \in S  PROVE  m + 1 \in S
    <2>1. Scans(text)[m + 1] = Scanned(Scans(text)[m], text[m + 1])
      BY <1>1, ScansNext, Zenon
    <2>2. m + 1 \in 0 .. Len(text) /\ text[m + 1] \in Tokens /\ Scans(text)[m] \in ScanTypes
      BY <1>3
    <2>3. Scans(text)[m + 1] \in ScanTypes
      BY <2>1, <2>2, ScannedContinues, Zenon DEF Continues
    <2> QED  BY <2>2, <2>3, Zenon
  <1>4. \A m \in 0 .. Len(text) : m \in S
    <2> HIDE DEF S
    <2> QED  BY <1>1, <1>2, <1>3, Inducted
  <1> QED  BY <1>4

\* How the scan of a text goes on at a token.
LEMMA ScansLonger ==
  ASSUME NEW text \in Seq(Tokens), NEW n \in 0 .. Len(text) - 1, NEW m, m = n + 1, NEW token, token = text[m],
         NEW now, NEW next, now = Scans(text)[n], next = Scans(text)[m]
  PROVE  Continues(now, token, next)
  <1>1. Len(text) \in Nat /\ n \in 0 .. Len(text) /\ m \in 0 .. Len(text) /\ token \in Tokens
    OBVIOUS
  <1>2. now \in ScanTypes /\ next \in ScanTypes
    BY <1>1, ScansTyped
  <1>3. next = Scanned(now, token)
    BY <1>1, ScansNext
  <1> QED  BY <1>1, <1>2, <1>3, ScannedContinues, Zenon

\* Two texts that begin alike are scanned alike so far.
LEMMA ScansSame ==
  ASSUME NEW N \in Nat, NEW s, NEW t, Len(s) \in Nat, Len(t) \in Nat, N <= Len(s), N <= Len(t),
         \A i \in 1 .. N : s[i] = t[i]
  PROVE  Scans(s)[N] = Scans(t)[N]
  <1> DEFINE S == {n \in 0 .. N : Scans(s)[n] = Scans(t)[n]}
  <1>1. 0 \in S
    <2>1. Scans(s)[0] = NoScan /\ Scans(t)[0] = NoScan
      BY ScansEquation, Zenon
    <2> QED  BY <2>1
  <1>2. ASSUME NEW n \in 0 .. N - 1, n \in S  PROVE  n + 1 \in S
    <2>1. n \in 0 .. Len(s) - 1 /\ n \in 0 .. Len(t) - 1 /\ n + 1 \in 1 .. N /\ n + 1 \in 0 .. N
      OBVIOUS
    <2>2. /\ Scans(s)[n + 1] = Scanned(Scans(s)[n], s[n + 1])
          /\ Scans(t)[n + 1] = Scanned(Scans(t)[n], t[n + 1])
      BY <2>1, ScansNext, Zenon
    <2>3. Scans(s)[n] = Scans(t)[n] /\ s[n + 1] = t[n + 1]
      BY <1>2, <2>1
    <2>4. Scans(s)[n + 1] = Scans(t)[n + 1]
      BY <2>2, <2>3, Zenon
    <2> QED  BY <2>1, <2>4, Zenon
  <1>3. \A n \in 0 .. N : n \in S
    <2> HIDE DEF S
    <2> QED  BY <1>1, <1>2, Inducted
  <1> QED  BY <1>3

\* At a boundary the block so far is parsed, whichever of its line ends the split takes.
LEMMA BoundaryScanned ==
  ASSUME NEW text \in Seq(Tokens), NEW e \in Boundaries(text)
  PROVE  /\ Scans(text)[e + 1].messages = Scans(text)[e - 1].messages \o MessageOf(Scans(text)[e - 1].block)
         /\ Scans(text)[e + 1].block \in {<< >>, <<LF>>}
  <1> DEFINE a == Scans(text)[e - 1]
             b == Scans(text)[e]
             c == Scans(text)[e + 1]
  <1>1. /\ Len(text) \in Nat /\ e \in 1 .. Len(text) - 1
        /\ e - 1 \in 0 .. Len(text) - 1 /\ e \in 0 .. Len(text) - 1 /\ (e - 1) + 1 = e
        /\ text[e] = LF /\ text[e + 1] = LF
    BY DEF Boundaries
  <1>2. Continues(a, LF, b)
    <2>1. e = (e - 1) + 1 /\ LF = text[e]
      BY <1>1
    <2> QED  BY <1>1, <2>1, ScansLonger, Zenon
  <1>3. Continues(b, LF, c)
    <2>1. e + 1 = e + 1 /\ LF = text[e + 1]
      BY <1>1
    <2> QED  BY <1>1, <2>1, ScansLonger, Zenon
  <1> HIDE DEF a, b, c
  <1>4. a.block \in Seq(Tokens) /\ Len(a.block) \in Nat /\ LF \in Tokens
    BY <1>2 DEF Continues, ScanTypes, LF, Token, Tokens
  <1>5. CASE Splits(a.block, LF)
    <2>1. ~ Splits(b.block, LF)
      <3>1. b.block = << >>
        BY <1>2, <1>5, Zenon DEF Continues
      <3> QED  BY <3>1 DEF Splits
    <2>2. MessageOf(SubSeq(a.block, 1, Len(a.block) - 1)) = MessageOf(a.block)
      <3> DEFINE front == SubSeq(a.block, 1, Len(a.block) - 1)
      <3>1. front \in Seq(Tokens) /\ Append(front, LF) = a.block
        BY <1>4, <1>5 DEF Splits
      <3> HIDE DEF front
      <3>2. MessageOf(front) = MessageOf(a.block)
        BY <3>1, LineEndIgnored
      <3> QED  BY <3>2 DEF front
    <2>3. c.block = <<LF>>
      <3>1. b.block = << >> /\ c.block = Append(b.block, LF)
        BY <1>2, <1>3, <1>5, <2>1, Zenon DEF Continues
      <3> QED  BY <3>1
    <2>4. c.messages = a.messages \o MessageOf(a.block)
      BY <1>2, <1>3, <1>5, <2>1, <2>2, Zenon DEF Continues
    <2> QED  BY <2>3, <2>4 DEF a, c
  <1>6. CASE ~ Splits(a.block, LF)
    <2>1. b.block = Append(a.block, LF) /\ b.messages = a.messages
      BY <1>2, <1>6, Zenon DEF Continues
    <2>2. Splits(b.block, LF) /\ SubSeq(b.block, 1, Len(b.block) - 1) = a.block
      BY <1>4, <2>1 DEF Splits
    <2> QED  BY <1>3, <2>1, <2>2, Zenon DEF Continues, a, c
  <1> QED  BY <1>5, <1>6

Longest(r, x, w) == Append(r, x) = w

LEMMA AppendedLast ==
  ASSUME NEW X, NEW s \in Seq(X), NEW t \in Seq(X), NEW x \in X, NEW r, NEW v, NEW w
  PROVE  (r = s \o t /\ v = Append(t, x) /\ w = s \o v) => Longest(r, x, w)
  <1>1. Append(s \o t, x) = s \o Append(t, x)
    OBVIOUS
  <1> QED  BY <1>1, Zenon DEF Longest

Slices(t, b, q, r, w) == Append(r, t[q + 1]) = w /\ (b < q => (Len(r) > 0 /\ r[Len(r)] = t[q]))

\* A slice taken one token further.
LEMMA SliceLonger ==
  ASSUME NEW X, NEW s \in Seq(X), NEW t \in Seq(X), NEW b \in Nat, NEW q \in Nat, b <= q, q + 1 <= Len(t),
         NEW r, r = s \o SubSeq(t, b + 1, q), NEW w, w = s \o SubSeq(t, b + 1, q + 1)
  PROVE  Slices(t, b, q, r, w)
  <1> DEFINE u == SubSeq(t, b + 1, q)
             v == SubSeq(t, b + 1, q + 1)
             x == t[q + 1]
  <1>1. u \in Seq(X) /\ Len(u) = q - b /\ x \in X
    <2>1. Len(t) \in Nat /\ q <= Len(t) /\ b + 1 \in 1 .. Len(t) + 1 /\ q \in (b + 1) - 1 .. Len(t)
      OBVIOUS
    <2> QED  BY <2>1
  <1>2. v = Append(u, x)
    <2>1. Len(t) \in Nat /\ b + 1 \in 1 .. Len(t) /\ q + 1 \in b + 1 .. Len(t)
      OBVIOUS
    <2>2. v = SubSeq(t, b + 1, (q + 1) - 1) \o <<t[q + 1]>>
      BY <2>1, SubSeqRecursiveSecond, Zenon
    <2>3. (q + 1) - 1 = q
      OBVIOUS
    <2>4. Append(u, x) = u \o <<x>>
      BY <1>1, AppendIsConcat, Zenon
    <2> QED  BY <2>2, <2>3, <2>4, Zenon
  <1>3. b < q => u[Len(u)] = t[q] /\ Len(u) > 0
    BY <1>1
  <1> HIDE DEF u, v, x
  <1>5. Len(u) > 0 => Len(s \o u) > 0 /\ (s \o u)[Len(s \o u)] = u[Len(u)]
    BY <1>1
  <1>6. r = s \o u
    BY DEF u
  <1>9. w = s \o v
    BY DEF v
  <1>7. Longest(r, x, w)
    BY <1>1, <1>2, <1>6, <1>9, AppendedLast, Zenon
  <1>8. b < q => (Len(r) > 0 /\ r[Len(r)] = t[q])
    BY <1>3, <1>5, <1>6, Zenon
  <1> QED  BY <1>7, <1>8, Zenon DEF x, Longest, Slices

\* Past the last boundary nothing is split off.
LEMMA RestScanned ==
  ASSUME NEW text \in Seq(Tokens), NEW b \in 0 .. Len(text),
         \A i \in b + 1 .. Len(text) - 1 : ~ (text[i] = LF /\ text[i + 1] = LF),
         b < Len(text) => ~ Splits(Scans(text)[b].block, text[b + 1])
  PROVE  /\ Scans(text)[Len(text)].messages = Scans(text)[b].messages
         /\ Scans(text)[Len(text)].block = Scans(text)[b].block \o SubSeq(text, b + 1, Len(text))
  <1> DEFINE B == Scans(text)[b].block
             M == Scans(text)[b].messages
             Rest(q) == Scans(text)[q].messages = M /\ Scans(text)[q].block = B \o SubSeq(text, b + 1, q)
             S == {d \in 0 .. Len(text) - b : Rest(b + d)}
  <1>1. /\ Len(text) \in Nat /\ b \in Nat /\ Len(text) - b \in Nat /\ 0 \in 0 .. Len(text) - b
        /\ b + 0 = b /\ b + (Len(text) - b) = Len(text) /\ Len(text) - b \in 0 .. Len(text) - b
    OBVIOUS
  <1>2. B \in Seq(Tokens)
    BY ScansTyped DEF ScanTypes
  <1>3. 0 \in S
    <2>1. SubSeq(text, b + 1, b) = << >>
      BY <1>1
    <2> HIDE DEF B, M
    <2>2. B \o << >> = B
      BY <1>2
    <2>3. Rest(b)
      BY <2>1, <2>2, Zenon DEF B, M
    <2> HIDE DEF Rest
    <2> QED  BY <1>1, <2>3
  <1>4. ASSUME NEW d \in 0 .. (Len(text) - b) - 1, d \in S  PROVE  d + 1 \in S
    <2> DEFINE q == b + d
               now == Scans(text)[q]
               next == Scans(text)[q + 1]
               token == text[q + 1]
    <2>1. /\ q \in Nat /\ q \in 0 .. Len(text) - 1 /\ q + 1 = q + 1 /\ b <= q /\ q + 1 <= Len(text)
          /\ d + 1 \in 0 .. Len(text) - b /\ b + (d + 1) = q + 1 /\ (q = b \/ q \in b + 1 .. Len(text) - 1)
      BY <1>1
    <2>2. Continues(now, token, next)
      BY <2>1, ScansLonger, Zenon
    <2>3. now.messages = M /\ now.block = B \o SubSeq(text, b + 1, q)
      BY <1>4
    <2> HIDE DEF now, next, token, B, M
    <2>4. /\ Append(now.block, text[q + 1]) = B \o SubSeq(text, b + 1, q + 1)
          /\ b < q => (Len(now.block) > 0 /\ now.block[Len(now.block)] = text[q])
      <3> DEFINE block == now.block
                 longer == B \o SubSeq(text, b + 1, q + 1)
      <3>1. block = B \o SubSeq(text, b + 1, q) /\ longer = B \o SubSeq(text, b + 1, q + 1)
        BY <2>3
      <3> HIDE DEF q, block, longer
      <3>2. Slices(text, b, q, block, longer)
        BY <1>1, <1>2, <2>1, <3>1, SliceLonger, Zenon
      <3> QED  BY <3>2 DEF Slices, block, longer
    <2>5. ~ Splits(now.block, token)
      <3>1. CASE q = b
        BY <2>1, <3>1 DEF now, token
      <3>2. CASE q \in b + 1 .. Len(text) - 1
        <4>1. ~ (text[q] = LF /\ text[q + 1] = LF) /\ b < q
          BY <1>1, <3>2
        <4> HIDE DEF q
        <4> QED  BY <2>4, <4>1, Zenon DEF Splits, token
      <3> QED  BY <2>1, <3>1, <3>2
    <2>6. Rest(q + 1)
      BY <2>2, <2>3, <2>4, <2>5, Zenon DEF Continues, next, token
    <2> HIDE DEF q, Rest
    <2> QED  BY <2>1, <2>6, Zenon
  <1>5. \A d \in 0 .. Len(text) - b : d \in S
    <2> HIDE DEF S
    <2> QED  BY <1>1, <1>3, <1>4, Inducted
  <1>6. Rest(Len(text))
    <2>1. Len(text) - b \in S
      <3> HIDE DEF S
      <3> QED  BY <1>1, <1>5
    <2>2. Rest(b + (Len(text) - b))
      <3> HIDE DEF Rest
      <3> QED  BY <2>1
    <2> QED  BY <1>1, <2>2, Zenon
  <1> QED  BY <1>6, Zenon

ReadAs(read, last) ==
    /\ read.messages = last.messages /\ read.buffer \in Seq(Tokens)
    /\ last.block \in {read.buffer, <<LF>> \o read.buffer}

\* What a read of a chunk yields and keeps is what a scan of the whole text has parsed and is in, up
\* to a line end the last boundary takes and the split from the left does not.
LEMMA ReceivedScanned ==
  ASSUME NEW kept, NEW chunk, NEW text, text = NormalizedLines(kept \o chunk), text \in Seq(Tokens)
  PROVE  ReadAs(Received(kept, chunk), Scans(text)[Len(text)])
  <1> DEFINE end == Max({0} \cup Boundaries(text))
             rest == SubSeq(text, end + 2, Len(text))
             parsed == MessagesOf(SubSeq(text, 1, end - 1))
             L == Len(text)
             last == Scans(text)[L]
  <1>1. Len(text) \in Nat /\ Boundaries(text) \subseteq 1 .. L - 1
    BY DEF Boundaries
  <1>2. end \in {0} \cup Boundaries(text) /\ \A i \in Boundaries(text) : i <= end
    <2> DEFINE B == {0} \cup Boundaries(text)
    <2>1. B \in SUBSET (0 .. L) /\ B # {}
      BY <1>1
    <2> HIDE DEF B
    <2>2. Max(B) \in B /\ \A y \in B : y <= Max(B)
      BY <1>1, <2>1, Greatest
    <2> QED  BY <2>2 DEF B
  <1>3. Received(kept, chunk) =
          IF end = 0 THEN [messages |-> << >>, buffer |-> text] ELSE [messages |-> parsed, buffer |-> rest]
    BY Zenon DEF Received
  <1> HIDE DEF end
  <1> SUFFICES /\ Received(kept, chunk).messages = Scans(text)[Len(text)].messages
               /\ Received(kept, chunk).buffer \in Seq(Tokens)
               /\ Scans(text)[Len(text)].block \in {Received(kept, chunk).buffer, <<LF>> \o Received(kept, chunk).buffer}
    BY Zenon DEF ReadAs
  <1>4. CASE end = 0
    <2>1. Received(kept, chunk).messages = << >> /\ Received(kept, chunk).buffer = text
      BY <1>3, <1>4
    <2>2. \A i \in 0 + 1 .. L - 1 : ~ (text[i] = LF /\ text[i + 1] = LF)
      BY <1>1, <1>2, <1>4 DEF Boundaries
    <2>3. Scans(text)[0] = NoScan
      BY <1>1, ScansEquation, Zenon
    <2>4. 0 < L => ~ Splits(Scans(text)[0].block, text[0 + 1])
      BY <2>3 DEF Splits, NoScan
    <2>5. 0 \in 0 .. L
      BY <1>1
    <2>6. last.messages = Scans(text)[0].messages /\ last.block = Scans(text)[0].block \o SubSeq(text, 0 + 1, L)
      BY <2>2, <2>4, <2>5, RestScanned, Zenon
    <2>7. << >> \o SubSeq(text, 0 + 1, L) = text
      <3>1. SubSeq(text, 0 + 1, L) = text
        OBVIOUS
      <3> QED  BY <3>1
    <2>8. last.messages = << >> /\ last.block = text
      BY <2>3, <2>6, <2>7, SMTT(30) DEF NoScan
    <2> QED  BY <2>1, <2>8
  <1>5. CASE end # 0
    <2>1. end \in Boundaries(text) /\ end \in 1 .. L - 1
      BY <1>1, <1>2, <1>5
    <2>2. Received(kept, chunk).messages = parsed /\ Received(kept, chunk).buffer = rest
      <3> HIDE DEF rest, parsed
      <3> QED  BY <1>3, <1>5
    <2>3. /\ Scans(text)[end + 1].messages = Scans(text)[end - 1].messages \o MessageOf(Scans(text)[end - 1].block)
          /\ Scans(text)[end + 1].block \in {<< >>, <<LF>>}
      BY <2>1, BoundaryScanned
    <2>4. parsed = Scans(text)[end - 1].messages \o MessageOf(Scans(text)[end - 1].block)
      <3> DEFINE begun == SubSeq(text, 1, end - 1)
      <3>1. begun \in Seq(Tokens) /\ Len(begun) = end - 1 /\ end - 1 \in Nat /\ end - 1 <= L
            /\ \A i \in 1 .. end - 1 : begun[i] = text[i]
        BY <1>1, <2>1
      <3> HIDE DEF begun
      <3>2. Scans(begun)[end - 1] = Scans(text)[end - 1]
        <4>1. end - 1 <= Len(begun) /\ Len(begun) \in Nat
          BY <3>1
        <4> QED  BY <1>1, <3>1, <4>1, ScansSame
      <3>3. MessagesOf(begun) = Scans(begun)[end - 1].messages \o MessageOf(Scans(begun)[end - 1].block)
        BY <3>1, Zenon DEF MessagesOf
      <3> QED  BY <3>2, <3>3, Zenon DEF begun
    <2>5. /\ end + 1 \in 0 .. L /\ (end + 1) + 1 = end + 2
          /\ \A i \in (end + 1) + 1 .. L - 1 : ~ (text[i] = LF /\ text[i + 1] = LF)
      <3>1. end + 1 \in 0 .. L /\ (end + 1) + 1 = end + 2
        BY <1>1, <2>1
      <3>2. ASSUME NEW i \in (end + 1) + 1 .. L - 1, text[i] = LF /\ text[i + 1] = LF  PROVE  FALSE
        <4>1. i \in Boundaries(text)
          BY <1>1, <2>1, <3>2 DEF Boundaries
        <4> QED  BY <1>1, <1>2, <2>1, <4>1
      <3> QED  BY <3>1, <3>2
    <2>6. end + 1 < L => ~ Splits(Scans(text)[end + 1].block, text[(end + 1) + 1])
      <3> SUFFICES ASSUME end + 1 < L, Splits(Scans(text)[end + 1].block, text[(end + 1) + 1])  PROVE  FALSE
        OBVIOUS
      <3>1. text[end + 2] = LF
        BY <2>5 DEF Splits
      <3>2. end + 1 \in Boundaries(text)
        BY <1>1, <2>1, <3>1 DEF Boundaries
      <3> QED  BY <1>1, <1>2, <2>1, <3>2
    <2>7. last.messages = Scans(text)[end + 1].messages /\ last.block = Scans(text)[end + 1].block \o rest
      <3>1. last.messages = Scans(text)[end + 1].messages
            /\ last.block = Scans(text)[end + 1].block \o SubSeq(text, (end + 1) + 1, L)
        BY <2>5, <2>6, RestScanned, Zenon
      <3> QED  BY <2>5, <3>1, Zenon
    <2>8. rest \in Seq(Tokens)
      BY <1>1, <2>1
    <2> HIDE DEF rest, last
    <2>9. << >> \o rest = rest
      BY <2>8
    <2>10. last.block \in {rest, <<LF>> \o rest}
      BY <2>3, <2>7, <2>9
    <2> QED  BY <2>2, <2>3, <2>4, <2>7, <2>8, <2>10 DEF last
  <1> QED  BY <1>4, <1>5

-----------------------------------------------------------------------------
(* The wire: where in the lines of an event a read stops, and what is kept.  *)

Size(dialect) == IF dialect = "google" THEN 5 ELSE 3
Line(i) == Token("data", i)
Data(a, b) == [k \in 1 .. b - a |-> <<Line(a + k)>>]

\* The place after pos tokens: in the lines of event i, the places of which are 0 to Size - 1.
Place(dialect, pos, i, place) ==
    i \in Nat /\ place \in 0 .. Size(dialect) - 1 /\ pos = Size(dialect) * (i - 1) + 1 + place

\* What is left of event i, and of those before it, at a place: m messages have been parsed.
Begun(place, i, m, block) == place = 0 /\ m = i - 1 /\ block \in {<<Line(i)>>, <<LF, Line(i)>>}
LineEnded(dialect, place, i, m, block) ==
    /\ place = 1 \/ (place = 2 /\ dialect = "google")
    /\ m = i - 1 /\ block \in {<<Line(i), LF>>, <<LF, Line(i), LF>>}
Passed(place, i, m, block) == place >= 2 /\ m = i /\ block \in {<< >>, <<LF>>}
Shaped(dialect, i, place, m, block) ==
    Begun(place, i, m, block) \/ LineEnded(dialect, place, i, m, block) \/ Passed(place, i, m, block)

NextToken(dialect, count, i, place, token) ==
    /\ place = Size(dialect) - 1 => (token = Line(i + 1) /\ i + 1 \in 1 .. count)
    /\ place < Size(dialect) - 1 => token = IF dialect = "google" /\ place \in {0, 2} THEN CR ELSE LF

LEMMA WireSize ==
  ASSUME NEW dialect \in Dialects, NEW count \in Nat
  PROVE  Len(Wire(dialect, count)) = Size(dialect) * count /\ Size(dialect) * count \in Nat
  <1>1. Size(dialect) * count \in Nat
    BY DEF Size
  <1> QED  BY <1>1 DEF Wire, Size

LEMMA WireToken ==
  ASSUME NEW dialect \in Dialects, NEW count \in Nat, NEW pos \in 0 .. Len(Wire(dialect, count)) - 1,
         NEW i, NEW place, Place(dialect, pos, i, place), NEW token, token = Wire(dialect, count)[pos + 1]
  PROVE  NextToken(dialect, count, i, place, token)
  <1> DEFINE size == Size(dialect)
  <1>1. size \in {3, 5} /\ (size = 5 <=> dialect = "google")
    BY DEF Size
  <1>2. /\ Len(Wire(dialect, count)) = size * count /\ size * count \in Nat
        /\ pos \in Nat /\ pos + 1 \in 1 .. size * count /\ (pos + 1) - 1 = pos
    <2>1. Len(Wire(dialect, count)) = size * count /\ size * count \in Nat
      BY WireSize
    <2> HIDE DEF size
    <2> QED  BY <2>1
  <1>3. token = CASE pos % size = 0 -> Line(1 + pos \div size)
                  [] dialect = "google" /\ pos % size \in {1, 3} -> CR
                  [] OTHER -> LF
    <2>1. token = CASE ((pos + 1) - 1) % size = 0 -> Token("data", 1 + ((pos + 1) - 1) \div size)
                    [] dialect = "google" /\ ((pos + 1) - 1) % size \in {1, 3} -> CR
                    [] OTHER -> LF
      BY <1>2, Zenon DEF Wire, Size
    <2>2. (pos + 1) - 1 = pos
      BY <1>2
    <2> QED  BY <2>1, <2>2, Zenon DEF Line
  <1>4. i \in Nat /\ place \in 0 .. size - 1 /\ pos = size * (i - 1) + 1 + place
    BY DEF Place
  <1> HIDE DEF size
  <1>5. ASSUME place = size - 1  PROVE  pos % size = 0 /\ pos \div size = i /\ i + 1 \in 1 .. count
    <2>1. CASE size = 3
      BY <1>2, <1>4, <1>5, <2>1
    <2>2. CASE size = 5
      BY <1>2, <1>4, <1>5, <2>2
    <2> QED  BY <1>1, <2>1, <2>2
  <1>6. ASSUME place < size - 1  PROVE  pos % size = place + 1 /\ place + 1 # 0 /\ (place + 1 \in {1, 3} <=> place \in {0, 2})
    <2>1. CASE size = 3
      BY <1>2, <1>4, <1>6, <2>1
    <2>2. CASE size = 5
      BY <1>2, <1>4, <1>6, <2>2
    <2> QED  BY <1>1, <2>1, <2>2
  <1>7. place = size - 1 => (token = Line(i + 1) /\ i + 1 \in 1 .. count)
    <2>1. i + 1 = 1 + i
      BY <1>4
    <2> QED  BY <1>3, <1>5, <2>1
  <1>8. place < size - 1 => token = IF dialect = "google" /\ place \in {0, 2} THEN CR ELSE LF
    BY <1>3, <1>6
  <1> QED  BY <1>7, <1>8 DEF size, NextToken

LEMMA AppendIs ==
  ASSUME NEW X, NEW s \in Seq(X), NEW t \in Seq(X), NEW x \in X, Len(t) = Len(s) + 1, t[Len(t)] = x,
         \A i \in 1 .. Len(s) : t[i] = s[i]
  PROVE  Append(s, x) = t
  <1>1. /\ Append(s, x) \in Seq(X) /\ Len(Append(s, x)) = Len(t) /\ Len(s) \in Nat
        /\ \A i \in 1 .. Len(t) : Append(s, x)[i] = t[i]
    BY AppendProperties
  <1> QED  BY <1>1, SeqEqual

LEMMA AppendToOne ==
  ASSUME NEW X, NEW x \in X, NEW y \in X
  PROVE  Append(<<x>>, y) = <<x, y>>
  <1> DEFINE s == <<x>>
             t == <<x, y>>
  <1>1. s \in Seq(X) /\ t \in Seq(X) /\ Len(t) = Len(s) + 1 /\ t[Len(t)] = y /\ \A i \in 1 .. Len(s) : t[i] = s[i]
    OBVIOUS
  <1> HIDE DEF s, t
  <1>2. Append(s, y) = t
    BY <1>1, AppendIs
  <1> QED  BY <1>2 DEF s, t

LEMMA AppendToTwo ==
  ASSUME NEW X, NEW x \in X, NEW y \in X, NEW z \in X
  PROVE  Append(<<x, y>>, z) = <<x, y, z>>
  <1> DEFINE s == <<x, y>>
             t == <<x, y, z>>
  <1>1. s \in Seq(X) /\ t \in Seq(X) /\ Len(t) = Len(s) + 1 /\ t[Len(t)] = z /\ \A i \in 1 .. Len(s) : t[i] = s[i]
    OBVIOUS
  <1> HIDE DEF s, t
  <1>2. Append(s, z) = t
    BY <1>1, AppendIs
  <1> QED  BY <1>2 DEF s, t

LEMMA FrontOf ==
  ASSUME NEW X, NEW s \in Seq(X), NEW x \in X, NEW r, r = Append(s, x)
  PROVE  Len(r) > 0 /\ r[Len(r)] = x /\ SubSeq(r, 1, Len(r) - 1) = s
OBVIOUS

\* What the blocks of a wire parse to.
LEMMA EmptyBlock ==
  MessageOf(<< >>) = << >> /\ MessageOf(<<LF>>) = << >>
  <1>1. << >> \in Seq(Tokens) /\ Append(<< >>, LF) = <<LF>>
    OBVIOUS
  <1>2. DataOf(<< >>) = << >>
    BY DEF DataOf
  <1>3. MessageOf(<< >>) = << >>
    BY <1>2 DEF MessageOf
  <1>4. MessageOf(Append(<< >>, LF)) = MessageOf(<< >>)
    BY <1>1, LineEndIgnored, Zenon
  <1> QED  BY <1>1, <1>3, <1>4, Zenon

LEMMA LineBlock ==
  ASSUME NEW kind \in {"data", "torn"}, NEW i \in Nat, NEW token, token = Token(kind, i)
  PROVE  /\ token \in Tokens
         /\ MessageOf(<<token>>) = <<<<token>>>> /\ MessageOf(<<LF, token>>) = <<<<token>>>>
         /\ MessageOf(<<token, LF>>) = <<<<token>>>> /\ MessageOf(<<LF, token, LF>>) = <<<<token>>>>
  <1>1. token \in Tokens /\ LF \in Tokens /\ DataIn(token) = <<token>> /\ DataIn(LF) = << >>
    BY DEF Token, Tokens, LF, DataIn
  <1>2. MessageOf(<<token>>) = <<<<token>>>>
    <2> DEFINE block == <<token>>
    <2>1. block \in Seq(Tokens) /\ 1 \in 1 .. Len(block) /\ block[1] = token
          /\ \A j \in 1 .. Len(block) : DataIn(block[j]) = IF j = 1 THEN <<block[j]>> ELSE << >>
      BY <1>1
    <2> HIDE DEF block
    <2>2. DataOf(block) = <<token>>
      BY <2>1, DataFound
    <2> QED  BY <2>2 DEF MessageOf, block
  <1>3. MessageOf(<<LF, token>>) = <<<<token>>>>
    <2> DEFINE block == <<LF, token>>
    <2>1. block \in Seq(Tokens) /\ 2 \in 1 .. Len(block) /\ block[2] = token
          /\ \A j \in 1 .. Len(block) : DataIn(block[j]) = IF j = 2 THEN <<block[j]>> ELSE << >>
      BY <1>1
    <2> HIDE DEF block
    <2>2. DataOf(block) = <<token>>
      BY <2>1, DataFound
    <2> QED  BY <2>2 DEF MessageOf, block
  <1>4. MessageOf(<<token, LF>>) = <<<<token>>>>
    <2>1. Append(<<token>>, LF) = <<token, LF>>
      BY <1>1, AppendToOne, Zenon
    <2>3. <<token>> \in Seq(Tokens)
      BY <1>1
    <2>2. MessageOf(Append(<<token>>, LF)) = MessageOf(<<token>>)
      BY <2>3, LineEndIgnored, Zenon
    <2> QED  BY <1>2, <2>1, <2>2, Zenon
  <1>5. MessageOf(<<LF, token, LF>>) = <<<<token>>>>
    <2>1. Append(<<LF, token>>, LF) = <<LF, token, LF>>
      BY <1>1, AppendToTwo, Zenon
    <2>3. <<LF, token>> \in Seq(Tokens)
      BY <1>1
    <2>2. MessageOf(Append(<<LF, token>>, LF)) = MessageOf(<<LF, token>>)
      BY <2>3, LineEndIgnored, Zenon
    <2> QED  BY <1>3, <2>1, <2>2, Zenon
  <1> QED  BY <1>1, <1>2, <1>3, <1>4, <1>5

\* One token more of an event: its line, a line end, or one that ends the same line.
Keeps(dialect, i, place, m, scan, next) ==
    next.messages = scan.messages /\ Shaped(dialect, i, place, m, next.block)
Adds(dialect, i, place, m, scan, next) ==
    next.messages = Append(scan.messages, <<Line(m + 1)>>) /\ Shaped(dialect, i, place, m + 1, next.block)

\* The data line of the next event begins it.
LEMMA LineShaped ==
  ASSUME NEW dialect \in Dialects, NEW i \in Nat, NEW m \in Nat, NEW scan \in ScanTypes,
         NEW place, place = Size(dialect) - 1, Shaped(dialect, i, place, m, scan.block),
         NEW next, next = Scanned(scan, Line(i + 1))
  PROVE  Keeps(dialect, i + 1, 0, m, scan, next)
  <1>1. place \in {2, 4} /\ (dialect = "google" => place = 4)
    BY DEF Size
  <1>2. Line(i + 1) \in Tokens /\ LF \in Tokens /\ Line(i + 1) # LF /\ i + 1 \in Nat
    BY DEF Line, Token, Tokens, LF
  <1>3. m = i /\ scan.block \in {<< >>, <<LF>>}
    BY <1>1 DEF Shaped, Begun, LineEnded, Passed
  <1>4. Continues(scan, Line(i + 1), next)
    BY <1>2, ScannedContinues, Zenon
  <1>5. next.messages = scan.messages /\ next.block = Append(scan.block, Line(i + 1))
    BY <1>2, <1>4 DEF Continues, Splits
  <1>6. Append(<< >>, Line(i + 1)) = <<Line(i + 1)>> /\ Append(<<LF>>, Line(i + 1)) = <<LF, Line(i + 1)>>
    <2>1. Append(<< >>, Line(i + 1)) = <<Line(i + 1)>>
      OBVIOUS
    <2>2. Append(<<LF>>, Line(i + 1)) = <<LF, Line(i + 1)>>
      BY <1>2, AppendToOne, Zenon
    <2> QED  BY <2>1, <2>2
  <1>7. next.block \in {<<Line(i + 1)>>, <<LF, Line(i + 1)>>}
    BY <1>3, <1>5, <1>6, Zenon
  <1>8. m = (i + 1) - 1
    BY <1>3
  <1> QED  BY <1>5, <1>7, <1>8 DEF Shaped, Begun, Keeps

\* A line end moves the place in an event one on; the second one completes its message.
LEMMA LineEndShaped ==
  ASSUME NEW dialect \in Dialects, NEW i \in Nat, NEW m \in Nat, NEW scan \in ScanTypes,
         NEW place \in 0 .. Size(dialect) - 2, Shaped(dialect, i, place, m, scan.block),
         NEW next, next = Scanned(scan, LF)
  PROVE  Keeps(dialect, i, place + 1, m, scan, next) \/ Adds(dialect, i, place + 1, m, scan, next)
  <1>1. place \in Nat /\ (dialect # "google" => place \in {0, 1})
    BY DEF Size
  <1>2. Line(i) \in Tokens /\ LF \in Tokens /\ Line(i) # LF
    BY DEF Line, Token, Tokens, LF
  <1>3. Continues(scan, LF, next)
    BY <1>2, ScannedContinues, Zenon
  <1>4. scan.messages \in Seq(Seq(Tokens))
    BY DEF ScanTypes
  <1>5. CASE Begun(place, i, m, scan.block)
    <2>1. ~ Splits(scan.block, LF)
      <3>1. CASE scan.block = <<Line(i)>>
        <4>1. Len(scan.block) = 1 /\ scan.block[1] = Line(i)
          BY <3>1
        <4> QED  BY <1>2, <4>1 DEF Splits
      <3>2. CASE scan.block = <<LF, Line(i)>>
        <4>1. Len(scan.block) = 2 /\ scan.block[2] = Line(i)
          BY <3>2
        <4> QED  BY <1>2, <4>1 DEF Splits
      <3> QED  BY <1>5, <3>1, <3>2 DEF Begun
    <2>2. next.messages = scan.messages /\ next.block = Append(scan.block, LF)
      BY <1>3, <2>1, Zenon DEF Continues
    <2>3. Append(<<Line(i)>>, LF) = <<Line(i), LF>> /\ Append(<<LF, Line(i)>>, LF) = <<LF, Line(i), LF>>
      BY <1>2, AppendToOne, AppendToTwo, Zenon
    <2>4. next.block \in {<<Line(i), LF>>, <<LF, Line(i), LF>>}
      BY <1>5, <2>2, <2>3, Zenon DEF Begun
    <2>5. place + 1 = 1 /\ m = i - 1
      BY <1>5 DEF Begun
    <2>6. Shaped(dialect, i, place + 1, m, next.block)
      BY <2>4, <2>5, Zenon DEF Shaped, LineEnded
    <2> QED  BY <2>2, <2>6, Zenon DEF Keeps
  <1>6. CASE LineEnded(dialect, place, i, m, scan.block)
    <2>1. Splits(scan.block, LF) /\ SubSeq(scan.block, 1, Len(scan.block) - 1) \in {<<Line(i)>>, <<LF, Line(i)>>}
      <3>1. CASE scan.block = <<Line(i), LF>>
        <4>1. scan.block = Append(<<Line(i)>>, LF) /\ <<Line(i)>> \in Seq(Tokens)
          <5>1. <<Line(i)>> \in Seq(Tokens)
            BY <1>2
          <5> QED  BY <1>2, <3>1, <5>1, AppendToOne, Zenon
        <4> QED  BY <1>2, <4>1, FrontOf, Zenon DEF Splits
      <3>2. CASE scan.block = <<LF, Line(i), LF>>
        <4> DEFINE front == <<LF, Line(i)>>
        <4>1. front \in Seq(Tokens)
          BY <1>2
        <4>2. scan.block = Append(front, LF)
          BY <1>2, <3>2, AppendToTwo, Zenon
        <4> HIDE DEF front
        <4>3. Len(scan.block) > 0 /\ scan.block[Len(scan.block)] = LF /\ SubSeq(scan.block, 1, Len(scan.block) - 1) = front
          BY <1>2, <4>1, <4>2, FrontOf, Zenon
        <4> QED  BY <4>3 DEF Splits, front
      <3> QED  BY <1>6, <3>1, <3>2 DEF LineEnded
    <2>2. /\ next.messages = scan.messages \o MessageOf(SubSeq(scan.block, 1, Len(scan.block) - 1))
          /\ next.block = << >>
      BY <1>3, <2>1, Zenon DEF Continues
    <2>3. MessageOf(SubSeq(scan.block, 1, Len(scan.block) - 1)) = <<<<Line(i)>>>>
      <3>2. MessageOf(<<Line(i)>>) = <<<<Line(i)>>>> /\ MessageOf(<<LF, Line(i)>>) = <<<<Line(i)>>>>
        BY LineBlock, Zenon DEF Line
      <3> QED  BY <2>1, <3>2, Zenon
    <2>4. m + 1 = i /\ place + 1 >= 2
      BY <1>1, <1>6 DEF LineEnded
    <2>5. scan.messages \o <<<<Line(i)>>>> = Append(scan.messages, <<Line(i)>>)
      <3> DEFINE messages == scan.messages
                 message == <<Line(i)>>
      <3>1. messages \in Seq(Seq(Tokens)) /\ message \in Seq(Tokens)
        BY <1>2, <1>4
      <3> HIDE DEF messages, message
      <3>2. messages \o <<message>> = Append(messages, message)
        BY <3>1, AppendIsConcat
      <3> QED  BY <3>2 DEF messages, message
    <2>6. Shaped(dialect, i, place + 1, m + 1, next.block)
      BY <2>2, <2>4, Zenon DEF Shaped, Passed
    <2>7. next.messages = Append(scan.messages, <<Line(m + 1)>>)
      BY <2>2, <2>3, <2>4, <2>5, Zenon
    <2> QED  BY <2>6, <2>7, Zenon DEF Adds
  <1>7. CASE Passed(place, i, m, scan.block)
    <2>1. place + 1 >= 2 /\ m = i /\ scan.block \in {<< >>, <<LF>>}
      BY <1>1, <1>7 DEF Passed
    <2>2. CASE scan.block = << >>
      <3>1. ~ Splits(scan.block, LF)
        BY <2>2 DEF Splits
      <3>2. next.messages = scan.messages /\ next.block = Append(scan.block, LF)
        BY <1>3, <3>1, Zenon DEF Continues
      <3>3. next.block = <<LF>>
        BY <2>2, <3>2
      <3> QED  BY <2>1, <3>2, <3>3, Zenon DEF Shaped, Passed, Keeps
    <2>3. CASE scan.block = <<LF>>
      <3>1. Splits(scan.block, LF) /\ SubSeq(scan.block, 1, Len(scan.block) - 1) = << >>
        BY <2>3 DEF Splits
      <3>2. next.messages = scan.messages \o << >> /\ next.block = << >>
        BY <1>3, <3>1, EmptyBlock, Zenon DEF Continues
      <3>3. next.messages = scan.messages
        BY <1>4, <3>2, ConcatEmptySeq, Zenon
      <3> QED  BY <2>1, <3>2, <3>3, Zenon DEF Shaped, Passed, Keeps
    <2> QED  BY <2>1, <2>2, <2>3
  <1> QED  BY <1>5, <1>6, <1>7 DEF Shaped

LEMMA LineEndSkipped ==
  ASSUME NEW i \in Nat, NEW m \in Nat, NEW place \in {1, 3}, NEW block, Shaped("google", i, place, m, block)
  PROVE  Shaped("google", i, place + 1, m, block)
  BY DEF Shaped, Begun, LineEnded, Passed

-----------------------------------------------------------------------------
(* The lines of a text that is normalised, and what a scan of them finds.    *)

\* The scan of the lines that the first p tokens of a text make.
RawScan(text, p) == Scans(NormalizedLines(text))[Len(Joins(LinesOf(text))[p])]

LEMMA LinesTyped ==
  ASSUME NEW text \in Seq(Tokens)
  PROVE  /\ LinesOf(text) \in Seq(Seq(Tokens)) /\ Len(LinesOf(text)) = Len(text)
         /\ \A p \in 1 .. Len(text) : LinesOf(text)[p] = LineOf(text, p)
         /\ \A p \in 1 .. Len(text) : \/ LineOf(text, p) = << >>
                                      \/ \E token \in Tokens : LineOf(text, p) = <<token>>
  <1>1. LF \in Tokens /\ LF # CR /\ Len(text) \in Nat
    BY DEF LF, CR, Token, Tokens
  <1>2. ASSUME NEW p \in 1 .. Len(text)
        PROVE  LineOf(text, p) = << >> \/ \E token \in Tokens : LineOf(text, p) = <<token>>
    <2>1. text[p] \in Tokens
      OBVIOUS
    <2>2. CASE text[p] = LF /\ p > 1 /\ text[p - 1] = CR
      BY <1>1, <2>2, Zenon DEF LineOf
    <2>3. CASE ~ (text[p] = LF /\ p > 1 /\ text[p - 1] = CR)
      <3>1. CASE text[p] = CR
        BY <1>1, <2>3, <3>1, Zenon DEF LineOf
      <3>2. CASE text[p] # CR
        BY <2>1, <2>3, <3>2, Zenon DEF LineOf
      <3> QED  BY <3>1, <3>2
    <2> QED  BY <2>2, <2>3
  <1>3. ASSUME NEW p \in 1 .. Len(text)  PROVE  LineOf(text, p) \in Seq(Tokens)
    <2>1. << >> \in Seq(Tokens) /\ \A token \in Tokens : <<token>> \in Seq(Tokens)
      OBVIOUS
    <2> QED  BY <1>2, <2>1, Zenon
  <1>4. LinesOf(text) \in Seq(Seq(Tokens))
    BY <1>1, <1>3, IsASeq DEF LinesOf
  <1>5. Len(LinesOf(text)) = Len(text) /\ \A p \in 1 .. Len(text) : LinesOf(text)[p] = LineOf(text, p)
    BY <1>1 DEF LinesOf
  <1> QED  BY <1>2, <1>4, <1>5

LEMMA NormalTyped ==
  ASSUME NEW text \in Seq(Tokens)
  PROVE  /\ NormalizedLines(text) \in Seq(Tokens)
         /\ Scans(NormalizedLines(text))[Len(NormalizedLines(text))] = RawScan(text, Len(text))
         /\ RawScan(text, 0) = NoScan
  <1>1. LinesOf(text) \in Seq(Seq(Tokens)) /\ Len(LinesOf(text)) = Len(text) /\ Len(text) \in Nat
    BY LinesTyped
  <1>2. Len(text) \in 0 .. Len(LinesOf(text)) /\ NormalizedLines(text) = Joins(LinesOf(text))[Len(text)]
    BY <1>1 DEF NormalizedLines, Joined
  <1>3. NormalizedLines(text) \in Seq(Tokens)
    BY <1>1, <1>2, JoinsTyped, Zenon
  <1>4. Joins(LinesOf(text))[0] = << >>
    BY <1>1, JoinsEquation
  <1>5. Scans(NormalizedLines(text))[0] = NoScan
    <2>1. Len(NormalizedLines(text)) \in Nat
      BY <1>3
    <2> QED  BY <2>1, ScansEquation, Zenon
  <1>6. Len(<< >>) = 0
    OBVIOUS
  <1> QED  BY <1>2, <1>3, <1>4, <1>5, <1>6, Zenon DEF RawScan

\* A token of the text adds a line, or nothing.
Reads(now, line, next) ==
    /\ now \in ScanTypes
    /\ line = << >> => next = now
    /\ line # << >> => \E token \in Tokens : line = <<token>> /\ next = Scanned(now, token)

\* The scan of a normalised text, taken token by token of the text before: a token of it adds
\* one line token to the scan or none.
LEMMA RawScanned ==
  ASSUME NEW text \in Seq(Tokens), NEW p \in 0 .. Len(text) - 1, NEW now, NEW next, NEW line,
         now = RawScan(text, p), next = RawScan(text, p + 1), line = LineOf(text, p + 1)
  PROVE  Reads(now, line, next)
  <1> DEFINE lines == LinesOf(text)
             norm == NormalizedLines(text)
             J == Joins(lines)
  <1>1. /\ lines \in Seq(Seq(Tokens)) /\ Len(lines) = Len(text) /\ lines[p + 1] = line
        /\ (line = << >> \/ \E token \in Tokens : line = <<token>>)
    <2>1. p + 1 \in 1 .. Len(text)
      OBVIOUS
    <2> QED  BY <2>1, LinesTyped
  <1>2. p \in 0 .. Len(lines) - 1 /\ p + 1 \in 0 .. Len(lines)
    BY <1>1
  <1>3. J[p] \in Seq(Tokens) /\ lines[p + 1] \in Seq(Tokens) /\ Len(J[p + 1]) = Len(J[p]) + Len(lines[p + 1])
    BY <1>1, <1>2, JoinsLonger, Zenon
  <1>4. Len(J[p]) \in Nat /\ Len(line) \in Nat /\ Len(J[p + 1]) = Len(J[p]) + Len(line)
    BY <1>1, <1>3
  <1>5. /\ Len(J[p]) + Len(lines[p + 1]) <= Len(norm)
        /\ \A j \in 1 .. Len(lines[p + 1]) : norm[Len(J[p]) + j] = lines[p + 1][j]
    BY <1>1, <1>2, JoinedAt, Zenon DEF NormalizedLines
  <1>6. norm \in Seq(Tokens) /\ Len(norm) \in Nat
    BY NormalTyped
  <1>7. now = Scans(norm)[Len(J[p])] /\ next = Scans(norm)[Len(J[p + 1])]
    BY Zenon DEF RawScan
  <1> HIDE DEF lines, norm, J
  <1> DEFINE a == Len(J[p])
             b == Len(J[p + 1])
             size == Len(line)
  <1>8. /\ a \in Nat /\ size \in Nat /\ b = a + size /\ a + size <= Len(norm)
        /\ \A j \in 1 .. size : norm[a + j] = line[j]
    BY <1>1, <1>4, <1>5, Zenon
  <1>9. now = Scans(norm)[a] /\ next = Scans(norm)[b]
    BY <1>7
  <1> HIDE DEF a, b, size
  <1>10. now \in ScanTypes
    <2>1. a \in 0 .. Len(norm)
      BY <1>6, <1>8
    <2> QED  BY <1>6, <1>9, <2>1, ScansTyped
  <1>11. ASSUME line = << >>  PROVE  next = now
    <2>1. size = 0
      BY <1>11 DEF size
    <2>2. b = a
      BY <1>8, <2>1
    <2> QED  BY <1>9, <2>2, Zenon
  <1>12. ASSUME NEW token \in Tokens, line = <<token>>  PROVE  next = Scanned(now, token)
    <2>1. size = 1 /\ line[1] = token
      BY <1>12 DEF size
    <2>2. a \in 0 .. Len(norm) - 1 /\ b = a + 1 /\ norm[a + 1] = token
      BY <1>6, <1>8, <2>1
    <2>3. Scans(norm)[a + 1] = Scanned(Scans(norm)[a], norm[a + 1])
      BY <1>6, <2>2, ScansNext, Zenon
    <2> QED  BY <1>9, <2>2, <2>3, Zenon
  <1> QED  BY <1>1, <1>10, <1>11, <1>12, Zenon DEF Reads

\* A text a read has kept: no line end is in it that has still to be normalised, or that splits it.
Settled(kept) ==
    /\ kept \in Seq(Tokens)
    /\ \A p \in 1 .. Len(kept) : kept[p] # CR
    /\ \A p \in 1 .. Len(kept) - 1 : ~ (kept[p] = LF /\ kept[p + 1] = LF)

ScanIs(scan, messages, block) == scan.messages = messages /\ scan.block = block

\* What a read keeps has no complete message: the scan of it is one block, the kept text itself.
LEMMA KeptScanned ==
  ASSUME NEW kept, Settled(kept), NEW chunk \in Seq(Tokens), NEW text, text = kept \o chunk
  PROVE  ScanIs(RawScan(text, Len(kept)), << >>, kept)
  <1> DEFINE R(p) == RawScan(text, p).messages = << >> /\ RawScan(text, p).block = << >> \o SubSeq(kept, 1, p)
             S == {p \in 0 .. Len(kept) : R(p)}
  <1>1. /\ kept \in Seq(Tokens) /\ text \in Seq(Tokens) /\ Len(kept) \in Nat /\ Len(text) = Len(kept) + Len(chunk)
        /\ Len(chunk) \in Nat /\ \A p \in 1 .. Len(kept) : text[p] = kept[p]
    <2>1. kept \in Seq(Tokens)
      BY DEF Settled
    <2> QED  BY <2>1, Concatenated
  <1>2. 0 \in S
    <2>1. RawScan(text, 0) = NoScan
      BY <1>1, NormalTyped
    <2>2. SubSeq(kept, 1, 0) = << >> /\ << >> \o << >> = << >>
      BY <1>1
    <2>3. NoScan.messages = << >> /\ NoScan.block = << >>
      BY DEF NoScan
    <2>4. R(0)
      BY <2>1, <2>2, <2>3, Zenon
    <2>5. 0 \in 0 .. Len(kept)
      BY <1>1
    <2> HIDE DEF R
    <2> QED  BY <2>4, <2>5
  <1>3. ASSUME NEW p \in 0 .. Len(kept) - 1, p \in S  PROVE  p + 1 \in S
    <2> DEFINE now == RawScan(text, p)
               next == RawScan(text, p + 1)
               line == LineOf(text, p + 1)
               block == now.block
               longer == << >> \o SubSeq(kept, 1, p + 1)
               token == kept[p + 1]
    <2>1. /\ p \in 0 .. Len(text) - 1 /\ p + 1 \in 1 .. Len(kept) /\ p + 1 \in 0 .. Len(kept)
          /\ p \in Nat /\ 0 \in Nat /\ 0 <= p /\ p + 1 <= Len(kept) /\ token \in Tokens
          /\ text[p + 1] = token /\ token # CR
      BY <1>1 DEF Settled
    <2>2. line = <<token>>
      <3>1. ~ (p + 1 > 1 /\ text[(p + 1) - 1] = CR)
        <4>1. p + 1 > 1 => p \in 1 .. Len(kept) /\ (p + 1) - 1 = p
          BY <2>1
        <4> QED  BY <1>1, <4>1 DEF Settled
      <3> HIDE DEF token
      <3> QED  BY <2>1, <3>1, Zenon DEF LineOf
    <2>3. now \in ScanTypes /\ next = Scanned(now, token)
      <3>0. now = RawScan(text, p) /\ next = RawScan(text, p + 1) /\ line = LineOf(text, p + 1)
        OBVIOUS
      <3> HIDE DEF now, next, line
      <3>1. Reads(now, line, next)
        BY <1>1, <2>1, <3>0, RawScanned, Zenon
      <3> HIDE DEF token
      <3>2. line # << >>
        BY <2>2
      <3>3. PICK t \in Tokens : line = <<t>> /\ next = Scanned(now, t)
        BY <3>1, <3>2 DEF Reads
      <3>4. t = token
        BY <2>2, <3>3
      <3> QED  BY <3>1, <3>3, <3>4 DEF Reads
    <2>4. Continues(now, token, next)
      BY <2>1, <2>3, ScannedContinues, Zenon
    <2>5. now.messages = << >> /\ block = << >> \o SubSeq(kept, 1, p)
      BY <1>3
    <2>6. Slices(kept, 0, p, block, longer)
      <3>1. 0 + 1 = 1 /\ << >> \in Seq(Tokens)
        OBVIOUS
      <3>2. block = << >> \o SubSeq(kept, 0 + 1, p) /\ longer = << >> \o SubSeq(kept, 0 + 1, p + 1)
        BY <2>5, <3>1
      <3> HIDE DEF block, longer
      <3> QED  BY <1>1, <2>1, <3>1, <3>2, SliceLonger, Zenon
    <2> HIDE DEF now, next, token, longer
    <2>7. ~ Splits(now.block, token)
      <3>1. CASE p = 0
        <4>1. SubSeq(kept, 1, 0) = << >> /\ << >> \o << >> = << >>
          BY <1>1
        <4>2. Len(now.block) = 0
          BY <2>5, <3>1, <4>1
        <4> QED  BY <4>2 DEF Splits
      <3>2. CASE p > 0
        <4>1. now.block[Len(now.block)] = kept[p]
          BY <2>6, <3>2 DEF Slices
        <4>2. ~ (kept[p] = LF /\ kept[p + 1] = LF)
          <5>1. p \in 1 .. Len(kept) - 1
            BY <1>1, <2>1, <3>2
          <5> QED  BY <5>1 DEF Settled
        <4> QED  BY <4>1, <4>2 DEF Splits, token
      <3> QED  BY <2>1, <3>1, <3>2
    <2>8. next.messages = << >> /\ next.block = longer
      BY <2>4, <2>5, <2>6, <2>7, Zenon DEF Continues, Slices, token
    <2>9. R(p + 1)
      BY <2>8 DEF next, longer
    <2> HIDE DEF R
    <2> QED  BY <2>1, <2>9
  <1>4. \A p \in 0 .. Len(kept) : p \in S
    <2> HIDE DEF S
    <2> QED  BY <1>1, <1>2, <1>3, Inducted
  <1>5. R(Len(kept))
    <2>1. Len(kept) \in S
      <3> HIDE DEF S
      <3> QED  BY <1>1, <1>4
    <2> HIDE DEF R
    <2> QED  BY <2>1
  <1>6. << >> \o SubSeq(kept, 1, Len(kept)) = kept
    <2>1. SubSeq(kept, 1, Len(kept)) = kept
      BY <1>1, SubSeqFull, Zenon
    <2> QED  BY <1>1, <2>1, ConcatEmptySeq, Zenon
  <1> QED  BY <1>5, <1>6, Zenon DEF ScanIs

-----------------------------------------------------------------------------
(* What a read of a part of a wire yields.                                   *)

\* After pos tokens of a wire a scan has found the messages from m on.
Stands(dialect, pos, m, scan) ==
    \E i \in Nat, place \in Nat, k \in Nat :
        /\ Place(dialect, pos, i, place) /\ Shaped(dialect, i, place, k, scan.block)
        /\ m <= k /\ scan.messages = Data(m, k)

LEMMA DataLonger ==
  ASSUME NEW m \in Nat, NEW k \in Nat, m <= k
  PROVE  Append(Data(m, k), <<Line(k + 1)>>) = Data(m, k + 1)
  <1> DEFINE message(j) == <<Line(m + j)>>
  <1>1. \A j \in Nat : message(j) \in Seq(Tokens)
    BY DEF Line, Token, Tokens
  <1>2. k - m \in Nat /\ (k + 1) - m = (k - m) + 1 /\ m + ((k - m) + 1) = k + 1
    OBVIOUS
  <1> DEFINE s == Data(m, k)
             t == Data(m, k + 1)
             x == <<Line(k + 1)>>
  <1>3. /\ s = [j \in 1 .. k - m |-> message(j)]
        /\ t = [j \in 1 .. (k - m) + 1 |-> message(j)]
    BY <1>2 DEF Data
  <1>4. x = message((k - m) + 1)
    BY <1>2
  <1> HIDE DEF s, t, x, message
  <1>5. s \in Seq(Seq(Tokens)) /\ t \in Seq(Seq(Tokens)) /\ x \in Seq(Tokens)
    BY <1>1, <1>2, <1>3, <1>4
  <1>6. Len(s) = k - m /\ Len(t) = Len(s) + 1 /\ t[Len(t)] = x /\ \A j \in 1 .. Len(s) : t[j] = s[j]
    BY <1>2, <1>3, <1>4
  <1>7. Append(s, x) = t
    BY <1>5, <1>6, AppendIs
  <1> QED  BY <1>7 DEF s, t, x

LEMMA PlaceNext ==
  ASSUME NEW dialect \in Dialects, NEW pos, NEW i, NEW place, Place(dialect, pos, i, place)
  PROVE  /\ i \in Nat /\ place \in 0 .. Size(dialect) - 1 /\ pos \in Int
         /\ place = Size(dialect) - 1 => Place(dialect, pos + 1, i + 1, 0)
         /\ place # Size(dialect) - 1 => place \in 0 .. Size(dialect) - 2 /\ Place(dialect, pos + 1, i, place + 1)
  <1>1. CASE dialect = "google"
    BY <1>1 DEF Place, Size
  <1>2. CASE dialect # "google"
    BY <1>2 DEF Place, Size
  <1> QED  BY <1>1, <1>2

\* A token more of the wire, and the line it makes.
LEMMA TokenStands ==
  ASSUME NEW dialect \in Dialects, NEW count \in Nat, NEW pos \in 0 .. Len(Wire(dialect, count)) - 1,
         NEW m \in Nat, NEW scan, NEW next, NEW line, NEW token,
         token = Wire(dialect, count)[pos + 1], Stands(dialect, pos, m, scan), Reads(scan, line, next),
         \/ line = IF token = CR THEN <<LF>> ELSE <<token>>
         \/ line = << >> /\ token = LF /\ dialect = "google"
  PROVE  Stands(dialect, pos + 1, m, next)
  <1>1. PICK i \in Nat, place \in Nat, k \in Nat :
             /\ Place(dialect, pos, i, place) /\ Shaped(dialect, i, place, k, scan.block)
             /\ m <= k /\ scan.messages = Data(m, k)
    BY Zenon DEF Stands
  <1>2. scan \in ScanTypes
    BY Zenon DEF Reads
  <1>3. LF # CR /\ Line(i + 1) # CR /\ Line(i + 1) # LF
    BY DEF LF, CR, Line, Token
  <1>4. CASE place = Size(dialect) - 1
    <2>1. token = Line(i + 1)
      <3>1. NextToken(dialect, count, i, place, token)
        BY <1>1, WireToken, Zenon
      <3> QED  BY <1>4, <3>1, Zenon DEF NextToken
    <2>2. line = <<Line(i + 1)>>
      BY <1>3, <2>1, Zenon
    <2>3. next = Scanned(scan, Line(i + 1))
      <3>1. line # << >>
        BY <2>2
      <3>2. PICK t \in Tokens : line = <<t>> /\ next = Scanned(scan, t)
        BY <3>1, Zenon DEF Reads
      <3>3. t = Line(i + 1)
        BY <2>2, <3>2
      <3> QED  BY <3>2, <3>3
    <2>4. Keeps(dialect, i + 1, 0, k, scan, next)
      BY <1>1, <1>2, <1>4, <2>3, LineShaped, Zenon
    <2>5. Place(dialect, pos + 1, i + 1, 0) /\ i + 1 \in Nat /\ 0 \in Nat
      BY <1>1, <1>4, PlaceNext
    <2> QED  BY <1>1, <2>4, <2>5, Zenon DEF Stands, Keeps
  <1>5. CASE place # Size(dialect) - 1
    <2>1. place \in 0 .. Size(dialect) - 2 /\ Place(dialect, pos + 1, i, place + 1) /\ place + 1 \in Nat
      BY <1>1, <1>5, PlaceNext
    <2>2. token = IF dialect = "google" /\ place \in {0, 2} THEN CR ELSE LF
      <3>1. place < Size(dialect) - 1
        BY <2>1 DEF Size
      <3>2. NextToken(dialect, count, i, place, token)
        BY <1>1, WireToken, Zenon
      <3> QED  BY <3>1, <3>2, Zenon DEF NextToken
    <2>3. CASE line = << >>
      <3>1. dialect = "google" /\ place \in {1, 3}
        BY <1>3, <2>1, <2>2, <2>3 DEF Size
      <3>2. next = scan
        BY <2>3, Zenon DEF Reads
      <3>3. Shaped(dialect, i, place + 1, k, next.block)
        BY <1>1, <3>1, <3>2, LineEndSkipped
      <3> QED  BY <1>1, <2>1, <3>2, <3>3, Zenon DEF Stands
    <2>4. CASE line # << >>
      <3>1. line = <<LF>>
        BY <2>2, <2>4, Zenon
      <3>2. next = Scanned(scan, LF)
        <4>1. PICK t \in Tokens : line = <<t>> /\ next = Scanned(scan, t)
          BY <2>4, Zenon DEF Reads
        <4>2. t = LF
          BY <3>1, <4>1
        <4> QED  BY <4>1, <4>2
      <3>3. Keeps(dialect, i, place + 1, k, scan, next) \/ Adds(dialect, i, place + 1, k, scan, next)
        BY <1>1, <1>2, <2>1, <3>2, LineEndShaped, Zenon
      <3>4. CASE Keeps(dialect, i, place + 1, k, scan, next)
        BY <1>1, <2>1, <3>4, Zenon DEF Stands, Keeps
      <3>5. CASE Adds(dialect, i, place + 1, k, scan, next)
        <4>1. next.messages = Data(m, k + 1) /\ Shaped(dialect, i, place + 1, k + 1, next.block)
          BY <1>1, <3>5, DataLonger, Zenon DEF Adds
        <4>2. k + 1 \in Nat /\ m <= k + 1
          BY <1>1
        <4> QED  BY <1>1, <2>1, <4>1, <4>2, Zenon DEF Stands
      <3> QED  BY <3>3, <3>4, <3>5, Zenon
    <2> QED  BY <2>3, <2>4
  <1> QED  BY <1>4, <1>5

LEMMA ShapeSettled ==
  ASSUME NEW dialect, NEW i \in Nat, NEW place, NEW m, NEW block, Shaped(dialect, i, place, m, block)
  PROVE  Settled(block)
  <1>1. Line(i) \in Tokens /\ LF \in Tokens /\ Line(i) # LF /\ Line(i) # CR /\ LF # CR
    BY DEF Line, Token, Tokens, LF, CR
  <1>2. Settled(<< >>)
    BY DEF Settled
  <1>3. Settled(<<LF>>)
    BY <1>1 DEF Settled
  <1>4. Settled(<<Line(i)>>)
    BY <1>1 DEF Settled
  <1>5. Settled(<<LF, Line(i)>>)
    BY <1>1 DEF Settled
  <1>6. Settled(<<Line(i), LF>>)
    BY <1>1 DEF Settled
  <1>7. Settled(<<LF, Line(i), LF>>)
    BY <1>1 DEF Settled
  <1> QED  BY <1>2, <1>3, <1>4, <1>5, <1>6, <1>7, Zenon DEF Shaped, Begun, LineEnded, Passed

LEMMA OneLess ==
  ASSUME NEW a \in Nat, NEW b, b = 1 + a
  PROVE  (b = 2 => a = 1) /\ (b = 3 => a = 2)
OBVIOUS

LEMMA ShapeTail ==
  ASSUME NEW dialect, NEW i \in Nat, NEW place, NEW m, NEW rest \in Seq(Tokens), NEW block,
         Len(block) = 1 + Len(rest), block[1] = LF, \A j \in 1 .. Len(rest) : rest[j] = block[1 + j],
         Shaped(dialect, i, place, m, block)
  PROVE  Shaped(dialect, i, place, m, rest)
  <1>1. Line(i) # LF /\ Line(i) \in Tokens /\ LF \in Tokens /\ Len(rest) \in Nat
    BY DEF Line, Token, LF, Tokens
  <1>2. CASE block = << >>
    BY <1>1, <1>2
  <1>3. CASE block = <<LF>>
    <2>1. rest = << >>
      BY <1>1, <1>3
    <2> QED  BY <1>1, <1>3, <2>1 DEF Shaped, Begun, LineEnded, Passed
  <1>4. CASE block = <<Line(i)>> \/ block = <<Line(i), LF>>
    BY <1>1, <1>4
  <1>5. CASE block = <<LF, Line(i)>>
    <2>1. rest = <<Line(i)>>
      <3> DEFINE t == <<Line(i)>>
      <3>1. Len(block) = 2 /\ block[2] = Line(i)
        BY <1>5
      <3>2. Len(rest) = 1 /\ rest[1] = Line(i)
        <4>1. Len(rest) = 1
          BY <1>1, <3>1, OneLess, Zenon
        <4>2. 1 \in 1 .. Len(rest) /\ 1 + 1 = 2
          BY <4>1
        <4>3. rest[1] = block[1 + 1]
          BY <4>2, Zenon
        <4> QED  BY <3>1, <4>1, <4>2, <4>3
      <3>3. t \in Seq(Tokens) /\ Len(t) = 1 /\ t[1] = Line(i)
        BY <1>1
      <3> HIDE DEF t
      <3>4. rest = t
        BY <3>2, <3>3, SeqEqual
      <3> QED  BY <3>4 DEF t
    <2> QED  BY <1>1, <1>5, <2>1 DEF Shaped, Begun, LineEnded, Passed
  <1>6. CASE block = <<LF, Line(i), LF>>
    <2>1. rest = <<Line(i), LF>>
      <3> DEFINE t == <<Line(i), LF>>
      <3>1. Len(block) = 3 /\ block[2] = Line(i) /\ block[3] = LF
        BY <1>6
      <3>2. Len(rest) = 2 /\ rest[1] = Line(i) /\ rest[2] = LF
        <4>1. Len(rest) = 2
          BY <1>1, <3>1, OneLess, Zenon
        <4>2. 1 \in 1 .. Len(rest) /\ 2 \in 1 .. Len(rest) /\ 1 + 1 = 2 /\ 1 + 2 = 3
          BY <4>1
        <4>3. rest[1] = block[1 + 1] /\ rest[2] = block[1 + 2]
          BY <4>2, Zenon
        <4> QED  BY <3>1, <4>1, <4>2, <4>3
      <3>3. t \in Seq(Tokens) /\ Len(t) = 2 /\ t[1] = Line(i) /\ t[2] = LF
        BY <1>1
      <3> HIDE DEF t
      <3>4. rest = t
        BY <3>2, <3>3, SeqEqual
      <3> QED  BY <3>4 DEF t
    <2> QED  BY <1>1, <1>6, <2>1 DEF Shaped, Begun, LineEnded, Passed
  <1> QED  BY <1>2, <1>3, <1>4, <1>5, <1>6, Zenon DEF Shaped, Begun, LineEnded, Passed

\* A line end that the last boundary has taken may go.
LEMMA ShapeShortened ==
  ASSUME NEW dialect, NEW i \in Nat, NEW place, NEW m, NEW rest \in Seq(Tokens),
         NEW longer, longer = <<LF>> \o rest, NEW block, block \in {rest, longer}, Shaped(dialect, i, place, m, block)
  PROVE  Shaped(dialect, i, place, m, rest)
  <1>1. CASE block = rest
    BY <1>1
  <1>2. CASE block = longer
    <2>1. <<LF>> \in Seq(Tokens) /\ Len(<<LF>>) = 1 /\ <<LF>>[1] = LF
      <3>1. LF \in Tokens
        BY DEF LF, Token, Tokens
      <3> QED  BY <3>1
    <2>2. Follows(Tokens, <<LF>>, rest, longer)
      BY <2>1, ConcatenatedAs, Zenon
    <2>3. Len(longer) = 1 + Len(rest) /\ longer[1] = LF /\ \A j \in 1 .. Len(rest) : rest[j] = longer[1 + j]
      <3>1. 1 \in 1 .. 1
        OBVIOUS
      <3> QED  BY <2>1, <2>2, <3>1, Zenon DEF Follows
    <2>4. Shaped(dialect, i, place, m, longer)
      BY <1>2
    <2> QED  BY <2>3, <2>4, ShapeTail, Zenon
  <1> QED  BY <1>1, <1>2, Zenon

\* What is left at a place is parsed as the event begun there, if it has not been.
LEMMA ShapeRemaining ==
  ASSUME NEW dialect, NEW i \in Nat, NEW place, NEW m \in Nat, NEW block, Shaped(dialect, i, place, m, block)
  PROVE  /\ i \in {m, m + 1}
         /\ i = m => Remaining(block) = << >>
         /\ i # m => Remaining(block) = <<<<Line(m + 1)>>>>
  <1>1. CASE Passed(place, i, m, block)
    <2>1. Remaining(block) = << >> /\ i = m
      BY <1>1, EmptyBlock, Zenon DEF Passed, Remaining
    <2> QED  BY <2>1
  <1>2. CASE Begun(place, i, m, block) \/ LineEnded(dialect, place, i, m, block)
    <2>1. block \in {<<Line(i)>>, <<LF, Line(i)>>, <<Line(i), LF>>, <<LF, Line(i), LF>>}
      BY <1>2, Zenon DEF Begun, LineEnded
    <2>2. /\ MessageOf(<<Line(i)>>) = <<<<Line(i)>>>> /\ MessageOf(<<LF, Line(i)>>) = <<<<Line(i)>>>>
          /\ MessageOf(<<Line(i), LF>>) = <<<<Line(i)>>>> /\ MessageOf(<<LF, Line(i), LF>>) = <<<<Line(i)>>>>
      BY LineBlock, Zenon DEF Line
    <2>3. Remaining(block) = <<<<Line(i)>>>>
      BY <2>1, <2>2, Zenon DEF Remaining
    <2>4. i = m + 1
      BY <1>2 DEF Begun, LineEnded
    <2> QED  BY <2>3, <2>4
  <1> QED  BY <1>1, <1>2 DEF Shaped

\* A line cut off is a message of its own.
LEMMA TornRemaining ==
  ASSUME NEW dialect \in Dialects, NEW i \in Nat, NEW m, NEW block, NEW place, place = Size(dialect) - 1,
         Shaped(dialect, i, place, m, block), NEW v \in Nat
  PROVE  Remaining(Append(block, Token("torn", v))) = <<<<Token("torn", v)>>>>
  <1>1. place \in {2, 4} /\ (dialect = "google" => place = 4)
    BY DEF Size
  <1>2. block \in {<< >>, <<LF>>}
    BY <1>1 DEF Shaped, Begun, LineEnded, Passed
  <1>3. LF \in Tokens /\ Token("torn", v) \in Tokens
    BY DEF LF, Token, Tokens
  <1>4. Append(<< >>, Token("torn", v)) = <<Token("torn", v)>>
    OBVIOUS
  <1>5. Append(<<LF>>, Token("torn", v)) = <<LF, Token("torn", v)>>
    BY <1>3, AppendToOne, Zenon
  <1>6. /\ MessageOf(<<Token("torn", v)>>) = <<<<Token("torn", v)>>>>
        /\ MessageOf(<<LF, Token("torn", v)>>) = <<<<Token("torn", v)>>>>
    BY LineBlock, Zenon
  <1> QED  BY <1>2, <1>4, <1>5, <1>6, Zenon DEF Remaining

LEMMA WireTyped ==
  ASSUME NEW dialect \in Dialects, NEW count \in Nat
  PROVE  /\ Wire(dialect, count) \in Seq(Tokens)
         /\ dialect # "google" => \A n \in 1 .. Len(Wire(dialect, count)) : Wire(dialect, count)[n] # CR
  <1> DEFINE size == IF dialect = "google" THEN 5 ELSE 3
             token(n) == CASE (n - 1) % size = 0 -> Token("data", 1 + (n - 1) \div size)
                           [] dialect = "google" /\ (n - 1) % size \in {1, 3} -> CR
                           [] OTHER -> LF
  <1>1. size * count \in Nat /\ Wire(dialect, count) = [n \in 1 .. size * count |-> token(n)]
    BY DEF Wire
  <1>2. ASSUME NEW n \in 1 .. size * count
        PROVE  token(n) \in Tokens /\ (dialect # "google" => token(n) # CR)
    <2>1. LF \in Tokens /\ CR \in Tokens /\ LF # CR
      BY DEF LF, CR, Token, Tokens
    <2>2. 1 + (n - 1) \div size \in Nat
      <3>1. CASE size = 3
        BY <3>1
      <3>2. CASE size = 5
        BY <3>2
      <3> QED  BY <3>1, <3>2
    <2>3. Token("data", 1 + (n - 1) \div size) \in Tokens /\ Token("data", 1 + (n - 1) \div size) # CR
      BY <2>2 DEF Token, Tokens, CR
    <2> HIDE DEF size
    <2> QED  BY <2>1, <2>3
  <1> HIDE DEF size, token
  <1>3. Wire(dialect, count) \in Seq(Tokens)
    BY <1>1, <1>2
  <1>4. Len(Wire(dialect, count)) = size * count /\ \A n \in 1 .. size * count : Wire(dialect, count)[n] = token(n)
    BY <1>1
  <1> QED  BY <1>2, <1>3, <1>4

ReadStands(dialect, pos, m, read) ==
    \E next \in ScanTypes :
        Stands(dialect, pos, m, next) /\ next.messages = read.messages /\ next.block = read.buffer

\* What a read of a part of a wire yields: the messages that are complete after it, in their order.
LEMMA ReceivedStands ==
  ASSUME NEW dialect \in Dialects, NEW count \in Nat, NEW W, W = Wire(dialect, count),
         NEW pos \in 0 .. Len(W), NEW n \in 0 .. Len(W) - pos, NEW i \in Nat, NEW place \in Nat, NEW m \in Nat,
         NEW kept, Place(dialect, pos, i, place), Shaped(dialect, i, place, m, kept),
         NEW chunk, chunk = SubSeq(W, pos + 1, pos + n),
         NEW there, there = pos + n, NEW read, read = Received(kept, chunk)
  PROVE  ReadStands(dialect, there, m, read)
  <1> DEFINE text == kept \o chunk
             b == Len(kept)
             scan(c) == RawScan(text, b + c)
             S == {c \in 0 .. n : Stands(dialect, pos + c, m, scan(c))}
  <1>1. W \in Seq(Tokens) /\ Len(W) \in Nat /\ (dialect # "google" => \A j \in 1 .. Len(W) : W[j] # CR)
    BY WireTyped
  <1>2. chunk \in Seq(Tokens) /\ Len(chunk) = n /\ \A j \in 1 .. n : chunk[j] = W[pos + j]
    BY <1>1
  <1>3. Settled(kept) /\ kept \in Seq(Tokens)
    BY ShapeSettled DEF Settled
  <1>4. /\ text \in Seq(Tokens) /\ b = Len(kept) /\ b \in Nat /\ n \in Nat /\ Len(text) = b + n
        /\ (\A j \in 1 .. b : text[j] = kept[j]) /\ (\A j \in 1 .. n : text[b + j] = chunk[j])
    <2>1. text = kept \o chunk /\ b = Len(kept)
      OBVIOUS
    <2> HIDE DEF text, b
    <2>2. Follows(Tokens, kept, chunk, text)
      BY <1>2, <1>3, <2>1, ConcatenatedAs, Zenon
    <2> QED  BY <1>2, <2>1, <2>2, Zenon DEF Follows
  <1>0. /\ b \in Nat /\ n \in Nat /\ Len(text) = b + n /\ Len(W) \in Nat
        /\ pos \in 0 .. Len(W) /\ n \in 0 .. Len(W) - pos
    BY <1>1, <1>4
  <1> HIDE DEF text, b
  <1>5. dialect # "google" => \A j \in 1 .. Len(text) : text[j] # CR
    <2> SUFFICES ASSUME dialect # "google", NEW j \in 1 .. Len(text)  PROVE  text[j] # CR
      OBVIOUS
    <2>1. CASE j <= b
      <3>1. j \in 1 .. b
        BY <1>4, <2>1
      <3> QED  BY <1>3, <1>4, <3>1 DEF Settled
    <2>2. CASE j > b
      <3>1. j - b \in 1 .. n /\ b + (j - b) = j /\ pos + (j - b) \in 1 .. Len(W)
        BY <1>1, <1>4, <2>2
      <3>2. text[j] = W[pos + (j - b)]
        BY <1>2, <1>4, <3>1
      <3> QED  BY <1>1, <3>1, <3>2
    <2> QED  BY <1>4, <2>1, <2>2
  <1>6. 0 \in S
    <2>1. scan(0).messages = << >> /\ scan(0).block = kept
      <3>1. RawScan(text, b).messages = << >> /\ RawScan(text, b).block = kept
        <4>1. text = kept \o chunk
          BY DEF text
        <4>2. ScanIs(RawScan(text, Len(kept)), << >>, kept)
          BY <1>2, <1>3, <4>1, KeptScanned, Zenon
        <4> QED  BY <1>4, <4>2, Zenon DEF ScanIs
      <3>2. b + 0 = b
        BY <1>4
      <3> QED  BY <3>1, <3>2, Zenon
    <2>2. Data(m, m) = << >>
      BY DEF Data
    <2>3. pos + 0 = pos /\ m <= m /\ 0 \in 0 .. n
      OBVIOUS
    <2>4. Stands(dialect, pos, m, scan(0))
      BY <2>1, <2>2, <2>3, Zenon DEF Stands
    <2> HIDE DEF scan
    <2> QED  BY <2>3, <2>4
  <1>7. ASSUME NEW c \in 0 .. n - 1, c \in S  PROVE  c + 1 \in S
    <2> DEFINE token == W[(pos + c) + 1]
               now == scan(c)
               next == scan(c + 1)
               line == LineOf(text, (b + c) + 1)
    <2>1. /\ b + c \in 0 .. Len(text) - 1 /\ b + (c + 1) = (b + c) + 1 /\ pos + (c + 1) = (pos + c) + 1
          /\ pos + c \in 0 .. Len(W) - 1 /\ c + 1 \in 0 .. n /\ c + 1 \in 1 .. n
          /\ (b + c) + 1 = b + (c + 1) /\ (b + c) + 1 \in 1 .. Len(text)
      <3> HIDE DEF S
      <3> QED  BY <1>0
    <2>2. Stands(dialect, pos + c, m, now)
      BY <1>7
    <2>3. Reads(now, line, next)
      <3>1. now = RawScan(text, b + c) /\ next = RawScan(text, (b + c) + 1)
        BY <2>1
      <3> HIDE DEF now, next, line
      <3>2. line = LineOf(text, (b + c) + 1)
        BY DEF line
      <3> QED  BY <1>4, <2>1, <3>1, <3>2, RawScanned, Zenon
    <2>4. text[(b + c) + 1] = token
      <3>1. text[b + (c + 1)] = chunk[c + 1] /\ chunk[c + 1] = W[pos + (c + 1)]
        BY <1>2, <1>4, <2>1, Zenon
      <3> QED  BY <2>1, <3>1, Zenon
    <2>5. \/ line = IF token = CR THEN <<LF>> ELSE <<token>>
          \/ line = << >> /\ token = LF /\ dialect = "google"
      <3> DEFINE p == (b + c) + 1
      <3> HIDE DEF token, p, now, next
      <3>1. text[p] = token /\ p \in 1 .. Len(text) /\ (p > 1 => p - 1 \in 1 .. Len(text))
        <4>1. p \in 1 .. Len(text) /\ text[p] = token
          BY <2>1, <2>4, Zenon DEF p
        <4>2. p > 1 => p - 1 \in 1 .. Len(text)
          BY <1>0, <4>1
        <4> QED  BY <4>1, <4>2
      <3>2. LF # CR
        BY DEF LF, CR, Token
      <3>3. line = LineOf(text, p)
        BY DEF p
      <3>4. CASE text[p] = LF /\ p > 1 /\ text[p - 1] = CR
        <4>1. line = << >>
          BY <3>2, <3>3, <3>4, Zenon DEF LineOf
        <4> QED  BY <1>5, <3>1, <3>4, <4>1
      <3>5. CASE ~ (text[p] = LF /\ p > 1 /\ text[p - 1] = CR)
        <4>1. line = IF text[p] = CR THEN <<LF>> ELSE <<text[p]>>
          <5>1. CASE text[p] = CR
            BY <3>2, <3>3, <3>5, <5>1, Zenon DEF LineOf
          <5>2. CASE text[p] # CR
            BY <3>3, <3>5, <5>2, Zenon DEF LineOf
          <5> QED  BY <5>1, <5>2
        <4> QED  BY <3>1, <4>1
      <3> QED  BY <3>4, <3>5
    <2> HIDE DEF token, now, next, line
    <2>6. Stands(dialect, (pos + c) + 1, m, next)
      <3>1. token = Wire(dialect, count)[(pos + c) + 1] /\ pos + c \in 0 .. Len(Wire(dialect, count)) - 1
        BY <2>1 DEF token
      <3> QED  BY <2>2, <2>3, <2>5, <3>1, TokenStands, Zenon
    <2>7. Stands(dialect, pos + (c + 1), m, scan(c + 1))
      BY <2>1, <2>6, Zenon DEF next
    <2> HIDE DEF scan
    <2> QED  BY <2>1, <2>7
  <1>8. \A c \in 0 .. n : c \in S
    <2> HIDE DEF S
    <2> QED  BY <1>4, <1>6, <1>7, Inducted
  <1>9. Stands(dialect, pos + n, m, scan(n))
    <2>1. n \in S
      <3> HIDE DEF S
      <3> QED  BY <1>8
    <2> HIDE DEF scan
    <2> QED  BY <2>1
  <1> DEFINE norm == NormalizedLines(text)
             last == Scans(norm)[Len(norm)]
  <1>10. norm \in Seq(Tokens) /\ last = scan(n)
    BY <1>4, NormalTyped
  <1>11. /\ read.messages = last.messages /\ read.buffer \in Seq(Tokens)
         /\ last.block \in {read.buffer, <<LF>> \o read.buffer}
    <2>1. norm = NormalizedLines(kept \o chunk)
      BY DEF text
    <2>2. last = Scans(norm)[Len(norm)] /\ read = Received(kept, chunk)
      OBVIOUS
    <2> HIDE DEF norm, last
    <2>3. ReadAs(Received(kept, chunk), Scans(norm)[Len(norm)])
      BY <1>10, <2>1, ReceivedScanned, Zenon
    <2> QED  BY <2>2, <2>3, Zenon DEF ReadAs
  <1>12. last \in ScanTypes
    BY <1>10, ScansTyped
  <1>13. Stands(dialect, pos + n, m, last)
    BY <1>9, <1>10, Zenon
  <1> HIDE DEF last
  <1> DEFINE next == [messages |-> last.messages, block |-> read.buffer]
  <1>14. next \in ScanTypes /\ next.messages = last.messages /\ next.block = read.buffer
    BY <1>11, <1>12 DEF ScanTypes
  <1>15. Stands(dialect, pos + n, m, next)
    <2>1. PICK j \in Nat, spot \in Nat, k \in Nat :
            /\ Place(dialect, pos + n, j, spot) /\ Shaped(dialect, j, spot, k, last.block)
            /\ m <= k /\ last.messages = Data(m, k)
      BY <1>13, Zenon DEF Stands
    <2>2. Shaped(dialect, j, spot, k, read.buffer)
      <3> DEFINE block == last.block
                 rest == read.buffer
                 longer == <<LF>> \o rest
      <3>1. rest \in Seq(Tokens) /\ longer = <<LF>> \o rest /\ block \in {rest, longer} /\ Shaped(dialect, j, spot, k, block)
        BY <1>11, <2>1, Zenon
      <3> HIDE DEF block, rest, longer
      <3>2. Shaped(dialect, j, spot, k, rest)
        BY <3>1, ShapeShortened, Zenon
      <3> QED  BY <3>2 DEF rest
    <2> HIDE DEF next
    <2> QED  BY <1>14, <2>1, <2>2, Zenon DEF Stands
  <1> HIDE DEF next
  <1> QED  BY <1>11, <1>14, <1>15, Zenon DEF ReadStands

-----------------------------------------------------------------------------
(* The mapper of Gemini, part by part.                                       *)

\* A decoder, field by field.
IsDecoder(d) ==
    d = [text |-> d.text, items |-> d.items, args |-> d.args, blocks |-> d.blocks, start |-> d.start, usage |-> d.usage,
         finish |-> d.finish, answer |-> d.answer, failed |-> d.failed]

\* The recursion over the parts of a chunk is a function.
LEMMA GeminiEquation ==
  ASSUME NEW decoder0, NEW parts, NEW N \in Nat, N = Len(parts)
  PROVE  /\ GeminiParts(decoder0, parts)[0] = decoder0
         /\ \A n \in 1 .. N : GeminiParts(decoder0, parts)[n] = GeminiPart(GeminiParts(decoder0, parts)[n - 1], parts[n])
  <1> DEFINE Rule(f, d) == f = [n \in 0 .. d |-> IF n = 0 THEN decoder0 ELSE GeminiPart(f[n - 1], parts[n])]
             S == {d \in 0 .. N : \E f : Rule(f, d)}
  <1>1. 0 \in S
    <2> DEFINE g == [n \in 0 .. 0 |-> decoder0]
    <2>1. Rule(g, 0)
      OBVIOUS
    <2> HIDE DEF g, Rule
    <2> QED  BY <2>1
  <1>2. ASSUME NEW d \in 0 .. N - 1, d \in S  PROVE  d + 1 \in S
    <2>1. PICK f : Rule(f, d)
      BY <1>2
    <2> DEFINE g == [n \in 0 .. d + 1 |-> IF n = d + 1 THEN GeminiPart(f[d], parts[d + 1]) ELSE f[n]]
    <2>2. \A n \in 0 .. d + 1 : g[n] = IF n = 0 THEN decoder0 ELSE GeminiPart(g[n - 1], parts[n])
      BY <2>1
    <2>3. Rule(g, d + 1)
      <3>1. g = [n \in 0 .. d + 1 |-> g[n]]
        OBVIOUS
      <3> HIDE DEF g
      <3> QED BY <2>2, <3>1
    <2> HIDE DEF g, Rule
    <2> QED  BY <2>3
  <1>3. \E f : Rule(f, N)
    <2>1. N \in S
      <3> HIDE DEF S
      <3> QED  BY <1>1, <1>2, Inducted
    <2> HIDE DEF Rule
    <2> QED  BY <2>1
  <1>4. GeminiParts(decoder0, parts) = CHOOSE f : Rule(f, N)
    BY Zenon DEF GeminiParts
  <1>5. Rule(GeminiParts(decoder0, parts), N)
    <2> HIDE DEF Rule
    <2> QED  BY <1>3, <1>4, Zenon
  <1> DEFINE J == GeminiParts(decoder0, parts)
  <1>6. ASSUME NEW n \in 0 .. N  PROVE  J[n] = IF n = 0 THEN decoder0 ELSE GeminiPart(J[n - 1], parts[n])
    <2>1. J = [n_1 \in 0 .. N |-> IF n_1 = 0 THEN decoder0 ELSE GeminiPart(J[n_1 - 1], parts[n_1])]
      BY <1>5
    <2> HIDE DEF J
    <2> QED  BY <2>1, Zenon
  <1> HIDE DEF J
  <1>7. J[0] = decoder0
    <2>1. 0 \in 0 .. N
      OBVIOUS
    <2> QED  BY <1>6, <2>1, Zenon
  <1>8. ASSUME NEW n \in 1 .. N  PROVE  J[n] = GeminiPart(J[n - 1], parts[n])
    <2>1. n \in 0 .. N /\ n # 0
      OBVIOUS
    <2> QED  BY <1>6, <2>1, Zenon
  <1> QED  BY <1>7, <1>8, Zenon DEF J

LEMMA GeminiNext ==
  ASSUME NEW decoder0, NEW parts, Len(parts) \in Nat, NEW n \in 0 .. Len(parts) - 1
  PROVE  GeminiParts(decoder0, parts)[n + 1] = GeminiPart(GeminiParts(decoder0, parts)[n], parts[n + 1])
  <1>1. n + 1 \in 1 .. Len(parts) /\ (n + 1) - 1 = n
    OBVIOUS
  <1>2. \A m \in 1 .. Len(parts) : GeminiParts(decoder0, parts)[m] = GeminiPart(GeminiParts(decoder0, parts)[m - 1], parts[m])
    BY GeminiEquation
  <1> QED  BY <1>1, <1>2, Zenon

\* Two decoders that have gathered the same so far gather the same of a part, and what else they
\* hold stays as it is.
Alike(d, e) == IsDecoder(d) /\ IsDecoder(e) /\ d.text = e.text /\ d.items = e.items /\ d.blocks = e.blocks
Unmoved(d, e) == d.usage = e.usage /\ d.finish = e.finish /\ d.answer = e.answer /\ d.failed = e.failed

LEMMA GeminiPartAlike ==
  ASSUME NEW d, NEW e, Alike(d, e), NEW part
  PROVE  Alike(GeminiPart(d, part), GeminiPart(e, part)) /\ Unmoved(GeminiPart(d, part), d)
  <1>1. IsDecoder(d) /\ IsDecoder(e) /\ d.text = e.text /\ d.items = e.items /\ d.blocks = e.blocks
    BY Zenon DEF Alike
  <1>2. CASE part.type = "text"
    BY <1>1, <1>2 DEF GeminiPart, IsDecoder, Alike, Unmoved
  <1>3. CASE part.type = "tool_use"
    BY <1>1, <1>3 DEF GeminiPart, IsDecoder, Alike, Unmoved
  <1>4. CASE part.type \notin {"text", "tool_use"}
    BY <1>1, <1>4 DEF GeminiPart, IsDecoder, Alike, Unmoved
  <1> QED  BY <1>2, <1>3, <1>4

LEMMA NewDecoderIs == IsDecoder(NewDecoder)
  BY DEF IsDecoder, NewDecoder

LEMMA GeminiKept ==
  ASSUME NEW whole, IsDecoder(whole), NEW parts, Len(parts) \in Nat, NEW n \in 0 .. Len(parts)
  PROVE  IsDecoder(GeminiParts(whole, parts)[n]) /\ Unmoved(GeminiParts(whole, parts)[n], whole)
  <1> DEFINE P == GeminiParts(whole, parts)
             Kept_(k) == IsDecoder(P[k]) /\ Unmoved(P[k], whole)
             S == {k \in 0 .. Len(parts) : Kept_(k)}
  <1>1. 0 \in S
    <2>1. P[0] = whole
      BY GeminiEquation
    <2> HIDE DEF P
    <2>2. 0 \in 0 .. Len(parts)
      OBVIOUS
    <2> QED  BY <2>1, <2>2 DEF Unmoved
  <1>2. ASSUME NEW k \in 0 .. Len(parts) - 1, k \in S  PROVE  k + 1 \in S
    <2>1. P[k + 1] = GeminiPart(P[k], parts[k + 1])
      BY GeminiNext, Zenon
    <2>2. Kept_(k) /\ k + 1 \in 0 .. Len(parts)
      BY <1>2
    <2> HIDE DEF P
    <2>3. Alike(P[k], P[k])
      BY <2>2, Zenon DEF Alike
    <2>4. Alike(P[k + 1], P[k + 1]) /\ Unmoved(P[k + 1], P[k])
      BY <2>1, <2>3, GeminiPartAlike, Zenon
    <2>5. Kept_(k + 1)
      BY <2>2, <2>4, Zenon DEF Alike, Unmoved
    <2> HIDE DEF Kept_
    <2> QED  BY <2>2, <2>5
  <1>3. \A k \in 0 .. Len(parts) : k \in S
    <2> HIDE DEF S
    <2> QED  BY <1>1, <1>2, Inducted
  <1> QED  BY <1>3

-----------------------------------------------------------------------------
(* What the Gemini mapper holds after k of the payloads.                     *)

GeminiCounted(given) ==
    LET counted == IF given.usage.input = 0 THEN NewDecoder ELSE [NewDecoder EXCEPT !.usage = UsageFromGemini(given.usage)]
    IN  IF given.finish = "none" THEN counted ELSE [counted EXCEPT !.finish = given.finish]
GeminiStage(given, k, d) ==
    LET parts == GeminiParts(GeminiCounted(given), given.blocks)
        count == Len(given.blocks)
    IN  /\ d.answer = NoAnswer /\ d.failed = FALSE
        /\ IF k <= count THEN Alike(d, parts[k]) /\ d.finish = "none"
           ELSE Alike(d, parts[count]) /\ d.finish = given.finish /\ d.usage = UsageFromGemini(given.usage)

LEMMA GeminiCountedIs ==
  ASSUME NEW given \in GivenTypes
  PROVE  /\ IsDecoder(GeminiCounted(given)) /\ GeminiCounted(given).usage = UsageFromGemini(given.usage)
         /\ GeminiCounted(given).finish = given.finish
         /\ GeminiCounted(given).text = << >> /\ GeminiCounted(given).items = << >> /\ GeminiCounted(given).blocks = << >>
  <1>1. given.usage.input # 0
    BY DEF GivenTypes, UsageTypes
  <1>2. CASE given.finish = "none"
    BY <1>1, <1>2 DEF GeminiCounted, IsDecoder, NewDecoder
  <1>3. CASE given.finish # "none"
    BY <1>1, <1>3 DEF GeminiCounted, IsDecoder, NewDecoder
  <1> QED  BY <1>2, <1>3

\* Before any payload the mapper of Gemini is at the first stage.
LEMMA GeminiStart ==
  ASSUME NEW given \in GivenTypes
  PROVE  GeminiStage(given, 0, NewDecoder)
  <1>1. Len(given.blocks) \in Nat /\ 0 <= Len(given.blocks)
    BY DEF GivenTypes
  <1>2. GeminiParts(GeminiCounted(given), given.blocks)[0] = GeminiCounted(given)
    BY <1>1, GeminiEquation
  <1>3. Alike(NewDecoder, GeminiCounted(given))
    BY GeminiCountedIs, NewDecoderIs DEF Alike, NewDecoder
  <1>4. NewDecoder.answer = NoAnswer /\ NewDecoder.failed = FALSE /\ NewDecoder.finish = "none"
    BY DEF NewDecoder
  <1> QED  BY <1>1, <1>2, <1>3, <1>4, Zenon DEF GeminiStage

\* A sequence of N, and one more.
LastPut(r, N, s, x) == Len(r) = N + 1 /\ r[N + 1] = x /\ \A i \in 1 .. N : r[i] = s[i]

LEMMA PutLast ==
  ASSUME NEW N \in Nat, NEW s, s = [i \in 1 .. N |-> s[i]], NEW x
  PROVE  LastPut(s \o <<x>>, N, s, x)
  <1> DEFINE X == {s[i] : i \in 1 .. N} \cup {x}
             t == <<x>>
  <1>1. \A i \in 1 .. N : s[i] \in X
    OBVIOUS
  <1>2. x \in X
    OBVIOUS
  <1> HIDE DEF X
  <1>3. s \in Seq(X) /\ Len(s) = N
    BY <1>1
  <1>4. t \in Seq(X) /\ Len(t) = 1 /\ t[1] = x
    BY <1>2
  <1> HIDE DEF t
  <1>5. Follows(X, s, t, s \o t)
    BY <1>3, <1>4, ConcatenatedAs, Zenon
  <1>6. (s \o t)[N + 1] = x /\ Len(s \o t) = N + 1 /\ \A i \in 1 .. N : (s \o t)[i] = s[i]
    <2> DEFINE r == s \o t
    <2>1. Follows(X, s, t, r)
      BY <1>5
    <2> HIDE DEF r
    <2>2. 1 \in 1 .. 1
      OBVIOUS
    <2>3. r[N + 1] = x /\ Len(r) = N + 1 /\ \A i \in 1 .. N : r[i] = s[i]
      BY <1>3, <1>4, <2>1, <2>2, Zenon DEF Follows
    <2> QED  BY <2>3 DEF r
  <1> QED  BY <1>6, Zenon DEF LastPut, t

LEMMA GooglePayload ==
  ASSUME NEW given \in GivenTypes, NEW k \in 0 .. Len(given.blocks)
  PROVE  /\ Len(GooglePayloads(given)) = Len(given.blocks) + 1
         /\ k < Len(given.blocks) => GooglePayloads(given)[k + 1] =
              [t |-> "chunk", parts |-> <<given.blocks[k + 1]>>, usage |-> [given.usage EXCEPT !.output = k + 1], finish |-> "none"]
         /\ k = Len(given.blocks) => GooglePayloads(given)[k + 1] =
              [t |-> "chunk", parts |-> << >>, usage |-> given.usage, finish |-> given.finish]
  <1> DEFINE count == Len(given.blocks)
             s == [i \in 1 .. count |-> [t |-> "chunk", parts |-> <<given.blocks[i]>>,
                                        usage |-> [given.usage EXCEPT !.output = i], finish |-> "none"]]
             last == [t |-> "chunk", parts |-> << >>, usage |-> given.usage, finish |-> given.finish]
  <1>1. count \in Nat
    BY DEF GivenTypes
  <1>2. Len(s) = count /\ \A i \in 1 .. count : s[i] = [t |-> "chunk", parts |-> <<given.blocks[i]>>,
                                        usage |-> [given.usage EXCEPT !.output = i], finish |-> "none"]
    BY <1>1
  <1>3. s = [i \in 1 .. count |-> s[i]]
    OBVIOUS
  <1>4. GooglePayloads(given) = s \o <<last>>
    BY Zenon DEF GooglePayloads
  <1> HIDE DEF s, last, count
  <1>5. LastPut(s \o <<last>>, count, s, last)
    BY <1>1, <1>3, PutLast, Zenon
  <1>6. k < count => k + 1 \in 1 .. count
    BY <1>1 DEF count
  <1>7. /\ Len(GooglePayloads(given)) = count + 1
        /\ k < count => GooglePayloads(given)[k + 1] = s[k + 1]
        /\ k = count => GooglePayloads(given)[k + 1] = last
    BY <1>4, <1>5, <1>6, Zenon DEF LastPut
  <1> QED  BY <1>2, <1>6, <1>7 DEF count, last

LEMMA GeminiZero ==
  ASSUME NEW d, NEW parts, Len(parts) \in Nat
  PROVE  GeminiParts(d, parts)[0] = d
  BY GeminiEquation

PartTaken(now, part, next) == next = GeminiPart(now, part)

LEMMA GeminiStep ==
  ASSUME NEW d, NEW parts, Len(parts) \in Nat, NEW n \in 0 .. Len(parts) - 1, NEW m, m = n + 1,
         NEW now, NEW next, NEW part, now = GeminiParts(d, parts)[n], next = GeminiParts(d, parts)[m], part = parts[m]
  PROVE  PartTaken(now, part, next)
  <1>1. GeminiParts(d, parts)[n + 1] = GeminiPart(GeminiParts(d, parts)[n], parts[n + 1])
    BY GeminiNext
  <1> QED  BY <1>1, Zenon DEF PartTaken

\* A decoder whose usage and reason are set by a chunk.
GeminiNoted(d, payload) ==
    LET counted == IF payload.usage.input = 0 THEN d ELSE [d EXCEPT !.usage = UsageFromGemini(payload.usage)]
    IN  IF payload.finish = "none" THEN counted ELSE [counted EXCEPT !.finish = payload.finish]

LEMMA GeminiNotedIs ==
  ASSUME NEW d, IsDecoder(d), NEW payload, payload.usage.input # 0, NEW f, f = GeminiNoted(d, payload)
  PROVE  /\ Alike(f, d) /\ f.answer = d.answer /\ f.failed = d.failed /\ f.usage = UsageFromGemini(payload.usage)
         /\ f.finish = IF payload.finish = "none" THEN d.finish ELSE payload.finish
  <1>1. CASE payload.finish = "none"
    BY <1>1 DEF GeminiNoted, IsDecoder, Alike
  <1>2. CASE payload.finish # "none"
    BY <1>2 DEF GeminiNoted, IsDecoder, Alike
  <1> QED  BY <1>1, <1>2

LEMMA GeminiMapIs ==
  ASSUME NEW d, NEW payload, payload.t = "chunk"
  PROVE  GeminiMap(d, payload) =
           [GeminiParts(GeminiNoted(d, payload), payload.parts)[Len(payload.parts)] EXCEPT !.failed = FALSE]
  BY DEF GeminiMap, GeminiNoted

Cleared(f, p, e) ==
    Alike(f, e) /\ f.failed = FALSE /\ f.answer = p.answer /\ f.finish = p.finish /\ f.usage = p.usage

LEMMA UnfailedAlike ==
  ASSUME NEW p, NEW e, Alike(p, e), NEW f, f = [p EXCEPT !.failed = FALSE]
  PROVE  Cleared(f, p, e)
  BY DEF Alike, IsDecoder, Cleared

LEMMA AlikeSame ==
  ASSUME NEW a, NEW b, NEW c, Alike(a, b), Alike(b, c)
  PROVE  Alike(a, c)
  BY DEF Alike

\* A chunk of Gemini moves its stage one on, without a failure.
LEMMA GeminiGoesOn ==
  ASSUME NEW given \in GivenTypes, NEW k \in 0 .. Len(given.blocks), NEW d, GeminiStage(given, k, d),
         NEW next, next = GeminiMap(d, GooglePayloads(given)[k + 1])
  PROVE  GeminiStage(given, k + 1, next) /\ ~ next.failed
  <1> DEFINE count == Len(given.blocks)
             parts == GeminiParts(GeminiCounted(given), given.blocks)
             payload == GooglePayloads(given)[k + 1]
             f == GeminiNoted(d, payload)
             p == GeminiParts(f, payload.parts)[Len(payload.parts)]
  <1>1. /\ count \in Nat /\ k \in Nat /\ k <= count /\ given.usage \in UsageTypes
        /\ (k < count => k \in 0 .. count - 1 /\ k + 1 <= count) /\ (k = count => ~ (k + 1 <= count))
    BY DEF GivenTypes
  <1>2. /\ k < count => payload =
              [t |-> "chunk", parts |-> <<given.blocks[k + 1]>>, usage |-> [given.usage EXCEPT !.output = k + 1], finish |-> "none"]
        /\ k = count => payload = [t |-> "chunk", parts |-> << >>, usage |-> given.usage, finish |-> given.finish]
    BY GooglePayload
  <1>3. Alike(d, parts[k]) /\ d.finish = "none" /\ d.answer = NoAnswer /\ d.failed = FALSE
    BY <1>1, Zenon DEF GeminiStage
  <1>4. IsDecoder(d)
    BY <1>3, Zenon DEF Alike
  <1> HIDE DEF payload, parts, count
  <1>5. payload.t = "chunk" /\ payload.usage.input # 0
    <2>1. given.usage.input # 0 /\ [given.usage EXCEPT !.output = k + 1].input # 0
      BY <1>1 DEF UsageTypes
    <2>2. CASE k < count
      <3>1. payload.t = "chunk" /\ payload.usage = [given.usage EXCEPT !.output = k + 1]
        BY <1>2, <2>2
      <3> QED  BY <2>1, <3>1, Zenon
    <2>3. CASE k = count
      <3>1. payload.t = "chunk" /\ payload.usage = given.usage
        BY <1>2, <2>3
      <3> QED  BY <2>1, <3>1, Zenon
    <2> QED  BY <1>1, <2>2, <2>3
  <1>6. /\ Alike(f, d) /\ f.answer = d.answer /\ f.failed = d.failed /\ f.usage = UsageFromGemini(payload.usage)
        /\ f.finish = IF payload.finish = "none" THEN d.finish ELSE payload.finish
    BY <1>4, <1>5, GeminiNotedIs
  <1>7. next = [p EXCEPT !.failed = FALSE]
    BY <1>5, GeminiMapIs, Zenon DEF payload
  <1> HIDE DEF f
  <1>8. CASE k < count
    <2>1. /\ payload.parts = <<given.blocks[k + 1]>> /\ Len(payload.parts) = 1 /\ payload.parts[1] = given.blocks[k + 1]
          /\ payload.finish = "none"
      BY <1>2, <1>8
    <2>2. p = GeminiPart(f, given.blocks[k + 1])
      <3>1. 0 \in 0 .. Len(payload.parts) - 1 /\ Len(payload.parts) \in Nat /\ 1 = 0 + 1
        BY <2>1
      <3>2. GeminiParts(f, payload.parts)[0] = f
        BY <3>1, GeminiZero, Zenon
      <3> DEFINE now == GeminiParts(f, payload.parts)[0]
                 later == GeminiParts(f, payload.parts)[1]
                 part == payload.parts[1]
      <3>3. PartTaken(now, part, later)
        BY <3>1, GeminiStep, Zenon
      <3> QED  BY <2>1, <3>2, <3>3, Zenon DEF PartTaken
    <2> HIDE DEF p
    <2>3. parts[k + 1] = GeminiPart(parts[k], given.blocks[k + 1])
      <3>1. k \in 0 .. Len(given.blocks) - 1 /\ Len(given.blocks) \in Nat
        BY <1>1, <1>8 DEF count
      <3> DEFINE now == parts[k]
                 later == parts[k + 1]
                 part == given.blocks[k + 1]
      <3>2. k + 1 = k + 1 /\ now = GeminiParts(GeminiCounted(given), given.blocks)[k]
            /\ later = GeminiParts(GeminiCounted(given), given.blocks)[k + 1] /\ part = given.blocks[k + 1]
        BY DEF parts
      <3> HIDE DEF now, later, part
      <3>3. PartTaken(now, part, later)
        BY <3>1, <3>2, GeminiStep, Zenon
      <3> QED  BY <3>3, Zenon DEF PartTaken, now, later, part
    <2>4. Alike(f, parts[k])
      BY <1>3, <1>6, AlikeSame
    <2>5. Alike(p, parts[k + 1]) /\ Unmoved(p, f)
      BY <2>2, <2>3, <2>4, GeminiPartAlike, Zenon
    <2>6. Alike(next, parts[k + 1]) /\ next.failed = FALSE /\ next.answer = p.answer /\ next.finish = p.finish
      <3>1. Cleared(next, p, parts[k + 1])
        BY <1>7, <2>5, UnfailedAlike, Zenon
      <3> QED  BY <3>1, Zenon DEF Cleared
    <2>7. next.answer = NoAnswer /\ next.finish = "none"
      BY <1>3, <1>6, <2>1, <2>5, <2>6 DEF Unmoved
    <2> QED  BY <1>1, <1>8, <2>6, <2>7, Zenon DEF GeminiStage, parts, count
  <1>9. CASE k = count
    <2>1. payload.parts = << >> /\ Len(payload.parts) = 0 /\ payload.finish = given.finish /\ payload.usage = given.usage
      BY <1>2, <1>9
    <2>2. p = f
      <3>1. GeminiParts(f, payload.parts)[0] = f
        <4>1. Len(payload.parts) \in Nat
          BY <2>1
        <4> QED  BY <4>1, GeminiZero, Zenon
      <3> QED  BY <2>1, <3>1, Zenon
    <2> HIDE DEF p
    <2>3. Alike(p, parts[count])
      BY <1>3, <1>6, <1>9, <2>2, AlikeSame
    <2>4. /\ Alike(next, parts[count]) /\ next.failed = FALSE /\ next.answer = p.answer /\ next.finish = p.finish
          /\ next.usage = p.usage
      <3>1. Cleared(next, p, parts[count])
        BY <1>7, <2>3, UnfailedAlike, Zenon
      <3> QED  BY <3>1, Zenon DEF Cleared
    <2>5. next.answer = NoAnswer /\ next.finish = given.finish /\ next.usage = UsageFromGemini(given.usage)
      BY <1>3, <1>6, <2>1, <2>2, <2>4
    <2> QED  BY <1>1, <1>9, <2>4, <2>5, Zenon DEF GeminiStage, parts, count
  <1> QED  BY <1>1, <1>8, <1>9

\* What the mapper has gathered of a response that came as one chunk.
GeminiWhole(given) ==
    GeminiMap(NewDecoder, [t |-> "chunk", parts |-> given.blocks, usage |-> given.usage, finish |-> given.finish])
GeminiGathered(given, e) ==
    /\ Alike(e, GeminiParts(GeminiCounted(given), given.blocks)[Len(given.blocks)])
    /\ e.finish = given.finish /\ e.usage = UsageFromGemini(given.usage)

LEMMA GeminiWholeIs ==
  ASSUME NEW given \in GivenTypes, NEW e, e = GeminiWhole(given)
  PROVE  GeminiGathered(given, e)
  <1> DEFINE count == Len(given.blocks)
             parts == GeminiParts(GeminiCounted(given), given.blocks)
             payload == [t |-> "chunk", parts |-> given.blocks, usage |-> given.usage, finish |-> given.finish]
  <1>1. e = GeminiMap(NewDecoder, payload)
    BY DEF GeminiWhole
  <1>2. GeminiNoted(NewDecoder, payload) = GeminiCounted(given) /\ payload.parts = given.blocks /\ payload.t = "chunk"
    BY DEF GeminiNoted, GeminiCounted
  <1>3. e = [parts[count] EXCEPT !.failed = FALSE]
    <2>1. e = [GeminiParts(GeminiNoted(NewDecoder, payload), payload.parts)[Len(payload.parts)] EXCEPT !.failed = FALSE]
      BY <1>1, <1>2, GeminiMapIs, Zenon
    <2> HIDE DEF payload
    <2> QED  BY <1>2, <2>1, Zenon
  <1>4. IsDecoder(parts[count]) /\ Unmoved(parts[count], GeminiCounted(given))
    <2>1. count \in Nat /\ count \in 0 .. count
      BY DEF GivenTypes
    <2> QED  BY <2>1, GeminiCountedIs, GeminiKept, Zenon
  <1> HIDE DEF parts, count
  <1>5. Alike(parts[count], parts[count])
    BY <1>4 DEF Alike
  <1>6. Alike(e, parts[count]) /\ e.finish = parts[count].finish /\ e.usage = parts[count].usage
    <2>1. Cleared(e, parts[count], parts[count])
      BY <1>3, <1>5, UnfailedAlike, Zenon
    <2> QED  BY <2>1, Zenon DEF Cleared
  <1>7. e.finish = given.finish /\ e.usage = UsageFromGemini(given.usage)
    BY <1>4, <1>6, GeminiCountedIs DEF Unmoved
  <1> QED  BY <1>6, <1>7, Zenon DEF GeminiGathered, parts, count

\* With a reason for the end, complete() gives what the whole response would.
LEMMA GeminiEnds ==
  ASSUME NEW given \in GivenTypes, NEW k \in 0 .. Len(given.blocks) + 1, NEW d, GeminiStage(given, k, d),
         GeminiComplete(d).finish # "none"
  PROVE  GeminiComplete(d) = WholeAnswer("google", given)
  <1> DEFINE last == GeminiParts(GeminiCounted(given), given.blocks)[Len(given.blocks)]
             e == GeminiWhole(given)
  <1>1. d.finish # "none"
    BY DEF GeminiComplete
  <1>2. Alike(d, last) /\ d.finish = given.finish /\ d.usage = UsageFromGemini(given.usage)
    BY <1>1, Zenon DEF GeminiStage
  <1>3. WholeAnswer("google", given) = GeminiComplete(e)
    BY DEF WholeAnswer, GeminiWhole
  <1> HIDE DEF e
  <1>4. GeminiGathered(given, e)
    BY GeminiWholeIs, Zenon DEF e
  <1>5. Alike(e, last) /\ e.finish = given.finish /\ e.usage = UsageFromGemini(given.usage)
    BY <1>4, Zenon DEF GeminiGathered
  <1> HIDE DEF last
  <1>6. d.text = e.text /\ d.items = e.items /\ d.blocks = e.blocks
    BY <1>2, <1>5 DEF Alike
  <1>7. GeminiComplete(d) = GeminiComplete(e)
    BY <1>2, <1>5, <1>6, Zenon DEF GeminiComplete
  <1> QED  BY <1>3, <1>7

-----------------------------------------------------------------------------
(* Payloads that come block by block, of OpenAI and of Anthropic.            *)

\* A sequence between its first element and its last one.
Framed(r, N, x, s, y, X) ==
    /\ r \in Seq(X) /\ Len(r) = N + 2 /\ r[1] = x /\ r[N + 2] = y
    /\ \A i \in 1 .. N : r[i + 1] = s[i]

LEMMA ListTyped ==
  ASSUME NEW N \in Nat, NEW s, NEW X, \A i \in 1 .. N : s[i] \in X
  PROVE  [i \in 1 .. N |-> s[i]] \in Seq(X) /\ Len([i \in 1 .. N |-> s[i]]) = N
OBVIOUS

LEMMA FramedIs ==
  ASSUME NEW N \in Nat, NEW s, s = [i \in 1 .. N |-> s[i]], NEW X, NEW x \in X, NEW y \in X,
         \A i \in 1 .. N : s[i] \in X, NEW r, r = <<x>> \o s \o <<y>>
  PROVE  Framed(r, N, x, s, y, X)
  <1> DEFINE a == <<x>>
             c == <<y>>
             q == a \o s
  <1>1. a \in Seq(X) /\ Len(a) = 1 /\ a[1] = x
    OBVIOUS
  <1>2. c \in Seq(X) /\ Len(c) = 1 /\ c[1] = y
    OBVIOUS
  <1>3. s \in Seq(X) /\ Len(s) = N
    <2> DEFINE f == [i \in 1 .. N |-> s[i]]
    <2>1. f \in Seq(X) /\ Len(f) = N
      BY ListTyped, Zenon
    <2>2. s = f
      BY Zenon
    <2> HIDE DEF f
    <2> QED  BY <2>1, <2>2, Zenon
  <1>4. r = q \o c
    BY Zenon
  <1> HIDE DEF a, c
  <1>5. Follows(X, a, s, q)
    BY <1>1, <1>3, ConcatenatedAs, Zenon
  <1> HIDE DEF q
  <1>6. Follows(X, q, c, r)
    <2>1. q \in Seq(X)
      BY <1>5, Zenon DEF Follows
    <2> QED  BY <1>2, <1>4, <2>1, ConcatenatedAs, Zenon
  <1>7. Len(q) = N + 1 /\ q[1] = x /\ \A i \in 1 .. N : q[i + 1] = s[i]
    <2>1. Len(q) = 1 + N /\ (\A i \in 1 .. 1 : q[i] = a[i]) /\ \A i \in 1 .. N : q[1 + i] = s[i]
      BY <1>1, <1>3, <1>5, Zenon DEF Follows
    <2>2. \A i \in 1 .. N : 1 + i = i + 1
      OBVIOUS
    <2>3. 1 \in 1 .. 1 /\ 1 + N = N + 1
      OBVIOUS
    <2> QED  BY <1>1, <2>1, <2>2, <2>3, Zenon
  <1>8. /\ r \in Seq(X) /\ Len(r) = (N + 1) + 1
        /\ (\A i \in 1 .. N + 1 : r[i] = q[i]) /\ \A i \in 1 .. 1 : r[(N + 1) + i] = c[i]
    BY <1>2, <1>6, <1>7, Zenon DEF Follows
  <1>9. Len(r) = N + 2 /\ r[1] = q[1] /\ r[N + 2] = c[1] /\ \A i \in 1 .. N : r[i + 1] = q[i + 1]
    <2>1. (N + 1) + 1 = N + 2 /\ 1 \in 1 .. N + 1 /\ 1 \in 1 .. 1 /\ \A i \in 1 .. N : i + 1 \in 1 .. N + 1
      OBVIOUS
    <2> QED  BY <1>8, <2>1, Zenon
  <1> QED  BY <1>2, <1>7, <1>8, <1>9, Zenon DEF Framed

Prefix(s, b) == [i \in 1 .. b |-> s[i]]
Prefixed(p, b, x, s, q) ==
    /\ Len(p) = b /\ q = [i \in 1 .. b + 1 |-> IF i = b + 1 THEN x ELSE s[i]] /\ Len(q) = b + 1
    /\ Prefix(s, b + 1) = [q EXCEPT ![b + 1] = s[b + 1]]
    /\ x = s[b + 1] => Prefix(s, b + 1) = q

LEMMA PrefixNext ==
  ASSUME NEW s, NEW b \in Nat, NEW x, NEW p, p = Prefix(s, b), NEW q, q = Append(p, x)
  PROVE  Prefixed(p, b, x, s, q)
  <1> DEFINE X == {s[i] : i \in 1 .. b} \cup {x}
             t == [i \in 1 .. b + 1 |-> IF i = b + 1 THEN x ELSE s[i]]
  <1>1. (\A i \in 1 .. b : s[i] \in X) /\ x \in X
    OBVIOUS
  <1>2. \A i \in 1 .. b + 1 : i # b + 1 => i \in 1 .. b
    OBVIOUS
  <1> HIDE DEF X
  <1>3. p \in Seq(X) /\ Len(p) = b
    BY <1>1 DEF Prefix
  <1>4. t \in Seq(X) /\ Len(t) = Len(p) + 1 /\ t[Len(t)] = x /\ \A i \in 1 .. Len(p) : t[i] = p[i]
    <2>1. \A i \in 1 .. b + 1 : (IF i = b + 1 THEN x ELSE s[i]) \in X
      BY <1>1, <1>2
    <2>2. t \in Seq(X) /\ Len(t) = b + 1
      BY <2>1
    <2>3. t[b + 1] = x /\ \A i \in 1 .. b : t[i] = s[i]
      OBVIOUS
    <2> QED  BY <1>3, <2>2, <2>3 DEF Prefix
  <1>5. q = t
    <2> HIDE DEF t
    <2>1. Append(p, x) = t
      BY <1>1, <1>3, <1>4, AppendIs
    <2> QED  BY <2>1
  <1>6. Prefix(s, b + 1) = [t EXCEPT ![b + 1] = s[b + 1]]
    BY DEF Prefix
  <1>7. x = s[b + 1] => Prefix(s, b + 1) = t
    BY DEF Prefix
  <1> QED  BY <1>3, <1>4, <1>5, <1>6, <1>7 DEF Prefixed

-----------------------------------------------------------------------------
(* Where k payloads end in a list of blocks of payloads: after b of the      *)
(* blocks and j payloads of the next one.                                    *)

Blocked(X, parts) == parts \in Seq(Seq(X)) /\ \A i \in 1 .. Len(parts) : Len(parts[i]) # 0
AtBlock(parts, k, b, j) ==
    /\ b \in 0 .. Len(parts) /\ j \in Nat /\ k = Len(Joins(parts)[b]) + j
    /\ b = Len(parts) => j = 0
    /\ b # Len(parts) => j + 1 \in 1 .. Len(parts[b + 1])
AtNext(parts, k, b, j) ==
    IF j + 1 = Len(parts[b + 1]) THEN AtBlock(parts, k + 1, b + 1, 0) ELSE AtBlock(parts, k + 1, b, j + 1)

LEMMA AtStart ==
  ASSUME NEW X, NEW parts, Blocked(X, parts)
  PROVE  AtBlock(parts, 0, 0, 0)
  <1>1. parts \in Seq(Seq(X)) /\ Len(parts) \in Nat
    BY DEF Blocked
  <1>2. Joins(parts)[0] = << >>
    BY <1>1, JoinsEquation, Zenon
  <1>3. Len(parts) # 0 => Len(parts[1]) \in Nat \ {0}
    BY <1>1 DEF Blocked
  <1> QED  BY <1>1, <1>2, <1>3 DEF AtBlock

LEMMA AtGoesOn ==
  ASSUME NEW X, NEW parts, Blocked(X, parts), NEW k, NEW b, NEW j, AtBlock(parts, k, b, j), b # Len(parts)
  PROVE  /\ Joined(parts)[k + 1] = parts[b + 1][j + 1] /\ k + 1 \in 1 .. Len(Joined(parts))
         /\ AtNext(parts, k, b, j)
  <1> DEFINE J == Joins(parts)
             size == Len(parts[b + 1])
  <1>1. /\ parts \in Seq(Seq(X)) /\ Len(parts) \in Nat /\ b \in 0 .. Len(parts) - 1 /\ b + 1 \in 1 .. Len(parts)
        /\ b + 1 \in 0 .. Len(parts) /\ j \in Nat /\ j + 1 \in 1 .. size /\ k = Len(J[b]) + j
    BY DEF Blocked, AtBlock
  <1>2. size \in Nat /\ (b + 1 # Len(parts) => Len(parts[(b + 1) + 1]) \in Nat \ {0})
    BY <1>1, SMTT(30) DEF Blocked
  <1>3. J[b] \in Seq(X) /\ Len(J[b + 1]) = Len(J[b]) + size
    BY <1>1, JoinsLonger
  <1>4. Len(J[b]) + size <= Len(Joined(parts)) /\ \A i \in 1 .. size : Joined(parts)[Len(J[b]) + i] = parts[b + 1][i]
    BY <1>1, JoinedAt, Zenon
  <1>5. Len(Joined(parts)) \in Nat
    <2>1. Joined(parts) \in Seq(X)
      <3>1. Len(parts) \in 0 .. Len(parts)
        BY <1>1
      <3> QED  BY <1>1, <3>1, JoinsTyped, Zenon DEF Joined
    <2> QED  BY <2>1
  <1>6. Len(J[b]) \in Nat
    BY <1>3
  <1> HIDE DEF J, size
  <1>7. k + 1 = Len(J[b]) + (j + 1) /\ k + 1 \in 1 .. Len(Joined(parts))
    <2> DEFINE before == Len(J[b])
               all == Len(Joined(parts))
    <2>1. before \in Nat /\ size \in Nat /\ all \in Nat /\ j + 1 \in 1 .. size /\ j \in Nat /\ k = before + j
          /\ before + size <= all
      BY <1>1, <1>2, <1>4, <1>5, <1>6, Zenon
    <2> HIDE DEF before, all
    <2>2. k + 1 = before + (j + 1) /\ k + 1 \in 1 .. all
      BY <2>1
    <2> QED  BY <2>2 DEF before, all
  <1>8. Joined(parts)[k + 1] = parts[b + 1][j + 1]
    BY <1>1, <1>4, <1>7, Zenon
  <1>9. CASE j + 1 = size
    <2>1. k + 1 = Len(J[b + 1]) + 0
      BY <1>1, <1>3, <1>6, <1>7, <1>9, SMTT(30)
    <2>2. b + 1 # Len(parts) => 0 + 1 \in 1 .. Len(parts[(b + 1) + 1])
      BY <1>2
    <2>3. AtBlock(parts, k + 1, b + 1, 0)
      BY <1>1, <2>1, <2>2 DEF AtBlock, J
    <2> QED  BY <1>7, <1>8, <1>9, <2>3, Zenon DEF AtNext, size
  <1>10. CASE j + 1 # size
    <2>1. (j + 1) + 1 \in 1 .. size /\ j + 1 \in Nat /\ b \in 0 .. Len(parts)
      BY <1>1, <1>2, <1>10
    <2>2. AtBlock(parts, k + 1, b, j + 1)
      BY <1>7, <2>1, Zenon DEF AtBlock, J, size
    <2> QED  BY <1>7, <1>8, <1>10, <2>2, Zenon DEF AtNext, size
  <1> QED  BY <1>9, <1>10

LEMMA AtEnd ==
  ASSUME NEW X, NEW parts, Blocked(X, parts), NEW k, NEW b, NEW j, AtBlock(parts, k, b, j)
  PROVE  /\ k \in 0 .. Len(Joined(parts)) /\ Joined(parts) \in Seq(X)
         /\ b = Len(parts) <=> k = Len(Joined(parts))
  <1>1. Joined(parts) \in Seq(X)
    <2>1. Len(parts) \in 0 .. Len(parts) /\ parts \in Seq(Seq(X))
      BY DEF Blocked
    <2> QED  BY <2>1, JoinsTyped, Zenon DEF Joined
  <1>2. CASE b = Len(parts)
    <2>1. k = Len(Joined(parts)) + 0
      BY <1>2, Zenon DEF AtBlock, Joined
    <2> QED  BY <1>1, <1>2, <2>1
  <1>3. CASE b # Len(parts)
    <2>1. k + 1 \in 1 .. Len(Joined(parts))
      BY <1>3, AtGoesOn
    <2>2. k \in Int
      <3>1. parts \in Seq(Seq(X)) /\ b \in 0 .. Len(parts) /\ j \in Nat /\ k = Len(Joins(parts)[b]) + j
        BY DEF Blocked, AtBlock
      <3>2. Joins(parts)[b] \in Seq(X)
        BY <3>1, JoinsTyped
      <3> QED  BY <3>1, <3>2
    <2> QED  BY <1>1, <1>3, <2>1, <2>2
  <1> QED  BY <1>2, <1>3

\* A part is empty if the join is.
LEMMA PartsEmpty ==
  ASSUME NEW X, NEW sequences \in Seq(Seq(X)), Joined(sequences) = << >>, NEW i \in 1 .. Len(sequences)
  PROVE  sequences[i] = << >>
  <1>1. i - 1 \in 0 .. Len(sequences) - 1 /\ (i - 1) + 1 = i /\ i - 1 \in 0 .. Len(sequences) /\ sequences[i] \in Seq(X)
    OBVIOUS
  <1>2. Len(Joins(sequences)[i - 1]) + Len(sequences[i]) <= Len(Joined(sequences))
    BY <1>1, JoinedAt
  <1>3. Joins(sequences)[i - 1] \in Seq(X)
    BY <1>1, JoinsTyped
  <1>4. Len(Joined(sequences)) = 0 /\ Len(sequences[i]) \in Nat /\ Len(Joins(sequences)[i - 1]) \in Nat
    BY <1>1, <1>3
  <1>5. Len(sequences[i]) = 0
    <2> DEFINE before == Len(Joins(sequences)[i - 1])
               size == Len(sequences[i])
    <2>1. before + size <= 0 /\ size \in Nat /\ before \in Nat
      BY <1>2, <1>4, Zenon
    <2> HIDE DEF before, size
    <2>2. size = 0
      BY <2>1
    <2> QED  BY <2>2 DEF size
  <1> QED  BY <1>1, <1>5, EmptySeq

-----------------------------------------------------------------------------
(* The mapper of OpenAI: items are told apart by their ids.                  *)

LEMMA ReportedNew ==
  ASSUME NEW items, NEW item, NEW n \in Nat, Len(items) = n, \A i \in 1 .. n : items[i].id # item.id
  PROVE  Reported(items, item) = Append(items, item)
  <1>1. {i \in 1 .. Len(items) : items[i].id = item.id} = {}
    OBVIOUS
  <1> QED  BY <1>1, Zenon DEF Reported

LEMMA ReportedAgain ==
  ASSUME NEW items, NEW item, NEW n \in Nat, Len(items) = n, NEW p \in 1 .. n, items[p].id = item.id,
         \A i \in 1 .. n : items[i].id = item.id => i = p
  PROVE  Reported(items, item) = [items EXCEPT ![p] = item]
  <1> DEFINE known == {i \in 1 .. Len(items) : items[i].id = item.id}
  <1>1. known = {p}
    OBVIOUS
  <1>2. Reported(items, item) = IF known = {} THEN Append(items, item) ELSE [items EXCEPT ![CHOOSE i \in known : TRUE] = item]
    BY Zenon DEF Reported
  <1> HIDE DEF known
  <1>3. known # {} /\ (CHOOSE i \in known : TRUE) = p
    BY <1>1
  <1> QED  BY <1>2, <1>3, Zenon

-----------------------------------------------------------------------------
\* The recursion over the output of a completed response is a function.
LEMMA ReportsEquation ==
  ASSUME NEW items, NEW output, NEW N \in Nat, N = Len(output)
  PROVE  /\ Reports(items, output)[0] = items
         /\ \A n \in 1 .. N : Reports(items, output)[n] = Reported(Reports(items, output)[n - 1], output[n])
  <1> DEFINE Rule(f, d) == f = [n \in 0 .. d |-> IF n = 0 THEN items ELSE Reported(f[n - 1], output[n])]
             S == {d \in 0 .. N : \E f : Rule(f, d)}
  <1>1. 0 \in S
    <2> DEFINE g == [n \in 0 .. 0 |-> items]
    <2>1. Rule(g, 0)
      OBVIOUS
    <2> HIDE DEF g, Rule
    <2> QED  BY <2>1
  <1>2. ASSUME NEW d \in 0 .. N - 1, d \in S  PROVE  d + 1 \in S
    <2>1. PICK f : Rule(f, d)
      BY <1>2
    <2> DEFINE g == [n \in 0 .. d + 1 |-> IF n = d + 1 THEN Reported(f[d], output[d + 1]) ELSE f[n]]
    <2>2. \A n \in 0 .. d + 1 : g[n] = IF n = 0 THEN items ELSE Reported(g[n - 1], output[n])
      BY <2>1
    <2>3. Rule(g, d + 1)
      <3>1. g = [n \in 0 .. d + 1 |-> g[n]]
        OBVIOUS
      <3> HIDE DEF g
      <3> QED BY <2>2, <3>1
    <2> HIDE DEF g, Rule
    <2> QED  BY <2>3
  <1>3. \E f : Rule(f, N)
    <2>1. N \in S
      <3> HIDE DEF S
      <3> QED  BY <1>1, <1>2, Inducted
    <2> HIDE DEF Rule
    <2> QED  BY <2>1
  <1>4. Reports(items, output) = CHOOSE f : Rule(f, N)
    BY Zenon DEF Reports
  <1>5. Rule(Reports(items, output), N)
    <2> HIDE DEF Rule
    <2> QED  BY <1>3, <1>4, Zenon
  <1> DEFINE J == Reports(items, output)
  <1>6. ASSUME NEW n \in 0 .. N  PROVE  J[n] = IF n = 0 THEN items ELSE Reported(J[n - 1], output[n])
    <2>1. J = [n_1 \in 0 .. N |-> IF n_1 = 0 THEN items ELSE Reported(J[n_1 - 1], output[n_1])]
      BY <1>5
    <2> HIDE DEF J
    <2> QED  BY <2>1, Zenon
  <1> HIDE DEF J
  <1>7. J[0] = items
    <2>1. 0 \in 0 .. N
      OBVIOUS
    <2> QED  BY <1>6, <2>1, Zenon
  <1>8. ASSUME NEW n \in 1 .. N  PROVE  J[n] = Reported(J[n - 1], output[n])
    <2>1. n \in 0 .. N /\ n # 0
      OBVIOUS
    <2> QED  BY <1>6, <2>1, Zenon
  <1> QED  BY <1>7, <1>8, Zenon DEF J

\* A list of items whose ids differ.
Listed(output, N) ==
    /\ Len(output) = N /\ output = Prefix(output, N)
    /\ \A a, b \in 1 .. N : output[a].id = output[b].id => a = b

LEMMA PrefixReported ==
  ASSUME NEW N \in Nat, NEW output, Listed(output, N), NEW n \in 0 .. N - 1, NEW item, item.id = output[n + 1].id
  PROVE  /\ Reported(Prefix(output, n), item) = Append(Prefix(output, n), item)
         /\ Reported(Prefix(output, n), output[n + 1]) = Prefix(output, n + 1)
  <1> DEFINE p == Prefix(output, n)
             q == Append(p, output[n + 1])
  <1>1. n \in Nat /\ n + 1 \in 1 .. N
    OBVIOUS
  <1>2. Len(p) = n /\ (\A i \in 1 .. n : p[i] = output[i])
    BY DEF Prefix
  <1>3. \A i \in 1 .. n : output[i].id # output[n + 1].id
    <2>1. \A i \in 1 .. n : i \in 1 .. N /\ i # n + 1
      OBVIOUS
    <2> QED  BY <1>1, <2>1, Zenon DEF Listed
  <1>4. Prefixed(p, n, output[n + 1], output, q)
    BY <1>1, PrefixNext, Zenon
  <1>5. q = Prefix(output, n + 1)
    BY <1>4, Zenon DEF Prefixed
  <1> HIDE DEF p
  <1>6. \A i \in 1 .. n : p[i].id # item.id /\ p[i].id # output[n + 1].id
    BY <1>2, <1>3
  <1>7. Reported(p, item) = Append(p, item) /\ Reported(p, output[n + 1]) = q
    <2>1. \A i \in 1 .. n : p[i].id # item.id
      BY <1>6
    <2>2. \A i \in 1 .. n : p[i].id # output[n + 1].id
      BY <1>6
    <2> QED  BY <1>1, <1>2, <2>1, <2>2, ReportedNew, Zenon
  <1> HIDE DEF q
  <1> QED  BY <1>5, <1>7 DEF p

\* To report the items again changes nothing, and to report them at first gives them in their order.
LEMMA ReportsAre ==
  ASSUME NEW N \in Nat, NEW output, Listed(output, N)
  PROVE  Reports(output, output)[N] = output /\ Reports(<< >>, output)[N] = output
  <1> DEFINE A == Reports(output, output)
             B == Reports(<< >>, output)
             S == {n \in 0 .. N : A[n] = output /\ B[n] = Prefix(output, n)}
  <1>1. Len(output) = N /\ N = Len(output) /\ output = Prefix(output, N)
    BY Zenon DEF Listed
  <1>2. 0 \in S
    <2>1. A[0] = output /\ B[0] = << >>
      BY <1>1, ReportsEquation
    <2>2. Prefix(output, 0) = << >>
      BY DEF Prefix
    <2> HIDE DEF A, B
    <2> QED  BY <2>1, <2>2
  <1>3. ASSUME NEW n \in 0 .. N - 1, n \in S  PROVE  n + 1 \in S
    <2> DEFINE m == n + 1
    <2>1. m \in 0 .. N /\ n \in 0 .. Len(output) - 1 /\ Len(output) \in Nat /\ m \in 1 .. N
      BY <1>1
    <2>2. A[n] = output /\ B[n] = Prefix(output, n)
      BY <1>3
    <2>3. A[m] = Reported(output, output[m]) /\ B[m] = Reported(Prefix(output, n), output[m])
      <3>1. m - 1 = n
        OBVIOUS
      <3>2. /\ \A k \in 1 .. N : A[k] = Reported(A[k - 1], output[k])
            /\ \A k \in 1 .. N : B[k] = Reported(B[k - 1], output[k])
        BY <1>1, ReportsEquation
      <3> HIDE DEF A, B, m
      <3> QED  BY <2>1, <2>2, <3>1, <3>2, Zenon
    <2>4. Reported(Prefix(output, n), output[m]) = Prefix(output, m)
      BY PrefixReported, Zenon
    <2>5. Reported(output, output[m]) = output
      <3>1. \A i \in 1 .. N : output[i].id = output[m].id => i = m
        BY <2>1, Zenon DEF Listed
      <3>2. Reported(output, output[m]) = [output EXCEPT ![m] = output[m]]
        BY <1>1, <2>1, <3>1, ReportedAgain, Zenon
      <3>3. [output EXCEPT ![m] = output[m]] = output
        <4>1. [Prefix(output, N) EXCEPT ![m] = output[m]] = Prefix(output, N)
          BY <2>1 DEF Prefix
        <4> QED  BY <1>1, <4>1, Zenon
      <3> QED  BY <3>2, <3>3, Zenon
    <2> HIDE DEF A, B
    <2>6. m \in S
      BY <2>1, <2>3, <2>4, <2>5
    <2> QED  BY <2>6
  <1>4. \A n \in 0 .. N : n \in S
    <2> HIDE DEF S
    <2> QED  BY <1>2, <1>3, Inducted
  <1>5. N \in S
    <2> HIDE DEF S
    <2> QED  BY <1>4
  <1> HIDE DEF A, B
  <1>6. A[N] = output /\ B[N] = Prefix(output, N)
    BY <1>5
  <1> QED  BY <1>1, <1>6 DEF A, B

OpenAIAdded(block) == [t |-> "output_item.added", kind |-> block.type, id |-> block.id, pieces |-> << >>]
OpenAIDelta(block, j) ==
    [t |-> IF block.type = "text" THEN "output_text.delta" ELSE "arguments.delta", piece |-> block.pieces[j]]
OpenAIDone(block) == [t |-> "output_item.done", kind |-> block.type, id |-> block.id, pieces |-> block.pieces]
OpenAIEvents(block) ==
    {OpenAIAdded(block), OpenAIDone(block)} \cup {OpenAIDelta(block, j) : j \in 1 .. Len(block.pieces)}
OpenAIBlocked(block, part) ==
    /\ part \in Seq(OpenAIEvents(block)) /\ Len(part) = Len(block.pieces) + 2
    /\ part[1] = OpenAIAdded(block) /\ part[Len(block.pieces) + 2] = OpenAIDone(block)
    /\ \A j \in 1 .. Len(block.pieces) : part[j + 1] = OpenAIDelta(block, j)

LEMMA OpenAIBlockIs ==
  ASSUME NEW block \in BlockTypes
  PROVE  OpenAIBlocked(block, OpenAIBlockPayloads(block))
  <1> DEFINE N == Len(block.pieces)
             X == OpenAIEvents(block)
             x == OpenAIAdded(block)
             y == OpenAIDone(block)
             s == [j \in 1 .. N |-> OpenAIDelta(block, j)]
             r == OpenAIBlockPayloads(block)
  <1>1. N \in Nat
    BY DEF BlockTypes
  <1>2. x \in X /\ y \in X /\ \A j \in 1 .. N : OpenAIDelta(block, j) \in X
    BY Zenon DEF OpenAIEvents
  <1>3. \A j \in 1 .. N : s[j] = OpenAIDelta(block, j)
    BY Zenon
  <1>4. s = [j \in 1 .. N |-> s[j]]
    BY Zenon
  <1>5. r = <<x>> \o s \o <<y>>
    BY Zenon DEF OpenAIBlockPayloads, OpenAIAdded, OpenAIDelta, OpenAIDone
  <1>6. \A j \in 1 .. N : s[j] \in X
    BY <1>2, <1>3, Zenon
  <1> HIDE DEF N, X, x, y, s, r
  <1>7. Framed(r, N, x, s, y, X)
    BY <1>1, <1>2, <1>4, <1>5, <1>6, FramedIs, Zenon
  <1> QED  BY <1>3, <1>7, Zenon DEF Framed, OpenAIBlocked, N, X, x, y, r

OpenAIParts(given) == [i \in 1 .. Len(given.blocks) |-> OpenAIBlockPayloads(given.blocks[i])]
AllOpenAIEvents(given) == UNION {OpenAIEvents(given.blocks[i]) : i \in 1 .. Len(given.blocks)}
OpenAILast(given) == [t |-> "response.completed", response |-> given]

LEMMA OpenAIPartsAre ==
  ASSUME NEW given \in GivenTypes
  PROVE  /\ Blocked(AllOpenAIEvents(given), OpenAIParts(given)) /\ Len(OpenAIParts(given)) = Len(given.blocks)
         /\ \A i \in 1 .. Len(given.blocks) : OpenAIBlocked(given.blocks[i], OpenAIParts(given)[i])
  <1> DEFINE N == Len(given.blocks)
             parts == OpenAIParts(given)
             X == AllOpenAIEvents(given)
  <1>1. N \in Nat /\ \A i \in 1 .. N : given.blocks[i] \in BlockTypes
    BY DEF GivenTypes
  <1>2. \A i \in 1 .. N : parts[i] = OpenAIBlockPayloads(given.blocks[i])
    BY Zenon DEF OpenAIParts
  <1>3. parts = [i \in 1 .. N |-> parts[i]]
    BY Zenon DEF OpenAIParts
  <1>4. ASSUME NEW i \in 1 .. N  PROVE  OpenAIBlocked(given.blocks[i], parts[i])
    BY <1>1, <1>2, OpenAIBlockIs, Zenon
  <1>5. ASSUME NEW i \in 1 .. N  PROVE  parts[i] \in Seq(X) /\ Len(parts[i]) # 0
    <2>1. \A e \in OpenAIEvents(given.blocks[i]) : e \in X
      BY Zenon DEF AllOpenAIEvents
    <2>2. parts[i] \in Seq(OpenAIEvents(given.blocks[i])) /\ Len(parts[i]) = Len(given.blocks[i].pieces) + 2
      BY <1>4, Zenon DEF OpenAIBlocked
    <2>3. Len(given.blocks[i].pieces) \in Nat
      BY <1>1 DEF BlockTypes
    <2> HIDE DEF parts, X
    <2>4. parts[i] \in Seq(X)
      BY <2>1, <2>2
    <2> QED  BY <2>2, <2>3, <2>4
  <1> HIDE DEF N, parts, X
  <1>6. parts \in Seq(Seq(X)) /\ Len(parts) = N
    <2>1. [i \in 1 .. N |-> parts[i]] \in Seq(Seq(X)) /\ Len([i \in 1 .. N |-> parts[i]]) = N
      BY <1>1, <1>5, ListTyped, Zenon
    <2> QED  BY <1>3, <2>1, Zenon
  <1> QED  BY <1>4, <1>5, <1>6, Zenon DEF Blocked, N, parts, X

LEMMA OpenAIPayload ==
  ASSUME NEW given \in GivenTypes, NEW N, N = Len(Joined(OpenAIParts(given)))
  PROVE  N \in Nat /\ LastPut(OpenAIPayloads(given), N, Joined(OpenAIParts(given)), OpenAILast(given))
  <1> DEFINE X == AllOpenAIEvents(given)
             s == Joined(OpenAIParts(given))
             r == OpenAIPayloads(given)
  <1>1. s \in Seq(X)
    <2>1. Blocked(X, OpenAIParts(given))
      BY OpenAIPartsAre
    <2>2. AtBlock(OpenAIParts(given), 0, 0, 0)
      BY <2>1, AtStart, Zenon
    <2> QED  BY <2>1, <2>2, AtEnd, Zenon
  <1>2. r = s \o <<OpenAILast(given)>>
    BY Zenon DEF OpenAIPayloads, OpenAIParts, OpenAILast
  <1>3. N = Len(s)
    OBVIOUS
  <1> HIDE DEF s, r
  <1>4. N \in Nat /\ s = [i \in 1 .. N |-> s[i]]
    BY <1>1, <1>3
  <1>5. LastPut(s \o <<OpenAILast(given)>>, N, s, OpenAILast(given))
    BY <1>4, PutLast, Zenon
  <1> QED  BY <1>2, <1>4, <1>5, Zenon DEF s, r

\* What the OpenAI mapper holds after b blocks and j payloads of the next.
OpenAIHeard(given, b, j, d) ==
    /\ d.items = IF j = 0 THEN Prefix(OutputItems(given), b)
                 ELSE Append(Prefix(OutputItems(given), b),
                             Item(given.blocks[b + 1].type, given.blocks[b + 1].id, << >>, "in_progress"))
    /\ TextOf(given) = << >> => d.text = << >>
Streaming(d) == IsDecoder(d) /\ d.failed = FALSE /\ d.answer = NoAnswer
OpenAIStage(given, k, d) ==
    IF k = Len(Joined(OpenAIParts(given))) + 1
    THEN d.failed = FALSE /\ d.answer = WholeAnswer("openai", given)
    ELSE Streaming(d) /\ \E b, j : AtBlock(OpenAIParts(given), k, b, j) /\ OpenAIHeard(given, b, j, d)

\* Before any payload the mapper of OpenAI is at the first stage.
LEMMA OpenAIStart ==
  ASSUME NEW given \in GivenTypes
  PROVE  OpenAIStage(given, 0, NewDecoder)
  <1> DEFINE parts == OpenAIParts(given)
  <1>1. AtBlock(parts, 0, 0, 0)
    BY OpenAIPartsAre, AtStart, Zenon
  <1>2. OpenAIHeard(given, 0, 0, NewDecoder)
    BY DEF OpenAIHeard, NewDecoder, Prefix
  <1>3. Streaming(NewDecoder)
    BY NewDecoderIs DEF Streaming, NewDecoder
  <1>4. 0 # Len(Joined(parts)) + 1
    <2>1. Len(Joined(parts)) \in Nat
      BY OpenAIPayload
    <2> QED  BY <2>1
  <1> QED  BY <1>1, <1>2, <1>3, <1>4, Zenon DEF OpenAIStage

LEMMA OutputListed ==
  ASSUME NEW given \in GivenTypes, Distinct(given.blocks), NEW N, N = Len(given.blocks)
  PROVE  N \in Nat /\ Listed(OutputItems(given), N)
  <1> DEFINE output == OutputItems(given)
  <1>1. N \in Nat
    BY DEF GivenTypes
  <1>2. Len(output) = N /\ output = Prefix(output, N)
    BY <1>1 DEF OutputItems, Prefix
  <1>3. \A i \in 1 .. N : output[i].id = given.blocks[i].id
    BY DEF OutputItems, Item
  <1> HIDE DEF output
  <1> QED  BY <1>1, <1>2, <1>3, Zenon DEF Listed, Distinct, output

\* An item of a report that takes the place of none.
HeardMore(given, b, j, next) == Streaming(next) /\ OpenAIHeard(given, b, j, next)

\* The report of a new item adds it behind those of the blocks before.
LEMMA OpenAIHearsAdded ==
  ASSUME NEW given \in GivenTypes, Distinct(given.blocks), NEW b \in 0 .. Len(given.blocks) - 1,
         NEW d, Streaming(d), OpenAIHeard(given, b, 0, d),
         NEW next, next = OpenAIMap(d, OpenAIAdded(given.blocks[b + 1]))
  PROVE  HeardMore(given, b, 1, next)
  <1> DEFINE block == given.blocks[b + 1]
             item == Item(block.type, block.id, << >>, "in_progress")
             output == OutputItems(given)
  <1>1. Listed(output, Len(given.blocks)) /\ Len(given.blocks) \in Nat
    BY OutputListed
  <1>2. d.items = Prefix(output, b) /\ (TextOf(given) = << >> => d.text = << >>)
    BY Zenon DEF OpenAIHeard
  <1>3. item.id = output[b + 1].id
    BY DEF Item, OutputItems
  <1>4. Reported(d.items, item) = Append(Prefix(output, b), item)
    <2>1. Reported(Prefix(output, b), item) = Append(Prefix(output, b), item)
      <3> HIDE DEF item, output
      <3> QED  BY <1>1, <1>3, PrefixReported
    <2> QED  BY <1>2, <2>1, Zenon
  <1>5. next = [d EXCEPT !.items = Reported(d.items, item)]
    BY DEF OpenAIMap, OpenAIAdded
  <1> HIDE DEF item, output, block
  <1>6. Streaming(next) /\ next.items = Reported(d.items, item) /\ next.text = d.text
    BY <1>5 DEF Streaming, IsDecoder
  <1>7. OpenAIHeard(given, b, 1, next)
    <2>1. 1 # 0
      OBVIOUS
    <2> QED  BY <1>2, <1>4, <1>6, <2>1, Zenon DEF OpenAIHeard, item, output, block
  <1> QED  BY <1>6, <1>7, Zenon DEF HeardMore

\* A delta is a piece of the text if its block is a text, and nothing otherwise.
LEMMA OpenAIHearsDelta ==
  ASSUME NEW given \in GivenTypes, NEW b \in 0 .. Len(given.blocks) - 1,
         NEW j \in 1 .. Len(given.blocks[b + 1].pieces), NEW d, Streaming(d), OpenAIHeard(given, b, j, d),
         NEW next, next = OpenAIMap(d, OpenAIDelta(given.blocks[b + 1], j))
  PROVE  HeardMore(given, b, j + 1, next)
  <1> DEFINE block == given.blocks[b + 1]
             items == Append(Prefix(OutputItems(given), b), Item(block.type, block.id, << >>, "in_progress"))
  <1>1. j # 0 /\ j + 1 # 0
    OBVIOUS
  <1>2. d.items = items /\ (TextOf(given) = << >> => d.text = << >>)
    BY <1>1, Zenon DEF OpenAIHeard
  <1> HIDE DEF items
  <1>3. CASE block.type = "text"
    <2>1. TextOf(given) # << >>
      <3> SUFFICES ASSUME TextOf(given) = << >>  PROVE  FALSE
        OBVIOUS
      <3>1. Len(given.blocks) \in Nat /\ (\A i \in 1 .. Len(given.blocks) : TextIn(given.blocks[i]) \in Seq(STRING))
            /\ b + 1 \in 1 .. Len(given.blocks)
        <4>1. Len(given.blocks) \in Nat /\ \A i \in 1 .. Len(given.blocks) : given.blocks[i].pieces \in Seq(STRING)
          <5>1. given.blocks \in Seq(BlockTypes)
            BY DEF GivenTypes
          <5>2. Len(given.blocks) \in Nat /\ \A i \in 1 .. Len(given.blocks) : given.blocks[i] \in BlockTypes
            BY <5>1
          <5>3. \A x \in BlockTypes : x.pieces \in Seq(STRING)
            BY DEF BlockTypes
          <5> QED  BY <5>2, <5>3, Zenon
        <4>2. << >> \in Seq(STRING) /\ b + 1 \in 1 .. Len(given.blocks)
          BY <4>1
        <4> QED  BY <4>1, <4>2, Zenon DEF TextIn
      <3>2. TextsOf(given.blocks) \in Seq(Seq(STRING)) /\ Len(TextsOf(given.blocks)) = Len(given.blocks)
        BY <3>1 DEF TextsOf
      <3>3. TextsOf(given.blocks)[b + 1] = << >>
        <4>1. Joined(TextsOf(given.blocks)) = << >>
          BY Zenon DEF TextOf
        <4> QED  BY <3>1, <3>2, <4>1, PartsEmpty
      <3>4. TextsOf(given.blocks)[b + 1] = block.pieces
        BY <1>3, <3>1 DEF TextsOf, TextIn
      <3> QED  BY <3>3, <3>4
    <2>2. next = [d EXCEPT !.text = Append(@, OpenAIDelta(block, j).piece)]
      BY <1>3 DEF OpenAIMap, OpenAIDelta
    <2> HIDE DEF block
    <2>3. Streaming(next) /\ next.items = d.items
      BY <2>2 DEF Streaming, IsDecoder
    <2>4. OpenAIHeard(given, b, j + 1, next)
      BY <1>1, <1>2, <2>1, <2>3, Zenon DEF OpenAIHeard, items, block
    <2> QED  BY <2>3, <2>4, Zenon DEF HeardMore
  <1>4. CASE block.type # "text"
    <2>1. next = d
      BY <1>4 DEF OpenAIMap, OpenAIDelta
    <2>2. OpenAIHeard(given, b, j + 1, next)
      BY <1>1, <1>2, <2>1, Zenon DEF OpenAIHeard, items
    <2> QED  BY <2>1, <2>2, Zenon DEF HeardMore
  <1> QED  BY <1>3, <1>4

\* The report of an item that is done takes the place of the one that added it.
LEMMA OpenAIHearsDone ==
  ASSUME NEW given \in GivenTypes, Distinct(given.blocks), NEW b \in 0 .. Len(given.blocks) - 1, NEW j \in Nat \ {0},
         NEW d, Streaming(d), OpenAIHeard(given, b, j, d),
         NEW next, next = OpenAIMap(d, OpenAIDone(given.blocks[b + 1]))
  PROVE  HeardMore(given, b + 1, 0, next)
  <1> DEFINE block == given.blocks[b + 1]
             first == Item(block.type, block.id, << >>, "in_progress")
             item == Item(block.type, block.id, block.pieces, "completed")
             output == OutputItems(given)
             p == Prefix(output, b)
             q == Append(p, first)
  <1>1. Listed(output, Len(given.blocks)) /\ b \in Nat /\ b + 1 \in 1 .. Len(given.blocks)
    BY OutputListed
  <1>2. d.items = q /\ (TextOf(given) = << >> => d.text = << >>)
    BY Zenon DEF OpenAIHeard
  <1>3. item = output[b + 1] /\ first.id = item.id
    BY <1>1 DEF Item, OutputItems
  <1>4. next = [d EXCEPT !.items = Reported(d.items, item)]
    BY DEF OpenAIMap, OpenAIDone
  <1> HIDE DEF first, item, output, p, q, block
  <1>5. Prefixed(p, b, first, output, q)
    BY <1>1, PrefixNext, Zenon DEF p, q
  <1>6. /\ q = [i \in 1 .. b + 1 |-> IF i = b + 1 THEN first ELSE output[i]] /\ Len(q) = b + 1
        /\ Prefix(output, b + 1) = [q EXCEPT ![b + 1] = output[b + 1]]
    BY <1>5, Zenon DEF Prefixed
  <1>7. Reported(q, item) = Prefix(output, b + 1)
    <2>1. b + 1 \in Nat /\ b + 1 \in 1 .. b + 1
      BY <1>1
    <2>2. q[b + 1].id = item.id
      BY <1>3, <1>6, <2>1
    <2>3. \A i \in 1 .. b + 1 : q[i].id = item.id => i = b + 1
      <3> SUFFICES ASSUME NEW i \in 1 .. b + 1, i # b + 1, q[i].id = item.id  PROVE  FALSE
        OBVIOUS
      <3>1. q[i] = output[i] /\ i \in 1 .. Len(given.blocks)
        BY <1>1, <1>6
      <3>2. output[i].id = output[b + 1].id
        BY <1>3, <3>1
      <3> QED  BY <1>1, <3>1, <3>2, Zenon DEF Listed
    <2> DEFINE m == b + 1
    <2>4. Reported(q, item) = [q EXCEPT ![m] = item]
      <3>1. Len(q) = m /\ m \in Nat /\ m \in 1 .. m /\ q[m].id = item.id /\ \A i \in 1 .. m : q[i].id = item.id => i = m
        BY <1>6, <2>1, <2>2, <2>3, Zenon
      <3> HIDE DEF m
      <3> QED  BY <3>1, ReportedAgain
    <2> QED  BY <1>3, <1>6, <2>4, Zenon
  <1>8. Streaming(next) /\ next.items = Reported(d.items, item) /\ next.text = d.text
    BY <1>4 DEF Streaming, IsDecoder
  <1>9. OpenAIHeard(given, b + 1, 0, next)
    BY <1>2, <1>7, <1>8, Zenon DEF OpenAIHeard, output
  <1> QED  BY <1>8, <1>9, Zenon DEF HeardMore

\* The completed response reports the same items again, and becomes the answer.
LEMMA OpenAIHearsLast ==
  ASSUME NEW given \in GivenTypes, Distinct(given.blocks), NEW d, Streaming(d), OpenAIHeard(given, Len(given.blocks), 0, d),
         NEW next, next = OpenAIMap(d, OpenAILast(given))
  PROVE  next.failed = FALSE /\ next.answer = WholeAnswer("openai", given)
  <1> DEFINE output == OutputItems(given)
             N == Len(given.blocks)
  <1>1. Listed(output, N) /\ N \in Nat
    BY OutputListed
  <1>2. d.items = output /\ Len(output) = N /\ (TextOf(given) = << >> => d.text = << >>)
    BY <1>1, Zenon DEF OpenAIHeard, Listed
  <1>3. Reports(output, output)[N] = output /\ Reports(<< >>, output)[N] = output
    BY <1>1, ReportsAre, Zenon
  <1>4. NewDecoder.items = << >> /\ NewDecoder.text = << >>
    BY DEF NewDecoder
  <1> HIDE DEF output, N
  <1>5. /\ Reports(d.items, output)[Len(output)] = Reports(NewDecoder.items, output)[Len(output)]
        /\ (IF TextOf(given) # << >> THEN TextOf(given) ELSE d.text)
             = (IF TextOf(given) # << >> THEN TextOf(given) ELSE NewDecoder.text)
    BY <1>2, <1>3, <1>4, Zenon
  <1>6. OpenAIAnswer(d, given) = OpenAIAnswer(NewDecoder, given)
    BY <1>5, Zenon DEF OpenAIAnswer, output
  <1>7. WholeAnswer("openai", given) = OpenAIAnswer(NewDecoder, given)
    BY DEF WholeAnswer
  <1>8. next = [d EXCEPT !.answer = OpenAIAnswer(d, given)]
    BY DEF OpenAIMap, OpenAILast
  <1> DEFINE answer == OpenAIAnswer(d, given)
  <1>9. next = [d EXCEPT !.answer = answer]
    BY <1>8
  <1> HIDE DEF answer
  <1>10. next.failed = FALSE /\ next.answer = answer
    BY <1>9 DEF Streaming, IsDecoder
  <1> QED  BY <1>6, <1>7, <1>10 DEF answer

\* An event of OpenAI moves its stage one on, without a failure.
LEMMA OpenAIGoesOn ==
  ASSUME NEW given \in GivenTypes, Distinct(given.blocks), NEW k \in 0 .. Len(OpenAIPayloads(given)) - 1,
         NEW d, OpenAIStage(given, k, d), NEW next, next = OpenAIMap(d, OpenAIPayloads(given)[k + 1])
  PROVE  OpenAIStage(given, k + 1, next) /\ ~ next.failed
  <1> DEFINE parts == OpenAIParts(given)
             N == Len(Joined(parts))
             payload == OpenAIPayloads(given)[k + 1]
             B == Len(given.blocks)
  <1>1. N \in Nat /\ LastPut(OpenAIPayloads(given), N, Joined(parts), OpenAILast(given))
    BY OpenAIPayload
  <1>2. k \in 0 .. N
    BY <1>1 DEF LastPut
  <1>3. Blocked(AllOpenAIEvents(given), parts) /\ Len(parts) = B /\ \A i \in 1 .. B : OpenAIBlocked(given.blocks[i], parts[i])
    BY OpenAIPartsAre
  <1>4. B \in Nat /\ \A i \in 1 .. B : given.blocks[i] \in BlockTypes
    BY DEF GivenTypes
  <1>5. Streaming(d) /\ \E b, j : AtBlock(parts, k, b, j) /\ OpenAIHeard(given, b, j, d)
    <2>1. k # N + 1
      BY <1>1, <1>2
    <2> QED  BY <2>1, Zenon DEF OpenAIStage
  <1> HIDE DEF N
  <1>6. PICK b, j : AtBlock(parts, k, b, j) /\ OpenAIHeard(given, b, j, d)
    BY <1>5
  <1>7. b = B <=> k = N
    BY <1>3, <1>6, AtEnd, Zenon DEF N
  <1>8. CASE k = N
    <2>1. payload = OpenAILast(given)
      BY <1>1, <1>8, Zenon DEF LastPut
    <2>2. j = 0
      BY <1>3, <1>6, <1>7, <1>8, Zenon DEF AtBlock
    <2>3. next.failed = FALSE /\ next.answer = WholeAnswer("openai", given)
      BY <1>5, <1>6, <1>7, <1>8, <2>1, <2>2, OpenAIHearsLast, Zenon
    <2> QED  BY <1>8, <2>3, Zenon DEF OpenAIStage, N
  <1>9. CASE k # N
    <2> DEFINE block == given.blocks[b + 1]
               part == parts[b + 1]
               n == Len(block.pieces)
               Onward == \E c, i : AtBlock(parts, k + 1, c, i) /\ HeardMore(given, c, i, next)
    <2>1. b # Len(parts) /\ b \in 0 .. B - 1 /\ b + 1 \in 1 .. B
      BY <1>3, <1>4, <1>6, <1>7, <1>9, SMTT(30) DEF AtBlock
    <2>2. /\ Joined(parts)[k + 1] = parts[b + 1][j + 1] /\ k + 1 \in 1 .. N
          /\ AtNext(parts, k, b, j)
      BY <1>3, <1>6, <2>1, AtGoesOn, Zenon DEF N
    <2>3. payload = part[j + 1]
      BY <1>1, <2>2, Zenon DEF LastPut
    <2>4. /\ Len(part) = n + 2 /\ part[1] = OpenAIAdded(block) /\ part[n + 2] = OpenAIDone(block)
          /\ \A i \in 1 .. n : part[i + 1] = OpenAIDelta(block, i)
      BY <1>3, <2>1, Zenon DEF OpenAIBlocked
    <2>5. n \in Nat
      BY <1>4, <2>1 DEF BlockTypes
    <2>6. j \in Nat /\ j + 1 \in 1 .. Len(part)
      BY <1>6, <2>1, Zenon DEF AtBlock
    <2> HIDE DEF n, part, payload
    <2>7. ASSUME j = 0  PROVE  Onward
      <3>1. payload = OpenAIAdded(block) /\ j + 1 # Len(part) /\ j + 1 = 1
        BY <2>3, <2>4, <2>5, <2>7
      <3>2. HeardMore(given, b, 1, next)
        BY <1>5, <1>6, <2>1, <2>7, <3>1, OpenAIHearsAdded, Zenon DEF payload
      <3>3. AtBlock(parts, k + 1, b, 1)
        BY <2>2, <3>1, Zenon DEF AtNext, part
      <3> QED  BY <3>2, <3>3, Zenon
    <2>8. ASSUME j # 0, j + 1 # Len(part)  PROVE  Onward
      <3>1. j \in 1 .. n
        BY <2>4, <2>5, <2>6, <2>8
      <3>2. payload = OpenAIDelta(block, j)
        BY <2>3, <2>4, <3>1, Zenon
      <3>3. HeardMore(given, b, j + 1, next)
        BY <1>5, <1>6, <2>1, <3>1, <3>2, OpenAIHearsDelta, Zenon DEF payload, n
      <3>4. AtBlock(parts, k + 1, b, j + 1)
        BY <2>2, <2>8, Zenon DEF AtNext, part
      <3> QED  BY <3>3, <3>4, Zenon
    <2>9. ASSUME j # 0, j + 1 = Len(part)  PROVE  Onward
      <3>1. payload = OpenAIDone(block) /\ j \in Nat \ {0}
        BY <2>3, <2>4, <2>6, <2>9
      <3>2. HeardMore(given, b + 1, 0, next)
        BY <1>5, <1>6, <2>1, <3>1, OpenAIHearsDone, Zenon DEF payload
      <3>3. AtBlock(parts, k + 1, b + 1, 0)
        BY <2>2, <2>9, Zenon DEF AtNext, part
      <3> QED  BY <3>2, <3>3, Zenon
    <2>10. \E c, i : AtBlock(parts, k + 1, c, i) /\ HeardMore(given, c, i, next)
      BY <2>7, <2>8, <2>9, Zenon
    <2>11. Streaming(next) /\ \E c, i : AtBlock(parts, k + 1, c, i) /\ OpenAIHeard(given, c, i, next)
      BY <2>10, Zenon DEF HeardMore
    <2>12. k + 1 # N + 1
      BY <1>1, <1>2, <1>9
    <2> QED  BY <2>11, <2>12, Zenon DEF OpenAIStage, Streaming, N
  <1> QED  BY <1>8, <1>9

\* An answer, once there, is that of the whole response.
LEMMA OpenAIEnds ==
  ASSUME NEW given \in GivenTypes, NEW k, NEW d, OpenAIStage(given, k, d), d.answer.done
  PROVE  d.answer = WholeAnswer("openai", given)
  <1>1. ~ NoAnswer.done
    BY DEF NoAnswer
  <1> QED  BY <1>1, Zenon DEF OpenAIStage, Streaming

-----------------------------------------------------------------------------
(* The mapper of Anthropic: items are found by their index.                  *)

AnthropicOpened(block, i) == [t |-> "content_block_start", index |-> i, kind |-> block.type, id |-> block.id]
AnthropicPiece(block, i, j) == [t |-> "content_block_delta", index |-> i, kind |-> block.type, piece |-> block.pieces[j]]
AnthropicStopped(i) == [t |-> "content_block_stop", index |-> i]
AnthropicEvents(block, i) ==
    {AnthropicOpened(block, i), AnthropicStopped(i)} \cup {AnthropicPiece(block, i, j) : j \in 1 .. Len(block.pieces)}
AnthropicBlocked(block, i, part) ==
    /\ part \in Seq(AnthropicEvents(block, i)) /\ Len(part) = Len(block.pieces) + 2
    /\ part[1] = AnthropicOpened(block, i) /\ part[Len(block.pieces) + 2] = AnthropicStopped(i)
    /\ \A j \in 1 .. Len(block.pieces) : part[j + 1] = AnthropicPiece(block, i, j)

LEMMA AnthropicBlockIs ==
  ASSUME NEW block \in BlockTypes, NEW i
  PROVE  AnthropicBlocked(block, i, AnthropicBlockPayloads(block, i))
  <1> DEFINE N == Len(block.pieces)
             X == AnthropicEvents(block, i)
             x == AnthropicOpened(block, i)
             y == AnthropicStopped(i)
             s == [j \in 1 .. N |-> AnthropicPiece(block, i, j)]
             r == AnthropicBlockPayloads(block, i)
  <1>1. N \in Nat
    BY DEF BlockTypes
  <1>2. x \in X /\ y \in X /\ \A j \in 1 .. N : AnthropicPiece(block, i, j) \in X
    BY Zenon DEF AnthropicEvents
  <1>3. \A j \in 1 .. N : s[j] = AnthropicPiece(block, i, j)
    BY Zenon
  <1>4. s = [j \in 1 .. N |-> s[j]]
    BY Zenon
  <1>5. r = <<x>> \o s \o <<y>>
    BY Zenon DEF AnthropicBlockPayloads, AnthropicOpened, AnthropicPiece, AnthropicStopped
  <1>6. \A j \in 1 .. N : s[j] \in X
    BY <1>2, <1>3, Zenon
  <1> HIDE DEF N, X, x, y, s, r
  <1>7. Framed(r, N, x, s, y, X)
    BY <1>1, <1>2, <1>4, <1>5, <1>6, FramedIs, Zenon
  <1> QED  BY <1>3, <1>7, Zenon DEF Framed, AnthropicBlocked, N, X, x, y, r

AnthropicParts(given) == [i \in 1 .. Len(given.blocks) |-> AnthropicBlockPayloads(given.blocks[i], i)]
AnthropicFirst(given) == [t |-> "message_start", usage |-> [given.usage EXCEPT !.output = 1]]
AnthropicCounts(given) == [t |-> "message_delta", usage |-> [NoReport EXCEPT !.output = given.usage.output]]
AnthropicLast == [t |-> "message_stop"]
AllAnthropicEvents(given) ==
    {AnthropicFirst(given), AnthropicCounts(given), AnthropicLast}
    \cup UNION {AnthropicEvents(given.blocks[i], i) : i \in 1 .. Len(given.blocks)}

LEMMA AnthropicPartsAre ==
  ASSUME NEW given \in GivenTypes
  PROVE  /\ Blocked(AllAnthropicEvents(given), AnthropicParts(given)) /\ Len(AnthropicParts(given)) = Len(given.blocks)
         /\ \A i \in 1 .. Len(given.blocks) : AnthropicBlocked(given.blocks[i], i, AnthropicParts(given)[i])
  <1> DEFINE N == Len(given.blocks)
             parts == AnthropicParts(given)
             X == AllAnthropicEvents(given)
  <1>1. N \in Nat /\ \A i \in 1 .. N : given.blocks[i] \in BlockTypes
    BY DEF GivenTypes
  <1>2. \A i \in 1 .. N : parts[i] = AnthropicBlockPayloads(given.blocks[i], i)
    BY Zenon DEF AnthropicParts
  <1>3. parts = [i \in 1 .. N |-> parts[i]]
    BY Zenon DEF AnthropicParts
  <1>4. ASSUME NEW i \in 1 .. N  PROVE  AnthropicBlocked(given.blocks[i], i, parts[i])
    BY <1>1, <1>2, AnthropicBlockIs, Zenon
  <1>5. ASSUME NEW i \in 1 .. N  PROVE  parts[i] \in Seq(X) /\ Len(parts[i]) # 0
    <2>1. \A e \in AnthropicEvents(given.blocks[i], i) : e \in X
      BY Zenon DEF AllAnthropicEvents
    <2>2. parts[i] \in Seq(AnthropicEvents(given.blocks[i], i)) /\ Len(parts[i]) = Len(given.blocks[i].pieces) + 2
      BY <1>4, Zenon DEF AnthropicBlocked
    <2>3. Len(given.blocks[i].pieces) \in Nat
      BY <1>1 DEF BlockTypes
    <2> HIDE DEF parts, X
    <2>4. parts[i] \in Seq(X)
      BY <2>1, <2>2
    <2> QED  BY <2>2, <2>3, <2>4
  <1> HIDE DEF N, parts, X
  <1>6. parts \in Seq(Seq(X)) /\ Len(parts) = N
    <2>1. [i \in 1 .. N |-> parts[i]] \in Seq(Seq(X)) /\ Len([i \in 1 .. N |-> parts[i]]) = N
      BY <1>1, <1>5, ListTyped, Zenon
    <2> QED  BY <1>3, <2>1, Zenon
  <1> QED  BY <1>4, <1>5, <1>6, Zenon DEF Blocked, N, parts, X

\* One before and two after.
Ringed(r, N, x, s, y, z) ==
    /\ Len(r) = N + 3 /\ r[1] = x /\ r[N + 2] = y /\ r[N + 3] = z
    /\ \A i \in 1 .. N : r[i + 1] = s[i]

LEMMA RingedIs ==
  ASSUME NEW N \in Nat, NEW X, NEW s \in Seq(X), Len(s) = N, NEW x \in X, NEW y \in X, NEW z \in X,
         NEW r, r = <<x>> \o s \o <<y, z>>
  PROVE  Ringed(r, N, x, s, y, z)
  <1> DEFINE a == <<x>>
             c == <<y, z>>
             q == a \o s
  <1>1. a \in Seq(X) /\ Len(a) = 1 /\ a[1] = x
    OBVIOUS
  <1>2. c \in Seq(X) /\ Len(c) = 2 /\ c[1] = y /\ c[2] = z
    OBVIOUS
  <1>4. r = q \o c
    BY Zenon
  <1> HIDE DEF a, c
  <1>5. Follows(X, a, s, q)
    BY <1>1, ConcatenatedAs, Zenon
  <1> HIDE DEF q
  <1>6. Follows(X, q, c, r)
    <2>1. q \in Seq(X)
      BY <1>5, Zenon DEF Follows
    <2> QED  BY <1>2, <1>4, <2>1, ConcatenatedAs, Zenon
  <1>7. Len(q) = N + 1 /\ q[1] = x /\ \A i \in 1 .. N : q[i + 1] = s[i]
    <2>1. Len(q) = 1 + N /\ (\A i \in 1 .. 1 : q[i] = a[i]) /\ \A i \in 1 .. N : q[1 + i] = s[i]
      BY <1>1, <1>5, Zenon DEF Follows
    <2>2. \A i \in 1 .. N : 1 + i = i + 1
      OBVIOUS
    <2>3. 1 \in 1 .. 1 /\ 1 + N = N + 1
      OBVIOUS
    <2> QED  BY <1>1, <2>1, <2>2, <2>3, Zenon
  <1>8. /\ Len(r) = (N + 1) + 2
        /\ (\A i \in 1 .. N + 1 : r[i] = q[i]) /\ \A i \in 1 .. 2 : r[(N + 1) + i] = c[i]
    BY <1>2, <1>6, <1>7, Zenon DEF Follows
  <1>9. Len(r) = N + 3 /\ r[1] = q[1] /\ r[N + 2] = c[1] /\ r[N + 3] = c[2] /\ \A i \in 1 .. N : r[i + 1] = q[i + 1]
    <2>1. /\ (N + 1) + 1 = N + 2 /\ (N + 1) + 2 = N + 3 /\ 1 \in 1 .. N + 1 /\ 1 \in 1 .. 2 /\ 2 \in 1 .. 2
          /\ \A i \in 1 .. N : i + 1 \in 1 .. N + 1
      OBVIOUS
    <2> QED  BY <1>8, <2>1, Zenon
  <1> QED  BY <1>2, <1>7, <1>8, <1>9, Zenon DEF Ringed

LEMMA AnthropicPayload ==
  ASSUME NEW given \in GivenTypes, NEW N, N = Len(Joined(AnthropicParts(given)))
  PROVE  /\ N \in Nat
         /\ Ringed(AnthropicPayloads(given), N, AnthropicFirst(given), Joined(AnthropicParts(given)),
                   AnthropicCounts(given), AnthropicLast)
  <1> DEFINE X == AllAnthropicEvents(given)
             s == Joined(AnthropicParts(given))
             r == AnthropicPayloads(given)
             x == AnthropicFirst(given)
             y == AnthropicCounts(given)
             z == AnthropicLast
  <1>1. s \in Seq(X)
    <2>1. Blocked(X, AnthropicParts(given))
      BY AnthropicPartsAre
    <2>2. AtBlock(AnthropicParts(given), 0, 0, 0)
      BY <2>1, AtStart, Zenon
    <2> QED  BY <2>1, <2>2, AtEnd, Zenon
  <1>2. r = <<x>> \o s \o <<y, z>>
    BY Zenon DEF AnthropicPayloads, AnthropicParts, AnthropicFirst, AnthropicCounts, AnthropicLast
  <1>3. N = Len(s)
    OBVIOUS
  <1>4. x \in X /\ y \in X /\ z \in X
    BY Zenon DEF AllAnthropicEvents
  <1> HIDE DEF s, r, x, y, z, X
  <1>5. N \in Nat
    BY <1>1, <1>3
  <1>6. Ringed(r, N, x, s, y, z)
    BY <1>1, <1>2, <1>3, <1>4, <1>5, RingedIs, Zenon
  <1> QED  BY <1>5, <1>6, Zenon DEF s, r, x, y, z

\* What m pieces of a block of a type amount to.
SoFar(block, type, m) == IF block.type = type THEN Prefix(block.pieces, m) ELSE << >>

LEMMA SoFarNext ==
  ASSUME NEW block \in BlockTypes, NEW m \in 0 .. Len(block.pieces) - 1, NEW type, block.type = type
  PROVE  Append(SoFar(block, type, m), block.pieces[m + 1]) = SoFar(block, type, m + 1)
  <1> DEFINE p == Prefix(block.pieces, m)
             x == block.pieces[m + 1]
             q == Append(p, x)
  <1>1. m \in Nat
    BY DEF BlockTypes
  <1>2. Prefixed(p, m, x, block.pieces, q)
    BY <1>1, PrefixNext, Zenon
  <1>3. Prefix(block.pieces, m + 1) = q
    BY <1>2, Zenon DEF Prefixed
  <1> QED  BY <1>3, Zenon DEF SoFar

LEMMA SoFarWhole ==
  ASSUME NEW block \in BlockTypes, NEW type
  PROVE  /\ SoFar(block, type, 0) = << >> /\ SoFar(block, type, Len(block.pieces)) \in Seq(STRING)
         /\ SoFar(block, type, Len(block.pieces)) = IF block.type = type THEN block.pieces ELSE << >>
  <1>1. block.pieces \in Seq(STRING)
    BY DEF BlockTypes
  <1>2. Prefix(block.pieces, Len(block.pieces)) = block.pieces
    BY <1>1 DEF Prefix
  <1>3. Prefix(block.pieces, 0) = << >> /\ << >> \in Seq(STRING)
    BY DEF Prefix
  <1> QED  BY <1>1, <1>2, <1>3, Zenon DEF SoFar

LEMMA SoFarTyped ==
  ASSUME NEW block \in BlockTypes, NEW m \in 0 .. Len(block.pieces), NEW type
  PROVE  SoFar(block, type, m) \in Seq(STRING)
  <1>1. block.pieces \in Seq(STRING)
    BY DEF BlockTypes
  <1>2. Prefix(block.pieces, m) \in Seq(STRING) /\ << >> \in Seq(STRING)
    <2>1. m \in Nat /\ \A i \in 1 .. m : block.pieces[i] \in STRING
      BY <1>1
    <2> QED  BY <2>1 DEF Prefix
  <1> QED  BY <1>2, Zenon DEF SoFar

AppendedAtEnd(s, t, x) == Append(s \o t, x) = s \o Append(t, x)

LEMMA AppendedAfter ==
  ASSUME NEW X, NEW s \in Seq(X), NEW t \in Seq(X), NEW x \in X
  PROVE  AppendedAtEnd(s, t, x)
  <1>1. s \o t \in Seq(X) /\ <<x>> \in Seq(X)
    OBVIOUS
  <1>2. Append(s \o t, x) = (s \o t) \o <<x>> /\ Append(t, x) = t \o <<x>>
    BY <1>1, AppendIsConcat
  <1>3. (s \o t) \o <<x>> = s \o (t \o <<x>>)
    BY <1>1, ConcatAssociative
  <1> QED  BY <1>2, <1>3, Zenon DEF AppendedAtEnd

-----------------------------------------------------------------------------
(* What the mapper of Anthropic holds between two blocks, and within one     *)
(* after m of its pieces.                                                    *)
BareBlock(block) == [type |-> block.type, pieces |-> << >>]
BareBlocks(given) == [i \in 1 .. Len(given.blocks) |-> BareBlock(given.blocks[i])]
CompletedItems(given) == [i \in 1 .. Len(given.blocks) |-> CompletedItem(given.blocks[i])]
OpenedItem(block) == Item(block.type, block.id, << >>, "none")
Spoken(given, b) == Joins(TextsOf(given.blocks))[b]

AnthropicBetween(given, b, d) ==
    /\ d.text = Spoken(given, b) /\ d.blocks = Prefix(BareBlocks(given), b) /\ d.items = Prefix(CompletedItems(given), b)
    /\ \A i \in DOMAIN d.args : i \in 1 .. b
AnthropicWithin(given, b, m, d) ==
    LET block == given.blocks[b + 1]
    IN  /\ d.text = Spoken(given, b) \o SoFar(block, "text", m)
        /\ d.blocks = Prefix(BareBlocks(given), b + 1)
        /\ d.items = Append(Prefix(CompletedItems(given), b), OpenedItem(block))
        /\ \A i \in DOMAIN d.args : i \in 1 .. b + 1
        /\ SoFar(block, "tool_use", m) = IF b + 1 \in DOMAIN d.args THEN d.args[b + 1] ELSE << >>
AnthropicBegun(given, d) == Streaming(d) /\ d.start = UsageFromAnthropic([given.usage EXCEPT !.output = 1])
AnthropicHeard(given, b, j, d) ==
    /\ AnthropicBegun(given, d)
    /\ IF j = 0 THEN AnthropicBetween(given, b, d) ELSE AnthropicWithin(given, b, j - 1, d)

LEMMA SpokenTyped ==
  ASSUME NEW given \in GivenTypes, NEW b \in 0 .. Len(given.blocks)
  PROVE  /\ Spoken(given, b) \in Seq(STRING)
         /\ b = 0 => Spoken(given, b) = << >>
         /\ b # Len(given.blocks) => Spoken(given, b + 1) = Spoken(given, b) \o TextIn(given.blocks[b + 1])
         /\ TextOf(given) = Spoken(given, Len(given.blocks))
  <1> DEFINE texts == TextsOf(given.blocks)
             N == Len(given.blocks)
  <1>1. N \in Nat /\ \A i \in 1 .. N : given.blocks[i] \in BlockTypes
    BY DEF GivenTypes
  <1>2. \A i \in 1 .. N : TextIn(given.blocks[i]) \in Seq(STRING)
    <2>1. \A x \in BlockTypes : x.pieces \in Seq(STRING)
      BY DEF BlockTypes
    <2>2. << >> \in Seq(STRING)
      OBVIOUS
    <2> QED  BY <1>1, <2>1, <2>2, Zenon DEF TextIn
  <1>3. texts \in Seq(Seq(STRING)) /\ Len(texts) = N
    <2> HIDE DEF N
    <2>1. texts = [i \in 1 .. N |-> TextIn(given.blocks[i])]
      BY DEF TextsOf, N
    <2> HIDE DEF texts
    <2> QED  BY <1>1, <1>2, <2>1
  <1>4. \A i \in 1 .. N : texts[i] = TextIn(given.blocks[i])
    BY Zenon DEF TextsOf
  <1> HIDE DEF texts, N
  <1>5. Joins(texts)[b] \in Seq(STRING)
    BY <1>3, JoinsTyped, Zenon DEF N
  <1>6. b = 0 => Joins(texts)[b] = << >>
    BY <1>1, <1>3, JoinsEquation, Zenon
  <1>7. b # N => Joins(texts)[b + 1] = Joins(texts)[b] \o TextIn(given.blocks[b + 1])
    <2> SUFFICES ASSUME b # N  PROVE  Joins(texts)[b + 1] = Joins(texts)[b] \o TextIn(given.blocks[b + 1])
      OBVIOUS
    <2>1. b \in 0 .. Len(texts) - 1 /\ b + 1 \in 1 .. N /\ Len(texts) \in Nat
      BY <1>1, <1>3 DEF N
    <2>2. Joins(texts)[b + 1] = Joins(texts)[b] \o texts[b + 1]
      BY <2>1, JoinsNext, Zenon
    <2> QED  BY <1>4, <2>1, <2>2, Zenon
  <1>8. TextOf(given) = Joins(texts)[N]
    BY <1>3, Zenon DEF TextOf, Joined, texts
  <1> QED  BY <1>5, <1>6, <1>7, <1>8, Zenon DEF Spoken, texts, N

AnthropicMoved(given, b, j, next) == AnthropicHeard(given, b, j, next)

\* The start of a block adds it, and its item, behind those before.
LEMMA AnthropicHearsOpened ==
  ASSUME NEW given \in GivenTypes, NEW b \in 0 .. Len(given.blocks) - 1, NEW d, AnthropicHeard(given, b, 0, d),
         NEW next, next = AnthropicMap(d, AnthropicOpened(given.blocks[b + 1], b + 1))
  PROVE  AnthropicMoved(given, b, 1, next)
  <1> DEFINE block == given.blocks[b + 1]
             bare == BareBlock(block)
             item == OpenedItem(block)
             blocks == Append(d.blocks, bare)
             items == Append(d.items, item)
  <1>1. b \in Nat /\ b + 1 \in 1 .. Len(given.blocks) /\ b \in 0 .. Len(given.blocks) /\ block \in BlockTypes
    BY DEF GivenTypes
  <1>2. AnthropicBegun(given, d) /\ AnthropicBetween(given, b, d)
    BY Zenon DEF AnthropicHeard
  <1>3. /\ d.text = Spoken(given, b) /\ d.blocks = Prefix(BareBlocks(given), b) /\ d.items = Prefix(CompletedItems(given), b)
        /\ \A i \in DOMAIN d.args : i \in 1 .. b
    BY <1>2, Zenon DEF AnthropicBetween
  <1>4. next = [d EXCEPT !.blocks = blocks, !.items = items]
    BY DEF AnthropicMap, AnthropicOpened, BareBlock, OpenedItem
  <1>5. Prefix(BareBlocks(given), b + 1) = blocks
    <2>1. Prefixed(d.blocks, b, bare, BareBlocks(given), blocks)
      <3> HIDE DEF bare
      <3> QED  BY <1>1, <1>3, PrefixNext, Zenon
    <2>2. bare = BareBlocks(given)[b + 1]
      BY <1>1 DEF BareBlocks
    <2> QED  BY <2>1, <2>2, Zenon DEF Prefixed
  <1> HIDE DEF blocks, items, item, bare, block
  <1>6. /\ AnthropicBegun(given, next) /\ next.text = d.text /\ next.blocks = blocks /\ next.items = items
        /\ next.args = d.args
    BY <1>2, <1>4 DEF AnthropicBegun, Streaming, IsDecoder
  <1>7. next.text = Spoken(given, b) \o SoFar(block, "text", 0)
    <2>1. SoFar(block, "text", 0) = << >>
      BY <1>1, SoFarWhole
    <2>2. Spoken(given, b) \in Seq(STRING)
      BY <1>1, SpokenTyped
    <2>3. Spoken(given, b) \o << >> = Spoken(given, b)
      BY <2>2
    <2> QED  BY <1>3, <1>6, <2>1, <2>3
  <1>8. SoFar(block, "tool_use", 0) = IF b + 1 \in DOMAIN next.args THEN next.args[b + 1] ELSE << >>
    <2>1. SoFar(block, "tool_use", 0) = << >>
      BY <1>1, SoFarWhole
    <2>2. b + 1 \notin DOMAIN next.args
      <3>1. ~ (b + 1 \in 1 .. b)
        BY <1>1
      <3> QED  BY <1>3, <1>6, <3>1, Zenon
    <2> QED  BY <2>1, <2>2, Zenon
  <1>9. \A i \in DOMAIN next.args : i \in 1 .. b + 1
    <2>1. \A i \in 1 .. b : i \in 1 .. b + 1
      BY <1>1
    <2> QED  BY <1>3, <1>6, <2>1, Zenon
  <1>10. AnthropicWithin(given, b, 0, next)
    BY <1>3, <1>5, <1>6, <1>7, <1>8, <1>9, Zenon DEF AnthropicWithin, block, items, item
  <1>11. 1 # 0 /\ 1 - 1 = 0
    OBVIOUS
  <1> QED  BY <1>6, <1>10, <1>11, Zenon DEF AnthropicMoved, AnthropicHeard

\* A delta goes to the text or to the arguments gathered for its index.
LEMMA AnthropicHearsPiece ==
  ASSUME NEW given \in GivenTypes, NEW b \in 0 .. Len(given.blocks) - 1,
         NEW j \in 1 .. Len(given.blocks[b + 1].pieces), NEW d, AnthropicHeard(given, b, j, d),
         NEW next, next = AnthropicMap(d, AnthropicPiece(given.blocks[b + 1], b + 1, j))
  PROVE  AnthropicMoved(given, b, j + 1, next)
  <1> DEFINE block == given.blocks[b + 1]
             piece == block.pieces[j]
             m == j - 1
             p == b + 1
             said == Spoken(given, b)
             payload == AnthropicPiece(block, p, j)
  <1>1. /\ b \in Nat /\ p \in Nat /\ p \in 1 .. Len(given.blocks) /\ b \in 0 .. Len(given.blocks) /\ block \in BlockTypes
    BY DEF GivenTypes
  <1>2. /\ j \in Nat /\ j # 0 /\ j + 1 # 0 /\ (j + 1) - 1 = j /\ m + 1 = j /\ m \in 0 .. Len(block.pieces) - 1
        /\ m \in 0 .. Len(block.pieces) /\ p \in 1 .. p /\ piece \in STRING
    <2>1. block.pieces \in Seq(STRING)
      BY <1>1 DEF BlockTypes
    <2> HIDE DEF block
    <2> QED  BY <1>1, <2>1 DEF block
  <1>3. AnthropicBegun(given, d) /\ AnthropicWithin(given, b, m, d)
    BY <1>2, Zenon DEF AnthropicHeard
  <1>4. /\ d.text = said \o SoFar(block, "text", m)
        /\ d.blocks = Prefix(BareBlocks(given), p)
        /\ d.items = Append(Prefix(CompletedItems(given), b), OpenedItem(block))
        /\ \A i \in DOMAIN d.args : i \in 1 .. p
        /\ SoFar(block, "tool_use", m) = IF p \in DOMAIN d.args THEN d.args[p] ELSE << >>
    BY <1>3, Zenon DEF AnthropicWithin
  <1>5. payload.kind = block.type /\ payload.piece = piece /\ payload.index = p /\ next = AnthropicDelta(d, payload)
    BY DEF AnthropicMap, AnthropicPiece
  <1>6. block.type \in {"thinking", "text", "tool_use"}
    BY <1>1 DEF BlockTypes
  <1> HIDE DEF block, piece, m, p, payload, said
  <1>7. ASSUME NEW type, block.type = type  PROVE  Append(SoFar(block, type, m), piece) = SoFar(block, type, j)
    <2>1. Append(SoFar(block, type, m), block.pieces[m + 1]) = SoFar(block, type, m + 1)
      BY <1>1, <1>2, <1>7, SoFarNext
    <2> QED  BY <1>2, <2>1, Zenon DEF piece
  <1>8. ASSUME NEW type, block.type # type  PROVE  SoFar(block, type, m) = << >> /\ SoFar(block, type, j) = << >>
    BY <1>8, Zenon DEF SoFar
  <1>9. /\ AnthropicBegun(given, next) /\ next.blocks = d.blocks /\ next.items = d.items
        /\ next.text = said \o SoFar(block, "text", j)
        /\ \A i \in DOMAIN next.args : i \in 1 .. p
        /\ SoFar(block, "tool_use", j) = IF p \in DOMAIN next.args THEN next.args[p] ELSE << >>
    <2>1. CASE block.type = "text"
      <3> DEFINE text == Append(d.text, piece)
      <3>1. next = [d EXCEPT !.text = text]
        BY <1>5, <2>1 DEF AnthropicDelta
      <3>2. text = said \o SoFar(block, "text", j)
        <4>1. said \in Seq(STRING) /\ SoFar(block, "text", m) \in Seq(STRING)
          BY <1>1, <1>2, SpokenTyped, SoFarTyped DEF said
        <4>2. Append(said \o SoFar(block, "text", m), piece) = said \o Append(SoFar(block, "text", m), piece)
          <5> DEFINE s == said
                     t == SoFar(block, "text", m)
          <5>1. s \in Seq(STRING) /\ t \in Seq(STRING) /\ piece \in STRING
            BY <1>2, <4>1
          <5> HIDE DEF s, t, text, piece
          <5>2. AppendedAtEnd(s, t, piece)
            BY <5>1, AppendedAfter, Zenon
          <5> QED  BY <5>2, Zenon DEF AppendedAtEnd, s, t
        <4>3. Append(SoFar(block, "text", m), piece) = SoFar(block, "text", j)
          BY <1>7, <2>1
        <4> QED  BY <1>4, <4>2, <4>3, Zenon
      <3> HIDE DEF text
      <3>3. AnthropicBegun(given, next) /\ next.blocks = d.blocks /\ next.items = d.items /\ next.text = text /\ next.args = d.args
        BY <1>3, <3>1 DEF AnthropicBegun, Streaming, IsDecoder
      <3>4. SoFar(block, "tool_use", m) = SoFar(block, "tool_use", j)
        <4>1. block.type # "tool_use"
          BY <2>1
        <4> QED  BY <1>8, <4>1, Zenon
      <3> QED  BY <1>4, <3>2, <3>3, <3>4, Zenon
    <2>2. CASE block.type = "tool_use"
      <3> DEFINE before == IF p \in DOMAIN d.args THEN d.args[p] ELSE << >>
                 value == Append(before, piece)
                 args == Single(p, value) ++ d.args
      <3>1. next = [d EXCEPT !.args = args]
        BY <1>5, <2>2 DEF AnthropicDelta
      <3>2. value = SoFar(block, "tool_use", j)
        <4>1. Append(SoFar(block, "tool_use", m), piece) = SoFar(block, "tool_use", j)
          BY <1>7, <2>2
        <4>2. before = SoFar(block, "tool_use", m)
          BY <1>4, Zenon
        <4> HIDE DEF before
        <4> QED  BY <4>1, <4>2, Zenon
      <3>3. p \in DOMAIN args /\ args[p] = value /\ \A i \in DOMAIN args : i = p \/ i \in DOMAIN d.args
        <4> HIDE DEF value
        <4> QED  BY DEF Single, ++
      <3> HIDE DEF args, value
      <3>4. AnthropicBegun(given, next) /\ next.blocks = d.blocks /\ next.items = d.items /\ next.args = args /\ next.text = d.text
        BY <1>3, <3>1 DEF AnthropicBegun, Streaming, IsDecoder
      <3>5. SoFar(block, "text", m) = SoFar(block, "text", j)
        <4>1. block.type # "text"
          BY <2>2
        <4> QED  BY <1>8, <4>1, Zenon
      <3> QED  BY <1>2, <1>4, <3>2, <3>3, <3>4, <3>5, Zenon
    <2>3. CASE block.type = "thinking"
      <3>1. next = d
        BY <1>5, <2>3 DEF AnthropicDelta
      <3>2. SoFar(block, "text", m) = SoFar(block, "text", j) /\ SoFar(block, "tool_use", m) = SoFar(block, "tool_use", j)
        <4>1. block.type # "text" /\ block.type # "tool_use"
          BY <2>3
        <4> QED  BY <1>8, <4>1, Zenon
      <3> QED  BY <1>3, <1>4, <3>1, <3>2, Zenon
    <2> QED  BY <1>6, <2>1, <2>2, <2>3
  <1>10. AnthropicWithin(given, b, j, next)
    BY <1>4, <1>9, Zenon DEF AnthropicWithin, block, p, said
  <1> QED  BY <1>2, <1>9, <1>10, Zenon DEF AnthropicMoved, AnthropicHeard

\* The stop of a block gives its call the arguments gathered, and completes it.
LEMMA AnthropicHearsStopped ==
  ASSUME NEW given \in GivenTypes, NEW b \in 0 .. Len(given.blocks) - 1,
         NEW j, j = Len(given.blocks[b + 1].pieces) + 1, NEW d, AnthropicHeard(given, b, j, d),
         NEW next, next = AnthropicMap(d, AnthropicStopped(b + 1))
  PROVE  AnthropicMoved(given, b + 1, 0, next)
  <1> DEFINE block == given.blocks[b + 1]
             m == Len(block.pieces)
             p == b + 1
             said == Spoken(given, b)
             first == OpenedItem(block)
             output == CompletedItems(given)
             before == Prefix(output, b)
             q == Append(before, first)
  <1>1. /\ b \in Nat /\ p \in Nat /\ p \in 1 .. Len(given.blocks) /\ b \in 0 .. Len(given.blocks) /\ block \in BlockTypes
        /\ b # Len(given.blocks)
    BY DEF GivenTypes
  <1>2. m \in Nat /\ j # 0 /\ j - 1 = m
    <2>1. block.pieces \in Seq(STRING)
      BY <1>1 DEF BlockTypes
    <2> HIDE DEF block
    <2> QED  BY <2>1 DEF block
  <1>3. AnthropicBegun(given, d) /\ AnthropicWithin(given, b, m, d)
    BY <1>2, Zenon DEF AnthropicHeard
  <1>4. /\ d.text = said \o SoFar(block, "text", m)
        /\ d.blocks = Prefix(BareBlocks(given), p)
        /\ d.items = q
        /\ \A i \in DOMAIN d.args : i \in 1 .. p
        /\ SoFar(block, "tool_use", m) = IF p \in DOMAIN d.args THEN d.args[p] ELSE << >>
    BY <1>3, Zenon DEF AnthropicWithin
  <1>5. d.text = Spoken(given, p)
    <2>1. SoFar(block, "text", m) = TextIn(block)
      BY <1>1, SoFarWhole, Zenon DEF TextIn
    <2>2. Spoken(given, p) = said \o TextIn(block)
      BY <1>1, SpokenTyped
    <2> QED  BY <1>4, <2>1, <2>2, Zenon
  <1>6. SoFar(block, "tool_use", m) = CompletedItem(block).arguments
    <2>1. CompletedItem(block).arguments = IF block.type = "tool_use" THEN block.pieces ELSE << >>
      BY DEF CompletedItem, Item
    <2> QED  BY <1>1, <2>1, SoFarWhole, Zenon
  <1>7. next = AnthropicStops(d, p)
    BY DEF AnthropicMap, AnthropicStopped
  <1>8. output[p] = CompletedItem(block)
    BY <1>1 DEF CompletedItems
  <1>9. Prefixed(before, b, first, output, q)
    <2> HIDE DEF first, output
    <2> QED  BY <1>1, PrefixNext, Zenon
  <1>10. first = [type |-> block.type, id |-> block.id, arguments |-> << >>, status |-> "none"]
    BY DEF OpenedItem, Item
  <1>11. CompletedItem(block) = [type |-> block.type, id |-> block.id, arguments |-> CompletedItem(block).arguments, status |-> "completed"]
    BY DEF CompletedItem, Item
  <1> HIDE DEF block, m, said, first, output, q, before
  <1>12. /\ q[p] = first /\ Prefix(output, p) = [q EXCEPT ![p] = output[p]]
    <2>1. q = [i \in 1 .. b + 1 |-> IF i = b + 1 THEN first ELSE output[i]]
      BY <1>9, Zenon DEF Prefixed
    <2>2. q[p] = first
      BY <1>1, <2>1
    <2>3. Prefix(output, p) = [q EXCEPT ![p] = output[p]]
      BY <1>9, Zenon DEF Prefixed
    <2> QED  BY <2>2, <2>3
  <1> HIDE DEF p
  <1> DEFINE item == d.items[p]
             done == IF p \in DOMAIN d.args THEN [item EXCEPT !.arguments = d.args[p]] ELSE item
             final == [done EXCEPT !.status = "completed"]
  <1>13. next = [d EXCEPT !.items = [q EXCEPT ![p] = final]]
    <2>1. next = [d EXCEPT !.items[p] = final]
      BY <1>7, Zenon DEF AnthropicStops
    <2> HIDE DEF final
    <2>2. next = [d EXCEPT !.items = [d.items EXCEPT ![p] = final]]
      BY <2>1
    <2> QED  BY <1>4, <2>2, Zenon
  <1>14. final = CompletedItem(block)
    <2> DEFINE arguments == SoFar(block, "tool_use", m)
    <2>1. item = [type |-> block.type, id |-> block.id, arguments |-> << >>, status |-> "none"]
      BY <1>4, <1>10, <1>12, Zenon
    <2> HIDE DEF item, arguments
    <2>2. done = [type |-> block.type, id |-> block.id, arguments |-> arguments, status |-> "none"]
      <3>1. CASE p \in DOMAIN d.args
        <4>1. arguments = d.args[p]
          BY <1>4, <3>1, Zenon DEF arguments
        <4> QED  BY <2>1, <3>1, <4>1
      <3>2. CASE p \notin DOMAIN d.args
        <4>1. arguments = << >>
          BY <1>4, <3>2, Zenon DEF arguments
        <4> QED  BY <2>1, <3>2, <4>1
      <3> QED  BY <3>1, <3>2
    <2> HIDE DEF done
    <2>3. final = [type |-> block.type, id |-> block.id, arguments |-> arguments, status |-> "completed"]
      BY <2>2
    <2> QED  BY <1>6, <1>11, <2>3, Zenon DEF arguments
  <1> HIDE DEF final
  <1>15. next = [d EXCEPT !.items = Prefix(output, p)]
    BY <1>8, <1>12, <1>13, <1>14, Zenon
  <1> DEFINE items == Prefix(output, p)
  <1>16. next = [d EXCEPT !.items = items]
    BY <1>15
  <1> HIDE DEF items
  <1>17. AnthropicBegun(given, next) /\ next.blocks = d.blocks /\ next.items = items /\ next.args = d.args /\ next.text = d.text
    BY <1>3, <1>16 DEF AnthropicBegun, Streaming, IsDecoder
  <1>18. AnthropicBetween(given, p, next)
    BY <1>4, <1>5, <1>17, Zenon DEF AnthropicBetween, items, output
  <1> QED  BY <1>17, <1>18, Zenon DEF AnthropicMoved, AnthropicHeard, p

\* What the Anthropic mapper holds after k of the payloads.
AnthropicGathered(given, d) ==
    /\ AnthropicBegun(given, d) /\ d.text = TextOf(given) /\ d.blocks = BareBlocks(given) /\ d.items = CompletedItems(given)
    /\ d.usage.output = given.usage.output
AnthropicStage(given, k, d) ==
    LET parts == AnthropicParts(given)
        count == Len(Joined(parts))
    IN  CASE k = 0 -> d = NewDecoder
          [] k \in 1 .. count + 1 -> \E b, j : AtBlock(parts, k - 1, b, j) /\ AnthropicHeard(given, b, j, d)
          [] k = count + 2 -> AnthropicGathered(given, d)
          [] k = count + 3 -> d.failed = FALSE /\ d.answer = WholeAnswer("anthropic", given)
          [] OTHER -> FALSE

LEMMA AnthropicCases ==
  ASSUME NEW given \in GivenTypes, NEW count, count = Len(Joined(AnthropicParts(given)))
  PROVE  /\ count \in Nat
         /\ \A d : AnthropicStage(given, 0, d) <=> d = NewDecoder
         /\ \A k \in 1 .. count + 1 : \A d : AnthropicStage(given, k, d)
              <=> \E b, j : AtBlock(AnthropicParts(given), k - 1, b, j) /\ AnthropicHeard(given, b, j, d)
         /\ \A d : AnthropicStage(given, count + 2, d) <=> AnthropicGathered(given, d)
         /\ \A d : AnthropicStage(given, count + 3, d) <=> (d.failed = FALSE /\ d.answer = WholeAnswer("anthropic", given))
  <1>1. count \in Nat
    BY AnthropicPayload
  <1>2. /\ 0 \notin 1 .. count + 1 /\ 0 # count + 2 /\ 0 # count + 3
        /\ count + 2 # 0 /\ count + 2 \notin 1 .. count + 1 /\ count + 2 # count + 3
        /\ count + 3 # 0 /\ count + 3 \notin 1 .. count + 1 /\ count + 3 # count + 2
        /\ \A k \in 1 .. count + 1 : k # 0 /\ k # count + 2 /\ k # count + 3
    BY <1>1
  <1> QED  BY <1>1, <1>2, Zenon DEF AnthropicStage

LEMMA AnthropicHearsFirst ==
  ASSUME NEW given \in GivenTypes, NEW next, next = AnthropicMap(NewDecoder, AnthropicFirst(given))
  PROVE  AnthropicMoved(given, 0, 0, next)
  <1>1. next = [NewDecoder EXCEPT !.start = UsageFromAnthropic([given.usage EXCEPT !.output = 1])]
    BY DEF AnthropicMap, AnthropicFirst
  <1> DEFINE usage == UsageFromAnthropic([given.usage EXCEPT !.output = 1])
  <1>2. next = [NewDecoder EXCEPT !.start = usage]
    BY <1>1
  <1> HIDE DEF usage
  <1>3. /\ Streaming(next) /\ next.start = usage /\ next.text = << >> /\ next.blocks = << >> /\ next.items = << >>
        /\ next.args = << >>
    BY <1>2 DEF Streaming, IsDecoder, NewDecoder
  <1>4. Spoken(given, 0) = << >>
    <2>1. 0 \in 0 .. Len(given.blocks)
      BY DEF GivenTypes
    <2> QED  BY <2>1, SpokenTyped
  <1>5. Prefix(BareBlocks(given), 0) = << >> /\ Prefix(CompletedItems(given), 0) = << >>
    BY DEF Prefix
  <1>6. \A i \in DOMAIN next.args : i \in 1 .. 0
    BY <1>3
  <1>7. AnthropicBetween(given, 0, next)
    BY <1>3, <1>4, <1>5, <1>6, Zenon DEF AnthropicBetween
  <1>8. AnthropicBegun(given, next)
    BY <1>3, Zenon DEF AnthropicBegun, usage
  <1> QED  BY <1>7, <1>8, Zenon DEF AnthropicMoved, AnthropicHeard

LEMMA AnthropicHearsCounts ==
  ASSUME NEW given \in GivenTypes, NEW d, AnthropicHeard(given, Len(given.blocks), 0, d),
         NEW next, next = AnthropicMap(d, AnthropicCounts(given))
  PROVE  AnthropicGathered(given, next)
  <1> DEFINE N == Len(given.blocks)
             usage == UsageFromAnthropic([NoReport EXCEPT !.output = given.usage.output])
  <1>1. N \in Nat /\ N \in 0 .. N
    BY DEF GivenTypes
  <1>2. AnthropicBegun(given, d) /\ AnthropicBetween(given, N, d)
    BY Zenon DEF AnthropicHeard
  <1>3. next = [d EXCEPT !.usage = usage]
    BY DEF AnthropicMap, AnthropicCounts
  <1>4. usage.output = given.usage.output
    BY DEF UsageFromAnthropic, Usage, NoReport
  <1> HIDE DEF usage
  <1>5. /\ AnthropicBegun(given, next) /\ next.text = d.text /\ next.blocks = d.blocks /\ next.items = d.items
        /\ next.usage = usage
    BY <1>2, <1>3 DEF AnthropicBegun, Streaming, IsDecoder
  <1>6. TextOf(given) = Spoken(given, N)
    BY <1>1, SpokenTyped
  <1>7. Prefix(BareBlocks(given), N) = BareBlocks(given) /\ Prefix(CompletedItems(given), N) = CompletedItems(given)
    BY DEF Prefix, BareBlocks, CompletedItems
  <1> QED  BY <1>2, <1>4, <1>5, <1>6, <1>7, Zenon DEF AnthropicGathered, AnthropicBetween

LEMMA AnthropicHearsLast ==
  ASSUME NEW given \in GivenTypes, NEW d, AnthropicGathered(given, d), NEW next, next = AnthropicMap(d, AnthropicLast)
  PROVE  next.failed = FALSE /\ next.answer = WholeAnswer("anthropic", given)
  <1> DEFINE whole == [NewDecoder EXCEPT
        !.text = TextOf(given), !.start = UsageFromAnthropic(given.usage),
        !.blocks = given.blocks, !.items = CompletedItems(given)]
             answer == AnthropicAnswer(d)
  <1>1. WholeAnswer("anthropic", given) = AnthropicAnswer(whole)
    BY DEF WholeAnswer, AnthropicComplete, CompletedItems
  <1>2. /\ whole.text = TextOf(given) /\ whole.start = UsageFromAnthropic(given.usage) /\ whole.blocks = given.blocks
        /\ whole.items = CompletedItems(given) /\ whole.usage = NoUsage
    BY DEF NewDecoder
  <1> HIDE DEF whole
  <1>3. d.text = TextOf(given) /\ d.blocks = BareBlocks(given) /\ d.items = CompletedItems(given)
        /\ d.start = UsageFromAnthropic([given.usage EXCEPT !.output = 1]) /\ d.usage.output = given.usage.output
    BY Zenon DEF AnthropicGathered, AnthropicBegun
  <1>4. TypesOf(BareBlocks(given)) = TypesOf(given.blocks)
    <2>1. Len(given.blocks) \in Nat
      BY DEF GivenTypes
    <2> QED  BY <2>1 DEF TypesOf, BareBlocks, BareBlock
  <1>5. [d.start EXCEPT !.output = Greater(@, d.usage.output)] = [whole.start EXCEPT !.output = Greater(@, whole.usage.output)]
    <2>1. given.usage \in UsageTypes
      BY DEF GivenTypes
    <2>2. PICK input \in Nat, output \in Nat \ {0}, read \in Nat, created \in Nat :
            given.usage = [input |-> input, output |-> output, read |-> read, created |-> created]
      BY <2>1 DEF UsageTypes
    <2>3. d.start = Usage(input + read + created, 1, read, created)
      BY <1>3, <2>2 DEF UsageFromAnthropic
    <2>4. whole.start = Usage(input + read + created, output, read, created)
      BY <1>2, <2>2 DEF UsageFromAnthropic
    <2>5. d.usage.output = output /\ whole.usage.output = 0
      BY <1>2, <1>3, <2>2 DEF NoUsage, Usage
    <2>6. Greater(1, output) = output /\ Greater(output, 0) = output
      BY DEF Greater
    <2> QED  BY <2>3, <2>4, <2>5, <2>6 DEF Usage
  <1>6. AnthropicAnswer(d) = AnthropicAnswer(whole)
    BY <1>2, <1>3, <1>4, <1>5, Zenon DEF AnthropicAnswer
  <1>7. next = [d EXCEPT !.answer = answer]
    BY DEF AnthropicMap, AnthropicLast
  <1> HIDE DEF answer
  <1>8. next.failed = FALSE /\ next.answer = answer
    <2>1. Streaming(d)
      BY Zenon DEF AnthropicGathered, AnthropicBegun
    <2> QED  BY <1>7, <2>1 DEF Streaming, IsDecoder
  <1> QED  BY <1>1, <1>6, <1>8 DEF answer

\* An event of Anthropic moves its stage one on, without a failure.
LEMMA AnthropicGoesOn ==
  ASSUME NEW given \in GivenTypes, NEW k \in 0 .. Len(AnthropicPayloads(given)) - 1,
         NEW d, AnthropicStage(given, k, d), NEW next, next = AnthropicMap(d, AnthropicPayloads(given)[k + 1])
  PROVE  AnthropicStage(given, k + 1, next) /\ ~ next.failed
  <1> DEFINE parts == AnthropicParts(given)
             N == Len(Joined(parts))
             payloads == AnthropicPayloads(given)
             payload == payloads[k + 1]
             B == Len(given.blocks)
  <1>1. /\ N \in Nat /\ Len(payloads) = N + 3 /\ payloads[1] = AnthropicFirst(given)
        /\ payloads[N + 2] = AnthropicCounts(given) /\ payloads[N + 3] = AnthropicLast
        /\ \A i \in 1 .. N : payloads[i + 1] = Joined(parts)[i]
    BY AnthropicPayload, Zenon DEF Ringed
  <1>2. Blocked(AllAnthropicEvents(given), parts) /\ Len(parts) = B
        /\ \A i \in 1 .. B : AnthropicBlocked(given.blocks[i], i, parts[i])
    BY AnthropicPartsAre
  <1>3. B \in Nat /\ \A i \in 1 .. B : given.blocks[i] \in BlockTypes
    BY DEF GivenTypes
  <1>4. /\ \A e : AnthropicStage(given, 0, e) <=> e = NewDecoder
        /\ \A i \in 1 .. N + 1 : \A e : AnthropicStage(given, i, e)
              <=> \E b, j : AtBlock(parts, i - 1, b, j) /\ AnthropicHeard(given, b, j, e)
        /\ \A e : AnthropicStage(given, N + 2, e) <=> AnthropicGathered(given, e)
        /\ \A e : AnthropicStage(given, N + 3, e) <=> (e.failed = FALSE /\ e.answer = WholeAnswer("anthropic", given))
    BY AnthropicCases
  <1>5. next = AnthropicMap(d, payload)
    OBVIOUS
  <1>6. k \in 0 .. N + 2
    BY <1>1
  <1>7. ASSUME NEW b, NEW j, AnthropicHeard(given, b, j, next)  PROVE  ~ next.failed
    BY <1>7, Zenon DEF AnthropicHeard, AnthropicBegun, Streaming
  <1> HIDE DEF N, payloads, payload
  <1>8. CASE k = 0
    <2>1. payload = AnthropicFirst(given)
      BY <1>1, <1>8 DEF payload
    <2>2. d = NewDecoder
      BY <1>4, <1>8, Zenon
    <2>3. AnthropicHeard(given, 0, 0, next)
      BY <1>5, <2>1, <2>2, AnthropicHearsFirst, Zenon DEF AnthropicMoved
    <2>4. AtBlock(parts, 0, 0, 0)
      BY <1>2, AtStart, Zenon
    <2>5. k + 1 \in 1 .. N + 1 /\ (k + 1) - 1 = 0
      BY <1>1, <1>8
    <2>6. AnthropicStage(given, k + 1, next)
      BY <1>4, <2>3, <2>4, <2>5, Zenon
    <2> QED  BY <1>7, <2>3, <2>6, Zenon
  <1>9. CASE k \in 1 .. N
    <2> DEFINE i == k - 1
    <2>1. k \in 1 .. N + 1 /\ k + 1 \in 1 .. N + 1 /\ (k + 1) - 1 = i + 1 /\ i # N /\ i + 1 = k
      BY <1>1, <1>9
    <2>2. PICK b, j : AtBlock(parts, i, b, j) /\ AnthropicHeard(given, b, j, d)
      BY <1>4, <2>1, Zenon
    <2> HIDE DEF i
    <2>3. b = B <=> i = N
      BY <1>2, <2>2, AtEnd, Zenon DEF N
    <2> DEFINE block == given.blocks[b + 1]
               part == parts[b + 1]
               n == Len(block.pieces)
               Onward == \E c, h : AtBlock(parts, i + 1, c, h) /\ AnthropicHeard(given, c, h, next)
    <2>4. b # Len(parts) /\ b \in 0 .. B - 1 /\ b + 1 \in 1 .. B
      BY <1>2, <1>3, <2>1, <2>2, <2>3 DEF AtBlock
    <2>5. /\ Joined(parts)[i + 1] = parts[b + 1][j + 1] /\ i + 1 \in 1 .. N
          /\ AtNext(parts, i, b, j)
      BY <1>2, <2>2, <2>4, AtGoesOn, Zenon DEF N
    <2>6. payload = part[j + 1]
      BY <1>1, <1>9, <2>1, <2>5, Zenon DEF payload
    <2>7. /\ Len(part) = n + 2 /\ part[1] = AnthropicOpened(block, b + 1) /\ part[n + 2] = AnthropicStopped(b + 1)
          /\ \A h \in 1 .. n : part[h + 1] = AnthropicPiece(block, b + 1, h)
      BY <1>2, <2>4, Zenon DEF AnthropicBlocked
    <2>8. n \in Nat
      BY <1>3, <2>4 DEF BlockTypes
    <2>9. j \in Nat /\ j + 1 \in 1 .. Len(part)
      BY <2>2, <2>4, Zenon DEF AtBlock
    <2> HIDE DEF n, part
    <2>10. ASSUME j = 0  PROVE  Onward
      <3>1. payload = AnthropicOpened(block, b + 1) /\ j + 1 # Len(part) /\ j + 1 = 1
        BY <2>6, <2>7, <2>8, <2>10
      <3>2. AnthropicHeard(given, b, 1, next)
        BY <1>5, <2>2, <2>4, <2>10, <3>1, AnthropicHearsOpened, Zenon DEF AnthropicMoved
      <3>3. AtBlock(parts, i + 1, b, 1)
        BY <2>5, <3>1, Zenon DEF AtNext, part
      <3> QED  BY <3>2, <3>3, Zenon
    <2>11. ASSUME j # 0, j + 1 # Len(part)  PROVE  Onward
      <3>1. j \in 1 .. n
        BY <2>7, <2>8, <2>9, <2>11
      <3>2. payload = AnthropicPiece(block, b + 1, j)
        BY <2>6, <2>7, <3>1, Zenon
      <3>3. AnthropicHeard(given, b, j + 1, next)
        BY <1>5, <2>2, <2>4, <3>1, <3>2, AnthropicHearsPiece, Zenon DEF AnthropicMoved, n
      <3>4. AtBlock(parts, i + 1, b, j + 1)
        BY <2>5, <2>11, Zenon DEF AtNext, part
      <3> QED  BY <3>3, <3>4, Zenon
    <2>12. ASSUME j # 0, j + 1 = Len(part)  PROVE  Onward
      <3>1. payload = AnthropicStopped(b + 1) /\ j = n + 1
        BY <2>6, <2>7, <2>8, <2>9, <2>12
      <3>2. AnthropicHeard(given, b + 1, 0, next)
        BY <1>5, <2>2, <2>4, <3>1, AnthropicHearsStopped, Zenon DEF AnthropicMoved, n
      <3>3. AtBlock(parts, i + 1, b + 1, 0)
        BY <2>5, <2>12, Zenon DEF AtNext, part
      <3> QED  BY <3>2, <3>3, Zenon
    <2>13. Onward
      BY <2>10, <2>11, <2>12, Zenon
    <2>14. AnthropicStage(given, k + 1, next)
      BY <1>4, <2>1, <2>13, Zenon
    <2> QED  BY <1>7, <2>13, <2>14, Zenon
  <1>10. CASE k = N + 1
    <2>1. k \in 1 .. N + 1 /\ k - 1 = N /\ k + 1 = N + 2
      BY <1>1, <1>10
    <2>2. PICK b, j : AtBlock(parts, N, b, j) /\ AnthropicHeard(given, b, j, d)
      BY <1>4, <2>1, Zenon
    <2>3. b = B
      BY <1>2, <2>2, AtEnd, Zenon DEF N
    <2>4. j = 0
      BY <1>2, <2>2, <2>3, Zenon DEF AtBlock
    <2>5. payload = AnthropicCounts(given)
      BY <1>1, <2>1, Zenon DEF payload
    <2>6. AnthropicGathered(given, next)
      BY <1>5, <2>2, <2>3, <2>4, <2>5, AnthropicHearsCounts, Zenon
    <2>7. ~ next.failed
      BY <2>6, Zenon DEF AnthropicGathered, AnthropicBegun, Streaming
    <2>8. AnthropicStage(given, k + 1, next)
      BY <1>4, <2>1, <2>6, Zenon
    <2> QED  BY <2>7, <2>8
  <1>11. CASE k = N + 2
    <2>1. k + 1 = N + 3
      BY <1>1, <1>11
    <2>2. payload = AnthropicLast
      BY <1>1, <2>1, Zenon DEF payload
    <2>3. AnthropicGathered(given, d)
      BY <1>4, <1>11, Zenon
    <2>4. next.failed = FALSE /\ next.answer = WholeAnswer("anthropic", given)
      BY <1>5, <2>2, <2>3, AnthropicHearsLast, Zenon
    <2>5. AnthropicStage(given, k + 1, next)
      BY <1>4, <2>1, <2>4, Zenon
    <2> QED  BY <2>4, <2>5
  <1>12. k = 0 \/ k \in 1 .. N \/ k = N + 1 \/ k = N + 2
    BY <1>1, <1>6
  <1> QED  BY <1>8, <1>9, <1>10, <1>11, <1>12

\* An answer, once there, is that of the whole response.
LEMMA AnthropicEnds ==
  ASSUME NEW given \in GivenTypes, NEW k, NEW d, AnthropicStage(given, k, d), d.answer.done
  PROVE  d.answer = WholeAnswer("anthropic", given)
  <1> DEFINE N == Len(Joined(AnthropicParts(given)))
  <1>1. ~ NoAnswer.done /\ NewDecoder.answer = NoAnswer
    BY DEF NoAnswer, NewDecoder
  <1>2. k = 0 \/ k \in 1 .. N + 1 \/ k = N + 2 \/ k = N + 3
    BY Zenon DEF AnthropicStage
  <1>3. /\ \A e : AnthropicStage(given, 0, e) <=> e = NewDecoder
        /\ \A i \in 1 .. N + 1 : \A e : AnthropicStage(given, i, e)
              <=> \E b, j : AtBlock(AnthropicParts(given), i - 1, b, j) /\ AnthropicHeard(given, b, j, e)
        /\ \A e : AnthropicStage(given, N + 2, e) <=> AnthropicGathered(given, e)
        /\ \A e : AnthropicStage(given, N + 3, e) <=> (e.failed = FALSE /\ e.answer = WholeAnswer("anthropic", given))
    BY AnthropicCases
  <1> HIDE DEF N
  <1>4. k # 0
    BY <1>1, <1>3, Zenon
  <1>5. k \notin 1 .. N + 1
    BY <1>1, <1>3, Zenon DEF AnthropicHeard, AnthropicBegun, Streaming
  <1>6. k # N + 2
    BY <1>1, <1>3, Zenon DEF AnthropicGathered, AnthropicBegun, Streaming
  <1> QED  BY <1>2, <1>3, <1>4, <1>5, <1>6, Zenon

-----------------------------------------------------------------------------
(* The mapper of any dialect.                                                *)

\* What the mapper of a dialect holds after k of the payloads of a response.
Stage(dialect, given, k, d) ==
    CASE dialect = "google" -> GeminiStage(given, k, d)
      [] dialect = "anthropic" -> AnthropicStage(given, k, d)
      [] OTHER -> OpenAIStage(given, k, d)
StagedNext(dialect, given, k, next) == Stage(dialect, given, k, next) /\ ~ next.failed

\* Before any payload every mapper is at its first stage.
LEMMA StageStarts ==
  ASSUME NEW dialect \in Dialects, NEW given, Answers(dialect, given)
  PROVE  Stage(dialect, given, 0, NewDecoder)
  <1>1. given \in GivenTypes
    BY Zenon DEF Answers
  <1>2. AnthropicStage(given, 0, NewDecoder)
    BY <1>1, AnthropicCases
  <1>3. GeminiStage(given, 0, NewDecoder) /\ OpenAIStage(given, 0, NewDecoder)
    BY <1>1, GeminiStart, OpenAIStart
  <1> QED  BY <1>2, <1>3, Zenon DEF Stage

LEMMA StageGoesOn ==
  ASSUME NEW dialect \in Dialects, NEW given, Answers(dialect, given), NEW k \in 0 .. Len(PayloadsOf(dialect, given)) - 1,
         NEW d, Stage(dialect, given, k, d), NEW next, next = Mapped(dialect, d, PayloadsOf(dialect, given)[k + 1])
  PROVE  StagedNext(dialect, given, k + 1, next)
  <1>1. given \in GivenTypes /\ (dialect = "openai" => Distinct(given.blocks))
    BY Zenon DEF Answers
  <1>2. CASE dialect = "google"
    <2>1. PayloadsOf(dialect, given) = GooglePayloads(given) /\ GeminiStage(given, k, d)
          /\ next = GeminiMap(d, GooglePayloads(given)[k + 1])
      BY <1>2 DEF PayloadsOf, Mapped, Stage
    <2>2. k \in 0 .. Len(given.blocks)
      <3>1. Len(given.blocks) \in Nat
        BY <1>1 DEF GivenTypes
      <3>2. 0 \in 0 .. Len(given.blocks)
        BY <3>1
      <3>3. Len(GooglePayloads(given)) = Len(given.blocks) + 1
        BY <1>1, <3>2, GooglePayload
      <3> QED  BY <2>1, <3>1, <3>3
    <2>3. GeminiStage(given, k + 1, next) /\ ~ next.failed
      BY <1>1, <2>1, <2>2, GeminiGoesOn
    <2> QED  BY <1>2, <2>3 DEF Stage, StagedNext
  <1>3. CASE dialect = "anthropic"
    <2>1. PayloadsOf(dialect, given) = AnthropicPayloads(given) /\ AnthropicStage(given, k, d)
          /\ next = AnthropicMap(d, AnthropicPayloads(given)[k + 1])
      BY <1>3 DEF PayloadsOf, Mapped, Stage
    <2>2. AnthropicStage(given, k + 1, next) /\ ~ next.failed
      BY <1>1, <2>1, AnthropicGoesOn
    <2> QED  BY <1>3, <2>2 DEF Stage, StagedNext
  <1>4. CASE dialect = "openai"
    <2>1. PayloadsOf(dialect, given) = OpenAIPayloads(given) /\ OpenAIStage(given, k, d)
          /\ next = OpenAIMap(d, OpenAIPayloads(given)[k + 1])
      BY <1>4 DEF PayloadsOf, Mapped, Stage
    <2>2. OpenAIStage(given, k + 1, next) /\ ~ next.failed
      BY <1>1, <1>4, <2>1, OpenAIGoesOn
    <2> QED  BY <1>4, <2>2 DEF Stage, StagedNext
  <1> QED  BY <1>2, <1>3, <1>4 DEF Dialects

LEMMA StageEnds ==
  ASSUME NEW dialect \in Dialects, NEW given, Answers(dialect, given), NEW k \in 0 .. Len(PayloadsOf(dialect, given)),
         NEW d, Stage(dialect, given, k, d)
  PROVE  IF dialect = "google" THEN GeminiComplete(d).finish # "none" => GeminiComplete(d) = WholeAnswer(dialect, given)
         ELSE d.answer.done => d.answer = WholeAnswer(dialect, given)
  <1>1. given \in GivenTypes
    BY Zenon DEF Answers
  <1>2. CASE dialect = "google"
    <2>1. PayloadsOf(dialect, given) = GooglePayloads(given) /\ GeminiStage(given, k, d)
      BY <1>2 DEF PayloadsOf, Stage
    <2>2. k \in 0 .. Len(given.blocks) + 1
      <3>1. Len(given.blocks) \in Nat
        BY <1>1 DEF GivenTypes
      <3>2. 0 \in 0 .. Len(given.blocks)
        BY <3>1
      <3>3. Len(GooglePayloads(given)) = Len(given.blocks) + 1
        BY <1>1, <3>2, GooglePayload
      <3> QED  BY <2>1, <3>1, <3>3
    <2> QED  BY <1>1, <1>2, <2>1, <2>2, GeminiEnds
  <1>3. CASE dialect = "anthropic"
    <2>1. AnthropicStage(given, k, d)
      BY <1>3 DEF Stage
    <2> QED  BY <1>1, <1>3, <2>1, AnthropicEnds
  <1>4. CASE dialect = "openai"
    <2>1. OpenAIStage(given, k, d)
      BY <1>4 DEF Stage
    <2> QED  BY <1>1, <1>4, <2>1, OpenAIEnds
  <1> QED  BY <1>2, <1>3, <1>4 DEF Dialects

LEMMA PayloadsCounted ==
  ASSUME NEW dialect \in Dialects, NEW given, Answers(dialect, given)
  PROVE  Len(PayloadsOf(dialect, given)) \in Nat
  <1>1. given \in GivenTypes
    BY Zenon DEF Answers
  <1>2. Len(GooglePayloads(given)) \in Nat
    <2>1. Len(given.blocks) \in Nat
      BY <1>1 DEF GivenTypes
    <2>2. 0 \in 0 .. Len(given.blocks)
      BY <2>1
    <2>3. Len(GooglePayloads(given)) = Len(given.blocks) + 1
      BY <1>1, <2>2, GooglePayload
    <2> QED  BY <2>1, <2>3
  <1>3. Len(AnthropicPayloads(given)) \in Nat
    <2> DEFINE N == Len(Joined(AnthropicParts(given)))
    <2>1. N \in Nat /\ Len(AnthropicPayloads(given)) = N + 3
      BY <1>1, AnthropicPayload, Zenon DEF Ringed
    <2> HIDE DEF N
    <2> QED  BY <2>1
  <1>4. Len(OpenAIPayloads(given)) \in Nat
    <2> DEFINE N == Len(Joined(OpenAIParts(given)))
    <2>1. N \in Nat /\ Len(OpenAIPayloads(given)) = N + 1
      BY <1>1, OpenAIPayload, Zenon DEF LastPut
    <2> HIDE DEF N
    <2> QED  BY <2>1
  <1> QED  BY <1>2, <1>3, <1>4, Zenon DEF PayloadsOf

-----------------------------------------------------------------------------
(* A stream between two reads, between two messages, and at its end.         *)

LEMMA PlaceBound ==
  ASSUME NEW dialect \in Dialects, NEW count \in Nat, NEW pos, pos <= Size(dialect) * count, NEW i, NEW place,
         Place(dialect, pos, i, place), NEW m \in Nat, NEW block, Shaped(dialect, i, place, m, block)
  PROVE  i <= count /\ m <= count
  <1>1. i \in Nat /\ place \in Nat /\ pos = Size(dialect) * (i - 1) + 1 + place
    BY DEF Place, Size
  <1>2. i <= count
    <2>1. CASE Size(dialect) = 3
      BY <1>1, <2>1
    <2>2. CASE Size(dialect) = 5
      BY <1>1, <2>2
    <2> QED  BY <2>1, <2>2 DEF Size
  <1>3. i \in {m, m + 1}
    BY <1>1, ShapeRemaining
  <1> QED  BY <1>1, <1>2, <1>3

\* The rest of a body has been read to a place, m messages of it have been parsed, and k of those
\* are mapped.
Cut(dialect, given, m, rest, kept) ==
    LET count == Len(PayloadsOf(dialect, given))
        W     == Wire(dialect, count)
    IN  \E pos \in 0 .. Len(W), i, place \in Nat :
          rest = SubSeq(W, pos + 1, Len(W)) /\ Place(dialect, pos, i, place) /\ Shaped(dialect, i, place, m, kept)
ReadingAt(dialect, given, k, m, rest, kept, waiting, d) ==
    /\ k \in 0 .. m /\ m \in 0 .. Len(PayloadsOf(dialect, given)) /\ waiting = Data(k, m)
    /\ Stage(dialect, given, k, d) /\ Cut(dialect, given, m, rest, kept)

LEMMA StreamStarts ==
  ASSUME NEW dialect \in Dialects, NEW given, Answers(dialect, given)
  PROVE  ReadingAt(dialect, given, 0, 0, Wire(dialect, Len(PayloadsOf(dialect, given))), << >>, << >>, NewDecoder)
  <1> DEFINE count == Len(PayloadsOf(dialect, given))
             W == Wire(dialect, count)
             place == Size(dialect) - 1
  <1>1. count \in Nat
    BY PayloadsCounted
  <1>2. W \in Seq(Tokens)
    BY <1>1, WireTyped
  <1>3. place \in Nat /\ place >= 2 /\ 0 = Size(dialect) * (0 - 1) + 1 + place /\ place \in 0 .. Size(dialect) - 1
    BY DEF Size
  <1> HIDE DEF place
  <1>4. Place(dialect, 0, 0, place) /\ Shaped(dialect, 0, place, 0, << >>)
    BY <1>3 DEF Place, Shaped, Passed
  <1> HIDE DEF W
  <1>5. W = SubSeq(W, 0 + 1, Len(W)) /\ 0 \in 0 .. Len(W)
    <2>1. 0 + 1 = 1 /\ SubSeq(W, 1, Len(W)) = W
      BY <1>2, SubSeqFull
    <2> QED  BY <1>2, <2>1
  <1>6. Cut(dialect, given, 0, W, << >>)
    BY <1>3, <1>4, <1>5, Zenon DEF Cut, W, count
  <1>7. Data(0, 0) = << >> /\ 0 \in 0 .. 0 /\ 0 \in 0 .. count
    BY <1>1 DEF Data
  <1>8. Stage(dialect, given, 0, NewDecoder)
    BY StageStarts
  <1> QED  BY <1>6, <1>7, <1>8, Zenon DEF ReadingAt, W, count

\* A read: k messages had been parsed and mapped, m are parsed then.
ReadOn(dialect, given, k, later, read, d) ==
    \E m \in Nat : /\ ReadingAt(dialect, given, k, m, later, read.buffer, read.messages, d)
                   /\ read.messages = << >> <=> m = k

Slice(s, m, n, slice) ==
    slice \in Seq(Tokens) /\ Len(slice) = n - m /\ \A i \in 1 .. n - m : slice[i] = s[m + i]

LEMMA SliceIs ==
  ASSUME NEW s \in Seq(Tokens), NEW m \in 0 .. Len(s), NEW n \in m .. Len(s), NEW slice, slice = SubSeq(s, m + 1, n)
  PROVE  Slice(s, m, n, slice)
  BY DEF Slice

CutAt(W, pos, n, chunk, later) ==
    /\ n \in 0 .. Len(W) - pos /\ pos + n \in 0 .. Len(W)
    /\ chunk = SubSeq(W, pos + 1, pos + n) /\ later = SubSeq(W, (pos + n) + 1, Len(W))

LEMMA CutFurther ==
  ASSUME NEW W \in Seq(Tokens), NEW pos \in 0 .. Len(W), NEW rest, rest = SubSeq(W, pos + 1, Len(W)), NEW n \in Nat, n <= Len(rest),
         NEW chunk, chunk = SubSeq(rest, 1, n), NEW later, later = SubSeq(rest, n + 1, Len(rest))
  PROVE  CutAt(W, pos, n, chunk, later)
  <1>1. Len(W) \in Nat /\ rest \in Seq(Tokens) /\ Len(rest) = Len(W) - pos /\ \A i \in 1 .. Len(W) - pos : rest[i] = W[pos + i]
    <2>1. Len(W) \in Nat /\ Len(W) \in pos .. Len(W)
      OBVIOUS
    <2>2. rest \in Seq(Tokens) /\ Len(rest) = Len(W) - pos /\ \A i \in 1 .. Len(W) - pos : rest[i] = W[pos + i]
      BY <2>1, SliceIs, Zenon DEF Slice
    <2> QED  BY <2>1, <2>2, Zenon
  <1>2. n \in 0 .. Len(W) - pos /\ pos + n \in 0 .. Len(W)
    BY <1>1
  <1> DEFINE all == Len(W)
             size == Len(rest)
             b == SubSeq(W, pos + 1, pos + n)
             c == SubSeq(W, (pos + n) + 1, Len(W))
             l == all - (pos + n)
  <1>3. chunk \in Seq(Tokens) /\ Len(chunk) = n /\ \A i \in 1 .. n : chunk[i] = rest[i]
    BY <1>1, <1>2
  <1>4. later \in Seq(Tokens) /\ Len(later) = l /\ \A i \in 1 .. l : later[i] = rest[n + i]
    <2>1. n \in 0 .. Len(rest) /\ Len(rest) \in n .. Len(rest) /\ Len(rest) - n = l
      BY <1>1, <1>2
    <2> HIDE DEF l
    <2>2. /\ later \in Seq(Tokens) /\ Len(later) = Len(rest) - n
          /\ \A i \in 1 .. Len(rest) - n : later[i] = rest[n + i]
      <3>1. Slice(rest, n, Len(rest), later)
        BY <1>1, <2>1, SliceIs, Zenon
      <3> QED  BY <3>1, Zenon DEF Slice
    <2> QED  BY <2>1, <2>2, Zenon
  <1>5. b \in Seq(Tokens) /\ Len(b) = n /\ \A i \in 1 .. n : b[i] = W[pos + i]
    <2>1. pos + n \in pos .. Len(W) /\ (pos + n) - pos = n
      BY <1>1, <1>2
    <2>2. Slice(W, pos, pos + n, b)
      BY <2>1, SliceIs, Zenon
    <2> HIDE DEF b
    <2> QED  BY <2>1, <2>2, Zenon DEF Slice
  <1>6. c \in Seq(Tokens) /\ Len(c) = l /\ \A i \in 1 .. l : c[i] = W[(pos + n) + i]
    <2>1. Len(W) \in pos + n .. Len(W)
      BY <1>1, <1>2
    <2> QED  BY <1>2, <2>1, SliceIs, Zenon DEF Slice
  <1> HIDE DEF b, c
  <1>7. chunk = b
    <2>1. \A i \in 1 .. n : i \in 1 .. Len(W) - pos
      BY <1>1, <1>2
    <2>2. \A i \in 1 .. n : chunk[i] = b[i]
      BY <1>1, <1>3, <1>5, <2>1, Zenon
    <2> QED  BY <1>3, <1>5, <2>2, SeqEqual
  <1>8. later = c
    <2>0. l \in Nat
      BY <1>1, <1>2
    <2>1. \A i \in 1 .. l : n + i \in 1 .. Len(W) - pos /\ pos + (n + i) = (pos + n) + i
      BY <1>1, <1>2
    <2> HIDE DEF l
    <2>2. \A i \in 1 .. l : later[i] = c[i]
      BY <1>1, <1>4, <1>6, <2>1, Zenon
    <2> QED  BY <1>4, <1>6, <2>0, <2>2, SeqEqual
  <1> QED  BY <1>2, <1>7, <1>8, Zenon DEF CutAt, b, c

\* A read from a place ends at a place, with the messages completed between pending.
LEMMA StreamReceives ==
  ASSUME NEW dialect \in Dialects, NEW given, Answers(dialect, given), NEW k \in Nat, NEW rest, NEW kept, NEW waiting, NEW d,
         ReadingAt(dialect, given, k, k, rest, kept, waiting, d), NEW n \in Nat, n <= Len(rest),
         NEW read, read = Received(kept, SubSeq(rest, 1, n)), NEW later, later = SubSeq(rest, n + 1, Len(rest))
  PROVE  ReadOn(dialect, given, k, later, read, d)
  <1> DEFINE count == Len(PayloadsOf(dialect, given))
             W == Wire(dialect, count)
             chunk == SubSeq(rest, 1, n)
  <1>1. count \in Nat /\ W \in Seq(Tokens) /\ Len(W) = Size(dialect) * count
    BY PayloadsCounted, WireTyped, WireSize
  <1>2. Stage(dialect, given, k, d)
    BY Zenon DEF ReadingAt
  <1>3. PICK pos \in 0 .. Len(W), i \in Nat, place \in Nat :
          rest = SubSeq(W, pos + 1, Len(W)) /\ Place(dialect, pos, i, place) /\ Shaped(dialect, i, place, k, kept)
    BY Zenon DEF ReadingAt, Cut
  <1>0. chunk = SubSeq(rest, 1, n) /\ W = Wire(dialect, count)
    OBVIOUS
  <1> HIDE DEF W, chunk, count
  <1>a. CutAt(W, pos, n, chunk, later)
    BY <1>0, <1>1, <1>3, CutFurther, Zenon
  <1>4. /\ n \in 0 .. Len(W) - pos /\ pos + n \in 0 .. Len(W)
        /\ chunk = SubSeq(W, pos + 1, pos + n) /\ later = SubSeq(W, (pos + n) + 1, Len(W))
    BY <1>a, Zenon DEF CutAt
  <1> DEFINE there == pos + n
  <1>b. there = pos + n /\ read = Received(kept, chunk)
    BY DEF chunk
  <1> HIDE DEF there
  <1>c. ReadStands(dialect, there, k, read)
    BY <1>0, <1>1, <1>3, <1>4, <1>b, ReceivedStands, Zenon
  <1>5. PICK next \in ScanTypes : Stands(dialect, pos + n, k, next) /\ next.messages = read.messages /\ next.block = read.buffer
    BY <1>b, <1>c, Zenon DEF ReadStands
  <1>6. next.messages = read.messages /\ next.block = read.buffer
    BY <1>5, Zenon
  <1>7. PICK j \in Nat, spot \in Nat, m \in Nat :
          /\ Place(dialect, pos + n, j, spot) /\ Shaped(dialect, j, spot, m, next.block)
          /\ k <= m /\ next.messages = Data(k, m)
    BY <1>5, Zenon DEF Stands
  <1>8. m <= count
    <2>1. pos + n <= Size(dialect) * count
      BY <1>1, <1>4
    <2> QED  BY <1>1, <1>7, <2>1, PlaceBound, Zenon
  <1>9. k \in 0 .. m /\ m \in 0 .. count
    BY <1>1, <1>7, <1>8
  <1>10. Cut(dialect, given, m, later, read.buffer)
    BY <1>4, <1>6, <1>7, Zenon DEF Cut, W, count
  <1>11. read.messages = << >> <=> m = k
    <2>1. Data(k, m) = << >> <=> m = k
      BY <1>7, SMTT(30) DEF Data
    <2> QED  BY <1>6, <1>7, <2>1, Zenon
  <1> QED  BY <1>2, <1>6, <1>7, <1>9, <1>10, <1>11, Zenon DEF ReadOn, ReadingAt, count

-----------------------------------------------------------------------------
LEMMA DataHead ==
  ASSUME NEW k \in Nat, NEW m \in Nat, k < m
  PROVE  /\ Head(Data(k, m)) = <<Line(k + 1)>> /\ Tail(Data(k, m)) = Data(k + 1, m)
         /\ Tail(Data(k, m)) = << >> <=> k + 1 = m
  <1> DEFINE message(i) == <<Line(i)>>
             s == [i \in 1 .. m - k |-> message(k + i)]
             t == [i \in 1 .. m - (k + 1) |-> message((k + 1) + i)]
  <1>1. s = Data(k, m) /\ t = Data(k + 1, m) /\ message(k + 1) = <<Line(k + 1)>>
    BY DEF Data
  <1>2. \A i \in Nat : message(i) \in Seq(Tokens)
    BY DEF Line, Token, Tokens
  <1> HIDE DEF message
  <1>3. s \in Seq(Seq(Tokens)) /\ t \in Seq(Seq(Tokens)) /\ Len(s) = m - k /\ Len(t) = m - (k + 1)
    BY <1>2
  <1>4. s # << >> /\ Head(s) = message(k + 1)
    <2>1. 1 \in 1 .. m - k /\ m - k # 0
      OBVIOUS
    <2>2. s[1] = message(k + 1)
      BY <2>1
    <2> HIDE DEF s
    <2> QED  BY <1>3, <2>1, <2>2
  <1>5. (\A i \in 1 .. Len(t) : t[i] = s[i + 1]) /\ Len(t) = Len(s) - 1
    <2>1. \A i \in 1 .. m - (k + 1) : i + 1 \in 1 .. m - k /\ k + (i + 1) = (k + 1) + i
      OBVIOUS
    <2>2. \A i \in 1 .. m - (k + 1) : s[i + 1] = message(k + (i + 1)) /\ t[i] = message((k + 1) + i)
      BY <2>1
    <2> QED  BY <1>3, <2>1, <2>2
  <1> HIDE DEF s, t
  <1>6. Tail(s) = t
    <2>1. Tail(s) \in Seq(Seq(Tokens)) /\ Len(Tail(s)) = Len(s) - 1 /\ \A i \in 1 .. Len(s) - 1 : Tail(s)[i] = s[i + 1]
      BY <1>3, <1>4
    <2> QED  BY <1>3, <1>5, <2>1, SeqEqual
  <1>7. t = << >> <=> k + 1 = m
    BY <1>3, EmptySeq
  <1> QED  BY <1>1, <1>4, <1>6, <1>7

MappedOn(dialect, given, k, m, rest, kept, left, next) ==
    /\ ~ next.failed /\ ReadingAt(dialect, given, k + 1, m, rest, kept, left, next)
    /\ left = << >> <=> k + 1 = m

\* A message mapped is the next payload, and moves the stage.
LEMMA StreamMaps ==
  ASSUME NEW dialect \in Dialects, NEW given, Answers(dialect, given), NEW k \in Nat, NEW m \in Nat, k # m,
         NEW rest, NEW kept, NEW waiting, NEW d, ReadingAt(dialect, given, k, m, rest, kept, waiting, d),
         NEW next, next = Mapped(dialect, d, PayloadsOf(dialect, given)[Head(waiting)[1].v]),
         NEW left, left = Tail(waiting)
  PROVE  MappedOn(dialect, given, k, m, rest, kept, left, next)
  <1> DEFINE count == Len(PayloadsOf(dialect, given))
  <1>1. count \in Nat
    BY PayloadsCounted
  <1>2. k \in 0 .. m /\ m \in 0 .. count /\ waiting = Data(k, m) /\ Stage(dialect, given, k, d) /\ Cut(dialect, given, m, rest, kept)
    BY Zenon DEF ReadingAt
  <1>3. k < m /\ k \in 0 .. count - 1 /\ k + 1 \in 0 .. m
    BY <1>1, <1>2
  <1>4. Head(waiting) = <<Line(k + 1)>> /\ left = Data(k + 1, m) /\ (left = << >> <=> k + 1 = m)
    BY <1>2, <1>3, DataHead, Zenon
  <1>5. Head(waiting)[1].v = k + 1
    BY <1>4 DEF Line, Token
  <1>6. StagedNext(dialect, given, k + 1, next)
    BY <1>2, <1>3, <1>5, StageGoesOn, Zenon
  <1> QED  BY <1>2, <1>3, <1>4, <1>6, Zenon DEF MappedOn, ReadingAt, StagedNext

-----------------------------------------------------------------------------
(* The end of a body.                                                        *)
FlushingAt(dialect, given, k, waiting, d) ==
    /\ k \in 0 .. Len(PayloadsOf(dialect, given)) /\ Stage(dialect, given, k, d)
    /\ \E message : /\ waiting = <<message>>
                    /\ \/ k # Len(PayloadsOf(dialect, given)) /\ message = <<Line(k + 1)>>
                       \/ ~ ParsesJson(message)
TextsAt(rest, kept) ==
    {kept} \cup IF rest # << >> /\ rest[1].k = "data" THEN {Append(kept, Token("torn", rest[1].v))} ELSE {}

\* A body that ends leaves the payload of the line it ended in, or none.
LEMMA StreamEnds ==
  ASSUME NEW dialect \in Dialects, NEW given, Answers(dialect, given), NEW k \in Nat, NEW rest, NEW kept, NEW waiting, NEW d,
         ReadingAt(dialect, given, k, k, rest, kept, waiting, d), NEW text \in TextsAt(rest, kept)
  PROVE  Remaining(text) = << >> \/ FlushingAt(dialect, given, k, Remaining(text), d)
  <1> DEFINE count == Len(PayloadsOf(dialect, given))
             W == Wire(dialect, count)
  <1>1. count \in Nat /\ W \in Seq(Tokens) /\ Len(W) = Size(dialect) * count
    BY PayloadsCounted, WireTyped, WireSize
  <1>2. Stage(dialect, given, k, d) /\ k \in 0 .. count
    BY Zenon DEF ReadingAt
  <1>3. PICK pos \in 0 .. Len(W), i \in Nat, place \in Nat :
          rest = SubSeq(W, pos + 1, Len(W)) /\ Place(dialect, pos, i, place) /\ Shaped(dialect, i, place, k, kept)
    BY Zenon DEF ReadingAt, Cut
  <1> HIDE DEF W, count
  <1>4. CASE text = kept
    <2>1. /\ i \in {k, k + 1}
          /\ i = k => Remaining(kept) = << >>
          /\ i # k => Remaining(kept) = <<<<Line(k + 1)>>>>
      BY <1>3, ShapeRemaining
    <2>2. i # k => k # count
      <3>1. i <= count
        <4>1. pos <= Size(dialect) * count
          BY <1>1
        <4> QED  BY <1>1, <1>3, <4>1, PlaceBound, Zenon
      <3> QED  BY <1>1, <2>1, <3>1
    <2> QED  BY <1>2, <1>4, <2>1, <2>2, Zenon DEF FlushingAt, count
  <1>5. CASE text # kept
    <2>1. rest # << >> /\ rest[1].k = "data" /\ text = Append(kept, Token("torn", rest[1].v))
      BY <1>5, Zenon DEF TextsAt
    <2>2. pos \in 0 .. Len(W) - 1 /\ rest[1] = W[pos + 1] /\ rest[1] \in Tokens
      BY <1>1, <1>3, <2>1
    <2>3. NextToken(dialect, count, i, place, rest[1])
      BY <1>1, <1>3, <2>2, WireToken, Zenon DEF W
    <2>4. place = Size(dialect) - 1
      <3>1. place \in 0 .. Size(dialect) - 1
        BY <1>3, Zenon DEF Place
      <3>2. ~ (place < Size(dialect) - 1)
        BY <2>1, <2>3 DEF NextToken, CR, LF, Token
      <3>3. Size(dialect) \in Nat
        BY DEF Size
      <3> QED  BY <3>1, <3>2, <3>3
    <2>5. rest[1].v \in Nat
      BY <2>2 DEF Tokens
    <2>6. Remaining(text) = <<<<Token("torn", rest[1].v)>>>>
      <3> DEFINE v == rest[1].v
      <3>1. v \in Nat /\ text = Append(kept, Token("torn", v))
        BY <2>1, <2>5
      <3> HIDE DEF v
      <3>2. Remaining(Append(kept, Token("torn", v))) = <<<<Token("torn", v)>>>>
        BY <1>3, <2>4, <3>1, TornRemaining
      <3> QED  BY <3>1, <3>2, Zenon DEF v
    <2>7. ~ ParsesJson(<<Token("torn", rest[1].v)>>)
      BY DEF ParsesJson, Token
    <2> QED  BY <1>2, <2>6, <2>7, Zenon DEF FlushingAt, count
  <1> QED  BY <1>4, <1>5

FlushedOn(dialect, given, k, left, next) ==
    /\ ~ next.failed /\ Stage(dialect, given, k + 1, next) /\ k + 1 \in 0 .. Len(PayloadsOf(dialect, given))
    /\ left = << >>

\* What was left at the end of the body is mapped like any other message, if it parses.
LEMMA StreamFlushes ==
  ASSUME NEW dialect \in Dialects, NEW given, Answers(dialect, given), NEW k \in Nat, NEW waiting, NEW d,
         FlushingAt(dialect, given, k, waiting, d), ParsesJson(Head(waiting)),
         NEW next, next = Mapped(dialect, d, PayloadsOf(dialect, given)[Head(waiting)[1].v]),
         NEW left, left = Tail(waiting)
  PROVE  FlushedOn(dialect, given, k, left, next)
  <1> DEFINE count == Len(PayloadsOf(dialect, given))
  <1>1. count \in Nat
    BY PayloadsCounted
  <1>2. k \in 0 .. count /\ Stage(dialect, given, k, d)
    BY Zenon DEF FlushingAt
  <1>3. PICK message : /\ waiting = <<message>>
                            /\ ((k # count /\ message = <<Line(k + 1)>>) \/ ~ ParsesJson(message))
    BY Zenon DEF FlushingAt, count
  <1>4. Head(waiting) = message /\ left = << >>
    BY <1>3
  <1>5. k # count /\ message = <<Line(k + 1)>>
    BY <1>3, <1>4, Zenon
  <1>6. Head(waiting)[1].v = k + 1
    BY <1>4, <1>5 DEF Line, Token
  <1>7. k \in 0 .. count - 1 /\ k + 1 \in 0 .. count
    BY <1>1, <1>2, <1>5
  <1>8. StagedNext(dialect, given, k + 1, next)
    BY <1>2, <1>6, <1>7, StageGoesOn, Zenon
  <1> QED  BY <1>4, <1>7, <1>8, Zenon DEF FlushedOn, StagedNext

-----------------------------------------------------------------------------
(* The invariant of a stream, action by action.                              *)

\* Where the stream of a turn is, in each phase of it.
Unanswered == {"idle", "fetching", "sleeping"}
Reading == {"reading", "yielding", "flushing", "finishing"}
Unread == decoder = NewDecoder /\ buffer = << >> /\ pending = << >>
Answering == Dialect \in Dialects /\ response \in Responses[Dialect]
AtRead == \E k \in Nat : ReadingAt(Dialect, response, k, k, wire, buffer, pending, decoder)
AtYield == \E k, m \in Nat : k # m /\ ReadingAt(Dialect, response, k, m, wire, buffer, pending, decoder)
AtFlush == \E k \in Nat : FlushingAt(Dialect, response, k, pending, decoder)
AtFinish == \E k \in 0 .. Len(PayloadsOf(Dialect, response)) : Stage(Dialect, response, k, decoder)
AtAnswer == response \in Responses[Dialect] /\ DecodedAsWhole
StreamInv ==
    /\ phase \in Unanswered \cup Reading \cup {"ended"}
    /\ phase \in Unanswered => Unread
    /\ phase \in Reading => Answering
    /\ phase = "reading" => AtRead
    /\ phase = "yielding" => AtYield
    /\ phase = "flushing" => AtFlush
    /\ phase = "finishing" => AtFinish
    /\ phase = "ended" => AtAnswer

LEMMA StreamInvStart == Init => StreamInv
  <1> SUFFICES ASSUME Init  PROVE  StreamInv
    OBVIOUS
  <1>1. phase = "idle" /\ Unread
    BY DEF Init, Unread
  <1> QED  BY <1>1 DEF StreamInv, Unanswered, Reading

LEMMA OverStream == ASSUME Over  PROVE  StreamInv'
  <1>1. phase' = "idle" /\ Unread'
    BY DEF Over, Unread
  <1> QED  BY <1>1 DEF StreamInv, Unanswered, Reading

\* A step that changes nothing of the stream, nor what it answers.
Quiet == UNCHANGED <<sent, response, wire, buffer, pending, decoder>>

LEMMA QuietStream ==
  ASSUME StreamInv, Quiet, phase' = phase  PROVE  StreamInv'
  <1>1. sent' = sent /\ response' = response /\ wire' = wire /\ buffer' = buffer /\ pending' = pending /\ decoder' = decoder
    BY DEF Quiet
  <1>2. Dialect' = Dialect /\ Provider' = Provider
    BY <1>1 DEF Dialect, Provider
  <1>3. Unread' = Unread
    BY <1>1 DEF Unread
  <1>4. Answering' = Answering
    BY <1>1, <1>2 DEF Answering
  <1>5. AtRead' = AtRead
    BY <1>1, <1>2 DEF AtRead
  <1>6. AtYield' = AtYield
    BY <1>1, <1>2 DEF AtYield
  <1>7. AtFlush' = AtFlush
    BY <1>1, <1>2 DEF AtFlush
  <1>8. AtFinish' = AtFinish
    BY <1>1, <1>2 DEF AtFinish
  <1>9. AtAnswer' = AtAnswer
    BY <1>1, <1>2 DEF AtAnswer, DecodedAsWhole, Answered
  <1> QED  BY <1>3, <1>4, <1>5, <1>6, <1>7, <1>8, <1>9 DEF StreamInv

LEMMA FetchesStream ==
  ASSUME StreamInv, FetchStreams  PROVE  StreamInv'
  <1>1. PICK given \in Responses[Dialect] : response' = given /\ wire' = Wire(Dialect, Len(PayloadsOf(Dialect, given)))
    BY DEF FetchStreams
  <1>2. Dialect' = Dialect /\ Dialect \in Dialects
    BY DEF FetchStreams, Kept, Dialect, Provider, Streams, Dialects
  <1>3. phase' = "reading" /\ buffer' = << >> /\ pending' = << >> /\ decoder' = NewDecoder
    BY DEF FetchStreams, StreamInv, Unanswered, Unread
  <1>4. Answers(Dialect, given)
    BY <1>1, <1>2, ResponsesAssumption, Zenon
  <1>5. ReadingAt(Dialect, given, 0, 0, wire', << >>, << >>, NewDecoder)
    BY <1>1, <1>2, <1>4, StreamStarts, Zenon
  <1>6. AtRead'
    BY <1>1, <1>2, <1>3, <1>5 DEF AtRead
  <1>7. Answering'
    BY <1>1, <1>2 DEF Answering
  <1> QED  BY <1>3, <1>6, <1>7 DEF StreamInv, Unanswered, Reading

LEMMA FetchesWhole ==
  ASSUME StreamInv, FetchWhole  PROVE  StreamInv'
  <1>1. PICK given \in Responses[Dialect] :
          response' = given /\ decoder' = [NewDecoder EXCEPT !.answer = WholeAnswer(Dialect, given)]
    BY DEF FetchWhole
  <1>2. Dialect' = Dialect
    BY DEF FetchWhole, Kept, Dialect, Provider
  <1>3. decoder'.answer = WholeAnswer(Dialect, given)
    BY <1>1 DEF NewDecoder
  <1>4. AtAnswer'
    BY <1>1, <1>2, <1>3 DEF AtAnswer, DecodedAsWhole
  <1>5. phase' = "ended"
    BY DEF FetchWhole
  <1> QED  BY <1>4, <1>5 DEF StreamInv, Unanswered, Reading

LEMMA ReceivesStream ==
  ASSUME StreamInv, NEW n \in 1 .. MaxChunk, Receive(n)  PROVE  StreamInv'
  <1> DEFINE read == Received(buffer, SubSeq(wire, 1, n))
             later == SubSeq(wire, n + 1, Len(wire))
  <1>1. /\ phase = "reading" /\ n <= Len(wire) /\ buffer' = read.buffer /\ pending' = read.messages /\ wire' = later
        /\ phase' = IF read.messages = << >> THEN "reading" ELSE "yielding"
    BY DEF Receive
  <1>2. UNCHANGED <<sent, response, decoder>>
    BY DEF Receive
  <1>3. Dialect' = Dialect
    BY <1>2 DEF Dialect, Provider
  <1>4. Answering /\ AtRead
    BY <1>1 DEF StreamInv, Reading
  <1>5. Answers(Dialect, response) /\ Dialect \in Dialects
    BY <1>4, ResponsesAssumption, Zenon DEF Answering
  <1>6. PICK k \in Nat : ReadingAt(Dialect, response, k, k, wire, buffer, pending, decoder)
    BY <1>4, Zenon DEF AtRead
  <1>7. n \in Nat
    OBVIOUS
  <1>8. read = Received(buffer, SubSeq(wire, 1, n)) /\ later = SubSeq(wire, n + 1, Len(wire))
    OBVIOUS
  <1> HIDE DEF read, later
  <1>9. ReadOn(Dialect, response, k, later, read, decoder)
    BY <1>1, <1>5, <1>6, <1>7, <1>8, StreamReceives, Zenon
  <1>10. PICK m \in Nat : /\ ReadingAt(Dialect, response, k, m, later, read.buffer, read.messages, decoder)
                          /\ read.messages = << >> <=> m = k
    BY <1>9, Zenon DEF ReadOn
  <1>11. ReadingAt(Dialect', response', k, m, wire', buffer', pending', decoder')
    BY <1>1, <1>2, <1>3, <1>10, Zenon
  <1>12. Answering'
    BY <1>2, <1>3, <1>4 DEF Answering
  <1>13. CASE m = k
    <2>1. AtRead' /\ phase' = "reading"
      BY <1>1, <1>10, <1>11, <1>13 DEF AtRead
    <2> QED  BY <1>12, <2>1 DEF StreamInv, Unanswered, Reading
  <1>14. CASE m # k
    <2>1. AtYield' /\ phase' = "yielding"
      BY <1>1, <1>10, <1>11, <1>14 DEF AtYield
    <2> QED  BY <1>12, <2>1 DEF StreamInv, Unanswered, Reading
  <1> QED  BY <1>13, <1>14

LEMMA EndsStream ==
  ASSUME StreamInv, BodyEnds  PROVE  StreamInv'
  <1>1. PICK text \in LastTexts :
          pending' = Remaining(text) /\ phase' = IF Remaining(text) = << >> THEN "finishing" ELSE "flushing"
    BY DEF BodyEnds
  <1>2. UNCHANGED <<sent, response, decoder>> /\ phase = "reading"
    BY DEF BodyEnds
  <1>3. Dialect' = Dialect
    BY <1>2 DEF Dialect, Provider
  <1>4. Answering /\ AtRead
    BY <1>2 DEF StreamInv, Reading
  <1>5. Answers(Dialect, response) /\ Dialect \in Dialects
    BY <1>4, ResponsesAssumption, Zenon DEF Answering
  <1>6. PICK k \in Nat : ReadingAt(Dialect, response, k, k, wire, buffer, pending, decoder)
    BY <1>4, Zenon DEF AtRead
  <1>7. text \in TextsAt(wire, buffer)
    BY <1>1 DEF LastTexts, TextsAt
  <1>8. Remaining(text) = << >> \/ FlushingAt(Dialect, response, k, Remaining(text), decoder)
    BY <1>5, <1>6, <1>7, StreamEnds, Zenon
  <1>9. Answering'
    BY <1>2, <1>3, <1>4 DEF Answering
  <1>10. CASE Remaining(text) = << >>
    <2>1. Stage(Dialect, response, k, decoder) /\ k \in 0 .. Len(PayloadsOf(Dialect, response))
      BY <1>6, Zenon DEF ReadingAt
    <2>2. AtFinish' /\ phase' = "finishing"
      BY <1>1, <1>2, <1>3, <1>10, <2>1 DEF AtFinish
    <2> QED  BY <1>9, <2>2 DEF StreamInv, Unanswered, Reading
  <1>11. CASE Remaining(text) # << >>
    <2>1. AtFlush' /\ phase' = "flushing"
      BY <1>1, <1>2, <1>3, <1>8, <1>11 DEF AtFlush
    <2> QED  BY <1>9, <2>1 DEF StreamInv, Unanswered, Reading
  <1> QED  BY <1>10, <1>11

LEMMA MapsStream ==
  ASSUME StreamInv, MapNext  PROVE  StreamInv'
  <1> DEFINE message == Head(pending)
             mapped == Mapped(Dialect, decoder, Payload(message))
             left == Tail(pending)
  <1>1. phase \in {"yielding", "flushing"}
    BY DEF MapNext
  <1>2. CASE Over
    BY <1>2, OverStream
  <1>3. CASE ~ Over
    <2>1. /\ ParsesJson(message) /\ decoder' = mapped /\ pending' = left
          /\ phase' = IF left = << >> THEN AfterLast ELSE phase
          /\ UNCHANGED <<sent, response, wire, buffer>>
      BY <1>3, Zenon DEF MapNext, Fail
    <2>2. Dialect' = Dialect
      BY <2>1 DEF Dialect, Provider
    <2>3. Answering
      BY <1>1 DEF StreamInv, Reading
    <2>4. Answers(Dialect, response) /\ Dialect \in Dialects
      BY <2>3, ResponsesAssumption, Zenon DEF Answering
    <2>5. Answering'
      BY <2>1, <2>2, <2>3 DEF Answering
    <2>6. mapped = Mapped(Dialect, decoder, PayloadsOf(Dialect, response)[Head(pending)[1].v]) /\ left = Tail(pending)
      BY DEF Payload
    <2>7. ParsesJson(Head(pending))
      BY <2>1
    <2> HIDE DEF mapped, left, message
    <2>8. CASE phase = "yielding"
      <3>1. PICK k \in Nat, m \in Nat : k # m /\ ReadingAt(Dialect, response, k, m, wire, buffer, pending, decoder)
        BY <2>8, Zenon DEF StreamInv, AtYield
      <3>2. MappedOn(Dialect, response, k, m, wire, buffer, left, mapped)
        BY <2>4, <2>6, <3>1, StreamMaps, Zenon
      <3>3. ReadingAt(Dialect, response, k + 1, m, wire, buffer, left, mapped) /\ (left = << >> <=> k + 1 = m)
        BY <3>2, Zenon DEF MappedOn
      <3>4. k + 1 \in Nat
        OBVIOUS
      <3>5. CASE left = << >>
        <4>1. phase' = "reading"
          BY <2>1, <2>8, <3>5 DEF AfterLast
        <4>2. AtRead'
          BY <2>1, <2>2, <3>3, <3>4, <3>5 DEF AtRead
        <4> QED  BY <2>5, <4>1, <4>2 DEF StreamInv, Unanswered, Reading
      <3>6. CASE left # << >>
        <4>1. phase' = "yielding"
          BY <2>1, <2>8, <3>6
        <4>2. AtYield'
          BY <2>1, <2>2, <3>3, <3>4, <3>6 DEF AtYield
        <4> QED  BY <2>5, <4>1, <4>2 DEF StreamInv, Unanswered, Reading
      <3> QED  BY <3>5, <3>6
    <2>9. CASE phase = "flushing"
      <3>1. PICK k \in Nat : FlushingAt(Dialect, response, k, pending, decoder)
        BY <2>9, Zenon DEF StreamInv, AtFlush
      <3>2. FlushedOn(Dialect, response, k, left, mapped)
        BY <2>4, <2>6, <2>7, <3>1, StreamFlushes, Zenon
      <3>3. Stage(Dialect, response, k + 1, mapped) /\ k + 1 \in 0 .. Len(PayloadsOf(Dialect, response)) /\ left = << >>
        BY <3>2, Zenon DEF FlushedOn
      <3>4. phase' = "finishing"
        BY <2>1, <2>9, <3>3 DEF AfterLast
      <3>5. AtFinish'
        BY <2>1, <2>2, <3>3 DEF AtFinish
      <3> QED  BY <2>5, <3>4, <3>5 DEF StreamInv, Unanswered, Reading
    <2> QED  BY <1>1, <2>8, <2>9
  <1> QED  BY <1>2, <1>3

LEMMA FinishesStream ==
  ASSUME StreamInv, Finish  PROVE  StreamInv'
  <1>1. /\ phase = "finishing" /\ phase' = "ended" /\ sent' = sent /\ response' = response
        /\ decoder' = IF Provider = "google" THEN [decoder EXCEPT !.answer = GeminiComplete(decoder)] ELSE decoder
    BY DEF Finish
  <1>2. Dialect' = Dialect /\ Provider' = Provider /\ (Dialect = "google" <=> Provider = "google")
    BY <1>1 DEF Dialect, Provider
  <1>3. Answering /\ AtFinish
    BY <1>1 DEF StreamInv, Reading
  <1>4. Answers(Dialect, response) /\ Dialect \in Dialects
    BY <1>3, ResponsesAssumption, Zenon DEF Answering
  <1>5. PICK k \in 0 .. Len(PayloadsOf(Dialect, response)) : Stage(Dialect, response, k, decoder)
    BY <1>3, Zenon DEF AtFinish
  <1>6. IF Dialect = "google"
        THEN GeminiComplete(decoder).finish # "none" => GeminiComplete(decoder) = WholeAnswer(Dialect, response)
        ELSE decoder.answer.done => decoder.answer = WholeAnswer(Dialect, response)
    BY <1>4, <1>5, StageEnds, Zenon
  <1>7. DecodedAsWhole'
    <2>1. CASE Provider = "google"
      <3>1. "answer" \in DOMAIN decoder
        <4>1. GeminiStage(response, k, decoder)
          BY <1>2, <1>5, <2>1, Zenon DEF Stage
        <4>2. IsDecoder(decoder)
          BY <4>1, Zenon DEF GeminiStage, Alike
        <4> QED  BY <4>2 DEF IsDecoder
      <3>2. decoder'.answer = GeminiComplete(decoder)
        BY <1>1, <2>1, <3>1
      <3> QED  BY <1>1, <1>2, <1>6, <2>1, <3>2 DEF DecodedAsWhole, Answered
    <2>2. CASE Provider # "google"
      <3>1. decoder' = decoder
        BY <1>1, <2>2
      <3> QED  BY <1>1, <1>2, <1>6, <2>2, <3>1 DEF DecodedAsWhole, Answered
    <2> QED  BY <2>1, <2>2
  <1>8. AtAnswer'
    BY <1>1, <1>2, <1>3, <1>7 DEF AtAnswer, Answering
  <1> QED  BY <1>1, <1>8 DEF StreamInv, Unanswered, Reading

LEMMA UnansweredStream ==
  ASSUME StreamInv, phase \in Unanswered, phase' \in Unanswered, UNCHANGED <<buffer, pending, decoder>>  PROVE  StreamInv'
  <1>1. Unread'
    BY DEF StreamInv, Unread
  <1> QED  BY <1>1 DEF StreamInv, Unanswered, Reading

\* StreamInv is inductive: one case per action.
LEMMA NextStream == StreamInv /\ [Next]_vars => StreamInv'
  <1> SUFFICES ASSUME StreamInv, [Next]_vars  PROVE  StreamInv'
    OBVIOUS
  <1>1. ASSUME NEW call \in Asked, Ask(call)  PROVE  StreamInv'
    <2>1. CASE Over
      BY <2>1, OverStream
    <2>2. CASE ~ Over
      BY <1>1, <2>2, UnansweredStream DEF Ask, Dispatch, Fail, Unanswered
    <2> QED  BY <2>1, <2>2
  <1>2. ASSUME Retry, phase = "fetching"  PROVE  StreamInv'
    BY <1>2, UnansweredStream DEF Retry, Unanswered
  <1>3. CASE FetchRejects
    BY <1>2, <1>3, OverStream DEF FetchRejects, Fail
  <1>4. ASSUME NEW retryable \in BOOLEAN, FetchRefused(retryable)  PROVE  StreamInv'
    BY <1>2, <1>4, OverStream DEF FetchRefused, Fail
  <1>5. CASE Wake
    BY <1>5, UnansweredStream DEF Wake, Unanswered
  <1>6. CASE FetchStreams
    BY <1>6, FetchesStream
  <1>7. CASE FetchWhole
    BY <1>7, FetchesWhole
  <1>8. ASSUME NEW n \in 1 .. MaxChunk, Receive(n)  PROVE  StreamInv'
    BY <1>8, ReceivesStream, Zenon
  <1>9. CASE BodyEnds
    BY <1>9, EndsStream
  <1>10. CASE BodyFails
    BY <1>10, OverStream DEF BodyFails, Fail
  <1>11. CASE MapNext
    BY <1>11, MapsStream
  <1>12. CASE Finish
    BY <1>12, FinishesStream
  <1>13. CASE Leave
    BY <1>13, OverStream DEF Leave, Fail
  <1>14. CASE Return
    BY <1>14, OverStream DEF Return
  <1>15. CASE TimerFires \/ CallerAborts
    <2>1. Quiet /\ phase' = phase
      BY <1>15 DEF TimerFires, CallerAborts, Abort, Quiet
    <2> QED  BY <2>1, QuietStream
  <1>16. CASE UNCHANGED vars
    <2>1. Quiet /\ phase' = phase
      BY <1>16 DEF vars, turnVars, Quiet
    <2> QED  BY <2>1, QuietStream
  <1> QED
    BY <1>1, <1>3, <1>4, <1>5, <1>6, <1>7, <1>8, <1>9, <1>10, <1>11, <1>12, <1>13, <1>14, <1>15, <1>16, Zenon DEF Next

\* However it is read, a stream stays at a place where what was mapped is a number of its payloads.
LEMMA StreamKept == Spec => []StreamInv
  <1> QED  BY StreamInvStart, NextStream, PTL DEF Spec

\* However a response of any number of blocks and pieces is cut into reads, and wherever its body
\* ends, what decodeSSE() and the mapper of its dialect answer, if they answer, is what the response
\* says when it comes whole.
THEOREM AnswersDecodedAsWhole == Spec => []DecodedAsWhole
  <1>1. StreamInv => DecodedAsWhole
    BY DEF StreamInv, AtAnswer, DecodedAsWhole, Answered
  <1> QED  BY <1>1, StreamKept, PTL

-----------------------------------------------------------------------------
(* Prices.                                                                   *)

\* A row of the tables has a price for every token that is priced apart.
RateTypes == [input : Nat, output : Nat, cache_read : Nat, cached_input : Nat \cup {NoRate}, cache_creation : Nat]
Whole(table) == \A model \in DOMAIN table : table[model] \in RateTypes

LEMMA WholeOver ==
  ASSUME NEW f, Whole(f), NEW g, Whole(g)  PROVE  Whole(f ++ g)
  <1> SUFFICES ASSUME NEW model \in DOMAIN (f ++ g)  PROVE  (f ++ g)[model] \in RateTypes
    BY DEF Whole
  <1>1. model \in DOMAIN f \cup DOMAIN g /\ (f ++ g)[model] = IF model \in DOMAIN f THEN f[model] ELSE g[model]
    BY DEF ++
  <1> QED  BY <1>1, Zenon DEF Whole

LEMMA WholeSingle ==
  ASSUME NEW model, NEW rates \in RateTypes  PROVE  Whole(Single(model, rates))
  BY DEF Whole, Single

LEMMA EntryTyped ==
  ASSUME NEW input \in Nat, NEW output \in Nat, NEW read \in Nat, NEW cached \in Nat \cup {NoRate}, NEW created \in Nat \cup {NoRate}
  PROVE  Entry(<<input, output, read, cached>>, created) \in RateTypes
  BY DEF Entry, Rates, RateTypes

LEMMA PlainEntry ==
  ASSUME NEW input \in Nat, NEW output \in Nat, NEW read \in Nat
  PROVE  Entry(<<input, output, read, read>>, NoRate) \in RateTypes
  BY EntryTyped

LEMMA PlainRow ==
  ASSUME NEW input \in Nat, NEW output \in Nat, NEW read \in Nat, NEW model
  PROVE  Whole(Single(model, Entry(<<input, output, read, read>>, NoRate)))
  BY PlainEntry, WholeSingle

LEMMA AnthropicRowTyped ==
  ASSUME NEW input \in Nat, NEW output \in Nat, NEW read \in Nat  PROVE  AnthropicRow(input, output, read) \in RateTypes
  <1>1. Fifth(input) \in Nat
    BY DEF Fifth
  <1> QED  BY <1>1, EntryTyped DEF AnthropicRow

LEMMA AliasesWhole ==
  ASSUME NEW models, NEW input \in Nat, NEW output \in Nat  PROVE  Whole(AliasPricing(models, input, output))
  <1>1. Tenth(input) \in Nat
    BY DEF Tenth
  <1> QED  BY <1>1, AnthropicRowTyped DEF AliasPricing, Whole

LEMMA OpenAIWhole == Whole(OpenAIPricing)
  <1> DEFINE models == {"gpt-6-astra", "gpt-5.6-sol", "gpt-5.6-terra", "gpt-5.6-luna"}
             row(model) == CASE model = "gpt-6-astra"   -> <<10000, 50000>>
                             [] model = "gpt-5.6-sol"   -> <<4000, 20000>>
                             [] model = "gpt-5.6-terra" -> <<2000, 12000>>
                             [] model = "gpt-5.6-luna"  -> <<200, 1200>>
             family == [model \in models |-> Entry(<<row(model)[1], row(model)[2], Tenth(row(model)[1]), Tenth(row(model)[1])>>,
                                                   Fifth(row(model)[1]))]
             a == Single("gpt-5.5", Entry(<<5000, 30000, 500, 500>>, NoRate))
             b == Single("gpt-5.4", Entry(<<2500, 15000, 250, 250>>, NoRate))
             c == Single("gpt-5.4-mini", Entry(<<750, 4500, 75, 75>>, NoRate))
  <1>1. Whole(family)
    <2>1. \A n \in Nat : Tenth(n) \in Nat /\ Fifth(n) \in Nat
      BY DEF Tenth, Fifth
    <2>2. \A model \in models : row(model)[1] \in Nat /\ row(model)[2] \in Nat
      OBVIOUS
    <2> HIDE DEF row
    <2>3. \A model \in models : Entry(<<row(model)[1], row(model)[2], Tenth(row(model)[1]), Tenth(row(model)[1])>>,
                                      Fifth(row(model)[1])) \in RateTypes
      BY <2>1, <2>2, EntryTyped
    <2> QED  BY <2>3, Zenon DEF Whole
  <1>2. Whole(a) /\ Whole(b) /\ Whole(c)
    BY PlainRow, SMTT(30)
  <1>3. OpenAIPricing = ((family ++ a) ++ b) ++ c
    BY SMT DEF OpenAIPricing
  <1> HIDE DEF family, a, b, c
  <1> QED  BY <1>1, <1>2, <1>3, WholeOver, Zenon

LEMMA GoogleWhole == Whole(GooglePricing)
  <1> DEFINE a == Single("gemini-3-flash-preview", Entry(<<500, 3000, 50, 50>>, NoRate))
             b == Single("gemini-2.5-pro", Entry(<<1250, 10000, 125, 125>>, NoRate))
             c == Single("gemini-2.5-flash", Entry(<<300, 2500, 30, 30>>, NoRate))
             d == Single("gemini-2.5-flash-lite", Entry(<<100, 400, 10, 10>>, NoRate))
  <1>1. Whole(a) /\ Whole(b) /\ Whole(c) /\ Whole(d)
    BY PlainRow, SMTT(30)
  <1>2. GooglePricing = ((a ++ b) ++ c) ++ d
    BY Zenon DEF GooglePricing
  <1> HIDE DEF a, b, c, d
  <1> QED  BY <1>1, <1>2, WholeOver, Zenon

LEMMA XAIWhole == Whole(XAIPricing)
  <1> DEFINE a == Single("grok-4.6", Entry(<<2000, 6000, 500, 500>>, NoRate))
             b == [model \in {"grok-4.3", "grok-4-1-fast-reasoning", "grok-4-1-fast-non-reasoning"} |->
                      Entry(<<1250, 2500, 200, 200>>, NoRate)]
  <1>1. Whole(a)
    BY PlainRow, SMTT(30)
  <1>a. Whole(b)
    <2>1. Entry(<<1250, 2500, 200, 200>>, NoRate) \in RateTypes
      BY PlainEntry
    <2> QED  BY <2>1 DEF Whole
  <1>2. XAIPricing = a ++ b
    BY Zenon DEF XAIPricing
  <1> HIDE DEF a, b
  <1> QED  BY <1>1, <1>a, <1>2, WholeOver, Zenon

LEMMA AnthropicWhole == Whole(AnthropicPricing)
  <1> DEFINE a == Single("claude-fable-5-1", AnthropicRow(10000, 50000, 250))
             b == Single("claude-fable-5", AnthropicRow(10000, 50000, 1000))
             c == [model \in {"claude-opus-5", "claude-opus-4-8", "claude-opus-4-7", "claude-opus-4-6", "claude-opus-4-5"} |->
                      AnthropicRow(5000, 25000, 500)]
             d == Single("claude-sonnet-5", AnthropicRow(2000, 10000, 200))
             e == Single("claude-sonnet-4-6", AnthropicRow(3000, 15000, 300))
             p == AliasPricing({"claude-opus-4-1", "claude-opus-4-1-20250805", "claude-opus-4", "claude-opus-4-20250514"}, 15000, 75000)
             q == AliasPricing({"claude-sonnet-4-5", "claude-sonnet-4-5-20250929", "claude-sonnet-4", "claude-sonnet-4-20250514"}, 3000, 15000)
             r == AliasPricing({"claude-haiku-4-5", "claude-haiku-4-5-20251001"}, 1000, 5000)
             s == AliasPricing({"claude-haiku-3-5", "claude-3-5-haiku-20241022"}, 800, 4000)
  <1>1. Whole(a) /\ Whole(b) /\ Whole(d) /\ Whole(e)
    BY AnthropicRowTyped, WholeSingle
  <1>2. Whole(c)
    BY AnthropicRowTyped DEF Whole
  <1>3. Whole(p) /\ Whole(q) /\ Whole(r) /\ Whole(s)
    BY AliasesWhole
  <1>4. AnthropicPricing = (((((((a ++ b) ++ c) ++ d) ++ e) ++ p) ++ q) ++ r) ++ s
    BY SMT DEF AnthropicPricing
  <1> HIDE DEF a, b, c, d, e, p, q, r, s
  <1>5. Whole((((a ++ b) ++ c) ++ d) ++ e)
    BY <1>1, <1>2, WholeOver, Zenon
  <1> DEFINE t == (((a ++ b) ++ c) ++ d) ++ e
  <1>6. Whole(t)
    BY <1>5
  <1>7. AnthropicPricing = (((t ++ p) ++ q) ++ r) ++ s
    BY <1>4
  <1> HIDE DEF t
  <1> QED  BY <1>3, <1>6, <1>7, WholeOver, Zenon

\* Every price an answer can have comes from a row of the tables.
LEMMA RatesTyped ==
  ASSUME NEW provider, NEW model, Priced(provider, model)
  PROVE  RatesOf(provider, model) \in RateTypes /\ provider \in {"openai", "anthropic", "google", "xai"}
  <1>1. provider \in {"openai", "anthropic", "google", "xai"} /\ Canonical(provider, model) \in DOMAIN Bundled[provider]
    BY DEF Priced, Bundled
  <1>2. Bundled[provider] \in {OpenAIPricing, AnthropicPricing, GooglePricing, XAIPricing}
    BY <1>1 DEF Bundled
  <1>3. Whole(Bundled[provider])
    BY <1>2, OpenAIWhole, AnthropicWhole, GoogleWhole, XAIWhole, Zenon
  <1> QED  BY <1>1, <1>3, Zenon DEF RatesOf, Whole

\* An amount is charged in whole increments.
InIncrements(cost, charged) == charged - cost \in 0 .. DefaultPolicy.increment - 1

\* Rounding up to whole increments adds less than one.
LEMMA ChargedInIncrements ==
  ASSUME NEW cost \in Nat, NEW charged, charged = ((cost + 1000 - 1) \div 1000) * 1000
  PROVE  InIncrements(cost, charged)
  BY DEF InIncrements, DefaultPolicy

\* The estimate of a usage the counts of which are apart: what is fresh, read and created.
CostOf(rates, fresh, output, read, created) ==
    fresh * rates.input + output * rates.output + read * rates.cache_read + created * rates.cache_creation
Estimated(rates, fresh, output, read, created, estimate) ==
    /\ estimate.cost = CostOf(rates, fresh, output, read, created)
    /\ InIncrements(estimate.cost, estimate.user_billable)

\* The cost of a usage, each kind of token at its rate.
LEMMA EstimateIs ==
  ASSUME NEW rates \in RateTypes, NEW fresh \in Nat, NEW output \in Nat, NEW read \in Nat, NEW created \in Nat,
         NEW usage, usage = Usage(fresh + read + created, output, read, created),
         NEW estimate, estimate = Estimate(rates, usage, DefaultPolicy)
  PROVE  Estimated(rates, fresh, output, read, created, estimate)
  <1> DEFINE parts == Components(rates, usage)
             cost == CostOf(rates, fresh, output, read, created)
             a == fresh * rates.input
             b == output * rates.output
             c == read * rates.cache_read
             e == created * rates.cache_creation
  <1>1. rates.input \in Nat /\ rates.output \in Nat /\ rates.cache_read \in Nat /\ rates.cache_creation \in Nat
    BY DEF RateTypes
  <1>2. CachedRate(rates, rates.cache_read) = rates.cache_read /\ CachedRate(rates, rates.cache_creation) = rates.cache_creation
    BY <1>1 DEF CachedRate, NoRate
  <1>3. /\ usage.input - usage.cached = fresh /\ usage.cached - usage.read - usage.created = 0
        /\ usage.output = output /\ usage.read = read /\ usage.created = created
    BY DEF Usage
  <1>4. NotBelowZero(fresh) = fresh /\ NotBelowZero(0) = 0 /\ read + 0 = read
    BY DEF NotBelowZero
  <1>5. parts = [input |-> a, output |-> b, cache_read |-> c, cache_creation |-> e]
    <2>1. parts = [input |-> NotBelowZero(fresh) * rates.input, output |-> output * rates.output,
                   cache_read |-> (read + NotBelowZero(0)) * rates.cache_read,
                   cache_creation |-> created * rates.cache_creation]
      BY <1>2, <1>3, Zenon DEF Components
    <2> QED  BY <1>4, <2>1, Zenon
  <1>6. parts.input + parts.output + parts.cache_read + parts.cache_creation = cost
    <2> HIDE DEF a, b, c, e
    <2>1. parts.input = a /\ parts.output = b /\ parts.cache_read = c /\ parts.cache_creation = e
      <3> HIDE DEF parts
      <3> QED  BY <1>5
    <2> HIDE DEF parts
    <2> QED  BY <2>1, Zenon DEF CostOf, a, b, c, e
  <1>7. a \in Nat /\ b \in Nat /\ c \in Nat /\ e \in Nat
    BY <1>1
  <1>8. cost \in Nat /\ cost = a + b + c + e
    <2>1. cost = a + b + c + e
      BY DEF CostOf
    <2> HIDE DEF a, b, c, e, cost
    <2> QED  BY <1>7, <2>1
  <1> HIDE DEF cost, parts
  <1> DEFINE marked == cost + (cost * 0) \div 10000
             charged == IF marked < 0 THEN 0 ELSE marked
  <1>9. estimate = [cost |-> cost, user_billable |-> ((charged + 1000 - 1) \div 1000) * 1000]
    <2>1. DefaultPolicy.markup = 0 /\ DefaultPolicy.minimum = 0 /\ DefaultPolicy.increment = 1000
      BY DEF DefaultPolicy
    <2>2. Components(rates, usage).input + Components(rates, usage).output + Components(rates, usage).cache_read
          + Components(rates, usage).cache_creation = cost
      BY <1>6, Zenon DEF parts
    <2>3. estimate = Estimate(rates, usage, DefaultPolicy)
      OBVIOUS
    <2> QED  BY <2>1, <2>2, <2>3, SMT DEF Estimate
  <1>10. charged = cost
    BY <1>8
  <1> HIDE DEF charged
  <1>11. estimate.cost = cost /\ InIncrements(cost, estimate.user_billable)
    <2>1. estimate.cost = cost /\ estimate.user_billable = ((cost + 1000 - 1) \div 1000) * 1000
      BY <1>9, <1>10
    <2>2. cost \in Nat
      BY <1>8
    <2>3. InIncrements(cost, estimate.user_billable)
      BY <2>1, <2>2, ChargedInIncrements
    <2> QED  BY <2>1, <2>3, Zenon
  <1> QED  BY <1>11, Zenon DEF Estimated, cost

\* The usage in the answer to a whole response.
LEMMA WholeUsage ==
  ASSUME NEW dialect \in Dialects, NEW given \in GivenTypes
  PROVE  /\ dialect = "anthropic" => WholeAnswer(dialect, given).usage = UsageFromAnthropic(given.usage)
         /\ dialect = "google" => WholeAnswer(dialect, given).usage = UsageFromGemini(given.usage)
         /\ dialect = "openai" => WholeAnswer(dialect, given).usage = UsageFromOpenAI(given.usage)
  <1>0. given.usage \in UsageTypes /\ given.usage.output \in Nat
    BY DEF GivenTypes, UsageTypes
  <1>1. ASSUME dialect = "anthropic"  PROVE  WholeAnswer(dialect, given).usage = UsageFromAnthropic(given.usage)
    <2> DEFINE start == UsageFromAnthropic(given.usage)
    <2>1. WholeAnswer(dialect, given).usage = [start EXCEPT !.output = Greater(@, 0)]
      BY <1>1 DEF WholeAnswer, AnthropicComplete, AnthropicAnswer, NewDecoder, NoUsage, Usage
    <2>2. Greater(start.output, 0) = start.output
      BY <1>0 DEF UsageFromAnthropic, Usage, Greater
    <2>3. start = [input |-> start.input, output |-> start.output, cached |-> start.cached, read |-> start.read, created |-> start.created]
      BY DEF UsageFromAnthropic, Usage
    <2> HIDE DEF start
    <2>4. [start EXCEPT !.output = Greater(@, 0)] = start
      BY <2>2, <2>3
    <2> QED  BY <2>1, <2>4 DEF start
  <1>2. ASSUME dialect = "google"  PROVE  WholeAnswer(dialect, given).usage = UsageFromGemini(given.usage)
    <2> DEFINE e == GeminiWhole(given)
    <2>1. WholeAnswer(dialect, given) = GeminiComplete(e)
      BY <1>2, Zenon DEF WholeAnswer, GeminiWhole
    <2> HIDE DEF e
    <2>2. GeminiGathered(given, e)
      BY GeminiWholeIs, Zenon DEF e
    <2>3. GeminiComplete(e).usage = e.usage
      BY DEF GeminiComplete
    <2> QED  BY <2>1, <2>2, <2>3, Zenon DEF GeminiGathered
  <1>3. ASSUME dialect = "openai"  PROVE  WholeAnswer(dialect, given).usage = UsageFromOpenAI(given.usage)
    <2>1. WholeAnswer(dialect, given) = OpenAIAnswer(NewDecoder, given)
      BY <1>3 DEF WholeAnswer
    <2> QED  BY <2>1 DEF OpenAIAnswer
  <1> QED  BY <1>1, <1>2, <1>3

LEMMA AnswerPriced ==
  ASSUME NEW provider \in {"openai", "anthropic", "google", "xai"}, NEW dialect, dialect = IF provider = "xai" THEN "openai" ELSE provider,
         NEW given, Answers(dialect, given), NEW rates \in RateTypes,
         NEW estimate, estimate = Estimate(rates, WholeAnswer(dialect, given).usage, DefaultPolicy),
         NEW fresh, fresh = CASE provider = "anthropic" -> given.usage.input
                              [] provider = "google" -> given.usage.input - given.usage.read
                              [] OTHER -> given.usage.input - given.usage.read - given.usage.created
  PROVE  Estimated(rates, fresh, given.usage.output, given.usage.read, IF provider = "google" THEN 0 ELSE given.usage.created, estimate)
  <1> DEFINE usage == given.usage
             created == IF provider = "google" THEN 0 ELSE usage.created
             whole == WholeAnswer(dialect, given).usage
  <1>1. dialect \in Dialects /\ given \in GivenTypes
    BY DEF Answers, Dialects
  <1>2. usage \in UsageTypes
    BY <1>1 DEF GivenTypes
  <1>3. usage.input \in Nat /\ usage.output \in Nat /\ usage.read \in Nat /\ usage.created \in Nat /\ created \in Nat
    BY <1>2 DEF UsageTypes
  <1>4. dialect # "anthropic" => usage.read + usage.created <= usage.input
    BY DEF Answers
  <1> HIDE DEF usage, created
  <1>5. fresh \in Nat /\ whole = Usage(fresh + usage.read + created, usage.output, usage.read, created)
    <2>1. CASE provider = "anthropic"
      <3>1. fresh = usage.input /\ created = usage.created /\ dialect = "anthropic"
        BY <2>1 DEF usage, created
      <3>2. whole = UsageFromAnthropic(usage)
        BY <1>1, <3>1, WholeUsage, Zenon DEF usage
      <3> QED  BY <1>3, <3>1, <3>2 DEF UsageFromAnthropic
    <2>2. CASE provider = "google"
      <3>1. fresh = usage.input - usage.read /\ created = 0 /\ dialect = "google"
        BY <2>2 DEF usage, created
      <3>2. whole = UsageFromGemini(usage)
        BY <1>1, <3>1, WholeUsage, Zenon DEF usage
      <3>3. fresh \in Nat /\ fresh + usage.read + created = usage.input
        BY <1>3, <1>4, <3>1
      <3> QED  BY <3>1, <3>2, <3>3, Zenon DEF UsageFromGemini
    <2>3. CASE provider \in {"openai", "xai"}
      <3>1. fresh = usage.input - usage.read - usage.created /\ created = usage.created /\ dialect = "openai"
        BY <2>3 DEF usage, created
      <3>2. whole = UsageFromOpenAI(usage)
        BY <1>1, <3>1, WholeUsage, Zenon DEF usage
      <3>3. fresh \in Nat /\ fresh + usage.read + created = usage.input
        BY <1>3, <1>4, <3>1
      <3> QED  BY <3>1, <3>2, <3>3, Zenon DEF UsageFromOpenAI
    <2> QED  BY <2>1, <2>2, <2>3
  <1>6. estimate = Estimate(rates, whole, DefaultPolicy)
    OBVIOUS
  <1> HIDE DEF whole
  <1>7. Estimated(rates, fresh, usage.output, usage.read, created, estimate)
    BY <1>3, <1>5, <1>6, EstimateIs, Zenon
  <1> QED  BY <1>7, Zenon DEF usage, created

\* For every response and every bundled rate the estimate of the answer is the bill of the service:
\* each token it counted is charged at one rate, and what the user pays is that, rounded up to less
\* than one increment more.
THEOREM AnswersPricedOnce == Spec => []PricedOnce
  <1>1. StreamInv => PricedOnce
    <2> DEFINE rates == RatesOf(Provider, sent.request.model)
               estimate == Estimate(rates, decoder.answer.usage, DefaultPolicy)
               usage == response.usage
               created == IF Provider = "google" THEN 0 ELSE usage.created
    <2> SUFFICES ASSUME StreamInv, Answered, Priced(Provider, sent.request.model)
                 PROVE  /\ estimate.cost = Bill(usage, rates)
                        /\ estimate.user_billable - estimate.cost \in 0 .. DefaultPolicy.increment - 1
      BY Zenon DEF PricedOnce
    <2>1. response \in Responses[Dialect] /\ decoder.answer = WholeAnswer(Dialect, response)
      BY DEF StreamInv, AtAnswer, DecodedAsWhole, Answered
    <2>2. rates \in RateTypes /\ Provider \in {"openai", "anthropic", "google", "xai"}
      BY RatesTyped, Zenon
    <2>3. Dialect \in Dialects /\ Dialect = IF Provider = "xai" THEN "openai" ELSE Provider
      BY <2>2 DEF Dialects, Dialect
    <2>4. Answers(Dialect, response)
      BY <2>1, <2>3, ResponsesAssumption, Zenon
    <2>5. estimate = Estimate(rates, WholeAnswer(Dialect, response).usage, DefaultPolicy)
      BY <2>1, Zenon
    <2>6. Fresh(usage) = CASE Provider = "anthropic" -> response.usage.input
                           [] Provider = "google" -> response.usage.input - response.usage.read
                           [] OTHER -> response.usage.input - response.usage.read - response.usage.created
      BY DEF Fresh
    <2> HIDE DEF rates, estimate
    <2>7. Estimated(rates, Fresh(usage), response.usage.output, response.usage.read,
                    IF Provider = "google" THEN 0 ELSE response.usage.created, estimate)
      BY <2>2, <2>3, <2>4, <2>5, <2>6, AnswerPriced, Zenon
    <2>8. estimate.cost = CostOf(rates, Fresh(usage), usage.output, usage.read, created)
          /\ InIncrements(estimate.cost, estimate.user_billable)
      BY <2>7, Zenon DEF Estimated
    <2>9. Bill(usage, rates) = CostOf(rates, Fresh(usage), usage.output, usage.read, created)
      <3>1. CASE Provider = "google"
        <4>1. 0 * rates.cache_creation = 0
          BY <2>2 DEF RateTypes
        <4> QED  BY <3>1, <4>1, Zenon DEF Bill, CostOf
      <3>2. CASE Provider # "google"
        BY <3>2, Zenon DEF Bill, CostOf
      <3> QED  BY <3>1, <3>2
    <2>10. estimate.user_billable - estimate.cost \in 0 .. DefaultPolicy.increment - 1
      BY <2>8, Zenon DEF InIncrements
    <2>11. estimate.cost = Bill(usage, rates)
      <3> HIDE DEF usage, created
      <3> QED  BY <2>8, <2>9
    <2> QED  BY <2>10, <2>11, Zenon
  <1> QED  BY <1>1, StreamKept, PTL
=============================================================================
