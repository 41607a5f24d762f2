----------------------------- MODULE ModelBodies -----------------------------
(***************************************************************************)
(* The bodies the adapters build, and what they check on them once the     *)
(* fields of "extra" are merged in.  A body is a partial function from     *)
(* field names to values; its history (the provider state it replays) and  *)
(* its messages are kept apart, one after the other.                       *)
(*                                                                         *)
(* A provider state is [provider, model, response, history, guard]; an     *)
(* entry of the history is <<role, kinds of its blocks, id>>.              *)
(***************************************************************************)
EXTENDS ModelRequests

NotAnObject == [not_an_object |-> "x"]
Chosen(request, name) == When(Has(request.controls, name), Only(request.controls, {name}))
Renamed(request, name, key, Value(_)) ==
    When(Has(request.controls, name), Single(key, Value(request.controls[name])))
Collides(base, extra) == DOMAIN base \cap DOMAIN extra # {}
MergedBody(base, extra) == extra ++ base
SystemParts(request) ==
    (IF request.system = "none" THEN << >> ELSE <<request.system>>)
    \o [i \in 1 .. Len(OfRole(request.input, {"system"})) |-> "message"]
History(request) == IF request.state = Nothing THEN << >> ELSE request.state.history
CacheTtl(request) ==
    IF Has(request.controls, "cache") /\ request.controls["cache"] \in {"30m", "24h"} THEN request.controls["cache"] ELSE "none"

--------------------------------------------------------------------------
(* providers/openai/responses-provider.ts and providers/xai/index.ts       *)

OpenAITools(request) ==
    {<<"function", name>> : name \in request.tools}
    \cup {<<IF spec.as # "none" THEN spec.as ELSE IF spec.type = "remote_mcp" THEN "mcp" ELSE spec.type, "hosted">> :
            spec \in request.hosted}

OpenAIText(request) == When(request.output = "provider_native", Single("text", "json_schema"))
OpenAITruncation(request) ==
    When(Has(request.controls, "compaction") /\ request.controls["compaction"] \in {"auto", "disabled"},
         Single("truncation", request.controls["compaction"]))
\* mapCache(): the current models take the ttl among their options, later.
OpenAICache(request) ==
    When(CacheTtl(request) # "none" /\ request.model \notin DOMAIN CurrentOpenAI, Single("prompt_cache_retention", CacheTtl(request)))
    ++ When(Has(request.controls, "cache") /\ request.controls["cache"] = "key", Single("prompt_cache_key", "key"))

OpenAIBase(request) ==
    Only(request.controls, {"temperature", "tool_choice", "parallel_tool_calls"})
    ++ Renamed(request, "reasoning_effort", "reasoning", LAMBDA effort : [effort |-> effort])
    ++ OpenAITruncation(request) ++ OpenAICache(request) ++ OpenAIText(request)
    ++ When(request.system # "none", Single("instructions", request.system))
    ++ When(OpenAITools(request) # {}, Single("tools", OpenAITools(request)))
    ++ When(request.state # Nothing /\ request.state.response # "none",
            Single("previous_response_id", request.state.response))

\* Options given natively win over the ttl of the typed control.
CacheOptions(request, body) ==
    When(Has(body, "prompt_cache_options"), body["prompt_cache_options"])
    ++ When(CacheTtl(request) # "none", Single("ttl", CacheTtl(request)))

\* validateModelEffort(): only the models of the table are held to it.
EffortAllowed(table, model, body) ==
    (model \in DOMAIN table /\ Has(body, "reasoning")) =>
      /\ body["reasoning"] # NotAnObject
      /\ Has(body["reasoning"], "effort") => body["reasoning"].effort \in table[model]

OpenAIAccepts(request, body) ==
    /\ request.model = "gpt-6-astra" => ~ Has(body, "temperature")
    /\ request.model \in DOMAIN CurrentOpenAI =>
         /\ ~ Has(body, "prompt_cache_retention")
         /\ Has(body, "prompt_cache_options") => body["prompt_cache_options"] # NotAnObject
         /\ Has(CacheOptions(request, body), "ttl") => CacheOptions(request, body).ttl = "30m"
    /\ EffortAllowed(CurrentOpenAI, request.model, body)
    /\ request.provider = "xai" => EffortAllowed(CurrentXAI, request.model, body)

OpenAIBody(request, body) ==
    When(request.model \in DOMAIN CurrentOpenAI /\ CacheOptions(request, body) # Nothing,
         Single("prompt_cache_options", CacheOptions(request, body))) ++ body

--------------------------------------------------------------------------
(* providers/anthropic/index.ts                                            *)

Adaptive(model) == model \in AdaptiveAnthropic
WebSearchVersion(model) ==
    IF Adaptive(model) \/ model \in EditingClaude THEN "web_search_20260209" ELSE "web_search_20250305"
AnthropicTools(request) ==
    {<<"function", name>> : name \in request.tools}
    \cup {<<IF spec.as # "none" THEN spec.as
            ELSE IF spec.type = "web_search" THEN WebSearchVersion(request.model) ELSE "mcp_toolset", "hosted">> :
            spec \in request.hosted}

\* applyAnthropicCache() marks the system prompt, or else the last block of the last message.
AnthropicSystem(request) ==
    When(SystemParts(request) # << >>,
         Single("system", [text |-> SystemParts(request), cached |-> Has(request.controls, "cache")]))

AnthropicChoice(choice) == IF choice = "required" THEN "any" ELSE IF choice \in {"auto", "none"} THEN choice ELSE "tool"
AnthropicOutput(request) == When(request.output = "provider_native", Single("output_config", [format |-> "json_schema"]))
AnthropicCompaction(request) ==
    When(Has(request.controls, "compaction") /\ request.controls["compaction"] = "auto", Single("context_management", "clear"))
AnthropicThinking(request) ==
    When(~ Adaptive(request.model),
         Renamed(request, "reasoning_effort", "thinking", LAMBDA effort : [type |-> "adaptive", effort |-> effort, budget |-> FALSE]))
AnthropicBase(request) ==
    Chosen(request, "temperature") ++ Renamed(request, "tool_choice", "tool_choice", AnthropicChoice)
    ++ AnthropicOutput(request) ++ AnthropicThinking(request) ++ AnthropicCompaction(request) ++ AnthropicSystem(request)
    ++ When(AnthropicTools(request) # {}, Single("tools", AnthropicTools(request)))

OutputConfig(request, body) ==
    When(Has(body, "output_config"), body["output_config"])
    ++ Renamed(request, "reasoning_effort", "effort", LAMBDA effort : effort)
Effort(request, body) == IF Has(OutputConfig(request, body), "effort") THEN OutputConfig(request, body).effort ELSE "high"

ThinkingAccepted(model, thinking, effort) ==
    /\ thinking.type \in {"adaptive", "disabled"} /\ ~ thinking.budget
    /\ thinking.type = "disabled" =>
         /\ model \notin {"claude-fable-5-1", "claude-fable-5"}
         /\ ~ (model = "claude-opus-5" /\ effort \in {"xhigh", "max"})

\* applyAdaptiveAnthropicControls(): what these models refuse, wherever it came from.
AdaptiveAccepts(request, body) ==
    /\ Has(body, "output_config") => body["output_config"] # NotAnObject
    /\ Has(OutputConfig(request, body), "effort") /\ Has(request.controls, "reasoning_effort") =>
         OutputConfig(request, body).effort = request.controls["reasoning_effort"]
    /\ Effort(request, body) \in AdaptiveEfforts
    /\ Has(body, "temperature") => body["temperature"] = "1"
    /\ Has(body, "thinking") => ThinkingAccepted(request.model, body["thinking"], Effort(request, body))
    /\ request.model = "claude-fable-5-1" =>
         /\ request.output # "finalizer_tool"
         /\ Has(body, "tool_choice") => body["tool_choice"] \in {"auto", "none"}
    /\ (request.model = "claude-opus-5" /\ Has(body, "tools")) => \A tool \in body["tools"] : tool[1] # "web_fetch"

AdaptiveBody(request, body) ==
    When(Has(request.controls, "reasoning_effort"), Single("output_config", OutputConfig(request, body)))
    ++ When(Has(request.controls, "reasoning_effort") /\ ~ Has(body, "thinking"),
            Single("thinking", [type |-> "adaptive", effort |-> "none", budget |-> FALSE]))
    ++ body

\* What the replay of a turn is bound to: the system prompt, the tools and a prefix of the messages.
Field(body, key) == IF Has(body, key) THEN {body[key]} ELSE {}
Fingerprint(body, prefix) == <<Field(body, "system"), Field(body, "tools"), prefix>>
Thinks(history) == \E i \in 1 .. Len(history) : "thinking" \in ToSet(history[i][2])

\* A mutant: the length of the prefix is checked, not what it says.
ReplayAcceptedByLength(request, body, messages) ==
    (request.state = Nothing) \/
      LET guard == request.state.guard
      IN  IF guard # Nothing
          THEN request.model = "claude-fable-5-1" /\ Len(messages) >= guard.message_count
          ELSE ~ (request.model = "claude-fable-5-1" /\ Thinks(request.state.history))

\* validateAnthropicReplay().
ReplayAccepted(request, body, messages) ==
    request.state # Nothing =>
      LET guard == request.state.guard
      IN  IF guard # Nothing
          THEN /\ request.model = "claude-fable-5-1"
               /\ Len(messages) >= guard.message_count
               /\ Fingerprint(body, SubSeq(messages, 1, guard.message_count)) = guard.digest
          ELSE ~ (request.model = "claude-fable-5-1" /\ Thinks(request.state.history))

\* recordReplayPrefix(): the guard of the state that a turn sent with this body leaves.
ReplayGuard(model, body, history) ==
    IF model # "claude-fable-5-1" THEN Nothing
    ELSE [message_count |-> Len(history), digest |-> Fingerprint(body, history)]

--------------------------------------------------------------------------
(* providers/gemini/index.ts and the chat completions of the others        *)

GenerationConfig(request) ==
    Chosen(request, "temperature")
    ++ Renamed(request, "reasoning_effort", "thinkingLevel", LAMBDA effort : effort)
    ++ When(request.output = "provider_native", Single("responseJsonSchema", "json_schema"))
GoogleTools(request) ==
    {<<"function", name>> : name \in request.tools}
    \cup {<<IF spec.type = "web_search" THEN "googleSearch" ELSE spec.as, "hosted">> :
            spec \in {s \in request.hosted : s.type \in {"web_search", "raw"}}}
\* mapGeminiToolChoice(): a named tool is the one allowed function.
GoogleChoice(choice) == IF choice = "required" THEN "any" ELSE IF choice \in {"auto", "none"} THEN choice ELSE "tool"
CachedContent(request) ==
    When(Has(request.controls, "cache") /\ request.controls["cache"] = "content", Single("cachedContent", "content"))
GoogleBase(request) ==
    When(GenerationConfig(request) # Nothing, Single("generationConfig", GenerationConfig(request)))
    ++ Renamed(request, "tool_choice", "toolConfig", GoogleChoice) ++ CachedContent(request)
    ++ When(SystemParts(request) # << >>, Single("systemInstruction", SystemParts(request)))
    ++ When(GoogleTools(request) # {}, Single("tools", GoogleTools(request)))

ChatBase(request) == Chosen(request, "temperature")

--------------------------------------------------------------------------
BaseOf(request) ==
    CASE request.provider \in {"openai", "xai"} -> OpenAIBase(request)
      [] request.provider = "anthropic" -> AnthropicBase(request)
      [] request.provider = "google" -> GoogleBase(request)
      [] OTHER -> ChatBase(request)

Messages(request) ==
    (IF request.provider \in {"anthropic", "google"} THEN History(request) ELSE << >>)
    \o MappedMessages(request.provider, request.input)

BodyAccepted(request) ==
    LET body == MergedBody(BaseOf(request), request.extra)
    IN  /\ ~ Collides(BaseOf(request), request.extra)
        /\ request.provider \in {"openai", "xai"} => OpenAIAccepts(request, body)
        /\ request.provider = "anthropic" =>
             /\ Adaptive(request.model) => AdaptiveAccepts(request, body)
             /\ ReplayAccepted(request, body, Messages(request))

BodyOf(request) ==
    LET body == MergedBody(BaseOf(request), request.extra)
    IN  CASE request.provider \in {"openai", "xai"} -> OpenAIBody(request, body)
          [] request.provider = "anthropic" /\ Adaptive(request.model) -> AdaptiveBody(request, body)
          [] OTHER -> body

\* Everything stream() and streamTurn() check before the first byte is sent.
Sendable(frames, call) ==
    LET request == PackageKeeps(frames, Normalized(call))
    IN  /\ ConfigLoads(call.config)
        /\ Target(call).provider \in Registered
        /\ NestedAgree(call)
        /\ PackageAccepts(frames, Normalized(call))
        /\ CapabilitiesHold(ProfileOf(request.provider, request.model), request)
        /\ \A i \in 1 .. Len(request.input) : Mappable(request.provider, request.input[i])
        /\ BodyAccepted(request)
=============================================================================
