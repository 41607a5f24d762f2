---------------------------- MODULE ModelProfiles ----------------------------
(***************************************************************************)
(* What the model providers say they can do (their capability profiles)    *)
(* and assertTurnRequestCapabilities(), which holds a request against it.  *)
(*                                                                         *)
(* A profile is [tools, hosted, output, controls, state, efforts,          *)
(* forbids]: functions from names to a status, the values an effort may    *)
(* take, and the pairs of features that exclude each other.  A name that   *)
(* is not in the domain of such a function is not in the profile.          *)
(*                                                                         *)
(* A normalized request is [provider, model, system, input, tools, hosted, *)
(* controls, output, extra, state]: controls and extra are functions whose *)
(* domain is what the caller set; hosted is a set of [type, as, local],    *)
(* where as is the type its config names, or "none".                       *)
(***************************************************************************)
EXTENDS Naturals, Sequences, FiniteSets, TLC

Nothing == << >>
Rated(supported, passthrough, unsupported) ==
    [ name \in supported \cup passthrough \cup unsupported |->
        IF name \in unsupported THEN "unsupported"
        ELSE IF name \in passthrough THEN "passthrough" ELSE "supported" ]

OutputStrategies == {"text", "structured_output", "provider_native", "finalizer_tool", "posthoc_parse"}
Sampling == {"temperature", "tool_choice"}

CurrentOpenAI == [ m \in {"gpt-6-astra", "gpt-5.6"} |->
    {"low", "medium", "high", "xhigh", "max"} \cup IF m = "gpt-5.6" THEN {"none"} ELSE {} ]
CurrentXAI == [ m \in {"grok-4.6"} |-> {"low", "medium", "high", "xhigh"} ]
AdaptiveAnthropic ==
    {"claude-fable-5-1", "claude-fable-5", "claude-opus-5", "claude-sonnet-5", "claude-opus-4-8"}
AdaptiveEfforts == {"low", "medium", "high", "xhigh", "max"}
\* The older Claude models that take an output format, and those of them that edit their context.
FormattingClaude == {"claude-sonnet-4-5", "claude-sonnet-4-6"}
EditingClaude == {"claude-sonnet-4-6"}

OpenAIProfile(model) ==
    [ tools    |-> "supported",
      hosted   |-> Rated({"hosted_tools", "web_search", "file_search", "code_interpreter",
                          "remote_mcp", "mcp", "tool_search", "image_generation"}, {"raw"}, {}),
      output   |-> Rated(OutputStrategies, {}, {}),
      controls |-> Rated(Sampling \cup {"instructions", "parallel_tool_calls", "reasoning_effort", "verbosity",
                           "tool_search", "compaction", "cache"}, {"extra"},
                         IF model = "gpt-6-astra" THEN {"temperature"} ELSE {}),
      state    |-> Rated({"provider_stateful", "stateless_replay"}, {}, {}),
      efforts  |-> IF model \in DOMAIN CurrentOpenAI THEN CurrentOpenAI[model]
                   ELSE {"minimal", "low", "medium", "high"},
      forbids  |-> {} ]

XAIProfile(model) ==
    LET base == OpenAIProfile(model)
    IN  [ base EXCEPT !.hosted = Rated({}, {"raw"}, DOMAIN base.hosted \ {"raw"}),
                      !.efforts = IF model \in DOMAIN CurrentXAI THEN CurrentXAI[model] ELSE @ ]

AnthropicProfile(model) ==
    LET adaptive == model \in AdaptiveAnthropic
        formats  == adaptive \/ model \in FormattingClaude
        edits    == adaptive \/ model \in EditingClaude
    IN  [ tools    |-> "supported",
          hosted   |-> Rated({"web_search", "remote_mcp"}, {"raw"}, {"hosted_tools"}),
          output   |-> Rated(OutputStrategies, {},
                             (IF formats THEN {} ELSE {"structured_output", "provider_native"})
                             \cup IF model = "claude-fable-5-1" THEN {"finalizer_tool"} ELSE {}),
          controls |-> Rated(Sampling \cup {"instructions", "reasoning_effort", "compaction", "cache"}, {"extra"},
                             {"parallel_tool_calls"} \cup IF edits THEN {} ELSE {"compaction"}),
          state    |-> Rated({"provider_stateful", "stateless_replay"}, {}, {}),
              efforts  |-> IF adaptive THEN AdaptiveEfforts ELSE {"low", "medium", "high"},
          forbids  |-> {} ]

GoogleProfile(model) ==
    [ tools    |-> "supported",
      hosted   |-> Rated({"web_search"}, {"raw"}, {"hosted_tools"}),
      output   |-> Rated(OutputStrategies, {}, {}),
      controls |-> Rated(Sampling \cup {"instructions", "reasoning_effort", "cache"}, {"extra"}, {"parallel_tool_calls"}),
      state    |-> Rated({"provider_stateful", "stateless_replay"}, {}, {}),
      efforts  |-> {"minimal", "low", "medium", "high"},
      forbids  |-> IF model = "gemini-3-pro" THEN {} ELSE {{"tools", "provider_native"}} ]

TextProfile ==
    [ tools    |-> "unsupported",
      hosted   |-> Rated({}, {"raw"}, {"hosted_tools", "web_search", "file_search", "code_interpreter", "remote_mcp"}),
      output   |-> Rated({"text", "posthoc_parse"}, {}, {"structured_output", "provider_native", "finalizer_tool"}),
      controls |-> Rated({"instructions", "temperature"}, {}, {"extra"}),
      state    |-> Rated({"stateless_replay"}, {}, {"provider_stateful"}),
      efforts  |-> {}, forbids |-> {} ]

ProfileOf(provider, model) ==
    CASE provider = "openai"    -> OpenAIProfile(model)
      [] provider = "xai"       -> XAIProfile(model)
      [] provider = "anthropic" -> AnthropicProfile(model)
      [] provider = "google"    -> GoogleProfile(model)
      [] OTHER                  -> TextProfile

\* assertCapabilitySupported(): a name the profile does not hold is not supported.
Supported(ratings, name, passes) ==
    /\ name \in DOMAIN ratings
    /\ ratings[name] = "supported" \/ (passes /\ ratings[name] = "passthrough")
HostedSupported(profile, type) ==
    Supported(profile.hosted, IF type \in DOMAIN profile.hosted THEN type ELSE "hosted_tools", type = "raw")

Requested(request) ==
    (IF request.tools # {} THEN {"tools"} ELSE {}) \cup {request.output}

CapabilitiesHold(profile, request) ==
    /\ request.tools # {} => profile.tools = "supported"
    /\ \A spec \in request.hosted : HostedSupported(profile, spec.type)
    /\ request.state # Nothing => Supported(profile.state, "provider_stateful", FALSE)
    /\ request.output # "none" => Supported(profile.output, request.output, FALSE)
    /\ request.system # "none" => Supported(profile.controls, "instructions", FALSE)
    /\ \A name \in DOMAIN request.controls :
         /\ Supported(profile.controls, name, FALSE)
         /\ name = "reasoning_effort" => request.controls[name] \in profile.efforts
         /\ name = "verbosity" => request.controls[name] \in {"low", "medium", "high"}
    /\ request.extra # Nothing => Supported(profile.controls, "extra", TRUE)
    /\ \A pair \in profile.forbids : ~ pair \subseteq Requested(request)
=============================================================================
