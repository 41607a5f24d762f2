----------------------------- MODULE MCModelTurns -----------------------------
(* Instances of ModelTurns: calls over each provider, layer and boundary. *)
EXTENDS ModelTurns

NoLayer == [profile |-> "none", values |-> Nothing, overrides |-> Nothing, read |-> TRUE]
NoConfig == [profile |-> "none", env |-> [profile |-> "none", variables |-> Nothing, read |-> TRUE], file |-> NoLayer, mapping |-> NoLayer]
Ref(provider, model) == [provider |-> provider, model |-> model]
User(parts) == [role |-> "user", parts |-> parts]
To(provider, model) ==
    [ref |-> [provider |-> provider, model |-> model], hint |-> "none", config |-> NoConfig, controls |-> Nothing,
     nested |-> Nothing, system |-> "none", input |-> <<User(<<"string">>)>>, tools |-> {}, hosted |-> {},
     output |-> "none", extra |-> Nothing, state |-> Nothing]

GPT == To("openai", "gpt-5.6")
Astra == To("openai", "gpt-6-astra")
Grok == To("xai", "grok-4.6")
FableCall == To("anthropic", "claude-fable-5-1")
Opus == To("anthropic", "claude-opus-5")
Sonnet == To("anthropic", "claude-sonnet-4-6")
Gemini == To("google", "gemini-2.5-pro")
Chat == To("openrouter", "some-model")

Hosted(type, as, local) == {[type |-> type, as |-> as, local |-> local]}
WithControls(call, controls) == [call EXCEPT !.controls = controls]
WithHosted(call, hosted) == [call EXCEPT !.hosted = hosted]
WithInput(call, input) == [call EXCEPT !.input = input]

\* A temperature and an effort set in several layers, and two profiles named.
LayeredConfig ==
    [NoConfig EXCEPT !.env = [profile |-> "fast_text", variables |-> [TEMPERATURE |-> "0.1", REASONING_EFFORT |-> "low"], read |-> TRUE],
                     !.file = [NoLayer EXCEPT !.profile = "cost_sensitive", !.values = Single("reasoning_effort", "high"),
                                              !.overrides = Single("reasoning_effort", "medium")]]
ReliableConfig ==
    [NoConfig EXCEPT !.mapping.profile = "high_reliability", !.mapping.values = Single("temperature", "0.5")]
WithModel(provider, model) ==
    [ReliableConfig EXCEPT !.env.variables = Single("PROVIDER", provider), !.mapping.overrides = Single("model", model)]
LayerCalls ==
    {[call EXCEPT !.config = LayeredConfig, !.controls = controls] :
        call \in {GPT, Gemini}, controls \in {Nothing, Single("temperature", "0.7"), Single("tool_choice", "required")}}
    \cup {[GPT EXCEPT !.config = ReliableConfig, !.nested = nested] :
        nested \in {Nothing, Single("temperature", "0.5"), Single("temperature", "1"), Single("tool_choice", "auto")}}
    \cup {[Sonnet EXCEPT !.config = ReliableConfig],
          [GPT EXCEPT !.config = [NoConfig EXCEPT !.profile = "tool_agent"]],
          [GPT EXCEPT !.config = [NoConfig EXCEPT !.profile = "structured_extraction"]],
          [GPT EXCEPT !.config.env.read = FALSE],
          [GPT EXCEPT !.config.file.read = FALSE],
          [GPT EXCEPT !.ref = NoRef, !.config = WithModel(Ref("openai", "none"), Ref("openai", "gpt-5.6"))],
          [GPT EXCEPT !.ref = NoRef, !.config = WithModel(Ref("google", "none"), Ref("openai", "gpt-5.6"))],
          [GPT EXCEPT !.ref = NoRef, !.config = WithModel(Ref("openai", "none"), Ref("none", "gpt-5.6"))],
          [GPT EXCEPT !.ref = NoRef, !.hint = "openai", !.config = WithModel(Ref("openai", "none"), Ref("openai", "gpt-5.6"))],
          [GPT EXCEPT !.ref = Ref("none", "gpt-5.6"), !.hint = "openai"],
          [GPT EXCEPT !.ref = Ref("none", "gpt-5.6")]}
ControlCalls ==
    {WithControls(Grok, Single("reasoning_effort", effort)) : effort \in {"xhigh", "max"}}
    \cup {[Grok EXCEPT !.extra = Single("reasoning", [effort |-> "max"])],
          WithControls(Astra, Single("temperature", "1")), [Astra EXCEPT !.extra = Single("temperature", "1")],
          WithControls(GPT, Single("cache", "24h")), WithControls(GPT, Single("cache", "30m")),
          [WithControls(GPT, Single("cache", "30m")) EXCEPT !.extra = Single("prompt_cache_options", [ttl |-> "24h"])],
          [WithControls(GPT, Single("temperature", "0")) EXCEPT !.extra = Single("temperature", "1")],
          WithControls(Opus, [temperature |-> "1", reasoning_effort |-> "xhigh"]),
          WithControls(Opus, Single("temperature", "0")),
          [WithControls(Opus, Single("reasoning_effort", "high")) EXCEPT !.extra = Single("output_config", [effort |-> "low"])],
          [WithControls(Opus, Single("reasoning_effort", "max")) EXCEPT
              !.extra = Single("thinking", [type |-> "disabled", effort |-> "none", budget |-> FALSE])],
          [WithControls(Opus, Single("reasoning_effort", "low")) EXCEPT
              !.extra = Single("thinking", [type |-> "disabled", effort |-> "none", budget |-> FALSE])],
          WithControls(Sonnet, [reasoning_effort |-> "low", tool_choice |-> "required"]),
          WithControls(Sonnet, Single("parallel_tool_calls", "true")),
          [Gemini EXCEPT !.tools = {"lookup"}, !.output = "provider_native"],
          WithControls(Chat, Single("temperature", "0")), [Chat EXCEPT !.tools = {"lookup"}]}
InputCalls ==
    {WithInput(call, <<User(<<"audio">>)>>) : call \in {GPT, Gemini}}
    \cup {WithInput(Sonnet, <<[role |-> "system", parts |-> <<"string">>], [role |-> "tool", parts |-> <<"tool_result">>]>>)}
FableCalls ==
    {[FableCall EXCEPT !.system = system] : system \in {"s1", "s2"}}
    \cup {[FableCall EXCEPT !.system = "s1", !.tools = {"lookup"}],
          [WithControls(FableCall, Single("tool_choice", "required")) EXCEPT !.system = "s1"],
          [FableCall EXCEPT !.system = "s1", !.output = "finalizer_tool"], Opus}
HostedSpecs ==
    {Hosted("web_search", "none", FALSE), Hosted("web_search", "web_search_20250305", FALSE),
     Hosted("shell", "web_search", TRUE), Hosted("shell", "none", TRUE), Hosted("shell", "none", FALSE),
     Hosted("bash", "none", TRUE), Hosted("code_interpreter", "none", FALSE), Hosted("raw", "anything", FALSE)}
BoundaryCalls ==
    {WithHosted(GPT, specs) : specs \in HostedSpecs}
    \cup {WithHosted(call, Hosted("web_search", "none", FALSE)) : call \in {Opus, Gemini}}
    \cup {WithControls(GPT, Single("tool_search", "on"))}

Grant(kind, scopes, mode) ==
    [ref |-> <<"hosted", kind>>, scopes |-> scopes, connector |-> "none", connector_scopes |-> {}, approval_mode |-> mode]
SearchFrame(mode) == <<Grant("web_search", {"read"}, mode), Grant("shell", {"execute"}, "never")>>
ShellFrame == <<Grant("shell", {"execute"}, "always")>>
Packages == {<<SearchFrame("never")>>, <<SearchFrame("always")>>, <<SearchFrame("never"), ShellFrame>>}
AllCalls ==
    [frame \in Packages |-> BoundaryCalls]
    @@ [none \in {NoFrames} |-> LayerCalls \cup ControlCalls \cup InputCalls \cup FableCalls \cup {Chat}
                               \cup {WithHosted(GPT, Hosted("code_interpreter", "none", FALSE))}]

Block(type, id, pieces) == [type |-> type, id |-> id, pieces |-> pieces]
Reply(blocks, finish) ==
    [blocks |-> blocks, usage |-> [input |-> 5, output |-> 4, read |-> 2, created |-> 1], finish |-> finish]
TextAndCall == <<Block("thinking", "b1", <<"hm">>), Block("text", "b2", <<"a", "b">>), Block("tool_use", "b3", <<"x", "y">>)>>
ResponseSet ==
    [anthropic |-> {Reply(TextAndCall, "none"), Reply(<<Block("text", "b1", <<"a">>)>>, "none")},
     openai |-> {Reply(TextAndCall, "none")}, google |-> {Reply(TextAndCall, "stop")},
     openrouter |-> {Reply(<<Block("text", "b1", <<"a">>)>>, "none")}]
=============================================================================
