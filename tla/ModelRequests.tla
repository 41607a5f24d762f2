---------------------------- MODULE ModelRequests ----------------------------
(***************************************************************************)
(* From what a caller asks of ModelRuntime.stream() to the body a provider *)
(* is sent: the layers of a RuntimeConfig, the provider and the model, the *)
(* nested controls, the package boundary, the capabilities, the mapping of *)
(* the messages and of the controls, and the checks on the built body.     *)
(*                                                                         *)
(* A call is [ref, hint, config, controls, nested, system, input, tools,   *)
(* hosted, output, extra, state].  Partial functions stand for records     *)
(* whose missing fields are undefined.  Schemas are left out: a request    *)
(* with output "provider_native" has one.  A message of the input is       *)
(* [role, parts], its parts being kinds of content; a string content is    *)
(* the part "string".                                                      *)
(***************************************************************************)
EXTENDS ModelProfiles, ToolPermissions, Collections, SequencesExt

NoRef == [provider |-> "none", model |-> "none"]
Only(f, keys) == [k \in DOMAIN f \cap keys |-> f[k]]
When(condition, f) == IF condition THEN f ELSE Nothing
Has(f, key) == key \in DOMAIN f

--------------------------------------------------------------------------
(* config/index.ts.  A config is [profile, env, file, mapping], env being  *)
(* [profile, variables, read], mapping and file [profile, values,          *)
(* overrides, read].  The value of "provider" or "model" is a ref, parts of which may *)
(* be "none".                                                              *)

ModelSurfaces == {"model", "runtime"}
WorkflowProfile(surfaces, defaults, requires) == [surfaces |-> surfaces, defaults |-> defaults, requires |-> requires]
FirstProfiles ==
    [ none                  |-> WorkflowProfile({"model"}, Nothing, {}),
      fast_text             |-> WorkflowProfile(ModelSurfaces, Single("temperature", "0.2"), {}),
      structured_extraction |-> WorkflowProfile(ModelSurfaces, Single("temperature", "0"),
                                                {"output_spec", "output_schema", "output_type"}),
      tool_agent            |-> WorkflowProfile({"runtime"}, Single("parallel_tool_calls", "true"),
                                                {"tools", "toolsets", "hosted_tools"}),
      retrieval_agent       |-> WorkflowProfile(ModelSurfaces, [tool_search |-> "on", compaction |-> "auto"],
                                                {"hosted_tools", "toolsets", "tools", "data_sources", "tool_search"}),
      coding_agent          |-> WorkflowProfile({"runtime"}, [cache |-> "ephemeral", compaction |-> "auto"], {"workspace"}),
      cloud_agent_session   |-> WorkflowProfile({"agent_session"}, Nothing, {"agent"}),
      realtime_voice        |-> WorkflowProfile({"realtime"}, Nothing, {}) ]
ReliabilityProfiles ==
    [ eval_run         |-> WorkflowProfile(ModelSurfaces, [temperature |-> "0", parallel_tool_calls |-> "false"], {}),
      cost_sensitive   |-> WorkflowProfile(ModelSurfaces, [temperature |-> "0.2", cache |-> "auto"], {}),
      high_reliability |-> WorkflowProfile(ModelSurfaces,
                               [temperature |-> "0", parallel_tool_calls |-> "false", reasoning_effort |-> "high"], {}) ]
WorkflowProfiles == FirstProfiles ++ ReliabilityProfiles

\* fromEnv(): of two variables for one field the later in the table counts.  Kept are the fields of
\* the model; a variable for a part of a field is left out.  A malformed one makes the layer unreadable.
EnvFields ==
    << <<"PROVIDER", "provider">>, <<"MODEL", "model">>, <<"TEMPERATURE", "temperature">>, <<"TOOLS", "tools">>,
       <<"TOOLS_JSON", "tools">>, <<"TOOL_CHOICE_JSON", "tool_choice">>, <<"PARALLEL_TOOL_CALLS", "parallel_tool_calls">>,
       <<"REASONING_EFFORT", "reasoning_effort">>, <<"VERBOSITY", "verbosity">>, <<"CACHE_JSON", "cache">>,
       <<"TOOL_SEARCH_JSON", "tool_search">>, <<"COMPACTION_JSON", "compaction">> >>
FromEnv(env) ==
    LET given == {i \in DOMAIN EnvFields : Has(env.variables, EnvFields[i][1])}
        Named(name) == {i \in given : EnvFields[i][2] = name}
        Latest(name) == CHOOSE i \in Named(name) : \A j \in Named(name) : j <= i
    IN  [name \in {EnvFields[i][2] : i \in given} |-> env.variables[EnvFields[Latest(name)][1]]]

\* fromMapping(): the "overrides" block of a mapping or a file wins over its other fields.
FromMapping(mapping) == mapping.overrides ++ mapping.values

\* fromFile(): the file is JSON or TOML that holds a mapping, or it is refused.
FromFile(file) == FromMapping(file)

\* RuntimeConfig.load(): mapping over file over environment, and the first profile named.
LoadedProfile(config) ==
    LET named == SelectSeq(<<config.profile, config.mapping.profile, config.file.profile, config.env.profile>>,
                           LAMBDA name : name # "none")
    IN  IF named = << >> THEN "none" ELSE named[1]
\* A mutant: the environment wins over the file.
OverridesEnvFirst(config) == FromMapping(config.mapping) ++ FromEnv(config.env) ++ FromFile(config.file)

Overrides(config) == FromMapping(config.mapping) ++ FromFile(config.file) ++ FromEnv(config.env)
MergedValues(config) == Overrides(config) ++ WorkflowProfiles[LoadedProfile(config)].defaults

\* validate(): the profile serves this surface and something it requires is there.
ConfigValid(config, surface) ==
    LET profile == WorkflowProfiles[LoadedProfile(config)]
    IN  /\ LoadedProfile(config) # "none" => surface \in profile.surfaces
        /\ profile.requires # {} => profile.requires \cap DOMAIN MergedValues(config) # {}

\* normalizeProviderModel(): a qualified model becomes the provider, which must not name another.
Qualified(values) == Has(values, "model") /\ values["model"].provider # "none"
ConfigAgrees(values) ==
    (Qualified(values) /\ Has(values, "provider")) => values["provider"].provider = values["model"].provider
ConfigRef(values, name) ==
    IF Qualified(values) THEN IF name = "provider" THEN values["model"] ELSE NoRef
    ELSE IF Has(values, name) THEN values[name] ELSE NoRef

ConfigLoads(config) ==
    /\ config.file.read /\ config.env.read
    /\ ConfigValid(config, "model")
    /\ ConfigAgrees(MergedValues(config))

--------------------------------------------------------------------------
(* runtime/model-runtime.ts and providers/registry.ts.  The provider of a  *)
(* call or of its config is a key or a whole ref, and serves as the hint   *)
(* of a model without one, or as the model itself.                         *)
Target(call) ==
    LET values == MergedValues(call.config)
        hint == IF call.hint # "none" THEN [provider |-> call.hint, model |-> "none"] ELSE ConfigRef(values, "provider")
        ref  == IF call.ref # NoRef THEN call.ref ELSE ConfigRef(values, "model")
    IN  IF ref = NoRef THEN IF hint.model # "none" THEN hint ELSE NoRef
        ELSE IF ref.provider # "none" THEN ref
        ELSE [provider |-> hint.provider, model |-> ref.model]
Registered == {"openai", "xai", "anthropic", "google", "openrouter"}

\* {...configured, ...withoutUndefined(explicit)}
Combined(call) ==
    LET values == MergedValues(call.config)
    IN  call.controls ++ Only(values, DOMAIN values \ {"provider", "model"})

\* normalizeTurnRequest(): a nested control is the top-level one, unless they differ.
NestedAgree(call) ==
    \A name \in DOMAIN call.nested \cap DOMAIN Combined(call) : call.nested[name] = Combined(call)[name]
Normalized(call) ==
    [ provider |-> Target(call).provider, model |-> Target(call).model, system |-> call.system, input |-> call.input,
      tools |-> call.tools, hosted |-> call.hosted, controls |-> call.nested ++ Combined(call),
      output |-> call.output, extra |-> call.extra, state |-> call.state ]

\* hostedToolKind(): the type that reaches the wire is the declared one, or a version of it.
HostedKind(type) == CanonicalRef(<<"hosted", type>>)[2]
WebSearchTypes == {"web_search", "web_search_20250305"}
\* A mutant: only the declared type is looked at.
KindStandsDeclared(spec) == TRUE

KindStands(spec) ==
    \/ spec.as \in {"none", spec.type}
    \/ HostedKind(spec.type) = "web_search" /\ spec.as \in WebSearchTypes
    \/ HostedKind(spec.as) = HostedKind(spec.type)
ClientExecuted == {"apply_patch", "computer", "memory", "text_editor", "shell"}
HostedVerdict(frames, spec) ==
    LET kind == HostedKind(spec.type)
    IN  PackageDecision(frames, HostedRequest(kind, IF kind = "web_search" THEN "before_hosted_tool_config"
                                                    ELSE "before_tool_exposure"))

\* validatePackageModelConfig() and gatePackageModelConfig().
PackageAccepts(frames, request) ==
    frames # NoFrames =>
      /\ ~ ("tool_search" \in DOMAIN request.controls /\ request.controls["tool_search"] = "on")
      /\ request.extra = Nothing
      /\ \A spec \in request.hosted :
           /\ KindStands(spec)
           /\ IF HostedKind(spec.type) = "web_search"
              THEN HostedVerdict(frames, spec) # "require_approval"
              ELSE /\ HostedKind(spec.type) \in ClientExecuted
                   /\ HostedKind(spec.type) = "shell" => spec.local
PackageKeeps(frames, request) ==
    IF frames = NoFrames THEN request
    ELSE [request EXCEPT !.hosted = {spec \in @ : HostedVerdict(frames, spec) # "deny"}]

--------------------------------------------------------------------------
(* The messages of a body: sequences of <<role, kind>>, one for each part, *)
(* without the system messages where the provider wants them apart.  A     *)
(* part that has no place there is refused.  Media have a source.          *)
Roles == {"system", "user", "assistant", "tool"}
OfRole(input, roles) == SelectSeq(input, LAMBDA m : m.role \in roles)
Flattened(input, Role(_), Kind(_, _)) ==
    Joined([i \in 1 .. Len(input) |->
        [j \in 1 .. Len(input[i].parts) |-> <<Role(input[i].role), Kind(input[i].role, input[i].parts[j])>>]])
Textual == {"string", "text", "json"}

\* mapOpenAIInput(): a tool's answer must be a part, not a string.
OpenAIMappable(message) ==
    IF message.role = "tool" THEN ToSet(message.parts) \subseteq {"tool_result"}
    ELSE ToSet(message.parts) \cap {"audio", "video_frame", "tool_result"} = {}
OpenAIKind(role, kind) ==
    CASE kind \in Textual -> IF role = "assistant" /\ kind # "json" THEN "output_text" ELSE "input_text"
      [] kind = "image" -> "input_image"
      [] kind \in {"file", "file_ref"} -> "input_file"
      [] kind = "tool_result" -> "function_call_output"
      [] OTHER -> kind
OpenAIMessages(input) == Flattened(input, LAMBDA role : IF role = "tool" THEN "none" ELSE role, OpenAIKind)

\* mapAnthropicMessages(), its helpers mapToolResults(), messageToText() and mapAnthropicPart().
AnthropicMappable(message) ==
    LET parts == ToSet(message.parts)
    IN  CASE message.role = "tool" -> parts \subseteq {"tool_result", "string"}
          [] message.role = "system" -> parts \subseteq Textual
          [] OTHER -> parts \cap {"audio", "video_frame"} = {}
AnthropicKind(role, kind) ==
    CASE role = "tool" -> "tool_result"
      [] kind \in Textual -> "text"
      [] kind \in {"file", "file_ref"} -> "document"
      [] OTHER -> kind
AnthropicMessages(input) ==
    Flattened(OfRole(input, Roles \ {"system"}), LAMBDA role : IF role = "tool" THEN "user" ELSE role, AnthropicKind)

\* mapGeminiInput(), mapGeminiMessageParts() and mapGeminiPart().
GoogleMappable(message) == "video_frame" \notin ToSet(message.parts)
GoogleKind(role, kind) ==
    CASE kind = "tool_result" \/ (role = "tool" /\ kind = "string") -> "functionResponse"
      [] kind \in Textual -> "text"
      [] kind \in {"image", "audio", "file"} -> "media"
      [] kind = "file_ref" -> "fileData"
      [] OTHER -> kind
GoogleMessages(input) ==
    Flattened(OfRole(input, Roles \ {"system"}), LAMBDA role : IF role = "assistant" THEN "model" ELSE "user", GoogleKind)

\* inputToMessages(): every content becomes one text.
ChatMessages(input) == [i \in 1 .. Len(input) |-> <<input[i].role, "string">>]

Mappable(provider, message) ==
    CASE provider \in {"openai", "xai"} -> OpenAIMappable(message)
      [] provider = "anthropic" -> AnthropicMappable(message)
      [] provider = "google" -> GoogleMappable(message)
      [] OTHER -> TRUE
MappedMessages(provider, input) ==
    CASE provider \in {"openai", "xai"} -> OpenAIMessages(input)
      [] provider = "anthropic" -> AnthropicMessages(input)
      [] provider = "google" -> GoogleMessages(input)
      [] OTHER -> ChatMessages(input)
=============================================================================
