---------------------------- MODULE RealtimeConnect ----------------------------
(***************************************************************************)
(* RealtimeRuntime.connect(): what a request and a configuration make of a *)
(* session, or why there is none.                                          *)
(*                                                                         *)
(* A request is [model, transport, config, tools, tool_mode], a            *)
(* configuration [provider, model, transport, realtime_session, tool_mode] *)
(* of any values; "unset" stands for undefined.  A config of a session is  *)
(* a function whose domain are the fields it has.  The values of an        *)
(* injected provider's capabilities are a constant.                        *)
(***************************************************************************)
EXTENDS TLC

CONSTANTS
    Capabilities,   \* [transports, input_modalities, output_modalities, supports_tools]
    Realtime        \* the refs that name a registered realtime provider and its model

OrElse(value, fallback) == IF value # "unset" THEN value ELSE fallback

\* readTransport() and readToolMode(): a configured value that is none of the known ones is ignored.
Known(value, values) == IF value \in values THEN value ELSE "unset"
ReadTransport(value) == Known(value, {"websocket", "webtransport", "webrtc"})
ReadToolMode(value) == Known(value, {"manual", "auto", "disabled", "provider_managed"})

\* readRealtimeConfig(): the voice of the audio block counts when the config has none of its own.
ReadRealtimeConfig(config) ==
    IF "audio" \in DOMAIN config THEN config @@ ("voice" :> config["audio"]) ELSE config
SessionConfig(request, configured) == request.config @@ ReadRealtimeConfig(configured.realtime_session)

\* validateRealtimeConfig(), of the first config and of every update.
ConfigSupported(config) ==
    \A field \in {"input_modalities", "output_modalities"} \cap DOMAIN config :
        config[field] \subseteq Capabilities[field]

ModelRef(request, configured) == OrElse(request.model, OrElse(configured.provider, configured.model))
TransportOf(request, configured) ==
    OrElse(request.transport,
        OrElse(ReadTransport(configured.transport),
            IF Capabilities.transports = << >> THEN "unset" ELSE Capabilities.transports[1]))
ToolMode(request, configured) == OrElse(request.tool_mode, OrElse(ReadToolMode(configured.tool_mode), "manual"))

Connects(request, configured) ==
    /\ ModelRef(request, configured) \in Realtime
    /\ \E i \in DOMAIN Capabilities.transports : Capabilities.transports[i] = TransportOf(request, configured)
    /\ ConfigSupported(SessionConfig(request, configured))
    /\ request.tools # {} => ToolMode(request, configured) # "disabled" /\ Capabilities.supports_tools

\* The session keeps the tool mode, and a tool runtime when it is to carry out the calls itself.
Session(request, configured) ==
    [ tool_mode |-> ToolMode(request, configured),
      tool_runtime |-> ToolMode(request, configured) = "auto" /\ request.tools # {} ]
=============================================================================
