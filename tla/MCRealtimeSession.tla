-------------------------- MODULE MCRealtimeSession --------------------------
(* Instances of RealtimeSession: one tool, which may be edited into another handler, with the same scopes or others. *)
EXTENDS RealtimeSession

Tool(handler, scopes) ==
    [ref |-> <<"", "deploy">>, operation |-> "", handler |-> handler, scopes |-> scopes,
     connector |-> "none", connector_scopes |-> {}]

\* The package asks before it lets the tool write, lets it read, and grants nothing else.
Guarded == {Tool("h1", {"write"}), Tool("h2", {"write"}), Tool("h1", {"delete"}), Tool("h2", {"read"})}

Package == << [ref |-> <<"local", "deploy">>, scopes |-> {"read", "write"}, connector |-> "none",
               connector_scopes |-> {}, approval_mode |-> "on_write"] >>
OneFrame == << Package >>
OpenAIRealtime ==
    [transports |-> <<"websocket", "webrtc">>, input_modalities |-> {"text", "audio", "image"},
     output_modalities |-> {"text", "audio"}, supports_tools |-> TRUE]
RealtimeRefs == {"openai-realtime:gpt-realtime"}

\* Of these three connect: two that carry out calls themselves, one of them without a tool, and one
\* that leaves them to its application.
Request(transport, config, tools, mode) ==
    [model |-> "openai-realtime:gpt-realtime", transport |-> transport, config |-> config, tools |-> tools, tool_mode |-> mode]
Connections ==
    {Request("unset", "output_modalities" :> {"audio"}, {"deploy"}, "auto"), Request("webrtc", << >>, {"deploy"}, "unset"),
     Request("webtransport", << >>, {}, "unset"), Request("unset", "input_modalities" :> {"video"}, {}, "auto"),
     Request("unset", << >>, {"deploy"}, "disabled"), Request("unset", << >>, {}, "auto")}
Voice ==
    {[provider |-> "unset", model |-> "unset", transport |-> "websocket", tool_mode |-> "manual",
      realtime_session |-> [input_modalities |-> {"text", "audio"}, output_modalities |-> {"text", "audio"}, audio |-> "alloy"]]}
SomeUpdates == {"output_modalities" :> {"text"}, "output_modalities" :> {"video"}}
StreamSymmetry == Permutations(Streams)
=============================================================================
