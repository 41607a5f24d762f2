---------------------------- MODULE CodexProtocol ----------------------------
(***************************************************************************)
(* The tables and checks of providers/codex-app-server.ts: which specs are *)
(* refused before a transport is opened, and what a buffered event is to   *)
(* the consumer of a stream.  An event is [method, turn, status,           *)
(* item, synthesized]; only this side makes synthesized ones.              *)
(***************************************************************************)
EXTENDS Naturals, Sequences

Unset == "unset"
Sandboxes == {"read-only", "workspace-write", "full-access"}

\* validateCodexAgentSpec(): nothing of Blackbox is mapped into the app-server.
AgentRefused(spec) == spec.tools \cup spec.hosted_tools \cup spec.mcp_servers # {}

\* codexProcessEnvironment(): strings only, and never the API key.
EnvironmentRefused(env) ==
    \E key \in DOMAIN env : env[key] = "not a string" \/ key = "OPENAI_API_KEY"

CodexOption(spec, task) == IF task.sandbox # Unset THEN task.sandbox ELSE spec.sandbox

\* What codexThreadStartParams() throws for: ephemeral() and sandboxMode().
ThreadRefused(spec, task) ==
    \/ task.ephemeral = "not a boolean"
    \/ CodexOption(spec, task) \notin Sandboxes \cup {Unset}

ItemStarted == [ commandExecution |-> "workspace.command.started", mcpToolCall |-> "mcp.call.started",
                 webSearch |-> "hosted_tool.call.started", dynamicToolCall |-> "hosted_tool.call.started",
                 agentMessage |-> "agent.message" ]
ItemCompleted == [ commandExecution |-> "workspace.command.completed", fileChange |-> "workspace.file.changed",
                   mcpToolCall |-> "mcp.call.completed", webSearch |-> "hosted_tool.call.completed",
                   dynamicToolCall |-> "hosted_tool.call.completed", agentMessage |-> "agent.message" ]
Streamed == [ s \in {"turn/started", "item/agentMessage/delta", "item/reasoning/textDelta",
                     "item/commandExecution/outputDelta", "item/fileChange/outputDelta",
                     "turn/diff/updated", "item/mcpToolCall/progress"} |->
              CASE s = "turn/started" -> "model.request.started"
                [] s = "item/agentMessage/delta" -> "model.text.delta"
                [] s = "item/reasoning/textDelta" -> "model.reasoning.delta"
                [] s = "item/commandExecution/outputDelta" -> "workspace.command.output"
                [] s = "item/mcpToolCall/progress" -> "mcp.call.started"
                [] OTHER -> "workspace.file.changed" ]
Synthesized == [ s \in {"blackbox/session/started", "blackbox/session/cancelled",
                        "blackbox/session/failed", "blackbox/approval/requested"} |->
                 CASE s = "blackbox/session/started" -> "session.started"
                   [] s = "blackbox/session/cancelled" -> "session.cancelled"
                   [] s = "blackbox/session/failed" -> "session.failed"
                   [] OTHER -> "approval.requested" ]

\* codexEventType(): a method nobody knows, and a private one from the wire, is a log line.
EventType(event) ==
    LET of(table, key, other) == IF key \in DOMAIN table THEN table[key] ELSE other
    IN  CASE event.method = "turn/completed" ->
                 of([ interrupted |-> "session.cancelled", failed |-> "session.failed" ],
                    event.status, "session.completed")
          [] event.method = "item/started" -> of(ItemStarted, event.item, "model.item.created")
          [] event.method = "item/completed" -> of(ItemCompleted, event.item, "model.item.completed")
          [] OTHER -> of(Streamed, event.method, "cloud_agent.log")

\* coerceCodexEvent(): authority belongs to the objects this side made.
CoercedType(event) ==
    IF event.synthesized /\ event.method \in DOMAIN Synthesized THEN Synthesized[event.method]
    ELSE EventType(event)
=============================================================================
