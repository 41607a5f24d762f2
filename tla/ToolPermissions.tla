--------------------------- MODULE ToolPermissions ---------------------------
(***************************************************************************)
(* core/tool-permissions.ts: what the package permission frames of an      *)
(* async context say about a tool.  A ref is a pair <<namespace, name>>,   *)
(* with namespace "" for a bare name.  A frame is a sequence of grants     *)
(* [ref, scopes, connector, connector_scopes, approval_mode]; a request    *)
(* is what toolRequest() or hostedRequest() make of a definition.          *)
(***************************************************************************)
EXTENDS Naturals, Sequences, FiniteSets

NoFrames == << >>
Verdicts == {"allow", "deny", "require_approval"}
WriteScopes == {"write", "delete", "admin"}
ExecuteScopes == {"execute", "admin"}
HostedAliases == [ bash |-> "shell", computer_use |-> "computer" ]

CanonicalRef(ref) ==
    LET aliased == IF ref[1] = "hosted" /\ ref[2] \in DOMAIN HostedAliases
                   THEN <<"hosted", HostedAliases[ref[2]]>> ELSE ref
    IN  IF aliased[1] = "" THEN <<"local", aliased[2]>> ELSE aliased

\* Scopes that are not declared count as "execute".
RequestScopes(declared) == IF declared = {} THEN {"execute"} ELSE declared

(***************************************************************************)
(* A definition is [ref, operation, handler, scopes, connector,            *)
(* connector_scopes]: a workspace tool names its operation, every other    *)
(* one has operation "".                                                   *)
(***************************************************************************)
ToolRequest(def, checkpoint) ==
    [ ref              |-> IF def.ref[1] = "mcp" THEN def.ref
                           ELSE IF def.operation # "" THEN <<"workspace", def.operation>>
                           ELSE CanonicalRef(def.ref),
      scopes           |-> RequestScopes(def.scopes),
      connector        |-> def.connector,
      connector_scopes |-> def.connector_scopes,
      checkpoint       |-> checkpoint ]

HostedRequest(kind, checkpoint) ==
    [ ref |-> <<"hosted", kind>>, scopes |-> IF kind = "web_search" THEN {"read"} ELSE {"execute"},
      connector |-> "none", connector_scopes |-> {}, checkpoint |-> checkpoint ]

Matches(grant, request) ==
    /\ grant.ref = request.ref
    /\ grant.connector = request.connector
    /\ "admin" \in grant.scopes \/ request.scopes \subseteq grant.scopes
    /\ request.connector_scopes \subseteq grant.connector_scopes

NeedsApproval(grant, request) ==
    \/ grant.approval_mode = "always"
    \/ grant.approval_mode = "on_write" /\ request.scopes \cap WriteScopes # {}
    \/ grant.approval_mode = "on_execute" /\ request.scopes \cap ExecuteScopes # {}

\* PackagePermissions.decide(): the first grant that matches speaks.
DecideFrame(frame, request) ==
    LET hits == {i \in 1 .. Len(frame) : Matches(frame[i], request)}
        first == CHOOSE i \in hits : \A j \in hits : i <= j
    IN  IF hits = {} THEN "deny"
        ELSE IF NeedsApproval(frame[first], request) /\ request.checkpoint # "before_tool_exposure"
             THEN "require_approval" ELSE "allow"

\* packageDecision(): any frame may refuse, any may ask for an approval.
PackageDecision(frames, request) ==
    LET verdicts == {DecideFrame(frames[i], request) : i \in 1 .. Len(frames)}
    IN  IF "deny" \in verdicts THEN "deny"
        ELSE IF "require_approval" \in verdicts THEN "require_approval" ELSE "allow"

\* An approval is bound to the callable and to everything the request says of it.
ApprovalKey(def) == <<def.ref, def.handler, ToolRequest(def, "before_tool_exposure")>>
=============================================================================
