---------------------------- MODULE MCMcpClient ----------------------------
(***************************************************************************)
(* Two callers of one MCP client.                                          *)
(***************************************************************************)
EXTENDS McpClient

CONSTANTS c1, c2, plain, risky, empty

MCCallers == {c1, c2}
MCWants == {[c \in MCCallers |-> IF c = c1 THEN "call" ELSE second] :
              second \in {"refresh"}}
MCLists == {plain, risky, empty}
MCOffering == {plain, risky}
MCPermitted == {plain}
=============================================================================
