-------------------------- MODULE MCAgentSessions --------------------------
(* AgentSessions with small constants for TLC: a session with follow-ups.  *)
EXTENDS AgentSessions

CONSTANTS k1, k2, k3, s1
=============================================================================
