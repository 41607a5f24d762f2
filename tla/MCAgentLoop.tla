---------------------------- MODULE MCAgentLoop ----------------------------
(* AgentLoop with small constants for TLC: a provider and one fallback.    *)
EXTENDS AgentLoop

TwoCandidates == <<"primary", "fallback">>
=============================================================================
