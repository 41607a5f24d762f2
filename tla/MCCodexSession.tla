---------------------------- MODULE MCCodexSession ----------------------------
(* Instances of CodexSession: a thread that may be refused, with one follow-up. *)
EXTENDS CodexSession

Plain == [tools |-> {}, hosted_tools |-> {}, mcp_servers |-> {}, environment |-> [HOME |-> "/"], sandbox |-> Unset]
SpecSet == {Plain, [Plain EXCEPT !.environment = [OPENAI_API_KEY |-> "key"]]}
TaskSet == {[sandbox |-> "read-only", ephemeral |-> "true"], [sandbox |-> "read-write", ephemeral |-> "true"]}
Load(calls, streams, itemCount, requests) ==
    [calls |-> calls, streams |-> streams, items |-> itemCount, requests |-> requests]
OneSender == CHOOSE m \in Senders : TRUE
LoadSet == {Load(Senders, {}, 0, 0), Load(Senders, Streams, 0, 0),
            Load(Cancellers, Streams, 1, 1), Load(Cancellers \cup Closers, Streams, 0, 0),
            Load(Cancellers \cup Closers, {}, 0, 2),
            Load({OneSender} \cup Cancellers, Streams, 0, 0)}
=============================================================================
