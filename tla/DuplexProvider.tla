---------------------------- MODULE DuplexProvider ----------------------------
(***************************************************************************)
(* DuplexRealtimeProvider (providers/duplex-realtime.ts) with one session: *)
(* its entry in the map of sessions and the injected transport behind it.  *)
(* The transport is external: a command handed to it may be taken or not,  *)
(* and its promise settles either way.                                     *)
(***************************************************************************)
EXTENDS Naturals, Sequences

VARIABLES
    mapped,     \* the session is in the map
    took,       \* what reached the transport, in order
    closes      \* calls of transport.close()

duplexVars == <<mapped, took, closes>>

DuplexInit == mapped = TRUE /\ took = << >> /\ closes = 0

\* require(session).send(command): the transport takes the command, or fails before it did.
Deliver(command) ==
    /\ mapped
    /\ took' = Append(took, command) \/ UNCHANGED took
    /\ UNCHANGED <<mapped, closes>>

\* The session leaves the map before its transport is told to close.
CloseTransport ==
    /\ mapped' = FALSE
    /\ closes' = IF mapped THEN closes + 1 ELSE closes
    /\ UNCHANGED took
=============================================================================
