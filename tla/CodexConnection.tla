---------------------------- MODULE CodexConnection ----------------------------
(***************************************************************************)
(* CodexConnection (providers/codex-app-server.ts): the requests of this   *)
(* side by their callers, the reader of the inbound messages, close() and  *)
(* fail().  The transport and the app-server behind it are external: a     *)
(* send or a close settles either way, and a message may be delivered      *)
(* until the transport has closed.  A caller has one request at a time; a  *)
(* turn is named by the caller that asked for it.                          *)
(***************************************************************************)
EXTENDS Naturals, Sequences, FiniteSets

CONSTANTS Callers, Nobody

VARIABLES
    reader,             \* off, reading, answering (a send of the reader is awaited) or ended
    closed,             \* this.closed: no further writes
    transportClosed,    \* this.transportClosed: close() was called
    closing,            \* who awaits transport.close()
    transport,          \* open, or closed once its close() was fulfilled: no message comes any more
    pending,            \* callers with an entry in this.pending
    sending,            \* callers whose transport.send() is awaited
    kind,               \* what each caller asked for
    answer,             \* how the promise of each was settled
    turn                \* app-server: the turn each caller asked for

connVars == <<reader, closed, transportClosed, closing, transport, pending, sending, kind, answer, turn>>

ConnInit ==
    /\ reader = "off" /\ closed = FALSE /\ transportClosed = FALSE
    /\ closing = Nobody /\ transport = "open"
    /\ pending = {} /\ sending = {}
    /\ kind = [c \in Callers |-> "none"]
    /\ answer = [c \in Callers |-> "none"]
    /\ turn = [c \in Callers |-> "none"]

\* request(): registered, then handed to the transport.
Request(c, what) ==
    /\ ~closed
    /\ pending' = pending \cup {c}
    /\ sending' = sending \cup {c}
    /\ kind' = [kind EXCEPT ![c] = what]
    /\ answer' = [answer EXCEPT ![c] = "none"]
    /\ turn' = IF what = "turn/start" THEN [turn EXCEPT ![c] = "running"] ELSE turn
    /\ UNCHANGED <<reader, closed, transportClosed, closing, transport>>

SendSettles(c) ==
    /\ c \in sending
    /\ sending' = sending \ {c}
    /\ \/ UNCHANGED <<pending, answer>>
       \/ pending' = pending \ {c} /\ answer' = [answer EXCEPT ![c] = "error"]
    /\ UNCHANGED <<reader, closed, transportClosed, closing, transport, kind, turn>>

\* The promise of request() has settled and its caller goes on.
Returned(c) == kind[c] # "none" /\ c \notin sending /\ answer[c] # "none"

Took(c) == kind' = [kind EXCEPT ![c] = "none"]

\* The app-server answers: handleResponse().
Respond(c, outcome) ==
    /\ reader = "reading" /\ transport = "open" /\ c \in pending
    /\ pending' = pending \ {c}
    /\ answer' = [answer EXCEPT ![c] = outcome]
    /\ turn' = IF outcome = "error" /\ kind[c] = "turn/start" THEN [turn EXCEPT ![c] = "none"] ELSE turn
    /\ UNCHANGED <<reader, closed, transportClosed, closing, transport, sending, kind>>

RejectPending ==
    /\ answer' = [c \in Callers |-> IF c \in pending THEN "error" ELSE answer[c]]
    /\ pending' = {}

\* The connection's part of close(), for the first to call it.
CloseBegins(c) ==
    /\ ~transportClosed
    /\ transportClosed' = TRUE /\ closed' = TRUE /\ closing' = c
    /\ UNCHANGED <<reader, transport, pending, sending, kind, answer, turn>>

\* Mutant: what was asked is left unanswered.
CloseSettlesSilently ==
    /\ closing # Nobody
    /\ closing' = Nobody /\ transport' = "closed"
    /\ UNCHANGED <<reader, closed, transportClosed, pending, sending, kind, answer, turn>>

\* transport.close() was fulfilled: it has ended the messages.
CloseSettles ==
    /\ closing # Nobody
    /\ closing' = Nobody /\ transport' = "closed"
    /\ RejectPending
    /\ UNCHANGED <<reader, closed, transportClosed, sending, kind, turn>>

\* It was rejected: close() throws and rejects nobody.
CloseThrows ==
    /\ closing # Nobody
    /\ closing' = Nobody
    /\ UNCHANGED <<reader, closed, transportClosed, transport, pending, sending, kind, answer, turn>>

\* The message stream ends or throws, or an answer of the reader cannot be sent.
ReaderEnds ==
    /\ reader \in {"reading", "answering"}
    /\ reader' = "ended"
    /\ IF closed THEN UNCHANGED <<closed, pending, answer>> ELSE closed' = TRUE /\ RejectPending
    /\ UNCHANGED <<transportClosed, closing, transport, sending, kind, turn>>

Nothing == UNCHANGED connVars
=============================================================================
