---------------------------- MODULE CodexSession ----------------------------
(***************************************************************************)
(* One thread of CodexAppServerSessions (providers/codex-app-server.ts):   *)
(* startSession(), sendMessage(), approve(), cancel() and close() over one *)
(* connection, with the event streams of the session.  An action runs from *)
(* one await or yield to the next.                                         *)
(***************************************************************************)
EXTENDS CodexProtocol, CodexConnection

CONSTANTS
    Starter,        \* the call of startSession()
    Senders,        \* calls of sendMessage()
    Cancellers,     \* calls of cancel()
    Closers,        \* calls of close()
    Streams,        \* calls of streamEvents(), each pulled by its own consumer
    ApprovalIds,    \* what approvals may be called
    Specs, Tasks,   \* what startSession() may be given
    Cursors,        \* positions a stream may be opened after
    Loads,          \* what a behaviour is made of: its calls and streams, and the bounds on the
                    \* notifications within turns and on the requests of the app-server
    SerialSenders   \* no two sendMessage() at a time

ASSUME CallersAssumption ==
    /\ Callers = {Starter} \cup Senders \cup Cancellers \cup Closers
    /\ Starter \notin Senders \cup Cancellers \cup Closers
    /\ Senders \cap (Cancellers \cup Closers) = {} /\ Cancellers \cap Closers = {}
    /\ Nobody \notin Callers

ASSUME CursorsAssumption == Cursors \subseteq Nat

VARIABLES
    call,       \* each caller: where it is, the turn it is about, settled in cancel()
    bound,      \* the connection knows the session
    listed,     \* the session is in this.sessions
    events,     \* session.events
    current,    \* session.current_turn_id
    start,      \* session.current_turn_start_index
    over,       \* session.closed
    approvals,  \* session.approvals: the request held under each name, 0 for none
    asked,      \* app-server: what its requests are called
    answers,    \* app-server: the answers it was sent
    stream,     \* each stream: where it is and its locals
    items,      \* history: notifications so far
    spec, task, \* what startSession() was given
    load        \* the load of this behaviour

sessVars == <<call, bound, listed, events, current, start, over, approvals, stream>>
serverVars == <<asked, answers, items>>
givenVars == <<spec, task, load>>
codexVars == <<connVars, sessVars, serverVars, givenVars>>

NoTurn == Nobody
Event(method, t, status, item, synthesized) ==
    [method |-> method, turn |-> t, status |-> status, item |-> item, synthesized |-> synthesized]

Completes(event, target) ==
    event.method = "turn/completed" /\ ~event.synthesized /\ target \in {NoTurn, event.turn}
IsComplete(log, target) == \E i \in 1 .. Len(log) : Completes(log[i], target)

Init ==
    /\ ConnInit
    /\ spec \in Specs /\ task \in Tasks /\ load \in Loads
    /\ call = [c \in Callers |-> [at |-> "off", turn |-> NoTurn, settled |-> FALSE]]
    /\ bound = FALSE /\ listed = FALSE
    /\ events = << >> /\ current = NoTurn /\ start = 0 /\ over = FALSE
    /\ approvals = [a \in ApprovalIds |-> 0]
    /\ asked = << >> /\ answers = << >> /\ items = 0
    /\ stream = [s \in Streams |-> [at |-> "off", from |-> 0, cursor |-> 0, pos |-> 0, target |-> NoTurn]]

Called(c) == listed /\ call[c].at = "off" /\ c \in load.calls
At(c, where) == call' = [call EXCEPT ![c].at = where]

\* notifySession(): whoever waits looks again.
Woken(streams) == [s \in Streams |-> IF streams[s].at = "waiting" THEN [streams[s] EXCEPT !.at = "look"] ELSE streams[s]]

\* appendEvent(): nothing is recorded before the session is bound.
Append1(event) ==
    IF bound THEN events' = Append(events, event) /\ stream' = Woken(stream)
    ELSE UNCHANGED <<events, stream>>

-----------------------------------------------------------------------------
(* startSession() *)

BadSpec == AgentRefused(spec) \/ EnvironmentRefused(spec.environment) \/ ThreadRefused(spec, task)

\* createAgent() and the checks before connect(); connect() may fail too.
Connect ==
    /\ call[Starter].at = "off"
    /\ \/ /\ ~BadSpec /\ At(Starter, "initialize") /\ Request(Starter, "initialize")
       \/ At(Starter, "failed") /\ Nothing
    /\ UNCHANGED <<bound, listed, events, current, start, over, approvals, stream, serverVars, givenVars>>

ReaderStarts ==
    /\ reader = "off" /\ call[Starter].at \notin {"off", "failed"}
    /\ reader' = "reading"
    /\ UNCHANGED <<closed, transportClosed, closing, transport, pending, sending, kind, answer, turn,
                   sessVars, serverVars, givenVars>>

Initialized ==
    /\ call[Starter].at = "initialize" /\ Returned(Starter) /\ answer[Starter] = "ok" /\ ~closed
    /\ At(Starter, "thread") /\ Request(Starter, "thread/start")
    /\ UNCHANGED <<bound, listed, events, current, start, over, approvals, stream, serverVars, givenVars>>

\* The thread is bound, its session announced, and its first turn asked for.
ThreadStarted ==
    /\ call[Starter].at = "thread" /\ Returned(Starter) /\ answer[Starter] = "ok" /\ ~closed
    /\ At(Starter, "turn")
    /\ bound' = TRUE
    /\ events' = <<Event("blackbox/session/started", NoTurn, "", "", TRUE)>>
    /\ start' = 1
    /\ Request(Starter, "turn/start")
    /\ UNCHANGED <<listed, current, over, approvals, stream, serverVars, givenVars>>

FirstTurnStarted ==
    /\ call[Starter].at = "turn" /\ Returned(Starter) /\ answer[Starter] = "ok"
    /\ At(Starter, "done") /\ Took(Starter)
    /\ current' = Starter /\ listed' = TRUE
    /\ UNCHANGED <<reader, closed, transportClosed, closing, transport, pending, sending, answer, turn,
                   bound, events, start, over, approvals, stream, serverVars, givenVars>>

\* Whatever threw: the connection is closed.
StartFails ==
    /\ call[Starter].at \in {"initialize", "thread", "turn"} /\ Returned(Starter)
    /\ \/ answer[Starter] = "error"
       \/ closed /\ call[Starter].at # "turn"
       \/ call[Starter].at = "initialize"       \* "initialized" could not be sent
    /\ At(Starter, "closing")
    /\ CloseBegins(Starter)
    /\ approvals' = [a \in ApprovalIds |-> 0]
    /\ UNCHANGED <<bound, listed, events, current, start, over, stream, serverVars, givenVars>>

-----------------------------------------------------------------------------
(* sendMessage() *)

\* A turn's start moves before request() finds the connection closed.
SendBegins(c) ==
    /\ Called(c)
    /\ SerialSenders => \A other \in Senders : call[other].at \in {"off", "done", "failed"}
    /\ LET steers == current # NoTurn /\ ~IsComplete(events, current)
       IN  /\ start' = IF over \/ steers THEN start ELSE Len(events)
           /\ IF over \/ closed THEN At(c, "failed") /\ Nothing
              ELSE IF steers
              THEN call' = [call EXCEPT ![c].at = "steer", ![c].turn = current] /\ Request(c, "turn/steer")
              ELSE At(c, "turn") /\ Request(c, "turn/start")
    /\ UNCHANGED <<bound, listed, events, current, over, approvals, stream, serverVars, givenVars>>

SendReturns(c) ==
    /\ call[c].at \in {"steer", "turn"} /\ c \in Senders /\ Returned(c)
    /\ At(c, IF answer[c] = "ok" THEN "done" ELSE "failed") /\ Took(c)
    /\ current' = IF call[c].at = "turn" /\ answer[c] = "ok" THEN c ELSE current
    /\ UNCHANGED <<reader, closed, transportClosed, closing, transport, pending, sending, answer, turn,
                   bound, listed, events, start, over, approvals, stream, serverVars, givenVars>>

-----------------------------------------------------------------------------
(* approve() *)

\* Mutant: the approval is forgotten when its answer was sent.
ForgottenLate(a) == approvals

\* It is forgotten first: no other approve() will find it.
Forgotten(a) == [approvals EXCEPT ![a] = 0]

\* respond() throws when the connection is closed.
Approve(a, decision) ==
    /\ listed /\ approvals[a] # 0
    /\ approvals' = Forgotten(a)
    /\ \/ ~closed /\ answers' = Append(answers, <<approvals[a], decision>>)
       \/ UNCHANGED answers
    /\ UNCHANGED <<connVars, call, bound, listed, events, current, start, over, stream, asked, items, givenVars>>

-----------------------------------------------------------------------------
(* cancel() and close() *)

\* request() throws when the connection is closed for writes.
CancelBegins(c) ==
    /\ Called(c)
    /\ LET live == ~over /\ current # NoTurn /\ ~IsComplete(events, current)
       IN  /\ call' = [call EXCEPT ![c] = [at |-> IF ~live THEN "close" ELSE IF closed THEN "failed" ELSE "interrupt",
                                           turn |-> current, settled |-> over]]
           /\ IF live /\ ~closed THEN Request(c, "turn/interrupt") ELSE Nothing
    /\ UNCHANGED <<bound, listed, events, current, start, over, approvals, stream, serverVars, givenVars>>

Interrupted(c) ==
    /\ call[c].at = "interrupt" /\ Returned(c)
    /\ At(c, IF answer[c] = "ok" THEN "grace" ELSE "failed") /\ Took(c)
    /\ UNCHANGED <<reader, closed, transportClosed, closing, transport, pending, sending, answer, turn,
                   bound, listed, events, current, start, over, approvals, stream, serverVars, givenVars>>

\* Mutant: the wait has no deadline.
GraceEndsByEvent(c) ==
    /\ call[c].at = "grace" /\ (IsComplete(events, call[c].turn) \/ over)
    /\ At(c, "close")
    /\ UNCHANGED <<connVars, bound, listed, events, current, start, over, approvals, stream, serverVars, givenVars>>

\* waitForSessionUntil(): its condition holds, or its time has passed.
GraceEnds(c) ==
    /\ call[c].at = "grace"
    /\ At(c, "close")
    /\ UNCHANGED <<connVars, bound, listed, events, current, start, over, approvals, stream, serverVars, givenVars>>

ProviderClose(c) ==
    /\ Called(c)
    /\ call' = [call EXCEPT ![c].at = "close", ![c].settled = TRUE]
    /\ Nothing
    /\ UNCHANGED <<bound, listed, events, current, start, over, approvals, stream, serverVars, givenVars>>

\* connection.close(): only the first closes the transport, the others go on at once.
CloseConnection(c) ==
    /\ call[c].at = "close"
    /\ IF transportClosed THEN At(c, "finish") /\ Nothing /\ UNCHANGED approvals
       ELSE At(c, "closing") /\ CloseBegins(c) /\ approvals' = [a \in ApprovalIds |-> 0]
    /\ UNCHANGED <<bound, listed, events, current, start, over, stream, serverVars, givenVars>>

TransportCloses(c) ==
    /\ closing = c /\ call[c].at = "closing"
    /\ \/ CloseSettles /\ At(c, IF c = Starter THEN "failed" ELSE "finish")
       \/ CloseThrows /\ At(c, "failed")
    /\ UNCHANGED <<bound, listed, events, current, start, over, approvals, stream, serverVars, givenVars>>

\* A turn that did not complete is declared cancelled, unless the session had failed before.
Finish(c) ==
    /\ call[c].at = "finish"
    /\ At(c, "done")
    /\ over' = TRUE
    /\ stream' = Woken(stream)
    /\ events' = IF call[c].settled \/ IsComplete(events, call[c].turn) THEN events
                 ELSE Append(events, Event("blackbox/session/cancelled", call[c].turn, "", "", TRUE))
    /\ UNCHANGED <<connVars, bound, listed, current, start, approvals, serverVars, givenVars>>

-----------------------------------------------------------------------------
(* Inbound messages *)

Delivers == reader = "reading" /\ transport = "open"

Answered(c, outcome) ==
    /\ Respond(c, outcome)
    /\ UNCHANGED <<sessVars, serverVars, givenVars>>

\* A notification of turn t, of another thread, or one that only looks private.
Notified(t, method, item) ==
    /\ Delivers /\ turn[t] = "running" /\ items < load.items
    /\ items' = items + 1
    /\ Append1(Event(method, t, "", item, FALSE))
    /\ UNCHANGED <<connVars, call, bound, listed, current, start, over, approvals, asked, answers, givenVars>>

\* Mutant: any completion ends the current turn.
CurrentEndedByAny(t) == NoTurn

\* Only its own completion ends the current turn.
CurrentEnded(t) == IF current = t THEN NoTurn ELSE current

TurnCompleted(t, status) ==
    /\ Delivers /\ turn[t] = "running"
    /\ turn' = [turn EXCEPT ![t] = "done"]
    /\ current' = IF bound THEN CurrentEnded(t) ELSE current
    /\ Append1(Event("turn/completed", t, status, "", FALSE))
    /\ UNCHANGED <<reader, closed, transportClosed, closing, transport, pending, sending, kind, answer,
                   call, bound, listed, start, over, approvals, serverVars, givenVars>>

\* An approval is held until it is decided.
ApprovalAsked(a) ==
    /\ Delivers /\ bound /\ approvals[a] = 0 /\ Len(asked) < load.requests
    /\ asked' = Append(asked, a)
    /\ approvals' = [approvals EXCEPT ![a] = Len(asked) + 1]
    /\ Append1(Event("blackbox/approval/requested", NoTurn, "", a, TRUE))
    /\ UNCHANGED <<connVars, call, bound, listed, current, start, over, answers, items, givenVars>>

\* Any other request, one that is held already, and one nobody is bound for is refused.
RequestRefused(a) ==
    /\ Delivers /\ Len(asked) < load.requests
    /\ a \in ApprovalIds => ~bound \/ approvals[a] # 0
    /\ asked' = Append(asked, a)
    /\ answers' = Append(answers, <<Len(asked) + 1, "error">>)
    /\ reader' = "answering"
    /\ UNCHANGED <<closed, transportClosed, closing, transport, pending, sending, kind, answer, turn,
                   sessVars, items, givenVars>>

RefusalSent ==
    /\ reader = "answering" /\ reader' = "reading"
    /\ UNCHANGED <<closed, transportClosed, closing, transport, pending, sending, kind, answer, turn,
                   sessVars, serverVars, givenVars>>

\* The reader fails unless this side is closing: fail().
Failure ==
    /\ ReaderEnds
    /\ IF closed \/ ~bound THEN UNCHANGED <<over, approvals, events, stream>>
       ELSE /\ over' = TRUE
            /\ approvals' = [a \in ApprovalIds |-> 0]
            /\ Append1(Event("blackbox/session/failed", NoTurn, "", "", TRUE))
    /\ UNCHANGED <<call, bound, listed, current, start, serverVars, givenVars>>

SendOfCall(c) == SendSettles(c) /\ UNCHANGED <<sessVars, serverVars, givenVars>>

-----------------------------------------------------------------------------
(* streamEvents() *)

StreamOnly == UNCHANGED <<connVars, call, bound, listed, events, current, start, over, approvals, serverVars, givenVars>>

\* From the start of the current turn, or after an event of the log.
Open(s, from) ==
    /\ listed /\ stream[s].at = "off" /\ s \in load.streams
    /\ stream' = [stream EXCEPT ![s] = [at |-> "look", from |-> from, cursor |-> from, pos |-> from, target |-> current]]
    /\ StreamOnly

Ends(s) == over \/ IsComplete(events, stream[s].target)

\* Yield what has come, wait for more, or end.
Look(s) ==
    /\ stream[s].at = "look"
    /\ LET now == stream[s]
       IN  stream' = [stream EXCEPT ![s] =
              IF now.cursor < Len(events) THEN [now EXCEPT !.at = "yield", !.pos = now.pos + 1, !.cursor = Len(events)]
              ELSE [now EXCEPT !.at = IF Ends(s) THEN "ended" ELSE "waiting"]]
    /\ StreamOnly

\* Mutant: what came while the consumer held the stream is dropped when the turn is complete.
DrainedOfBatch(s) == Ends(s)

\* What came while the consumer held the stream is delivered before it ends.
Drained(s) == stream[s].cursor >= Len(events) /\ Ends(s)

Resume(s) ==
    /\ stream[s].at = "yield"
    /\ LET now == stream[s]
       IN  stream' = [stream EXCEPT ![s] =
              IF Completes(events[now.pos], now.target) THEN [now EXCEPT !.at = "ended"]
              ELSE IF now.pos < now.cursor THEN [now EXCEPT !.pos = now.pos + 1]
              ELSE [now EXCEPT !.at = IF Drained(s) THEN "ended" ELSE "look"]]
    /\ StreamOnly

Leave(s) ==
    /\ stream[s].at = "yield"
    /\ stream' = [stream EXCEPT ![s].at = "left"]
    /\ StreamOnly

-----------------------------------------------------------------------------
Methods == {<<"item/completed", "fileChange">>, <<"blackbox/session/failed", "">>}

Calls(c) ==
    \/ SendOfCall(c) \/ CloseConnection(c) \/ TransportCloses(c) \/ Finish(c)
    \/ \E outcome \in {"ok", "error"} : Answered(c, outcome)

Next ==
    \/ Connect \/ ReaderStarts \/ Initialized \/ ThreadStarted \/ FirstTurnStarted \/ StartFails
    \/ \E c \in Callers : Calls(c)
    \/ \E c \in Senders : SendBegins(c) \/ SendReturns(c)
    \/ \E a \in ApprovalIds, decision \in {"accept", "decline"} : Approve(a, decision)
    \/ \E c \in Cancellers : CancelBegins(c) \/ Interrupted(c) \/ GraceEnds(c)
    \/ \E c \in Closers : ProviderClose(c)
    \/ \E t \in Callers, m \in Methods : Notified(t, m[1], m[2])
    \/ \E t \in Callers, status \in {"completed", "interrupted"} : TurnCompleted(t, status)
    \/ \E a \in ApprovalIds : ApprovalAsked(a)
    \/ \E a \in ApprovalIds \cup {"other"} : RequestRefused(a)
    \/ RefusalSent \/ Failure
    \/ \E s \in Streams : Look(s) \/ Resume(s) \/ Leave(s) \/ \E from \in {start} \cup {i \in Cursors : i <= Len(events)} : Open(s, from)

Spec == Init /\ [][Next]_codexVars

(***************************************************************************)
(* A send and a close of the transport settle, the app-server answers what *)
(* it was asked or the connection fails, timers fire, and a consumer that  *)
(* does not leave pulls.  Nothing makes a turn complete.                   *)
(***************************************************************************)
Fairness ==
    /\ \A c \in Callers :
          /\ WF_codexVars(SendOfCall(c)) /\ WF_codexVars(\E outcome \in {"ok", "error"} : Answered(c, outcome))
          /\ WF_codexVars(CloseConnection(c)) /\ WF_codexVars(TransportCloses(c)) /\ WF_codexVars(Finish(c))
    /\ \A c \in Cancellers : WF_codexVars(Interrupted(c)) /\ WF_codexVars(GraceEnds(c))
    /\ \A s \in Streams : WF_codexVars(Look(s)) /\ WF_codexVars(Resume(s))
    /\ WF_codexVars(RefusalSent) /\ WF_codexVars(ReaderStarts)

FairSpec == Spec /\ Fairness

(***************************************************************************)
(* What a session owes its application and its app-server.                 *)
(***************************************************************************)

\* What this side made of a failure or a cancellation.
Tells(event) ==
    event.method # "turn/completed" /\ CoercedType(event) \in {"session.failed", "session.cancelled"}

(* A stream that has ended has delivered its turn up to the completion, or *)
(* what says that the session failed or was cancelled, unless close() or a *)
(* cancel() that had read another turn ended it: events that came while    *)
(* its consumer held it are not dropped.                                   *)
StreamsComplete ==
    \A s \in Streams : stream[s].at = "ended" =>
        \/ \E i \in 1 .. Len(events) : i <= stream[s].pos /\ (Completes(events[i], stream[s].target) \/ Tells(events[i]))
        \/ \E c \in Closers : call[c].at = "done"
        \/ \E c \in Cancellers : call[c].at = "done" /\ call[c].turn # stream[s].target

(* Nobody waits for an answer over a connection that is closed, unless the *)
(* transport could not be closed.                                          *)
RequestsSettle ==
    closed /\ (transportClosed => transport = "closed") => pending = {}

(* No request of the app-server is answered twice, although approvals that *)
(* bear one name are decided, refused and asked again in any order.        *)
AnsweredOnce == \A i, j \in 1 .. Len(answers) : answers[i][1] = answers[j][1] => i = j

(* A turn that sendMessage() or startSession() has returned, and that goes *)
(* on, is the one cancel() interrupts and a message steers, whatever turn  *)
(* completed late.                                                         *)
TurnKnown ==
    \A c \in Senders \cup {Starter} :
        call[c].at = "done" /\ turn[c] = "running" => current = c

(* cancel() settles even if the turn it interrupts never completes, and    *)
(* with it the streams of the session; a transport whose close() is        *)
(* rejected may keep it waiting for its answer.                            *)
CancelSettles ==
    \A c \in Cancellers :
        (call[c].at # "off") ~>
            \/ \E d \in {c} \cup Closers : call[d].at = "failed"
            \/ call[c].at = "done" /\ \A s \in Streams : stream[s].at \notin {"look", "waiting", "yield"}
=============================================================================
