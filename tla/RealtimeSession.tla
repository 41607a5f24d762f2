---------------------------- MODULE RealtimeSession ----------------------------
(***************************************************************************)
(* One ManagedRealtimeSession (runtime/realtime-runtime.ts) over the       *)
(* duplex provider: the chain of sends, its event streams with the tool    *)
(* calls they carry out, the approvals, update() and close().  An action   *)
(* runs from one await or yield to the next; a stream is at a yield in     *)
(* Yields and may be left there.  The application may edit a registered    *)
(* definition in place at any time.                                        *)
(***************************************************************************)
EXTENDS ToolPermissions, DuplexProvider, RealtimeConnect

CONSTANTS
    Streams,        \* calls of events(), each pulled by its own consumer
    Closers,        \* calls of close()
    Updaters,       \* calls of update()
    Definitions,    \* what the one registered tool may be edited into
    None,           \* no definition, no key
    Requests,       \* what the application connects with
    Configurations, \* the runtime configs it may have
    Updates,        \* the configs of its updates
    Frames,         \* the permission frames events() is called in
    MaxEvents,      \* bound on the events the streams are given
    MaxCommands,    \* bound on the sends of the application
    MaxEdits,       \* bound on the edits of the registered definition
    SerialStreams   \* a stream is opened only when no other is under way

ASSUME BoundsAssumption == MaxEvents \in Nat /\ MaxCommands \in Nat /\ MaxEdits \in Nat
ASSUME ModeAssumption == SerialStreams \in BOOLEAN

VARIABLES
    accepted,   \* what send() appended to the chain, in order: <<"command", its place, None>> or
                \* <<"result", the number of the event it answers, the stream that answers>>
    settled,    \* how many of them were fulfilled
    brokenAt,   \* the first that was rejected, with all after it; 0 for none
    inFlight,   \* provider.send() of the next one is awaited
    session,    \* what connect() has given the session
    closed,     \* this.closed
    tool,       \* the registered definition as it is now
    keys,       \* toolRuntime.package_approvals
    stream,     \* each stream: where it is and the locals of executeToolCall()
    closer,     \* each close(): where it is and the sends it waits for
    updater,    \* each update(): the same; when it has settled it may be called again
    events,     \* history: the kinds of the events the transport has streamed so far
    pulled,     \* each stream: the number of the last event it was given
    pulls,      \* history: how often a stream was given an event
    edits       \* history: edits so far

chainVars == <<accepted, settled, brokenAt, inFlight>>
rtVars == <<mapped, took, closes, accepted, settled, brokenAt, inFlight, session, closed, tool, keys,
            stream, closer, updater, events, pulled, pulls, edits>>

Kinds == {"plain", "call", "unknown", "nameless"}
Yields == {"event", "unnamed", "asked", "decided", "refused", "started", "reported", "rejected", "failing"}
\* Not opened yet, or over: it came to its end, was left or threw.
Ended == {"off", "over"}
\* The outcome of a call is known.
Answerable == {"reported", "refused", "failing"}
Enforced == Frames # NoFrames

Fresh == [at |-> "off", call |-> 0, kind |-> "plain", judged |-> None, user |-> "none",
          package |-> "allow", ticket |-> "none", key |-> None, previous |-> {}, denied |-> FALSE, pos |-> 0]

Init ==
    /\ DuplexInit
    /\ \E request \in Requests, configured \in Configurations :
          Connects(request, configured) /\ session = Session(request, configured)
    /\ accepted = << >> /\ settled = 0 /\ brokenAt = 0 /\ inFlight = FALSE
    /\ closed = FALSE
    /\ tool \in Definitions
    /\ keys = {}
    /\ stream = [s \in Streams |-> Fresh]
    /\ closer = [c \in Closers |-> [at |-> "off", pos |-> 0]]
    /\ updater = [u \in Updaters |-> [at |-> "off", pos |-> 0]]
    /\ events = << >> /\ pulls = 0 /\ edits = 0
    /\ pulled = [s \in Streams |-> 0]

-----------------------------------------------------------------------------
(* The chain of sends: each waits for the one before it. *)

SendState(pos) ==
    IF brokenAt # 0 /\ brokenAt <= pos THEN "rejected"
    ELSE IF pos <= settled THEN "fulfilled" ELSE "pending"

\* Whoever awaited the chain before the next send was appended goes on first.
Awaited(pos) ==
    \/ \E c \in Closers : closer[c] = [at |-> "waiting", pos |-> pos]
    \/ \E u \in Updaters : updater[u] = [at |-> "waiting", pos |-> pos]

Send ==
    /\ ~closed
    /\ Cardinality({i \in 1 .. Len(accepted) : accepted[i][1] = "command"}) < MaxCommands
    /\ accepted' = Append(accepted, <<"command", Len(accepted) + 1, None>>)
    /\ UNCHANGED <<duplexVars, settled, brokenAt, inFlight, session, closed, tool, keys, stream, closer,
                   updater, events, pulled, pulls, edits>>

\* The callback of then(): provider.send(), which throws when the session is gone.
SendNext ==
    /\ brokenAt = 0 /\ ~inFlight /\ settled < Len(accepted) /\ ~Awaited(settled)
    /\ \/ Deliver(accepted[settled + 1]) /\ inFlight' = TRUE /\ UNCHANGED brokenAt
       \/ ~mapped /\ brokenAt' = settled + 1 /\ UNCHANGED <<inFlight, duplexVars>>
    /\ UNCHANGED <<accepted, settled, session, closed, tool, keys, stream, closer, updater, events, pulled, pulls, edits>>

\* Mutant: a rejected send is tried again.
SendSettlesRetrying ==
    /\ inFlight
    /\ inFlight' = FALSE
    /\ settled' \in {settled, settled + 1}
    /\ UNCHANGED <<duplexVars, accepted, brokenAt, session, closed, tool, keys, stream, closer, updater, events, pulled, pulls, edits>>

\* Mutant: the chain goes on after a rejected send.
SendSettlesRecovering ==
    /\ inFlight
    /\ inFlight' = FALSE
    /\ settled' = settled + 1
    /\ UNCHANGED <<duplexVars, accepted, brokenAt, session, closed, tool, keys, stream, closer, updater, events, pulled, pulls, edits>>

\* A command that never reached the transport cannot have been fulfilled.
SendSettles ==
    /\ inFlight
    /\ inFlight' = FALSE
    /\ \/ took # << >> /\ took[Len(took)] = accepted[settled + 1]
          /\ settled' = settled + 1 /\ UNCHANGED brokenAt
       \/ brokenAt' = settled + 1 /\ UNCHANGED settled
    /\ UNCHANGED <<duplexVars, accepted, session, closed, tool, keys, stream, closer, updater, events, pulled, pulls, edits>>

-----------------------------------------------------------------------------
(* update() and close(): each waits for the sends accepted before it. *)

\* A config the provider cannot have is refused.
UpdateBegins(u) ==
    /\ updater[u].at = "off" /\ ~closed
    /\ \E config \in Updates : ConfigSupported(config)
    /\ updater' = [updater EXCEPT ![u] = [at |-> "waiting", pos |-> Len(accepted)]]
    /\ UNCHANGED <<duplexVars, chainVars, session, closed, tool, keys, stream, closer, events, pulled, pulls, edits>>

\* provider.updateSession(): closed is not looked at again, the provider's map is.
UpdateGoes(u) ==
    LET state == SendState(updater[u].pos)
    IN  /\ updater[u].at = "waiting" /\ state # "pending"
        /\ updater' = [updater EXCEPT ![u] = [at |-> "off", pos |-> 0]]
        /\ UNCHANGED <<duplexVars, chainVars, session, closed, tool, keys, stream, closer, events, pulled, pulls, edits>>

CloseBegins(c) ==
    /\ closer[c].at = "off"
    /\ closer' = [closer EXCEPT ![c] = [at |-> IF closed THEN "done" ELSE "waiting", pos |-> Len(accepted)]]
    /\ UNCHANGED <<duplexVars, chainVars, session, closed, tool, keys, stream, updater, events, pulled, pulls, edits>>

\* The flag and the provider's map change together, before transport.close() is awaited.
CloseGoes(c) ==
    /\ closer[c].at = "waiting" /\ SendState(closer[c].pos) = "fulfilled"
    /\ closed' = TRUE
    /\ CloseTransport
    /\ closer' = [closer EXCEPT ![c].at = "closing"]
    /\ UNCHANGED <<chainVars, session, tool, keys, stream, updater, events, pulled, pulls, edits>>

\* A rejected send rejects every close(), and the provider is never told.
CloseFails(c) ==
    /\ closer[c].at = "waiting" /\ SendState(closer[c].pos) = "rejected"
    /\ closer' = [closer EXCEPT ![c].at = "failed"]
    /\ UNCHANGED <<duplexVars, chainVars, session, closed, tool, keys, stream, updater, events, pulled, pulls, edits>>

CloseSettles(c) ==
    /\ closer[c].at = "closing"
    /\ \E to \in {"done", "failed"} : closer' = [closer EXCEPT ![c].at = to]
    /\ UNCHANGED <<duplexVars, chainVars, session, closed, tool, keys, stream, updater, events, pulled, pulls, edits>>

-----------------------------------------------------------------------------
(* The event streams. *)

\* What a step of stream s leaves alone unless it says otherwise.
StreamOnly == UNCHANGED <<duplexVars, chainVars, session, closed, tool, keys, closer, updater, events, pulled, pulls, edits>>
\* The locals of a call are gone with it, and an answer needs none but the number of its call.
Goes(s, to) ==
    stream' = [stream EXCEPT ![s] =
                 CASE to \in Ended \cup {"pull"} -> [Fresh EXCEPT !.at = to]
                   [] to \in Answerable -> [Fresh EXCEPT !.at = to, !.call = stream[s].call]
                   [] OTHER -> [@ EXCEPT !.at = to]]

Open(s) ==
    /\ stream[s].at = "off"
    /\ SerialStreams => \A other \in Streams : stream[other].at \in Ended
    /\ Goes(s, IF closed \/ ~mapped THEN "over" ELSE "pull")
    /\ StreamOnly

\* Each stream iterates transport.events() anew and asks for no event in particular: it is given events
\* in order, but those that other streams were given, before or meanwhile, come again or are missing.
Pull(s, n, kind) ==
    /\ stream[s].at = "pull"
    /\ pulls < MaxEvents /\ pulls' = pulls + 1
    /\ n \in pulled[s] + 1 .. Len(events) + 1
    /\ IF n <= Len(events) THEN kind = events[n] /\ UNCHANGED events ELSE events' = Append(events, kind)
    /\ pulled' = [pulled EXCEPT ![s] = n]
    /\ stream' = [stream EXCEPT ![s] = [Fresh EXCEPT !.at = "event", !.call = n, !.kind = kind]]
    /\ UNCHANGED <<duplexVars, chainVars, session, closed, tool, keys, closer, updater, edits>>

SourceEnds(s) == stream[s].at = "pull" /\ Goes(s, "over") /\ StreamOnly

\* The consumer leaves at a yield: what the generator had still to do is not done.
Leave(s) == stream[s].at \in Yields /\ Goes(s, "over") /\ StreamOnly

\* Only a session in auto mode looks at calls; a call that has no name, or a session without tools,
\* ends in a failure event and is never answered.
CarriesOut(s) == session.tool_mode = "auto" /\ stream[s].kind # "plain"
Fails(s) == stream[s].kind = "nameless" \/ ~session.tool_runtime
PassOver(s) ==
    /\ \/ stream[s].at = "event" /\ (CarriesOut(s) => Fails(s))
       \/ stream[s].at = "unnamed"
    /\ Goes(s, IF stream[s].at = "event" /\ CarriesOut(s) THEN "unnamed" ELSE "pull")
    /\ StreamOnly

\* What an unregistered name is judged by.
Minimal == [ref |-> <<"local", "unknown">>, scopes |-> {"execute"}, connector |-> "none",
            connector_scopes |-> {}, checkpoint |-> "before_tool_call"]

PackageVerdict(def) == PackageDecision(Frames, ToolRequest(def, "before_tool_call"))

\* executeToolCall(): the package first; what it refuses the runtime will refuse.
Judge(s) ==
    /\ stream[s].at = "event" /\ CarriesOut(s) /\ ~Fails(s)
    /\ LET verdict == IF stream[s].kind = "call" THEN PackageVerdict(tool) ELSE PackageDecision(Frames, Minimal)
       IN  stream' = [stream EXCEPT ![s].judged = IF Enforced /\ stream[s].kind = "call" THEN tool ELSE None,
                                    ![s].package = IF verdict = "deny" THEN "allow" ELSE verdict,
                                    ![s].at = IF verdict = "deny" THEN "started" ELSE "policy"]
    /\ StreamOnly

\* The policy of the user can only tighten what the package said.
Combined(package, user) == IF user # "allow" THEN user ELSE package

PendingKey(s) == IF stream[s].judged = None THEN None ELSE ApprovalKey(stream[s].judged)

\* The key is of the definition that was judged; should it change, so does its key.
PolicyAnswers(s, user) ==
    LET verdict == Combined(stream[s].package, user)
    IN  /\ stream[s].at = "policy"
        /\ stream' = [stream EXCEPT ![s].user = user,
                      ![s].at = CASE verdict = "allow" -> "started" [] verdict = "deny" -> "refused" [] OTHER -> "asked",
                      ![s].ticket = IF verdict = "require_approval" THEN "pending" ELSE @,
                      ![s].key = IF verdict = "require_approval" THEN PendingKey(s) ELSE None]
        /\ StreamOnly

Decide(s, decision) ==
    /\ stream[s].ticket = "pending"
    /\ stream' = [stream EXCEPT ![s].ticket = decision]
    /\ StreamOnly

AwaitDecision(s) ==
    /\ \/ stream[s].at = "asked" /\ Goes(s, "ticket")
       \/ stream[s].at = "ticket" /\ stream[s].ticket # "pending" /\ Goes(s, "decided")
       \/ stream[s].at = "decided" /\ Goes(s, IF stream[s].ticket = "approved" THEN "started" ELSE "refused")
    /\ StreamOnly

\* dispatchApproved(): the key joins the approvals of the runtime for this dispatch.
Dispatch(s) ==
    /\ stream[s].at = "started"
    /\ keys' = IF stream[s].key = None THEN keys ELSE keys \cup {stream[s].key}
    /\ stream' = [stream EXCEPT ![s].at = "acquire", ![s].previous = keys]
    /\ UNCHANGED <<duplexVars, chainVars, session, closed, tool, closer, updater, events, pulled, pulls, edits>>

\* Mutant: the approvals are not restored.
RestoredKeysKept(s) == keys

\* The finally of dispatchApproved().
RestoredKeys(s) == IF stream[s].key = None THEN keys ELSE stream[s].previous

\* Mutant: an approval is not bound to the definition it was given for.
AdmittedByAnyKey ==
    LET verdict == PackageVerdict(tool)
    IN  verdict = "allow" \/ (verdict = "require_approval" /\ keys # {})

\* ToolRuntime.call() judges the definition once more, as it is now: what the package allows outright
\* needs no key, whatever definition it was asked about before.
Admitted ==
    LET verdict == PackageVerdict(tool)
    IN  verdict = "allow" \/ (verdict = "require_approval" /\ ApprovalKey(tool) \in keys)

Run(s) ==
    /\ stream[s].at = "acquire" /\ stream[s].kind = "call" /\ Admitted
    /\ Goes(s, "handler")
    /\ StreamOnly

Refuse(s) ==
    /\ stream[s].at = "acquire" /\ stream[s].kind = "call" /\ ~Admitted
    /\ keys' = RestoredKeys(s)
    /\ stream' = [stream EXCEPT ![s] = [Fresh EXCEPT !.at = "reported", !.call = stream[s].call, !.denied = TRUE]]
    /\ UNCHANGED <<duplexVars, chainVars, session, closed, tool, closer, updater, events, pulled, pulls, edits>>

\* The handler returned or threw; an unregistered name throws before.
HandlerSettles(s) ==
    /\ \/ stream[s].at = "handler" /\ \E to \in {"reported", "failing"} : Goes(s, to)
       \/ stream[s].at = "acquire" /\ stream[s].kind = "unknown" /\ Goes(s, "failing")
    /\ keys' = RestoredKeys(s)
    /\ UNCHANGED <<duplexVars, chainVars, session, closed, tool, closer, updater, events, pulled, pulls, edits>>

ReportRejection(s) == stream[s].at = "reported" /\ stream[s].denied /\ Goes(s, "rejected") /\ StreamOnly

\* sendToolResult(), from the try and from the catch or denyTool().
Answer(s) ==
    /\ \/ stream[s].at = "reported" /\ ~stream[s].denied
       \/ stream[s].at \in {"rejected", "refused", "failing"}
    /\ LET last == stream[s].at \in {"refused", "failing"}
       IN  IF closed
           THEN Goes(s, IF last THEN "over" ELSE "failing") /\ UNCHANGED accepted
           ELSE /\ accepted' = Append(accepted, <<"result", stream[s].call, s>>)
                /\ stream' = [stream EXCEPT ![s].at = IF last THEN "answerLast" ELSE "answer",
                                            ![s].pos = Len(accepted) + 1]
    /\ UNCHANGED <<duplexVars, settled, brokenAt, inFlight, session, closed, tool, keys, closer, updater, events, pulled, pulls, edits>>

AnswerSettles(s) ==
    LET state == SendState(stream[s].pos)
    IN  /\ stream[s].at \in {"answer", "answerLast"} /\ state # "pending"
        /\ Goes(s, IF state = "fulfilled" THEN "pull" ELSE IF stream[s].at = "answer" THEN "failing" ELSE "over")
        /\ StreamOnly

\* The application edits the registered definition in place.
Edit(def) ==
    /\ edits < MaxEdits /\ def # tool
    /\ tool' = def /\ edits' = edits + 1
    /\ UNCHANGED <<duplexVars, chainVars, session, closed, keys, stream, closer, updater, events, pulled, pulls>>

-----------------------------------------------------------------------------
StreamStep(s) ==
    \/ PassOver(s) \/ Judge(s) \/ AwaitDecision(s) \/ Dispatch(s) \/ Run(s) \/ Refuse(s)
    \/ ReportRejection(s) \/ Answer(s) \/ AnswerSettles(s)
    \/ \E user \in Verdicts : PolicyAnswers(s, user)

Next ==
    \/ Send \/ SendNext \/ SendSettles
    \/ \E u \in Updaters : UpdateBegins(u) \/ UpdateGoes(u)
    \/ \E c \in Closers : CloseBegins(c) \/ CloseGoes(c) \/ CloseFails(c) \/ CloseSettles(c)
    \/ \E s \in Streams :
          \/ Open(s) \/ SourceEnds(s) \/ Leave(s) \/ StreamStep(s) \/ HandlerSettles(s)
          \/ \E n \in 1 .. MaxEvents, kind \in Kinds : Pull(s, n, kind)
          \/ \E decision \in {"approved", "denied"} : Decide(s, decision)
    \/ \E def \in Definitions : Edit(def)

Spec == Init /\ [][Next]_rtVars

(***************************************************************************)
(* What a session owes its provider and its application.                   *)
(***************************************************************************)

(* The transport is handed the commands in the order send() accepted them, *)
(* none skipped and none after one that was rejected: a stream's tool      *)
(* results and the application's sends share one chain.                    *)
CommandsInOrder ==
    \E n \in {settled, settled + 1} : n <= Len(accepted) /\ took = SubSeq(accepted, 1, n)

(* No stream answers a tool call twice, although a result whose send       *)
(* failed is followed by an error result for the same call: the transport  *)
(* may have taken the first before its send was rejected.  (A second       *)
(* stream, or one opened again, may carry out and answer it once more:     *)
(* streamEvents() hands it what transport.events() yields.)                *)
AnsweredOnce ==
    \A i, j \in 1 .. Len(took) : took[i] = took[j] /\ i # j => took[i][1] # "result"

(* A handler runs only in a session in auto mode and for a definition the  *)
(* package grants at that moment.  The policy of the user has let the call *)
(* pass, unless the package had refused the definition the call came for,  *)
(* which has been replaced since; whoever asked for an approval, this very *)
(* call was approved; and a definition the package asks an approval for is *)
(* the one that was judged, whatever was edited meanwhile.  (The comment   *)
(* in executeToolCall() promises the last of every definition, whoever     *)
(* asked; one the package allows outright runs in the place of the one     *)
(* that was approved.)                                                     *)
RunsAsPermitted ==
    [][\A s \in Streams :
        stream[s].at = "acquire" /\ stream'[s].at = "handler" =>
            /\ session.tool_mode = "auto" /\ PackageVerdict(tool) # "deny"
            /\ \/ stream[s].user \in {"allow", "require_approval"}
               \/ stream[s].judged \in Definitions \ {tool} /\ PackageVerdict(stream[s].judged) = "deny"
            /\ "require_approval" \in {stream[s].user, PackageVerdict(tool)} => stream[s].ticket = "approved"
            /\ PackageVerdict(tool) = "require_approval" => stream[s].judged = tool]_rtVars

(* The approval of a dispatch is forgotten when the dispatch has settled:  *)
(* the streams of a session are pulled one after the other (SerialStreams) *)
KeysForgotten ==
    (\A s \in Streams : stream[s].at \notin {"acquire", "handler"}) => keys = {}

=============================================================================
