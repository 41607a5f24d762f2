---------------------------- MODULE AgentSessions ----------------------------
(***************************************************************************)
(* AgentSessions (src/src/runtime/agent-sessions.ts) over the session      *)
(* store and LocalAgentProvider, for one session.  The store's load() and  *)
(* save() are separate awaited calls, so everything that changes the       *)
(* snapshot is a read-modify-write over two actions, from the copy loaded  *)
(* by the first.  An application may have several of them under way.       *)
(***************************************************************************)
EXTENDS LocalAgentProvider, FiniteSets

CONSTANTS
    Streams,        \* the streams the application may have open
    Overlap         \* whether it lets its calls on the session overlap

ASSUME OverlapAssumption == Overlap \in BOOLEAN

VARIABLES
    stored,         \* the SessionSnapshot in the store
    stream,         \* stream[s]: where the generator of stream s is suspended
    view,           \* view[s]: the snapshot it loaded last
    index,          \* index[s]: its position in the provider's log
    delivered,      \* history: the events its consumer got
    approving,      \* approving[k]: where the approve() call for k is suspended
    approveView,    \* approveView[k]: the snapshot it loaded
    sending,        \* the same for the sendMessage() that started k
    sendView

streamVars == <<stream, view, index, delivered>>
callVars == <<approving, approveView, sending, sendView>>
vars == <<localVars, stored, streamVars, callVars>>

Snapshots == [status : SessionStatus, events : Seq(Events),
              approvals : [Invocations -> Decisions \cup {"none", "requested"}],
              invocations : SUBSET Invocations]

\* createSessionSnapshot(), as start() saves it.
FreshSnapshot == [status |-> "running", events |-> <<>>,
                  approvals |-> [k \in Invocations |-> "none"], invocations |-> {}]

StreamPlaces == {"closed", "opened", "pulling", "refreshed", "yielded", "broken"}
CallPlaces == {"idle", "called", "loaded", "returned"}

TypeOK ==
    /\ LocalTypeOK
    /\ stored \in Snapshots
    /\ stream \in [Streams -> StreamPlaces]
    /\ view \in [Streams -> Snapshots]
    /\ index \in [Streams -> Nat]
    /\ delivered \in [Streams -> Seq(Events)]
    /\ approving \in [Invocations -> CallPlaces]
    /\ approveView \in [Invocations -> Snapshots]
    /\ sending \in [Invocations -> CallPlaces]
    /\ sendView \in [Invocations -> Snapshots]

Init ==
    /\ LocalInit
    /\ stored = FreshSnapshot
    /\ stream = [s \in Streams |-> "closed"]
    /\ view = [s \in Streams |-> FreshSnapshot]
    /\ index = [s \in Streams |-> 0]
    /\ delivered = [s \in Streams |-> <<>>]
    /\ approving = [k \in Invocations |-> "idle"]
    /\ approveView = [k \in Invocations |-> FreshSnapshot]
    /\ sending = [k \in Invocations |-> "idle"]
    /\ sendView = [k \in Invocations |-> FreshSnapshot]

\* An application that does not overlap its calls pulls its one stream, or
\* awaits one approve() or sendMessage(), and nothing else meanwhile: it calls
\* from the body of its for-await loop, or outside of it.
AtRest == /\ \A s \in Streams : stream[s] \in {"closed", "yielded", "broken"}
          /\ \A k \in Invocations : approving[k] \in {"idle", "returned"}
                                    /\ sending[k] \in {"idle", "returned"}
MayCall == Overlap \/ AtRest

-----------------------------------------------------------------------------
(* streamSession(). *)

\* The position of event e in the provider's log, 0 if it has none (findIndex).
PositionOf(e) == IF Contains(log, e) THEN CHOOSE n \in 1..Len(log) : log[n] = e ELSE 0

\* The position of the event stored last, where the provider's stream resumes.
Resume(snapshot) ==
    IF snapshot.events = <<>> THEN 0 ELSE PositionOf(Last(snapshot.events))

Open(s) ==
    /\ stream[s] = "closed"
    /\ MayCall
    /\ Overlap \/ \A t \in Streams : stream[t] = "closed"
    /\ stream' = [stream EXCEPT ![s] = "opened"]
    /\ view' = [view EXCEPT ![s] = stored]
    /\ UNCHANGED <<localVars, stored, index, delivered, callVars>>

\* The snapshot arrived: its events are replayed, and unless it is terminal
\* the provider's stream is opened behind them once the consumer has pulled the
\* last.  A cancelled session is drained, since its provider still has it.
Replay(s) ==
    LET ended == view[s].status \in {"completed", "failed"} IN
    /\ stream[s] = "opened"
    /\ stream' = [stream EXCEPT ![s] = IF ended THEN "closed"
                                       ELSE IF view[s].events = <<>> THEN "pulling"
                                       ELSE "yielded"]
    /\ delivered' = [delivered EXCEPT ![s] = IF ended THEN <<>> ELSE view[s].events]
    /\ index' = [index EXCEPT ![s] = IF ended THEN 0 ELSE Resume(view[s])]
    /\ view' = [view EXCEPT ![s] = IF ended THEN FreshSnapshot ELSE @]
    /\ UNCHANGED <<localVars, stored, callVars>>

\* Mutant of Refresh: the next event is appended to the snapshot held so far.
RefreshNothing(s) ==
    /\ stream[s] = "pulling"
    /\ index[s] < Len(log)
    /\ index' = [index EXCEPT ![s] = @ + 1]
    /\ stream' = [stream EXCEPT ![s] = "refreshed"]
    /\ UNCHANGED <<localVars, stored, view, delivered, callVars>>

\* The provider's stream yields the next event and the snapshot is refreshed.
Refresh(s) ==
    /\ stream[s] = "pulling"
    /\ index[s] < Len(log)
    /\ index' = [index EXCEPT ![s] = @ + 1]
    /\ view' = [view EXCEPT ![s] = stored]
    /\ stream' = [stream EXCEPT ![s] = "refreshed"]
    /\ UNCHANGED <<localVars, stored, delivered, callVars>>

\* transitionFromEvent(): the status an event asks for.
StatusAfter(st, e) ==
    CASE st = "cancelled" -> st
      [] e.type \in {"run.completed", "session.completed"} -> "completed"
      [] e.type \in {"run.failed", "session.failed"} -> "failed"
      [] e.type = "session.cancelled" -> "cancelled"
      [] e.type = "approval.requested" -> "waiting"
      [] e.type \in {"approval.approved", "approval.denied"} ->
            IF st = "waiting" THEN "running" ELSE st
      [] OTHER -> st

\* Mutant of Accepts: the status is set without transitionAgentSession().
AcceptsAny(st, e) == TRUE

\* It throws when the transition is not in SESSION_TRANSITIONS.
Accepts(st, e) ==
    MayBecome(IF StatusAfter(st, e) = "completed" THEN Resumed(st) ELSE st, StatusAfter(st, e))

\* Mutant of WithEvent: what follows a cancellation is not kept.
WithEventUnlessCancelled(snapshot, e) ==
    IF snapshot.status = "cancelled" THEN snapshot
    ELSE [snapshot EXCEPT
            !.status = StatusAfter(@, e),
            !.events = Append(@, e),
            !.approvals = IF e.type = "approval.requested"
                          THEN [@ EXCEPT ![e.inv] = "requested"] ELSE @]

WithEvent(snapshot, e) ==
    [snapshot EXCEPT
        !.status = StatusAfter(@, e),
        !.events = Append(@, e),
        !.approvals = IF e.type = "approval.requested" THEN [@ EXCEPT ![e.inv] = "requested"]
                      ELSE @]

\* The refreshed snapshot is there: skip a stored event, or append and save it.
Save(s) ==
    LET e == log[index[s]] IN
    /\ stream[s] = "refreshed"
    /\ \/ /\ Contains(view[s].events, e)
          /\ stream' = [stream EXCEPT ![s] = "pulling"]
          /\ UNCHANGED <<stored, view, delivered>>
       \/ /\ ~Contains(view[s].events, e) /\ Accepts(view[s].status, e)
          /\ stored' = WithEvent(view[s], e)
          /\ view' = [view EXCEPT ![s] = stored']
          /\ delivered' = [delivered EXCEPT ![s] = Append(@, e)]
          /\ stream' = [stream EXCEPT ![s] = "yielded"]
       \/ /\ ~Contains(view[s].events, e) /\ ~Accepts(view[s].status, e)
          /\ stream' = [stream EXCEPT ![s] = "broken"]
          /\ UNCHANGED <<stored, view, delivered>>
    /\ UNCHANGED <<localVars, index, callVars>>

\* The consumer pulls again.
Pull(s) ==
    /\ stream[s] = "yielded"
    /\ MayCall
    /\ stream' = [stream EXCEPT ![s] = "pulling"]
    /\ UNCHANGED <<localVars, stored, view, index, delivered, callVars>>

Close(s) ==
    /\ stream' = [stream EXCEPT ![s] = "closed"]
    /\ index' = [index EXCEPT ![s] = 0]
    /\ delivered' = [delivered EXCEPT ![s] = <<>>]
    /\ view' = [view EXCEPT ![s] = FreshSnapshot]
    /\ UNCHANGED <<localVars, stored, callVars>>

\* The provider's stream ends: its record is done and has no more events.
EndOfStream(s) ==
    /\ stream[s] = "pulling" /\ index[s] = Len(log) /\ done
    /\ Close(s)

\* The consumer leaves its loop.
Abandon(s) ==
    /\ stream[s] \in {"yielded", "broken"}
    /\ Close(s)

-----------------------------------------------------------------------------
(* approve(), sendMessage() and cancel(). *)

\* The application decides a request it has seen in a stream or in a replay.
Approve(k, d) ==
    /\ approving[k] = "idle"
    /\ stored.approvals[k] = "requested"
    /\ MayCall
    /\ LocalApprove(k, d)
    /\ approving' = [approving EXCEPT ![k] = "called"]
    /\ UNCHANGED <<stored, streamVars, approveView, sending, sendView>>

LoadToApprove(k) ==
    /\ approving[k] = "called"
    /\ approving' = [approving EXCEPT ![k] = "loaded"]
    /\ approveView' = [approveView EXCEPT ![k] = stored]
    /\ UNCHANGED <<localVars, stored, streamVars, sending, sendView>>

SaveDecision(k) ==
    /\ approving[k] = "loaded"
    /\ approving' = [approving EXCEPT ![k] = "returned"]
    /\ stored' = IF approveView[k].approvals[k] = "none" THEN stored
                 ELSE [approveView[k] EXCEPT !.approvals[k] = decision[k]]
    /\ approveView' = [approveView EXCEPT ![k] = FreshSnapshot]
    /\ UNCHANGED <<localVars, streamVars, sending, sendView>>

\* A follow-up.  An application that does not overlap its calls first lets the
\* stream of the previous run end.
SendMessage(k) ==
    /\ sending[k] = "idle"
    /\ MayCall
    /\ Overlap \/ (/\ \A s \in Streams : stream[s] = "closed"
                   /\ \A j \in Invocations : run[j] \in {"absent", "settled", "rejected"})
    /\ LocalSendMessage(k)
    /\ sending' = [sending EXCEPT ![k] = "called"]
    /\ UNCHANGED <<stored, streamVars, approving, approveView, sendView>>

LoadToSend(k) ==
    /\ sending[k] = "called"
    /\ sending' = [sending EXCEPT ![k] = "loaded"]
    /\ sendView' = [sendView EXCEPT ![k] = stored]
    /\ UNCHANGED <<localVars, stored, streamVars, approving, approveView>>

SaveInvocation(k) ==
    /\ sending[k] = "loaded"
    /\ sending' = [sending EXCEPT ![k] = "returned"]
    /\ stored' = [sendView[k] EXCEPT !.invocations = @ \cup {k}]
    /\ sendView' = [sendView EXCEPT ![k] = FreshSnapshot]
    /\ UNCHANGED <<localVars, streamVars, approving, approveView>>

Cancel ==
    /\ LocalCancel
    /\ UNCHANGED <<stored, streamVars, callVars>>

-----------------------------------------------------------------------------
(* The system. *)

StreamStep(s) == Replay(s) \/ Refresh(s) \/ Save(s) \/ EndOfStream(s)

CallStep(k) == LoadToApprove(k) \/ SaveDecision(k) \/ LoadToSend(k) \/ SaveInvocation(k)

Next ==
    \/ \E k \in Invocations :
          \/ RunStep(k) /\ UNCHANGED <<stored, streamVars, callVars>>
          \/ CallStep(k)
          \/ SendMessage(k)
          \/ \E d \in Decisions : Approve(k, d)
    \/ \E s \in Streams : StreamStep(s) \/ Open(s) \/ Pull(s) \/ Abandon(s)
    \/ Cancel

Spec == Init /\ [][Next]_vars

\* Settled promises are continued, and a consumer goes on pulling its stream.
\* A run goes on unless it waits for a decision; nobody has to decide, cancel,
\* send a message, or open a stream.
Fairness ==
    /\ \A k \in Invocations : WF_vars(RunStep(k) /\ UNCHANGED <<stored, streamVars, callVars>>)
    /\ \A k \in Invocations : WF_vars(CallStep(k))
    /\ \A s \in Streams : WF_vars(StreamStep(s) \/ Pull(s) \/ Abandon(s))

FairSpec == Spec /\ Fairness

\* The same, and an application that opens its stream again and again, and
\* does not always leave it at once.
Attentive == FairSpec /\ \A s \in Streams : WF_vars(Open(s)) /\ SF_vars(Pull(s))

-----------------------------------------------------------------------------
(* What AgentSessions promises.  With Overlap, DecisionDurable and           *)
(* DurableStatusFinal do not hold: the README tells how.                     *)

\* The durable log is what the provider logged, from its beginning and without
\* a gap, however often a consumer leaves its stream and opens another.
\* (agent-sessions.ts: the cursor handed to streamEvents() and the skip of
\* events already stored.)
DurableLogIsPrefix == IsPrefix(stored.events, log)

\* A consumer gets each event once, in the order of the provider's log, and
\* never before it is durable.  (save() precedes yield in streamSession().)
DeliveredInOrder ==
    \A s \in Streams :
        /\ IsPrefix(delivered[s], log)
        /\ stream[s] \in {"pulling", "yielded"} => IsPrefix(delivered[s], stored.events)

\* Once approve() has returned, the decision the approval manager took stays
\* in the durable snapshot.  (The refresh in streamSession() is there so "the
\* stream cannot overwrite that concurrent durable decision".)
DecisionDurable ==
    \A k \in Invocations : approving[k] = "returned" => stored.approvals[k] = decision[k]

\* A durable status that ended the session is never replaced.  (The terminal
\* rows of SESSION_TRANSITIONS, and cancellation as "session authority".)
DurableStatusFinal ==
    [][stored.status \in Terminal => stored'.status = stored.status]_vars

\* The snapshot's status is computed from the events alone, the provider's by
\* its methods; when the session has come to rest and all its events are
\* stored, the two agree.  (transitionFromEvent() against executeRun(),
\* cancel() and sendMessage().)
Quiet == \A k \in Invocations : run[k] \in {"absent", "settled", "rejected"}

StatusAgrees == (Quiet /\ stored.events = log) => stored.status = status

\* What is durable, what was delivered and what the provider has agree at any time, however often
\* the streams are left and reopened and the session is cancelled.
RecordHolds == DurableLogIsPrefix /\ DeliveredInOrder /\ StatusAgrees

\* The job of an invocation is never left rejected with nobody waiting for it.
\* (executeRun() ends in its catch, whose own transition must not throw.)
NoRejectedJob == \A k \in Invocations : run[k] # "rejected"

\* The action behind an approval is carried out only after an approval, and
\* never if the session was cancelled during the wait, whatever is decided
\* afterwards.  (docs/SPEC.md: "Cancellation during an approval wait stops the
\* protected action without requiring an approval decision.")
NoUnapprovedAction ==
    \A k \in acted : decision[k] = "approved" /\ k \notin cancelledWaiting

\* Every run of a cancelled session settles, also one that asks for an approval
\* after the signal fired, and nobody has to decide it.  (waitForApproval()
\* looks at the signal before it listens to it.)
CancelledSessionsSettle ==
    \A k \in Invocations : (aborted /\ run[k] # "absent") ~> run[k] \in {"settled", "rejected"}

\* When the session comes to rest its streams end: no consumer waits for an
\* event that cannot come.  (finally { record.done = true; notify... }.)
SettledStreamsEnd ==
    \A s \in Streams : <>[]Quiet => []<>(stream[s] = "closed")

\* What the README says of follow-ups, to an attentive application whose session
\* neither fails nor is cancelled: the follow-up's outcome reaches the durable log.
FollowUpPersisted ==
    []~(aborted \/ status = "failed") =>
        \A k \in Invocations \ {First} :
            run[k] = "settled" ~> Contains(stored.events, Event("run.completed", k))
=============================================================================
