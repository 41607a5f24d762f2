------------------------- MODULE AgentSessions_proofs -------------------------
(***************************************************************************)
(* AgentSessions for every number of follow-ups and streams, with the      *)
(* application's calls overlapping or not.                                 *)
(***************************************************************************)
EXTENDS AgentSessions, TLAPS

-----------------------------------------------------------------------------
(* The provider's record is well typed, whoever calls the provider.          *)

LocalNext ==
    \/ \E k \in Invocations : RunStep(k) \/ LocalSendMessage(k)
    \/ \E k \in Invocations, d \in Decisions : LocalApprove(k, d)
    \/ LocalCancel

\* Every step of the session leaves the provider alone or is one of its own.
LEMMA StepIsLocal == [Next]_vars => [LocalNext]_localVars
<1> SUFFICES ASSUME [Next]_vars PROVE LocalNext \/ UNCHANGED localVars
    OBVIOUS
<1>1. ASSUME NEW k \in Invocations, CallStep(k) PROVE UNCHANGED localVars
    BY <1>1 DEF CallStep, LoadToApprove, SaveDecision, LoadToSend, SaveInvocation
<1>2. ASSUME NEW s \in Streams, StreamStep(s) \/ Open(s) \/ Pull(s) \/ Abandon(s)
      PROVE  UNCHANGED localVars
    BY <1>2 DEF StreamStep, Open, Pull, Abandon, Replay, Refresh, Save, EndOfStream, Close
<1>3. ASSUME NEW k \in Invocations, SendMessage(k) PROVE LocalSendMessage(k)
    BY <1>3 DEF SendMessage
<1>4. ASSUME NEW k \in Invocations, NEW d \in Decisions, Approve(k, d) PROVE LocalApprove(k, d)
    BY <1>4 DEF Approve
<1>5. Cancel => LocalCancel
    BY DEF Cancel
<1>6. UNCHANGED vars => UNCHANGED localVars
    BY DEF vars
<1> QED  BY <1>1, <1>2, <1>3, <1>4, <1>5, <1>6 DEF Next, LocalNext

LEMMA EventsTyped ==
    /\ \A type \in RunEvents, k \in Invocations : Event(type, k) \in Events
    /\ Event("session.started", First) \in Events
    /\ Event("session.cancelled", First) \in Events
BY InvocationsAssumption DEF Event, Events

\* Logging events keeps a log of events.
LEMMA LogsOneTyped ==
    ASSUME log \in Seq(Events), NEW e \in Events, Logs(<<e>>)
    PROVE  log' \in Seq(Events)
<1>1. <<e>> \in Seq(Events)
    OBVIOUS
<1> QED  BY <1>1 DEF Logs

LEMMA LogsTwoTyped ==
    ASSUME log \in Seq(Events), NEW e \in Events, NEW f \in Events, Logs(<<e, f>>)
    PROVE  log' \in Seq(Events)
<1>1. <<e, f>> \in Seq(Events)
    OBVIOUS
<1> QED  BY <1>1 DEF Logs

LEMMA LocalInitTyped == LocalInit => LocalTypeOK
<1> SUFFICES ASSUME LocalInit PROVE LocalTypeOK
    OBVIOUS
<1>1. log \in Seq(Events)
    BY EventsTyped DEF LocalInit
<1>2. run \in [Invocations -> RunPlaces]
    BY DEF LocalInit, RunPlaces
<1> QED  BY <1>1, <1>2 DEF LocalInit, LocalTypeOK, SessionStatus

LEMMA LocalStepTyped == LocalTypeOK /\ [LocalNext]_localVars => LocalTypeOK'
<1> SUFFICES ASSUME LocalTypeOK, [LocalNext]_localVars PROVE LocalTypeOK'
    OBVIOUS
<1> USE DEF LocalTypeOK, RunPlaces, At, Moves
<1>1. ASSUME NEW k \in Invocations, RunStarted(k) PROVE LocalTypeOK'
    <2>1. Event("run.started", k) \in Events
        BY EventsTyped DEF RunEvents
    <2>2. log' \in Seq(Events)
        BY <1>1, <2>1, LogsOneTyped DEF RunStarted
    <2> QED  BY <1>1, <2>2 DEF RunStarted
<1>2. ASSUME NEW k \in Invocations, Ask(k) PROVE LocalTypeOK'
    <2>1. Event("approval.requested", k) \in Events
        BY EventsTyped DEF RunEvents
    <2>2. log' \in Seq(Events)
        BY <1>2, <2>1, LogsOneTyped DEF Ask
    <2> QED  BY <1>2, <2>2 DEF Ask, SessionStatus
<1>3. ASSUME NEW k \in Invocations, Decided(k) PROVE LocalTypeOK'
    <2>1. Event("approval.approved", k) \in Events /\ Event("approval.denied", k) \in Events
        BY EventsTyped DEF RunEvents
    <2>2. log' \in Seq(Events)
        BY <1>3, <2>1, LogsOneTyped DEF Decided
    <2> QED  BY <1>3, <2>2 DEF Decided
<1>4. ASSUME NEW k \in Invocations, Act(k) PROVE LocalTypeOK'
    BY <1>4 DEF Act
<1>5. ASSUME NEW k \in Invocations, RunCompleted(k) PROVE LocalTypeOK'
    <2>1. Event("run.completed", k) \in Events /\ Event("session.completed", k) \in Events
        BY EventsTyped DEF RunEvents
    <2>2. log' \in Seq(Events)
        BY <1>5, <2>1, LogsOneTyped, LogsTwoTyped DEF RunCompleted
    <2> QED  BY <1>5, <2>2 DEF RunCompleted, SessionStatus, Terminal
<1>6. ASSUME NEW k \in Invocations, RunFailed(k) PROVE LocalTypeOK'
    <2>1. Event("run.failed", k) \in Events
        BY EventsTyped DEF RunEvents
    <2>2. log' \in Seq(Events)
        BY <1>6, <2>1, LogsOneTyped DEF RunFailed
    <2> QED  BY <1>6, <2>2 DEF RunFailed
<1>7. ASSUME NEW k \in Invocations, JobEnds(k) PROVE LocalTypeOK'
    BY <1>7 DEF JobEnds
<1>8. ASSUME NEW k \in Invocations, JobThrows(k) PROVE LocalTypeOK'
    <2>1. Event("session.failed", k) \in Events
        BY EventsTyped DEF RunEvents
    <2>2. log' \in Seq(Events)
        BY <1>8, <2>1, LogsOneTyped DEF JobThrows
    <2> QED  BY <1>8, <2>2 DEF JobThrows, SessionStatus, Terminal
<1>9. ASSUME NEW k \in Invocations, LocalSendMessage(k) PROVE LocalTypeOK'
    BY <1>9 DEF LocalSendMessage, SessionStatus
<1>10. ASSUME NEW k \in Invocations, NEW d \in Decisions, LocalApprove(k, d) PROVE LocalTypeOK'
    BY <1>10 DEF LocalApprove
<1>11. CASE LocalCancel
    <2>1. log' \in Seq(Events)
        BY <1>11, EventsTyped, LogsOneTyped DEF LocalCancel
    <2>2. wait' \in [Invocations -> Decisions \cup {"none", "aborted"}]
        BY <1>11 DEF LocalCancel
    <2> QED  BY <1>11, <2>1, <2>2 DEF LocalCancel, SessionStatus, Terminal
<1>12. CASE UNCHANGED localVars
    BY <1>12 DEF localVars
<1> QED
    BY <1>1, <1>2, <1>3, <1>4, <1>5, <1>6, <1>7, <1>8, <1>9, <1>10, <1>11, <1>12
    DEF LocalNext, RunStep

LEMMA LocalTypeInductive == Spec => []LocalTypeOK
<1>1. Init => LocalTypeOK
    BY LocalInitTyped DEF Init
<1>2. LocalTypeOK /\ [Next]_vars => LocalTypeOK'
    BY LocalStepTyped, StepIsLocal
<1> QED  BY <1>1, <1>2, PTL DEF Spec

-----------------------------------------------------------------------------
(* The action behind an approval.                                            *)

\* The inductive invariant.  A wait that settled with a decision settled with the
\* manager's; a run cancelled while it waited can only fail from there; and a
\* granted run was approved and was not one of those.
ApprovalInv ==
    \A k \in Invocations :
        /\ wait[k] \in Decisions => decision[k] = wait[k] /\ k \notin cancelledWaiting
        /\ k \in cancelledWaiting =>
               \/ run[k] = "asking" /\ wait[k] = "aborted"
               \/ run[k] \in {"throwing", "settled", "rejected"}
        /\ run[k] = "granted" => decision[k] = "approved" /\ k \notin cancelledWaiting
        /\ k \in acted =>
               /\ decision[k] = "approved" /\ k \notin cancelledWaiting
               /\ run[k] \in {"acted", "completing", "throwing", "settled", "rejected"}
        /\ run[k] \in {"absent", "begun", "running"} =>
               wait[k] = "none" /\ k \notin cancelledWaiting

LEMMA StepKeepsApprovals ==
    ASSUME LocalTypeOK, ApprovalInv, [LocalNext]_localVars PROVE ApprovalInv'
<1> USE DEF LocalTypeOK, ApprovalInv, At, Moves, Decisions
<1>1. ASSUME NEW k \in Invocations, RunStarted(k) PROVE ApprovalInv'
    BY <1>1 DEF RunStarted
<1>2. ASSUME NEW k \in Invocations, Ask(k) PROVE ApprovalInv'
    BY <1>2 DEF Ask
<1>3. ASSUME NEW k \in Invocations, Decided(k) PROVE ApprovalInv'
    BY <1>3 DEF Decided
<1>4. ASSUME NEW k \in Invocations, Act(k) PROVE ApprovalInv'
    BY <1>4 DEF Act
<1>5. ASSUME NEW k \in Invocations, RunCompleted(k) PROVE ApprovalInv'
    BY <1>5 DEF RunCompleted
<1>6. ASSUME NEW k \in Invocations, RunFailed(k) PROVE ApprovalInv'
    BY <1>6 DEF RunFailed
<1>7. ASSUME NEW k \in Invocations, JobEnds(k) \/ JobThrows(k) PROVE ApprovalInv'
    BY <1>7 DEF JobEnds, JobThrows
<1>8. ASSUME NEW k \in Invocations, LocalSendMessage(k) PROVE ApprovalInv'
    BY <1>8 DEF LocalSendMessage
<1>9. ASSUME NEW k \in Invocations, NEW d \in Decisions, LocalApprove(k, d) PROVE ApprovalInv'
    BY <1>9 DEF LocalApprove
<1>10. CASE LocalCancel
    BY <1>10 DEF LocalCancel
<1>11. CASE UNCHANGED localVars
    BY <1>11 DEF localVars
<1> QED
    BY <1>1, <1>2, <1>3, <1>4, <1>5, <1>6, <1>7, <1>8, <1>9, <1>10, <1>11
    DEF LocalNext, RunStep

\* However the application's calls overlap, an action that needs an approval is
\* carried out only if it was approved and the session was not cancelled while
\* it waited, whatever is decided after the cancellation.
THEOREM ActionsAreApproved == Spec => []NoUnapprovedAction
<1>1. Init => ApprovalInv
    BY DEF Init, LocalInit, ApprovalInv, Decisions
<1>2. LocalTypeOK /\ ApprovalInv /\ [Next]_vars => ApprovalInv'
    BY StepIsLocal, StepKeepsApprovals
<1>3. LocalTypeOK /\ ApprovalInv => NoUnapprovedAction
    BY DEF LocalTypeOK, ApprovalInv, NoUnapprovedAction
<1> QED  BY <1>1, <1>2, <1>3, LocalTypeInductive, PTL DEF Spec

-----------------------------------------------------------------------------
(* No job is left rejected.                                                  *)

Active(k) == run[k] \notin {"absent", "settled", "rejected"}

\* The inductive invariant, of an application that sends a follow-up only when no
\* run is active: one run at a time, and a completed session has none that could
\* throw, since completed has no successor in SESSION_TRANSITIONS.
OneRun == \A j, k \in Invocations : Active(j) /\ Active(k) => j = k

CompletedIsOver ==
    status = "completed" => \A k \in Invocations : Active(k) => run[k] = "completing"

JobInv == OneRun /\ CompletedIsOver /\ NoRejectedJob

\* The follow-ups such an application sends.
SerialSend(k) ==
    LocalSendMessage(k) /\ \A j \in Invocations : ~Active(j)

SerialLocalNext ==
    \/ \E k \in Invocations : RunStep(k) \/ SerialSend(k)
    \/ \E k \in Invocations, d \in Decisions : LocalApprove(k, d)
    \/ LocalCancel

LEMMA SerialStepIsLocal ==
    ASSUME Overlap = FALSE, [Next]_vars PROVE [SerialLocalNext]_localVars
<1>1. ASSUME NEW k \in Invocations, SendMessage(k) PROVE SerialSend(k)
    BY <1>1 DEF SendMessage, SerialSend, Active
<1>2. ASSUME NEW k \in Invocations, CallStep(k) PROVE UNCHANGED localVars
    BY <1>2 DEF CallStep, LoadToApprove, SaveDecision, LoadToSend, SaveInvocation
<1>3. ASSUME NEW s \in Streams, StreamStep(s) \/ Open(s) \/ Pull(s) \/ Abandon(s)
      PROVE  UNCHANGED localVars
    BY <1>3 DEF StreamStep, Open, Pull, Abandon, Replay, Refresh, Save, EndOfStream, Close
<1>4. ASSUME NEW k \in Invocations, NEW d \in Decisions, Approve(k, d) PROVE LocalApprove(k, d)
    BY <1>4 DEF Approve
<1>5. Cancel => LocalCancel
    BY DEF Cancel
<1>6. UNCHANGED vars => UNCHANGED localVars
    BY DEF vars
<1> QED  BY <1>1, <1>2, <1>3, <1>4, <1>5, <1>6 DEF Next, SerialLocalNext

LEMMA StepKeepsJobs ==
    ASSUME LocalTypeOK, JobInv, [SerialLocalNext]_localVars PROVE JobInv'
<1> USE DEF LocalTypeOK, JobInv, OneRun, CompletedIsOver, NoRejectedJob, Active, At, Moves
<1>1. ASSUME NEW k \in Invocations, RunStarted(k) PROVE JobInv'
    BY <1>1 DEF RunStarted
<1>2. ASSUME NEW k \in Invocations, Ask(k) PROVE JobInv'
    BY <1>2 DEF Ask
<1>3. ASSUME NEW k \in Invocations, Decided(k) \/ Act(k) PROVE JobInv'
    BY <1>3 DEF Decided, Act
<1>4. ASSUME NEW k \in Invocations, RunCompleted(k) PROVE JobInv'
    BY <1>4 DEF RunCompleted
<1>5. ASSUME NEW k \in Invocations, RunFailed(k) PROVE JobInv'
    BY <1>5 DEF RunFailed
<1>6. ASSUME NEW k \in Invocations, JobEnds(k) PROVE JobInv'
    BY <1>6 DEF JobEnds
<1>7. ASSUME NEW k \in Invocations, JobThrows(k) PROVE JobInv'
    <2>1. status # "completed"
        BY <1>7 DEF JobThrows
    <2>2. status # "cancelled" => MayBecome(Resumed(status), "failed")
        BY <2>1 DEF MayBecome, Resumed, Successors, SessionStatus, Terminal
    <2> QED  BY <1>7, <2>1, <2>2 DEF JobThrows
<1>8. ASSUME NEW k \in Invocations, SerialSend(k) PROVE JobInv'
    BY <1>8 DEF SerialSend, LocalSendMessage
<1>9. ASSUME NEW k \in Invocations, NEW d \in Decisions, LocalApprove(k, d) PROVE JobInv'
    BY <1>9 DEF LocalApprove
<1>10. CASE LocalCancel
    BY <1>10 DEF LocalCancel
<1>11. CASE UNCHANGED localVars
    BY <1>11 DEF localVars
<1> QED
    BY <1>1, <1>2, <1>3, <1>4, <1>5, <1>6, <1>7, <1>8, <1>9, <1>10, <1>11
    DEF SerialLocalNext, RunStep

\* If the application lets one run end before it sends the next message, no job is
\* ever left rejected: the catch of executeRun() never throws.
THEOREM JobsDoNotReject == ASSUME Overlap = FALSE PROVE Spec => []NoRejectedJob
<1>1. Init => JobInv
    BY DEF Init, LocalInit, JobInv, OneRun, CompletedIsOver, NoRejectedJob, Active
<1>2. LocalTypeOK /\ JobInv /\ [Next]_vars => JobInv'
    BY SerialStepIsLocal, StepKeepsJobs
<1>3. JobInv => NoRejectedJob
    BY DEF JobInv
<1> QED  BY <1>1, <1>2, <1>3, LocalTypeInductive, PTL DEF Spec

-----------------------------------------------------------------------------
(* Types of the streams, the calls and the store.                            *)

\* The provider's log only grows.
LogGrows == Len(log) <= Len(log') /\ \A n \in 1..Len(log) : log'[n] = log[n]

LEMMA StepGrowsLog == LocalTypeOK /\ [Next]_vars => LogGrows
<1> SUFFICES ASSUME LocalTypeOK, [LocalNext]_localVars PROVE LogGrows
    BY StepIsLocal
<1>1. ASSUME NEW events \in Seq(Events), Logs(events) PROVE LogGrows
    BY <1>1 DEF Logs, LogGrows, LocalTypeOK
<1>2. UNCHANGED log => LogGrows
    BY DEF LogGrows, LocalTypeOK
<1>3. \A type \in RunEvents, k \in Invocations : <<Event(type, k)>> \in Seq(Events)
    BY EventsTyped
<1>4. <<Event("session.cancelled", First)>> \in Seq(Events)
    BY EventsTyped
<1>5. ASSUME NEW k \in Invocations, RunCompleted(k) PROVE LogGrows
    <2>1. /\ <<Event("run.completed", k)>> \in Seq(Events)
          /\ <<Event("run.completed", k), Event("session.completed", k)>> \in Seq(Events)
        BY EventsTyped DEF RunEvents
    <2> QED  BY <1>1, <1>5, <2>1 DEF RunCompleted
<1>6. ASSUME NEW k \in Invocations,
             RunStarted(k) \/ Ask(k) \/ Decided(k) \/ RunFailed(k) \/ JobThrows(k)
      PROVE  LogGrows
    BY <1>1, <1>2, <1>3, <1>6 DEF RunStarted, Ask, Decided, RunFailed, JobThrows, RunEvents
<1>7. ASSUME NEW k \in Invocations, Act(k) \/ JobEnds(k) \/ LocalSendMessage(k)
      PROVE  LogGrows
    BY <1>2, <1>7 DEF Act, JobEnds, LocalSendMessage
<1>8. ASSUME NEW k \in Invocations, NEW d \in Decisions, LocalApprove(k, d) PROVE LogGrows
    BY <1>2, <1>8 DEF LocalApprove
<1>9. LocalCancel => LogGrows
    BY <1>1, <1>2, <1>4 DEF LocalCancel
<1>10. UNCHANGED localVars => LogGrows
    BY <1>2 DEF localVars
<1> QED
    BY <1>5, <1>6, <1>7, <1>8, <1>9, <1>10 DEF LocalNext, RunStep

\* A stream that has refreshed its snapshot holds an event of the log.
IndexInLog == \A s \in Streams : stream[s] = "refreshed" => index[s] \in 1..Len(log)

SessionInv == TypeOK /\ IndexInLog

LEMMA ResumeTyped ==
    ASSUME NEW snapshot \in Snapshots, log \in Seq(Events) PROVE Resume(snapshot) \in Nat
<1>1. \A e : PositionOf(e) \in Nat
    BY DEF PositionOf, Contains
<1> QED  BY <1>1 DEF Resume

LEMMA FreshTyped == FreshSnapshot \in Snapshots
BY DEF FreshSnapshot, Snapshots, SessionStatus

LEMMA StatusAfterTyped ==
    ASSUME NEW st \in SessionStatus, NEW e \in Events PROVE StatusAfter(st, e) \in SessionStatus
BY DEF StatusAfter, SessionStatus, Terminal

LEMMA WithEventTyped ==
    ASSUME NEW snapshot \in Snapshots, NEW e \in Events PROVE WithEvent(snapshot, e) \in Snapshots
<1>1. StatusAfter(snapshot.status, e) \in SessionStatus
    BY StatusAfterTyped DEF Snapshots
<1>2. Append(snapshot.events, e) \in Seq(Events)
    BY DEF Snapshots
<1> QED  BY <1>1, <1>2 DEF WithEvent, Snapshots

LEMMA SessionInitTyped == Init => SessionInv
BY LocalInitTyped, FreshTyped DEF Init, SessionInv, TypeOK, IndexInLog, StreamPlaces, CallPlaces

LEMMA SessionStepTyped == SessionInv /\ [Next]_vars => SessionInv'
<1> SUFFICES ASSUME SessionInv, [Next]_vars PROVE SessionInv'
    OBVIOUS
<1> USE FreshTyped DEF SessionInv, TypeOK, IndexInLog, StreamPlaces, CallPlaces
<1>a. LocalTypeOK'
    BY StepIsLocal, LocalStepTyped
<1>b. Len(log) \in Nat /\ Len(log') \in Nat /\ Len(log) <= Len(log')
    BY <1>a, StepGrowsLog DEF LogGrows, LocalTypeOK
<1>1. ASSUME NEW k \in Invocations, RunStep(k) /\ UNCHANGED <<stored, streamVars, callVars>>
      PROVE  SessionInv'
    BY <1>1, <1>a, <1>b DEF streamVars, callVars
<1>2. ASSUME NEW k \in Invocations, LoadToApprove(k) PROVE SessionInv'
    BY <1>2, <1>a, <1>b DEF LoadToApprove, streamVars
<1>14. ASSUME NEW k \in Invocations, LoadToSend(k) PROVE SessionInv'
    BY <1>14, <1>a, <1>b DEF LoadToSend, streamVars
<1>3. ASSUME NEW k \in Invocations, SaveDecision(k) PROVE SessionInv'
    <2>1. stored' \in Snapshots
        <3>1. CASE UNCHANGED stored
            BY <3>1
        <3>2. CASE stored' = [approveView[k] EXCEPT !.approvals[k] = decision[k]]
            <4>1. decision[k] \in Decisions \cup {"none"} /\ approveView[k] \in Snapshots
                BY DEF LocalTypeOK
            <4> QED  BY <3>2, <4>1 DEF Snapshots
        <3> QED  BY <1>3, <3>1, <3>2 DEF SaveDecision
    <2> QED  BY <1>3, <1>a, <1>b, <2>1 DEF SaveDecision, streamVars
<1>4. ASSUME NEW k \in Invocations, SaveInvocation(k) PROVE SessionInv'
    <2>1. stored' \in Snapshots
        BY <1>4 DEF SaveInvocation, Snapshots
    <2> QED  BY <1>4, <1>a, <1>b, <2>1 DEF SaveInvocation, streamVars
<1>5. ASSUME NEW k \in Invocations, SendMessage(k) PROVE SessionInv'
    BY <1>5, <1>a, <1>b DEF SendMessage, streamVars
<1>6. ASSUME NEW k \in Invocations, NEW d \in Decisions, Approve(k, d) PROVE SessionInv'
    BY <1>6, <1>a, <1>b DEF Approve, streamVars
<1>7. ASSUME NEW s \in Streams, Open(s) PROVE SessionInv'
    BY <1>7, <1>a, <1>b DEF Open, callVars
<1>15. ASSUME NEW s \in Streams, Pull(s) PROVE SessionInv'
    BY <1>15, <1>a, <1>b DEF Pull, callVars
<1>8. ASSUME NEW s \in Streams, Replay(s) PROVE SessionInv'
    <2>1. Resume(view[s]) \in Nat /\ view[s].events \in Seq(Events)
        BY ResumeTyped DEF LocalTypeOK, Snapshots
    <2> QED  BY <1>8, <1>a, <1>b, <2>1 DEF Replay, callVars
<1>9. ASSUME NEW s \in Streams, Refresh(s) PROVE SessionInv'
    BY <1>9, <1>a, <1>b DEF Refresh, callVars
<1>10. ASSUME NEW s \in Streams, Save(s) PROVE SessionInv'
    <2>1. log[index[s]] \in Events
        BY <1>10 DEF Save, LocalTypeOK
    <2>2. WithEvent(view[s], log[index[s]]) \in Snapshots
        BY <2>1, WithEventTyped
    <2>3. Append(delivered[s], log[index[s]]) \in Seq(Events)
        BY <2>1
    <2>4. /\ UNCHANGED <<localVars, index, callVars>>
          /\ \E p \in {"pulling", "yielded", "broken"} :
                stream' = [stream EXCEPT ![s] = p]
        BY <1>10 DEF Save
    <2>5. log' = log /\ UNCHANGED <<index, callVars>>
        BY <2>4 DEF localVars
    <2>6. stream' \in [Streams -> StreamPlaces] /\ IndexInLog'
        BY <2>4, <2>5
    <2>7. /\ stored' \in Snapshots
          /\ view' \in [Streams -> Snapshots]
          /\ delivered' \in [Streams -> Seq(Events)]
        <3>1. CASE UNCHANGED <<stored, view, delivered>>
            BY <3>1
        <3>2. CASE /\ stored' = WithEvent(view[s], log[index[s]])
                   /\ view' = [view EXCEPT ![s] = stored']
                   /\ delivered' = [delivered EXCEPT ![s] = Append(@, log[index[s]])]
            BY <2>2, <2>3, <3>2
        <3> QED  BY <1>10, <3>1, <3>2 DEF Save
    <2> QED  BY <1>a, <2>5, <2>6, <2>7 DEF callVars
<1>11. ASSUME NEW s \in Streams, EndOfStream(s) \/ Abandon(s) PROVE SessionInv'
    <2>1. <<>> \in Seq(Events)
        OBVIOUS
    <2>2. Close(s)
        BY <1>11 DEF EndOfStream, Abandon
    <2> QED  BY <2>2, <1>a, <1>b, <2>1 DEF Close, callVars
<1>12. CASE Cancel
    BY <1>12, <1>a, <1>b DEF Cancel, streamVars, callVars
<1>13. CASE UNCHANGED vars
    BY <1>13, <1>a, <1>b DEF vars, streamVars, callVars
<1> HIDE DEF SessionInv
<1> QED
    BY <1>1, <1>2, <1>3, <1>4, <1>5, <1>6, <1>7, <1>8, <1>9, <1>10, <1>11, <1>12, <1>13,
       <1>14, <1>15
    DEF Next, CallStep, StreamStep

LEMMA SessionInvInductive == Spec => []SessionInv
BY SessionInitTyped, SessionStepTyped, PTL DEF Spec

\* The durable snapshot, the streams and the calls always hold what their types
\* say; a stream that refreshed its snapshot holds an event of the log.
THEOREM SessionsAreTyped == Spec => []TypeOK
<1>1. SessionInv => TypeOK
    BY DEF SessionInv
<1> QED  BY <1>1, SessionInvInductive, PTL
-----------------------------------------------------------------------------
(* What is durable, what was delivered and what the provider has agree, for  *)
(* an application that does not let its calls on the session overlap.        *)

Busy(places) == places \in {"called", "loaded"}
InCall(k) == Busy(approving[k]) \/ Busy(sending[k])
OpenStream(s) == stream[s] \notin {"closed", "opened"}

\* One stream at a time; while a call is under way the stream rests, and no other is.
OneAtATime ==
    /\ \A s, t \in Streams : stream[s] # "closed" /\ stream[t] # "closed" => s = t
    /\ \A s \in Streams, k \in Invocations : InCall(k) => stream[s] \in {"closed", "yielded", "broken"}
    /\ \A j, k \in Invocations : InCall(j) /\ InCall(k) => j = k
    /\ \A k \in Invocations : ~(Busy(approving[k]) /\ Busy(sending[k]))

\* Whoever loaded the snapshot and is about to use it has the one that is stored.
ViewsCurrent ==
    /\ \A s \in Streams : stream[s] \in {"opened", "refreshed"} => view[s] = stored
    /\ \A k \in Invocations : approving[k] = "loaded" => approveView[k] = stored
    /\ \A k \in Invocations : sending[k] = "loaded" => sendView[k] = stored

\* What is durable is the beginning of the provider's log.
DurablePrefix ==
    /\ Len(stored.events) <= Len(log)
    /\ \A n \in 1..Len(stored.events) : stored.events[n] = log[n]

\* An open stream has delivered what is durable and stands behind it, or at the event it refreshed for.
StreamsStand ==
    \A s \in Streams :
        IF OpenStream(s)
        THEN /\ delivered[s] = stored.events
             /\ index[s] = IF stream[s] \in {"refreshed", "broken"} THEN Len(stored.events) + 1
                                                                    ELSE Len(stored.events)
        ELSE delivered[s] = <<>>

\* An approval is known to the snapshot only since its request is, and once decided for good.
ApprovalsStored ==
    \A k \in Invocations :
        /\ stored.approvals[k] # "none" =>
               \E n \in 1..Len(stored.events) : stored.events[n] = Event("approval.requested", k)
        /\ approving[k] # "idle" => stored.approvals[k] # "none" /\ decision[k] # "none"
        /\ approving[k] = "returned" => stored.approvals[k] = decision[k]

Completions == {"run.completed", "session.completed"}
Failures == {"run.failed", "session.failed"}

\* The events that contradict a durable status; a cancelled one follows its event.
Excluded(st) ==
    CASE st = "completed" -> Failures \cup {"session.cancelled"}
      [] st = "failed"    -> Completions \cup {"session.cancelled"}
      [] st = "cancelled" -> {}
      [] OTHER -> Completions \cup Failures \cup {"session.cancelled"}

StatusRecorded ==
    /\ \A n \in 1..Len(stored.events) : stored.events[n].type \notin Excluded(stored.status)
    /\ stored.status = "cancelled" =>
           \E n \in 1..Len(stored.events) : stored.events[n].type = "session.cancelled"

\* What a run at a place has not logged yet.
Ahead(place) ==
    CASE place \in {"absent", "begun"} -> RunEvents
      [] place = "running" -> RunEvents \ {"run.started"}
      [] place = "asking" -> RunEvents \ {"run.started", "approval.requested"}
      [] place \in {"granted", "failing", "acted"} -> Completions \cup Failures
      [] place \in {"completing", "throwing"} -> {"session.failed"}
      [] OTHER -> {}

\* No event is logged twice.
LogOnce ==
    /\ \A m, n \in 1..Len(log) : log[m] = log[n] => m = n
    /\ \A n \in 1..Len(log) :
          /\ log[n].type \in RunEvents => log[n].type \notin Ahead(run[log[n].inv])
          /\ log[n].type = "session.cancelled" => status = "cancelled"

Logged(type) == \E n \in 1..Len(log) : log[n].type = type

\* The provider's status ended as its log says; a session at work has a run.
StatusLogged ==
    /\ status = "completed" => Logged("session.completed")
    /\ status = "failed" => Logged("session.failed")
    /\ status = "cancelled" => Logged("session.cancelled")
    /\ status \in {"running", "waiting"} => \E k \in Invocations : Active(k) /\ run[k] # "completing"

RecordInv ==
    /\ OneAtATime /\ ViewsCurrent /\ DurablePrefix /\ StreamsStand
    /\ ApprovalsStored /\ StatusRecorded /\ LogOnce /\ StatusLogged

LEMMA LogOnceKept ==
    ASSUME LocalTypeOK, LocalTypeOK', LogOnce, NEW new \in Seq(Events), Logs(new),
           \A n \in 1..Len(new) :
              /\ new[n].type \in RunEvents =>
                    /\ new[n].type \in Ahead(run[new[n].inv])
                    /\ new[n].type \notin Ahead(run'[new[n].inv])
              /\ new[n].type = "session.cancelled" => status # "cancelled" /\ status' = "cancelled"
              /\ new[n].type # "session.started",
           \A m, n \in 1..Len(new) : new[m] = new[n] => m = n,
           \A k \in Invocations : Ahead(run'[k]) \subseteq Ahead(run[k]),
           status = "cancelled" => status' = "cancelled"
    PROVE  LogOnce'
<1>1. /\ Len(log) \in Nat /\ Len(new) \in Nat /\ Len(log') = Len(log) + Len(new)
      /\ \A n \in 1..Len(log) : log'[n] = log[n]
      /\ \A n \in 1..Len(log') : n \notin 1..Len(log) => n - Len(log) \in 1..Len(new) /\ log'[n] = new[n - Len(log)]
    BY DEF Logs, LocalTypeOK
<1>2. /\ \A n \in 1..Len(log) : log[n] \in Events
      /\ \A n \in 1..Len(new) : new[n] \in Events
    BY DEF LocalTypeOK
<1>3. \A e \in Events : e.inv \in Invocations
                        /\ e.type \in RunEvents \cup {"session.started", "session.cancelled"}
    BY InvocationsAssumption DEF Events
<1>4. ASSUME NEW m \in 1..Len(log), NEW n \in 1..Len(new) PROVE log[m] # new[n]
    BY <1>2, <1>3 DEF LogOnce
<1>5. ASSUME NEW m \in 1..Len(log'), NEW n \in 1..Len(log'), log'[m] = log'[n] PROVE m = n
    <2>1. CASE m \in 1..Len(log) /\ n \in 1..Len(log)
        BY <1>1, <1>5, <2>1 DEF LogOnce
    <2>2. CASE m \notin 1..Len(log) /\ n \notin 1..Len(log)
        <3>1. m - Len(log) = n - Len(log)
            BY <1>1, <1>5, <2>2
        <3> QED  BY <1>1, <3>1
    <2>3. CASE m \in 1..Len(log) /\ n \notin 1..Len(log)
        BY <1>1, <1>4, <1>5, <2>3
    <2>4. CASE m \notin 1..Len(log) /\ n \in 1..Len(log)
        BY <1>1, <1>4, <1>5, <2>4
    <2> QED  BY <2>1, <2>2, <2>3, <2>4
<1>6. ASSUME NEW n \in 1..Len(log')
      PROVE  /\ log'[n].type \in RunEvents => log'[n].type \notin Ahead(run'[log'[n].inv])
             /\ log'[n].type = "session.cancelled" => status' = "cancelled"
    <2>1. CASE n \in 1..Len(log)
        BY <1>1, <1>2, <1>3, <2>1 DEF LogOnce
    <2>2. CASE n \notin 1..Len(log)
        BY <1>1, <2>2
    <2> QED  BY <2>1, <2>2
<1> QED  BY <1>5, <1>6 DEF LogOnce

\* The same, for a step that logs one event of a run.
LEMMA RunLogsOnce ==
    ASSUME LocalTypeOK, LocalTypeOK', LogOnce, NEW k \in Invocations, NEW type \in RunEvents,
           Logs(<<Event(type, k)>>), NEW place \in RunPlaces, Moves(k, place),
           type \in Ahead(run[k]), type \notin Ahead(place), Ahead(place) \subseteq Ahead(run[k]),
           status = "cancelled" => status' = "cancelled"
    PROVE  LogOnce'
<1> DEFINE new == <<Event(type, k)>>
<1>1. Event(type, k).type = type /\ Event(type, k).inv = k /\ type \notin {"session.started", "session.cancelled"}
    BY DEF Event, RunEvents
<1>2. new \in Seq(Events) /\ Len(new) = 1 /\ new[1] = Event(type, k)
    BY EventsTyped
<1>3. run' = [run EXCEPT ![k] = place] /\ run \in [Invocations -> RunPlaces]
    BY DEF Moves, LocalTypeOK
<1>4. \A j \in Invocations : Ahead(run'[j]) \subseteq Ahead(run[j])
    BY <1>3
<1>5. run'[k] = place
    BY <1>3
<1> HIDE DEF new
<1>6. Logs(new)
    BY DEF new
<1>7. \A n \in 1..Len(new) :
          /\ n = 1 /\ new[n].type = type /\ new[n].inv = k
          /\ new[n].type \in Ahead(run[new[n].inv]) /\ new[n].type \notin Ahead(run'[new[n].inv])
          /\ new[n].type \notin {"session.started", "session.cancelled"}
    BY <1>1, <1>2, <1>5
<1>8. \A m, n \in 1..Len(new) : new[m] = new[n] => m = n
    BY <1>7
<1> QED  BY <1>2, <1>4, <1>6, <1>7, <1>8, LogOnceKept

\* The same, for a step that logs nothing.
LEMMA SilentStepLogsOnce ==
    ASSUME LocalTypeOK, LogOnce, UNCHANGED log,
           \A k \in Invocations : Ahead(run'[k]) \subseteq Ahead(run[k]),
           status = "cancelled" => status' = "cancelled"
    PROVE  LogOnce'
<1>1. \A n \in 1..Len(log) : log[n] \in Events
    BY DEF LocalTypeOK
<1>2. \A e \in Events : e.inv \in Invocations
    BY InvocationsAssumption DEF Events
<1> QED  BY <1>1, <1>2 DEF LogOnce

LEMMA LocalStepLogsOnce ==
    ASSUME LocalTypeOK, LogOnce, [LocalNext]_localVars PROVE LogOnce'
<1>0. LocalTypeOK'
    BY LocalStepTyped
<1>a. run \in [Invocations -> RunPlaces]
    BY DEF LocalTypeOK
<1>s. ASSUME NEW k \in Invocations, NEW place \in RunPlaces, Moves(k, place), UNCHANGED log,
             Ahead(place) \subseteq Ahead(run[k]), status = "cancelled" => status' = "cancelled"
      PROVE  LogOnce'
    <2>1. \A j \in Invocations : Ahead(run'[j]) \subseteq Ahead(run[j])
        BY <1>a, <1>s DEF Moves
    <2> QED  BY <1>s, <2>1, SilentStepLogsOnce
<1>1. ASSUME NEW k \in Invocations, RunStarted(k) PROVE LogOnce'
    <2>1. PICK place \in {"failing", "running"} : Moves(k, place)
        BY <1>1 DEF RunStarted
    <2>2. /\ "run.started" \in Ahead(run[k]) /\ "run.started" \notin Ahead(place)
          /\ Ahead(place) \subseteq Ahead(run[k]) /\ place \in RunPlaces /\ "run.started" \in RunEvents
        BY <1>1 DEF RunStarted, At, Ahead, RunPlaces, RunEvents, Completions, Failures
    <2>3. Logs(<<Event("run.started", k)>>) /\ status' = status
        BY <1>1 DEF RunStarted
    <2> QED  BY <1>0, <2>1, <2>2, <2>3, RunLogsOnce
<1>2. ASSUME NEW k \in Invocations, Ask(k) PROVE LogOnce'
    <2>1. PICK place \in {"throwing", "asking"} : Moves(k, place)
        BY <1>2 DEF Ask
    <2>2. /\ "approval.requested" \in Ahead(run[k]) /\ "approval.requested" \notin Ahead(place)
          /\ Ahead(place) \subseteq Ahead(run[k]) /\ place \in RunPlaces /\ "approval.requested" \in RunEvents
        BY <1>2 DEF Ask, At, Ahead, RunPlaces, RunEvents, Completions, Failures
    <2>3. Logs(<<Event("approval.requested", k)>>) /\ (status = "cancelled" => status' = "cancelled")
        BY <1>2 DEF Ask
    <2> QED  BY <1>0, <2>1, <2>2, <2>3, RunLogsOnce
<1>3. ASSUME NEW k \in Invocations, Decided(k) PROVE LogOnce'
    <2>1. PICK place \in {"granted", "failing"}, type \in {"approval.approved", "approval.denied"} :
              Moves(k, place) /\ Logs(<<Event(type, k)>>)
        BY <1>3 DEF Decided
    <2>2. /\ type \in Ahead(run[k]) /\ type \notin Ahead(place)
          /\ Ahead(place) \subseteq Ahead(run[k]) /\ place \in RunPlaces /\ type \in RunEvents
        BY <1>3 DEF Decided, At, Ahead, RunPlaces, RunEvents, Completions, Failures
    <2>3. status' = status
        BY <1>3 DEF Decided
    <2> QED  BY <1>0, <2>1, <2>2, <2>3, RunLogsOnce
<1>4. ASSUME NEW k \in Invocations, Act(k) PROVE LogOnce'
    <2>1. Ahead("acted") \subseteq Ahead(run[k]) /\ "acted" \in RunPlaces
        BY <1>4 DEF Act, At, Ahead, RunPlaces
    <2> QED  BY <1>4, <1>s, <2>1 DEF Act
<1>5. ASSUME NEW k \in Invocations, RunCompleted(k) PROVE LogOnce'
    <2>1. PICK place \in {"completing", "throwing"} : Moves(k, place)
        BY <1>5 DEF RunCompleted
    <2>2. /\ "run.completed" \in Ahead(run[k]) /\ "run.completed" \notin Ahead(place)
          /\ "session.completed" \in Ahead(run[k]) /\ "session.completed" \notin Ahead(place)
          /\ Ahead(place) \subseteq Ahead(run[k]) /\ place \in RunPlaces
          /\ {"run.completed", "session.completed"} \subseteq RunEvents
        BY <1>5 DEF RunCompleted, At, Ahead, RunPlaces, RunEvents, Completions, Failures
    <2>3. status = "cancelled" => status' = "cancelled"
        BY <1>5 DEF RunCompleted
    <2>4. CASE Logs(<<Event("run.completed", k)>>)
        BY <1>0, <2>1, <2>2, <2>3, <2>4, RunLogsOnce
    <2>5. CASE Logs(<<Event("run.completed", k), Event("session.completed", k)>>)
        <3> DEFINE new == <<Event("run.completed", k), Event("session.completed", k)>>
        <3>1. /\ new \in Seq(Events) /\ Len(new) = 2
              /\ new[1] = Event("run.completed", k) /\ new[2] = Event("session.completed", k)
            BY EventsTyped, <2>2
        <3>2. \A type \in RunEvents : Event(type, k).type = type /\ Event(type, k).inv = k
            BY DEF Event
        <3>3. run'[k] = place /\ \A j \in Invocations : Ahead(run'[j]) \subseteq Ahead(run[j])
            BY <1>a, <2>1, <2>2 DEF Moves
        <3> HIDE DEF new
        <3>4. \A n \in 1..Len(new) :
                  /\ new[n].type \in {"run.completed", "session.completed"} /\ new[n].inv = k
                  /\ new[n].type = IF n = 1 THEN "run.completed" ELSE "session.completed"
            BY <2>2, <3>1, <3>2
        <3>5. \A m, n \in 1..Len(new) : new[m] = new[n] => m = n
            BY <3>1, <3>4
        <3>6. Logs(new)
            BY <2>5 DEF new
        <3> QED  BY <1>0, <2>2, <2>3, <3>1, <3>3, <3>4, <3>5, <3>6, LogOnceKept
    <2> QED  BY <1>5, <2>4, <2>5 DEF RunCompleted
<1>6. ASSUME NEW k \in Invocations, RunFailed(k) PROVE LogOnce'
    <2>2. /\ "run.failed" \in Ahead(run[k]) /\ "run.failed" \notin Ahead("throwing")
          /\ Ahead("throwing") \subseteq Ahead(run[k]) /\ "throwing" \in RunPlaces /\ "run.failed" \in RunEvents
        BY <1>6 DEF RunFailed, At, Ahead, RunPlaces, RunEvents, Completions, Failures
    <2>3. Logs(<<Event("run.failed", k)>>) /\ status' = status /\ Moves(k, "throwing")
        BY <1>6 DEF RunFailed
    <2> QED  BY <1>0, <2>2, <2>3, RunLogsOnce
<1>7. ASSUME NEW k \in Invocations, JobEnds(k) PROVE LogOnce'
    <2>1. Ahead("settled") \subseteq Ahead(run[k]) /\ "settled" \in RunPlaces
        BY DEF Ahead, RunPlaces
    <2> QED  BY <1>7, <1>s, <2>1 DEF JobEnds
<1>8. ASSUME NEW k \in Invocations, JobThrows(k) PROVE LogOnce'
    <2>1. \A place \in {"settled", "rejected"} : Ahead(place) = {} /\ place \in RunPlaces
        BY DEF Ahead, RunPlaces
    <2>2. "session.failed" \in Ahead(run[k]) /\ "session.failed" \in RunEvents
        BY <1>8 DEF JobThrows, At, Ahead, RunEvents
    <2>3. status = "cancelled" => status' = "cancelled"
        BY <1>8 DEF JobThrows
    <2>4. \/ (Moves(k, "settled") \/ Moves(k, "rejected")) /\ UNCHANGED log
          \/ Moves(k, "settled") /\ Logs(<<Event("session.failed", k)>>)
        BY <1>8 DEF JobThrows
    <2>5. CASE Moves(k, "settled") /\ Logs(<<Event("session.failed", k)>>)
        BY <1>0, <2>1, <2>2, <2>3, <2>5, RunLogsOnce
    <2>6. CASE (Moves(k, "settled") \/ Moves(k, "rejected")) /\ UNCHANGED log
        BY <1>s, <2>1, <2>3, <2>6
    <2> QED  BY <2>4, <2>5, <2>6
<1>9. ASSUME NEW k \in Invocations, LocalSendMessage(k) PROVE LogOnce'
    <2>1. Ahead("begun") \subseteq Ahead(run[k]) /\ "begun" \in RunPlaces
        BY <1>9 DEF LocalSendMessage, At, Ahead, RunPlaces
    <2> QED  BY <1>9, <1>s, <2>1 DEF LocalSendMessage
<1>10. ASSUME NEW k \in Invocations, NEW d \in Decisions, LocalApprove(k, d) PROVE LogOnce'
    BY <1>10, SilentStepLogsOnce DEF LocalApprove
<1>11. CASE LocalCancel
    <2>1. CASE status \in {"running", "waiting"}
        <3> DEFINE new == <<Event("session.cancelled", First)>>
        <3>1. /\ new \in Seq(Events) /\ Len(new) = 1 /\ new[1] = Event("session.cancelled", First)
            BY EventsTyped
        <3>2. Event("session.cancelled", First).type = "session.cancelled" /\ "session.cancelled" \notin RunEvents
            BY DEF Event, RunEvents
        <3>3. Logs(new) /\ status' = "cancelled" /\ run' = run
            BY <1>11, <2>1 DEF LocalCancel
        <3> HIDE DEF new
        <3>4. status # "cancelled" /\ \A j \in Invocations : Ahead(run'[j]) \subseteq Ahead(run[j])
            BY <2>1, <3>3
        <3> QED  BY <1>0, <3>1, <3>2, <3>3, <3>4, LogOnceKept
    <2>2. CASE status \notin {"running", "waiting"}
        BY <1>11, <2>2, SilentStepLogsOnce DEF LocalCancel
    <2> QED  BY <2>1, <2>2
<1>12. CASE UNCHANGED localVars
    BY <1>12, SilentStepLogsOnce DEF localVars
<1> QED
    BY <1>1, <1>2, <1>3, <1>4, <1>5, <1>6, <1>7, <1>8, <1>9, <1>10, <1>11, <1>12
    DEF LocalNext, RunStep

LEMMA LoggedStays ==
    ASSUME LogGrows, LocalTypeOK, LocalTypeOK', NEW type, Logged(type) PROVE Logged(type)'
<1>1. Len(log) \in Nat /\ Len(log') \in Nat
    BY DEF LocalTypeOK
<1> QED  BY <1>1 DEF LogGrows, Logged

LEMMA LogsLast ==
    ASSUME LocalTypeOK, NEW new \in Seq(Events), new # <<>>, Logs(new)
    PROVE  Logged(new[Len(new)].type)'
<1>1. Len(log') = Len(log) + Len(new) /\ log'[Len(log) + Len(new)] = new[Len(new)]
    BY DEF Logs, LocalTypeOK
<1>2. Len(log) \in Nat /\ Len(new) \in Nat \ {0}
    BY DEF LocalTypeOK
<1> QED  BY <1>1, <1>2 DEF Logged

LEMMA LocalStepLogsStatus ==
    ASSUME LocalTypeOK, StatusLogged, LogGrows, [LocalNext]_localVars PROVE StatusLogged'
<1> USE DEF At
<1>0. LocalTypeOK' /\ run \in [Invocations -> RunPlaces] /\ status \in SessionStatus
    BY LocalStepTyped DEF LocalTypeOK
<1>a. \A type : Logged(type) => Logged(type)'
    BY <1>0, LoggedStays
<1>w. ASSUME NEW k \in Invocations, NEW place \in RunPlaces, Moves(k, place),
             status' = status \/ (status' = "waiting" /\ status = "running"),
             Active(k), place \notin {"absent", "settled", "rejected", "completing"}
      PROVE  StatusLogged'
    <2>1. Active(k)' /\ run'[k] # "completing"
        BY <1>0, <1>w DEF Active, Moves
    <2> QED  BY <1>0, <1>w, <1>a, <2>1 DEF StatusLogged
<1>1. ASSUME NEW k \in Invocations, RunStarted(k) PROVE StatusLogged'
    <2>1. PICK place \in {"failing", "running"} : Moves(k, place)
        BY <1>1 DEF RunStarted
    <2>2. Active(k) /\ place \in RunPlaces \ {"absent", "settled", "rejected", "completing"}
          /\ (status' = status \/ (status' = "waiting" /\ status = "running"))
        BY <1>1 DEF RunStarted, Active, RunPlaces
    <2> QED  BY <1>w, <2>1, <2>2
<1>2. ASSUME NEW k \in Invocations, Ask(k) PROVE StatusLogged'
    <2>1. PICK place \in {"throwing", "asking"} : Moves(k, place)
        BY <1>2 DEF Ask
    <2>2. Active(k) /\ place \in RunPlaces \ {"absent", "settled", "rejected", "completing"}
          /\ (status' = status \/ (status' = "waiting" /\ status = "running"))
        BY <1>2 DEF Ask, Active, RunPlaces
    <2> QED  BY <1>w, <2>1, <2>2
<1>3. ASSUME NEW k \in Invocations, Decided(k) PROVE StatusLogged'
    <2>1. PICK place \in {"granted", "failing"} : Moves(k, place)
        BY <1>3 DEF Decided
    <2>2. Active(k) /\ place \in RunPlaces \ {"absent", "settled", "rejected", "completing"}
          /\ (status' = status \/ (status' = "waiting" /\ status = "running"))
        BY <1>3 DEF Decided, Active, RunPlaces
    <2> QED  BY <1>w, <2>1, <2>2
<1>4. ASSUME NEW k \in Invocations, Act(k) PROVE StatusLogged'
    <2>1. PICK place \in {"acted"} : Moves(k, place)
        BY <1>4 DEF Act
    <2>2. Active(k) /\ place \in RunPlaces \ {"absent", "settled", "rejected", "completing"}
          /\ (status' = status \/ (status' = "waiting" /\ status = "running"))
        BY <1>4 DEF Act, Active, RunPlaces
    <2> QED  BY <1>w, <2>1, <2>2
<1>5. ASSUME NEW k \in Invocations, RunCompleted(k) PROVE StatusLogged'
    <2>1. CASE status = "cancelled"
        BY <1>5, <1>a, <2>1 DEF RunCompleted, StatusLogged
    <2>2. CASE status # "cancelled" /\ MayBecome(Resumed(status), "completed")
        <3> DEFINE new == <<Event("run.completed", k), Event("session.completed", k)>>
        <3>1. new \in Seq(Events) /\ Len(new) = 2 /\ new[2] = Event("session.completed", k) /\ new # <<>>
            BY EventsTyped DEF RunEvents
        <3>2. Logs(new) /\ status' = "completed"
            BY <1>5, <2>2 DEF RunCompleted
        <3> HIDE DEF new
        <3>3. Logged(new[Len(new)].type)'
            BY <3>1, <3>2, LogsLast
        <3> QED  BY <3>1, <3>2, <3>3 DEF StatusLogged, Event
    <2>3. CASE status # "cancelled" /\ ~MayBecome(Resumed(status), "completed")
        <3>1. status' = status /\ status \notin {"running", "waiting", "cancelled"}
            BY <1>5, <2>3 DEF RunCompleted, MayBecome, Resumed, Successors, Terminal
        <3> QED  BY <1>0, <1>a, <3>1 DEF StatusLogged
    <2> QED  BY <2>1, <2>2, <2>3
<1>6. ASSUME NEW k \in Invocations, RunFailed(k) PROVE StatusLogged'
    <2>1. PICK place \in {"throwing"} : Moves(k, place)
        BY <1>6 DEF RunFailed
    <2>2. Active(k) /\ place \in RunPlaces \ {"absent", "settled", "rejected", "completing"}
          /\ (status' = status \/ (status' = "waiting" /\ status = "running"))
        BY <1>6 DEF RunFailed, Active, RunPlaces
    <2> QED  BY <1>w, <2>1, <2>2
<1>7. ASSUME NEW k \in Invocations, JobEnds(k) PROVE StatusLogged'
    <2>1. status' = status /\ \A j \in Invocations : Active(j) /\ run[j] # "completing" =>
              (Active(j) /\ run[j] # "completing")'
        BY <1>0, <1>7 DEF JobEnds, Active, Moves
    <2> QED  BY <1>a, <2>1 DEF StatusLogged
<1>8. ASSUME NEW k \in Invocations, JobThrows(k) PROVE StatusLogged'
    <2>1. CASE status = "cancelled"
        BY <1>8, <1>a, <2>1 DEF JobThrows, StatusLogged
    <2>2. CASE status # "cancelled" /\ MayBecome(Resumed(status), "failed")
        <3> DEFINE new == <<Event("session.failed", k)>>
        <3>1. new \in Seq(Events) /\ Len(new) = 1 /\ new[1] = Event("session.failed", k) /\ new # <<>>
            BY EventsTyped DEF RunEvents
        <3>2. Logs(new) /\ status' = "failed"
            BY <1>8, <2>2 DEF JobThrows
        <3> HIDE DEF new
        <3>3. Logged(new[Len(new)].type)'
            BY <3>1, <3>2, LogsLast
        <3> QED  BY <3>1, <3>2, <3>3 DEF StatusLogged, Event
    <2>3. CASE status # "cancelled" /\ ~MayBecome(Resumed(status), "failed")
        <3>1. status' = status /\ status \notin {"running", "waiting", "cancelled"}
            BY <1>8, <2>3 DEF JobThrows, MayBecome, Resumed, Successors, Terminal
        <3> QED  BY <1>0, <1>a, <3>1 DEF StatusLogged
    <2> QED  BY <2>1, <2>2, <2>3
<1>9. ASSUME NEW k \in Invocations, LocalSendMessage(k) PROVE StatusLogged'
    <2>1. (Active(k) /\ run[k] # "completing")'
        BY <1>0, <1>9 DEF LocalSendMessage, Active, Moves
    <2>2. status' \in {status, "running"}
        BY <1>9 DEF LocalSendMessage
    <2> QED  BY <1>a, <2>1, <2>2 DEF StatusLogged
<1>10. ASSUME NEW k \in Invocations, NEW d \in Decisions, LocalApprove(k, d) PROVE StatusLogged'
    BY <1>10, <1>a DEF LocalApprove, StatusLogged, Active
<1>11. CASE LocalCancel
    <2>1. CASE status \in {"running", "waiting"}
        <3> DEFINE new == <<Event("session.cancelled", First)>>
        <3>1. new \in Seq(Events) /\ Len(new) = 1 /\ new[1] = Event("session.cancelled", First) /\ new # <<>>
            BY EventsTyped
        <3>2. Logs(new) /\ status' = "cancelled"
            BY <1>11, <2>1 DEF LocalCancel
        <3> HIDE DEF new
        <3>3. Logged(new[Len(new)].type)'
            BY <3>1, <3>2, LogsLast
        <3> QED  BY <3>1, <3>2, <3>3 DEF StatusLogged, Event
    <2>2. CASE status \notin {"running", "waiting"}
        BY <1>11, <1>a, <2>2 DEF LocalCancel, StatusLogged
    <2> QED  BY <2>1, <2>2
<1>12. CASE UNCHANGED localVars
    BY <1>12, <1>a DEF localVars, StatusLogged, Active
<1> QED
    BY <1>1, <1>2, <1>3, <1>4, <1>5, <1>6, <1>7, <1>8, <1>9, <1>10, <1>11, <1>12
    DEF LocalNext, RunStep

-----------------------------------------------------------------------------
(* The steps of the sessions.                                                *)

LEMMA RecordInit == Init => RecordInv
<1> SUFFICES ASSUME Init PROVE RecordInv
    OBVIOUS
<1>1. log = <<Event("session.started", First)>> /\ Len(log) = 1
    BY DEF Init, LocalInit
<1>2. stored.events = <<>> /\ Len(stored.events) = 0 /\ stored.status = "running"
      /\ \A k \in Invocations : stored.approvals[k] = "none"
    BY DEF Init, FreshSnapshot
<1>3. OneAtATime /\ ViewsCurrent /\ StreamsStand
    BY DEF Init, OneAtATime, ViewsCurrent, StreamsStand, InCall, Busy, OpenStream
<1>4. ApprovalsStored /\ DurablePrefix /\ StatusRecorded
    BY <1>1, <1>2 DEF Init, ApprovalsStored, DurablePrefix, StatusRecorded
<1>5. LogOnce
    BY <1>1 DEF LogOnce, Event, RunEvents
<1>6. StatusLogged
    BY InvocationsAssumption DEF Init, LocalInit, StatusLogged, Active
<1> QED  BY <1>3, <1>4, <1>5, <1>6 DEF RecordInv

\* What the application and its streams hold; the rest of RecordInv is the provider's.
AppRecord ==
    OneAtATime /\ ViewsCurrent /\ DurablePrefix /\ StreamsStand /\ ApprovalsStored /\ StatusRecorded

LEMMA DecisionsStay ==
    ASSUME LocalTypeOK, NEW k \in Invocations, RunStep(k) \/ Cancel
    PROVE  UNCHANGED decision
BY DEF RunStep, RunStarted, Ask, Decided, Act, RunCompleted, RunFailed, JobEnds, JobThrows,
       Cancel, LocalCancel

\* The provider's own steps only append to its log.
LEMMA ProviderKeepsRecord ==
    ASSUME SessionInv, SessionInv', AppRecord, LogGrows, UNCHANGED <<decision, stored, streamVars, callVars>>
    PROVE  AppRecord'
<1> USE DEF streamVars, callVars
<1>1. OneAtATime' /\ ViewsCurrent'
    BY DEF AppRecord, OneAtATime, ViewsCurrent, InCall, Busy
<1>2. DurablePrefix'
    BY DEF AppRecord, DurablePrefix, LogGrows, SessionInv, TypeOK, LocalTypeOK, Snapshots
<1>3. StreamsStand' /\ ApprovalsStored' /\ StatusRecorded'
    BY DEF AppRecord, StreamsStand, OpenStream, ApprovalsStored, StatusRecorded
<1> QED  BY <1>1, <1>2, <1>3 DEF AppRecord

LEMMA CallsKeepRecord ==
    ASSUME Overlap = FALSE, SessionInv, AppRecord, NEW k \in Invocations,
           \/ CallStep(k) \/ SendMessage(k)
           \/ \E d \in Decisions : Approve(k, d)
    PROVE  AppRecord' /\ stored'.status = stored.status
<1> USE DEF SessionInv, TypeOK, LocalTypeOK, AppRecord, CallPlaces
<1>a. /\ stored \in Snapshots /\ Len(stored.events) \in Nat
      /\ stored.approvals \in [Invocations -> Decisions \cup {"none", "requested"}]
    BY DEF Snapshots
<1>1. ASSUME NEW d \in Decisions, Approve(k, d) PROVE AppRecord' /\ stored'.status = stored.status
    <2>1. OneAtATime'
        BY <1>1 DEF Approve, MayCall, AtRest, OneAtATime, InCall, Busy, streamVars
    <2>2. ViewsCurrent' /\ StreamsStand' /\ StatusRecorded'
        BY <1>1 DEF Approve, ViewsCurrent, StreamsStand, OpenStream, StatusRecorded, streamVars
    <2>3. DurablePrefix'
        BY <1>1 DEF Approve, LocalApprove, DurablePrefix
    <2>4. ApprovalsStored'
        BY <1>1, <1>a DEF Approve, LocalApprove, ApprovalsStored, Decisions
    <2> QED  BY <1>1, <2>1, <2>2, <2>3, <2>4 DEF Approve
<1>2. ASSUME SendMessage(k) PROVE AppRecord' /\ stored'.status = stored.status
    <2>1. OneAtATime'
        BY <1>2 DEF SendMessage, MayCall, AtRest, OneAtATime, InCall, Busy, streamVars
    <2>2. ViewsCurrent' /\ StreamsStand' /\ StatusRecorded'
        BY <1>2 DEF SendMessage, ViewsCurrent, StreamsStand, OpenStream, StatusRecorded, streamVars
    <2>3. DurablePrefix' /\ ApprovalsStored'
        BY <1>2 DEF SendMessage, LocalSendMessage, DurablePrefix, ApprovalsStored
    <2> QED  BY <1>2, <2>1, <2>2, <2>3 DEF SendMessage
<1>3. ASSUME LoadToApprove(k) PROVE AppRecord' /\ stored'.status = stored.status
    <2>1. OneAtATime'
        BY <1>3 DEF LoadToApprove, OneAtATime, InCall, Busy, streamVars
    <2>2. ViewsCurrent' /\ StreamsStand' /\ StatusRecorded'
        BY <1>3 DEF LoadToApprove, ViewsCurrent, StreamsStand, OpenStream, StatusRecorded, streamVars
    <2>3. DurablePrefix' /\ ApprovalsStored'
        BY <1>3 DEF LoadToApprove, localVars, DurablePrefix, ApprovalsStored
    <2> QED  BY <1>3, <2>1, <2>2, <2>3 DEF LoadToApprove
<1>4. ASSUME LoadToSend(k) PROVE AppRecord' /\ stored'.status = stored.status
    <2>1. OneAtATime'
        BY <1>4 DEF LoadToSend, OneAtATime, InCall, Busy, streamVars
    <2>2. ViewsCurrent' /\ StreamsStand' /\ StatusRecorded'
        BY <1>4 DEF LoadToSend, ViewsCurrent, StreamsStand, OpenStream, StatusRecorded, streamVars
    <2>3. DurablePrefix' /\ ApprovalsStored'
        BY <1>4 DEF LoadToSend, localVars, DurablePrefix, ApprovalsStored
    <2> QED  BY <1>4, <2>1, <2>2, <2>3 DEF LoadToSend
<1>5. ASSUME SaveDecision(k) PROVE AppRecord' /\ stored'.status = stored.status
    <2>1. approveView[k] = stored /\ stored.approvals[k] # "none"
        BY <1>5 DEF SaveDecision, ViewsCurrent, ApprovalsStored
    <2>2. stored' = [stored EXCEPT !.approvals[k] = decision[k]]
        BY <1>5, <2>1 DEF SaveDecision
    <2>3. /\ stored'.events = stored.events /\ stored'.status = stored.status
          /\ \A j \in Invocations : stored'.approvals[j] = IF j = k THEN decision[k] ELSE stored.approvals[j]
        BY <1>a, <2>2 DEF Snapshots
    <2>4. OneAtATime'
        BY <1>5 DEF SaveDecision, OneAtATime, InCall, Busy, streamVars
    <2>5. InCall(k)
        BY <1>5 DEF SaveDecision, InCall, Busy
    <2>6. ViewsCurrent'
        <3>1. \A s \in Streams : stream'[s] \notin {"opened", "refreshed"}
            BY <1>5, <2>5 DEF SaveDecision, OneAtATime, streamVars
        <3>2. \A j \in Invocations : j # k => ~InCall(j)
            BY <2>5 DEF OneAtATime
        <3>3. \A j \in Invocations : approving'[j] # "loaded" /\ sending'[j] # "loaded"
            <4>1. approving[k] = "loaded" /\ sending[k] # "loaded" /\ sending' = sending
                BY <1>5 DEF SaveDecision, OneAtATime, Busy
            <4>2. approving' = [approving EXCEPT ![k] = "returned"]
                BY <1>5 DEF SaveDecision
            <4> QED  BY <3>2, <4>1, <4>2 DEF InCall, Busy
        <3> HIDE DEF SessionInv, TypeOK, LocalTypeOK, AppRecord, CallPlaces
        <3> QED  BY <3>1, <3>3 DEF ViewsCurrent
    <2>7. DurablePrefix' /\ StreamsStand' /\ StatusRecorded'
        BY <1>5, <2>3 DEF SaveDecision, localVars, streamVars, DurablePrefix, StreamsStand, OpenStream, StatusRecorded
    <2>8. ApprovalsStored'
        <3>1. /\ decision' = decision /\ approving'[k] = "returned" /\ approving[k] = "loaded"
              /\ \A j \in Invocations : j # k => approving'[j] = approving[j]
            BY <1>5 DEF SaveDecision, localVars
        <3>2. ApprovalsStored
            OBVIOUS
        <3> HIDE DEF SessionInv, TypeOK, LocalTypeOK, AppRecord, CallPlaces
        <3>3. \A j \in Invocations :
                 stored.approvals[j] # "none" =>
                    \E n \in 1..Len(stored'.events) : stored'.events[n] = Event("approval.requested", j)
            BY <2>3, <3>2 DEF ApprovalsStored
        <3>4. decision[k] # "none"
            BY <3>1, <3>2 DEF ApprovalsStored
        <3> QED  BY <2>1, <2>3, <3>1, <3>2, <3>3, <3>4 DEF ApprovalsStored
    <2> QED  BY <2>3, <2>4, <2>6, <2>7, <2>8
<1>6. ASSUME SaveInvocation(k) PROVE AppRecord' /\ stored'.status = stored.status
    <2>1. sendView[k] = stored
        BY <1>6 DEF SaveInvocation, ViewsCurrent
    <2>2. stored' = [stored EXCEPT !.invocations = @ \cup {k}]
        BY <1>6, <2>1 DEF SaveInvocation
    <2>3. stored'.events = stored.events /\ stored'.status = stored.status /\ stored'.approvals = stored.approvals
        BY <1>a, <2>2 DEF Snapshots
    <2>4. OneAtATime'
        BY <1>6 DEF SaveInvocation, OneAtATime, InCall, Busy, streamVars
    <2>5. InCall(k)
        BY <1>6 DEF SaveInvocation, InCall, Busy
    <2>6. ViewsCurrent'
        <3>1. \A s \in Streams : stream'[s] \notin {"opened", "refreshed"}
            BY <1>6, <2>5 DEF SaveInvocation, OneAtATime, streamVars
        <3>2. \A j \in Invocations : j # k => ~InCall(j)
            BY <2>5 DEF OneAtATime
        <3>3. \A j \in Invocations : approving'[j] # "loaded" /\ sending'[j] # "loaded"
            <4>1. sending[k] = "loaded" /\ approving[k] # "loaded" /\ approving' = approving
                BY <1>6 DEF SaveInvocation, OneAtATime, Busy
            <4>2. sending' = [sending EXCEPT ![k] = "returned"]
                BY <1>6 DEF SaveInvocation
            <4> QED  BY <3>2, <4>1, <4>2 DEF InCall, Busy
        <3> HIDE DEF SessionInv, TypeOK, LocalTypeOK, AppRecord, CallPlaces
        <3> QED  BY <3>1, <3>3 DEF ViewsCurrent
    <2>7. DurablePrefix' /\ StreamsStand' /\ StatusRecorded' /\ ApprovalsStored'
        <3>1. UNCHANGED <<log, decision, streamVars, approving>>
            BY <1>6 DEF SaveInvocation, localVars
        <3>2. DurablePrefix /\ StreamsStand /\ StatusRecorded /\ ApprovalsStored
            OBVIOUS
        <3> HIDE DEF SessionInv, TypeOK, LocalTypeOK, AppRecord, CallPlaces
        <3>3. DurablePrefix' /\ StatusRecorded'
            BY <2>3, <3>1, <3>2 DEF DurablePrefix, StatusRecorded
        <3>4. StreamsStand' /\ ApprovalsStored'
            BY <2>3, <3>1, <3>2 DEF streamVars, StreamsStand, OpenStream, ApprovalsStored
        <3> QED  BY <3>3, <3>4
    <2> QED  BY <2>3, <2>4, <2>6, <2>7
<1> QED  BY <1>1, <1>2, <1>3, <1>4, <1>5, <1>6 DEF CallStep

\* Streams: only Save() changes what is durable, by the next event of the log.
LEMMA StreamsKeepRecord ==
    ASSUME Overlap = FALSE, SessionInv, AppRecord, LogOnce, NEW s \in Streams,
           Open(s) \/ Replay(s) \/ Refresh(s) \/ Pull(s) \/ EndOfStream(s) \/ Abandon(s)
    PROVE  AppRecord' /\ stored'.status = stored.status
<1> USE DEF SessionInv, TypeOK, LocalTypeOK, AppRecord, StreamPlaces
<1>a. stored \in Snapshots /\ Len(stored.events) \in Nat /\ Len(log) \in Nat
    BY DEF Snapshots
<1>b. /\ UNCHANGED <<stored, log, decision, approving, approveView, sending, sendView>>
      /\ \A t \in Streams \ {s} : /\ stream'[t] = stream[t] /\ view'[t] = view[t]
                                  /\ index'[t] = index[t] /\ delivered'[t] = delivered[t]
    BY DEF Open, Replay, Refresh, Pull, EndOfStream, Abandon, Close, localVars, callVars
<1>c. DurablePrefix' /\ ApprovalsStored' /\ StatusRecorded'
    BY <1>b DEF DurablePrefix, ApprovalsStored, StatusRecorded
<1>s. ASSUME StreamsStand', OneAtATime', ViewsCurrent' PROVE AppRecord' /\ stored'.status = stored.status
    BY <1>b, <1>c, <1>s
<1>o. ASSUME NEW place, stream'[s] = place,
             \/ place \in {"closed", "yielded"}
             \/ AtRest /\ stream[s] # "closed"
             \/ AtRest /\ \A t \in Streams : stream[t] = "closed"
             \/ stream[s] \in {"opened", "pulling", "refreshed"},
             stream[s] # "closed" \/ \A t \in Streams : stream[t] = "closed"
      PROVE  OneAtATime'
    BY <1>b, <1>o DEF OneAtATime, InCall, Busy, AtRest
<1>v. ASSUME stream'[s] \in {"opened", "refreshed"} => view'[s] = stored
      PROVE  ViewsCurrent'
    BY <1>b, <1>v DEF ViewsCurrent
<1>t. ASSUME IF OpenStream(s)'
             THEN /\ delivered'[s] = stored.events
                  /\ index'[s] = IF stream'[s] \in {"refreshed", "broken"} THEN Len(stored.events) + 1
                                                                           ELSE Len(stored.events)
             ELSE delivered'[s] = <<>>
      PROVE  StreamsStand'
    BY <1>b, <1>t DEF StreamsStand, OpenStream
<1>1. ASSUME Open(s) PROVE AppRecord' /\ stored'.status = stored.status
    <2>1. stream'[s] = "opened" /\ view'[s] = stored /\ delivered'[s] = delivered[s]
        BY <1>1 DEF Open
    <2>2. OneAtATime'
        BY <1>1, <2>1, <1>o DEF Open, MayCall
    <2>3. StreamsStand'
        BY <1>1, <2>1, <1>t DEF Open, StreamsStand, OpenStream
    <2> QED  BY <2>1, <2>2, <2>3, <1>s, <1>v
<1>2. ASSUME Replay(s) PROVE AppRecord' /\ stored'.status = stored.status
    <2>1. stream[s] = "opened" /\ view[s] = stored /\ stream'[s] \in {"closed", "pulling", "yielded"}
        BY <1>2 DEF Replay, ViewsCurrent
    <2>2. OneAtATime'
        BY <2>1, <1>o
    <2>3. Resume(stored) = Len(stored.events)
        <3>1. CASE stored.events = <<>>
            BY <3>1 DEF Resume
        <3>2. CASE stored.events # <<>>
            <4> DEFINE e == Last(stored.events)
            <4>1. Len(stored.events) \in 1..Len(log) /\ log[Len(stored.events)] = e
                BY <1>a, <3>2 DEF Last, DurablePrefix, Snapshots
            <4>2. \A n \in 1..Len(log) : log[n] = e => n = Len(stored.events)
                BY <4>1 DEF LogOnce
            <4> HIDE DEF e
            <4>3. Contains(log, e)
                BY <4>1 DEF Contains
            <4>4. PositionOf(e) = Len(stored.events)
                BY <4>1, <4>2, <4>3 DEF PositionOf
            <4> QED  BY <3>2, <4>4 DEF Resume, e
        <3> QED  BY <3>1, <3>2
    <2>4. StreamsStand'
        BY <1>2, <2>1, <2>3, <1>t DEF Replay, OpenStream
    <2> QED  BY <2>1, <2>2, <2>4, <1>s, <1>v
<1>3. ASSUME Refresh(s) PROVE AppRecord' /\ stored'.status = stored.status
    <2>1. stream[s] = "pulling" /\ stream'[s] = "refreshed" /\ view'[s] = stored
          /\ index'[s] = index[s] + 1 /\ delivered'[s] = delivered[s]
        BY <1>3 DEF Refresh
    <2>2. OneAtATime'
        BY <2>1, <1>o
    <2>3. StreamsStand'
        BY <2>1, <1>t DEF StreamsStand, OpenStream
    <2> QED  BY <2>1, <2>2, <2>3, <1>s, <1>v
<1>4. ASSUME Pull(s) PROVE AppRecord' /\ stored'.status = stored.status
    <2>1. stream[s] = "yielded" /\ stream'[s] = "pulling" /\ UNCHANGED <<index, delivered>> /\ AtRest
        BY <1>4 DEF Pull, MayCall
    <2>2. OneAtATime'
        BY <2>1, <1>o
    <2>3. StreamsStand'
        BY <2>1, <1>t DEF StreamsStand, OpenStream
    <2> QED  BY <2>1, <2>2, <2>3, <1>s, <1>v
<1>5. ASSUME EndOfStream(s) \/ Abandon(s) PROVE AppRecord' /\ stored'.status = stored.status
    <2>1. stream[s] # "closed" /\ stream'[s] = "closed" /\ delivered'[s] = <<>>
        BY <1>5 DEF EndOfStream, Abandon, Close
    <2>2. OneAtATime'
        BY <2>1, <1>o
    <2>3. StreamsStand'
        BY <2>1, <1>t DEF OpenStream
    <2> QED  BY <2>1, <2>2, <2>3, <1>s, <1>v
<1> QED  BY <1>1, <1>2, <1>3, <1>4, <1>5

\* A status that ended the session takes no event that would replace it.
LEMMA AcceptedStatus ==
    ASSUME NEW st \in SessionStatus, NEW e \in Events, Accepts(st, e)
    PROVE  /\ st \in Terminal => StatusAfter(st, e) = st
           /\ e.type \in Completions => StatusAfter(st, e) \in {"completed", "cancelled"}
           /\ e.type \in Failures => StatusAfter(st, e) \in {"failed", "cancelled"}
           /\ e.type = "session.cancelled" => StatusAfter(st, e) = "cancelled"
           /\ StatusAfter(st, e) = "cancelled" <=> st = "cancelled" \/ e.type = "session.cancelled"
BY DEF Accepts, StatusAfter, MayBecome, Resumed, Successors, SessionStatus, Terminal, Completions, Failures

LEMMA UpToNext == \A n \in Nat : \A m \in 1..(n + 1) : m = n + 1 \/ m \in 1..n
OBVIOUS

LEMMA SaveKeepsRecord ==
    ASSUME Overlap = FALSE, SessionInv, AppRecord, LogOnce, NEW s \in Streams, Save(s)
    PROVE  AppRecord' /\ (stored.status \in Terminal => stored'.status = stored.status)
<1> USE DEF SessionInv, TypeOK, LocalTypeOK, AppRecord, StreamPlaces
<1> DEFINE e == log[index[s]]
           n == Len(stored.events)
<1>a. /\ stored \in Snapshots /\ n \in Nat /\ Len(log) \in Nat /\ stored.status \in SessionStatus
      /\ stored.events \in Seq(Events) /\ stored.approvals \in [Invocations -> Decisions \cup {"none", "requested"}]
    BY DEF Snapshots
<1>b. /\ stream[s] = "refreshed" /\ view[s] = stored /\ delivered[s] = stored.events
      /\ index[s] = n + 1 /\ n + 1 \in 1..Len(log)
    BY DEF Save, ViewsCurrent, StreamsStand, OpenStream, IndexInLog
<1>c. e = log[n + 1] /\ e \in Events /\ ~Contains(stored.events, e)
    <2>1. e = log[n + 1] /\ e \in Events
        BY <1>b
    <2>2. \A m \in 1..n : stored.events[m] # e
        BY <1>a, <1>b, <2>1 DEF DurablePrefix, LogOnce
    <2> QED  BY <2>1, <2>2 DEF Contains
<1>d. /\ \A t \in Streams \ {s} : stream[t] = "closed"
      /\ \A k \in Invocations : ~InCall(k)
    BY <1>b DEF OneAtATime
<1>e. /\ UNCHANGED <<log, decision, index, approving, approveView, sending, sendView>>
      /\ \A t \in Streams \ {s} : stream'[t] = stream[t] /\ view'[t] = view[t] /\ delivered'[t] = delivered[t]
      /\ stream'[s] \in {"yielded", "broken"}
    BY <1>b, <1>c DEF Save, localVars, callVars
<1>1. OneAtATime'
    BY <1>b, <1>d, <1>e DEF OneAtATime, InCall, Busy
<1>2. ViewsCurrent'
    BY <1>d, <1>e DEF ViewsCurrent, InCall, Busy
<1> HIDE DEF e
<1>3. CASE Accepts(stored.status, e)
    <2>1. /\ stored' = WithEvent(stored, e) /\ stream'[s] = "yielded"
          /\ delivered'[s] = Append(stored.events, e)
        BY <1>b, <1>c, <1>3 DEF Save, e
    <2>2. /\ stored'.events = Append(stored.events, e)
          /\ stored'.status = StatusAfter(stored.status, e)
          /\ stored'.approvals = IF e.type = "approval.requested" THEN [stored.approvals EXCEPT ![e.inv] = "requested"]
                                 ELSE stored.approvals
        BY <1>a, <2>1 DEF WithEvent, Snapshots
    <2>3. /\ Len(stored'.events) = n + 1 /\ stored'.events[n + 1] = e
          /\ \A m \in 1..n : stored'.events[m] = stored.events[m]
        BY <1>a, <1>c, <2>2
    <2>r. DurablePrefix /\ StreamsStand /\ ApprovalsStored /\ StatusRecorded
        OBVIOUS
    <2>n. \A m \in 1..(n + 1) : m = n + 1 \/ m \in 1..n
        BY <1>a, UpToNext
    <2> HIDE DEF SessionInv, TypeOK, LocalTypeOK, AppRecord, StreamPlaces, n
    <2>4. DurablePrefix'
        <3>1. Len(log') = Len(log) /\ log' = log
            BY <1>e
        <3>2. \A m \in 1..n : stored.events[m] = log[m]
            BY <2>r DEF DurablePrefix, n
        <3>3. \A m \in 1..(n + 1) : stored'.events[m] = log[m]
            BY <1>c, <2>3, <2>n, <3>2
        <3> QED  BY <1>a, <1>b, <2>3, <3>1, <3>3 DEF DurablePrefix
    <2>5. StreamsStand'
        BY <1>b, <1>d, <1>e, <2>1, <2>2, <2>3, <2>r DEF StreamsStand, OpenStream
    <2>6. ApprovalsStored'
        <3> SUFFICES ASSUME NEW k \in Invocations
                     PROVE  /\ stored'.approvals[k] # "none" =>
                                   \E m \in 1..(n + 1) : stored'.events[m] = Event("approval.requested", k)
                            /\ approving[k] # "idle" => stored'.approvals[k] # "none" /\ decision[k] # "none"
                            /\ approving[k] = "returned" => stored'.approvals[k] = decision[k]
            BY <1>e, <2>3 DEF ApprovalsStored
        <3>1. CASE e = Event("approval.requested", k)
            <4>1. \A m \in 1..n : stored.events[m] # e
                BY <1>a, <1>c DEF Contains, n
            <4>2. stored.approvals[k] = "none"
                BY <2>r, <3>1, <4>1 DEF ApprovalsStored, n
            <4>3. approving[k] = "idle"
                BY <2>r, <4>2 DEF ApprovalsStored
            <4>4. n + 1 \in 1..(n + 1)
                BY <1>a
            <4> QED  BY <2>3, <3>1, <4>3, <4>4
        <3>2. CASE e # Event("approval.requested", k)
            <4>1. stored'.approvals[k] = stored.approvals[k]
                BY <1>a, <1>c, <2>2, <3>2 DEF Event, Events, RunEvents
            <4>2. \A m \in 1..n : m \in 1..(n + 1)
                BY <1>a
            <4>3. stored.approvals[k] # "none" =>
                      \E m \in 1..(n + 1) : stored'.events[m] = Event("approval.requested", k)
                BY <2>r, <2>3, <4>2 DEF ApprovalsStored, n
            <4> QED  BY <2>r, <4>1, <4>3 DEF ApprovalsStored
        <3> QED  BY <3>1, <3>2
    <2>8. stored.status \in Terminal => stored'.status = stored.status
        BY <1>a, <1>c, <1>3, <2>2, AcceptedStatus
    <2>7. StatusRecorded'
        <3>1. \A m \in 1..n : stored.events[m].type \notin Excluded(stored.status)
            BY <2>r DEF StatusRecorded, n
        <3>2. Excluded(stored'.status) \subseteq Excluded(stored.status)
            <4>1. CASE stored.status \in Terminal
                BY <2>8, <4>1
            <4>2. CASE stored.status \notin Terminal
                BY <4>2 DEF Terminal, Excluded
            <4> QED  BY <4>1, <4>2
        <3>3. e.type \notin Excluded(stored'.status)
            BY <1>a, <1>c, <1>3, <2>2, AcceptedStatus DEF Excluded, Completions, Failures
        <3>4. \A m \in 1..(n + 1) : stored'.events[m].type \notin Excluded(stored'.status)
            BY <2>3, <2>n, <3>1, <3>2, <3>3
        <3>5. stored'.status = "cancelled" =>
                  \E m \in 1..(n + 1) : stored'.events[m].type = "session.cancelled"
            <4>1. CASE stored.status = "cancelled"
                <5>1. PICK m \in 1..n : stored.events[m].type = "session.cancelled"
                    BY <2>r, <4>1 DEF StatusRecorded, n
                <5>2. m \in 1..(n + 1)
                    BY <1>a
                <5> QED  BY <2>3, <5>1, <5>2
            <4>2. CASE e.type = "session.cancelled"
                <5>1. n + 1 \in 1..(n + 1)
                    BY <1>a
                <5> QED  BY <2>3, <4>2, <5>1
            <4>3. stored'.status = "cancelled" => stored.status = "cancelled" \/ e.type = "session.cancelled"
                BY <1>a, <1>c, <1>3, <2>2, AcceptedStatus
            <4> QED  BY <4>1, <4>2, <4>3
        <3> QED  BY <2>3, <3>4, <3>5 DEF StatusRecorded
    <2> QED  BY <1>1, <1>2, <2>4, <2>5, <2>6, <2>7, <2>8 DEF AppRecord
<1>4. CASE ~Accepts(stored.status, e)
    <2>1. stream'[s] = "broken" /\ UNCHANGED <<stored, delivered>>
        BY <1>b, <1>c, <1>4 DEF Save, e
    <2>2. DurablePrefix' /\ ApprovalsStored' /\ StatusRecorded'
        BY <1>e, <2>1 DEF DurablePrefix, ApprovalsStored, StatusRecorded
    <2>3. StreamsStand'
        BY <1>b, <1>d, <1>e, <2>1 DEF StreamsStand, OpenStream
    <2> QED  BY <1>1, <1>2, <2>1, <2>2, <2>3
<1> QED  BY <1>3, <1>4

LEMMA StepKeepsRecord ==
    ASSUME Overlap = FALSE, SessionInv, RecordInv, [Next]_vars
    PROVE  RecordInv' /\ (stored.status \in Terminal => stored'.status = stored.status)
<1>a. AppRecord /\ LogOnce /\ StatusLogged /\ LocalTypeOK
    BY DEF RecordInv, AppRecord, SessionInv, TypeOK
<1>b. SessionInv' /\ LogGrows /\ [LocalNext]_localVars
    BY <1>a, SessionStepTyped, StepGrowsLog, StepIsLocal
<1>c. LogOnce' /\ StatusLogged'
    BY <1>a, <1>b, LocalStepLogsOnce, LocalStepLogsStatus
<1>p. ASSUME UNCHANGED <<decision, stored, streamVars, callVars>>
      PROVE  AppRecord' /\ stored'.status = stored.status
    BY <1>a, <1>b, <1>p, ProviderKeepsRecord
<1>1. ASSUME NEW k \in Invocations, RunStep(k) /\ UNCHANGED <<stored, streamVars, callVars>>
      PROVE  AppRecord' /\ stored'.status = stored.status
    BY <1>a, <1>1, <1>p, DecisionsStay
<1>2. ASSUME Cancel PROVE AppRecord' /\ stored'.status = stored.status
    BY <1>2, <1>p DEF Cancel, LocalCancel
<1>3. ASSUME UNCHANGED vars PROVE AppRecord' /\ stored'.status = stored.status
    BY <1>3, <1>p DEF vars, localVars
<1>4. ASSUME NEW k \in Invocations, CallStep(k) \/ SendMessage(k) \/ \E d \in Decisions : Approve(k, d)
      PROVE  AppRecord' /\ stored'.status = stored.status
    BY <1>a, <1>4, CallsKeepRecord
<1>5. ASSUME NEW s \in Streams, StreamStep(s) \/ Open(s) \/ Pull(s) \/ Abandon(s)
      PROVE  AppRecord' /\ (stored.status \in Terminal => stored'.status = stored.status)
    <2>1. CASE Save(s)
        BY <1>a, <2>1, SaveKeepsRecord
    <2>2. CASE Open(s) \/ Replay(s) \/ Refresh(s) \/ Pull(s) \/ EndOfStream(s) \/ Abandon(s)
        BY <1>a, <2>2, StreamsKeepRecord
    <2> QED  BY <1>5, <2>1, <2>2 DEF StreamStep
<1>6. AppRecord' /\ (stored.status \in Terminal => stored'.status = stored.status)
    BY <1>1, <1>2, <1>3, <1>4, <1>5 DEF Next
<1> QED  BY <1>c, <1>6 DEF RecordInv, AppRecord

LEMMA PointwisePrefix ==
    ASSUME NEW S, NEW s \in Seq(S), NEW t \in Seq(S), Len(s) <= Len(t),
           \A n \in 1..Len(s) : s[n] = t[n]
    PROVE  IsPrefix(s, t)
BY DEF IsPrefix

\* What RecordInv says of the log, the streams and the status is what is promised.
LEMMA RecordSuffices == SessionInv /\ RecordInv => RecordHolds /\ DecisionDurable
<1> SUFFICES ASSUME SessionInv, RecordInv PROVE RecordHolds /\ DecisionDurable
    OBVIOUS
<1>1. /\ log \in Seq(Events) /\ stored.events \in Seq(Events) /\ stored.status \in SessionStatus
      /\ status \in SessionStatus /\ \A s \in Streams : delivered[s] \in Seq(Events)
    BY DEF SessionInv, TypeOK, LocalTypeOK, Snapshots
<1>2. DurableLogIsPrefix
    BY <1>1, PointwisePrefix DEF RecordInv, DurablePrefix, DurableLogIsPrefix
<1>3. DeliveredInOrder
    <2> SUFFICES ASSUME NEW s \in Streams
                 PROVE  /\ IsPrefix(delivered[s], log)
                        /\ stream[s] \in {"pulling", "yielded"} => IsPrefix(delivered[s], stored.events)
        BY DEF DeliveredInOrder
    <2>1. CASE OpenStream(s)
        <3>1. delivered[s] = stored.events
            BY <2>1 DEF RecordInv, StreamsStand
        <3>2. IsPrefix(stored.events, stored.events)
            BY <1>1, PointwisePrefix
        <3> QED  BY <1>2, <3>1, <3>2 DEF DurableLogIsPrefix
    <2>2. CASE ~OpenStream(s)
        <3>1. delivered[s] = <<>>
            BY <2>2 DEF RecordInv, StreamsStand
        <3>2. /\ delivered[s] \in Seq(Events) /\ Len(delivered[s]) <= Len(log)
              /\ \A n \in 1..Len(delivered[s]) : delivered[s][n] = log[n]
            BY <1>1, <3>1
        <3>3. IsPrefix(delivered[s], log)
            BY <1>1, <3>2, PointwisePrefix
        <3> QED  BY <2>2, <3>1, <3>3 DEF OpenStream
    <2> QED  BY <2>1, <2>2
<1>4. StatusAgrees
    <2> SUFFICES ASSUME Quiet, stored.events = log PROVE stored.status = status
        BY DEF StatusAgrees
    <2>1. status \in Terminal
        BY <1>1 DEF RecordInv, StatusLogged, Quiet, Active, SessionStatus, Terminal
    <2>2. CASE status = "completed"
        <3>1. PICK n \in 1..Len(log) : log[n].type = "session.completed"
            BY <2>2 DEF RecordInv, StatusLogged, Logged
        <3>2. stored.status \in {"completed", "cancelled"}
            BY <1>1, <3>1 DEF RecordInv, StatusRecorded, Excluded, Completions, SessionStatus
        <3>3. stored.status # "cancelled"
            BY <2>2 DEF RecordInv, StatusRecorded, LogOnce
        <3> QED  BY <2>2, <3>2, <3>3
    <2>3. CASE status = "failed"
        <3>1. PICK n \in 1..Len(log) : log[n].type = "session.failed"
            BY <2>3 DEF RecordInv, StatusLogged, Logged
        <3>2. stored.status \in {"failed", "cancelled"}
            BY <1>1, <3>1 DEF RecordInv, StatusRecorded, Excluded, Failures, SessionStatus
        <3>3. stored.status # "cancelled"
            BY <2>3 DEF RecordInv, StatusRecorded, LogOnce
        <3> QED  BY <2>3, <3>2, <3>3
    <2>4. CASE status = "cancelled"
        <3>1. PICK n \in 1..Len(log) : log[n].type = "session.cancelled"
            BY <2>4 DEF RecordInv, StatusLogged, Logged
        <3>2. stored.status = "cancelled"
            BY <1>1, <3>1 DEF RecordInv, StatusRecorded, Excluded, SessionStatus
        <3> QED  BY <2>4, <3>2
    <2> QED  BY <2>1, <2>2, <2>3, <2>4 DEF Terminal
<1>5. DecisionDurable
    BY DEF RecordInv, ApprovalsStored, DecisionDurable
<1> QED  BY <1>2, <1>3, <1>4, <1>5 DEF RecordHolds

LEMMA RecordInductive == ASSUME Overlap = FALSE PROVE Spec => []RecordInv
<1>1. SessionInv /\ RecordInv /\ [Next]_vars => RecordInv'
    BY StepKeepsRecord
<1> QED  BY <1>1, RecordInit, SessionInvInductive, PTL DEF Spec

\* Of an application whose calls do not overlap: however often it leaves its
\* streams and opens others, whatever it decides, sends or cancels and whenever
\* runs fail, the durable log is the provider's from its beginning, a consumer
\* gets each event once, in order and not before it is durable, and at rest the
\* status computed from the events is the provider's.
THEOREM RecordsAgree == ASSUME Overlap = FALSE PROVE Spec => []RecordHolds
<1>1. SessionInv /\ RecordInv => RecordHolds
    BY RecordSuffices
<1> QED  BY <1>1, RecordInductive, SessionInvInductive, PTL

\* Once its approve() has returned, the decision stays in the durable snapshot,
\* although every stream writes whole snapshots.
THEOREM DecisionsAreDurable == ASSUME Overlap = FALSE PROVE Spec => []DecisionDurable
<1>1. SessionInv /\ RecordInv => DecisionDurable
    BY RecordSuffices
<1> QED  BY <1>1, RecordInductive, SessionInvInductive, PTL

\* A durable status that ended the session is never replaced, by an event, a
\* decision or a follow-up saved later.
THEOREM DurableStatusesAreFinal == ASSUME Overlap = FALSE PROVE Spec => DurableStatusFinal
<1>1. SessionInv /\ RecordInv /\ [Next]_vars =>
          [stored.status \in Terminal => stored'.status = stored.status]_vars
    BY StepKeepsRecord
<1> QED  BY <1>1, RecordInductive, SessionInvInductive, PTL DEF Spec, DurableStatusFinal
=============================================================================
