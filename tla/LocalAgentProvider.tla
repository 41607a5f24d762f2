------------------------- MODULE LocalAgentProvider -------------------------
(***************************************************************************)
(* One session of LocalAgentProvider (src/src/providers/local-agent.ts):   *)
(* its record, and the AgentLoop runs that feed it, one per invocation.    *)
(* Of a run only what its session can tell apart is kept: that it starts,  *)
(* that it may wait once for an approval, and that it completes or fails.  *)
(* A run that starts with the signal aborted can only fail.                *)
(*                                                                         *)
(* executeRun() pulls one event at a time and handles it without an await, *)
(* so an event the loop yields and its handling are one action.            *)
(***************************************************************************)
EXTENDS Naturals, Sequences, SequencesExt

CONSTANTS
    Invocations,    \* the first run of the session and its follow-ups
    First           \* the invocation startSession() begins

ASSUME InvocationsAssumption == First \in Invocations

Decisions == {"approved", "denied"}
Terminal == {"completed", "failed", "cancelled"}
SessionStatus == {"running", "waiting"} \cup Terminal

\* SESSION_TRANSITIONS; a session is never "created" here.
Successors(s) ==
    CASE s = "running" -> {"waiting"} \cup Terminal
      [] s = "waiting" -> {"running", "failed", "cancelled"}
      [] OTHER         -> {}

\* transitionAgentSession() returns rather than throws.
MayBecome(s, t) == s = t \/ t \in Successors(s)

\* `status === 'waiting' ? 'running' : status`, before a run's end is recorded.
Resumed(s) == IF s = "waiting" THEN "running" ELSE s

RunEvents == {"run.started", "approval.requested", "approval.approved",
              "approval.denied", "run.completed", "run.failed",
              "session.completed", "session.failed"}
Events == [type : RunEvents, inv : Invocations]
          \cup [type : {"session.started", "session.cancelled"}, inv : {First}]
Event(type, k) == [type |-> type, inv |-> k]

\* Where a run is: pulled so far, or how its job ended.  A throwing run has an
\* error on its way to the catch of executeRun(); a rejected one has thrown there.
\* A failing run was denied its approval, or began after the cancellation.
RunPlaces == {"absent", "begun", "running", "asking", "granted", "failing", "acted",
              "completing", "throwing", "settled", "rejected"}

VARIABLES
    status,             \* record.session.status
    log,                \* record.events
    done,               \* record.done
    aborted,            \* record.abort.signal.aborted
    run,                \* run[k]: where the run of invocation k is
    wait,               \* wait[k]: how waitForApproval() has settled, if it has
    decision,           \* decision[k]: what the approval manager holds for k's request
    known,              \* the invocations whose approval is in approvalToSession
    acted,              \* history: the runs that carried out the protected action
    cancelledWaiting    \* history: the runs cancelled while waiting for a decision

localVars == <<status, log, done, aborted, run, wait, decision, known, acted,
               cancelledWaiting>>

LocalTypeOK ==
    /\ status \in SessionStatus
    /\ log \in Seq(Events)
    /\ done \in BOOLEAN
    /\ aborted \in BOOLEAN
    /\ run \in [Invocations -> RunPlaces]
    /\ wait \in [Invocations -> Decisions \cup {"none", "aborted"}]
    /\ decision \in [Invocations -> Decisions \cup {"none"}]
    /\ known \subseteq Invocations
    /\ acted \subseteq Invocations
    /\ cancelledWaiting \subseteq Invocations

\* startSession() has recorded the session and begun its first run.
LocalInit ==
    /\ status = "running"
    /\ log = <<Event("session.started", First)>>
    /\ done = FALSE
    /\ aborted = FALSE
    /\ run = [k \in Invocations |-> IF k = First THEN "begun" ELSE "absent"]
    /\ wait = [k \in Invocations |-> "none"]
    /\ decision = [k \in Invocations |-> "none"]
    /\ known = {}
    /\ acted = {}
    /\ cancelledWaiting = {}

At(k, place) == run[k] = place
Moves(k, place) == run' = [run EXCEPT ![k] = place]
Logs(events) == log' = log \o events

-----------------------------------------------------------------------------
(* The loop of executeRun(). *)

RunStarted(k) ==
    /\ At(k, "begun")
    /\ Moves(k, IF aborted THEN "failing" ELSE "running")
    /\ Logs(<<Event("run.started", k)>>)
    /\ UNCHANGED <<status, done, aborted, wait, decision, known, acted, cancelledWaiting>>

\* Mutant of Ask: the wait does not look at a signal that fired before it.
AskUnaware(k) ==
    /\ At(k, "running") /\ decision[k] = "none"
    /\ Logs(<<Event("approval.requested", k)>>)
    /\ known' = IF status = "cancelled" THEN known ELSE known \cup {k}
    /\ status' = IF status = "running" THEN "waiting" ELSE status
    /\ Moves(k, IF status \in {"completed", "failed"} THEN "throwing" ELSE "asking")
    /\ UNCHANGED <<done, aborted, wait, decision, acted, cancelledWaiting>>

\* The policy asks for an approval: a ticket, APPROVAL_REQUESTED, the wait.  A
\* cancelled session stays cancelled; a run of a finished session throws.
Ask(k) ==
    /\ At(k, "running") /\ decision[k] = "none"
    /\ Logs(<<Event("approval.requested", k)>>)
    /\ known' = IF status = "cancelled" THEN known ELSE known \cup {k}
    /\ status' = IF status = "running" THEN "waiting" ELSE status
    /\ Moves(k, IF status \in {"completed", "failed"} THEN "throwing" ELSE "asking")
    /\ wait' = [wait EXCEPT ![k] = IF aborted THEN "aborted" ELSE "none"]
    /\ UNCHANGED <<done, aborted, decision, acted, cancelledWaiting>>

\* waitForApproval() returned the decision.
Decided(k) ==
    /\ At(k, "asking") /\ wait[k] \in Decisions
    /\ IF wait[k] = "approved"
       THEN Moves(k, "granted") /\ Logs(<<Event("approval.approved", k)>>)
       ELSE Moves(k, "failing") /\ Logs(<<Event("approval.denied", k)>>)
    /\ UNCHANGED <<status, done, aborted, wait, decision, known, acted, cancelledWaiting>>

\* The action that needed the approval is carried out.
Act(k) ==
    /\ At(k, "granted")
    /\ Moves(k, "acted")
    /\ acted' = acted \cup {k}
    /\ UNCHANGED <<status, log, done, aborted, wait, decision, known, cancelledWaiting>>

\* RUN_COMPLETED: the session completes, unless it was cancelled meanwhile.
RunCompleted(k) ==
    /\ run[k] \in {"running", "acted"}
    /\ IF status = "cancelled"
       THEN /\ Moves(k, "completing")
            /\ Logs(<<Event("run.completed", k)>>)
            /\ UNCHANGED status
       ELSE IF MayBecome(Resumed(status), "completed")
       THEN /\ Moves(k, "completing")
            /\ Logs(<<Event("run.completed", k), Event("session.completed", k)>>)
            /\ status' = "completed"
       ELSE /\ Moves(k, "throwing")
            /\ Logs(<<Event("run.completed", k)>>)
            /\ UNCHANGED status
    /\ UNCHANGED <<done, aborted, wait, decision, known, acted, cancelledWaiting>>

\* RUN_FAILED, and the error behind it: any error of a run, a refused or an
\* interrupted approval, or the signal seen by assertNotCancelled().
RunFailed(k) ==
    /\ \/ run[k] \in {"running", "granted", "acted", "failing"}
       \/ At(k, "asking") /\ wait[k] = "aborted"
    /\ Moves(k, "throwing")
    /\ Logs(<<Event("run.failed", k)>>)
    /\ UNCHANGED <<status, done, aborted, wait, decision, known, acted, cancelledWaiting>>

\* The run ended: finally.
JobEnds(k) ==
    /\ At(k, "completing")
    /\ Moves(k, "settled")
    /\ done' = TRUE
    /\ UNCHANGED <<status, log, aborted, wait, decision, known, acted, cancelledWaiting>>

\* Mutant of JobThrows: only a successful run marks the record done.
JobThrowsUndone(k) ==
    /\ At(k, "throwing")
    /\ Moves(k, "settled")
    /\ IF status = "cancelled"
       THEN UNCHANGED <<status, log>>
       ELSE status' = "failed" /\ Logs(<<Event("session.failed", k)>>)
    /\ UNCHANGED <<done, aborted, wait, decision, known, acted, cancelledWaiting>>

\* The run threw: catch, then finally.
JobThrows(k) ==
    /\ At(k, "throwing")
    /\ done' = TRUE
    /\ IF status = "cancelled"
       THEN Moves(k, "settled") /\ UNCHANGED <<status, log>>
       ELSE IF MayBecome(Resumed(status), "failed")
       THEN /\ Moves(k, "settled")
            /\ status' = "failed"
            /\ Logs(<<Event("session.failed", k)>>)
       ELSE Moves(k, "rejected") /\ UNCHANGED <<status, log>>
    /\ UNCHANGED <<aborted, wait, decision, known, acted, cancelledWaiting>>

-----------------------------------------------------------------------------
(* The provider's methods; each is synchronous up to its return. *)

\* Mutant of LocalApprove: a decision wakes a wait that was interrupted.
ApproveInterrupted(k, d) ==
    /\ k \in known /\ decision[k] = "none"
    /\ decision' = [decision EXCEPT ![k] = d]
    /\ wait' = [wait EXCEPT ![k] = IF At(k, "asking") THEN d ELSE @]
    /\ UNCHANGED <<status, log, done, aborted, run, known, acted, cancelledWaiting>>

\* approve(): the manager takes one decision per request and wakes the wait.
LocalApprove(k, d) ==
    /\ k \in known /\ decision[k] = "none"
    /\ decision' = [decision EXCEPT ![k] = d]
    /\ wait' = [wait EXCEPT ![k] = IF At(k, "asking") /\ @ = "none" THEN d ELSE @]
    /\ UNCHANGED <<status, log, done, aborted, run, known, acted, cancelledWaiting>>

\* cancel(): the signal interrupts every wait; one whose decision has just
\* arrived may go either way.  Cancelling twice matters only if a follow-up has
\* set a completed session running in between.
LocalCancel ==
    LET undecided == {k \in Invocations : At(k, "asking") /\ wait[k] = "none"}
        decided == {k \in Invocations : At(k, "asking") /\ wait[k] \in Decisions}
    IN
    /\ ~aborted \/ status \in {"running", "waiting"}
    /\ aborted' = TRUE
    /\ \E overtaken \in IF aborted THEN {{}} ELSE SUBSET decided :
          wait' = [k \in Invocations |->
                     IF k \in undecided \cup overtaken THEN "aborted" ELSE wait[k]]
    /\ cancelledWaiting' = cancelledWaiting \cup undecided
    /\ IF status \in {"running", "waiting"}
       THEN /\ status' = "cancelled"
            /\ Logs(<<Event("session.cancelled", First)>>)
       ELSE UNCHANGED <<status, log>>
    /\ UNCHANGED <<done, run, decision, known, acted>>

\* sendMessage(): a completed session runs again, any other keeps its status.
LocalSendMessage(k) ==
    /\ At(k, "absent")
    /\ status' = IF status = "completed" THEN "running" ELSE status
    /\ done' = FALSE
    /\ Moves(k, "begun")
    /\ UNCHANGED <<log, aborted, wait, decision, known, acted, cancelledWaiting>>

RunStep(k) ==
    \/ RunStarted(k) \/ Ask(k) \/ Decided(k) \/ Act(k) \/ RunCompleted(k)
    \/ RunFailed(k) \/ JobEnds(k) \/ JobThrows(k)
=============================================================================
