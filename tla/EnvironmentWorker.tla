-------------------------- MODULE EnvironmentWorker --------------------------
(***************************************************************************)
(* EnvironmentWorker (src/src/workers/index.ts) over InMemoryWorkSource.   *)
(*                                                                         *)
(* A call is one activation of run(), drain() or handleOne() on a worker.  *)
(* The source's methods take effect when they are called; the `await` in   *)
(* front of them delays only the continuation.  So an action runs from one *)
(* await to the next, the source call that ends it included, and pc names  *)
(* the await a call is suspended at:                                       *)
(*                                                                         *)
(*   ready     no call is active          policy    policy.check           *)
(*   loop      before the next handleOne  handling  Promise.race           *)
(*   claimed   source.claim, an item      posted    source.complete/fail   *)
(*   empty     source.claim, no item      poll      the poll timer         *)
(***************************************************************************)
EXTENDS WorkSource

CONSTANTS
    Workers,        \* the EnvironmentWorker objects sharing the source
    Calls,          \* the activations that may overlap
    WorkerOf,       \* WorkerOf[c]: the worker c is an activation of
    NoCall,         \* `undefined` for interruptCurrent and wakePoll
    NoItem,         \* `undefined` for inFlightWorkId
    RemoteFaults,   \* whether the source is remote and its calls may fail
    Modes,          \* which of the three entry points the application uses
    Settlements     \* how handlers end: with a result, or with "lease_error"

ASSUME CallsAssumption ==
    /\ WorkerOf \in [Calls -> Workers]
    /\ IsFiniteSet(Calls)
    /\ NoCall \notin Calls
    /\ NoItem \notin Items
    /\ RemoteFaults \in BOOLEAN
    /\ Modes \subseteq {"run", "drain", "one"}
    /\ Settlements \subseteq ResultStatus \cup {"lease_error"}

Places == {"ready", "loop", "claimed", "empty", "policy", "handling", "posted", "poll"}
Interrupts == {"lost_lease", "control_stop", "forced_stop"}
\* What the race of the handler with the interrupt settled to; "lease_error"
\* is a handler that threw the source's own lost-lease error.
Outcomes == {"none", "lease_error"} \cup ResultStatus \cup Interrupts
\* An automatic heartbeat: not in progress, or waiting for true or for false.
Beats == {"idle", "alive", "dead"}
\* The counters of status(), and how often handleOne threw instead.
Counters == {"claimed", "lost", "errored"} \cup ResultStatus

VARIABLES
    running, stopped, forceStopped, state, inFlightWorkId,
    interruptCurrent,   \* the call whose handler a forced stop interrupts
    wakePoll,           \* the call whose poll timer stop() cancels
    count,              \* count[w][k]: the worker's counters; errored is history
    pc, mode,
    item, lease,        \* the claimed item and its lease id
    outcome, beat,
    posted              \* what the source call in flight will report: a status or "lost"

workerVars == <<running, stopped, forceStopped, state, inFlightWorkId,
                interruptCurrent, wakePoll, count>>
callVars == <<pc, mode, item, lease, outcome, beat, posted>>
vars == <<sourceVars, workerVars, callVars>>

WorkerTypeOK ==
    /\ running \in [Workers -> BOOLEAN]
    /\ stopped \in [Workers -> BOOLEAN]
    /\ forceStopped \in [Workers -> BOOLEAN]
    /\ state \in [Workers -> {"idle", "handling", "stopped"}]
    /\ inFlightWorkId \in [Workers -> Items \cup {NoItem}]
    /\ interruptCurrent \in [Workers -> Calls \cup {NoCall}]
    /\ wakePoll \in [Workers -> Calls \cup {NoCall}]
    /\ count \in [Workers -> [Counters -> Nat]]
    /\ pc \in [Calls -> Places]
    /\ mode \in [Calls -> Modes \cup {"one"}]
    /\ item \in [Calls -> Items \cup {NoItem}]
    /\ lease \in [Calls -> (1..MaxClaims) \cup {NoLease}]
    /\ outcome \in [Calls -> Outcomes]
    /\ beat \in [Calls -> Beats]
    /\ posted \in [Calls -> ResultStatus \cup {"none", "lost"}]

TypeOK == SourceTypeOK /\ WorkerTypeOK

Init ==
    /\ SourceInit
    /\ running = [w \in Workers |-> FALSE]
    /\ stopped = [w \in Workers |-> FALSE]
    /\ forceStopped = [w \in Workers |-> FALSE]
    /\ state = [w \in Workers |-> "idle"]
    /\ inFlightWorkId = [w \in Workers |-> NoItem]
    /\ interruptCurrent = [w \in Workers |-> NoCall]
    /\ wakePoll = [w \in Workers |-> NoCall]
    /\ count = [w \in Workers |-> [k \in Counters |-> 0]]
    /\ pc = [c \in Calls |-> "ready"]
    /\ mode = [c \in Calls |-> "one"]
    /\ item = [c \in Calls |-> NoItem]
    /\ lease = [c \in Calls |-> NoLease]
    /\ outcome = [c \in Calls |-> "none"]
    /\ beat = [c \in Calls |-> "idle"]
    /\ posted = [c \in Calls |-> "none"]

-----------------------------------------------------------------------------
(* Steps shared by several actions. *)

Counted(w, k) == count' = [count EXCEPT ![w][k] = @ + 1]

RestingState(w) == IF stopped[w] THEN "stopped" ELSE "idle"

\* The `finally` of run() and of drain(), when call c leaves its loop.
LeaveLoop(c) ==
    LET w == WorkerOf[c] IN
    /\ pc' = [pc EXCEPT ![c] = "ready"]
    /\ mode' = [mode EXCEPT ![c] = "one"]
    /\ running' = [running EXCEPT ![w] = @ /\ mode[c] = "one"]
    /\ state' = [state EXCEPT ![w] = CASE mode[c] = "run"   -> "stopped"
                                       [] mode[c] = "drain" -> RestingState(w)
                                       [] OTHER             -> @]

\* Mutant: handleOne() leaves in_flight_work_id behind.
ForgetAllButWorkId(c) ==
    LET w == WorkerOf[c] IN
    /\ interruptCurrent' = [interruptCurrent EXCEPT ![w] = NoCall]
    /\ item' = [item EXCEPT ![c] = NoItem]
    /\ lease' = [lease EXCEPT ![c] = NoLease]
    /\ outcome' = [outcome EXCEPT ![c] = "none"]
    /\ beat' = [beat EXCEPT ![c] = "idle"]
    /\ posted' = [posted EXCEPT ![c] = "none"]
    /\ UNCHANGED inFlightWorkId

\* The `finally` of handleOne(), when process() has returned or thrown.
ForgetItem(c) ==
    LET w == WorkerOf[c] IN
    /\ inFlightWorkId' = [inFlightWorkId EXCEPT ![w] = NoItem]
    /\ interruptCurrent' = [interruptCurrent EXCEPT ![w] = NoCall]
    /\ item' = [item EXCEPT ![c] = NoItem]
    /\ lease' = [lease EXCEPT ![c] = NoLease]
    /\ outcome' = [outcome EXCEPT ![c] = "none"]
    /\ beat' = [beat EXCEPT ![c] = "idle"]
    /\ posted' = [posted EXCEPT ![c] = "none"]

\* process() returned: the loop goes round, or handleOne() returns.
Returned(c) ==
    LET w == WorkerOf[c] IN
    /\ ForgetItem(c)
    /\ pc' = [pc EXCEPT ![c] = IF mode[c] = "one" THEN "ready" ELSE "loop"]
    /\ state' = [state EXCEPT ![w] = RestingState(w)]
    /\ UNCHANGED <<running, mode>>

\* process() threw: run() and drain() end with the error.
Threw(c) ==
    LET w == WorkerOf[c] IN
    /\ ForgetItem(c)
    /\ pc' = [pc EXCEPT ![c] = "ready"]
    /\ mode' = [mode EXCEPT ![c] = "one"]
    /\ running' = [running EXCEPT ![w] = @ /\ mode[c] = "one"]
    /\ state' = [state EXCEPT ![w] = IF mode[c] = "run" THEN "stopped" ELSE RestingState(w)]

\* source.complete or source.fail with result r: the item is finished, or the
\* source throws work_lease_lost or work_lease_mismatch and nothing changes.
\* The call to a remote source may also fail on its way ("none" is posted).
Post(c, r) ==
    /\ pc' = [pc EXCEPT ![c] = "posted"]
    /\ \/ /\ Finish(item[c], lease[c], r)
          /\ posted' = [posted EXCEPT ![c] = r]
       \/ /\ ~(Held(item[c], lease[c]) /\ ~Expired(item[c]))
          /\ posted' = [posted EXCEPT ![c] = "lost"]
          /\ UNCHANGED sourceVars
       \/ /\ RemoteFaults
          /\ UNCHANGED <<sourceVars, posted>>

\* interrupt(reason): only the first settlement of the race counts.
Interrupted(c, reason) ==
    outcome' = [outcome EXCEPT ![c] = IF @ = "none" THEN reason ELSE @]

-----------------------------------------------------------------------------
(* run(), drain() and handleOne(). *)

\* prepareToRun() throws for a running or stopped worker; handleOne() has no
\* such test.
Start(c, m) ==
    LET w == WorkerOf[c] IN
    /\ pc[c] = "ready"
    /\ m = "one" \/ (~running[w] /\ ~stopped[w])
    /\ mode' = [mode EXCEPT ![c] = m]
    /\ pc' = [pc EXCEPT ![c] = "loop"]
    /\ running' = [running EXCEPT ![w] = @ \/ m # "one"]
    /\ state' = [state EXCEPT ![w] = IF m = "one" THEN @ ELSE "idle"]
    /\ UNCHANGED <<sourceVars, stopped, forceStopped, inFlightWorkId, interruptCurrent,
                   wakePoll, count, item, lease, outcome, beat, posted>>

\* The worker has been stopped: no more claims.
SeesStop(c) ==
    /\ pc[c] = "loop"
    /\ stopped[WorkerOf[c]]
    /\ LeaveLoop(c)
    /\ UNCHANGED <<sourceVars, stopped, forceStopped, inFlightWorkId, interruptCurrent,
                   wakePoll, count, item, lease, outcome, beat, posted>>

Claim(c) ==
    /\ pc[c] = "loop"
    /\ ~stopped[WorkerOf[c]]
    /\ \E i \in Items :
          /\ ClaimItem(i, LeaseMs)
          /\ item' = [item EXCEPT ![c] = i]
    /\ lease' = [lease EXCEPT ![c] = sequence + 1]
    /\ pc' = [pc EXCEPT ![c] = "claimed"]
    /\ UNCHANGED <<workerVars, mode, outcome, beat, posted>>

\* A remote claim() rejects, the item granted or not; no worker counts it.
ClaimFails(c) ==
    /\ RemoteFaults
    /\ pc[c] = "loop"
    /\ ~stopped[WorkerOf[c]]
    /\ UNCHANGED sourceVars \/ \E i \in Items : ClaimItem(i, LeaseMs)
    /\ LeaveLoop(c)
    /\ UNCHANGED <<stopped, forceStopped, inFlightWorkId, interruptCurrent, wakePoll,
                   count, item, lease, outcome, beat, posted>>

ClaimNothing(c) ==
    /\ pc[c] = "loop"
    /\ ~stopped[WorkerOf[c]]
    /\ NothingToClaim
    /\ pc' = [pc EXCEPT ![c] = "empty"]
    /\ UNCHANGED <<sourceVars, workerVars, mode, item, lease, outcome, beat, posted>>

\* claim() answered: count the item and ask the policy about it.
TakeItem(c) ==
    LET w == WorkerOf[c] IN
    /\ pc[c] = "claimed"
    /\ Counted(w, "claimed")
    /\ state' = [state EXCEPT ![w] = "handling"]
    /\ inFlightWorkId' = [inFlightWorkId EXCEPT ![w] = item[c]]
    /\ pc' = [pc EXCEPT ![c] = "policy"]
    /\ UNCHANGED <<sourceVars, running, stopped, forceStopped, interruptCurrent, wakePoll,
                   mode, item, lease, outcome, beat, posted>>

\* Mutant: waitForPoll() does not look at `stopped` before it sleeps.
PollBlindly(c) ==
    LET w == WorkerOf[c] IN
    /\ pc[c] = "empty"
    /\ IF mode[c] = "run"
       THEN /\ pc' = [pc EXCEPT ![c] = "poll"]
            /\ wakePoll' = [wakePoll EXCEPT ![w] = c]
            /\ UNCHANGED <<running, state, mode>>
       ELSE LeaveLoop(c) /\ UNCHANGED wakePoll
    /\ UNCHANGED <<sourceVars, stopped, forceStopped, inFlightWorkId, interruptCurrent,
                   count, item, lease, outcome, beat, posted>>

\* No item: run() polls unless it was stopped meanwhile, the others end.
TakeNothing(c) ==
    LET w == WorkerOf[c] IN
    /\ pc[c] = "empty"
    /\ \/ /\ mode[c] = "run" /\ ~stopped[w]
          /\ pc' = [pc EXCEPT ![c] = "poll"]
          /\ wakePoll' = [wakePoll EXCEPT ![w] = c]
          /\ UNCHANGED <<running, state, mode>>
       \/ /\ mode[c] = "run" /\ stopped[w]
          /\ pc' = [pc EXCEPT ![c] = "loop"]
          /\ UNCHANGED <<wakePoll, running, state, mode>>
       \/ /\ mode[c] # "run"
          /\ LeaveLoop(c)
          /\ UNCHANGED wakePoll
    /\ UNCHANGED <<sourceVars, stopped, forceStopped, inFlightWorkId, interruptCurrent,
                   count, item, lease, outcome, beat, posted>>

PollTimer(c) ==
    /\ pc[c] = "poll"
    /\ pc' = [pc EXCEPT ![c] = "loop"]
    /\ wakePoll' = [wakePoll EXCEPT ![WorkerOf[c]] = NoCall]
    /\ UNCHANGED <<sourceVars, running, stopped, forceStopped, state, inFlightWorkId,
                   interruptCurrent, count, mode, item, lease, outcome, beat, posted>>

-----------------------------------------------------------------------------
(* process(). *)

\* The policy did not allow the item: it is posted as skipped.
Refuse(c) ==
    /\ pc[c] = "policy"
    /\ Post(c, "skipped")
    /\ UNCHANGED <<workerVars, mode, item, lease, outcome, beat>>

\* The policy allowed it, but the worker was force-stopped in the meantime.
AllowedTooLate(c) ==
    /\ pc[c] = "policy"
    /\ forceStopped[WorkerOf[c]]
    /\ Post(c, "stopped")
    /\ UNCHANGED <<workerVars, mode, item, lease, outcome, beat>>

\* Mutant: no second look at forceStopped after the policy check.
AllowUnchecked(c) ==
    /\ pc[c] = "policy"
    /\ pc' = [pc EXCEPT ![c] = "handling"]
    /\ interruptCurrent' = [interruptCurrent EXCEPT ![WorkerOf[c]] = c]
    /\ UNCHANGED <<sourceVars, running, stopped, forceStopped, state, inFlightWorkId,
                   wakePoll, count, mode, item, lease, outcome, beat, posted>>

\* The policy allowed it: the handler starts, a forced stop can interrupt it.
Allow(c) ==
    LET w == WorkerOf[c] IN
    /\ pc[c] = "policy"
    /\ ~forceStopped[w]
    /\ pc' = [pc EXCEPT ![c] = "handling"]
    /\ interruptCurrent' = [interruptCurrent EXCEPT ![w] = c]
    /\ UNCHANGED <<sourceVars, running, stopped, forceStopped, state, inFlightWorkId,
                   wakePoll, count, mode, item, lease, outcome, beat, posted>>

\* policy.check rejected: handleOne() rejects and the lease is left to expire.
PolicyThrows(c) ==
    /\ pc[c] = "policy"
    /\ Counted(WorkerOf[c], "errored")
    /\ Threw(c)
    /\ UNCHANGED <<sourceVars, stopped, forceStopped, wakePoll>>

\* Mutant: an error thrown by source.heartbeat() is dropped.
SendBeatUncaught(c) ==
    /\ pc[c] = "handling" /\ outcome[c] = "none" /\ beat[c] = "idle"
    /\ \/ /\ Heartbeat(item[c], lease[c], LeaseMs)
          /\ beat' = [beat EXCEPT ![c] = "alive"]
       \/ /\ Held(item[c], lease[c]) /\ Expired(item[c])
          /\ beat' = [beat EXCEPT ![c] = "dead"]
          /\ UNCHANGED sourceVars
    /\ UNCHANGED <<workerVars, pc, mode, item, lease, outcome, posted>>

\* The interval timer sends a heartbeat, unless one is still in progress.
SendBeat(c) ==
    /\ pc[c] = "handling" /\ outcome[c] = "none" /\ beat[c] = "idle"
    /\ \/ /\ Heartbeat(item[c], lease[c], LeaseMs)
          /\ beat' = [beat EXCEPT ![c] = "alive"]
          /\ UNCHANGED outcome
       \/ /\ Held(item[c], lease[c]) /\ Expired(item[c])
          /\ beat' = [beat EXCEPT ![c] = "dead"]
          /\ UNCHANGED <<sourceVars, outcome>>
       \/ /\ ~Held(item[c], lease[c])
          /\ Interrupted(c, "lost_lease")
          /\ UNCHANGED <<sourceVars, beat>>
       \/ /\ RemoteFaults
          /\ Heartbeat(item[c], lease[c], LeaseMs) \/ UNCHANGED sourceVars
          /\ Interrupted(c, "lost_lease")
          /\ UNCHANGED beat
    /\ UNCHANGED <<workerVars, pc, mode, item, lease, posted>>

\* The heartbeat was answered; if the lease lives, stopRequested is asked.
BeatAnswered(c) ==
    /\ pc[c] = "handling" /\ beat[c] # "idle"
    /\ beat' = [beat EXCEPT ![c] = "idle"]
    /\ \/ /\ beat[c] = "dead" \/ ~Held(item[c], lease[c])
          /\ Interrupted(c, "lost_lease")
       \/ /\ beat[c] = "alive" /\ Held(item[c], lease[c]) /\ stopRequested[item[c]]
          /\ Interrupted(c, "control_stop")
       \/ /\ beat[c] = "alive" /\ Held(item[c], lease[c]) /\ ~stopRequested[item[c]]
          /\ UNCHANGED outcome
    /\ UNCHANGED <<sourceVars, workerVars, pc, mode, item, lease, posted>>

\* The handler itself sends a heartbeat, for a length of its choosing.
HandlerBeat(c) ==
    /\ pc[c] = "handling" /\ outcome[c] = "none"
    /\ \E ms \in 1..LeaseMs : Heartbeat(item[c], lease[c], ms)
    /\ UNCHANGED <<workerVars, callVars>>

\* The handler returns a result or throws, before any interrupt.
HandlerSettles(c) ==
    /\ pc[c] = "handling" /\ outcome[c] = "none"
    /\ \E o \in Settlements : outcome' = [outcome EXCEPT ![c] = o]
    /\ UNCHANGED <<sourceVars, workerVars, pc, mode, item, lease, beat, posted>>

\* The race is decided for a lost lease: nothing is posted.
AbandonItem(c) ==
    /\ pc[c] = "handling" /\ outcome[c] \in {"lost_lease", "lease_error"}
    /\ Counted(WorkerOf[c], "lost")
    /\ Returned(c)
    /\ UNCHANGED <<sourceVars, stopped, forceStopped, wakePoll>>

ResultOf(o) == IF o \in {"control_stop", "forced_stop"} THEN "stopped" ELSE o

\* The race is decided: the result is posted.
PostResult(c) ==
    /\ pc[c] = "handling" /\ outcome[c] \notin {"none", "lost_lease", "lease_error"}
    /\ Post(c, ResultOf(outcome[c]))
    /\ beat' = [beat EXCEPT ![c] = "idle"]
    /\ UNCHANGED <<workerVars, mode, item, lease, outcome>>

\* Mutant: a post answered with a lost lease is not counted.
CountAccepted(c) ==
    /\ pc[c] = "posted" /\ posted[c] # "none"
    /\ IF posted[c] = "lost" THEN UNCHANGED count ELSE Counted(WorkerOf[c], posted[c])
    /\ Returned(c)
    /\ UNCHANGED <<sourceVars, stopped, forceStopped, wakePoll>>

\* The source answered: the worker counts what it reported.
CountResult(c) ==
    /\ pc[c] = "posted" /\ posted[c] # "none"
    /\ Counted(WorkerOf[c], posted[c])
    /\ Returned(c)
    /\ UNCHANGED <<sourceVars, stopped, forceStopped, wakePoll>>

\* The call to a remote source rejects, whether it took effect or not.
PostFails(c) ==
    /\ RemoteFaults
    /\ pc[c] = "posted"
    /\ Counted(WorkerOf[c], "errored")
    /\ Threw(c)
    /\ UNCHANGED <<sourceVars, stopped, forceStopped, wakePoll>>

\* Mutant: stop() does not cancel the poll timer.
StopWithoutWaking(w, force) ==
    /\ stopped' = [stopped EXCEPT ![w] = TRUE]
    /\ forceStopped' = [forceStopped EXCEPT ![w] = @ \/ force]
    /\ IF force /\ interruptCurrent[w] # NoCall
       THEN Interrupted(interruptCurrent[w], "forced_stop")
       ELSE UNCHANGED outcome
    /\ sourceStopped' = TRUE
    /\ UNCHANGED <<status, attempts, leaseId, remaining, stopRequested, order, reclaimed,
                   sequence, finisher, running, state, inFlightWorkId, interruptCurrent,
                   wakePoll, count, pc, mode, item, lease, beat, posted>>

\* stop(): flags, the interrupt, the wake-up and source.stop(), in one segment.
Stop(w, force) ==
    /\ stopped' = [stopped EXCEPT ![w] = TRUE]
    /\ forceStopped' = [forceStopped EXCEPT ![w] = @ \/ force]
    /\ IF force /\ interruptCurrent[w] # NoCall
       THEN Interrupted(interruptCurrent[w], "forced_stop")
       ELSE UNCHANGED outcome
    /\ IF wakePoll[w] # NoCall
       THEN pc' = [pc EXCEPT ![wakePoll[w]] = "loop"]
       ELSE UNCHANGED pc
    /\ wakePoll' = [wakePoll EXCEPT ![w] = NoCall]
    /\ sourceStopped' = TRUE
    /\ UNCHANGED <<status, attempts, leaseId, remaining, stopRequested, order, reclaimed,
                   sequence, finisher, running, state, inFlightWorkId, interruptCurrent, count,
                   mode, item, lease, beat, posted>>

-----------------------------------------------------------------------------
(* The system. *)

\* The application and the clock, on the source directly.
Environment ==
    /\ \/ \E i \in Items : Enqueue(i) \/ RequestStop(i)
       \/ Stats
       \/ Tick
    /\ UNCHANGED <<workerVars, callVars>>

\* A promise a call waits for has settled: its continuation runs.
Continue(c) ==
    \/ SeesStop(c) \/ Claim(c) \/ ClaimFails(c) \/ ClaimNothing(c)
    \/ TakeItem(c) \/ TakeNothing(c)
    \/ Refuse(c) \/ AllowedTooLate(c) \/ Allow(c) \/ PolicyThrows(c)
    \/ AbandonItem(c) \/ PostResult(c) \/ CountResult(c) \/ PostFails(c)

\* The interval timer and the answers to its heartbeats.
Beat(c) == SendBeat(c) \/ BeatAnswered(c)

Next ==
    \/ \E c \in Calls :
          \/ \E m \in Modes : Start(c, m)
          \/ Continue(c)
          \/ Beat(c)
          \/ PollTimer(c)
          \/ HandlerBeat(c)
          \/ HandlerSettles(c)
    \/ \E w \in Workers, force \in BOOLEAN : Stop(w, force)
    \/ Environment

\* Node runs every continuation whose promise has settled, and an interval
\* timer keeps firing.  Nothing makes a handler settle, a poll timer fire
\* before stop(), or the application act.
Fairness == \A c \in Calls : WF_vars(Continue(c)) /\ WF_vars(Beat(c))

Spec == Init /\ [][Next]_vars
FairSpec == Spec /\ Fairness

-----------------------------------------------------------------------------
(* Properties. *)

Busy(c) == pc[c] \in {"policy", "handling", "posted"}

CallsOf(w) == {c \in Calls : WorkerOf[c] = w}

\* One activation of a worker at a time: run() or drain() once, or handleOne()
\* awaited before the next, as the README's and the tests' workers are used.
SerialWorkers == \A c, d \in Calls : WorkerOf[c] = WorkerOf[d] => c = d

\* status().claimed is the sum of the outcomes it reports, of the items in
\* flight and of those handleOne() threw for: no path of process() forgets to
\* count an item or counts it twice.
WorkerAccounting ==
    \A w \in Workers : count[w]["claimed"] =
        count[w]["completed"] + count[w]["failed"] + count[w]["skipped"]
        + count[w]["stopped"] + count[w]["lost"] + count[w]["errored"]
        + Cardinality({c \in CallsOf(w) : Busy(c)})

\* One credit for each result r a worker has counted; those the source has
\* accepted and a worker is about to count; those it holds.
Credits(r) == UNION {{w} \X (1..count[w][r]) : w \in Workers}
Accepted(r) == {c \in Calls : pc[c] = "posted" /\ posted[c] = r}
HeldResults(r) == {i \in Items : status[i] = r}

\* Over all the workers of a source, the results counted, with those the source
\* has accepted and a worker is about to count, are the results it holds: an
\* item whose lease moved on is never counted by two workers.  A worker of a
\* remote source may miss a result it was not told of, never add one.
ResultsCredited ==
    \A r \in ResultStatus :
        LET told == Cardinality(Credits(r)) + Cardinality(Accepted(r))
            held == Cardinality(HeldResults(r))
        IN IF RemoteFaults THEN told <= held ELSE told = held

\* The counters of status() agree with themselves and with the source, although drain() and
\* handleOne() overlap on one worker and calls of a remote source fail after taking effect.
AccountsHold == WorkerAccounting /\ ResultsCredited

\* stop({force: true}) reaches the handler in flight even when it arrives
\* between the claim and the handler's start: no handler runs on unaware of it.
ForcedStopReachesHandler ==
    \A c \in Calls : pc[c] = "handling" /\ forceStopped[WorkerOf[c]] => outcome[c] # "none"

\* A stop() between an empty claim() and waitForPoll() is not missed: a stopped
\* worker never sleeps until its poll timer fires.
NoSleepAfterStop == \A c \in Calls : pc[c] = "poll" => ~stopped[WorkerOf[c]]

\* status() of a serial worker says what it is doing: it names the item in
\* flight, and reports "handling" exactly while there is one.
StatusTruthful ==
    \A c \in Calls :
        LET w == WorkerOf[c] IN
        /\ inFlightWorkId[w] = IF Busy(c) THEN item[c] ELSE NoItem
        /\ state[w] = "handling" <=> Busy(c)
        /\ running[w] <=> pc[c] # "ready" /\ mode[c] # "one"

\* Once stop() was called every activation of the worker ends, unless its
\* handler is still running, which only a forced stop interrupts.
StopEndsCalls == \A c \in Calls :
    stopped[WorkerOf[c]] ~> (pc[c] = "ready" \/ (pc[c] = "handling" /\ ~forceStopped[WorkerOf[c]]))

\* A handler whose item the control plane wants stopped, or whose lease is gone,
\* is given up even if it never settles: the heartbeats notice.
BeatsNoticeLoss == \A c \in Calls :
    (/\ pc[c] = "handling"
     /\ \/ stopRequested[item[c]]
        \/ ~Held(item[c], lease[c])
        \/ Expired(item[c])) ~> pc[c] # "handling"
=============================================================================
