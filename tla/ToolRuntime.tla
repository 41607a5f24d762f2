---------------------------- MODULE ToolRuntime ----------------------------
(***************************************************************************)
(* ToolRuntime (src/src/tools/runtime.ts): calls of local tools under one  *)
(* semaphore and one abort signal.  A call takes a slot, looks its tool    *)
(* up, runs the handler against a timer and the signal, and gives the slot *)
(* back.  What a handler does when its signal fires is its own affair: the *)
(* call is over, the handler may go on without a slot.                     *)
(***************************************************************************)
EXTENDS Integers, Sequences, FiniteSets, SequencesExt

CONSTANTS
    CallBound,      \* bound: how many calls a run makes
    Capacity        \* max_concurrency

ASSUME CallBoundAssumption == CallBound \in Nat
\* The constructor of Semaphore throws a RangeError otherwise.
ASSUME CapacityAssumption == Capacity \in Nat \ {0}

\* Calls are numbered in the order in which they are made.
Calls == 1..CallBound

\* How call() settles: with a result, a refusal by the package boundary
\* included; with an error of its own, a timeout included; or with the signal's.
Results == {"returned", "threw", "cancelled"}

\* idle        not made yet                 running  in raceAbort()
\* waiting     in the semaphore's waiters   over     settled, slot still held
\* woken       its waiter was resolved      done     returned or thrown
\* held        has a slot, not yet looked up
CallPlaces == {"idle", "waiting", "woken", "held", "running", "over", "done"}

VARIABLES
    aborted,        \* signal.aborted
    active,         \* semaphore.active
    waiters,        \* semaphore.waiters
    place,          \* place[c]: where call c is
    result,         \* result[c]: what its promise settles to
    handled         \* history: the calls whose handler was invoked

toolVars == <<active, waiters, place, result, handled>>

ToolTypeOK ==
    /\ aborted \in BOOLEAN
    /\ active \in Nat
    /\ waiters \in Seq(Calls)
    /\ place \in [Calls -> CallPlaces]
    /\ result \in [Calls -> Results \cup {"none"}]
    /\ handled \subseteq Calls

ToolInit ==
    /\ active = 0
    /\ waiters = <<>>
    /\ place = [c \in Calls |-> "idle"]
    /\ result = [c \in Calls |-> "none"]
    /\ handled = {}

-----------------------------------------------------------------------------

\* acquire() of the calls first..last, made one after the other without an
\* await: an aborted signal throws, free slots are taken, the rest wait.
AcquireAll(first, last) ==
    LET batch == first..last
        taking == {c \in batch : active + (c - first) < Capacity}
    IN IF aborted
       THEN /\ place' = [c \in Calls |-> IF c \in batch THEN "done" ELSE place[c]]
            /\ result' = [c \in Calls |-> IF c \in batch THEN "cancelled" ELSE result[c]]
            /\ UNCHANGED <<active, waiters, handled>>
       ELSE /\ place' = [c \in Calls |-> IF c \in taking THEN "held"
                                         ELSE IF c \in batch THEN "waiting"
                                         ELSE place[c]]
            /\ active' = active + Cardinality(taking)
            /\ waiters' = waiters \o [n \in 1..Cardinality(batch \ taking) |->
                                        last - Cardinality(batch \ taking) + n]
            /\ UNCHANGED <<result, handled>>

\* acquire() of a waiter goes on.
TakeSlot(c) ==
    /\ place[c] = "woken"
    /\ place' = [place EXCEPT ![c] = "held"]
    /\ active' = active + 1
    /\ UNCHANGED <<aborted, waiters, result, handled>>

Ends(c, r) ==
    /\ place' = [place EXCEPT ![c] = "over"]
    /\ result' = [result EXCEPT ![c] = r]

\* The call ends before a handler runs: refused by the package boundary or
\* mocked, or no such tool, no handler, no context value.
EndsUnhandled(c) ==
    /\ place[c] = "held"
    /\ \E r \in {"returned", "threw"} : Ends(c, r)
    /\ UNCHANGED <<aborted, active, waiters, handled>>

\* The handler is invoked, also when the signal has fired since the call got
\* its slot; raceAbort() throws at once in that case.
Handle(c) ==
    /\ place[c] = "held"
    /\ handled' = handled \cup {c}
    /\ IF aborted
       THEN Ends(c, "cancelled")
       ELSE place' = [place EXCEPT ![c] = "running"] /\ UNCHANGED result
    /\ UNCHANGED <<aborted, active, waiters>>

HandlerSettles(c) ==
    /\ place[c] = "running"
    /\ \E r \in {"returned", "threw"} : Ends(c, r)
    /\ UNCHANGED <<aborted, active, waiters, handled>>

Timeout(c) ==
    /\ place[c] = "running"
    /\ Ends(c, "threw")
    /\ UNCHANGED <<aborted, active, waiters, handled>>

\* Mutant of Release: the slot is given back, nobody is told.
ReleaseUntold(c) ==
    /\ place[c] = "over"
    /\ active' = active - 1
    /\ place' = [place EXCEPT ![c] = "done"]
    /\ UNCHANGED <<aborted, waiters, result, handled>>

\* The finally of call(): release() gives the slot back and wakes a waiter.
Release(c) ==
    /\ place[c] = "over"
    /\ active' = active - 1
    /\ IF waiters = <<>>
       THEN place' = [place EXCEPT ![c] = "done"] /\ UNCHANGED waiters
       ELSE /\ place' = [place EXCEPT ![c] = "done", ![Head(waiters)] = "woken"]
            /\ waiters' = Tail(waiters)
    /\ UNCHANGED <<aborted, result, handled>>

\* Mutant of AbortCalls: waiting calls stay in the queue.
AbortCallsInPlace ==
    /\ place' = [c \in Calls |-> CASE place[c] = "waiting" -> "done"
                                   [] place[c] = "running" -> "over"
                                   [] OTHER                -> place[c]]
    /\ result' = [c \in Calls |-> IF place[c] \in {"waiting", "running"}
                                  THEN "cancelled" ELSE result[c]]
    /\ UNCHANGED <<active, waiters, handled>>

\* The signal fires: waiting calls leave the queue, running ones are over.
AbortCalls ==
    /\ place' = [c \in Calls |-> CASE place[c] = "waiting" -> "done"
                                   [] place[c] = "running" -> "over"
                                   [] OTHER                -> place[c]]
    /\ result' = [c \in Calls |-> IF place[c] \in {"waiting", "running"}
                                  THEN "cancelled" ELSE result[c]]
    /\ waiters' = <<>>
    /\ UNCHANGED <<active, handled>>

\* What a call goes through by itself once it was made.
CallContinues(c) == TakeSlot(c) \/ EndsUnhandled(c) \/ Handle(c) \/ Release(c)

ToolStep(c) == CallContinues(c) \/ HandlerSettles(c) \/ Timeout(c)

-----------------------------------------------------------------------------

HasSlot(c) == place[c] \in {"held", "running", "over"}

\* The semaphore counts the calls that have a slot, never more than its
\* capacity; it queues the calls that wait, each once; and no call waits while
\* a slot is free that nobody was woken for.  (Semaphore.acquire(), the release
\* it returns, and the abort listener that takes a waiter out of the queue.)
SlotsAccounted ==
    /\ active = Cardinality({c \in Calls : HasSlot(c)})
    /\ active <= Capacity
    /\ ToSet(waiters) = {c \in Calls : place[c] = "waiting"}
    /\ \A m, n \in 1..Len(waiters) : waiters[m] = waiters[n] => m = n
    /\ waiters # <<>> => active + Cardinality({c \in Calls : place[c] = "woken"}) >= Capacity
=============================================================================
