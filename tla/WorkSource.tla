----------------------------- MODULE WorkSource -----------------------------
(***************************************************************************)
(* InMemoryWorkSource (src/src/workers/index.ts): a queue of work items    *)
(* handed out under leases.  Every method runs to completion without an    *)
(* await, so each is one action.  The clients of Next are the most liberal *)
(* ones the interface allows: any lease id ever issued, stale ones too,    *)
(* may be presented at any moment with any item.                           *)
(*                                                                         *)
(* Time is kept relative: `remaining[i]` is the part of the lease that is  *)
(* left, `lease_expires_at - now()`, so an expired lease has 0 left.       *)
(***************************************************************************)
EXTENDS Integers, Sequences, FiniteSets

CONSTANTS
    Items,          \* the ids a work item may have
    LeaseMs,        \* the longest lease a client asks for, in ticks
    MaxClaims,      \* bound: how many leases are ever granted
    NoLease         \* `lease_id === undefined`

\* Worker lease_ms must be greater than zero (EnvironmentWorker's constructor).
ASSUME LeaseMsAssumption == LeaseMs \in Nat \ {0}
ASSUME MaxClaimsAssumption == MaxClaims \in Nat
\* The map of items is a finite one; "no lease" is none of the numbers the sequence hands out.
ASSUME ItemsAssumption == IsFiniteSet(Items)
ASSUME NoLeaseAssumption == NoLease \notin Nat

ResultStatus == {"completed", "failed", "skipped", "stopped"}
ItemStatus == {"absent", "pending", "leased"} \cup ResultStatus

VARIABLES
    status,         \* item.status, "absent" before the item is enqueued
    attempts,       \* item.attempts
    leaseId,        \* item.lease_id: its sequence number
    remaining,      \* item.lease_expires_at - now(), never below 0
    stopRequested,  \* item.stop_requested
    order,          \* the insertion order of the `items` map
    sourceStopped,  \* source.stopped
    reclaimed,      \* source.reclaimed
    sequence,       \* source.sequence
    finisher        \* history: the lease whose result was accepted for item i

sourceVars == <<status, attempts, leaseId, remaining, stopRequested, order,
                sourceStopped, reclaimed, sequence, finisher>>

SourceTypeOK ==
    /\ status \in [Items -> ItemStatus]
    /\ attempts \in [Items -> Nat]
    /\ leaseId \in [Items -> (1..MaxClaims) \cup {NoLease}]
    /\ remaining \in [Items -> 0..LeaseMs]
    /\ stopRequested \in [Items -> BOOLEAN]
    /\ order \in Seq(Items)
    /\ sourceStopped \in BOOLEAN
    /\ reclaimed \in Nat
    /\ sequence \in 0..MaxClaims
    /\ finisher \in [Items -> (1..MaxClaims) \cup {NoLease}]

SourceInit ==
    /\ status = [i \in Items |-> "absent"]
    /\ attempts = [i \in Items |-> 0]
    /\ leaseId = [i \in Items |-> NoLease]
    /\ remaining = [i \in Items |-> 0]
    /\ stopRequested = [i \in Items |-> FALSE]
    /\ order = <<>>
    /\ sourceStopped = FALSE
    /\ reclaimed = 0
    /\ sequence = 0
    /\ finisher = [i \in Items |-> NoLease]

-----------------------------------------------------------------------------
(* The tests the methods share. *)

Expired(i) == status[i] = "leased" /\ remaining[i] = 0

\* Mutant: requireLeased compares no lease ids.
HeldByAnyone(i, l) == status[i] = "leased"

\* requireLeased accepts the pair.
Held(i, l) == status[i] = "leased" /\ leaseId[i] = l

\* What reclaimExpired leaves of the items' statuses and leases.
StatusAfterReclaim == [i \in Items |-> IF Expired(i) THEN "pending" ELSE status[i]]

LeaseAfterReclaim == [i \in Items |-> IF Expired(i) THEN NoLease ELSE leaseId[i]]

ReclaimedAfterReclaim == reclaimed + Cardinality({i \in Items : Expired(i)})

\* The first pending item in insertion order.
FirstPending(i) ==
    \E k \in 1..Len(order) :
        /\ order[k] = i
        /\ StatusAfterReclaim[i] = "pending"
        /\ \A j \in 1..(k - 1) : StatusAfterReclaim[order[j]] # "pending"

NothingToClaim == sourceStopped \/ \A i \in Items : StatusAfterReclaim[i] # "pending"
-----------------------------------------------------------------------------
(* The methods.  Where one throws, or returns without a change, it has no   *)
(* action here; EnvironmentWorker models what its caller then does.         *)

Enqueue(i) ==
    /\ status[i] = "absent"
    /\ status' = [status EXCEPT ![i] = "pending"]
    /\ order' = Append(order, i)
    /\ UNCHANGED <<attempts, leaseId, remaining, stopRequested, sourceStopped,
                   reclaimed, sequence, finisher>>

RequestStop(i) ==
    /\ status[i] # "absent"
    /\ stopRequested' = [stopRequested EXCEPT ![i] = TRUE]
    /\ UNCHANGED <<status, attempts, leaseId, remaining, order, sourceStopped,
                   reclaimed, sequence, finisher>>

\* claim() hands out item i: expired leases are reclaimed first.
ClaimItem(i, ms) ==
    /\ ~sourceStopped
    /\ sequence < MaxClaims
    /\ FirstPending(i)
    /\ sequence' = sequence + 1
    /\ status' = [StatusAfterReclaim EXCEPT ![i] = "leased"]
    /\ attempts' = [attempts EXCEPT ![i] = @ + 1]
    /\ leaseId' = [LeaseAfterReclaim EXCEPT ![i] = sequence + 1]
    /\ remaining' = [remaining EXCEPT ![i] = ms]
    /\ reclaimed' = ReclaimedAfterReclaim
    /\ UNCHANGED <<stopRequested, order, sourceStopped, finisher>>

\* heartbeat() returns true and extends the lease.
Heartbeat(i, l, ms) ==
    /\ Held(i, l)
    /\ ~Expired(i)
    /\ remaining' = [remaining EXCEPT ![i] = ms]
    /\ UNCHANGED <<status, attempts, leaseId, stopRequested, order, sourceStopped,
                   reclaimed, sequence, finisher>>

\* complete() and fail() through finish(): the item takes a terminal status.
Finish(i, l, result) ==
    /\ Held(i, l)
    /\ ~Expired(i)
    /\ status' = [status EXCEPT ![i] = result]
    /\ leaseId' = [leaseId EXCEPT ![i] = NoLease]
    /\ remaining' = [remaining EXCEPT ![i] = 0]
    /\ finisher' = [finisher EXCEPT ![i] = l]
    /\ UNCHANGED <<attempts, stopRequested, order, sourceStopped, reclaimed, sequence>>

\* stats() reclaims the expired leases before it counts.
Stats ==
    /\ \E i \in Items : Expired(i)
    /\ status' = StatusAfterReclaim
    /\ leaseId' = LeaseAfterReclaim
    /\ reclaimed' = ReclaimedAfterReclaim
    /\ UNCHANGED <<attempts, remaining, stopRequested, order, sourceStopped, sequence,
                   finisher>>

StopSource ==
    /\ ~sourceStopped
    /\ sourceStopped' = TRUE
    /\ UNCHANGED <<status, attempts, leaseId, remaining, stopRequested, order,
                   reclaimed, sequence, finisher>>

\* The clock behind now() advances by one tick.
Tick ==
    /\ \E i \in Items : remaining[i] > 0
    /\ remaining' = [i \in Items |-> IF remaining[i] > 0 THEN remaining[i] - 1 ELSE 0]
    /\ UNCHANGED <<status, attempts, leaseId, stopRequested, order, sourceStopped,
                   reclaimed, sequence, finisher>>

SourceNext ==
    \/ \E i \in Items : Enqueue(i) \/ RequestStop(i)
    \/ \E i \in Items, ms \in 1..LeaseMs : ClaimItem(i, ms)
    \/ \E i \in Items, l \in 1..sequence, ms \in 1..LeaseMs : Heartbeat(i, l, ms)
    \/ \E i \in Items, l \in 1..sequence, r \in ResultStatus : Finish(i, l, r)
    \/ Stats
    \/ StopSource
    \/ Tick

SourceSpec == SourceInit /\ [][SourceNext]_sourceVars

-----------------------------------------------------------------------------
(* The source implements ExclusiveWork. *)

OutcomeOf(s) ==
    IF s = "absent" THEN "none" ELSE IF s \in ResultStatus THEN s ELSE "open"

Promise == INSTANCE ExclusiveWork WITH
    outcome <- [i \in Items |-> OutcomeOf(status[i])],
    holder <- leaseId,
    finisher <- finisher,
    granted <- sequence

\* Whatever lease its clients present and whenever they do, claim, heartbeat,
\* complete, fail and stats together keep the promise of ExclusiveWork: one
\* lease at a time on an item, and at most one result for it, from its holder.
KeepsPromise == Promise!Spec

\* A lease id names one grant: two items never carry the same one, an item
\* carries one exactly while it is leased, and only an enqueued item has ever
\* been attempted (claim, finish and reclaimExpired set these fields together).
LeaseNamesOneItem ==
    /\ \A i \in Items : leaseId[i] # NoLease <=> status[i] = "leased"
    /\ \A i \in Items : leaseId[i] # NoLease => leaseId[i] <= sequence
    /\ \A i, j \in Items : leaseId[i] = leaseId[j] /\ leaseId[i] # NoLease => i = j

\* Every lease granted is accounted for by the source's own counters: it was
\* reclaimed, it is in force, or it finished its item (stats() against claim()).
LeasesConserved ==
    sequence = reclaimed + Cardinality({i \in Items : status[i] = "leased"})
                         + Cardinality({i \in Items : status[i] \in ResultStatus})
=============================================================================
