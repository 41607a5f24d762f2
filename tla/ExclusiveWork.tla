--------------------------- MODULE ExclusiveWork ---------------------------
(***************************************************************************)
(* What a work source promises its clients, whatever they do: an item is   *)
(* granted to one lease at a time, lease numbers only grow, an item is     *)
(* finished at most once, and by the lease in force on it.                 *)
(***************************************************************************)
EXTENDS Naturals

CONSTANTS
    Items,          \* the ids a work item may have
    MaxClaims,      \* bound: how many leases are ever granted
    NoLease         \* the holder of an item nobody has leased

Outcomes == {"completed", "failed", "skipped", "stopped"}

VARIABLES
    outcome,        \* outcome[i]: "none", "open", or how the item was finished
    holder,         \* holder[i]: the lease the item is granted to
    finisher,       \* finisher[i]: the lease whose result was accepted
    granted         \* the number of leases granted so far

vars == <<outcome, holder, finisher, granted>>

Init ==
    /\ outcome = [i \in Items |-> "none"]
    /\ holder = [i \in Items |-> NoLease]
    /\ finisher = [i \in Items |-> NoLease]
    /\ granted = 0

\* A new item is offered.
Offer(i) ==
    /\ outcome[i] = "none"
    /\ outcome' = [outcome EXCEPT ![i] = "open"]
    /\ UNCHANGED <<holder, finisher, granted>>

\* Some leases lapse and, in the same step, item i gets the next lease.
Grant(i, lapsed) ==
    /\ granted < MaxClaims
    /\ outcome[i] = "open"
    /\ holder[i] = NoLease \/ i \in lapsed
    /\ granted' = granted + 1
    /\ holder' = [j \in Items |-> IF j = i THEN granted + 1
                                  ELSE IF j \in lapsed THEN NoLease
                                  ELSE holder[j]]
    /\ UNCHANGED <<outcome, finisher>>

\* Some leases lapse and nobody is granted anything.
Lapse(lapsed) ==
    /\ holder' = [j \in Items |-> IF j \in lapsed THEN NoLease ELSE holder[j]]
    /\ UNCHANGED <<outcome, finisher, granted>>

\* The holder of item i finishes it, which gives the lease up.
Finish(i, o) ==
    /\ outcome[i] = "open"
    /\ holder[i] # NoLease
    /\ outcome' = [outcome EXCEPT ![i] = o]
    /\ finisher' = [finisher EXCEPT ![i] = holder[i]]
    /\ holder' = [holder EXCEPT ![i] = NoLease]
    /\ UNCHANGED granted

Next ==
    \/ \E i \in Items : Offer(i)
    \/ \E i \in Items, lapsed \in SUBSET Items : Grant(i, lapsed)
    \/ \E lapsed \in SUBSET Items : Lapse(lapsed)
    \/ \E i \in Items, o \in Outcomes : Finish(i, o)

Spec == Init /\ [][Next]_vars
=============================================================================
