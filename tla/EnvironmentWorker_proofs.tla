----------------------- MODULE EnvironmentWorker_proofs -----------------------
(***************************************************************************)
(* WorkSource and EnvironmentWorker for every number of items, workers and *)
(* overlapping activations, every lease length and bound on the claims.    *)
(* First the source by itself, whatever its clients do: types, lease       *)
(* names, and that every step is a step of ExclusiveWork or leaves it      *)
(* alone.  Then the workers: types, that they are clients of the source    *)
(* (from which its theorems carry over), their accounts, and, for workers  *)
(* that run one activation at a time, that neither a forced stop nor a     *)
(* stop before the poll is missed and that status() is truthful.           *)
(***************************************************************************)
EXTENDS EnvironmentWorker, FiniteSetTheorems, TLAPS

-----------------------------------------------------------------------------
(* The source: an item has one lease, and a lease one item.                  *)

\* The inductive invariant: leases are only told apart (LeaseNamesOneItem) on
\* well-typed states, and the steps that count leases need both.
SourceInv == SourceTypeOK /\ LeaseNamesOneItem

-----------------------------------------------------------------------------
(* Lemmas about the operators the actions are built from.                    *)

\* reclaimExpired leaves a well-typed record of the items, and counts a natural.
LEMMA ReclaimTyped ==
    ASSUME SourceTypeOK
    PROVE  /\ StatusAfterReclaim \in [Items -> ItemStatus]
           /\ LeaseAfterReclaim \in [Items -> (1..MaxClaims) \cup {NoLease}]
           /\ ReclaimedAfterReclaim \in Nat
<1>1. Cardinality({i \in Items : Expired(i)}) \in Nat
    <2>1. {i \in Items : Expired(i)} \in SUBSET Items  OBVIOUS
    <2>2. IsFiniteSet({i \in Items : Expired(i)})
        BY <2>1, ItemsAssumption, FS_Subset
    <2> QED  BY <2>2, FS_CardinalityType
<1>2. StatusAfterReclaim \in [Items -> ItemStatus]
    BY DEF SourceTypeOK, StatusAfterReclaim, ItemStatus
<1>3. LeaseAfterReclaim \in [Items -> (1..MaxClaims) \cup {NoLease}]
    BY DEF SourceTypeOK, LeaseAfterReclaim
<1>4. ReclaimedAfterReclaim \in Nat
    BY <1>1 DEF SourceTypeOK, ReclaimedAfterReclaim
<1> QED  BY <1>2, <1>3, <1>4

\* reclaimExpired keeps lease and status of an item in step, and hands nobody a lease.
LEMMA ReclaimKeepsNames ==
    ASSUME SourceInv
    PROVE  \A i \in Items :
               /\ LeaseAfterReclaim[i] # NoLease <=> StatusAfterReclaim[i] = "leased"
               /\ LeaseAfterReclaim[i] # NoLease => LeaseAfterReclaim[i] = leaseId[i]
BY DEF SourceInv, SourceTypeOK, LeaseNamesOneItem, LeaseAfterReclaim, StatusAfterReclaim, Expired

-----------------------------------------------------------------------------
(* Types and lease names are inductive.                                      *)

LEMMA InitEstablishesInv == SourceInit => SourceInv
<1> SUFFICES ASSUME SourceInit PROVE SourceTypeOK /\ LeaseNamesOneItem
    BY DEF SourceInv
<1>1. SourceTypeOK
    <2>1. 0 \in 0..LeaseMs /\ sequence \in 0..MaxClaims
        BY MaxClaimsAssumption, LeaseMsAssumption DEF SourceInit
    <2>2. order \in Seq(Items)
        BY DEF SourceInit
    <2>3. status \in [Items -> ItemStatus]
        BY DEF SourceInit, ItemStatus
    <2> QED  BY <2>1, <2>2, <2>3 DEF SourceInit, SourceTypeOK
<1>2. LeaseNamesOneItem
    BY DEF SourceInit, LeaseNamesOneItem
<1> QED  BY <1>1, <1>2

LEMMA StepKeepsType == SourceTypeOK /\ [SourceNext]_sourceVars => SourceTypeOK'
<1> SUFFICES ASSUME SourceTypeOK, [SourceNext]_sourceVars PROVE SourceTypeOK'
    OBVIOUS
<1> USE MaxClaimsAssumption, LeaseMsAssumption DEF SourceTypeOK
<1>1. ASSUME NEW i \in Items, Enqueue(i) PROVE SourceTypeOK'
    BY <1>1 DEF Enqueue, ItemStatus
<1>2. ASSUME NEW i \in Items, RequestStop(i) PROVE SourceTypeOK'
    BY <1>2 DEF RequestStop
<1>3. ASSUME NEW i \in Items, NEW ms \in 1..LeaseMs, ClaimItem(i, ms) PROVE SourceTypeOK'
    <2>1. sequence + 1 \in 1..MaxClaims
        BY <1>3 DEF ClaimItem
    <2>2. status' \in [Items -> ItemStatus]
        BY <1>3, ReclaimTyped DEF ClaimItem, ItemStatus
    <2>3. leaseId' \in [Items -> (1..MaxClaims) \cup {NoLease}]
        BY <1>3, <2>1, ReclaimTyped DEF ClaimItem
    <2>4. reclaimed' \in Nat
        BY <1>3, ReclaimTyped DEF ClaimItem
    <2>5. remaining' \in [Items -> 0..LeaseMs] /\ attempts' \in [Items -> Nat]
        BY <1>3 DEF ClaimItem
    <2> QED  BY <1>3, <2>1, <2>2, <2>3, <2>4, <2>5 DEF ClaimItem
<1>4. ASSUME NEW i \in Items, NEW l \in 1..sequence, NEW ms \in 1..LeaseMs,
             Heartbeat(i, l, ms)
      PROVE  SourceTypeOK'
    BY <1>4 DEF Heartbeat
<1>5. ASSUME NEW i \in Items, NEW l \in 1..sequence, NEW r \in ResultStatus,
             Finish(i, l, r)
      PROVE  SourceTypeOK'
    BY <1>5 DEF Finish, ItemStatus
<1>6. CASE Stats
    BY <1>6, ReclaimTyped DEF Stats
<1>7. CASE StopSource
    BY <1>7 DEF StopSource
<1>8. CASE Tick
    BY <1>8 DEF Tick
<1>9. CASE UNCHANGED sourceVars
    BY <1>9 DEF sourceVars
<1> QED
    BY <1>1, <1>2, <1>3, <1>4, <1>5, <1>6, <1>7, <1>8, <1>9 DEF SourceNext

LEMMA StepKeepsNames == SourceInv /\ [SourceNext]_sourceVars => LeaseNamesOneItem'
<1> SUFFICES ASSUME SourceInv, [SourceNext]_sourceVars PROVE LeaseNamesOneItem'
    OBVIOUS
<1> USE NoLeaseAssumption DEF SourceInv, SourceTypeOK, LeaseNamesOneItem
<1>1. ASSUME NEW i \in Items, Enqueue(i) PROVE LeaseNamesOneItem'
    BY <1>1 DEF Enqueue
<1>2. ASSUME NEW i \in Items, RequestStop(i) PROVE LeaseNamesOneItem'
    BY <1>2 DEF RequestStop
<1>3. ASSUME NEW i \in Items, NEW ms \in 1..LeaseMs, ClaimItem(i, ms)
      PROVE  LeaseNamesOneItem'
    <2>1. /\ status' = [StatusAfterReclaim EXCEPT ![i] = "leased"]
          /\ leaseId' = [LeaseAfterReclaim EXCEPT ![i] = sequence + 1]
          /\ sequence' = sequence + 1
        BY <1>3 DEF ClaimItem
    <2>2. \A j \in Items : /\ leaseId'[j] = IF j = i THEN sequence + 1
                                            ELSE LeaseAfterReclaim[j]
                           /\ status'[j] = IF j = i THEN "leased"
                                           ELSE StatusAfterReclaim[j]
        BY <2>1, ReclaimTyped
    <2>3. sequence + 1 # NoLease
        OBVIOUS
    <2>4. \A j \in Items : LeaseAfterReclaim[j] # NoLease => LeaseAfterReclaim[j] <= sequence
        BY ReclaimKeepsNames
    <2> QED  BY <2>1, <2>2, <2>3, <2>4, ReclaimKeepsNames
<1>4. ASSUME NEW i \in Items, NEW l \in 1..sequence, NEW ms \in 1..LeaseMs,
             Heartbeat(i, l, ms)
      PROVE  LeaseNamesOneItem'
    BY <1>4 DEF Heartbeat
<1>5. ASSUME NEW i \in Items, NEW l \in 1..sequence, NEW r \in ResultStatus,
             Finish(i, l, r)
      PROVE  LeaseNamesOneItem'
    BY <1>5 DEF Finish, ResultStatus
<1>6. CASE Stats
    BY <1>6, ReclaimTyped, ReclaimKeepsNames DEF Stats
<1>7. CASE StopSource
    BY <1>7 DEF StopSource
<1>8. CASE Tick
    BY <1>8 DEF Tick
<1>9. CASE UNCHANGED sourceVars
    BY <1>9 DEF sourceVars
<1> QED
    BY <1>1, <1>2, <1>3, <1>4, <1>5, <1>6, <1>7, <1>8, <1>9 DEF SourceNext

LEMMA SourceInvInductive == SourceSpec => []SourceInv
<1>1. SourceInv /\ [SourceNext]_sourceVars => SourceInv'
    BY StepKeepsType, StepKeepsNames DEF SourceInv
<1> QED  BY <1>1, InitEstablishesInv, PTL DEF SourceSpec

\* The fields of InMemoryWorkSource always hold what their types say.
THEOREM SourceIsTyped == SourceSpec => []SourceTypeOK
<1>1. SourceInv => SourceTypeOK
    BY DEF SourceInv
<1> QED  BY <1>1, SourceInvInductive, PTL

\* No lease id is ever on two items, and an item carries one exactly while it
\* is leased, so a lease id that a client presents names at most one item.
THEOREM LeasesNameOneItem == SourceSpec => []LeaseNamesOneItem
<1>1. SourceInv => LeaseNamesOneItem
    BY DEF SourceInv
<1> QED  BY <1>1, SourceInvInductive, PTL

-----------------------------------------------------------------------------
(* Every lease is accounted for.                                             *)

LeasedItems == {i \in Items : status[i] = "leased"}
FinishedItems == {i \in Items : status[i] \in ResultStatus}
ExpiredItems == {i \in Items : Expired(i)}

\* The sets that LeasesConserved counts are finite, so their sizes are naturals.
LEMMA CountsAreNaturals ==
    /\ IsFiniteSet(LeasedItems) /\ Cardinality(LeasedItems) \in Nat
    /\ IsFiniteSet(FinishedItems) /\ Cardinality(FinishedItems) \in Nat
    /\ IsFiniteSet(ExpiredItems) /\ Cardinality(ExpiredItems) \in Nat
<1>1. /\ LeasedItems \in SUBSET Items
      /\ FinishedItems \in SUBSET Items
      /\ ExpiredItems \in SUBSET Items
    BY DEF LeasedItems, FinishedItems, ExpiredItems
<1>2. /\ IsFiniteSet(LeasedItems) /\ IsFiniteSet(FinishedItems)
      /\ IsFiniteSet(ExpiredItems)
    BY <1>1, ItemsAssumption, FS_Subset
<1> QED  BY <1>2, FS_CardinalityType

\* Taking the expired leases back takes as many off the leased items.
LEMMA ReclaimCounts ==
    Cardinality(LeasedItems \ ExpiredItems)
        = Cardinality(LeasedItems) - Cardinality(ExpiredItems)
<1>1. LeasedItems \cap ExpiredItems = ExpiredItems
    BY DEF LeasedItems, ExpiredItems, Expired
<1> QED  BY <1>1, CountsAreNaturals, FS_Difference

LEMMA StepConservesLeases ==
    SourceInv /\ LeasesConserved /\ [SourceNext]_sourceVars => LeasesConserved'
<1> SUFFICES ASSUME SourceInv, LeasesConserved, [SourceNext]_sourceVars
             PROVE  LeasesConserved'
    OBVIOUS
<1>a. sequence = reclaimed + Cardinality(LeasedItems) + Cardinality(FinishedItems)
    BY DEF LeasesConserved, LeasedItems, FinishedItems
<1>b. SUFFICES sequence' = reclaimed' + Cardinality(LeasedItems')
                                      + Cardinality(FinishedItems')
    BY DEF LeasesConserved, LeasedItems, FinishedItems
<1>c. sequence \in Nat /\ reclaimed \in Nat
    BY MaxClaimsAssumption DEF SourceInv, SourceTypeOK
<1>d. ASSUME UNCHANGED <<status, sequence, reclaimed>>
      PROVE  sequence' = reclaimed' + Cardinality(LeasedItems')
                                    + Cardinality(FinishedItems')
    BY <1>a, <1>d DEF LeasedItems, FinishedItems
<1>1. ASSUME NEW i \in Items, Enqueue(i)
      PROVE  sequence' = reclaimed' + Cardinality(LeasedItems')
                                    + Cardinality(FinishedItems')
    <2>1. LeasedItems' = LeasedItems
        BY <1>1 DEF Enqueue, LeasedItems, SourceInv, SourceTypeOK
    <2>2. FinishedItems' = FinishedItems
        BY <1>1 DEF Enqueue, FinishedItems, SourceInv, SourceTypeOK, ResultStatus
    <2> QED  BY <1>1, <1>a, <2>1, <2>2 DEF Enqueue
<1>2. ASSUME NEW i \in Items, NEW ms \in 1..LeaseMs, ClaimItem(i, ms)
      PROVE  sequence' = reclaimed' + Cardinality(LeasedItems')
                                    + Cardinality(FinishedItems')
    <2>1. StatusAfterReclaim[i] = "pending"
        BY <1>2 DEF ClaimItem, FirstPending
    <2>2. \A j \in Items : status'[j] = IF j = i THEN "leased" ELSE StatusAfterReclaim[j]
        BY <1>2, ReclaimTyped DEF ClaimItem, SourceInv
    <2>3. LeasedItems' = (LeasedItems \ ExpiredItems) \cup {i}
        BY <2>2 DEF LeasedItems, ExpiredItems, StatusAfterReclaim
    <2>4. i \notin LeasedItems \ ExpiredItems
        BY <2>1 DEF LeasedItems, ExpiredItems, StatusAfterReclaim
    <2>5. FinishedItems' = FinishedItems
        BY <2>1, <2>2 DEF FinishedItems, StatusAfterReclaim, Expired, ResultStatus
    <2>6. IsFiniteSet(LeasedItems \ ExpiredItems)
        BY CountsAreNaturals, FS_Difference
    <2>7. Cardinality(LeasedItems') = Cardinality(LeasedItems) - Cardinality(ExpiredItems) + 1
        BY <2>3, <2>4, <2>6, ReclaimCounts, FS_AddElement
    <2>8. sequence' = sequence + 1 /\ reclaimed' = reclaimed + Cardinality(ExpiredItems)
        BY <1>2 DEF ClaimItem, ReclaimedAfterReclaim, ExpiredItems
    <2> QED  BY <1>a, <1>c, <2>5, <2>7, <2>8, CountsAreNaturals
<1>3. ASSUME NEW i \in Items, NEW l \in 1..sequence, NEW r \in ResultStatus,
             Finish(i, l, r)
      PROVE  sequence' = reclaimed' + Cardinality(LeasedItems')
                                    + Cardinality(FinishedItems')
    <2>1. \A j \in Items : status'[j] = IF j = i THEN r ELSE status[j]
        BY <1>3 DEF Finish, SourceInv, SourceTypeOK
    <2>2. status[i] = "leased"
        BY <1>3 DEF Finish, Held
    <2>3. LeasedItems' = LeasedItems \ {i}
        BY <2>1 DEF LeasedItems, ResultStatus
    <2>4. FinishedItems' = FinishedItems \cup {i}
        BY <2>1 DEF FinishedItems, ResultStatus
    <2>5. i \in LeasedItems /\ i \notin FinishedItems
        BY <2>2 DEF LeasedItems, FinishedItems, ResultStatus
    <2>6. Cardinality(LeasedItems') = Cardinality(LeasedItems) - 1
        BY <2>3, <2>5, CountsAreNaturals, FS_RemoveElement
    <2>7. Cardinality(FinishedItems') = Cardinality(FinishedItems) + 1
        BY <2>4, <2>5, CountsAreNaturals, FS_AddElement
    <2>8. UNCHANGED <<sequence, reclaimed>>
        BY <1>3 DEF Finish
    <2> QED  BY <1>a, <1>c, <2>6, <2>7, <2>8, CountsAreNaturals
<1>4. ASSUME Stats
      PROVE  sequence' = reclaimed' + Cardinality(LeasedItems')
                                    + Cardinality(FinishedItems')
    <2>1. LeasedItems' = LeasedItems \ ExpiredItems
        BY <1>4 DEF Stats, LeasedItems, ExpiredItems, StatusAfterReclaim
    <2>2. FinishedItems' = FinishedItems
        BY <1>4 DEF Stats, FinishedItems, StatusAfterReclaim, Expired, ResultStatus
    <2>3. sequence' = sequence /\ reclaimed' = reclaimed + Cardinality(ExpiredItems)
        BY <1>4 DEF Stats, ReclaimedAfterReclaim, ExpiredItems
    <2> QED  BY <1>a, <1>c, <2>1, <2>2, <2>3, ReclaimCounts, CountsAreNaturals
<1>5. ASSUME NEW i \in Items, RequestStop(i) PROVE UNCHANGED <<status, sequence, reclaimed>>
    BY <1>5 DEF RequestStop
<1>6. ASSUME NEW i \in Items, NEW l \in 1..sequence, NEW ms \in 1..LeaseMs,
             Heartbeat(i, l, ms)
      PROVE  UNCHANGED <<status, sequence, reclaimed>>
    BY <1>6 DEF Heartbeat
<1>7. StopSource \/ Tick \/ UNCHANGED sourceVars => UNCHANGED <<status, sequence, reclaimed>>
    BY DEF StopSource, Tick, sourceVars
<1> QED
    BY <1>1, <1>2, <1>3, <1>4, <1>5, <1>6, <1>7, <1>d DEF SourceNext

\* Every lease ever granted was taken back, is in force, or finished its item:
\* the counters of stats() never lose or invent one.
THEOREM LeasesAreConserved == SourceSpec => []LeasesConserved
<1>1. SourceInit => LeasesConserved
    <2> SUFFICES ASSUME SourceInit PROVE LeasesConserved
        OBVIOUS
    <2>1. LeasedItems = {} /\ FinishedItems = {}
        BY DEF SourceInit, LeasedItems, FinishedItems, ResultStatus
    <2>2. Cardinality(LeasedItems) = 0 /\ Cardinality(FinishedItems) = 0
        BY <2>1, FS_EmptySet
    <2> QED  BY <2>2 DEF SourceInit, LeasesConserved, LeasedItems, FinishedItems
<1> QED
    BY <1>1, StepConservesLeases, SourceInvInductive, PTL DEF SourceSpec

-----------------------------------------------------------------------------
(* The source implements ExclusiveWork.                                      *)

\* OutcomeOf forgets only what reclaimExpired changes.
LEMMA ReclaimKeepsOutcomes ==
    \A i \in Items : OutcomeOf(StatusAfterReclaim[i]) = OutcomeOf(status[i])
BY DEF OutcomeOf, StatusAfterReclaim, Expired, ResultStatus

LEMMA InitIsPromised == SourceInit => Promise!Init
BY DEF SourceInit, Promise!Init, OutcomeOf

LEMMA ClaimIsGrant ==
    ASSUME SourceInv, NEW i \in Items, NEW ms \in 1..LeaseMs, ClaimItem(i, ms)
    PROVE  Promise!Grant(i, ExpiredItems)
<1>1. StatusAfterReclaim[i] = "pending"
    BY DEF ClaimItem, FirstPending
<1>2. OutcomeOf(status[i]) = "open"
    BY <1>1, ReclaimKeepsOutcomes DEF OutcomeOf, ResultStatus
<1>3. leaseId[i] = NoLease \/ i \in ExpiredItems
    BY <1>1 DEF StatusAfterReclaim, ExpiredItems, SourceInv, LeaseNamesOneItem
<1>4. leaseId' = [j \in Items |-> IF j = i THEN sequence + 1
                                  ELSE IF j \in ExpiredItems THEN NoLease
                                  ELSE leaseId[j]]
    BY DEF ClaimItem, LeaseAfterReclaim, ExpiredItems
<1>5. \A j \in Items : OutcomeOf(status'[j]) = OutcomeOf(status[j])
    <2>1. \A j \in Items : status'[j] = IF j = i THEN "leased" ELSE StatusAfterReclaim[j]
        BY ReclaimTyped DEF ClaimItem, SourceInv
    <2> QED  BY <1>2, <2>1, ReclaimKeepsOutcomes DEF OutcomeOf, ResultStatus
<1> QED
    BY <1>2, <1>3, <1>4, <1>5 DEF ClaimItem, Promise!Grant

LEMMA FinishIsFinish ==
    ASSUME SourceInv, NEW i \in Items, NEW l \in 1..sequence, NEW r \in ResultStatus,
           Finish(i, l, r)
    PROVE  Promise!Finish(i, r)
<1>1. status[i] = "leased" /\ leaseId[i] = l /\ leaseId[i] # NoLease
    BY DEF Finish, Held, SourceInv, LeaseNamesOneItem
<1>2. OutcomeOf(status[i]) = "open" /\ OutcomeOf(r) = r
    BY <1>1 DEF OutcomeOf, ResultStatus
<1>3. \A j \in Items : status'[j] = IF j = i THEN r ELSE status[j]
    BY DEF Finish, SourceInv, SourceTypeOK
<1>4. [j \in Items |-> OutcomeOf(status'[j])]
        = [[j \in Items |-> OutcomeOf(status[j])] EXCEPT ![i] = r]
    BY <1>2, <1>3
<1> QED
    BY <1>1, <1>2, <1>4 DEF Finish, Promise!Finish

LEMMA StepIsPromised == SourceInv /\ [SourceNext]_sourceVars => [Promise!Next]_(Promise!vars)
<1> SUFFICES ASSUME SourceInv, [SourceNext]_sourceVars
             PROVE  Promise!Next \/ UNCHANGED Promise!vars
    OBVIOUS
<1>1. ASSUME NEW i \in Items, Enqueue(i) PROVE Promise!Offer(i)
    <2>1. \A j \in Items : status'[j] = IF j = i THEN "pending" ELSE status[j]
        BY <1>1 DEF Enqueue, SourceInv, SourceTypeOK
    <2>2. [j \in Items |-> OutcomeOf(status'[j])]
            = [[j \in Items |-> OutcomeOf(status[j])] EXCEPT ![i] = "open"]
        BY <2>1 DEF OutcomeOf, ResultStatus
    <2> QED  BY <1>1, <2>2 DEF Enqueue, Promise!Offer, OutcomeOf
<1>2. ASSUME Stats PROVE Promise!Lapse(ExpiredItems)
    <2>1. [j \in Items |-> OutcomeOf(status'[j])] = [j \in Items |-> OutcomeOf(status[j])]
        BY <1>2, ReclaimKeepsOutcomes DEF Stats
    <2>2. leaseId' = [j \in Items |-> IF j \in ExpiredItems THEN NoLease ELSE leaseId[j]]
        BY <1>2 DEF Stats, LeaseAfterReclaim, ExpiredItems
    <2> QED  BY <1>2, <2>1, <2>2 DEF Stats, Promise!Lapse
<1>3. ASSUME UNCHANGED <<status, leaseId, finisher, sequence>> PROVE UNCHANGED Promise!vars
    BY <1>3 DEF Promise!vars
<1>4. ASSUME NEW i \in Items, RequestStop(i)
      PROVE  UNCHANGED <<status, leaseId, finisher, sequence>>
    BY <1>4 DEF RequestStop
<1>5. ASSUME NEW i \in Items, NEW l \in 1..sequence, NEW ms \in 1..LeaseMs,
             Heartbeat(i, l, ms)
      PROVE  UNCHANGED <<status, leaseId, finisher, sequence>>
    BY <1>5 DEF Heartbeat
<1>6. StopSource \/ Tick \/ UNCHANGED sourceVars
        => UNCHANGED <<status, leaseId, finisher, sequence>>
    BY DEF StopSource, Tick, sourceVars
<1>7. ExpiredItems \in SUBSET Items
    BY DEF ExpiredItems
<1>8. ResultStatus = Promise!Outcomes
    BY DEF ResultStatus, Promise!Outcomes
<1> QED
    BY <1>1, <1>2, <1>3, <1>4, <1>5, <1>6, <1>7, <1>8, ClaimIsGrant, FinishIsFinish
    DEF SourceNext, Promise!Next

\* Whatever leases are presented, and whenever: one lease at a time on an item,
\* and at most one result for it, from the lease in force.
THEOREM SourceKeepsPromise == SourceSpec => KeepsPromise
<1> QED
    BY InitIsPromised, StepIsPromised, SourceInvInductive, PTL
    DEF SourceSpec, KeepsPromise, Promise!Spec

-----------------------------------------------------------------------------
(* A call that holds an item presents a lease that was issued.               *)

\* The places at which a call has claimed an item and not yet forgotten it.
Claiming(c) == pc[c] \in {"claimed", "policy", "handling", "posted"}

ClaimsIssued ==
    \A c \in Calls : Claiming(c) => item[c] \in Items /\ lease[c] \in 1..sequence

\* The inductive invariant behind the types: Post, SendBeat and HandlerBeat
\* pass on what the call holds, so what it holds must be an item and a lease.
WorkerInv == SourceInv /\ TypeOK /\ ClaimsIssued

LEMMA WorkerInitTyped == Init => WorkerInv
<1> SUFFICES ASSUME Init PROVE WorkerInv
    OBVIOUS
<1>1. SourceInv
    BY InitEstablishesInv DEF Init
<1>2. TypeOK
    BY <1>1 DEF Init, TypeOK, WorkerTypeOK, SourceInv, Places, Outcomes, Beats
<1>3. ClaimsIssued
    BY DEF Init, ClaimsIssued, Claiming
<1> QED  BY <1>1, <1>2, <1>3 DEF WorkerInv

\* A lease that the source would accept was issued.
LEMMA HeldIsIssued ==
    ASSUME WorkerInv, NEW c \in Calls, Claiming(c) PROVE lease[c] \in 1..sequence /\ item[c] \in Items
BY DEF WorkerInv, ClaimsIssued

\* Posting a result finishes the item or leaves the source alone.
LEMMA PostIsSourceStep ==
    ASSUME WorkerInv, NEW c \in Calls, Claiming(c), NEW r \in ResultStatus, Post(c, r)
    PROVE  [SourceNext]_sourceVars
<1>1. lease[c] \in 1..sequence /\ item[c] \in Items
    BY HeldIsIssued
<1>2. CASE Finish(item[c], lease[c], r)
    BY <1>1, <1>2 DEF SourceNext
<1>3. CASE UNCHANGED sourceVars
    BY <1>3
<1> QED  BY <1>2, <1>3 DEF Post

LEMMA ClaimIsSourceStep ==
    ASSUME NEW i \in Items, ClaimItem(i, LeaseMs) PROVE [SourceNext]_sourceVars
<1>1. LeaseMs \in 1..LeaseMs
    BY LeaseMsAssumption
<1> QED  BY <1>1 DEF SourceNext

LEMMA BeatIsSourceStep ==
    ASSUME WorkerInv, NEW c \in Calls, Claiming(c), NEW ms \in 1..LeaseMs,
           Heartbeat(item[c], lease[c], ms)
    PROVE  [SourceNext]_sourceVars
BY HeldIsIssued DEF SourceNext

LEMMA ResultOfIsStatus ==
    ASSUME NEW o \in Outcomes, o \notin {"none", "lost_lease", "lease_error"}
    PROVE  ResultOf(o) \in ResultStatus
BY DEF Outcomes, Interrupts, ResultOf, ResultStatus

\* Every step of the workers and of their environment is, for the source, a
\* call of one of its methods, or no call.
LEMMA WorkerStepIsSourceStep ==
    WorkerInv /\ [Next]_vars => [SourceNext]_sourceVars
<1> SUFFICES ASSUME WorkerInv, [Next]_vars PROVE [SourceNext]_sourceVars
    OBVIOUS
<1>1. ASSUME NEW c \in Calls, Continue(c) PROVE [SourceNext]_sourceVars
    <2>1. CASE Claim(c)
        BY <2>1, ClaimIsSourceStep DEF Claim
    <2>2. CASE ClaimFails(c)
        BY <2>2, ClaimIsSourceStep DEF ClaimFails
    <2>3. CASE Refuse(c)
        <3>1. Claiming(c) /\ "skipped" \in ResultStatus
            BY <2>3 DEF Refuse, Claiming, ResultStatus
        <3> QED  BY <2>3, <3>1, PostIsSourceStep DEF Refuse
    <2>4. CASE AllowedTooLate(c)
        <3>1. Claiming(c) /\ "stopped" \in ResultStatus
            BY <2>4 DEF AllowedTooLate, Claiming, ResultStatus
        <3> QED  BY <2>4, <3>1, PostIsSourceStep DEF AllowedTooLate
    <2>5. CASE PostResult(c)
        <3>1. Claiming(c)
            BY <2>5 DEF PostResult, Claiming
        <3>2. ResultOf(outcome[c]) \in ResultStatus
            BY <2>5, ResultOfIsStatus DEF PostResult, WorkerInv, TypeOK, WorkerTypeOK
        <3> QED  BY <2>5, <3>1, <3>2, PostIsSourceStep DEF PostResult
    <2>6. CASE \/ SeesStop(c) \/ ClaimNothing(c) \/ TakeItem(c) \/ TakeNothing(c)
               \/ Allow(c) \/ PolicyThrows(c) \/ AbandonItem(c) \/ CountResult(c)
               \/ PostFails(c)
        BY <2>6 DEF SeesStop, ClaimNothing, TakeItem, TakeNothing, Allow, PolicyThrows,
                    AbandonItem, CountResult, PostFails
    <2> QED  BY <1>1, <2>1, <2>2, <2>3, <2>4, <2>5, <2>6 DEF Continue
<1>2. ASSUME NEW c \in Calls, Beat(c) PROVE [SourceNext]_sourceVars
    <2>1. CASE SendBeat(c)
        <3>1. Claiming(c) /\ LeaseMs \in 1..LeaseMs
            BY <2>1, LeaseMsAssumption DEF SendBeat, Claiming
        <3>2. Heartbeat(item[c], lease[c], LeaseMs) \/ UNCHANGED sourceVars
            BY <2>1 DEF SendBeat
        <3> QED  BY <3>1, <3>2, BeatIsSourceStep
    <2>2. CASE BeatAnswered(c)
        BY <2>2 DEF BeatAnswered
    <2> QED  BY <1>2, <2>1, <2>2 DEF Beat
<1>3. ASSUME NEW c \in Calls, HandlerBeat(c) PROVE [SourceNext]_sourceVars
    BY <1>3, BeatIsSourceStep DEF HandlerBeat, Claiming
<1>4. ASSUME NEW c \in Calls, NEW m \in Modes, Start(c, m) PROVE UNCHANGED sourceVars
    BY <1>4 DEF Start
<1>5. ASSUME NEW c \in Calls, PollTimer(c) \/ HandlerSettles(c) PROVE UNCHANGED sourceVars
    BY <1>5 DEF PollTimer, HandlerSettles
<1>6. ASSUME NEW w \in Workers, NEW force \in BOOLEAN, Stop(w, force)
      PROVE  [SourceNext]_sourceVars
    <2>1. CASE sourceStopped
        BY <1>6, <2>1 DEF Stop, sourceVars, WorkerInv, SourceInv, SourceTypeOK
    <2>2. CASE ~sourceStopped
        BY <1>6, <2>2 DEF Stop, StopSource, SourceNext
    <2> QED  BY <2>1, <2>2
<1>7. CASE Environment
    BY <1>7 DEF Environment, SourceNext
<1>8. CASE UNCHANGED vars
    BY <1>8 DEF vars
<1> QED
    BY <1>1, <1>2, <1>3, <1>4, <1>5, <1>6, <1>7, <1>8 DEF Next

-----------------------------------------------------------------------------
(* Types.                                                                    *)

LEMMA CountedTyped ==
    ASSUME WorkerTypeOK, NEW w \in Workers, NEW k \in Counters, Counted(w, k)
    PROVE  count' \in [Workers -> [Counters -> Nat]]
<1>1. count[w] \in [Counters -> Nat] /\ count[w][k] + 1 \in Nat
    BY DEF WorkerTypeOK
<1>2. [count[w] EXCEPT ![k] = count[w][k] + 1] \in [Counters -> Nat]
    BY <1>1
<1> QED  BY <1>1, <1>2 DEF WorkerTypeOK, Counted

LEMMA ForgetTyped ==
    ASSUME WorkerTypeOK, NEW c \in Calls, ForgetItem(c)
    PROVE  /\ inFlightWorkId' \in [Workers -> Items \cup {NoItem}]
           /\ interruptCurrent' \in [Workers -> Calls \cup {NoCall}]
           /\ item' \in [Calls -> Items \cup {NoItem}]
           /\ lease' \in [Calls -> (1..MaxClaims) \cup {NoLease}]
           /\ outcome' \in [Calls -> Outcomes]
           /\ beat' \in [Calls -> Beats]
           /\ posted' \in [Calls -> ResultStatus \cup {"none", "lost"}]
BY DEF WorkerTypeOK, ForgetItem, Outcomes, Beats

LEMMA PostTyped ==
    ASSUME WorkerTypeOK, NEW c \in Calls, NEW r \in ResultStatus, Post(c, r)
    PROVE  /\ pc' \in [Calls -> Places]
           /\ posted' \in [Calls -> ResultStatus \cup {"none", "lost"}]
BY DEF WorkerTypeOK, Post, Places

LEMMA ThrewTyped ==
    ASSUME WorkerTypeOK, NEW c \in Calls, Threw(c)
    PROVE  /\ pc' \in [Calls -> Places]
           /\ mode' \in [Calls -> Modes \cup {"one"}]
           /\ running' \in [Workers -> BOOLEAN]
           /\ state' \in [Workers -> {"idle", "handling", "stopped"}]
BY CallsAssumption DEF WorkerTypeOK, Threw, Places, RestingState

LEMMA ReturnedTyped ==
    ASSUME WorkerTypeOK, NEW c \in Calls, Returned(c)
    PROVE  /\ pc' \in [Calls -> Places]
           /\ state' \in [Workers -> {"idle", "handling", "stopped"}]
BY CallsAssumption DEF WorkerTypeOK, Returned, Places, RestingState

LEMMA LeaveLoopTyped ==
    ASSUME WorkerTypeOK, NEW c \in Calls, LeaveLoop(c)
    PROVE  /\ pc' \in [Calls -> Places]
           /\ mode' \in [Calls -> Modes \cup {"one"}]
           /\ running' \in [Workers -> BOOLEAN]
           /\ state' \in [Workers -> {"idle", "handling", "stopped"}]
BY CallsAssumption DEF WorkerTypeOK, LeaveLoop, Places, RestingState

LEMMA InterruptedTyped ==
    ASSUME WorkerTypeOK, NEW c \in Calls, NEW reason \in Interrupts, Interrupted(c, reason)
    PROVE  outcome' \in [Calls -> Outcomes]
BY DEF WorkerTypeOK, Interrupted, Outcomes

LEMMA StepKeepsWorkerType == WorkerInv /\ [Next]_vars => WorkerTypeOK'
<1> SUFFICES ASSUME WorkerInv, [Next]_vars PROVE WorkerTypeOK'
    OBVIOUS
<1> USE CallsAssumption DEF WorkerInv, TypeOK, WorkerTypeOK, Places
<1>1. ASSUME NEW c \in Calls, Continue(c) PROVE WorkerTypeOK'
    <2>1. CASE SeesStop(c)
        BY <2>1, LeaveLoopTyped DEF SeesStop
    <2>2. CASE Claim(c)
        <3>1. sequence + 1 \in 1..MaxClaims
            BY <2>2, MaxClaimsAssumption DEF Claim, ClaimItem, SourceTypeOK
        <3> QED  BY <2>2, <3>1 DEF Claim, workerVars
    <2>3. CASE ClaimFails(c)
        BY <2>3, LeaveLoopTyped DEF ClaimFails
    <2>4. CASE ClaimNothing(c)
        BY <2>4 DEF ClaimNothing, workerVars
    <2>5. CASE TakeItem(c)
        <3>1. WorkerOf[c] \in Workers /\ "claimed" \in Counters
            BY DEF Counters
        <3>2. count' \in [Workers -> [Counters -> Nat]]
            BY <2>5, <3>1, CountedTyped DEF TakeItem
        <3> QED  BY <2>5, <3>2 DEF TakeItem
    <2>6. CASE TakeNothing(c)
        <3>1. WorkerOf[c] \in Workers
            OBVIOUS
        <3>2. CASE LeaveLoop(c) /\ UNCHANGED wakePoll
            BY <2>6, <3>2, LeaveLoopTyped DEF TakeNothing
        <3>3. CASE /\ pc' = [pc EXCEPT ![c] = "poll"]
                   /\ wakePoll' = [wakePoll EXCEPT ![WorkerOf[c]] = c]
                   /\ UNCHANGED <<running, state, mode>>
            BY <2>6, <3>1, <3>3 DEF TakeNothing
        <3>4. CASE /\ pc' = [pc EXCEPT ![c] = "loop"]
                   /\ UNCHANGED <<wakePoll, running, state, mode>>
            BY <2>6, <3>4 DEF TakeNothing
        <3> QED  BY <2>6, <3>2, <3>3, <3>4 DEF TakeNothing
    <2>7. CASE Refuse(c)
        BY <2>7, PostTyped DEF Refuse, workerVars, ResultStatus
    <2>8. CASE AllowedTooLate(c)
        BY <2>8, PostTyped DEF AllowedTooLate, workerVars, ResultStatus
    <2>9. CASE Allow(c)
        BY <2>9 DEF Allow
    <2>10. CASE PolicyThrows(c)
        <3>1. WorkerOf[c] \in Workers /\ "errored" \in Counters
            BY DEF Counters
        <3> QED
            BY <2>10, <3>1, CountedTyped, ForgetTyped, ThrewTyped DEF PolicyThrows, Threw
    <2>11. CASE AbandonItem(c)
        <3>1. WorkerOf[c] \in Workers /\ "lost" \in Counters
            BY DEF Counters
        <3> QED
            BY <2>11, <3>1, CountedTyped, ForgetTyped, ReturnedTyped DEF AbandonItem, Returned
    <2>12. CASE PostResult(c)
        <3>1. ResultOf(outcome[c]) \in ResultStatus
            BY <2>12, ResultOfIsStatus DEF PostResult
        <3> QED  BY <2>12, <3>1, PostTyped DEF PostResult, workerVars, Beats
    <2>13. CASE CountResult(c)
        <3>1. WorkerOf[c] \in Workers /\ posted[c] \in Counters
            BY <2>13 DEF CountResult, Counters
        <3> QED
            BY <2>13, <3>1, CountedTyped, ForgetTyped, ReturnedTyped DEF CountResult, Returned
    <2>14. CASE PostFails(c)
        <3>1. WorkerOf[c] \in Workers /\ "errored" \in Counters
            BY DEF Counters
        <3> QED
            BY <2>14, <3>1, CountedTyped, ForgetTyped, ThrewTyped DEF PostFails, Threw
    <2> QED
        BY <1>1, <2>1, <2>2, <2>3, <2>4, <2>5, <2>6, <2>7, <2>8, <2>9, <2>10, <2>11, <2>12,
           <2>13, <2>14 DEF Continue
<1>2. ASSUME NEW c \in Calls, SendBeat(c) PROVE WorkerTypeOK'
    BY <1>2 DEF SendBeat, Interrupted, Outcomes, Interrupts, Beats, workerVars
<1>3. ASSUME NEW c \in Calls, BeatAnswered(c) PROVE WorkerTypeOK'
    <2>1. outcome' \in [Calls -> Outcomes]
        BY <1>3, InterruptedTyped DEF BeatAnswered, Interrupts
    <2>2. beat' \in [Calls -> Beats]
        BY <1>3 DEF BeatAnswered, Beats
    <2> QED  BY <1>3, <2>1, <2>2 DEF BeatAnswered, workerVars
<1>4. ASSUME NEW c \in Calls, HandlerBeat(c) PROVE WorkerTypeOK'
    BY <1>4 DEF HandlerBeat, workerVars, callVars
<1>5. ASSUME NEW c \in Calls, HandlerSettles(c) PROVE WorkerTypeOK'
    BY <1>5 DEF HandlerSettles, workerVars, Outcomes
<1>6. ASSUME NEW c \in Calls, NEW m \in Modes, Start(c, m) PROVE WorkerTypeOK'
    BY <1>6 DEF Start
<1>7. ASSUME NEW c \in Calls, PollTimer(c) PROVE WorkerTypeOK'
    BY <1>7 DEF PollTimer
<1>8. ASSUME NEW w \in Workers, NEW force \in BOOLEAN, Stop(w, force) PROVE WorkerTypeOK'
    <2>1. outcome' \in [Calls -> Outcomes]
        <3>1. interruptCurrent[w] # NoCall => interruptCurrent[w] \in Calls
            OBVIOUS
        <3> QED  BY <1>8, <3>1, InterruptedTyped DEF Stop, Interrupts
    <2>2. pc' \in [Calls -> Places]
        BY <1>8 DEF Stop
    <2>3. /\ stopped' \in [Workers -> BOOLEAN]
          /\ forceStopped' \in [Workers -> BOOLEAN]
          /\ wakePoll' \in [Workers -> Calls \cup {NoCall}]
        BY <1>8 DEF Stop
    <2> QED  BY <1>8, <2>1, <2>2, <2>3 DEF Stop
<1>9. CASE Environment \/ UNCHANGED vars
    BY <1>9 DEF Environment, vars, workerVars, callVars
<1> QED
    BY <1>1, <1>2, <1>3, <1>4, <1>5, <1>6, <1>7, <1>8, <1>9 DEF Next, Beat

\* The source never takes a lease number back.
LEMMA SequenceGrows == SourceInv /\ [SourceNext]_sourceVars => 1..sequence \subseteq 1..sequence'
<1> SUFFICES ASSUME SourceInv, [SourceNext]_sourceVars PROVE 1..sequence \subseteq 1..sequence'
    OBVIOUS
<1>1. sequence \in Nat
    BY MaxClaimsAssumption DEF SourceInv, SourceTypeOK
<1>2. sequence' = sequence \/ sequence' = sequence + 1
    BY DEF SourceNext, sourceVars, Enqueue, RequestStop, ClaimItem, Heartbeat, Finish, Stats,
           StopSource, Tick
<1> QED  BY <1>1, <1>2

LEMMA StepKeepsClaims == WorkerInv /\ [Next]_vars => ClaimsIssued'
<1> SUFFICES ASSUME WorkerInv, [Next]_vars PROVE ClaimsIssued'
    OBVIOUS
<1> USE DEF WorkerInv, TypeOK, WorkerTypeOK, ClaimsIssued, Claiming
<1>1. 1..sequence \subseteq 1..sequence'
    BY SequenceGrows, WorkerStepIsSourceStep
<1>2. ASSUME NEW c \in Calls, Claim(c) PROVE ClaimsIssued'
    <2>1. sequence' = sequence + 1 /\ sequence \in Nat
        BY <1>2, MaxClaimsAssumption DEF Claim, ClaimItem, SourceTypeOK
    <2> QED  BY <1>2, <2>1, <1>1 DEF Claim
<1>3. ASSUME NEW c \in Calls,
             \/ SeesStop(c) \/ ClaimFails(c) \/ ClaimNothing(c) \/ TakeItem(c)
             \/ TakeNothing(c) \/ Allow(c) \/ PollTimer(c)
             \/ \E m \in Modes : Start(c, m)
      PROVE  ClaimsIssued'
    BY <1>1, <1>3 DEF SeesStop, ClaimFails, ClaimNothing, TakeItem, TakeNothing, Allow,
                      PollTimer, Start, LeaveLoop
<1>4. ASSUME NEW c \in Calls, Refuse(c) \/ AllowedTooLate(c) \/ PostResult(c)
      PROVE  ClaimsIssued'
    BY <1>1, <1>4 DEF Refuse, AllowedTooLate, PostResult, Post
<1>5. ASSUME NEW c \in Calls, PolicyThrows(c) \/ PostFails(c) PROVE ClaimsIssued'
    BY <1>1, <1>5 DEF PolicyThrows, PostFails, Threw, ForgetItem
<1>6. ASSUME NEW c \in Calls, AbandonItem(c) \/ CountResult(c) PROVE ClaimsIssued'
    BY <1>1, <1>6 DEF AbandonItem, CountResult, Returned, ForgetItem
<1>7. ASSUME NEW c \in Calls, Beat(c) \/ HandlerBeat(c) \/ HandlerSettles(c)
      PROVE  ClaimsIssued'
    BY <1>1, <1>7 DEF Beat, SendBeat, BeatAnswered, HandlerBeat, HandlerSettles, callVars
<1>8. ASSUME NEW w \in Workers, NEW force \in BOOLEAN, Stop(w, force) PROVE ClaimsIssued'
    BY <1>1, <1>8 DEF Stop
<1>9. CASE Environment \/ UNCHANGED vars
    BY <1>1, <1>9 DEF Environment, vars, callVars
<1> QED
    BY <1>2, <1>3, <1>4, <1>5, <1>6, <1>7, <1>8, <1>9 DEF Next, Continue, Beat

LEMMA WorkerInvInductive == Spec => []WorkerInv
<1>1. WorkerInv /\ [Next]_vars => WorkerInv'
    <2> SUFFICES ASSUME WorkerInv, [Next]_vars PROVE WorkerInv'
        OBVIOUS
    <2>1. SourceInv'
        BY WorkerStepIsSourceStep, StepKeepsType, StepKeepsNames DEF WorkerInv, SourceInv
    <2>2. WorkerTypeOK' /\ ClaimsIssued'
        BY StepKeepsWorkerType, StepKeepsClaims
    <2> QED  BY <2>1, <2>2 DEF WorkerInv, TypeOK, SourceInv
<1> QED  BY <1>1, WorkerInitTyped, PTL DEF Spec

\* The workers' fields always hold what their types say: no interrupt's reason is
\* ever posted as a result, for instance.
THEOREM WorkersAreTyped == Spec => []TypeOK
<1>1. WorkerInv => TypeOK
    BY DEF WorkerInv
<1> QED  BY <1>1, WorkerInvInductive, PTL

-----------------------------------------------------------------------------
(* The workers drive the source as its specification allows.                 *)

\* However many activations overlap on however many workers, with lost answers
\* of a remote source or without, the source sees a behaviour of SourceSpec.
THEOREM WorkersUseTheSource == Spec => SourceSpec
<1>1. Init => SourceInit
    BY DEF Init
<1>2. [Next]_vars /\ WorkerInv => [SourceNext]_sourceVars
    BY WorkerStepIsSourceStep
<1> QED  BY <1>1, <1>2, WorkerInvInductive, PTL DEF Spec, SourceSpec

\* So what the source promises holds in every system of workers.
THEOREM WorkersKeepPromise == Spec => KeepsPromise /\ []LeasesConserved
BY WorkersUseTheSource, SourceKeepsPromise, LeasesAreConserved, PTL

-----------------------------------------------------------------------------
(* Workers that run one activation at a time.  interruptCurrent and wakePoll *)
(* then belong to it, which is what makes stop() reach it.                   *)

InterruptAimed ==
    \A c \in Calls : pc[c] = "handling" => interruptCurrent[WorkerOf[c]] = c

WakeAimed ==
    /\ \A c \in Calls : pc[c] = "poll" => wakePoll[WorkerOf[c]] = c
    /\ \A w \in Workers : wakePoll[w] # NoCall =>
           pc[wakePoll[w]] = "poll" /\ WorkerOf[wakePoll[w]] = w

ForcedStopInv == WorkerTypeOK /\ InterruptAimed /\ ForcedStopReachesHandler

LEMMA StepForcedStop ==
    ASSUME SerialWorkers, ForcedStopInv, [Next]_vars
    PROVE  InterruptAimed' /\ ForcedStopReachesHandler'
<1> USE CallsAssumption DEF SerialWorkers, ForcedStopInv, InterruptAimed,
        ForcedStopReachesHandler, WorkerTypeOK
<1>1. ASSUME NEW c \in Calls,
             \/ SeesStop(c) \/ ClaimFails(c) \/ Claim(c) \/ ClaimNothing(c) \/ TakeItem(c)
             \/ TakeNothing(c) \/ PollTimer(c) \/ \E m \in Modes : Start(c, m)
      PROVE  InterruptAimed' /\ ForcedStopReachesHandler'
    BY <1>1 DEF SeesStop, ClaimFails, Claim, ClaimNothing, TakeItem, TakeNothing, PollTimer,
                Start, LeaveLoop, workerVars
<1>2. ASSUME NEW c \in Calls, Refuse(c) \/ AllowedTooLate(c) \/ PostResult(c)
      PROVE  InterruptAimed' /\ ForcedStopReachesHandler'
    BY <1>2 DEF Refuse, AllowedTooLate, PostResult, Post, workerVars
<1>3. ASSUME NEW c \in Calls, Allow(c)
      PROVE  InterruptAimed' /\ ForcedStopReachesHandler'
    BY <1>3 DEF Allow
<1>4. ASSUME NEW c \in Calls, PolicyThrows(c) \/ PostFails(c)
      PROVE  InterruptAimed' /\ ForcedStopReachesHandler'
    <2>1. /\ pc'[c] # "handling" /\ UNCHANGED forceStopped
          /\ \A d \in Calls : d # c => /\ pc'[d] = pc[d] /\ outcome'[d] = outcome[d]
                                       /\ interruptCurrent'[WorkerOf[d]] = interruptCurrent[WorkerOf[d]]
        BY <1>4 DEF PolicyThrows, PostFails, Threw, ForgetItem
    <2> QED  BY <2>1
<1>5. ASSUME NEW c \in Calls, AbandonItem(c) \/ CountResult(c)
      PROVE  InterruptAimed' /\ ForcedStopReachesHandler'
    <2>1. /\ pc'[c] # "handling" /\ UNCHANGED forceStopped
          /\ \A d \in Calls : d # c => /\ pc'[d] = pc[d] /\ outcome'[d] = outcome[d]
                                       /\ interruptCurrent'[WorkerOf[d]] = interruptCurrent[WorkerOf[d]]
        BY <1>5 DEF AbandonItem, CountResult, Returned, ForgetItem
    <2> QED  BY <2>1
<1>6. ASSUME NEW c \in Calls, Beat(c)
      PROVE  InterruptAimed' /\ ForcedStopReachesHandler'
    BY <1>6 DEF Beat, SendBeat, BeatAnswered, Interrupted, workerVars
<1>7. ASSUME NEW c \in Calls, HandlerBeat(c) \/ HandlerSettles(c)
      PROVE  InterruptAimed' /\ ForcedStopReachesHandler'
    BY <1>7 DEF HandlerBeat, HandlerSettles, callVars, workerVars, ResultStatus
<1>8. ASSUME NEW w \in Workers, NEW force \in BOOLEAN, Stop(w, force)
      PROVE  InterruptAimed' /\ ForcedStopReachesHandler'
    <2>1. InterruptAimed'
        BY <1>8 DEF Stop
    <2>2. ASSUME NEW c \in Calls, pc'[c] = "handling", forceStopped'[WorkerOf[c]]
          PROVE  outcome'[c] # "none"
        <3>1. pc[c] = "handling" /\ interruptCurrent[WorkerOf[c]] = c
            BY <1>8, <2>2 DEF Stop
        <3>2. CASE WorkerOf[c] = w /\ force
            <4>1. Interrupted(c, "forced_stop")
                BY <1>8, <3>1, <3>2 DEF Stop
            <4> QED  BY <4>1 DEF Interrupted
        <3>3. CASE ~(WorkerOf[c] = w /\ force)
            <4>1. forceStopped[WorkerOf[c]]
                BY <1>8, <2>2, <3>3 DEF Stop
            <4>2. outcome[c] # "none"
                BY <3>1, <4>1
            <4> QED  BY <1>8, <4>2 DEF Stop, Interrupted
        <3> QED  BY <3>2, <3>3
    <2> QED  BY <2>1, <2>2
<1>9. CASE Environment \/ UNCHANGED vars
    BY <1>9 DEF Environment, vars, callVars, workerVars
<1> QED
    BY <1>1, <1>2, <1>3, <1>4, <1>5, <1>6, <1>7, <1>8, <1>9 DEF Next, Continue

\* stop({force: true}) interrupts the handler of a serial worker wherever the stop
\* falls between the claim and the handler's end.
THEOREM ForcedStopNotMissed ==
    ASSUME SerialWorkers PROVE Spec => []ForcedStopReachesHandler
<1>1. Init => InterruptAimed /\ ForcedStopReachesHandler
    BY DEF Init, InterruptAimed, ForcedStopReachesHandler
<1>2. WorkerTypeOK /\ InterruptAimed /\ ForcedStopReachesHandler /\ [Next]_vars
        => (InterruptAimed /\ ForcedStopReachesHandler)'
    BY StepForcedStop DEF ForcedStopInv
<1>3. WorkerInv => WorkerTypeOK
    BY DEF WorkerInv, TypeOK
<1> QED  BY <1>1, <1>2, <1>3, WorkerInvInductive, PTL DEF Spec

LEMMA StepWake ==
    ASSUME SerialWorkers, WorkerTypeOK, WakeAimed, NoSleepAfterStop, [Next]_vars
    PROVE  WakeAimed' /\ NoSleepAfterStop'
<1> USE CallsAssumption DEF SerialWorkers, WakeAimed, NoSleepAfterStop, WorkerTypeOK
<1>1. ASSUME NEW c \in Calls,
             \/ SeesStop(c) \/ ClaimFails(c) \/ Claim(c) \/ ClaimNothing(c) \/ TakeItem(c)
             \/ \E m \in Modes : Start(c, m)
      PROVE  WakeAimed' /\ NoSleepAfterStop'
    BY <1>1 DEF SeesStop, ClaimFails, Claim, ClaimNothing, TakeItem, Start, LeaveLoop, workerVars
<1>2. ASSUME NEW c \in Calls, TakeNothing(c) PROVE WakeAimed' /\ NoSleepAfterStop'
    <2>1. CASE pc' = [pc EXCEPT ![c] = "poll"] /\ wakePoll' = [wakePoll EXCEPT ![WorkerOf[c]] = c]
        <3>1. ~stopped[WorkerOf[c]] /\ UNCHANGED stopped /\ pc[c] = "empty"
            BY <1>2, <2>1 DEF TakeNothing, LeaveLoop
        <3>2. c # NoCall
            OBVIOUS
        <3> QED  BY <2>1, <3>1, <3>2
    <2>2. CASE UNCHANGED wakePoll
        BY <1>2, <2>2 DEF TakeNothing, LeaveLoop
    <2> QED  BY <1>2, <2>1, <2>2 DEF TakeNothing
<1>3. ASSUME NEW c \in Calls, PollTimer(c) PROVE WakeAimed' /\ NoSleepAfterStop'
    BY <1>3 DEF PollTimer
<1>4. ASSUME NEW c \in Calls, Refuse(c) \/ AllowedTooLate(c) \/ PostResult(c) \/ Allow(c)
      PROVE  WakeAimed' /\ NoSleepAfterStop'
    BY <1>4 DEF Refuse, AllowedTooLate, PostResult, Allow, Post, workerVars
<1>5. ASSUME NEW c \in Calls, PolicyThrows(c) \/ PostFails(c)
      PROVE  WakeAimed' /\ NoSleepAfterStop'
    BY <1>5 DEF PolicyThrows, PostFails, Threw
<1>6. ASSUME NEW c \in Calls, AbandonItem(c) \/ CountResult(c)
      PROVE  WakeAimed' /\ NoSleepAfterStop'
    BY <1>6 DEF AbandonItem, CountResult, Returned
<1>7. ASSUME NEW c \in Calls, Beat(c) \/ HandlerBeat(c) \/ HandlerSettles(c)
      PROVE  WakeAimed' /\ NoSleepAfterStop'
    BY <1>7 DEF Beat, SendBeat, BeatAnswered, HandlerBeat, HandlerSettles, callVars, workerVars
<1>8. ASSUME NEW w \in Workers, NEW force \in BOOLEAN, Stop(w, force)
      PROVE  WakeAimed' /\ NoSleepAfterStop'
    BY <1>8 DEF Stop
<1>9. CASE Environment \/ UNCHANGED vars
    BY <1>9 DEF Environment, vars, callVars, workerVars
<1>10. ASSUME NEW c \in Calls, Continue(c) PROVE WakeAimed' /\ NoSleepAfterStop'
    BY <1>1, <1>2, <1>4, <1>5, <1>6, <1>10 DEF Continue
<1> HIDE DEF WakeAimed, NoSleepAfterStop, WorkerTypeOK
<1> QED
    BY <1>1, <1>3, <1>7, <1>8, <1>9, <1>10 DEF Next

LEMMA WakeInductive == ASSUME SerialWorkers PROVE Spec => [](WakeAimed /\ NoSleepAfterStop)
<1>1. Init => WakeAimed /\ NoSleepAfterStop
    BY DEF Init, WakeAimed, NoSleepAfterStop
<1>2. WorkerTypeOK /\ WakeAimed /\ NoSleepAfterStop /\ [Next]_vars
        => (WakeAimed /\ NoSleepAfterStop)'
    BY StepWake
<1>3. WorkerInv => WorkerTypeOK
    BY DEF WorkerInv, TypeOK
<1> QED  BY <1>1, <1>2, <1>3, WorkerInvInductive, PTL DEF Spec

\* A serial worker that was stopped never sleeps on its poll timer, whenever the
\* stop fell: before the sleep, or during it.
THEOREM StopNotMissed == ASSUME SerialWorkers PROVE Spec => []NoSleepAfterStop
BY WakeInductive, PTL

-----------------------------------------------------------------------------
(* status() of a serial worker.  Each step changes the fields of one worker  *)
(* and the place of its only call, so it is enough to look at that worker.   *)

Truthful(c) ==
    LET w == WorkerOf[c] IN
    /\ inFlightWorkId[w] = IF Busy(c) THEN item[c] ELSE NoItem
    /\ state[w] = "handling" <=> Busy(c)
    /\ running[w] <=> pc[c] # "ready" /\ mode[c] # "one"

\* The fields of the status of call d's worker do not change.
Untouched(d) ==
    LET w == WorkerOf[d] IN
    /\ pc'[d] = pc[d] /\ mode'[d] = mode[d] /\ item'[d] = item[d]
    /\ inFlightWorkId'[w] = inFlightWorkId[w]
    /\ state'[w] = state[w] /\ running'[w] = running[w]

LEMMA UntouchedStaysTruthful ==
    ASSUME NEW c \in Calls, Truthful(c), Untouched(c) PROVE Truthful(c)'
BY DEF Truthful, Untouched, Busy

\* Of every step: what it leaves alone stays truthful, so the step's own call matters.
LEMMA OwnCallDecides ==
    ASSUME NEW c \in Calls, \A d \in Calls : Truthful(d), Truthful(c)',
           \A d \in Calls \ {c} : Untouched(d)
    PROVE  \A d \in Calls : Truthful(d)'
BY UntouchedStaysTruthful

LEMMA StepTruthful ==
    ASSUME SerialWorkers, WorkerTypeOK, WakeAimed, \A d \in Calls : Truthful(d), [Next]_vars
    PROVE  \A d \in Calls : Truthful(d)'
<1> USE CallsAssumption DEF WorkerTypeOK
<1>a. \A c, d \in Calls : c # d => WorkerOf[c] # WorkerOf[d]
    BY DEF SerialWorkers
<1>1. ASSUME NEW c \in Calls, NEW m \in Modes, Start(c, m)
      PROVE  \A d \in Calls : Truthful(d)'
    <2>1. \A d \in Calls \ {c} : Untouched(d)
        BY <1>a, <1>1 DEF Start, Untouched
    <2>2. Truthful(c)'
        <3>1. /\ pc[c] = "ready" /\ pc'[c] = "loop" /\ mode'[c] = m
              /\ UNCHANGED <<inFlightWorkId, item>>
            BY <1>1 DEF Start
        <3>2. state'[WorkerOf[c]] = IF m = "one" THEN state[WorkerOf[c]] ELSE "idle"
            BY <1>1 DEF Start
        <3>3. running'[WorkerOf[c]] <=> running[WorkerOf[c]] \/ m # "one"
            BY <1>1 DEF Start
        <3>4. Truthful(c)
            OBVIOUS
        <3> QED  BY <3>1, <3>2, <3>3, <3>4 DEF Truthful, Busy
    <2> QED  BY <2>1, <2>2, OwnCallDecides
<1>2. ASSUME NEW c \in Calls, SeesStop(c) \/ ClaimFails(c) \/ TakeNothing(c)
      PROVE  \A d \in Calls : Truthful(d)'
    <2>1. \A d \in Calls \ {c} : Untouched(d)
        BY <1>a, <1>2 DEF SeesStop, ClaimFails, TakeNothing, LeaveLoop, Untouched
    <2>2. Truthful(c)'
        <3>1. CASE LeaveLoop(c) /\ UNCHANGED <<inFlightWorkId, item>>
            <4>1. pc[c] \in {"loop", "empty"}
                BY <1>2 DEF SeesStop, ClaimFails, TakeNothing
            <4>2. pc'[c] = "ready"
                BY <3>1 DEF LeaveLoop
            <4>3. running'[WorkerOf[c]] <=> running[WorkerOf[c]] /\ mode[c] = "one"
                BY <3>1 DEF LeaveLoop
            <4>4. state'[WorkerOf[c]] \in {"stopped", "idle", state[WorkerOf[c]]}
                BY <3>1 DEF LeaveLoop, RestingState
            <4>5. Truthful(c)
                OBVIOUS
            <4> QED  BY <3>1, <4>1, <4>2, <4>3, <4>4, <4>5 DEF Truthful, Busy
        <3>2. CASE UNCHANGED <<running, state, mode, inFlightWorkId, item>>
                   /\ pc[c] = "empty" /\ pc'[c] \in {"poll", "loop"}
            <4>1. Truthful(c)
                OBVIOUS
            <4> QED  BY <3>2, <4>1 DEF Truthful, Busy
        <3>3. TakeNothing(c) /\ ~LeaveLoop(c)
                => /\ UNCHANGED <<running, state, mode, inFlightWorkId, item>>
                   /\ pc[c] = "empty" /\ pc'[c] \in {"poll", "loop"}
            BY DEF TakeNothing
        <3> QED  BY <1>2, <3>1, <3>2, <3>3 DEF SeesStop, ClaimFails, TakeNothing
    <2> QED  BY <2>1, <2>2, OwnCallDecides
<1>3. ASSUME NEW c \in Calls, Claim(c) \/ ClaimNothing(c) \/ TakeItem(c)
      PROVE  \A d \in Calls : Truthful(d)'
    <2>1. \A d \in Calls \ {c} : Untouched(d)
        BY <1>a, <1>3 DEF Claim, ClaimNothing, TakeItem, Untouched, workerVars
    <2>2. Truthful(c)'
        BY <1>3 DEF Claim, ClaimNothing, TakeItem, Truthful, Busy, workerVars
    <2> QED  BY <2>1, <2>2, OwnCallDecides
<1>4. ASSUME NEW c \in Calls, Refuse(c) \/ AllowedTooLate(c) \/ PostResult(c) \/ Allow(c)
      PROVE  \A d \in Calls : Truthful(d)'
    <2>1. \A d \in Calls \ {c} : Untouched(d)
        BY <1>a, <1>4 DEF Refuse, AllowedTooLate, PostResult, Allow, Post, Untouched, workerVars
    <2>2. Truthful(c)'
        BY <1>4 DEF Refuse, AllowedTooLate, PostResult, Allow, Post, Truthful, Busy, workerVars
    <2> QED  BY <2>1, <2>2, OwnCallDecides
<1>5. ASSUME NEW c \in Calls, PolicyThrows(c) \/ PostFails(c)
      PROVE  \A d \in Calls : Truthful(d)'
    <2>1. Threw(c) /\ Busy(c)
        BY <1>5 DEF PolicyThrows, PostFails, Busy
    <2>2. \A d \in Calls \ {c} : Untouched(d)
        BY <1>a, <2>1 DEF Threw, ForgetItem, Untouched
    <2>3. /\ pc'[c] = "ready" /\ inFlightWorkId'[WorkerOf[c]] = NoItem
          /\ running'[WorkerOf[c]] = (running[WorkerOf[c]] /\ mode[c] = "one")
          /\ state'[WorkerOf[c]] # "handling"
        BY <2>1 DEF Threw, ForgetItem, RestingState
    <2>4. Truthful(c)'
        BY <2>1, <2>3 DEF Truthful, Busy
    <2> QED  BY <2>2, <2>4, OwnCallDecides
<1>6. ASSUME NEW c \in Calls, AbandonItem(c) \/ CountResult(c)
      PROVE  \A d \in Calls : Truthful(d)'
    <2>1. Returned(c) /\ Busy(c)
        BY <1>6 DEF AbandonItem, CountResult, Busy
    <2>2. \A d \in Calls \ {c} : Untouched(d)
        BY <1>a, <2>1 DEF Returned, ForgetItem, Untouched
    <2>3. /\ pc'[c] = IF mode[c] = "one" THEN "ready" ELSE "loop"
          /\ inFlightWorkId'[WorkerOf[c]] = NoItem
          /\ state'[WorkerOf[c]] # "handling"
          /\ UNCHANGED <<running, mode>>
        BY <2>1 DEF Returned, ForgetItem, RestingState
    <2>4. Truthful(c)'
        BY <2>1, <2>3 DEF Truthful, Busy
    <2> QED  BY <2>2, <2>4, OwnCallDecides
<1>7. ASSUME NEW c \in Calls, Beat(c) \/ HandlerBeat(c) \/ HandlerSettles(c)
      PROVE  \A d \in Calls : Truthful(d)'
    <2>1. \A d \in Calls : Untouched(d)
        BY <1>7 DEF Beat, SendBeat, BeatAnswered, HandlerBeat, HandlerSettles, Untouched,
                    callVars, workerVars
    <2> QED  BY <2>1, UntouchedStaysTruthful
<1>8. ASSUME NEW c \in Calls, PollTimer(c) PROVE \A d \in Calls : Truthful(d)'
    <2>1. \A d \in Calls \ {c} : Untouched(d)
        BY <1>8 DEF PollTimer, Untouched
    <2>2. Truthful(c)'
        BY <1>8 DEF PollTimer, Truthful, Busy
    <2> QED  BY <2>1, <2>2, OwnCallDecides
<1>9. ASSUME NEW w \in Workers, NEW force \in BOOLEAN, Stop(w, force)
      PROVE  \A d \in Calls : Truthful(d)'
    <2>1. CASE wakePoll[w] = NoCall
        <3>1. \A d \in Calls : Untouched(d)
            BY <1>9, <2>1 DEF Stop, Untouched
        <3> QED  BY <3>1, UntouchedStaysTruthful
    <2>2. CASE wakePoll[w] # NoCall
        <3>1. wakePoll[w] \in Calls /\ pc[wakePoll[w]] = "poll"
            BY <2>2 DEF WakeAimed
        <3>2. \A d \in Calls \ {wakePoll[w]} : Untouched(d)
            BY <1>9, <2>2 DEF Stop, Untouched
        <3>3. Truthful(wakePoll[w])
            BY <3>1
        <3>4. /\ pc'[wakePoll[w]] = "loop"
              /\ UNCHANGED <<inFlightWorkId, state, running, mode, item>>
            BY <1>9, <2>2, <3>1 DEF Stop
        <3> DEFINE d == wakePoll[w]
        <3>5. pc[d] = "poll" /\ pc'[d] = "loop" /\ d \in Calls /\ Truthful(d)
            BY <3>1, <3>3, <3>4
        <3> HIDE DEF d
        <3>6. (\A e \in {d} : Truthful(e)')
            BY <3>4, <3>5 DEF Truthful, Busy
        <3>7. \A e \in Calls \ {d} : Truthful(e)'
            BY <3>2, UntouchedStaysTruthful DEF d
        <3> QED  BY <3>6, <3>7
    <2> QED  BY <2>1, <2>2
<1>10. CASE Environment \/ UNCHANGED vars
    <2>1. \A d \in Calls : Untouched(d)
        BY <1>10 DEF Environment, vars, callVars, workerVars, Untouched
    <2> QED  BY <2>1, UntouchedStaysTruthful
<1>11. ASSUME NEW c \in Calls, Continue(c) PROVE \A d \in Calls : Truthful(d)'
    BY <1>2, <1>3, <1>4, <1>5, <1>6, <1>11 DEF Continue
<1> QED
    BY <1>1, <1>7, <1>8, <1>9, <1>10, <1>11 DEF Next

\* A serial worker's status() always names the item in flight, says "handling"
\* exactly while there is one, and `running` exactly during run() and drain().
THEOREM StatusIsTruthful == ASSUME SerialWorkers PROVE Spec => []StatusTruthful
<1>1. Init => \A d \in Calls : Truthful(d)
    BY CallsAssumption DEF Init, Truthful, Busy
<1>2. /\ WorkerTypeOK /\ WakeAimed /\ (\A d \in Calls : Truthful(d)) /\ [Next]_vars
      => (\A d \in Calls : Truthful(d))'
    BY StepTruthful
<1>3. WorkerInv => WorkerTypeOK
    BY DEF WorkerInv, TypeOK
<1>4. (\A d \in Calls : Truthful(d)) => StatusTruthful
    BY DEF StatusTruthful, Truthful
<1> QED
    BY <1>1, <1>2, <1>3, <1>4, WakeInductive, WorkerInvInductive, PTL DEF Spec

-----------------------------------------------------------------------------
(* The accounts of status(), also of workers whose activations overlap and   *)
(* of remote sources.                                                        *)

BusyCalls(w) == {c \in CallsOf(w) : Busy(c)}

\* The inductive invariant: stop() wakes only a call that sleeps, and what the
\* source will report is known only while the call waits for it.
WakesSleeper ==
    \A w \in Workers : wakePoll[w] # NoCall =>
        pc[wakePoll[w]] = "poll" /\ WorkerOf[wakePoll[w]] = w

PostedWhileWaiting == \A c \in Calls : pc[c] # "posted" => posted[c] = "none"

CreditsFinite == \A r \in ResultStatus : IsFiniteSet(Credits(r))

AccountInv == WakesSleeper /\ PostedWhileWaiting /\ CreditsFinite /\ AccountsHold

LEMMA AccountsAreNaturals ==
    ASSUME CreditsFinite
    PROVE  /\ \A w \in Workers : IsFiniteSet(BusyCalls(w)) /\ Cardinality(BusyCalls(w)) \in Nat
           /\ \A r \in ResultStatus :
                 /\ Cardinality(Credits(r)) \in Nat
                 /\ IsFiniteSet(Accepted(r)) /\ Cardinality(Accepted(r)) \in Nat
                 /\ IsFiniteSet(HeldResults(r)) /\ Cardinality(HeldResults(r)) \in Nat
<1>1. \A w \in Workers : BusyCalls(w) \in SUBSET Calls
    BY DEF BusyCalls, CallsOf
<1>2. \A r \in ResultStatus : Accepted(r) \in SUBSET Calls /\ HeldResults(r) \in SUBSET Items
    BY DEF Accepted, HeldResults
<1>3. \A w \in Workers : IsFiniteSet(BusyCalls(w))
    BY <1>1, CallsAssumption, FS_Subset
<1>4. \A r \in ResultStatus : IsFiniteSet(Accepted(r)) /\ IsFiniteSet(HeldResults(r))
    BY <1>2, CallsAssumption, ItemsAssumption, FS_Subset
<1> QED  BY <1>3, <1>4, FS_CardinalityType DEF CreditsFinite

\* Counting a k gives one more credit for it, and none for anything else.
LEMMA CountedCredits ==
    ASSUME WorkerTypeOK, CreditsFinite, NEW w \in Workers, NEW k \in Counters, Counted(w, k)
    PROVE  /\ CreditsFinite'
           /\ \A r \in ResultStatus :
                 Cardinality(Credits(r))' = Cardinality(Credits(r)) + (IF r = k THEN 1 ELSE 0)
           /\ \A v \in Workers, j \in Counters :
                 count'[v][j] = IF v = w /\ j = k THEN count[v][j] + 1 ELSE count[v][j]
<1>1. \A v \in Workers, j \in Counters :
          /\ count[v][j] \in Nat
          /\ count'[v][j] = IF v = w /\ j = k THEN count[v][j] + 1 ELSE count[v][j]
    BY DEF WorkerTypeOK, Counted
<1>2. \A r \in ResultStatus : r \in Counters
    BY DEF Counters
<1>3. ASSUME NEW r \in ResultStatus, r # k PROVE Credits(r)' = Credits(r)
    <2>1. \A v \in Workers : count'[v][r] = count[v][r]
        BY <1>1, <1>2, <1>3
    <2> QED  BY <2>1 DEF Credits
<1>4. ASSUME k \in ResultStatus
      PROVE  /\ Credits(k)' = Credits(k) \cup {<<w, count[w][k] + 1>>}
             /\ <<w, count[w][k] + 1>> \notin Credits(k)
    <2>1. \A x : x \in Credits(k) <=> \E v \in Workers : \E n \in 1..count[v][k] : x = <<v, n>>
        BY DEF Credits
    <2>2. \A x : x \in Credits(k)' <=> \E v \in Workers : \E n \in 1..count'[v][k] : x = <<v, n>>
        BY DEF Credits
    <2>3. \A v \in Workers : v # w => count'[v][k] = count[v][k]
        BY <1>1
    <2>4. count'[w][k] = count[w][k] + 1 /\ count[w][k] \in Nat
        BY <1>1
    <2>5. 1..(count[w][k] + 1) = (1..count[w][k]) \cup {count[w][k] + 1}
        BY <2>4
    <2>6. count[w][k] + 1 \notin 1..count[w][k]
        BY <2>4
    <2>7. <<w, count[w][k] + 1>> \notin Credits(k)
        BY <2>1, <2>6
    <2>8. ASSUME NEW x PROVE x \in Credits(k)' <=> x \in Credits(k) \cup {<<w, count[w][k] + 1>>}
        <3>1. ASSUME x \in Credits(k)' PROVE x \in Credits(k) \cup {<<w, count[w][k] + 1>>}
            <4>1. PICK v \in Workers : \E n \in 1..count'[v][k] : x = <<v, n>>
                BY <2>2, <3>1
            <4>n. PICK n \in 1..count'[v][k] : x = <<v, n>>
                BY <4>1
            <4>2. CASE v = w
                BY <2>1, <2>4, <2>5, <4>n, <4>2
            <4>3. CASE v # w
                BY <2>1, <2>3, <4>1, <4>3
            <4> QED  BY <4>2, <4>3
        <3>2. ASSUME x \in Credits(k) PROVE x \in Credits(k)'
            <4>1. PICK v \in Workers : \E n \in 1..count[v][k] : x = <<v, n>>
                BY <2>1, <3>2
            <4>2. PICK n \in 1..count[v][k] : x = <<v, n>>
                BY <4>1
            <4>3. n \in 1..count'[v][k]
                BY <2>3, <2>4, <2>5
            <4> QED  BY <2>2, <4>2, <4>3
        <3>3. <<w, count[w][k] + 1>> \in Credits(k)'
            <4>1. count[w][k] + 1 \in 1..count'[w][k]
                BY <2>4
            <4> QED  BY <2>2, <4>1
        <3> QED  BY <3>1, <3>2, <3>3
    <2> QED  BY <2>7, <2>8
<1>5. ASSUME NEW r \in ResultStatus
      PROVE  /\ IsFiniteSet(Credits(r)')
             /\ Cardinality(Credits(r)') = Cardinality(Credits(r)) + (IF r = k THEN 1 ELSE 0)
    <2>1. IsFiniteSet(Credits(r)) /\ Cardinality(Credits(r)) \in Nat
        BY FS_CardinalityType DEF CreditsFinite
    <2>2. CASE r = k
        BY <1>4, <2>1, <2>2, FS_AddElement
    <2>3. CASE r # k
        BY <1>3, <2>1, <2>3
    <2> QED  BY <2>2, <2>3
<1> QED  BY <1>1, <1>5 DEF CreditsFinite

\* A step that counts nothing, and begins, posts and ends nothing.
LEMMA UncountedStep ==
    ASSUME CreditsFinite, PostedWhileWaiting, AccountsHold, UNCHANGED count,
           \A r \in ResultStatus : HeldResults(r)' = HeldResults(r),
           \A c \in Calls : /\ Busy(c)' <=> Busy(c)
                            /\ pc'[c] = "posted" <=> pc[c] = "posted"
                            /\ posted'[c] = posted[c]
    PROVE  CreditsFinite' /\ PostedWhileWaiting' /\ AccountsHold'
<1>1. \A r \in ResultStatus : Credits(r)' = Credits(r) /\ Accepted(r)' = Accepted(r)
    BY DEF Credits, Accepted
<1>2. \A w \in Workers : BusyCalls(w)' = BusyCalls(w)
    BY DEF BusyCalls, CallsOf
<1>3. WorkerAccounting'
    BY <1>2 DEF AccountsHold, WorkerAccounting, BusyCalls
<1>4. ResultsCredited'
    BY <1>1 DEF AccountsHold, ResultsCredited
<1>5. CreditsFinite' /\ PostedWhileWaiting'
    BY <1>1 DEF CreditsFinite, PostedWhileWaiting
<1> QED  BY <1>3, <1>4, <1>5 DEF AccountsHold

\* The claimed item is counted when its call becomes busy.
LEMMA TakeKeepsAccounts ==
    ASSUME WorkerTypeOK, CreditsFinite, PostedWhileWaiting, AccountsHold,
           NEW c \in Calls, TakeItem(c)
    PROVE  CreditsFinite' /\ PostedWhileWaiting' /\ AccountsHold'
<1> DEFINE w == WorkerOf[c]
<1>0. w \in Workers /\ "claimed" \in Counters /\ "claimed" \notin ResultStatus
    BY CallsAssumption DEF Counters, ResultStatus
<1>1. Counted(w, "claimed") /\ UNCHANGED <<posted, sourceVars>>
      /\ pc[c] = "claimed" /\ pc' = [pc EXCEPT ![c] = "policy"]
    BY DEF TakeItem
<1> HIDE DEF w
<1>2. /\ CreditsFinite'
      /\ \A r \in ResultStatus : Cardinality(Credits(r))' = Cardinality(Credits(r))
      /\ \A v \in Workers, j \in Counters :
            count'[v][j] = IF v = w /\ j = "claimed" THEN count[v][j] + 1 ELSE count[v][j]
    BY <1>0, <1>1, CountedCredits, AccountsAreNaturals
<1>3. \A d \in Calls : pc'[d] = IF d = c THEN "policy" ELSE pc[d]
    BY <1>1 DEF WorkerTypeOK
<1>4. PostedWhileWaiting'
    BY <1>1, <1>3 DEF PostedWhileWaiting
<1>5. \A r \in ResultStatus : Accepted(r)' = Accepted(r) /\ HeldResults(r)' = HeldResults(r)
    BY <1>1, <1>3 DEF Accepted, HeldResults, sourceVars
<1>6. ResultsCredited'
    BY <1>2, <1>5 DEF AccountsHold, ResultsCredited
<1>7. BusyCalls(w)' = BusyCalls(w) \cup {c} /\ c \notin BusyCalls(w)
    BY <1>1, <1>3 DEF BusyCalls, CallsOf, Busy, w
<1>8. \A v \in Workers : v # w => BusyCalls(v)' = BusyCalls(v)
    BY <1>3 DEF BusyCalls, CallsOf, Busy, w
<1>9. /\ Cardinality(BusyCalls(w)') = Cardinality(BusyCalls(w)) + 1
      /\ \A v \in Workers : Cardinality(BusyCalls(v)) \in Nat
    BY <1>0, <1>7, AccountsAreNaturals, FS_AddElement
<1>10. WorkerAccounting'
    <2>1. ASSUME NEW v \in Workers
          PROVE  count'[v]["claimed"] =
                    count'[v]["completed"] + count'[v]["failed"] + count'[v]["skipped"]
                    + count'[v]["stopped"] + count'[v]["lost"] + count'[v]["errored"]
                    + Cardinality(BusyCalls(v)')
        <3>1. count[v]["claimed"] =
                    count[v]["completed"] + count[v]["failed"] + count[v]["skipped"]
                    + count[v]["stopped"] + count[v]["lost"] + count[v]["errored"]
                    + Cardinality(BusyCalls(v))
            BY DEF AccountsHold, WorkerAccounting, BusyCalls
        <3>2. \A j \in Counters \ {"claimed"} : count'[v][j] = count[v][j]
            BY <1>2
        <3>3. \A j \in Counters : count[v][j] \in Nat
            BY DEF WorkerTypeOK
        <3>4. CASE v = w
            BY <1>2, <1>9, <3>1, <3>2, <3>3, <3>4 DEF Counters, ResultStatus
        <3>5. CASE v # w
            BY <1>2, <1>8, <3>1, <3>2, <3>3, <3>5 DEF Counters, ResultStatus
        <3> QED  BY <3>4, <3>5
    <2> QED  BY <2>1 DEF WorkerAccounting, BusyCalls
<1> QED  BY <1>2, <1>4, <1>6, <1>10 DEF AccountsHold

\* A post that the source accepted waits to be counted.
LEMMA PostKeepsAccounts ==
    ASSUME WorkerInv, CreditsFinite, PostedWhileWaiting, AccountsHold,
           NEW c \in Calls, pc[c] \in {"policy", "handling"}, NEW r \in ResultStatus, Post(c, r),
           UNCHANGED count
    PROVE  CreditsFinite' /\ PostedWhileWaiting' /\ AccountsHold'
<1>1. /\ pc \in [Calls -> Places] /\ posted \in [Calls -> ResultStatus \cup {"none", "lost"}]
      /\ status \in [Items -> ItemStatus] /\ posted[c] = "none"
    BY DEF WorkerInv, TypeOK, WorkerTypeOK, SourceInv, SourceTypeOK, PostedWhileWaiting
<1>2. \A d \in Calls : pc'[d] = IF d = c THEN "posted" ELSE pc[d]
    BY <1>1 DEF Post
<1>3. CreditsFinite' /\ WorkerAccounting'
    <2>1. \A w \in Workers : BusyCalls(w)' = BusyCalls(w)
        BY <1>2 DEF BusyCalls, CallsOf, Busy
    <2> QED  BY <2>1 DEF CreditsFinite, Credits, AccountsHold, WorkerAccounting, BusyCalls
<1>4. \A s \in ResultStatus : Credits(s)' = Credits(s)
    BY DEF Credits
<1>5. CASE Finish(item[c], lease[c], r) /\ posted' = [posted EXCEPT ![c] = r]
    <2>1. item[c] \in Items
        BY HeldIsIssued DEF Claiming
    <2>2. /\ \A d \in Calls : posted'[d] = IF d = c THEN r ELSE posted[d]
          /\ \A i \in Items : status'[i] = IF i = item[c] THEN r ELSE status[i]
          /\ status[item[c]] = "leased"
        BY <1>1, <1>5, <2>1 DEF Finish, Held
    <2>3. PostedWhileWaiting'
        BY <1>2, <2>2 DEF PostedWhileWaiting
    <2>4. /\ Accepted(r)' = Accepted(r) \cup {c} /\ c \notin Accepted(r)
          /\ HeldResults(r)' = HeldResults(r) \cup {item[c]} /\ item[c] \notin HeldResults(r)
        BY <1>1, <1>2, <2>1, <2>2 DEF Accepted, HeldResults, ResultStatus
    <2>5. \A s \in ResultStatus \ {r} : Accepted(s)' = Accepted(s) /\ HeldResults(s)' = HeldResults(s)
        BY <1>1, <1>2, <2>1, <2>2 DEF Accepted, HeldResults, ResultStatus
    <2>6. /\ Cardinality(Accepted(r)') = Cardinality(Accepted(r)) + 1
          /\ Cardinality(HeldResults(r)') = Cardinality(HeldResults(r)) + 1
        BY <2>4, AccountsAreNaturals, FS_AddElement
    <2>7. ResultsCredited'
        BY <1>4, <2>5, <2>6, AccountsAreNaturals DEF AccountsHold, ResultsCredited
    <2> QED  BY <1>3, <2>3, <2>7 DEF AccountsHold
<1>6. CASE UNCHANGED sourceVars /\ posted' \in {posted, [posted EXCEPT ![c] = "lost"]}
    <2>1. \A d \in Calls : posted'[d] = posted[d] \/ (d = c /\ posted'[d] = "lost")
        BY <1>1, <1>6
    <2>2. PostedWhileWaiting'
        BY <1>2, <2>1 DEF PostedWhileWaiting
    <2>3. \A s \in ResultStatus : Accepted(s)' = Accepted(s) /\ HeldResults(s)' = HeldResults(s)
        BY <1>1, <1>2, <1>6, <2>1 DEF Accepted, HeldResults, sourceVars, ResultStatus
    <2>4. ResultsCredited'
        BY <1>4, <2>3 DEF AccountsHold, ResultsCredited
    <2> QED  BY <1>3, <2>2, <2>4 DEF AccountsHold
<1>7. CASE RemoteFaults /\ UNCHANGED <<sourceVars, posted>>
    BY <1>6, <1>7
<1> QED  BY <1>5, <1>6, <1>7 DEF Post

\* A call that is no longer busy was counted, once: as what the source reported, as a
\* lost lease, or as an error, which forgets an accepted post only if the source is remote.
LEMMA EndKeepsAccounts ==
    ASSUME WorkerTypeOK, CreditsFinite, PostedWhileWaiting, AccountsHold,
           NEW c \in Calls, Busy(c), NEW k \in Counters \ {"claimed"}, Counted(WorkerOf[c], k),
           Returned(c) \/ Threw(c), UNCHANGED sourceVars,
           \/ pc[c] = "posted" /\ k = posted[c]
           \/ k \notin ResultStatus /\ (pc[c] # "posted" \/ RemoteFaults)
    PROVE  CreditsFinite' /\ PostedWhileWaiting' /\ AccountsHold'
<1> DEFINE w == WorkerOf[c]
<1>0. w \in Workers
    BY CallsAssumption
<1>1. /\ pc \in [Calls -> Places] /\ posted \in [Calls -> ResultStatus \cup {"none", "lost"}]
      /\ ForgetItem(c) /\ \E place \in {"ready", "loop"} : pc' = [pc EXCEPT ![c] = place]
    BY DEF WorkerTypeOK, Returned, Threw
<1>2. /\ \A d \in Calls \ {c} : pc'[d] = pc[d] /\ posted'[d] = posted[d]
      /\ pc'[c] \in {"ready", "loop"} /\ posted'[c] = "none"
    BY <1>1 DEF ForgetItem
<1> HIDE DEF w
<1>3. /\ CreditsFinite'
      /\ \A r \in ResultStatus :
            Cardinality(Credits(r))' = Cardinality(Credits(r)) + (IF r = k THEN 1 ELSE 0)
      /\ \A v \in Workers, j \in Counters :
            count'[v][j] = IF v = w /\ j = k THEN count[v][j] + 1 ELSE count[v][j]
    BY <1>0, CountedCredits DEF w
<1>4. PostedWhileWaiting'
    BY <1>2 DEF PostedWhileWaiting
<1>5. ResultsCredited'
    <2>1. \A r \in ResultStatus : Accepted(r)' = Accepted(r) \ {c} /\ HeldResults(r)' = HeldResults(r)
        BY <1>2 DEF Accepted, HeldResults, sourceVars
    <2>2. \A r \in ResultStatus : c \in Accepted(r) <=> pc[c] = "posted" /\ posted[c] = r
        BY DEF Accepted
    <2>3. \A r \in ResultStatus :
              Cardinality(Accepted(r)') = Cardinality(Accepted(r)) - (IF c \in Accepted(r) THEN 1 ELSE 0)
        BY <2>1, AccountsAreNaturals, FS_RemoveElement
    <2>4. ASSUME NEW r \in ResultStatus
          PROVE  LET told == Cardinality(Credits(r)') + Cardinality(Accepted(r)')
                     held == Cardinality(HeldResults(r)')
                 IN IF RemoteFaults THEN told <= held ELSE told = held
        <3>1. /\ Cardinality(Credits(r)) \in Nat /\ Cardinality(Accepted(r)) \in Nat
              /\ Cardinality(HeldResults(r)) \in Nat
              /\ IF RemoteFaults
                 THEN Cardinality(Credits(r)) + Cardinality(Accepted(r)) <= Cardinality(HeldResults(r))
                 ELSE Cardinality(Credits(r)) + Cardinality(Accepted(r)) = Cardinality(HeldResults(r))
            BY AccountsAreNaturals DEF AccountsHold, ResultsCredited
        <3>2. CASE r = k
            <4>1. c \in Accepted(r)
                BY <2>2, <3>2
            <4> QED  BY <1>3, <2>1, <2>3, <3>1, <3>2, <4>1
        <3>3. CASE r # k
            <4>1. c \in Accepted(r) => RemoteFaults
                BY <2>2, <3>3
            <4> QED  BY <1>3, <2>1, <2>3, <3>1, <3>3, <4>1
        <3> QED  BY <3>2, <3>3
    <2> QED  BY <2>4 DEF ResultsCredited
<1>6. BusyCalls(w)' = BusyCalls(w) \ {c} /\ c \in BusyCalls(w)
    BY <1>2 DEF BusyCalls, CallsOf, Busy, w
<1>7. \A v \in Workers : v # w => BusyCalls(v)' = BusyCalls(v)
    BY <1>2 DEF BusyCalls, CallsOf, Busy, w
<1>8. /\ Cardinality(BusyCalls(w)') = Cardinality(BusyCalls(w)) - 1
      /\ \A v \in Workers : Cardinality(BusyCalls(v)) \in Nat
    BY <1>0, <1>6, AccountsAreNaturals, FS_RemoveElement
<1>9. WorkerAccounting'
    <2>1. ASSUME NEW v \in Workers
          PROVE  count'[v]["claimed"] =
                    count'[v]["completed"] + count'[v]["failed"] + count'[v]["skipped"]
                    + count'[v]["stopped"] + count'[v]["lost"] + count'[v]["errored"]
                    + Cardinality(BusyCalls(v)')
        <3>1. count[v]["claimed"] =
                    count[v]["completed"] + count[v]["failed"] + count[v]["skipped"]
                    + count[v]["stopped"] + count[v]["lost"] + count[v]["errored"]
                    + Cardinality(BusyCalls(v))
            BY DEF AccountsHold, WorkerAccounting, BusyCalls
        <3>2. \A j \in Counters : count[v][j] \in Nat
            BY DEF WorkerTypeOK
        <3>3. \A j \in Counters : count'[v][j] = IF v = w /\ j = k THEN count[v][j] + 1 ELSE count[v][j]
            BY <1>3
        <3>4. CASE v = w
            <4> DEFINE one(j) == IF j = k THEN 1 ELSE 0
            <4>1. one("completed") + one("failed") + one("skipped") + one("stopped")
                  + one("lost") + one("errored") = 1
                BY DEF Counters, ResultStatus
            <4>2. \A j \in Counters : count'[v][j] = count[v][j] + one(j) /\ one(j) \in Nat
                BY <3>2, <3>3, <3>4
            <4>3. one("claimed") = 0
                OBVIOUS
            <4>4. {"claimed", "completed", "failed", "skipped", "stopped", "lost", "errored"} \subseteq Counters
                BY DEF Counters, ResultStatus
            <4> HIDE DEF one
            <4> QED  BY <1>0, <1>8, <3>1, <3>2, <3>4, <4>1, <4>2, <4>3, <4>4
        <3>5. CASE v # w
            BY <1>7, <3>1, <3>2, <3>3, <3>5 DEF Counters, ResultStatus
        <3> QED  BY <3>4, <3>5
    <2> QED  BY <2>1 DEF WorkerAccounting, BusyCalls
<1> QED  BY <1>3, <1>4, <1>5, <1>9 DEF AccountsHold

\* The methods other than complete() and fail() leave the results alone.
LEMMA ResultsStay ==
    ASSUME SourceInv,
           \/ \E i \in Items : Enqueue(i) \/ RequestStop(i)
           \/ \E i \in Items, ms \in 1..LeaseMs : ClaimItem(i, ms)
           \/ \E i \in Items, l \in 1..sequence, ms \in 1..LeaseMs : Heartbeat(i, l, ms)
           \/ Stats \/ Tick \/ UNCHANGED status
    PROVE  \A r \in ResultStatus : HeldResults(r)' = HeldResults(r)
<1>1. \A i \in Items : /\ status[i] \in ResultStatus => status'[i] = status[i]
                       /\ status'[i] \in ResultStatus => status'[i] = status[i]
    <2>1. CASE \E i \in Items : Enqueue(i) \/ RequestStop(i)
        BY <2>1 DEF Enqueue, RequestStop, SourceInv, SourceTypeOK, ResultStatus
    <2>2. ASSUME NEW i \in Items, NEW ms \in 1..LeaseMs, ClaimItem(i, ms)
          PROVE  \A j \in Items : /\ status[j] \in ResultStatus => status'[j] = status[j]
                                  /\ status'[j] \in ResultStatus => status'[j] = status[j]
        <3>1. \A j \in Items : status'[j] = IF j = i THEN "leased" ELSE StatusAfterReclaim[j]
            BY <2>2, ReclaimTyped DEF ClaimItem, SourceInv
        <3>2. StatusAfterReclaim[i] = "pending"
            BY <2>2 DEF ClaimItem, FirstPending
        <3> QED  BY <3>1, <3>2 DEF StatusAfterReclaim, Expired, ResultStatus
    <2>3. CASE Stats
        BY <2>3 DEF Stats, StatusAfterReclaim, Expired, ResultStatus
    <2>4. CASE \/ \E i \in Items, l \in 1..sequence, ms \in 1..LeaseMs : Heartbeat(i, l, ms)
               \/ Tick \/ UNCHANGED status
        BY <2>4 DEF Heartbeat, Tick
    <2> QED  BY <2>1, <2>2, <2>3, <2>4
<1> QED  BY <1>1 DEF HeldResults

LEMMA StepKeepsAccounts ==
    ASSUME WorkerInv, WakesSleeper, CreditsFinite, PostedWhileWaiting, AccountsHold, [Next]_vars
    PROVE  CreditsFinite' /\ PostedWhileWaiting' /\ AccountsHold'
<1>a. SourceInv /\ WorkerTypeOK /\ LeaseMs \in 1..LeaseMs
    BY LeaseMsAssumption DEF WorkerInv, TypeOK
<1>b. /\ pc \in [Calls -> Places] /\ \A c \in Calls : WorkerOf[c] \in Workers
      /\ wakePoll \in [Workers -> Calls \cup {NoCall}]
    BY <1>a, CallsAssumption DEF WorkerTypeOK
<1>r. UNCHANGED status => \A r \in ResultStatus : HeldResults(r)' = HeldResults(r)
    BY DEF HeldResults
<1>1. ASSUME NEW c \in Calls,
             \/ SeesStop(c) \/ Claim(c) \/ ClaimFails(c) \/ ClaimNothing(c) \/ TakeNothing(c)
             \/ Allow(c) \/ PollTimer(c) \/ \E m \in Modes : Start(c, m)
      PROVE  CreditsFinite' /\ PostedWhileWaiting' /\ AccountsHold'
    <2>1. /\ UNCHANGED <<count, posted>>
          /\ UNCHANGED status \/ \E i \in Items, ms \in 1..LeaseMs : ClaimItem(i, ms)
        BY <1>1, <1>a DEF SeesStop, Claim, ClaimFails, ClaimNothing, TakeNothing, Allow, PollTimer,
                          Start, LeaveLoop, workerVars, sourceVars
    <2>2. \/ Busy(c) /\ pc[c] # "posted" /\ pc' = [pc EXCEPT ![c] = "handling"]
          \/ ~Busy(c) /\ \E place \in {"ready", "loop", "claimed", "empty", "poll"} :
                             pc' = [pc EXCEPT ![c] = place]
        BY <1>1 DEF SeesStop, Claim, ClaimFails, ClaimNothing, TakeNothing, Allow, PollTimer,
                    Start, LeaveLoop, Busy
    <2>3. \A d \in Calls : (Busy(d)' <=> Busy(d)) /\ (pc'[d] = "posted" <=> pc[d] = "posted")
        BY <1>b, <2>2 DEF Busy
    <2>4. \A r \in ResultStatus : HeldResults(r)' = HeldResults(r)
        BY <1>a, <2>1, ResultsStay
    <2> QED  BY <2>1, <2>3, <2>4, UncountedStep
<1>2. ASSUME NEW c \in Calls, Beat(c) \/ HandlerBeat(c) \/ HandlerSettles(c)
      PROVE  CreditsFinite' /\ PostedWhileWaiting' /\ AccountsHold'
    <2>1. /\ UNCHANGED <<count, pc, posted>>
          /\ UNCHANGED status
        BY <1>2 DEF Beat, SendBeat, BeatAnswered, HandlerBeat, HandlerSettles, Heartbeat,
                    workerVars, callVars, sourceVars
    <2>2. \A d \in Calls : (Busy(d)' <=> Busy(d)) /\ (pc'[d] = "posted" <=> pc[d] = "posted")
        BY <2>1 DEF Busy
    <2> QED  BY <1>r, <2>1, <2>2, UncountedStep
<1>3. ASSUME NEW c \in Calls, Refuse(c) \/ AllowedTooLate(c) \/ PostResult(c)
      PROVE  CreditsFinite' /\ PostedWhileWaiting' /\ AccountsHold'
    <2>1. pc[c] \in {"policy", "handling"} /\ UNCHANGED count /\ \E r \in ResultStatus : Post(c, r)
        BY <1>3, <1>a, ResultOfIsStatus
        DEF Refuse, AllowedTooLate, PostResult, workerVars, WorkerTypeOK, ResultStatus
    <2> QED  BY <2>1, PostKeepsAccounts
<1>4. ASSUME NEW c \in Calls, AbandonItem(c) \/ CountResult(c) \/ PolicyThrows(c) \/ PostFails(c)
      PROVE  CreditsFinite' /\ PostedWhileWaiting' /\ AccountsHold'
    <2>1. Busy(c) /\ UNCHANGED sourceVars /\ (Returned(c) \/ Threw(c))
        BY <1>4 DEF AbandonItem, CountResult, PolicyThrows, PostFails, Busy
    <2>2. CASE CountResult(c)
        <3>1. posted[c] \in Counters \ {"claimed"} /\ pc[c] = "posted" /\ Counted(WorkerOf[c], posted[c])
            BY <1>a, <2>2 DEF CountResult, Counters, WorkerTypeOK, ResultStatus
        <3> QED  BY <1>a, <2>1, <3>1, EndKeepsAccounts
    <2>3. CASE AbandonItem(c)
        <3>1. "lost" \in Counters \ {"claimed"} /\ "lost" \notin ResultStatus /\ pc[c] # "posted"
              /\ Counted(WorkerOf[c], "lost")
            BY <2>3 DEF AbandonItem, Counters, ResultStatus
        <3> QED  BY <1>a, <2>1, <3>1, EndKeepsAccounts
    <2>4. CASE PolicyThrows(c) \/ PostFails(c)
        <3>1. "errored" \in Counters \ {"claimed"} /\ "errored" \notin ResultStatus
              /\ (pc[c] # "posted" \/ RemoteFaults) /\ Counted(WorkerOf[c], "errored")
            BY <2>4 DEF PolicyThrows, PostFails, Counters, ResultStatus
        <3> QED  BY <1>a, <2>1, <3>1, EndKeepsAccounts
    <2> QED  BY <1>4, <2>2, <2>3, <2>4
<1>5. ASSUME NEW c \in Calls, TakeItem(c)
      PROVE  CreditsFinite' /\ PostedWhileWaiting' /\ AccountsHold'
    BY <1>5, <1>a, TakeKeepsAccounts
<1>6. ASSUME NEW w \in Workers, NEW force \in BOOLEAN, Stop(w, force)
      PROVE  CreditsFinite' /\ PostedWhileWaiting' /\ AccountsHold'
    <2>1. UNCHANGED <<count, posted, status>>
        BY <1>6 DEF Stop
    <2>2. \A d \in Calls : pc'[d] = pc[d] \/ (pc[d] = "poll" /\ pc'[d] = "loop")
        BY <1>6, <1>b DEF Stop, WakesSleeper
    <2>3. \A d \in Calls : (Busy(d)' <=> Busy(d)) /\ (pc'[d] = "posted" <=> pc[d] = "posted")
        BY <2>2 DEF Busy
    <2> QED  BY <1>r, <2>1, <2>3, UncountedStep
<1>7. CASE Environment
    <2>1. /\ UNCHANGED <<count, pc, posted>>
          /\ (\E i \in Items : Enqueue(i) \/ RequestStop(i)) \/ Stats \/ Tick
        BY <1>7 DEF Environment, workerVars, callVars
    <2>2. \A d \in Calls : (Busy(d)' <=> Busy(d)) /\ (pc'[d] = "posted" <=> pc[d] = "posted")
        BY <2>1 DEF Busy
    <2>3. \A r \in ResultStatus : HeldResults(r)' = HeldResults(r)
        BY <1>a, <2>1, ResultsStay
    <2> QED  BY <2>1, <2>2, <2>3, UncountedStep
<1>8. CASE UNCHANGED vars
    <2>1. \A d \in Calls : (Busy(d)' <=> Busy(d)) /\ (pc'[d] = "posted" <=> pc[d] = "posted")
        BY <1>8 DEF vars, callVars, Busy
    <2> QED  BY <1>8, <1>r, <2>1, UncountedStep DEF vars, workerVars, callVars, sourceVars
<1> QED
    BY <1>1, <1>2, <1>3, <1>4, <1>5, <1>6, <1>7, <1>8 DEF Next, Continue

LEMMA StepWakesSleeper ==
    ASSUME WorkerTypeOK, WakesSleeper, [Next]_vars PROVE WakesSleeper'
<1> USE CallsAssumption DEF WorkerTypeOK, WakesSleeper
<1>1. ASSUME NEW c \in Calls,
             \/ Claim(c) \/ ClaimNothing(c) \/ TakeItem(c) \/ Allow(c)
             \/ Refuse(c) \/ AllowedTooLate(c) \/ PostResult(c) \/ Beat(c) \/ HandlerBeat(c)
             \/ HandlerSettles(c)
      PROVE  WakesSleeper'
    BY <1>1 DEF Claim, ClaimNothing, TakeItem, Allow, Refuse, AllowedTooLate,
                PostResult, Post, Beat, SendBeat, BeatAnswered, HandlerBeat, HandlerSettles,
                workerVars, callVars
<1>2. ASSUME NEW c \in Calls, SeesStop(c) \/ ClaimFails(c) \/ \E m \in Modes : Start(c, m)
      PROVE  WakesSleeper'
    BY <1>2 DEF SeesStop, ClaimFails, Start, LeaveLoop
<1>3. ASSUME NEW c \in Calls, TakeNothing(c) PROVE WakesSleeper'
    <2>1. CASE pc' = [pc EXCEPT ![c] = "poll"] /\ wakePoll' = [wakePoll EXCEPT ![WorkerOf[c]] = c]
        BY <2>1
    <2>2. CASE UNCHANGED wakePoll
        BY <1>3, <2>2 DEF TakeNothing, LeaveLoop
    <2> QED  BY <1>3, <2>1, <2>2 DEF TakeNothing
<1>4. ASSUME NEW c \in Calls, PolicyThrows(c) \/ PostFails(c) PROVE WakesSleeper'
    BY <1>4 DEF PolicyThrows, PostFails, Threw
<1>5. ASSUME NEW c \in Calls, AbandonItem(c) \/ CountResult(c) PROVE WakesSleeper'
    BY <1>5 DEF AbandonItem, CountResult, Returned
<1>6. ASSUME NEW c \in Calls, PollTimer(c) PROVE WakesSleeper'
    BY <1>6 DEF PollTimer
<1>7. ASSUME NEW w \in Workers, NEW force \in BOOLEAN, Stop(w, force) PROVE WakesSleeper'
    BY <1>7 DEF Stop
<1>8. CASE Environment \/ UNCHANGED vars
    BY <1>8 DEF Environment, vars, callVars, workerVars
<1> HIDE DEF WorkerTypeOK, WakesSleeper
<1> QED
    BY <1>1, <1>2, <1>3, <1>4, <1>5, <1>6, <1>7, <1>8 DEF Next, Continue

\* However activations overlap on a worker, leases expire and calls of a remote source
\* fail after taking effect: every item a worker claimed is in flight or counted once,
\* and the workers never count a result the source does not hold, nor two for one item.
THEOREM AccountsAreTrue == Spec => []AccountsHold
<1>1. Init => AccountInv
    <2> SUFFICES ASSUME Init PROVE AccountInv
        OBVIOUS
    <2>1. WakesSleeper /\ PostedWhileWaiting
        BY DEF Init, WakesSleeper, PostedWhileWaiting
    <2>2. \A w \in Workers, k \in Counters : count[w][k] = 0
        BY DEF Init
    <2>3. ASSUME NEW r \in ResultStatus PROVE Credits(r) = {} /\ Accepted(r) = {} /\ HeldResults(r) = {}
        <3>1. \A w \in Workers : 1..count[w][r] = {}
            <4>1. \A w \in Workers : count[w][r] = 0
                BY <2>2 DEF Counters
            <4>2. 1..0 = {}
                OBVIOUS
            <4> QED  BY <4>1, <4>2
        <3>2. Credits(r) = {}
            <4>1. \A w \in Workers : {w} \X (1..count[w][r]) = {}
                BY <3>1
            <4> QED  BY <4>1 DEF Credits
        <3>3. \A c \in Calls : pc[c] = "ready"
            BY DEF Init
        <3>4. \A i \in Items : status[i] = "absent"
            BY DEF Init, SourceInit
        <3> QED  BY <3>2, <3>3, <3>4 DEF Accepted, HeldResults, ResultStatus
    <2>4. \A w \in Workers : BusyCalls(w) = {}
        BY DEF Init, BusyCalls, CallsOf, Busy
    <2>5. CreditsFinite /\ ResultsCredited
        BY <2>3, FS_EmptySet DEF CreditsFinite, ResultsCredited
    <2>6. WorkerAccounting
        <3>1. {"claimed", "completed", "failed", "skipped", "stopped", "lost", "errored"} \subseteq Counters
            BY DEF Counters, ResultStatus
        <3>2. \A w \in Workers : Cardinality(BusyCalls(w)) = 0
            BY <2>4, FS_EmptySet
        <3> QED  BY <2>2, <3>1, <3>2 DEF WorkerAccounting, BusyCalls
    <2> QED  BY <2>1, <2>5, <2>6 DEF AccountInv, AccountsHold
<1>2. WorkerInv /\ AccountInv /\ [Next]_vars => AccountInv'
    BY StepKeepsAccounts, StepWakesSleeper DEF AccountInv, WorkerInv, TypeOK
<1>3. AccountInv => AccountsHold
    BY DEF AccountInv
<1> QED  BY <1>1, <1>2, <1>3, WorkerInvInductive, PTL DEF Spec
=============================================================================
