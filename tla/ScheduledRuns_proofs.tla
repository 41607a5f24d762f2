------------------------ MODULE ScheduledRuns_proofs ------------------------
(***************************************************************************)
(* Proofs for any schedules, however the clock advances, the policy        *)
(* answers and the store fails: the store adds the lines it was asked for  *)
(* in their order; under distinct ids, a process runs no window twice      *)
(* while its passes do not overlap, and what it skips as run is in the     *)
(* file unless two runs of the schedule were written at once.  The first   *)
(* save of a store made on a file whose last line has no end is excepted:  *)
(* it is joined to that line.                                              *)
(***************************************************************************)
EXTENDS ScheduledRuns, FiniteSetTheorems, WellFoundedInduction, TLAPS

Places == 1 .. Len(List)

\* No two schedules bear one id: ScheduleExecutor.last knows them by nothing else.
DistinctIds == \A i, j \in Places : List[i].id = List[j].id => i = j

(***************************************************************************)
(* The latest window is never set back by a later look at the clock.       *)
(***************************************************************************)
LEMMA Least ==
  ASSUME NEW S \in SUBSET Nat, S # {}
  PROVE  Min(S) \in S /\ \A y \in S : Min(S) <= y
  <1>1. PICK x \in S : \A y \in S : ~ (<<y, x>> \in OpToRel(<, Nat))
    BY NatLessThanWellFounded, WFMin
  <1>2. \A y \in S : x <= y
    <2> TAKE y \in S
    <2>1. y \in Nat /\ x \in Nat
      OBVIOUS
    <2>2. y < x => <<y, x>> \in OpToRel(<, Nat)
      BY <2>1 DEF OpToRel
    <2>3. ~ (y < x)
      BY <1>1, <2>2
    <2> QED  BY <2>1, <2>3
  <1> QED  BY <1>2 DEF Min

LEMMA Greatest ==
  ASSUME NEW top \in Nat, NEW S \in SUBSET (0 .. top), S # {}
  PROVE  Max(S) \in S /\ \A y \in S : y <= Max(S)
  <1> DEFINE T == {top - s : s \in S}
  <1>1. T \in SUBSET Nat /\ T # {}
    <2>1. \A s \in S : top - s \in Nat
      OBVIOUS
    <2> QED  BY <2>1
  <1>2. Min(T) \in T /\ \A y \in T : Min(T) <= y
    <2> HIDE DEF T
    <2> QED  BY <1>1, Least
  <1>3. PICK g \in S : Min(T) = top - g
    BY <1>2
  <1>4. \A y \in S : y <= g
    <2> TAKE y \in S
    <2>1. top - y \in T
      OBVIOUS
    <2>2. top - g <= top - y
      BY <1>2, <1>3, <2>1
    <2> QED  BY <2>2
  <1>5. \A y \in S : g >= y
    BY <1>4
  <1> QED  BY <1>5 DEF Max

LEMMA DueFound ==
  ASSUME NEW i \in Places, NEW now \in Clocks
  PROVE  /\ Due[i][now] \in Nat
         /\ Due[i][now] # 0 =>
              Due[i][now] \in Windows(List[i], now) /\ \A t \in Windows(List[i], now) : t <= Due[i][now]
  <1>1. Since \in Nat /\ now \in Nat
    BY ClockAssumption DEF Clocks
  <1>2. Windows(List[i], now) \in SUBSET (0 .. now)
    BY <1>1, ClockAssumption DEF Windows, Searched
  <1>3. Due[i][now] = IF Throws[i][now] THEN 0 ELSE Latest(List[i], now)
    BY ListAssumption DEF Due, Places
  <1> HIDE DEF Due
  <1>4. CASE Windows(List[i], now) = {}
    BY <1>3, <1>4 DEF Latest
  <1>5. CASE Windows(List[i], now) # {}
    <2>1. Max(Windows(List[i], now)) \in Windows(List[i], now)
          /\ \A t \in Windows(List[i], now) : t <= Max(Windows(List[i], now))
      BY <1>1, <1>2, <1>5, Greatest
    <2> QED  BY <1>1, <1>2, <1>3, <1>5, <2>1 DEF Latest
  <1> QED  BY <1>4, <1>5

LEMMA DueGrows ==
  ASSUME NEW i \in Places, NEW t \in Clocks, NEW now \in Clocks, t <= now, Due[i][t] # 0, Due[i][now] # 0
  PROVE  Due[i][t] <= Due[i][now]
  <1>1. t \in Nat /\ now \in Nat /\ Since \in Nat /\ SearchLimit \in Nat
    BY ClockAssumption DEF Clocks
  <1>2. Windows(List[i], t) \subseteq Windows(List[i], now)
    BY <1>1 DEF Windows, Searched
  <1> QED  BY <1>2, DueFound

(***************************************************************************)
(* The invariant: what a schedule has last run it had due at a clock no    *)
(* later than that of the one pass, and no run lies beyond it.             *)
(***************************************************************************)
Underway == [phase : {"checking", "executing"}, now : Clocks, index : Places]

Typed ==
    /\ clock \in Clocks
    /\ last \in [Ids -> Int]
    /\ pass \in [Passes -> Underway \cup {Idle}]
    /\ \A p \in Passes : pass[p] # Idle => pass[p].now <= clock

Alone == \A p, q \in Passes : pass[p] # Idle /\ pass[q] # Idle => p = q

Recorded(now) ==
    \A i \in Places : last[List[i].id] = 0 \/ \E t \in Clocks : t <= now /\ last[List[i].id] = Due[i][t]

Fresh ==
    \A p \in Passes : pass[p] # Idle => Window(p) # 0 /\ last[Current(p).id] # Window(p)

RanBefore ==
    \A r \in ran : r[2] = 1 /\ \E i \in Places : r[1][1] = List[i].id /\ r[1][2] \in Int /\ r[1][2] <= last[List[i].id]

OnceInv ==
    /\ Typed
    /\ ~ overlapped =>
          /\ Alone /\ Fresh /\ RanBefore /\ Recorded(clock)
          /\ \A p \in Passes : pass[p] # Idle => Recorded(pass[p].now)

LEMMA ClocksAdvance ==
  /\ Since \in Clocks
  /\ \A t \in Clocks : t \in Nat /\ (t + TimeStep <= Horizon => t + TimeStep \in Clocks)
  <1>1. Since \in Clocks
    <2>1. 0 * TimeStep = 0
      BY ClockAssumption
    <2>2. Since = Since + 0 * TimeStep /\ 0 \in 0 .. Horizon
      BY <2>1, ClockAssumption
    <2> QED  BY <2>2, ClockAssumption DEF Clocks
  <1>2. ASSUME NEW t \in Clocks, t + TimeStep <= Horizon PROVE t + TimeStep \in Clocks
    <2>1. PICK n \in 0 .. Horizon : t = Since + n * TimeStep
      BY <1>2 DEF Clocks
    <2>2. Since \in Nat /\ Horizon \in Nat /\ TimeStep \in Nat /\ TimeStep >= 1 /\ t \in Nat /\ Since <= t
      BY ClockAssumption DEF Clocks
    <2>3. (n + 1) * TimeStep = n * TimeStep + TimeStep
      BY <2>2
    <2>4. n * TimeStep >= n
      BY <2>2
    <2>5. t + TimeStep = Since + (n + 1) * TimeStep /\ n + 1 \in 0 .. Horizon
      <3>1. n * TimeStep \in Nat
        BY <2>2
      <3> HIDE DEF Clocks
      <3> QED  BY <1>2, <2>1, <2>2, <2>3, <2>4, <3>1
    <2>6. t + TimeStep \in Since .. Horizon
      BY <1>2, <2>2
    <2> QED  BY <2>5, <2>6 DEF Clocks
  <1>3. \A t \in Clocks : t \in Nat
    BY ClockAssumption DEF Clocks
  <1> QED  BY <1>1, <1>2, <1>3

LEMMA IdsOfPlaces == \A i \in Places : List[i].id \in Ids
  BY ListAssumption DEF Ids, Places

LEMMA OnceInit == Init => OnceInv
  <1> SUFFICES ASSUME Init PROVE OnceInv
    OBVIOUS
  <1>1. clock = Since /\ last = [id \in Ids |-> 0] /\ pass = [p \in Passes |-> Idle] /\ ran = {}
    BY DEF Init, ScheduleInit
  <1>2. \A p \in Passes : pass[p] = Idle
    BY <1>1
  <1>3. Typed
    <2>1. Since \in Clocks
      BY ClocksAdvance
    <2> QED  BY <1>1, <1>2, <2>1 DEF Typed
  <1>4. Recorded(clock)
    BY <1>1, IdsOfPlaces DEF Recorded
  <1> QED  BY <1>1, <1>2, <1>3, <1>4 DEF OnceInv, Alone, Fresh, RanBefore

\* Where the loop of a pass stops, with whatever it has recorded by then.
LEMMA ScanLands ==
  ASSUME NEW p, NEW from \in Nat, from >= 1, NEW now \in Clocks
  PROVE  \/ Scanned(p, from, now) = Idle
         \/ \E i \in Places : /\ Scanned(p, from, now) = [phase |-> "checking", now |-> now, index |-> i]
                              /\ Due[i][now] # 0 /\ last'[List[i].id] # Due[i][now]
  <1> DEFINE stops == {i \in from .. Len(List) : Stops(i, now)}
  <1>1. SUFFICES ASSUME stops # {}, ~ Throws[Min(stops)][now]
                 PROVE  \E i \in Places : /\ Scanned(p, from, now) = [phase |-> "checking", now |-> now, index |-> i]
                                          /\ Due[i][now] # 0 /\ last'[List[i].id] # Due[i][now]
    BY DEF Scanned
  <1>2. Scanned(p, from, now) = [phase |-> "checking", now |-> now, index |-> Min(stops)]
    BY <1>1 DEF Scanned
  <1>3. stops \in SUBSET Nat
    BY ListAssumption
  <1>4. Min(stops) \in stops
    BY <1>1, <1>3, Least
  <1>5. Min(stops) \in Places /\ Stops(Min(stops), now)
    BY <1>4, ListAssumption DEF Places
  <1> QED  BY <1>1, <1>2, <1>5 DEF Stops

\* A pass that goes on, or begins, at its clock: the others stay, and what was run stays.
LEMMA Scans ==
  ASSUME OnceInv, NEW p \in Passes, NEW now \in Clocks, now <= clock, NEW from \in Nat, from >= 1,
         Scan(p, from, now), UNCHANGED clock, last' \in [Ids -> Int],
         ~ overlapped' => /\ ~ overlapped /\ Recorded(now)' /\ RanBefore'
                          /\ \A q \in Passes \ {p} : pass[q] = Idle
  PROVE  OnceInv'
  <1>1. PICK place \in Underway \cup {Idle} :
          /\ pass' = [pass EXCEPT ![p] = place]
          /\ place # Idle => place.now = now /\ Due[place.index][now] # 0
                             /\ last'[List[place.index].id] # Due[place.index][now]
    <2>1. pass' = [pass EXCEPT ![p] = Scanned(p, from, now)]
      BY DEF Scan
    <2>2. CASE Scanned(p, from, now) = Idle
      BY <2>1, <2>2
    <2>3. ASSUME NEW i \in Places, Scanned(p, from, now) = [phase |-> "checking", now |-> now, index |-> i],
                 Due[i][now] # 0, last'[List[i].id] # Due[i][now]
          PROVE  \E place \in Underway \cup {Idle} :
                   /\ pass' = [pass EXCEPT ![p] = place]
                   /\ place # Idle => place.now = now /\ Due[place.index][now] # 0
                                      /\ last'[List[place.index].id] # Due[place.index][now]
      <3> DEFINE found == [phase |-> "checking", now |-> now, index |-> i]
      <3>1. found \in Underway /\ found.now = now /\ found.index = i
        BY DEF Underway
      <3>2. pass' = [pass EXCEPT ![p] = found]
        BY <2>1, <2>3
      <3> HIDE DEF found
      <3> QED  BY <2>3, <3>1, <3>2
    <2> QED  BY <2>2, <2>3, ScanLands
  <1>2. pass \in [Passes -> Underway \cup {Idle}]
    BY DEF OnceInv, Typed
  <1>3. pass'[p] = place /\ \A q \in Passes : q # p => pass'[q] = pass[q]
    BY <1>1, <1>2
  <1>4. Typed'
    BY <1>1, <1>2, <1>3 DEF OnceInv, Typed
  <1>5. ASSUME ~ overlapped'
        PROVE  Alone' /\ Fresh' /\ RanBefore' /\ Recorded(clock)'
               /\ \A q \in Passes : pass'[q] # Idle => Recorded(pass[q].now)'
    <2>1. \A q \in Passes : pass'[q] # Idle => q = p
      BY <1>3, <1>5
    <2>2. Alone' /\ RanBefore'
      BY <1>5, <2>1 DEF Alone
    <2>3. Fresh'
      BY <1>1, <1>3, <2>1 DEF Fresh, Window, Current
    <2>4. Recorded(clock)'
      <3>1. Recorded(now)' /\ clock' = clock
        BY <1>5
      <3>2. clock \in Int /\ now \in Int /\ \A t \in Clocks : t \in Int
        BY ClockAssumption DEF OnceInv, Typed, Clocks
      <3> QED  BY <3>1, <3>2 DEF Recorded
    <2>5. pass'[p] # Idle => pass'[p].now = now
      BY <1>1, <1>3
    <2> QED  BY <1>5, <2>1, <2>2, <2>3, <2>4, <2>5 DEF Recorded
  <1> QED  BY <1>4, <1>5 DEF OnceInv

\* A pass that ends, or has its run begin.
LEMMA Settled ==
  ASSUME OnceInv, NEW p \in Passes, UNCHANGED <<clock, last, ran, overlapped>>,
         \/ pass' = [pass EXCEPT ![p] = Idle]
         \/ pass[p] # Idle /\ pass' = [pass EXCEPT ![p].phase = "executing"]
  PROVE  OnceInv'
  <1>1. pass \in [Passes -> Underway \cup {Idle}]
    BY DEF OnceInv, Typed
  <1>2. PICK place \in Underway \cup {Idle} :
          /\ pass' = [pass EXCEPT ![p] = place]
          /\ place # Idle => pass[p] # Idle /\ place.now = pass[p].now /\ place.index = pass[p].index
    <2>1. CASE pass' = [pass EXCEPT ![p] = Idle]
      BY <2>1
    <2>2. CASE pass[p] # Idle /\ pass' = [pass EXCEPT ![p].phase = "executing"]
      <3> DEFINE place == [pass[p] EXCEPT !.phase = "executing"]
      <3>1. pass[p] \in Underway
        BY <1>1, <2>2
      <3>2. place \in Underway /\ place.now = pass[p].now /\ place.index = pass[p].index
        BY <3>1 DEF Underway
      <3>3. pass' = [pass EXCEPT ![p] = place]
        BY <1>1, <2>2
      <3> QED  BY <2>2, <3>2, <3>3
    <2> QED  BY <2>1, <2>2
  <1>3. \A q \in Passes :
          pass'[q] # Idle => pass[q] # Idle /\ pass'[q].now = pass[q].now /\ pass'[q].index = pass[q].index
    BY <1>1, <1>2
  <1>4. pass' \in [Passes -> Underway \cup {Idle}]
    BY <1>1, <1>2
  <1>5. Typed'
    BY <1>3, <1>4 DEF OnceInv, Typed
  <1>6. \A now : Recorded(now) => Recorded(now)'
    BY DEF Recorded
  <1>7. ~ overlapped' => Alone' /\ Fresh' /\ RanBefore' /\ Recorded(clock)'
    BY <1>3 DEF OnceInv, Alone, Fresh, RanBefore, Recorded, Window, Current
  <1>8. ~ overlapped' => \A q \in Passes : pass'[q] # Idle => Recorded(pass[q].now)'
    BY <1>3 DEF OnceInv, Recorded
  <1> QED  BY <1>5, <1>7, <1>8 DEF OnceInv

(***************************************************************************)
(* A call on the store is the run of a pass: it has begun with it, and is  *)
(* in the chain of saves at most once.                                     *)
(***************************************************************************)
Linked ==
    /\ DOMAIN op = Callers
    /\ \A c \in Callers : "step" \in DOMAIN op[c] /\ (op[c].step # "none" => pass[c].phase = "executing")
    /\ \E S : chain \in Seq(S)
    /\ \A k \in 1 .. Len(chain) : chain[k].by \in Callers /\ op[chain[k].by].step = "saving"
    /\ \A j, k \in 1 .. Len(chain) : chain[j].by = chain[k].by => j = k

\* What the store does on its own brings no call under way that was not.
LEMMA StoreLinked ==
  ASSUME Linked, StoreStep, UNCHANGED pass
  PROVE  Linked'
  <1>1. PICK S : chain \in Seq(S)
    BY DEF Linked
  <1>2. CASE LineWritten
    <2> DEFINE by == Head(chain).by
    <2>1. chain # << >> /\ chain' = Tail(chain) /\ op' = Advanced(op, by)
      BY <1>2 DEF LineWritten
    <2>2. /\ Len(chain) \in Nat /\ Len(chain) >= 1 /\ Head(chain) = chain[1]
          /\ chain' \in Seq(S) /\ Len(chain') = Len(chain) - 1
          /\ \A k \in 1 .. Len(chain') : chain'[k] = chain[k + 1]
      BY <1>1, <2>1
    <2>3. by \in Callers /\ op[by].step = "saving" /\ \A k \in 1 .. Len(chain') : chain'[k].by # by
      BY <2>2 DEF Linked
    <2>4. DOMAIN op' = Callers
      BY <2>1 DEF Advanced
    <2>5. \A c \in Callers :
            /\ "step" \in DOMAIN op'[c]
            /\ op'[c].step # "none" => op[c].step # "none"
            /\ c # by /\ op[c].step = "saving" => op'[c].step = "saving"
      <3> TAKE c \in Callers
      <3>1. "step" \in DOMAIN op[c]
        BY DEF Linked
      <3>2. CASE c = by
        <4>1. op'[c] = [op[c] EXCEPT !.step = "done"]
          BY <2>1, <2>3, <3>2 DEF Advanced
        <4> QED  BY <2>3, <3>1, <3>2, <4>1
      <3>3. CASE c # by /\ op[c].step = "draining"
        <4>1. \E behind, step : op'[c] = [op[c] EXCEPT !.behind = behind, !.step = step]
          BY <2>1, <3>3 DEF Advanced
        <4> QED  BY <3>1, <3>3, <4>1
      <3>4. CASE c # by /\ op[c].step # "draining"
        <4>1. op'[c] = op[c]
          BY <2>1, <3>4 DEF Advanced
        <4> QED  BY <3>1, <4>1
      <3> QED  BY <3>2, <3>3, <3>4
    <2>6. \A k \in 1 .. Len(chain') : k + 1 \in 1 .. Len(chain)
      BY <2>2
    <2>7. \A k \in 1 .. Len(chain') : chain'[k].by \in Callers /\ op'[chain'[k].by].step = "saving"
      BY <2>2, <2>3, <2>5, <2>6 DEF Linked
    <2>8. \A j, k \in 1 .. Len(chain') : chain'[j].by = chain'[k].by => j = k
      <3> TAKE j, k \in 1 .. Len(chain')
      <3>1. chain[j + 1].by = chain[k + 1].by => j + 1 = k + 1
        BY <2>6 DEF Linked
      <3> QED  BY <2>2, <3>1
    <2> QED  BY <2>2, <2>4, <2>5, <2>7, <2>8 DEF Linked
  <1>3. CASE LineFails
    <2>1. chain' = << >> /\ op' = Rejected(op)
      BY <1>3 DEF LineFails
    <2>2. \A c \in Callers : "step" \in DOMAIN op'[c] /\ (op'[c].step # "none" => op[c].step # "none")
      <3> TAKE c \in Callers
      <3>1. op'[c] \in {op[c], [op[c] EXCEPT !.step = "failed"]} /\ "step" \in DOMAIN op[c]
            /\ (op'[c] # op[c] => op[c].step \in {"saving", "draining"})
        BY <2>1 DEF Rejected, Linked
      <3> QED  BY <3>1
    <2>3. DOMAIN op' = Callers /\ chain' \in Seq({}) /\ Len(chain') = 0
      BY <2>1 DEF Rejected
    <2> QED  BY <2>2, <2>3 DEF Linked
  <1>4. ASSUME NEW c \in Callers, op[c].step = "reading", op' = Fails(c), UNCHANGED chain
        PROVE  Linked'
    <2>1. /\ DOMAIN op' = Callers /\ op'[c].step = "failed" /\ "step" \in DOMAIN op'[c]
          /\ \A d \in Callers : d # c => op'[d] = op[d]
      BY <1>4 DEF Fails, Linked
    <2>2. \A k \in 1 .. Len(chain) : chain[k].by # c
      BY <1>4 DEF Linked
    <2> QED  BY <1>4, <2>1, <2>2 DEF Linked
  <1>5. ASSUME NEW c \in Callers, ReadsAndSaves(c) \/ ReadsPartly(c)
        PROVE  Linked'
    <2>1. op[c].step = "reading"
      BY <1>5 DEF ReadsAndSaves, ReadsPartly
    <2>2. CASE op' = Fails(c) /\ UNCHANGED chain
      BY <1>4, <2>1, <2>2
    <2>3. ASSUME NEW line, chain' = Append(chain, [by |-> c, line |-> line]), op' = [op EXCEPT ![c].step = "saving"]
          PROVE  Linked'
      <3> DEFINE entry == [by |-> c, line |-> line]
      <3>1. entry.by = c
        OBVIOUS
      <3>2. chain \in Seq(S \cup {entry})
        BY <1>1
      <3> HIDE DEF entry
      <3>3. /\ chain' \in Seq(S \cup {entry}) /\ Len(chain) \in Nat /\ Len(chain') = Len(chain) + 1
            /\ chain'[Len(chain) + 1] = entry /\ \A k \in 1 .. Len(chain) : chain'[k] = chain[k]
        BY <2>3, <3>2 DEF entry
      <3>4. /\ DOMAIN op' = Callers /\ op'[c].step = "saving" /\ "step" \in DOMAIN op'[c]
            /\ \A d \in Callers : d # c => op'[d] = op[d]
        BY <2>3 DEF Linked
      <3>5. \A k \in 1 .. Len(chain) : chain[k].by # c
        BY <2>1 DEF Linked
      <3>6. \A k \in 1 .. Len(chain') : k \in 1 .. Len(chain) \/ k = Len(chain) + 1
        BY <3>3
      <3>7. \A d \in Callers : "step" \in DOMAIN op'[d] /\ (op'[d].step # "none" => pass'[d].phase = "executing")
        BY <2>1, <3>4 DEF Linked
      <3>8. \A k \in 1 .. Len(chain') : chain'[k].by \in Callers /\ op'[chain'[k].by].step = "saving"
        BY <3>1, <3>3, <3>4, <3>5, <3>6 DEF Linked
      <3>9. \A j, k \in 1 .. Len(chain') : chain'[j].by = chain'[k].by => j = k
        BY <3>1, <3>3, <3>5, <3>6 DEF Linked
      <3> QED  BY <3>3, <3>4, <3>7, <3>8, <3>9 DEF Linked
    <2>4. \/ op' = Fails(c) /\ UNCHANGED chain
          \/ \E line : chain' = Append(chain, [by |-> c, line |-> line]) /\ op' = [op EXCEPT ![c].step = "saving"]
      BY <1>5 DEF ReadsAndSaves, ReadsPartly, Saves
    <2> QED  BY <2>2, <2>3, <2>4
  <1> QED  BY <1>2, <1>3, <1>5 DEF StoreStep

\* A pass moves while it has no call under way.
LEMMA PassLinked ==
  ASSUME Linked, NEW c \in Callers, UNCHANGED chain, pass \in [Passes -> Underway \cup {Idle}],
         \A k \in 1 .. Len(chain) : chain[k].by # c,
         DOMAIN op' = Callers, \A d \in Callers : d # c => op'[d] = op[d],
         "step" \in DOMAIN op'[c], op'[c].step # "none" => pass'[c].phase = "executing",
         \A d \in Callers : d # c => pass'[d] = pass[d]
  PROVE  Linked'
  BY DEF Linked

\* The run of a window is recorded: it is later than every one this process has run.
LEMMA RunIsNew ==
  ASSUME DistinctIds, OnceInv, Linked, NEW p \in Passes, RunRecorded(p)
  PROVE  OnceInv'
  <1>1. pass[p].phase = "executing" /\ pass[p] \in Underway
    <2>1. op[p].step # "none" /\ p \in Callers
      BY CallersAssumption DEF RunRecorded, Settles
    <2>2. pass[p].phase = "executing"
      BY <2>1 DEF Linked
    <2> QED  BY <2>2 DEF OnceInv, Typed, Idle
  <1> PICK i \in Places, now \in Clocks : pass[p].index = i /\ pass[p].now = now
    BY <1>1 DEF Underway
  <1> DEFINE id == List[i].id
             window == Due[i][now]
             earlier == {r \in ran : r[1] = <<id, window>>}
  <1>2. now <= clock /\ id \in Ids /\ window \in Nat /\ pass[p] # Idle
    <2>1. pass[p] # Idle
      BY <1>1 DEF Idle
    <2> QED  BY <2>1, IdsOfPlaces, DueFound DEF OnceInv, Typed
  <1>3. /\ last' = [last EXCEPT ![id] = window] /\ UNCHANGED <<clock, overlapped>>
        /\ Scan(p, i + 1, now)
        /\ ran' = ran \cup {<< <<id, window>>, 1 + Cardinality(earlier) >>}
    BY DEF RunRecorded, Executed, Current, Window
  <1>4. last \in [Ids -> Int]
    BY DEF OnceInv, Typed
  <1>5. last' \in [Ids -> Int] /\ last'[id] = window /\ \A other \in Ids : other # id => last'[other] = last[other]
    BY <1>2, <1>3, <1>4
  <1>6. ASSUME ~ overlapped
        PROVE  Recorded(now)' /\ RanBefore' /\ \A q \in Passes \ {p} : pass[q] = Idle
    <2>1. Alone /\ Fresh /\ RanBefore /\ Recorded(now)
      BY <1>2, <1>6 DEF OnceInv
    <2>2. \A q \in Passes \ {p} : pass[q] = Idle
      BY <1>2, <2>1 DEF Alone
    <2>3. window # 0 /\ last[id] # window
      BY <1>2, <2>1 DEF Fresh, Window, Current
    <2>4. \A j \in Places : List[j].id = id => j = i
      BY <1>2 DEF DistinctIds
    <2>5. Recorded(now)'
      <3>1. \A t \in Clocks : t \in Nat
        BY ClocksAdvance
      <3> SUFFICES ASSUME NEW j \in Places
                   PROVE  last'[List[j].id] = 0 \/ \E t \in Clocks : t <= now /\ last'[List[j].id] = Due[j][t]
        BY DEF Recorded
      <3>2. CASE j = i
        BY <1>2, <1>5, <3>1, <3>2
      <3>3. CASE j # i
        BY <1>5, <2>1, <2>4, <3>3, IdsOfPlaces DEF Recorded
      <3> QED  BY <3>2, <3>3
    <2>6. last[id] < window
      <3>1. CASE last[id] = 0
        BY <1>2, <2>3, <3>1
      <3>2. CASE last[id] # 0
        <4>1. PICK t \in Clocks : t <= now /\ last[id] = Due[i][t]
          BY <1>2, <2>1, <3>2 DEF Recorded
        <4>2. Due[i][t] <= window
          BY <1>2, <2>3, <3>2, <4>1, DueGrows
        <4> QED  BY <1>2, <1>4, <2>3, <4>1, <4>2
      <3> QED  BY <3>1, <3>2
    <2>7. earlier = {}
      <3> SUFFICES ASSUME NEW r \in ran, r[1] = <<id, window>> PROVE FALSE
        OBVIOUS
      <3>1. PICK j \in Places : r[1][1] = List[j].id /\ r[1][2] <= last[List[j].id]
        BY <2>1 DEF RanBefore
      <3>2. r[1][1] = id /\ r[1][2] = window
        OBVIOUS
      <3>3. window <= last[id]
        BY <3>1, <3>2
      <3> QED  BY <1>2, <1>4, <2>6, <3>3
    <2>8. ran' = ran \cup {<< <<id, window>>, 1 >>}
      <3>1. Cardinality({}) = 0
        BY FS_EmptySet
      <3> HIDE DEF earlier, id, window
      <3>2. Cardinality(earlier) = 0
        BY <2>7, <3>1
      <3> QED  BY <1>3, <3>2
    <2>9. RanBefore'
      <3> SUFFICES ASSUME NEW r \in ran'
                   PROVE  r[2] = 1 /\ \E j \in Places : r[1][1] = List[j].id /\ r[1][2] \in Int /\ r[1][2] <= last'[List[j].id]
        BY DEF RanBefore
      <3>1. CASE r \in ran
        <4>1. r[2] = 1
          BY <2>1, <3>1 DEF RanBefore
        <4>2. PICK j \in Places : r[1][1] = List[j].id /\ r[1][2] \in Int /\ r[1][2] <= last[List[j].id]
          BY <2>1, <3>1 DEF RanBefore
        <4>3. last[List[j].id] <= last'[List[j].id]
          <5>1. List[j].id \in Ids
            BY IdsOfPlaces
          <5> QED  BY <1>2, <1>4, <1>5, <2>6, <5>1
        <4>4. last[List[j].id] \in Int /\ last'[List[j].id] \in Int
          BY <1>4, <1>5, IdsOfPlaces
        <4>5. r[1][2] <= last'[List[j].id]
          BY <4>2, <4>3, <4>4
        <4> QED  BY <4>1, <4>2, <4>5
      <3>2. CASE r = << <<id, window>>, 1 >>
        <4>1. r[2] = 1 /\ r[1][1] = id /\ r[1][2] = window
          BY <3>2
        <4> QED  BY <1>2, <1>5, <4>1
      <3> QED  BY <2>8, <3>1, <3>2
    <2> QED  BY <2>2, <2>5, <2>9
  <1>7. i + 1 \in Nat /\ i + 1 >= 1
    BY <1>2, ListAssumption DEF Places
  <1> HIDE DEF id, window, earlier
  <1> QED  BY <1>2, <1>3, <1>5, <1>6, <1>7, Scans

LEMMA LinkedInit == Init => Linked
  <1> SUFFICES ASSUME Init PROVE Linked
    OBVIOUS
  <1>1. chain = << >> /\ op = [c \in Callers |-> NoOp]
    BY DEF Init, StoreInit
  <1>2. DOMAIN op = Callers /\ chain \in Seq({}) /\ Len(chain) = 0
        /\ \A c \in Callers : "step" \in DOMAIN op[c] /\ op[c].step = "none"
    BY <1>1 DEF NoOp
  <1> QED  BY <1>2 DEF Linked

LEMMA OnceStep == DistinctIds /\ OnceInv /\ Linked /\ [Next]_vars => OnceInv' /\ Linked'
  <1> SUFFICES ASSUME DistinctIds, OnceInv, Linked, [Next]_vars PROVE OnceInv' /\ Linked'
    OBVIOUS
  <1>0. /\ pass \in [Passes -> Underway \cup {Idle}] /\ Callers = Passes /\ DOMAIN op = Callers
        /\ clock \in Clocks /\ clock \in Int /\ last \in [Ids -> Int]
        /\ \A p \in Passes : pass[p] # Idle => pass[p] \in Underway /\ pass[p].now <= clock
    <2>1. clock \in Clocks
      BY DEF OnceInv, Typed
    <2> QED  BY <2>1, CallersAssumption, ClocksAdvance DEF OnceInv, Typed, Linked
  <1>1. ASSUME UNCHANGED <<scheduleVars, ran, overlapped>> PROVE OnceInv'
    <2>1. Typed' /\ (Alone => Alone') /\ (Fresh => Fresh') /\ (RanBefore => RanBefore')
          /\ \A now : Recorded(now) => Recorded(now)'
      BY <1>1 DEF scheduleVars, OnceInv, Typed, Alone, Fresh, RanBefore, Recorded, Window, Current
    <2> QED  BY <1>1, <2>1 DEF OnceInv, scheduleVars, Recorded
  <1>2. ASSUME UNCHANGED <<op, chain, pass>> PROVE Linked'
    BY <1>2 DEF Linked
  \* No caller of the chain has its pass away from the run.
  <1>3. \A c \in Callers : op[c].step # "saving" => \A k \in 1 .. Len(chain) : chain[k].by # c
    BY DEF Linked
  <1>4. CASE UNCHANGED vars
    BY <1>1, <1>2, <1>4 DEF vars, storeVars, scheduleVars
  <1>5. ASSUME NEW p \in Passes, Begin(p) PROVE OnceInv' /\ Linked'
    <2> PICK now \in Clocks : now = clock
      BY <1>0
    <2>1. /\ pass[p] = Idle /\ UNCHANGED <<clock, last, ran, op, chain>> /\ Scan(p, 1, now)
          /\ overlapped' = (overlapped \/ \E other \in Passes \ {p} : pass[other] # Idle)
      BY <1>5 DEF Begin, RunDue, storeVars
    <2>2. ~ overlapped' => ~ overlapped /\ Recorded(now)' /\ RanBefore' /\ \A q \in Passes \ {p} : pass[q] = Idle
      BY <2>1 DEF OnceInv, Recorded, RanBefore
    <2>3. OnceInv'
      <3>1. now <= clock /\ last' \in [Ids -> Int]
        BY <1>0, <2>1
      <3> QED  BY <2>1, <2>2, <3>1, Scans
    <2>4. op[p].step = "none"
      BY <1>0, <2>1 DEF Linked, Idle
    <2>5. \A d \in Passes : d # p => pass'[d] = pass[d]
      BY <1>0, <2>1 DEF Scan
    <2> QED  BY <1>0, <1>3, <2>1, <2>3, <2>4, <2>5, PassLinked DEF Linked
  <1>6. ASSUME NEW p \in Passes, PolicyAllows(p) PROVE OnceInv' /\ Linked'
    <2>1. /\ pass[p].phase = "checking" /\ pass' = [pass EXCEPT ![p].phase = "executing"]
          /\ UNCHANGED <<clock, last, ran, overlapped, chain>> /\ op[p] = NoOp
      BY <1>6 DEF PolicyAllows, Allowed, AppendEvent
    <2> DEFINE call == [step |-> IF broken THEN "failed" ELSE IF chain = << >> THEN "reading" ELSE "draining",
                        session |-> Current(p).id, event |-> Window(p), behind |-> Len(chain)]
    <2>2. op' = [op EXCEPT ![p] = call] /\ "step" \in DOMAIN call
      BY <1>6 DEF PolicyAllows, AppendEvent
    <2> HIDE DEF call
    <2>3. pass[p] # Idle /\ pass[p] \in Underway
      BY <1>0, <2>1 DEF Idle
    <2>4. OnceInv'
      BY <2>1, <2>3, Settled
    <2>5. op[p].step = "none"
      BY <2>1 DEF NoOp
    <2>6. pass'[p].phase = "executing" /\ \A d \in Passes : d # p => pass'[d] = pass[d]
      BY <1>0, <2>1, <2>3 DEF Underway
    <2>7. DOMAIN op' = Callers /\ op'[p] = call /\ \A d \in Callers : d # p => op'[d] = op[d]
      BY <1>0, <2>2
    <2> QED  BY <1>0, <1>3, <2>1, <2>2, <2>4, <2>5, <2>6, <2>7, PassLinked
  <1>7. ASSUME NEW p \in Passes, PolicyRefuses(p) PROVE OnceInv' /\ Linked'
    <2>1. pass[p].phase = "checking" /\ UNCHANGED <<clock, last, ran, overlapped, op, chain>>
      BY <1>7 DEF PolicyRefuses, Refused, PolicyThrows, Fault, history
    <2>2. pass[p] # Idle /\ pass[p] \in Underway
      BY <1>0, <2>1 DEF Idle
    <2>3. op[p].step = "none"
      BY <1>0, <2>1 DEF Linked
    <2>4. CASE pass' = [pass EXCEPT ![p] = Idle]
      <3>1. OnceInv'
        BY <2>1, <2>4, Settled
      <3>2. \A d \in Passes : d # p => pass'[d] = pass[d]
        BY <1>0, <2>4
      <3> QED  BY <1>0, <1>3, <2>1, <2>3, <3>1, <3>2, PassLinked DEF Linked
    <2>5. CASE Scan(p, pass[p].index + 1, pass[p].now)
      <3> PICK now \in Clocks, from \in Nat : now = pass[p].now /\ from = pass[p].index + 1
        BY <2>2, ListAssumption DEF Underway, Places
      <3>1. now <= clock /\ from >= 1
        BY <1>0, <2>2, ListAssumption DEF Underway, Places
      <3>2. ~ overlapped' => Recorded(now)' /\ RanBefore' /\ \A q \in Passes \ {p} : pass[q] = Idle
        <4>1. ~ overlapped => Recorded(now) /\ RanBefore /\ \A q \in Passes \ {p} : pass[q] = Idle
          BY <2>2 DEF OnceInv, Alone
        <4> QED  BY <2>1, <4>1 DEF Recorded, RanBefore
      <3>3. Scan(p, from, now)
        BY <2>5
      <3>4. OnceInv'
        BY <1>0, <2>1, <3>1, <3>2, <3>3, Scans
      <3>5. \A d \in Passes : d # p => pass'[d] = pass[d]
        BY <1>0, <3>3 DEF Scan
      <3> QED  BY <1>0, <1>3, <2>1, <2>3, <3>4, <3>5, PassLinked DEF Linked
    <2> QED  BY <1>7, <2>4, <2>5 DEF PolicyRefuses, Refused, PolicyThrows
  <1>8. ASSUME NEW p \in Passes, RunRecorded(p) \/ RunLost(p) PROVE OnceInv' /\ Linked'
    <2>1. op[p].step \in {"done", "failed"} /\ op' = [op EXCEPT ![p] = NoOp] /\ UNCHANGED chain
      BY <1>8 DEF RunRecorded, RunLost, Settles
    <2>2. DOMAIN op' = Callers /\ op'[p] = NoOp /\ \A d \in Callers : d # p => op'[d] = op[d]
      BY <1>0, <2>1
    <2>3. "step" \in DOMAIN NoOp /\ NoOp.step = "none"
      BY DEF NoOp
    <2>4. OnceInv'
      <3>1. CASE RunRecorded(p)
        BY <3>1, RunIsNew
      <3>2. CASE RunLost(p)
        BY <3>2, Settled DEF RunLost, ExecutionFails, history
      <3> QED  BY <1>8, <3>1, <3>2
    <2>5. \A d \in Passes : d # p => pass'[d] = pass[d]
      BY <1>0, <1>8 DEF RunRecorded, RunLost, Executed, ExecutionFails, Scan
    <2> QED  BY <1>0, <1>3, <2>1, <2>2, <2>3, <2>4, <2>5, PassLinked
  <1>9. ASSUME NEW p \in Passes, Reads(p) PROVE OnceInv' /\ Linked'
    <2>1. StoreStep /\ UNCHANGED <<scheduleVars, ran, overlapped>>
      BY <1>0, <1>9 DEF Reads, StoreStep, history
    <2> QED  BY <1>1, <2>1, StoreLinked DEF scheduleVars
  <1>10. CASE LineAdded \/ WriteFails
    <2>1. StoreStep /\ UNCHANGED <<scheduleVars, ran, overlapped>>
      BY <1>10 DEF LineAdded, WriteFails, StoreStep, history
    <2> QED  BY <1>1, <2>1, StoreLinked DEF scheduleVars
  <1>11. CASE Restart
    <2>1. /\ last' = [id \in Ids |-> 0] /\ pass' = [p \in Passes |-> Idle] /\ ran' = {} /\ UNCHANGED clock
          /\ chain' = << >> /\ op' = [c \in Callers |-> NoOp]
      BY <1>11 DEF Restart, Restarts
    <2>2. \A p \in Passes : pass'[p] = Idle
      BY <2>1
    <2>3. Typed' /\ Alone' /\ Fresh' /\ RanBefore' /\ Recorded(clock)'
      BY <1>0, <2>1, <2>2, IdsOfPlaces DEF Typed, Alone, Fresh, RanBefore, Recorded
    <2>4. OnceInv'
      BY <2>2, <2>3 DEF OnceInv, Recorded
    <2>5. DOMAIN op' = Callers /\ chain' \in Seq({}) /\ Len(chain') = 0
          /\ \A c \in Callers : "step" \in DOMAIN op'[c] /\ op'[c].step = "none"
      BY <2>1 DEF NoOp
    <2> QED  BY <2>4, <2>5 DEF Linked
  <1>12. CASE Time
    <2>1. clock + TimeStep <= Horizon /\ clock' = clock + TimeStep /\ UNCHANGED <<last, pass, ran, overlapped, op, chain>>
      BY <1>12 DEF Time, Tick, storeVars, history
    <2>2. clock' \in Clocks /\ clock <= clock' /\ clock' \in Int /\ \A t \in Clocks : t \in Int
      BY <1>0, <2>1, ClocksAdvance, ClockAssumption
    <2>3. Typed'
      <3>1. \A p \in Passes : pass[p] # Idle => pass[p].now \in Int
        BY <1>0, <2>2 DEF Underway
      <3> QED  BY <1>0, <2>1, <2>2, <3>1 DEF Typed
    <2>4. Recorded(clock) => Recorded(clock)'
      BY <1>0, <2>1, <2>2 DEF Recorded
    <2>5. /\ (Alone => Alone') /\ (Fresh => Fresh') /\ (RanBefore => RanBefore')
          /\ \A p \in Passes : Recorded(pass[p].now) => Recorded(pass[p].now)'
      BY <2>1 DEF Alone, Fresh, RanBefore, Recorded, Window, Current
    <2>6. OnceInv'
      BY <2>1, <2>3, <2>4, <2>5 DEF OnceInv
    <2> QED  BY <1>2, <2>1, <2>6
  <1> QED  BY <1>4, <1>5, <1>6, <1>7, <1>8, <1>9, <1>10, <1>11, <1>12 DEF Next

(***************************************************************************)
(* One process whose passes do not overlap runs a window once: the windows *)
(* of a schedule only grow, so that what it remembers, the last one, keeps *)
(* all of them away (ScheduleExecutor.runDue(), last).                     *)
(***************************************************************************)
THEOREM WindowsRunOnce ==
  ASSUME DistinctIds
  PROVE  Spec => []RunsOnce
  <1>1. Init => OnceInv /\ Linked
    BY OnceInit, LinkedInit
  <1>2. OnceInv /\ Linked /\ [Next]_vars => OnceInv' /\ Linked'
    BY OnceStep
  <1>3. OnceInv => RunsOnce
    BY DEF OnceInv, RanBefore, RunsOnce
  <1> QED  BY <1>1, <1>2, <1>3, PTL DEF Spec

(***************************************************************************)
(* The file of the store: the lines a store adds are the first of those it *)
(* was asked to save, and what waits in its chain are the next ones.  Only *)
(* a store that was made on a file whose last line has no end, or one      *)
(* whose chain is rejected, has such a line before it.                     *)
(***************************************************************************)
IsSequence(s) == \E S : s \in Seq(S)
IsSnapshot(line) == \E session, evts : IsSequence(evts) /\ line = Snapshot(session, evts)

\* The saves that have been written: lines of their own, and the one joined to a line without its end.
Added == Len(lines) - first + IF gap /\ ~ cut THEN 1 ELSE 0

StoreTyped ==
    /\ IsSequence(lines) /\ IsSequence(chain) /\ IsSequence(saved)
    /\ \A i \in 1 .. Len(lines) : lines[i] = Torn \/ IsSnapshot(lines[i])
    /\ \A i \in 1 .. Len(saved) : IsSnapshot(saved[i])
    /\ first \in 0 .. Len(lines)
    /\ cut \in BOOLEAN /\ gap \in BOOLEAN

CutFirst ==
    /\ cut => lines # << >>
    /\ cut /\ ~ broken => gap /\ Len(lines) = first
    /\ gap => first >= 1
    /\ gap /\ ~ broken /\ ~ cut => lines[first] = Torn

ChainNext ==
    /\ \A k \in 1 .. Len(chain) : chain[k].line = saved[Added + k]
    /\ broken => chain = << >>
    /\ ~ broken => Added + Len(chain) = Len(saved)

StoreInv == StoreTyped /\ CutFirst /\ ChainNext /\ WritesInOrder

LEMMA SnapshotWhole ==
  ASSUME NEW line, IsSnapshot(line)
  PROVE  line # Torn
  <1>1. PICK session, evts : line = Snapshot(session, evts)
    BY DEF IsSnapshot
  <1>2. "session" \in DOMAIN line
    BY <1>1 DEF Snapshot
  <1>3. "session" \notin DOMAIN Torn
    BY DEF Torn
  <1> QED  BY <1>2, <1>3

\* A sequence with one element more, of whatever kind.
LEMMA Extended ==
  ASSUME NEW s, IsSequence(s), NEW e
  PROVE  /\ IsSequence(Append(s, e)) /\ Len(s) \in Nat /\ Len(Append(s, e)) = Len(s) + 1
         /\ Append(s, e)[Len(s) + 1] = e /\ \A i \in 1 .. Len(s) : Append(s, e)[i] = s[i]
         /\ Append(s, e) # << >> /\ (s = << >> <=> Len(s) = 0)
         /\ DOMAIN s = 1 .. Len(s) /\ DOMAIN Append(s, e) = 1 .. Len(s) + 1
  <1>1. PICK S : s \in Seq(S)
    BY DEF IsSequence
  <1>2. s \in Seq(S \cup {e})
    BY <1>1
  <1>3. Append(s, e) \in Seq(S \cup {e})
    BY <1>2
  <1> QED  BY <1>1, <1>2, <1>3 DEF IsSequence

\* A sequence with its last element replaced.
LEMMA Replaced ==
  ASSUME NEW s, IsSequence(s), s # << >>, NEW e, NEW t, t = [s EXCEPT ![Len(s)] = e]
  PROVE  /\ IsSequence(t) /\ Len(t) = Len(s) /\ Len(s) \in Nat /\ Len(s) >= 1
         /\ t[Len(s)] = e /\ \A i \in 1 .. Len(s) : i # Len(s) => t[i] = s[i]
         /\ DOMAIN t = 1 .. Len(s)
  <1>1. PICK S : s \in Seq(S)
    BY DEF IsSequence
  <1>2. s \in Seq(S \cup {e}) /\ Len(s) \in Nat /\ Len(s) >= 1
    BY <1>1
  <1>3. t \in Seq(S \cup {e}) /\ Len(t) = Len(s)
    BY <1>2
  <1>4. t[Len(s)] = e /\ \A i \in 1 .. Len(s) : i # Len(s) => t[i] = s[i]
    BY <1>2
  <1>5. DOMAIN t = 1 .. Len(t)
    BY <1>3
  <1> QED  BY <1>2, <1>3, <1>4, <1>5 DEF IsSequence

LEMMA Shortened ==
  ASSUME NEW s, IsSequence(s), s # << >>
  PROVE  /\ IsSequence(Tail(s)) /\ Len(s) \in Nat /\ Len(s) >= 1 /\ Len(Tail(s)) = Len(s) - 1 /\ Head(s) = s[1]
         /\ \A k \in 1 .. Len(Tail(s)) : Tail(s)[k] = s[k + 1]
  <1>1. PICK S : s \in Seq(S)
    BY DEF IsSequence
  <1>2. Tail(s) \in Seq(S)
    BY <1>1
  <1> QED  BY <1>1, <1>2 DEF IsSequence

LEMMA Empty == IsSequence(<< >>) /\ Len(<< >>) = 0
  <1>1. << >> \in Seq(Nat)
    OBVIOUS
  <1> QED  BY <1>1 DEF IsSequence

LEMMA FileInit == Init => StoreInv
  <1> SUFFICES ASSUME Init PROVE StoreInv
    OBVIOUS
  <1>1. /\ lines = File /\ first = Len(File) /\ chain = << >> /\ saved = << >>
        /\ broken = FALSE /\ cut = FALSE /\ gap = FALSE
    BY DEF Init, StoreInit
  <1> DEFINE n == Cardinality(Sessions)
             S == {Snapshot(SetToSeq(Sessions)[i], << >>) : i \in 1 .. n}
  <1>2. n \in Nat
    <2>1. IsFiniteSet(1 .. Len(List))
      BY ListAssumption, FS_Interval
    <2> DEFINE f == [i \in 1 .. Len(List) |-> List[i].id]
    <2>2. IsFiniteSet({List[i].id : i \in 1 .. Len(List)})
      <3>1. f \in Surjection(1 .. Len(List), {List[i].id : i \in 1 .. Len(List)})
        BY DEF Surjection
      <3> HIDE DEF f
      <3> QED  BY <2>1, <3>1, FS_Surjection
    <2>3. Sessions = {List[i].id : i \in 1 .. Len(List)}
      BY CallersAssumption, ListAssumption DEF Ids
    <2> QED  BY <2>2, <2>3, FS_CardinalityType
  <1>3. File \in Seq(S) /\ Len(File) = n /\ \A i \in 1 .. n : File[i] = Snapshot(SetToSeq(Sessions)[i], << >>)
    BY <1>2 DEF File
  <1>4. \A i \in 1 .. n : IsSnapshot(File[i])
    BY <1>3, Empty DEF IsSnapshot
  <1>5. IsSequence(lines)
    <2>1. lines \in Seq(S)
      BY <1>1, <1>3
    <2> HIDE DEF S
    <2> QED  BY <2>1 DEF IsSequence
  <1> HIDE DEF S, n
  <1>6. StoreTyped
    <2>1. cut \in BOOLEAN /\ gap \in BOOLEAN
      BY <1>1
    <2>2. Len(lines) = n /\ first \in 0 .. Len(lines) /\ \A i \in 1 .. Len(lines) : lines[i] = Torn \/ IsSnapshot(lines[i])
      BY <1>1, <1>2, <1>3, <1>4
    <2>3. IsSequence(chain) /\ IsSequence(saved) /\ \A i \in 1 .. Len(saved) : IsSnapshot(saved[i])
      BY <1>1, Empty
    <2> QED  BY <1>5, <2>1, <2>2, <2>3, Zenon DEF StoreTyped
  <1>7. CutFirst
    BY <1>1 DEF CutFirst
  <1>8. ChainNext /\ WritesInOrder
    BY <1>1, <1>2, <1>3 DEF ChainNext, WritesInOrder, Added
  <1> QED  BY <1>6, <1>7, <1>8 DEF StoreInv

\* What a line adds to a file: a line of its own, or it spoils the last one for good.
Grown(line) ==
    /\ IsSequence(lines') /\ Len(lines') = Len(lines) + 1 /\ lines'[Len(lines) + 1] = line
    /\ \A i \in 1 .. Len(lines) : lines'[i] = lines[i]
Spoilt ==
    /\ IsSequence(lines') /\ Len(lines') = Len(lines) /\ lines'[Len(lines)] = Torn /\ Len(lines) >= 1
    /\ \A i \in 1 .. Len(lines) : i # Len(lines) => lines'[i] = lines[i]

LEMMA LineJoins ==
  ASSUME StoreInv, NEW line, lines' = WithLine(line)
  PROVE  /\ ~ cut => Grown(line)
         /\ cut => Spoilt
  <1>1. IsSequence(lines) /\ (cut => lines # << >>)
    BY DEF StoreInv, StoreTyped, CutFirst
  <1>2. CASE cut
    <2>1. lines' = [lines EXCEPT ![Len(lines)] = Torn]
      BY <1>2 DEF WithLine
    <2>2. /\ IsSequence(lines') /\ Len(lines') = Len(lines) /\ Len(lines) >= 1
          /\ lines'[Len(lines)] = Torn /\ \A i \in 1 .. Len(lines) : i # Len(lines) => lines'[i] = lines[i]
      <3> DEFINE spoilt == [lines EXCEPT ![Len(lines)] = Torn]
      <3>1. spoilt = [lines EXCEPT ![Len(lines)] = Torn] /\ lines' = spoilt
        BY <2>1
      <3> HIDE DEF spoilt
      <3>2. /\ IsSequence(spoilt) /\ Len(spoilt) = Len(lines) /\ Len(lines) >= 1
            /\ spoilt[Len(lines)] = Torn /\ \A i \in 1 .. Len(lines) : i # Len(lines) => spoilt[i] = lines[i]
        BY <1>1, <1>2, <3>1, Replaced, Zenon
      <3> QED  BY <3>1, <3>2, Zenon
    <2> QED  BY <1>2, <2>2 DEF Spoilt
  <1>3. CASE ~ cut
    <2>1. lines' = Append(lines, line)
      BY <1>3 DEF WithLine
    <2> QED  BY <1>1, <1>3, <2>1, Extended DEF Grown
  <1> QED  BY <1>2, <1>3

\* The first line of the chain is the next save.
LEMMA FirstOfChain ==
  ASSUME StoreInv, chain # << >>
  PROVE  /\ ~ broken /\ Len(lines) \in Nat /\ Len(saved) \in Nat /\ first \in Nat /\ first <= Len(lines)
         /\ Added \in Nat /\ Added + 1 \in 1 .. Len(saved)
         /\ Head(chain) = chain[1] /\ Head(chain).line = saved[Added + 1] /\ IsSnapshot(Head(chain).line)
         /\ (cut => Added = 0 /\ gap /\ Len(lines) = first)
         /\ (~ cut => Added = Len(lines) - first + Joined)
  <1>1. /\ IsSequence(lines) /\ IsSequence(chain) /\ IsSequence(saved) /\ first \in 0 .. Len(lines)
        /\ \A i \in 1 .. Len(saved) : IsSnapshot(saved[i])
    BY DEF StoreInv, StoreTyped
  <1>2. Len(lines) \in Nat /\ Len(saved) \in Nat /\ first \in Nat /\ first <= Len(lines)
    BY <1>1, Extended
  <1>3. ~ broken
    BY DEF StoreInv, ChainNext
  <1>4. Len(chain) \in Nat /\ Len(chain) >= 1 /\ Head(chain) = chain[1]
    BY <1>1, Shortened
  <1>5. Added \in Nat /\ (cut => Added = 0 /\ gap /\ Len(lines) = first) /\ (~ cut => Added = Len(lines) - first + Joined)
    BY <1>2, <1>3 DEF StoreInv, CutFirst, Added, Joined
  <1>6. Added + Len(chain) = Len(saved) /\ Head(chain).line = saved[Added + 1]
    BY <1>3, <1>4 DEF StoreInv, ChainNext
  <1>7. Added + 1 \in 1 .. Len(saved)
    BY <1>2, <1>4, <1>5, <1>6
  <1> QED  BY <1>1, <1>2, <1>3, <1>4, <1>5, <1>6, <1>7

\* What an append leaves of the next save, or of a part of it, is in its order.
LEMMA OrderKept ==
  ASSUME StoreInv, chain # << >>, NEW part, (part = Torn /\ broken') \/ part = Head(chain).line,
         lines' = WithLine(part), UNCHANGED <<saved, first, gap>>
  PROVE  /\ IsSequence(lines') /\ lines' # << >> /\ Len(lines') >= Len(lines)
         /\ \A i \in 1 .. Len(lines') : lines'[i] = Torn \/ IsSnapshot(lines'[i])
         /\ WritesInOrder'
  <1> DEFINE line == Head(chain).line
  <1>1. /\ ~ broken /\ Len(lines) \in Nat /\ Len(saved) \in Nat /\ first \in Nat /\ first <= Len(lines)
        /\ Added \in Nat /\ Added + 1 \in 1 .. Len(saved) /\ line = saved[Added + 1] /\ IsSnapshot(line)
        /\ (cut => Added = 0 /\ gap /\ Len(lines) = first)
        /\ (~ cut => Added = Len(lines) - first + Joined)
    BY FirstOfChain
  <1> HIDE DEF line
  <1>2. \A i \in 1 .. Len(lines) : lines[i] = Torn \/ IsSnapshot(lines[i])
    BY DEF StoreInv, StoreTyped
  <1>3. (part = Torn /\ broken') \/ (part = line /\ IsSnapshot(part))
    BY <1>1 DEF line
  <1>4. Joined' = Joined /\ Joined \in {0, 1}
    BY DEF Joined
  <1>5. /\ \A i \in first + 1 .. Len(lines) : i - first + Joined <= Len(saved) /\ lines[i] = saved[i - first + Joined]
        /\ gap /\ Len(lines) > first => lines[first] = Torn
    BY <1>1 DEF StoreInv, WritesInOrder
  <1>6. CASE ~ cut
    <2>1. /\ IsSequence(lines') /\ Len(lines') = Len(lines) + 1 /\ lines'[Len(lines) + 1] = part
          /\ \A i \in 1 .. Len(lines) : lines'[i] = lines[i]
      BY <1>6, LineJoins DEF Grown
    <2>2. \A i \in 1 .. Len(lines') : i \in 1 .. Len(lines) \/ i = Len(lines) + 1
      BY <1>1, <2>1
    <2>3. \A i \in 1 .. Len(lines') : lines'[i] = Torn \/ IsSnapshot(lines'[i])
      BY <1>2, <1>3, <2>1, <2>2
    <2>4. ASSUME NEW i \in first + 1 .. Len(lines')
          PROVE  \/ i - first + Joined <= Len(saved) /\ lines'[i] = saved[i - first + Joined]
                 \/ lines'[i] = Torn /\ i = Len(lines') /\ broken'
      <3>1. CASE i \in first + 1 .. Len(lines)
        <4>1. lines'[i] = lines[i]
          BY <1>1, <2>1, <3>1
        <4> QED  BY <1>5, <2>4, <3>1, <4>1
      <3>2. CASE i = Len(lines) + 1
        <4>1. i - first + Joined = Added + 1
          BY <1>1, <1>4, <1>6, <3>2
        <4>2. lines'[i] = line \/ (lines'[i] = Torn /\ broken' /\ i = Len(lines'))
          BY <1>3, <2>1, <3>2
        <4> QED  BY <1>1, <4>1, <4>2
      <3> QED  BY <1>1, <2>1, <3>1, <3>2
    <2>5. gap => lines'[first] = Torn
      <3> SUFFICES ASSUME gap PROVE lines'[first] = Torn
        OBVIOUS
      <3>1. lines[first] = Torn
        BY <1>1, <1>6 DEF StoreInv, CutFirst
      <3>2. CASE first >= 1
        BY <1>1, <2>1, <3>1, <3>2
      <3>3. CASE first = 0
        <4>1. FALSE
          BY <3>3 DEF StoreInv, CutFirst
        <4> QED  BY <4>1
      <3> QED  BY <1>1, <3>2, <3>3
    <2>6. WritesInOrder'
      BY <1>4, <2>4, <2>5 DEF WritesInOrder
    <2>7. lines' # << >>
      BY <1>1, <2>1, Empty
    <2> QED  BY <1>1, <2>1, <2>3, <2>6, <2>7
  <1>7. CASE cut
    <2>1. /\ IsSequence(lines') /\ Len(lines') = Len(lines) /\ lines'[Len(lines)] = Torn /\ Len(lines) >= 1
          /\ \A i \in 1 .. Len(lines) : i # Len(lines) => lines'[i] = lines[i]
      BY <1>7, LineJoins DEF Spoilt
    <2>2. \A i \in 1 .. Len(lines') : lines'[i] = Torn \/ IsSnapshot(lines'[i])
      BY <1>2, <2>1
    <2>3. WritesInOrder'
      BY <1>1, <1>7, <2>1 DEF WritesInOrder
    <2>4. lines' # << >>
      BY <2>1, Empty
    <2> QED  BY <1>1, <2>1, <2>2, <2>3, <2>4
  <1> QED  BY <1>6, <1>7

LEMMA WriteKeepsStore ==
  ASSUME StoreInv, LineWritten
  PROVE  StoreInv'
  <1> DEFINE line == Head(chain).line
  <1>1. /\ chain # << >> /\ lines' = WithLine(line) /\ cut' = FALSE /\ chain' = Tail(chain)
        /\ UNCHANGED <<broken, saved, first, gap>>
    BY DEF LineWritten, Written
  <1>2. /\ IsSequence(chain) /\ IsSequence(saved) /\ gap \in BOOLEAN /\ (gap => first >= 1)
        /\ \A i \in 1 .. Len(saved) : IsSnapshot(saved[i])
    BY DEF StoreInv, StoreTyped, CutFirst
  <1>3. /\ ~ broken /\ Len(lines) \in Nat /\ Len(saved) \in Nat /\ first \in Nat /\ first <= Len(lines)
        /\ Added \in Nat /\ (cut => Added = 0 /\ gap /\ Len(lines) = first)
        /\ (~ cut => Added = Len(lines) - first + Joined)
    BY <1>1, FirstOfChain
  <1>4. /\ IsSequence(chain') /\ Len(chain) \in Nat /\ Len(chain) >= 1 /\ Len(chain') = Len(chain) - 1
        /\ \A k \in 1 .. Len(chain') : chain'[k] = chain[k + 1]
    BY <1>1, <1>2, Shortened
  <1>5. /\ IsSequence(lines') /\ lines' # << >> /\ Len(lines') >= Len(lines)
        /\ \A i \in 1 .. Len(lines') : lines'[i] = Torn \/ IsSnapshot(lines'[i])
        /\ WritesInOrder'
    BY <1>1, OrderKept
  <1>6. Len(lines') = (IF cut THEN Len(lines) ELSE Len(lines) + 1) /\ (cut => lines'[Len(lines)] = Torn)
        /\ (~ cut => \A i \in 1 .. Len(lines) : lines'[i] = lines[i])
    BY <1>1, LineJoins DEF Grown, Spoilt
  <1> HIDE DEF line
  <1>7. Added' = Added + 1
    <2>1. Added' = Len(lines') - first + Joined
      BY <1>1 DEF Added, Joined
    <2>2. Joined \in Nat /\ (gap => Joined = 1)
      BY DEF Joined
    <2>3. CASE cut
      <3>1. Len(lines') = first /\ Added = 0 /\ Joined = 1
        BY <1>3, <1>6, <2>2, <2>3
      <3> HIDE DEF Added
      <3> QED  BY <1>3, <2>1, <3>1
    <2>4. CASE ~ cut
      <3>1. Len(lines') = Len(lines) + 1 /\ Added = Len(lines) - first + Joined
        BY <1>3, <1>6, <2>4
      <3> QED  BY <1>3, <2>1, <2>2, <3>1
    <2> QED  BY <2>3, <2>4
  <1>8. StoreTyped'
    <2>1. first' \in 0 .. Len(lines')
      BY <1>1, <1>3, <1>6
    <2> QED  BY <1>1, <1>2, <1>4, <1>5, <2>1 DEF StoreTyped
  <1>9. CutFirst'
    <2>1. gap => lines'[first] = Torn
      <3> SUFFICES ASSUME gap PROVE lines'[first] = Torn
        OBVIOUS
      <3>1. CASE cut
        BY <1>3, <1>6, <3>1
      <3>2. CASE ~ cut
        <4>1. lines[first] = Torn /\ first \in 1 .. Len(lines)
          BY <1>2, <1>3, <3>2 DEF StoreInv, CutFirst
        <4> QED  BY <1>6, <3>2, <4>1
      <3> QED  BY <3>1, <3>2
    <2>2. ~ cut' /\ lines' # << >>
      BY <1>1, <1>5
    <2> QED  BY <1>1, <1>2, <2>1, <2>2, Zenon DEF CutFirst
  <1>10. ChainNext'
    <2>1. \A k \in 1 .. Len(chain') : chain'[k].line = saved[Added + 1 + k]
      <3> TAKE k \in 1 .. Len(chain')
      <3>1. k + 1 \in 1 .. Len(chain) /\ Added + 1 + k = Added + (k + 1)
        BY <1>3, <1>4
      <3>2. chain[k + 1].line = saved[Added + (k + 1)]
        BY <3>1 DEF StoreInv, ChainNext
      <3> QED  BY <1>4, <3>1, <3>2
    <2>2. Added + Len(chain) = Len(saved)
      BY <1>3 DEF StoreInv, ChainNext
    <2>3. Added + 1 + Len(chain') = Len(saved)
      <3>1. Added \in Nat /\ Len(chain) \in Nat /\ Len(chain') = Len(chain) - 1
        BY <1>3, <1>4
      <3> HIDE DEF Added
      <3> QED  BY <2>2, <3>1
    <2> QED  BY <1>1, <1>3, <1>7, <2>1, <2>3 DEF ChainNext
  <1> QED  BY <1>5, <1>8, <1>9, <1>10 DEF StoreInv

\* What there is of an append that is not over, whatever is made of it.
LEMMA PartKept ==
  ASSUME StoreInv, chain # << >>, WrittenInPart(Head(chain).line), broken', UNCHANGED <<saved, first, gap>>
  PROVE  /\ IsSequence(lines') /\ Len(lines') \in Nat /\ Len(lines') >= Len(lines)
         /\ \A i \in 1 .. Len(lines') : lines'[i] = Torn \/ IsSnapshot(lines'[i])
         /\ cut' \in BOOLEAN /\ (cut' => lines' # << >>)
         /\ WritesInOrder'
  <1>1. /\ IsSequence(lines) /\ \A i \in 1 .. Len(lines) : lines[i] = Torn \/ IsSnapshot(lines[i])
        /\ cut \in BOOLEAN /\ (cut => lines # << >>) /\ Len(lines) \in Nat
    BY Extended DEF StoreInv, StoreTyped, CutFirst
  <1>2. CASE UNCHANGED <<lines, cut>>
    <2>1. WritesInOrder'
      BY <1>2 DEF StoreInv, WritesInOrder, Joined
    <2> QED  BY <1>1, <1>2, <2>1
  <1>3. ASSUME NEW part, part = Torn \/ part = Head(chain).line, lines' = WithLine(part), cut' \in BOOLEAN
        PROVE  /\ IsSequence(lines') /\ Len(lines') \in Nat /\ Len(lines') >= Len(lines)
               /\ \A i \in 1 .. Len(lines') : lines'[i] = Torn \/ IsSnapshot(lines'[i])
               /\ cut' \in BOOLEAN /\ (cut' => lines' # << >>)
               /\ WritesInOrder'
    BY <1>3, OrderKept, Extended
  <1>4. \/ UNCHANGED <<lines, cut>>
        \/ \E part : (part = Torn \/ part = Head(chain).line) /\ lines' = WithLine(part) /\ cut' \in BOOLEAN
    BY DEF WrittenInPart, Written
  <1> QED  BY <1>2, <1>3, <1>4

LEMMA FailureKeepsStore ==
  ASSUME StoreInv, LineFails
  PROVE  StoreInv'
  <1>1. /\ chain # << >> /\ WrittenInPart(Head(chain).line) /\ broken' = TRUE /\ chain' = << >>
        /\ UNCHANGED <<saved, first, gap>>
    BY DEF LineFails
  <1>2. /\ IsSequence(lines') /\ Len(lines') \in Nat /\ Len(lines') >= Len(lines)
        /\ \A i \in 1 .. Len(lines') : lines'[i] = Torn \/ IsSnapshot(lines'[i])
        /\ cut' \in BOOLEAN /\ (cut' => lines' # << >>)
        /\ WritesInOrder'
    BY <1>1, PartKept
  <1>3. /\ IsSequence(saved) /\ first \in 0 .. Len(lines) /\ gap \in BOOLEAN /\ Len(lines) \in Nat
        /\ \A i \in 1 .. Len(saved) : IsSnapshot(saved[i])
        /\ (gap => first >= 1)
    BY Extended DEF StoreInv, StoreTyped, CutFirst
  <1>4. StoreTyped'
    <2>1. first' \in 0 .. Len(lines')
      BY <1>1, <1>2, <1>3
    <2> QED  BY <1>1, <1>2, <1>3, <2>1, Empty DEF StoreTyped
  <1>5. CutFirst'
    BY <1>1, <1>2, <1>3 DEF CutFirst
  <1>6. ChainNext'
    BY <1>1, Empty DEF ChainNext
  <1> QED  BY <1>2, <1>4, <1>5, <1>6 DEF StoreInv

\* A save that is asked for is the next of its chain, if it is not broken.
LEMMA SaveKeepsStore ==
  ASSUME StoreInv, NEW caller, NEW line, IsSnapshot(line), Saves(caller, line),
         UNCHANGED <<lines, cut, broken, first, gap>>
  PROVE  StoreInv'
  <1>1. /\ saved' = Append(saved, line)
        /\ IF broken THEN UNCHANGED chain ELSE chain' = Append(chain, [by |-> caller, line |-> line])
    BY DEF Saves
  <1>2. /\ IsSequence(saved) /\ IsSequence(chain) /\ IsSequence(lines) /\ first \in 0 .. Len(lines)
        /\ \A i \in 1 .. Len(saved) : IsSnapshot(saved[i])
    BY DEF StoreInv, StoreTyped
  <1>3. /\ IsSequence(saved') /\ Len(saved) \in Nat /\ Len(saved') = Len(saved) + 1 /\ saved'[Len(saved) + 1] = line
        /\ \A i \in 1 .. Len(saved) : saved'[i] = saved[i]
    BY <1>1, <1>2, Extended
  <1>4. Len(lines) \in Nat /\ Added \in Nat /\ Added' = Added /\ Len(chain) \in Nat /\ first \in Nat
    <2>1. Len(lines) \in Nat /\ Len(chain) \in Nat
      BY <1>2, Extended
    <2> QED  BY <1>2, <2>1 DEF Added
  <1>5. Joined' = Joined /\ Joined \in Nat
    BY DEF Joined
  <1>6. WritesInOrder'
    <2>1. ASSUME NEW i \in first + 1 .. Len(lines)
          PROVE  \/ i - first + Joined <= Len(saved') /\ lines[i] = saved'[i - first + Joined]
                 \/ lines[i] = Torn /\ i = Len(lines) /\ broken
      <3>1. \/ i - first + Joined <= Len(saved) /\ lines[i] = saved[i - first + Joined]
            \/ lines[i] = Torn /\ i = Len(lines) /\ broken
        BY DEF StoreInv, WritesInOrder
      <3>2. i - first + Joined <= Len(saved) => i - first + Joined \in 1 .. Len(saved)
        BY <1>3, <1>4, <1>5
      <3> QED  BY <1>3, <3>1, <3>2
    <2>2. gap /\ Len(lines) > first => lines[first] = Torn
      BY DEF StoreInv, WritesInOrder
    <2> QED  BY <1>5, <2>1, <2>2 DEF WritesInOrder
  <1>7. CutFirst'
    BY DEF StoreInv, CutFirst
  <1>8. CASE broken
    <2>1. chain' = chain /\ chain = << >>
      BY <1>1, <1>8 DEF StoreInv, ChainNext
    <2>2. StoreTyped'
      BY <1>2, <1>3, <2>1 DEF StoreInv, StoreTyped
    <2>3. ChainNext'
      BY <1>8, <2>1, Empty DEF ChainNext
    <2> QED  BY <1>6, <1>7, <2>2, <2>3 DEF StoreInv
  <1>9. CASE ~ broken
    <2> DEFINE entry == [by |-> caller, line |-> line]
    <2>1. entry.line = line
      OBVIOUS
    <2> HIDE DEF entry
    <2>2. chain' = Append(chain, entry)
      BY <1>1, <1>9 DEF entry
    <2>3. /\ IsSequence(chain') /\ Len(chain') = Len(chain) + 1 /\ chain'[Len(chain) + 1] = entry
          /\ \A k \in 1 .. Len(chain) : chain'[k] = chain[k]
      BY <1>2, <2>2, Extended
    <2>4. Added + Len(chain) = Len(saved)
      BY <1>9 DEF StoreInv, ChainNext
    <2>5. StoreTyped'
      BY <1>2, <1>3, <2>3 DEF StoreInv, StoreTyped
    <2>6. ChainNext'
      <3>1. \A k \in 1 .. Len(chain') : chain'[k].line = saved'[Added + k]
        <4> TAKE k \in 1 .. Len(chain')
        <4>1. CASE k \in 1 .. Len(chain)
          <5>1. chain[k].line = saved[Added + k] /\ Added + k \in 1 .. Len(saved)
            BY <1>3, <1>4, <2>4, <4>1 DEF StoreInv, ChainNext
          <5> QED  BY <1>3, <2>3, <4>1, <5>1
        <4>2. CASE k = Len(chain) + 1
          BY <1>3, <1>4, <2>1, <2>3, <2>4, <4>2
        <4> QED  BY <1>4, <2>3, <4>1, <4>2
      <3>2. Added + Len(chain') = Len(saved')
        BY <1>3, <1>4, <2>3, <2>4
      <3> QED  BY <1>4, <1>9, <3>1, <3>2 DEF ChainNext
    <2> QED  BY <1>6, <1>7, <2>5, <2>6 DEF StoreInv
  <1> QED  BY <1>8, <1>9

\* A restart makes a store of the file as it stands, with what there is of a line that was under way.
LEMMA RestartKeepsStore ==
  ASSUME StoreInv, Restarts
  PROVE  StoreInv'
  <1>1. /\ IF chain = << >> THEN UNCHANGED <<lines, cut>> ELSE WrittenInPart(Head(chain).line)
        /\ first' = Len(lines') /\ gap' = cut' /\ chain' = << >> /\ saved' = << >> /\ broken' = FALSE
    BY DEF Restarts
  <1>2. /\ IsSequence(lines') /\ Len(lines') \in Nat
        /\ \A i \in 1 .. Len(lines') : lines'[i] = Torn \/ IsSnapshot(lines'[i])
        /\ cut' \in BOOLEAN /\ (cut' => lines' # << >>)
    <2>1. CASE chain = << >>
      BY <1>1, <2>1, Extended DEF StoreInv, StoreTyped, CutFirst
    <2>2. CASE chain # << >>
      <3>1. \/ UNCHANGED <<lines, cut>>
            \/ \E part : (part = Torn \/ part = Head(chain).line) /\ lines' = WithLine(part) /\ cut' \in BOOLEAN
        BY <1>1, <2>2 DEF WrittenInPart, Written
      <3>2. CASE UNCHANGED <<lines, cut>>
        BY <3>2, Extended DEF StoreInv, StoreTyped, CutFirst
      <3>3. ASSUME NEW part, part = Torn \/ part = Head(chain).line, lines' = WithLine(part), cut' \in BOOLEAN
            PROVE  /\ IsSequence(lines') /\ Len(lines') \in Nat
                   /\ \A i \in 1 .. Len(lines') : lines'[i] = Torn \/ IsSnapshot(lines'[i])
                   /\ cut' \in BOOLEAN /\ (cut' => lines' # << >>)
        <4>1. part = Torn \/ IsSnapshot(part)
          BY <2>2, <3>3, FirstOfChain
        <4>2. /\ Len(lines) \in Nat /\ \A i \in 1 .. Len(lines) : lines[i] = Torn \/ IsSnapshot(lines[i])
          BY Extended DEF StoreInv, StoreTyped
        <4>3. CASE cut
          <5>1. /\ IsSequence(lines') /\ Len(lines') = Len(lines) /\ lines'[Len(lines)] = Torn /\ Len(lines) >= 1
                /\ \A i \in 1 .. Len(lines) : i # Len(lines) => lines'[i] = lines[i]
            BY <3>3, <4>3, LineJoins DEF Spoilt
          <5>2. \A i \in 1 .. Len(lines') : lines'[i] = Torn \/ IsSnapshot(lines'[i])
            BY <4>2, <5>1
          <5> QED  BY <3>3, <4>2, <5>1, <5>2, Empty
        <4>4. CASE ~ cut
          <5>1. /\ IsSequence(lines') /\ Len(lines') = Len(lines) + 1 /\ lines'[Len(lines) + 1] = part
                /\ \A i \in 1 .. Len(lines) : lines'[i] = lines[i]
            BY <3>3, <4>4, LineJoins DEF Grown
          <5>2. \A i \in 1 .. Len(lines') : i \in 1 .. Len(lines) \/ i = Len(lines) + 1
            BY <4>2, <5>1
          <5>3. \A i \in 1 .. Len(lines') : lines'[i] = Torn \/ IsSnapshot(lines'[i])
            BY <4>1, <4>2, <5>1, <5>2
          <5> QED  BY <3>3, <4>2, <5>1, <5>3, Empty
        <4> QED  BY <4>3, <4>4
      <3> QED  BY <3>1, <3>2, <3>3
    <2> QED  BY <2>1, <2>2
  <1>3. lines' # << >> => Len(lines') >= 1
    BY <1>2, Extended
  <1>4. StoreTyped'
    <2>1. first' \in 0 .. Len(lines')
      BY <1>1, <1>2
    <2> QED  BY <1>1, <1>2, <2>1, Empty DEF StoreTyped
  <1>5. CutFirst'
    BY <1>1, <1>2, <1>3 DEF CutFirst
  <1>6. ChainNext'
    BY <1>1, <1>2, Empty DEF ChainNext, Added
  <1>7. WritesInOrder'
    BY <1>1, <1>2 DEF WritesInOrder
  <1> QED  BY <1>4, <1>5, <1>6, <1>7 DEF StoreInv

\* The last line of a session, which list() finds.
LEMMA LastLine ==
  ASSUME NEW file, IsSequence(file), NEW session, Known(file, session)
  PROVE  /\ Max(LinesOf(file, session)) \in 1 .. Len(file)
         /\ file[Max(LinesOf(file, session))] # Torn
         /\ file[Max(LinesOf(file, session))].session = session
         /\ \A i \in LinesOf(file, session) : i <= Max(LinesOf(file, session))
  <1> DEFINE L == LinesOf(file, session)
  <1>1. Len(file) \in Nat /\ DOMAIN file = 1 .. Len(file)
    BY Extended
  <1>2. L \in SUBSET (0 .. Len(file)) /\ L # {}
    BY <1>1 DEF LinesOf, Known
  <1>3. Max(L) \in L /\ \A i \in L : i <= Max(L)
    <2> HIDE DEF L
    <2> QED  BY <1>1, <1>2, Greatest
  <1> QED  BY <1>1, <1>3 DEF LinesOf

LEMMA EventsAreSequence ==
  ASSUME StoreTyped, NEW session, Known(lines, session)
  PROVE  IsSequence(EventsOf(lines, session))
  <1>1. PICK i \in 1 .. Len(lines) : i = Max(LinesOf(lines, session)) /\ lines[i] # Torn
    BY LastLine DEF StoreTyped
  <1>2. PICK other, evts : IsSequence(evts) /\ lines[i] = Snapshot(other, evts)
    BY <1>1 DEF StoreTyped, IsSnapshot
  <1>3. lines[i].events = evts
    BY <1>2 DEF Snapshot
  <1> QED  BY <1>1, <1>2, <1>3 DEF EventsOf

\* A call that reads the whole file saves a snapshot.
LEMMA ReadKeepsStore ==
  ASSUME StoreInv, NEW caller, ReadsAndSaves(caller)
  PROVE  StoreInv'
  <1> DEFINE session == op[caller].session
             line == Snapshot(session, Append(EventsOf(lines, session), op[caller].event))
  <1>1. CASE UNCHANGED <<lines, cut, chain, saved, broken, first, gap>>
    BY <1>1 DEF StoreInv, StoreTyped, CutFirst, ChainNext, WritesInOrder, Added, Joined
  <1>2. CASE Known(lines, session) /\ Saves(caller, line) /\ UNCHANGED <<lines, cut, broken, first, gap>>
    <2>1. IsSequence(EventsOf(lines, session))
      BY <1>2, EventsAreSequence DEF StoreInv
    <2>2. IsSnapshot(line)
      BY <2>1, Extended DEF IsSnapshot
    <2> HIDE DEF line, session
    <2> QED  BY <1>2, <2>2, SaveKeepsStore
  <1> QED  BY <1>1, <1>2 DEF ReadsAndSaves

LEMMA StoreStepKept == StoreInv /\ [Next]_vars => StoreInv'
  <1> SUFFICES ASSUME StoreInv, [Next]_vars PROVE StoreInv'
    OBVIOUS
  <1>1. ASSUME UNCHANGED <<lines, cut, chain, saved, broken, first, gap>> PROVE StoreInv'
    BY <1>1 DEF StoreInv, StoreTyped, CutFirst, ChainNext, WritesInOrder, Added, Joined
  <1>2. CASE UNCHANGED vars
    BY <1>1, <1>2 DEF vars, storeVars
  <1>3. ASSUME NEW p \in Passes, Begin(p) \/ PolicyAllows(p) \/ PolicyRefuses(p) PROVE StoreInv'
    BY <1>1, <1>3 DEF Begin, PolicyAllows, PolicyRefuses, AppendEvent, Fault, storeVars
  <1>4. ASSUME NEW p \in Passes, RunRecorded(p) \/ RunLost(p) PROVE StoreInv'
    BY <1>1, <1>4 DEF RunRecorded, RunLost, Settles
  <1>5. ASSUME NEW p \in Passes, Reads(p) PROVE StoreInv'
    BY <1>1, <1>5, ReadKeepsStore DEF Reads, ReadsPartly
  <1>6. CASE LineAdded
    BY <1>6, WriteKeepsStore DEF LineAdded
  <1>7. CASE WriteFails
    BY <1>7, FailureKeepsStore DEF WriteFails
  <1>8. CASE Restart
    BY <1>8, RestartKeepsStore DEF Restart
  <1>9. CASE Time
    BY <1>1, <1>9 DEF Time, storeVars
  <1> QED  BY <1>2, <1>3, <1>4, <1>5, <1>6, <1>7, <1>8, <1>9 DEF Next

(***************************************************************************)
(* The lines a store adds are the first of the saves it was asked for, in  *)
(* their order: writeChain has no gap that a later save would hide         *)
(* (JSONLSessionStore.save()).  The first save of all is missing when the  *)
(* store was made on a last line without its end, which it is joined to.   *)
(***************************************************************************)
THEOREM WritesKeepOrder == Spec => []WritesInOrder
  <1>1. StoreInv => WritesInOrder
    BY DEF StoreInv
  <1> QED  BY FileInit, StoreStepKept, <1>1, PTL DEF Spec

(***************************************************************************)
(* What is recorded as run is in the file: while one pass at a time has a  *)
(* run of a schedule, its snapshot is the last of the session with one     *)
(* event more, so that nothing that the file has is undone by it.          *)
(***************************************************************************)
Call(session, event) ==
    [step : {"draining", "reading", "saving", "done", "failed"}, session : {session}, event : {event}, behind : Int]

CallsOfPasses == \A p \in Passes : op[p] = NoOp \/ op[p] \in Call(Current(p).id, Window(p))

\* Two passes with a run of one schedule are known for it.
ClashesSeen ==
    \A p, q \in Passes :
        p # q /\ pass[p].phase = "executing" /\ pass[q].phase = "executing" /\ pass[p].index = pass[q].index
            => Current(p).id \in clashed

ChainOfPasses ==
    \A k \in 1 .. Len(chain) :
        /\ chain[k].line.session = op[chain[k].by].session
        /\ op[chain[k].by].event \in ToSet(chain[k].line.events)

\* What has been answered as logged for a schedule: the events of the calls that are over, and the
\* last run.
Answered(id) ==
    {op[p].event : p \in {p \in Passes : op[p].step = "done" /\ op[p].session = id}}
        \cup (IF last[id] = 0 THEN {} ELSE {last[id]})

\* An event is in the file, and in what is going to follow there.
Logged(file, id, event) == Known(file, id) /\ event \in ToSet(EventsOf(file, id))
Stays(file, waiting, id, event) ==
    /\ Logged(file, id, event)
    /\ \A k \in 1 .. Len(waiting) : waiting[k].line.session = id => event \in ToSet(waiting[k].line.events)

NothingUndone ==
    \A id \in Ids \ clashed : \A event \in Answered(id) : FirstLost(id) \/ Stays(lines, chain, id, event)

\* Nothing is answered before the first line is written behind one without its end.
CutFresh == cut /\ ~ broken => \A id \in Ids : last[id] = 0 /\ \A p \in Passes : op[p].step # "done"

LogInv == CallsOfPasses /\ ClashesSeen /\ ChainOfPasses /\ NothingUndone /\ CutFresh

\* A step after which no call is over that was not has nothing more to answer for.
NoneDone ==
    \A q \in Passes : op'[q].step = "done" =>
        op[q].step = "done" /\ op'[q].session = op[q].session /\ op'[q].event = op[q].event

LEMMA AnsweredKept ==
  ASSUME NoneDone, NEW id, last'[id] = 0 \/ last'[id] = last[id] \/ last'[id] \in Answered(id)
  PROVE  (Answered(id))' \subseteq Answered(id)
  <1> SUFFICES ASSUME NEW event \in (Answered(id))' PROVE event \in Answered(id)
    OBVIOUS
  <1>1. \/ last'[id] # 0 /\ event = last'[id]
        \/ \E q \in Passes : op'[q].step = "done" /\ op'[q].session = id /\ event = op'[q].event
    BY DEF Answered
  <1>2. CASE last'[id] # 0 /\ event = last'[id]
    BY <1>2 DEF Answered
  <1>3. CASE \E q \in Passes : op'[q].step = "done" /\ op'[q].session = id /\ event = op'[q].event
    <2>1. \E q \in Passes : op[q].step = "done" /\ op[q].session = id /\ event = op[q].event
      BY <1>3 DEF NoneDone
    <2> QED  BY <2>1 DEF Answered
  <1> QED  BY <1>1, <1>2, <1>3

\* A step of a pass, which leaves the store its file and its chain.
LEMMA UndoneKept ==
  ASSUME NothingUndone, UNCHANGED <<lines, chain, saved, gap, clashed>>,
         \A id \in Ids \ clashed : (Answered(id))' \subseteq Answered(id)
  PROVE  NothingUndone'
  <1>1. \A id : FirstLost(id) => (FirstLost(id))'
    BY DEF FirstLost
  <1> SUFFICES ASSUME NEW id \in Ids \ clashed, NEW event \in (Answered(id))'
               PROVE  (FirstLost(id))' \/ Stays(lines, chain, id, event)
    BY DEF NothingUndone, Stays, Logged
  <1> QED  BY <1>1 DEF NothingUndone

\* A file that has no more of a session than it had gives the same events.
Spared(file, grown, id) ==
    /\ DOMAIN file \subseteq DOMAIN grown
    /\ \A i \in DOMAIN grown :
         IF i \in DOMAIN file THEN grown[i] = file[i] ELSE grown[i] = Torn \/ grown[i].session # id

LEMMA EventsKept ==
  ASSUME NEW file, IsSequence(file), NEW grown, NEW id, Known(file, id), Spared(file, grown, id)
  PROVE  Known(grown, id) /\ EventsOf(grown, id) = EventsOf(file, id)
  <1>1. \A i \in DOMAIN file : i \in DOMAIN grown /\ grown[i] = file[i]
    BY Zenon DEF Spared
  <1>2. LinesOf(grown, id) = LinesOf(file, id)
    <2>1. LinesOf(file, id) \subseteq LinesOf(grown, id)
      BY <1>1, Zenon DEF LinesOf
    <2>2. LinesOf(grown, id) \subseteq LinesOf(file, id)
      <3> SUFFICES ASSUME NEW i \in LinesOf(grown, id) PROVE i \in LinesOf(file, id)
        OBVIOUS
      <3>1. i \in DOMAIN grown /\ grown[i] # Torn /\ grown[i].session = id
        BY Zenon DEF LinesOf
      <3>2. i \in DOMAIN file /\ grown[i] = file[i]
        BY <3>1, Zenon DEF Spared
      <3> QED  BY <3>1, <3>2, Zenon DEF LinesOf
    <2> QED  BY <2>1, <2>2
  <1>3. Max(LinesOf(file, id)) \in DOMAIN file
    BY LastLine, Extended
  <1> QED  BY <1>1, <1>2, <1>3, Zenon DEF Known, EventsOf

LEMMA EventsAdded ==
  ASSUME NEW file, IsSequence(file), NEW line, line # Torn
  PROVE  /\ Known(Append(file, line), line.session)
         /\ EventsOf(Append(file, line), line.session) = line.events
  <1> DEFINE grown == Append(file, line)
             id == line.session
             L == LinesOf(grown, id)
  <1>1. /\ Len(file) \in Nat /\ IsSequence(grown) /\ Len(grown) = Len(file) + 1 /\ grown[Len(file) + 1] = line
        /\ DOMAIN grown = 1 .. Len(file) + 1
    BY Extended
  <1>2. Len(file) + 1 \in L
    BY <1>1 DEF LinesOf
  <1>3. Known(grown, id)
    BY <1>2 DEF Known
  <1> HIDE DEF grown, id
  <1>4. Max(L) \in 1 .. Len(grown) /\ \A i \in L : i <= Max(L)
    BY <1>1, <1>3, LastLine
  <1>5. Max(L) = Len(file) + 1
    BY <1>1, <1>2, <1>4
  <1>6. EventsOf(grown, id) = line.events
    BY <1>1, <1>5 DEF EventsOf
  <1> QED  BY <1>3, <1>6 DEF grown, id

LEMMA CallGoesOn ==
  ASSUME NEW session, NEW event, NEW call \in Call(session, event),
         NEW step \in {"draining", "reading", "saving", "done", "failed"}
  PROVE  [call EXCEPT !.step = step] \in Call(session, event) /\ [call EXCEPT !.step = step].step = step
  BY DEF Call

\* What the store does for a call leaves its session and its event alone.
CallKept(p) ==
    \/ op[p] = NoOp /\ op'[p] = NoOp
    \/ op[p] \in Call(Current(p).id, Window(p)) /\ op'[p] \in Call(Current(p).id, Window(p))

LEMMA CallsKept ==
  ASSUME CallsOfPasses, Linked, StoreStep
  PROVE  \A p \in Passes : CallKept(p)
  <1> SUFFICES ASSUME NEW p \in Passes PROVE CallKept(p)
    OBVIOUS
  <1>0. Passes = Callers /\ DOMAIN op = Callers /\ NoOp.step = "none" /\ p \in Callers
    BY CallersAssumption DEF Linked, NoOp
  <1>1. ASSUME NEW step \in {"draining", "reading", "saving", "done", "failed"}, op[p] # NoOp,
               op'[p] = [op[p] EXCEPT !.step = step]
        PROVE  CallKept(p)
    <2>1. op[p] \in Call(Current(p).id, Window(p))
      BY <1>1 DEF CallsOfPasses
    <2>2. [op[p] EXCEPT !.step = step] \in Call(Current(p).id, Window(p))
      BY <2>1, CallGoesOn
    <2> QED  BY <1>1, <2>1, <2>2 DEF CallKept
  <1>2. ASSUME op'[p] = op[p] PROVE CallKept(p)
    BY <1>2 DEF CallsOfPasses, CallKept
  <1>3. CASE LineWritten
    <2> DEFINE by == Head(chain).by
    <2>1. chain # << >> /\ op' = Advanced(op, by)
      BY <1>3 DEF LineWritten
    <2>2. by \in Callers /\ op[by].step = "saving"
      <3>1. PICK S : chain \in Seq(S)
        BY DEF Linked
      <3>2. 1 \in 1 .. Len(chain) /\ Head(chain) = chain[1]
        BY <2>1, <3>1
      <3> QED  BY <3>2 DEF Linked
    <2>3. CASE p = by
      <3>1. op'[p] = [op[p] EXCEPT !.step = "done"]
        BY <1>0, <2>1, <2>2, <2>3 DEF Advanced
      <3>2. op[p] # NoOp
        BY <1>0, <2>2, <2>3
      <3> QED  BY <1>1, <3>1, <3>2
    <2>4. CASE p # by /\ op[p].step = "draining"
      <3> DEFINE call == op[p]
                 behind == call.behind - 1
                 step == IF behind = 0 THEN "reading" ELSE "draining"
      <3>1. op'[p] = [call EXCEPT !.behind = behind, !.step = step]
        BY <1>0, <2>1, <2>4 DEF Advanced
      <3>2. call \in Call(Current(p).id, Window(p))
        BY <1>0, <2>4 DEF CallsOfPasses
      <3>3. behind \in Int /\ step \in {"draining", "reading"}
        BY <3>2 DEF Call
      <3> HIDE DEF call, behind, step
      <3>4. op'[p] \in Call(Current(p).id, Window(p))
        BY <3>1, <3>2, <3>3 DEF Call
      <3> QED  BY <3>2, <3>4 DEF call, CallKept
    <2>5. CASE p # by /\ op[p].step # "draining"
      <3>1. op'[p] = op[p]
        BY <1>0, <2>1, <2>5 DEF Advanced
      <3> QED  BY <1>2, <3>1
    <2> QED  BY <2>3, <2>4, <2>5
  <1>4. CASE LineFails
    <2>1. op' = Rejected(op)
      BY <1>4 DEF LineFails
    <2>2. CASE op[p].step \in {"saving", "draining"}
      <3>1. op'[p] = [op[p] EXCEPT !.step = "failed"]
        BY <1>0, <2>1, <2>2 DEF Rejected
      <3>2. op[p] # NoOp
        BY <1>0, <2>2
      <3> QED  BY <1>1, <3>1, <3>2
    <2>3. CASE op[p].step \notin {"saving", "draining"}
      <3>1. op'[p] = op[p]
        BY <1>0, <2>1, <2>3 DEF Rejected
      <3> QED  BY <1>2, <3>1
    <2> QED  BY <2>2, <2>3
  <1>5. ASSUME NEW c \in Callers, ReadsAndSaves(c) \/ ReadsPartly(c) PROVE CallKept(p)
    <2>1. /\ op[c].step = "reading"
          /\ \E step \in {"saving", "failed"} : op' = [op EXCEPT ![c].step = step]
      BY <1>5 DEF ReadsAndSaves, ReadsPartly, Saves, Fails
    <2>2. PICK step \in {"saving", "failed"} : op' = [op EXCEPT ![c].step = step]
      BY <2>1
    <2>3. CASE p = c
      <3>1. op'[p] = [op[p] EXCEPT !.step = step] /\ op[p] # NoOp
        BY <1>0, <2>1, <2>2, <2>3
      <3> QED  BY <1>1, <3>1
    <2>4. CASE p # c
      <3>1. op'[p] = op[p]
        BY <1>0, <2>2, <2>4
      <3> QED  BY <1>2, <3>1
    <2> QED  BY <2>3, <2>4
  <1> QED  BY <1>3, <1>4, <1>5 DEF StoreStep

\* Where the runs are: a call under way is of a pass that executes, and it is known what it has to log.
LEMMA RunsOfCalls ==
  ASSUME OnceInv, Linked, CallsOfPasses, NEW p \in Passes, op[p].step # "none"
  PROVE  /\ pass[p].phase = "executing" /\ pass[p].index \in Places /\ Current(p).id \in Ids
         /\ op[p] \in Call(Current(p).id, Window(p))
         /\ op[p].session = Current(p).id /\ op[p].event = Window(p)
  <1>1. pass[p].phase = "executing" /\ op[p] # NoOp
    BY CallersAssumption DEF Linked, NoOp
  <1>2. pass[p] \in Underway
    BY <1>1 DEF OnceInv, Typed, Idle
  <1>3. op[p] \in Call(Current(p).id, Window(p))
    BY <1>1 DEF CallsOfPasses
  <1>4. pass[p].index \in Places
    BY <1>2 DEF Underway
  <1>5. Current(p).id \in Ids
    BY <1>4, IdsOfPlaces DEF Current
  <1>6. op[p].session = Current(p).id /\ op[p].event = Window(p)
    BY <1>3 DEF Call
  <1> QED  BY <1>1, <1>3, <1>4, <1>5, <1>6

\* A pass without a call goes where it goes, with what it has recorded in the file.
LEMMA PassMoves ==
  ASSUME LogInv, NEW p \in Passes, op'[p] = NoOp, pass'[p].phase # "executing",
         \A q \in Passes : q # p => op'[q] = op[q] /\ pass'[q] = pass[q],
         \A k \in 1 .. Len(chain) : chain[k].by \in Passes /\ chain[k].by # p,
         UNCHANGED <<lines, cut, chain, broken, saved, gap, clashed>>,
         \A id \in Ids : last'[id] = last[id] \/ last'[id] \in Answered(id)
  PROVE  LogInv'
  <1>1. \A q \in Passes : q # p => (Current(q))' = Current(q) /\ (Window(q))' = Window(q)
    BY DEF Current, Window
  <1>2. CallsOfPasses'
    BY <1>1 DEF LogInv, CallsOfPasses, Call
  <1>3. ClashesSeen'
    BY <1>1 DEF LogInv, ClashesSeen
  <1>4. ChainOfPasses'
    BY DEF LogInv, ChainOfPasses
  <1>5. NoneDone
    BY DEF NoneDone, NoOp
  <1>6. NothingUndone'
    <2>1. \A id \in Ids \ clashed : (Answered(id))' \subseteq Answered(id)
      BY <1>5, AnsweredKept
    <2> QED  BY <2>1, UndoneKept DEF LogInv
  <1>7. CutFresh'
    <2> SUFFICES ASSUME cut, ~ broken PROVE \A id \in Ids : last'[id] = 0 /\ \A q \in Passes : op'[q].step # "done"
      BY DEF CutFresh
    <2>1. \A id \in Ids : last[id] = 0 /\ Answered(id) = {}
      BY DEF LogInv, CutFresh, Answered
    <2>2. \A id \in Ids, q \in Passes : op[q].step # "done"
      BY DEF LogInv, CutFresh
    <2> QED  BY <1>5, <2>1, <2>2 DEF NoneDone
  <1> QED  BY <1>2, <1>3, <1>4, <1>6, <1>7 DEF LogInv

\* The policy lets a run begin: from here on the schedule of two such runs is known.
LEMMA RunBegins ==
  ASSUME OnceInv, LogInv, Linked, NEW p \in Passes, PolicyAllows(p)
  PROVE  LogInv'
  <1> DEFINE step == IF broken THEN "failed" ELSE IF chain = << >> THEN "reading" ELSE "draining"
             behind == Len(chain)
             call == [step |-> step, session |-> Current(p).id, event |-> Window(p), behind |-> behind]
             rivals == {q \in Passes \ {p} : pass[q].phase = "executing" /\ pass[q].index = pass[p].index}
  <1>1. /\ pass[p].phase = "checking" /\ pass' = [pass EXCEPT ![p].phase = "executing"]
        /\ op[p] = NoOp /\ op' = [op EXCEPT ![p] = call]
        /\ clashed' = clashed \cup {Current(q).id : q \in rivals}
        /\ UNCHANGED <<lines, cut, chain, broken, saved, gap, last>>
    BY DEF PolicyAllows, Allowed, AppendEvent
  <1>2. step \in {"draining", "reading", "saving", "done", "failed"} /\ step # "done" /\ behind \in Int
    <2>1. PICK S : chain \in Seq(S)
      BY DEF Linked
    <2> QED  BY <2>1
  <1> HIDE DEF step, behind
  <1>3. call \in Call(Current(p).id, Window(p)) /\ call.step = step
    BY <1>2 DEF Call
  <1> HIDE DEF call, rivals
  <1>4. op'[p] = call /\ \A q \in Passes : q # p => op'[q] = op[q] /\ pass'[q] = pass[q]
    BY <1>1, CallersAssumption DEF Linked, OnceInv, Typed
  <1>5. pass'[p].index = pass[p].index /\ pass'[p].now = pass[p].now
    <2>1. pass[p] \in Underway /\ pass \in [Passes -> Underway \cup {Idle}]
      BY <1>1 DEF OnceInv, Typed, Idle
    <2> QED  BY <1>1, <2>1 DEF Underway
  <1>6. \A q \in Passes : (Current(q))' = Current(q) /\ (Window(q))' = Window(q) /\ pass'[q].index = pass[q].index
    BY <1>4, <1>5 DEF Current, Window
  <1>7. CallsOfPasses'
    BY <1>3, <1>4, <1>6 DEF LogInv, CallsOfPasses, Call
  <1>8. ClashesSeen'
    <2> SUFFICES ASSUME NEW q \in Passes, NEW r \in Passes, q # r, pass'[q].phase = "executing",
                        pass'[r].phase = "executing", pass'[q].index = pass'[r].index
                 PROVE  Current(q).id \in clashed'
      BY <1>6 DEF ClashesSeen
    <2>1. pass[q].index = pass[r].index /\ Current(q) = Current(r)
      BY <1>6 DEF Current
    <2>2. CASE q = p
      <3>1. r \in rivals
        BY <1>4, <2>1, <2>2 DEF rivals
      <3> QED  BY <1>1, <2>1, <3>1
    <2>3. CASE r = p
      <3>1. q \in rivals
        BY <1>4, <2>1, <2>3 DEF rivals
      <3> QED  BY <1>1, <3>1
    <2>4. CASE q # p /\ r # p
      <3>1. pass[q].phase = "executing" /\ pass[r].phase = "executing"
        BY <1>4, <2>4
      <3> QED  BY <1>1, <2>1, <3>1 DEF LogInv, ClashesSeen
    <2> QED  BY <2>2, <2>3, <2>4
  <1>9. \A k \in 1 .. Len(chain) : chain[k].by \in Passes /\ chain[k].by # p
    BY <1>1, CallersAssumption DEF Linked, NoOp
  <1>10. ChainOfPasses'
    BY <1>1, <1>4, <1>9 DEF LogInv, ChainOfPasses
  <1>11. NoneDone
    BY <1>2, <1>3, <1>4 DEF NoneDone
  <1>12. NothingUndone'
    <2> SUFFICES ASSUME NEW id \in Ids \ clashed', NEW event \in (Answered(id))'
                 PROVE  (FirstLost(id))' \/ Stays(lines, chain, id, event)
      BY <1>1 DEF NothingUndone, Stays, Logged
    <2>1. event \in Answered(id) /\ id \in Ids \ clashed
      BY <1>1, <1>11, AnsweredKept
    <2> QED  BY <1>1, <2>1 DEF LogInv, NothingUndone, FirstLost
  <1>13. CutFresh'
    BY <1>1, <1>11 DEF LogInv, CutFresh, NoneDone
  <1> QED  BY <1>7, <1>8, <1>10, <1>12, <1>13 DEF LogInv

\* What a call has to log it keeps through the steps of the store.
LEMMA FieldsKept ==
  ASSUME CallsOfPasses, Linked, StoreStep, NEW p \in Passes, op[p].step # "none"
  PROVE  op'[p].session = op[p].session /\ op'[p].event = op[p].event
  <1>1. CallKept(p) /\ op[p] # NoOp
    BY CallsKept DEF NoOp
  <1> QED  BY <1>1 DEF CallKept, Call

\* A store step of which only the file and the calls are left to look at.
LEMMA StoreKeepsLog ==
  ASSUME LogInv, Linked, StoreStep, UNCHANGED <<scheduleVars, history>>, ChainOfPasses', NothingUndone', CutFresh'
  PROVE  LogInv'
  <1>1. \A q \in Passes : (Current(q))' = Current(q) /\ (Window(q))' = Window(q)
    BY DEF Current, Window, scheduleVars
  <1>2. CallsOfPasses'
    <2> SUFFICES ASSUME NEW p \in Passes
                 PROVE  op'[p] = NoOp \/ op'[p] \in Call((Current(p))'.id, (Window(p))')
      BY DEF CallsOfPasses, Call
    <2>1. CallKept(p)
      BY CallsKept DEF LogInv
    <2> QED  BY <1>1, <2>1 DEF CallKept
  <1>3. ClashesSeen'
    BY <1>1 DEF LogInv, ClashesSeen, scheduleVars, history
  <1> QED  BY <1>2, <1>3 DEF LogInv

\* A file that cannot be read stays so, and the save that was lost with it is the first for good.
LEMMA LostForGood ==
  ASSUME StoreInv, StoreStep, NEW id, FirstLost(id)
  PROVE  (FirstLost(id))'
  <1>1. PICK i \in 1 .. Len(lines) : lines[i] = Torn
    <2>1. DOMAIN lines = 1 .. Len(lines)
      BY Extended DEF StoreInv, StoreTyped
    <2> QED  BY <2>1 DEF FirstLost, Readable, ToSet
  <1>2. lines' = lines \/ \E part : lines' = WithLine(part)
    BY DEF StoreStep, LineWritten, LineFails, ReadsAndSaves, ReadsPartly, WrittenInPart, Written
  <1>3. IsSequence(lines') /\ i \in 1 .. Len(lines') /\ lines'[i] = Torn
    <2>1. CASE lines' = lines
      BY <1>1, <2>1 DEF StoreInv, StoreTyped
    <2>2. ASSUME NEW part, lines' = WithLine(part) PROVE IsSequence(lines') /\ i \in 1 .. Len(lines') /\ lines'[i] = Torn
      <3>1. Len(lines) \in Nat
        BY Extended DEF StoreInv, StoreTyped
      <3>2. CASE cut
        <4>1. Spoilt
          BY <2>2, <3>2, LineJoins
        <4> QED  BY <1>1, <4>1 DEF Spoilt
      <3>3. CASE ~ cut
        <4>1. Grown(part)
          BY <2>2, <3>3, LineJoins
        <4> QED  BY <1>1, <3>1, <4>1 DEF Grown
      <3> QED  BY <3>2, <3>3
    <2> QED  BY <1>2, <2>1, <2>2
  <1>4. ~ Readable(lines')
    <2>1. DOMAIN lines' = 1 .. Len(lines')
      BY <1>3, Extended
    <2> QED  BY <1>3, <2>1 DEF Readable, ToSet
  <1>5. gap' = gap /\ saved' # << >> /\ Head(saved') = Head(saved)
    <2>1. saved # << >> /\ IsSequence(saved)
      BY DEF FirstLost, StoreInv, StoreTyped
    <2>2. \A line : Append(saved, line) # << >> /\ Head(Append(saved, line)) = Head(saved)
      <3> TAKE line
      <3>1. IsSequence(Append(saved, line)) /\ Append(saved, line) # << >> /\ Len(saved) \in Nat /\ Len(saved) >= 1
            /\ \A k \in 1 .. Len(saved) : Append(saved, line)[k] = saved[k]
        BY <2>1, Extended
      <3>2. Head(Append(saved, line)) = Append(saved, line)[1] /\ Head(saved) = saved[1]
        BY <2>1, <3>1, Shortened
      <3> QED  BY <3>1, <3>2
    <2>3. gap' = gap /\ (saved' = saved \/ \E line : saved' = Append(saved, line))
      BY DEF StoreStep, LineWritten, LineFails, ReadsAndSaves, ReadsPartly, Saves
    <2> QED  BY <2>1, <2>2, <2>3
  <1> QED  BY <1>4, <1>5 DEF FirstLost

\* The read of the whole file is followed by the save with nothing in between.
LEMMA SaveLogged ==
  ASSUME OnceInv, Linked, StoreInv, LogInv, NEW c \in Passes, ReadsAndSaves(c) \/ ReadsPartly(c),
         UNCHANGED <<scheduleVars, history>>
  PROVE  LogInv'
  <1>0. StoreStep /\ Callers = Passes /\ DOMAIN op = Passes
    BY CallersAssumption DEF StoreStep, Linked
  <1>1. op[c].step = "reading" /\ UNCHANGED <<lines, cut, broken>> /\ \A q \in Passes : q # c => op'[q] = op[q]
    BY <1>0 DEF ReadsAndSaves, ReadsPartly, Saves, Fails
  <1>2. op'[c].step \in {"saving", "failed"} /\ op'[c].session = op[c].session /\ op'[c].event = op[c].event
    <2>1. op'[c].session = op[c].session /\ op'[c].event = op[c].event
      BY <1>0, <1>1, FieldsKept DEF LogInv
    <2>2. PICK step \in {"saving", "failed"} : op' = [op EXCEPT ![c].step = step]
      BY DEF ReadsAndSaves, ReadsPartly, Saves, Fails
    <2>3. op'[c] = [op[c] EXCEPT !.step = step] /\ op[c] \in Call(Current(c).id, Window(c))
      BY <1>0, <1>1, <2>2, RunsOfCalls DEF LogInv
    <2>4. op'[c].step = step
      BY <2>3, CallGoesOn
    <2> QED  BY <2>1, <2>4
  <1>3. \A k \in 1 .. Len(chain) : chain[k].by \in Passes /\ chain[k].by # c /\ op[chain[k].by].step = "saving"
    BY <1>0, <1>1 DEF Linked
  <1>4. NoneDone /\ last' = last /\ clashed' = clashed
    BY <1>1, <1>2 DEF NoneDone, scheduleVars, history
  <1>5. /\ \A id : (Answered(id))' \subseteq Answered(id)
        /\ \A id : FirstLost(id) => (FirstLost(id))'
        /\ CutFresh'
    <2>1. CutFresh'
      BY <1>1, <1>4 DEF LogInv, CutFresh, NoneDone
    <2> QED  BY <1>0, <1>4, <2>1, AnsweredKept, LostForGood
  <1> DEFINE session == op[c].session
             snapshot == Snapshot(session, Append(EventsOf(lines, session), op[c].event))
  <1>6. CASE UNCHANGED chain
    <2>1. ChainOfPasses'
      BY <1>1, <1>3, <1>6 DEF LogInv, ChainOfPasses
    <2>2. NothingUndone'
      BY <1>1, <1>4, <1>5, <1>6 DEF LogInv, NothingUndone, Stays, Logged
    <2> QED  BY <1>0, <1>5, <2>1, <2>2, StoreKeepsLog
  <1>7. CASE Readable(lines) /\ Known(lines, session) /\ chain' = Append(chain, [by |-> c, line |-> snapshot])
    <2> DEFINE entry == [by |-> c, line |-> snapshot]
    <2>1. entry.by = c /\ entry.line = snapshot
      OBVIOUS
    <2>2. snapshot.session = session /\ snapshot.events = Append(EventsOf(lines, session), op[c].event)
      BY DEF Snapshot
    <2>3. /\ ToSet(EventsOf(lines, session)) \subseteq ToSet(Append(EventsOf(lines, session), op[c].event))
          /\ op[c].event \in ToSet(Append(EventsOf(lines, session), op[c].event))
      <3> DEFINE evts == EventsOf(lines, session)
                 event == op[c].event
      <3>1. IsSequence(evts)
        BY <1>7, EventsAreSequence DEF StoreInv
      <3> HIDE DEF evts, event, session
      <3>2. /\ Len(evts) \in Nat /\ DOMAIN evts = 1 .. Len(evts) /\ DOMAIN Append(evts, event) = 1 .. Len(evts) + 1
            /\ Append(evts, event)[Len(evts) + 1] = event /\ \A i \in 1 .. Len(evts) : Append(evts, event)[i] = evts[i]
        BY <3>1, Extended
      <3>3. ToSet(evts) \subseteq ToSet(Append(evts, event)) /\ event \in ToSet(Append(evts, event))
        BY <3>2 DEF ToSet
      <3> QED  BY <3>3 DEF evts, event
    <2>4. ToSet(EventsOf(lines, session)) \subseteq ToSet(snapshot.events) /\ op[c].event \in ToSet(snapshot.events)
      BY <2>2, <2>3
    <2> HIDE DEF entry, snapshot
    <2>5. /\ Len(chain) \in Nat /\ Len(chain') = Len(chain) + 1 /\ chain'[Len(chain) + 1] = entry
          /\ \A k \in 1 .. Len(chain) : chain'[k] = chain[k]
      <3>1. IsSequence(chain) /\ chain' = Append(chain, entry)
        BY <1>7 DEF StoreInv, StoreTyped, entry
      <3> QED  BY <3>1, Extended
    <2>6. \A k \in 1 .. Len(chain') : k \in 1 .. Len(chain) \/ k = Len(chain) + 1
      BY <2>5
    <2>7. ChainOfPasses'
      <3> SUFFICES ASSUME NEW k \in 1 .. Len(chain')
                   PROVE  /\ chain'[k].line.session = op'[chain'[k].by].session
                          /\ op'[chain'[k].by].event \in ToSet(chain'[k].line.events)
        BY DEF ChainOfPasses
      <3>1. CASE k \in 1 .. Len(chain)
        BY <1>1, <1>3, <2>5, <3>1 DEF LogInv, ChainOfPasses
      <3>2. CASE k = Len(chain) + 1
        BY <1>2, <2>1, <2>2, <2>4, <2>5, <3>2
      <3> QED  BY <2>6, <3>1, <3>2
    <2>8. NothingUndone'
      <3> SUFFICES ASSUME NEW id \in Ids \ clashed, NEW event \in (Answered(id))'
                   PROVE  Stays(lines, chain', id, event)
        BY <1>1, <1>4 DEF NothingUndone, Stays, Logged
      <3>1. event \in Answered(id) /\ ~ FirstLost(id)
        BY <1>5, <1>7 DEF FirstLost
      <3>2. Stays(lines, chain, id, event)
        BY <3>1 DEF LogInv, NothingUndone
      <3>3. ASSUME NEW k \in 1 .. Len(chain'), chain'[k].line.session = id
            PROVE  event \in ToSet(chain'[k].line.events)
        <4>1. CASE k \in 1 .. Len(chain)
          BY <2>5, <3>2, <3>3, <4>1 DEF Stays
        <4>2. CASE k = Len(chain) + 1
          <5>1. chain'[k].line = snapshot /\ id = session
            BY <2>1, <2>2, <2>5, <3>3, <4>2
          <5> QED  BY <2>4, <3>2, <5>1 DEF Stays, Logged
        <4> QED  BY <2>6, <4>1, <4>2
      <3> QED  BY <3>2, <3>3 DEF Stays
    <2> QED  BY <1>0, <1>5, <2>7, <2>8, StoreKeepsLog
  <1>8. CASE ReadsAndSaves(c)
    BY <1>6, <1>7, <1>8 DEF ReadsAndSaves, Saves
  <1>9. CASE ReadsPartly(c)
    BY <1>6, <1>9 DEF ReadsPartly
  <1> QED  BY <1>8, <1>9

\* A file that grows by a line which is not of a session spares it.
LEMMA LineSpares ==
  ASSUME NEW file, IsSequence(file), NEW line, NEW id, line = Torn \/ line.session # id
  PROVE  Spared(file, Append(file, line), id)
  <1>1. /\ Len(file) \in Nat /\ DOMAIN file = 1 .. Len(file) /\ DOMAIN Append(file, line) = 1 .. Len(file) + 1
        /\ Append(file, line)[Len(file) + 1] = line /\ \A i \in 1 .. Len(file) : Append(file, line)[i] = file[i]
    BY Extended
  <1> DEFINE grown == Append(file, line)
  <1> HIDE DEF grown
  <1>2. \A i \in DOMAIN grown : i \in DOMAIN file \/ (i = Len(file) + 1 /\ i \notin DOMAIN file /\ grown[i] = line)
    BY <1>1 DEF grown
  <1>3. DOMAIN file \subseteq DOMAIN grown /\ \A i \in DOMAIN file : grown[i] = file[i]
    BY <1>1 DEF grown
  <1>4. Spared(file, grown, id)
    BY <1>2, <1>3 DEF Spared
  <1> QED  BY <1>4 DEF grown

\* The runs of two calls on one schedule are known to have met.
LEMMA MetAreKnown ==
  ASSUME DistinctIds, OnceInv, Linked, LogInv, NEW b \in Passes, NEW c \in Passes, b # c,
         op[b].step # "none", op[c].step # "none", op[b].session = op[c].session
  PROVE  op[b].session \in clashed
  <1>1. /\ pass[b].phase = "executing" /\ pass[b].index \in Places /\ op[b].session = List[pass[b].index].id
        /\ pass[c].phase = "executing" /\ pass[c].index \in Places /\ op[c].session = List[pass[c].index].id
    BY RunsOfCalls DEF LogInv, Current
  <1>2. pass[b].index = pass[c].index
    BY <1>1 DEF DistinctIds
  <1> QED  BY <1>1, <1>2 DEF LogInv, ClashesSeen, Current

\* The first line of the chain is written: it has all that the file had of its session.  Behind a
\* line without its end it is the first save of the store, and is lost; nothing else was answered yet.
LEMMA LineLogged ==
  ASSUME DistinctIds, OnceInv, Linked, StoreInv, LogInv, LineWritten, UNCHANGED <<scheduleVars, history>>
  PROVE  LogInv'
  <1>0. StoreStep /\ Callers = Passes /\ DOMAIN op = Passes /\ IsSequence(lines) /\ IsSequence(chain)
    BY CallersAssumption DEF StoreStep, Linked, StoreInv, StoreTyped
  <1> DEFINE by == Head(chain).by
             line == Head(chain).line
  <1>1. /\ chain # << >> /\ chain' = Tail(chain) /\ op' = Advanced(op, by) /\ lines' = WithLine(line) /\ cut' = FALSE
        /\ UNCHANGED <<saved, gap, last, clashed>>
    BY DEF LineWritten, Written, scheduleVars, history
  <1>2. /\ Len(chain) \in Nat /\ Len(chain) >= 1 /\ Len(chain') = Len(chain) - 1
        /\ Head(chain) = chain[1] /\ \A k \in 1 .. Len(chain') : chain'[k] = chain[k + 1]
    BY <1>0, <1>1, Shortened
  <1>3. 1 \in 1 .. Len(chain) /\ \A k \in 1 .. Len(chain') : k + 1 \in 1 .. Len(chain) /\ k + 1 # 1
    BY <1>2
  <1>4. /\ by \in Passes /\ op[by].step = "saving" /\ line.session = op[by].session /\ op[by].event \in ToSet(line.events)
    BY <1>0, <1>2, <1>3 DEF Linked, LogInv, ChainOfPasses
  <1>5. \A k \in 1 .. Len(chain') : /\ chain'[k].by \in Passes /\ chain'[k].by # by
                                    /\ op[chain'[k].by].step = "saving" /\ chain'[k] = chain[k + 1]
    <2> TAKE k \in 1 .. Len(chain')
    <2>1. k + 1 \in 1 .. Len(chain) /\ k + 1 # 1 /\ chain'[k] = chain[k + 1]
      BY <1>2, <1>3
    <2>2. chain[k + 1].by \in Passes /\ op[chain[k + 1].by].step = "saving"
      BY <1>0, <2>1 DEF Linked
    <2>3. chain[k + 1].by # chain[1].by
      BY <1>3, <2>1 DEF Linked
    <2> QED  BY <1>2, <2>1, <2>2, <2>3
  <1>6. line # Torn /\ ~ broken
    BY <1>1, FirstOfChain, SnapshotWhole
  <1>7. /\ ~ cut => lines' = Append(lines, line)
        /\ cut => gap /\ saved # << >> /\ Head(saved) = line /\ ~ Readable(lines')
    <2>1. CASE ~ cut
      BY <1>1, <2>1 DEF WithLine
    <2>2. CASE cut
      <3>1. gap /\ Added = 0 /\ 1 \in 1 .. Len(saved) /\ line = saved[1]
        BY <1>1, <2>2, FirstOfChain
      <3>2. saved # << >> /\ Head(saved) = saved[1]
        <4>1. saved # << >>
          BY <3>1, Empty
        <4> QED  BY <4>1, Shortened DEF StoreInv, StoreTyped
      <3>3. ~ Readable(lines')
        <4>1. IsSequence(lines') /\ Len(lines) \in 1 .. Len(lines') /\ lines'[Len(lines)] = Torn
          <5>1. Spoilt /\ Len(lines) \in Nat
            BY <1>0, <1>1, <2>2, LineJoins, Extended
          <5> QED  BY <5>1 DEF Spoilt
        <4>2. DOMAIN lines' = 1 .. Len(lines')
          BY <4>1, Extended
        <4> QED  BY <4>1, <4>2 DEF Readable, ToSet
      <3> QED  BY <2>2, <3>1, <3>2, <3>3
    <2> QED  BY <2>1, <2>2
  <1>8. \A q \in Passes : q # by /\ op'[q].step = "done" => op[q].step = "done"
    <2> SUFFICES ASSUME NEW q \in Passes, q # by, op[q].step # "done" PROVE op'[q].step # "done"
      OBVIOUS
    <2>1. CASE op[q].step = "draining"
      <3> DEFINE call == op[q]
                 behind == call.behind - 1
                 step == IF behind = 0 THEN "reading" ELSE "draining"
      <3>1. op'[q] = [call EXCEPT !.behind = behind, !.step = step]
        BY <1>0, <1>1, <2>1 DEF Advanced
      <3>2. call \in Call(Current(q).id, Window(q)) /\ step # "done"
        BY <1>0, <2>1, RunsOfCalls DEF LogInv
      <3> HIDE DEF call, behind, step
      <3>3. op'[q].step = step
        BY <3>1, <3>2 DEF Call
      <3> QED  BY <3>2, <3>3
    <2>2. CASE op[q].step # "draining"
      <3>1. op'[q] = op[q]
        BY <1>0, <1>1, <2>2 DEF Advanced
      <3> QED  BY <3>1
    <2> QED  BY <2>1, <2>2
  <1>9. \A q \in Passes : op[q].step # "none" => op'[q].session = op[q].session /\ op'[q].event = op[q].event
    BY <1>0, FieldsKept DEF LogInv
  <1> HIDE DEF by, line
  <1>10. ChainOfPasses'
    <2> SUFFICES ASSUME NEW k \in 1 .. Len(chain')
                 PROVE  /\ chain'[k].line.session = op'[chain'[k].by].session
                        /\ op'[chain'[k].by].event \in ToSet(chain'[k].line.events)
      BY DEF ChainOfPasses
    <2>1. chain'[k] = chain[k + 1] /\ k + 1 \in 1 .. Len(chain) /\ op[chain'[k].by].step # "none" /\ chain'[k].by \in Passes
      BY <1>3, <1>5
    <2>2. chain'[k].line.session = op[chain'[k].by].session /\ op[chain'[k].by].event \in ToSet(chain'[k].line.events)
      BY <2>1 DEF LogInv, ChainOfPasses
    <2> QED  BY <1>9, <2>1, <2>2
  <1>11. ASSUME NEW id, NEW event \in (Answered(id))'
        PROVE  event \in Answered(id) \/ (id = line.session /\ event = op[by].event)
    <2>1. \/ last[id] # 0 /\ event = last[id]
          \/ \E q \in Passes : op'[q].step = "done" /\ op'[q].session = id /\ event = op'[q].event
      BY <1>1, <1>11 DEF Answered
    <2>2. ASSUME NEW q \in Passes, op'[q].step = "done", op'[q].session = id, event = op'[q].event
          PROVE  event \in Answered(id) \/ (id = line.session /\ event = op[by].event)
      <3>1. op[q].step # "none" => op'[q].session = op[q].session /\ op'[q].event = op[q].event
        BY <1>9
      <3>2. CASE q = by
        BY <1>4, <2>2, <3>1, <3>2
      <3>3. CASE q # by
        <4>1. op[q].step = "done" /\ op[q].session = id /\ event = op[q].event
          BY <1>8, <2>2, <3>1, <3>3
        <4> QED  BY <4>1 DEF Answered
      <3> QED  BY <3>2, <3>3
    <2> QED  BY <2>1, <2>2 DEF Answered
  <1>12. NothingUndone'
    <2> SUFFICES ASSUME NEW id \in Ids \ clashed, NEW event \in (Answered(id))'
                 PROVE  (FirstLost(id))' \/ Stays(lines', chain', id, event)
      BY <1>1 DEF NothingUndone, Stays, Logged
    <2>1. CASE cut
      <3>1. Answered(id) = {}
        <4>1. last[id] = 0 /\ \A q \in Passes : op[q].step # "done"
          BY <1>6, <2>1 DEF LogInv, CutFresh
        <4> QED  BY <4>1 DEF Answered
      <3>2. id = line.session
        BY <1>11, <3>1
      <3> QED  BY <1>1, <1>7, <2>1, <3>2 DEF FirstLost
    <2>2. CASE ~ cut /\ FirstLost(id)
      BY <1>0, <2>2, LostForGood
    <2>3. ASSUME event \in Answered(id), ~ FirstLost(id) PROVE Stays(lines, chain, id, event)
      BY <2>3 DEF LogInv, NothingUndone
    <2>4. CASE ~ cut /\ ~ FirstLost(id) /\ line.session # id
      <3>1. Stays(lines, chain, id, event)
        BY <1>11, <2>3, <2>4
      <3>2. Known(lines', id) /\ EventsOf(lines', id) = EventsOf(lines, id)
        <4>1. Known(lines, id) /\ lines' = Append(lines, line)
          BY <1>7, <2>4, <3>1 DEF Stays, Logged
        <4>2. Spared(lines, lines', id)
          BY <1>0, <2>4, <4>1, LineSpares
        <4> QED  BY <1>0, <4>1, <4>2, EventsKept
      <3>3. \A k \in 1 .. Len(chain') : chain'[k].line.session = id => event \in ToSet(chain'[k].line.events)
        BY <1>3, <1>5, <3>1 DEF Stays
      <3> QED  BY <3>1, <3>2, <3>3 DEF Stays, Logged
    <2>5. CASE ~ cut /\ ~ FirstLost(id) /\ line.session = id
      <3>1. Known(lines', id) /\ EventsOf(lines', id) = line.events
        BY <1>0, <1>6, <1>7, <2>5, EventsAdded
      <3>2. event \in ToSet(line.events)
        <4>1. CASE event \in Answered(id)
          <5>1. Stays(lines, chain, id, event)
            BY <2>3, <2>5, <4>1
          <5> QED  BY <1>2, <1>3, <2>5, <5>1 DEF Stays, line
        <4>2. CASE event = op[by].event
          BY <1>4, <4>2
        <4> QED  BY <1>11, <4>1, <4>2
      <3>3. \A k \in 1 .. Len(chain') : chain'[k].line.session # id
        <4> SUFFICES ASSUME NEW k \in 1 .. Len(chain'), chain'[k].line.session = id PROVE FALSE
          OBVIOUS
        <4> DEFINE other == chain'[k].by
        <4>1. other \in Passes /\ other # by /\ op[other].step = "saving"
          BY <1>5
        <4>2. op[other].session = id
          BY <1>3, <1>5 DEF LogInv, ChainOfPasses
        <4> HIDE DEF other
        <4>3. op[by].session \in clashed
          BY <1>4, <2>5, <4>1, <4>2, MetAreKnown
        <4> QED  BY <1>4, <2>5, <4>3
      <3> QED  BY <3>1, <3>2, <3>3 DEF Stays, Logged
    <2> QED  BY <2>1, <2>2, <2>4, <2>5
  <1>13. CutFresh'
    BY <1>1 DEF CutFresh
  <1> QED  BY <1>0, <1>10, <1>12, <1>13, StoreKeepsLog

\* An append that fails undoes nothing, whatever there is of its line, and ends the calls that wait.
LEMMA LineLost ==
  ASSUME OnceInv, Linked, StoreInv, LogInv, LineFails, UNCHANGED <<scheduleVars, history>>
  PROVE  LogInv'
  <1> DEFINE line == Head(chain).line
  <1>0. StoreStep /\ Callers = Passes /\ DOMAIN op = Passes /\ IsSequence(lines)
    BY CallersAssumption DEF StoreStep, Linked, StoreInv, StoreTyped
  <1>1. /\ chain # << >> /\ chain' = << >> /\ WrittenInPart(line) /\ op' = Rejected(op) /\ broken' = TRUE
        /\ UNCHANGED <<last, clashed>>
    BY DEF LineFails, scheduleVars, history
  <1>2. Len(chain') = 0
    BY <1>1, Empty
  <1>3. ~ broken /\ line # Torn /\ line = chain[1].line /\ 1 \in 1 .. Len(chain)
    <2>1. Len(chain) \in Nat /\ Len(chain) >= 1
      BY <1>1, Shortened DEF StoreInv, StoreTyped
    <2> QED  BY <1>1, <2>1, FirstOfChain, SnapshotWhole
  <1> HIDE DEF line
  <1>4. \A q \in Passes : op'[q].step = "done" => op[q].step = "done" /\ op'[q] = op[q]
    <2> SUFFICES ASSUME NEW q \in Passes, op'[q].step = "done" PROVE op[q].step = "done" /\ op'[q] = op[q]
      OBVIOUS
    <2>1. CASE op[q].step \in {"saving", "draining"}
      <3>1. op'[q] = [op[q] EXCEPT !.step = "failed"]
        BY <1>0, <1>1, <2>1 DEF Rejected
      <3>2. op[q] \in Call(Current(q).id, Window(q))
        BY <1>0, <2>1, RunsOfCalls DEF LogInv
      <3>3. op'[q].step = "failed"
        BY <3>1, <3>2, CallGoesOn
      <3> QED  BY <3>3
    <2>2. CASE op[q].step \notin {"saving", "draining"}
      <3>1. op'[q] = op[q]
        BY <1>0, <1>1, <2>2 DEF Rejected
      <3> QED  BY <3>1
    <2> QED  BY <2>1, <2>2
  <1>5. ChainOfPasses'
    BY <1>2 DEF ChainOfPasses
  <1>6. \A id : (Answered(id))' \subseteq Answered(id)
    <2>1. NoneDone
      BY <1>4 DEF NoneDone
    <2> QED  BY <1>1, <2>1, AnsweredKept
  <1>7. ASSUME NEW id, NEW event, Stays(lines, chain, id, event), ~ cut
        PROVE  Logged(lines', id, event)
    <2>1. Known(lines, id) /\ event \in ToSet(EventsOf(lines, id))
          /\ (line.session = id => event \in ToSet(line.events))
      BY <1>3, <1>7 DEF Stays, Logged
    <2>2. CASE lines' = lines
      BY <2>1, <2>2 DEF Logged
    <2>3. ASSUME NEW part, part = Torn \/ part = line, lines' = WithLine(part)
          PROVE  Logged(lines', id, event)
      <3>1. lines' = Append(lines, part)
        BY <1>7, <2>3 DEF WithLine
      <3>2. CASE part = Torn \/ part.session # id
        <4>1. Known(lines', id) /\ EventsOf(lines', id) = EventsOf(lines, id)
          BY <1>0, <2>1, <3>1, <3>2, LineSpares, EventsKept
        <4> QED  BY <2>1, <4>1 DEF Logged
      <3>3. CASE part = line /\ part.session = id
        <4>1. Known(lines', id) /\ EventsOf(lines', id) = line.events
          BY <1>0, <1>3, <3>1, <3>3, EventsAdded
        <4> QED  BY <2>1, <3>3, <4>1 DEF Logged
      <3> QED  BY <2>3, <3>2, <3>3
    <2>4. lines' = lines \/ \E part : (part = Torn \/ part = line) /\ lines' = WithLine(part)
      BY <1>1 DEF WrittenInPart, Written
    <2> QED  BY <2>2, <2>3, <2>4
  <1>8. NothingUndone'
    <2> SUFFICES ASSUME NEW id \in Ids \ clashed, NEW event \in (Answered(id))'
                 PROVE  (FirstLost(id))' \/ Logged(lines', id, event)
      BY <1>1, <1>2 DEF NothingUndone, Stays, Logged
    <2>1. event \in Answered(id)
      BY <1>6
    <2>2. ~ cut
      BY <1>3, <2>1 DEF LogInv, CutFresh, Answered
    <2>3. FirstLost(id) => (FirstLost(id))'
      BY <1>0, LostForGood
    <2> QED  BY <1>7, <2>1, <2>2, <2>3 DEF LogInv, NothingUndone
  <1>9. CutFresh'
    BY <1>1 DEF CutFresh
  <1> QED  BY <1>0, <1>5, <1>8, <1>9, StoreKeepsLog

LEMMA LogInit == Init => LogInv
  <1> SUFFICES ASSUME Init PROVE LogInv
    OBVIOUS
  <1>1. /\ chain = << >> /\ op = [c \in Callers |-> NoOp]
        /\ last = [id \in Ids |-> 0] /\ pass = [p \in Passes |-> Idle]
    BY DEF Init, StoreInit, ScheduleInit
  <1>2. Len(chain) = 0 /\ \A p \in Passes : op[p] = NoOp /\ op[p].step = "none" /\ pass[p].phase = "idle"
    BY <1>1, CallersAssumption DEF NoOp, Idle
  <1>3. \A id \in Ids : last[id] = 0
    BY <1>1
  <1>4. \A id \in Ids : Answered(id) = {}
    BY <1>2, <1>3 DEF Answered
  <1> QED  BY <1>2, <1>3, <1>4 DEF LogInv, CallsOfPasses, ClashesSeen, ChainOfPasses, NothingUndone, CutFresh

LEMMA LogStep == DistinctIds /\ OnceInv /\ Linked /\ StoreInv /\ LogInv /\ [Next]_vars => LogInv'
  <1> SUFFICES ASSUME DistinctIds, OnceInv, Linked, StoreInv, LogInv, [Next]_vars PROVE LogInv'
    OBVIOUS
  <1>0. /\ Passes = Callers /\ DOMAIN op = Callers /\ last \in [Ids -> Int]
        /\ pass \in [Passes -> Underway \cup {Idle}]
    BY CallersAssumption DEF Linked, OnceInv, Typed
  <1>1. ASSUME UNCHANGED <<lines, cut, chain, broken, saved, gap, op, last, pass, clashed>> PROVE LogInv'
    <2>1. CallsOfPasses' /\ ClashesSeen' /\ ChainOfPasses' /\ CutFresh'
      BY <1>1 DEF LogInv, CallsOfPasses, ClashesSeen, ChainOfPasses, CutFresh, Current, Window, Call
    <2>2. \A id : (Answered(id))' \subseteq Answered(id)
      BY <1>1 DEF Answered
    <2>3. NothingUndone'
      BY <1>1, <2>2, UndoneKept DEF LogInv
    <2> QED  BY <2>1, <2>3 DEF LogInv
  <1>2. CASE UNCHANGED vars
    BY <1>1, <1>2 DEF vars, storeVars, scheduleVars
  \* A pass that does not execute has no call, and one without a save under way none in the chain.
  <1>3. ASSUME NEW p \in Passes, pass[p].phase # "executing" PROVE op[p] = NoOp
    <2>1. op[p].step = "none"
      BY <1>0, <1>3 DEF Linked
    <2> QED  BY <2>1 DEF LogInv, CallsOfPasses, Call
  <1>4. ASSUME NEW p \in Passes, op[p].step # "saving"
        PROVE  \A k \in 1 .. Len(chain) : chain[k].by \in Passes /\ chain[k].by # p
    BY <1>0, <1>4 DEF Linked
  <1>5. \A p, from, now : Scanned(p, from, now).phase # "executing"
    BY DEF Scanned, Idle
  <1>6. ASSUME NEW p \in Passes, Begin(p) \/ PolicyRefuses(p) PROVE LogInv'
    <2>1. pass[p].phase # "executing" /\ UNCHANGED <<lines, cut, chain, broken, saved, gap, op, last, clashed>>
      BY <1>6 DEF Begin, RunDue, Idle, PolicyRefuses, Refused, PolicyThrows, Fault, history, storeVars
    <2>2. \E place : place.phase # "executing" /\ pass' = [pass EXCEPT ![p] = place]
      BY <1>5, <1>6 DEF Begin, RunDue, PolicyRefuses, Refused, PolicyThrows, Scan, Idle
    <2>3. pass'[p].phase # "executing" /\ \A q \in Passes : q # p => pass'[q] = pass[q]
      BY <1>0, <2>2
    <2>4. op[p] = NoOp /\ op[p].step # "saving"
      BY <1>3, <2>1 DEF NoOp
    <2> QED  BY <1>4, <2>1, <2>3, <2>4, PassMoves
  <1>7. ASSUME NEW p \in Passes, PolicyAllows(p) PROVE LogInv'
    BY <1>7, RunBegins
  <1>8. ASSUME NEW p \in Passes, RunRecorded(p) \/ RunLost(p) PROVE LogInv'
    <2>1. op[p].step \in {"done", "failed"} /\ op' = [op EXCEPT ![p] = NoOp]
          /\ UNCHANGED <<lines, cut, chain, broken, saved, gap, clashed>>
      BY <1>8 DEF RunRecorded, RunLost, Settles, history
    <2>2. \E place : place.phase # "executing" /\ pass' = [pass EXCEPT ![p] = place]
      BY <1>5, <1>8 DEF RunRecorded, Executed, RunLost, ExecutionFails, Scan, Idle
    <2>3. pass'[p].phase # "executing" /\ \A q \in Passes : q # p => pass'[q] = pass[q]
      BY <1>0, <2>2
    <2>4. op'[p] = NoOp /\ \A q \in Passes : q # p => op'[q] = op[q]
      BY <1>0, <2>1
    <2>5. \A id \in Ids : last'[id] = last[id] \/ last'[id] \in Answered(id)
      <3>1. CASE RunLost(p)
        BY <3>1 DEF RunLost, ExecutionFails
      <3>2. CASE RunRecorded(p)
        <4>1. last' = [last EXCEPT ![Current(p).id] = Window(p)] /\ op[p].step = "done"
          BY <3>2 DEF RunRecorded, Executed, Settles
        <4>2. op[p].session = Current(p).id /\ op[p].event = Window(p)
          BY <2>1, RunsOfCalls DEF LogInv
        <4> SUFFICES ASSUME NEW id \in Ids PROVE last'[id] = last[id] \/ last'[id] \in Answered(id)
          OBVIOUS
        <4>3. CASE id = Current(p).id
          <5>1. last'[id] = op[p].event
            BY <1>0, <4>1, <4>2, <4>3
          <5> QED  BY <4>1, <4>2, <4>3, <5>1 DEF Answered
        <4>4. CASE id # Current(p).id
          BY <1>0, <4>1, <4>4
        <4> QED  BY <4>3, <4>4
      <3> QED  BY <1>8, <3>1, <3>2
    <2> QED  BY <1>4, <2>1, <2>3, <2>4, <2>5, PassMoves
  <1>9. ASSUME NEW p \in Passes, Reads(p) PROVE LogInv'
    BY <1>9, SaveLogged DEF Reads
  <1>10. CASE LineAdded
    BY <1>10, LineLogged DEF LineAdded
  <1>11. CASE WriteFails
    BY <1>11, LineLost DEF WriteFails
  <1>12. CASE Restart
    <2>1. /\ last' = [id \in Ids |-> 0] /\ pass' = [p \in Passes |-> Idle]
          /\ chain' = << >> /\ op' = [c \in Callers |-> NoOp]
      BY <1>12 DEF Restart, Restarts
    <2>2. Len(chain') = 0 /\ \A p \in Passes : op'[p] = NoOp /\ op'[p].step = "none" /\ pass'[p].phase = "idle"
      BY <1>0, <2>1 DEF NoOp, Idle
    <2>3. \A id \in Ids : last'[id] = 0
      BY <2>1
    <2>4. \A id \in Ids : (Answered(id))' = {}
      BY <2>2, <2>3 DEF Answered
    <2> QED  BY <2>2, <2>3, <2>4 DEF LogInv, CallsOfPasses, ClashesSeen, ChainOfPasses, NothingUndone, CutFresh
  <1>13. CASE Time
    BY <1>1, <1>13 DEF Time, Tick, storeVars, history
  <1> QED  BY <1>2, <1>6, <1>7, <1>8, <1>9, <1>10, <1>11, <1>12, <1>13 DEF Next

(***************************************************************************)
(* A window that runDue() skips as run is in the file, unless two runs of  *)
(* its schedule were written at once: last is set only once the append has *)
(* been answered, and no later line of the session is without it           *)
(* (ScheduleExecutor.runDue(), JSONLSessionStore.appendEvent()).  Excepted *)
(* is the schedule whose run was the first save of a process that took     *)
(* over a last line without its end: the file cannot be read any more.     *)
(***************************************************************************)
THEOREM SkippedRunsAreLogged ==
  ASSUME DistinctIds
  PROVE  Spec => []RunsAreLogged
  <1>1. Init => OnceInv /\ Linked /\ StoreInv /\ LogInv
    BY OnceInit, LinkedInit, FileInit, LogInit
  <1>2. OnceInv /\ Linked /\ StoreInv /\ LogInv /\ [Next]_vars => OnceInv' /\ Linked' /\ StoreInv' /\ LogInv'
    BY OnceStep, StoreStepKept, LogStep
  <1>3. LogInv => RunsAreLogged
    BY DEF LogInv, NothingUndone, Answered, Stays, Logged, RunsAreLogged
  <1> QED  BY <1>1, <1>2, <1>3, PTL DEF Spec
=============================================================================
