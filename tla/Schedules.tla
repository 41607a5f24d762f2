------------------------------ MODULE Schedules ------------------------------
(***************************************************************************)
(* schedules/index.ts: parseSchedule() and the passes of                   *)
(* ScheduleExecutor.runDue(), several of which may be under way.  Instants *)
(* are minutes.  A schedule is [id, expression, zone, enabled]; an         *)
(* expression is ["every", amount] or ["cron", fields], a field being a    *)
(* set of segments [from, to, step].                                       *)
(***************************************************************************)
EXTENDS Naturals, Integers, Sequences, FiniteSets, FiniteSetsExt

CONSTANTS
    List,           \* the schedules of a pass, in their order
    Passes,         \* passes that may overlap
    Since,          \* the instant the host has its windows from
    TimeStep,       \* minutes the clock advances at a time
    Horizon,        \* bound on the clock
    SearchLimit     \* minutes next() looks ahead: 366 days in the code

ASSUME ClockAssumption ==
    Since \in Nat /\ Horizon \in Nat /\ Since <= Horizon /\ TimeStep \in Nat \ {0} /\ SearchLimit \in Nat

ASSUME ListAssumption == Len(List) \in Nat /\ DOMAIN List = 1 .. Len(List)

VARIABLES
    clock,      \* now()
    last,       \* ScheduleExecutor.last: schedule id -> window, 0 for none
    pass        \* pass -> where it is

scheduleVars == <<clock, last, pass>>

Ids == {List[i].id : i \in DOMAIN List}
Every(amount) == [kind |-> "every", amount |-> amount]
Cron(fields) == [kind |-> "cron", fields |-> fields]

--------------------------------------------------------------------------
(* parseSchedule() and cronField().                                        *)

Ranges == << <<0, 59>>, <<0, 23>>, <<1, 31>>, <<1, 12>>, <<0, 6>> >>
SegmentValid(segment, range) ==
    segment.step >= 1 /\ range[1] <= segment.from /\ segment.from <= segment.to /\ segment.to <= range[2]
CronField(segments) ==
    UNION {{n \in segment.from .. segment.to : (n - segment.from) % segment.step = 0} : segment \in segments}
Valid(schedule) ==
    /\ schedule.zone.known
    /\ IF schedule.expression.kind = "every" THEN schedule.expression.amount >= 1
       ELSE \A i \in 1 .. 5 : \A segment \in schedule.expression.fields[i] : SegmentValid(segment, Ranges[i])

\* Intl: the wall clock of a zone, which may be set back or forth at an instant.  Months are not counted.
ZonedParts(instant, zone) ==
    LET local == instant + IF instant < zone.change THEN zone.before ELSE zone.after
    IN  <<local % 60, (local \div 60) % 24, 1 + local \div 1440, 1, (local \div 1440) % 7>>
Matches(schedule, instant) ==
    \A i \in 1 .. 5 : ZonedParts(instant, schedule.zone)[i] \in CronField(schedule.expression.fields[i])

\* The windows of a schedule up to now, next() after next(), the one beyond now looked for as well:
\* without it within the limit next() throws.
Searched(schedule, now) == {t \in Since + 1 .. now + 1 + SearchLimit : Matches(schedule, t)}
Windows(schedule, now) ==
    IF schedule.expression.kind = "every"
    THEN {t \in Since + 1 .. now : (t - Since) % schedule.expression.amount = 0}
    ELSE {t \in Searched(schedule, now) : t <= now}
NoOccurrence(schedule, now) ==
    /\ schedule.expression.kind = "cron"
    /\ \E t \in {Since} \cup Windows(schedule, now) :
         ~ \E u \in Searched(schedule, now) : t < u /\ u <= t + 1 + SearchLimit

\* Missed windows are collapsed into the latest one.
\* A mutant: a pass stays with the first of them.
LatestFirst(schedule, now) == IF Windows(schedule, now) = {} THEN 0 ELSE Min(Windows(schedule, now))
Latest(schedule, now) == IF Windows(schedule, now) = {} THEN 0 ELSE Max(Windows(schedule, now))

Clocks == {t \in Since .. Horizon : \E n \in 0 .. Horizon : t = Since + n * TimeStep}
Throws == [i \in DOMAIN List |-> [now \in Clocks |-> ~ Valid(List[i]) \/ NoOccurrence(List[i], now)]]
Due == [i \in DOMAIN List |-> [now \in Clocks |-> IF Throws[i][now] THEN 0 ELSE Latest(List[i], now)]]

--------------------------------------------------------------------------
(* runDue(): from one await to the next.                                   *)

Idle == [phase |-> "idle", now |-> 0, index |-> 0]
ScheduleInit ==
    /\ clock = Since
    /\ last = [id \in Ids |-> 0]
    /\ pass = [p \in Passes |-> Idle]

Current(p) == List[pass[p].index]
Window(p) == Due[pass[p].index][pass[p].now]

\* What makes the loop stop at a schedule: it throws, or its policy is asked.
Stops(i, now) ==
    /\ List[i].enabled
    /\ Throws[i][now] \/ (Due[i][now] # 0 /\ last'[List[i].id] # Due[i][now])
Scanned(p, from, now) ==
    LET stops == {i \in from .. Len(List) : Stops(i, now)}
    IN  IF stops = {} \/ Throws[Min(stops)][now] THEN Idle
        ELSE [phase |-> "checking", now |-> now, index |-> Min(stops)]
Scan(p, from, now) == pass' = [pass EXCEPT ![p] = Scanned(p, from, now)]

RunDue(p) ==
    /\ pass[p] = Idle
    /\ UNCHANGED <<clock, last>>
    /\ Scan(p, 1, clock)

\* The policy answers: only "allow" lets the run begin, a rejection ends the pass.
Allowed(p) ==
    /\ pass[p].phase = "checking"
    /\ pass' = [pass EXCEPT ![p].phase = "executing"]
    /\ UNCHANGED <<clock, last>>
Refused(p) ==
    /\ pass[p].phase = "checking"
    /\ UNCHANGED <<clock, last>>
    /\ Scan(p, pass[p].index + 1, pass[p].now)
PolicyThrows(p) ==
    /\ pass[p].phase = "checking"
    /\ pass' = [pass EXCEPT ![p] = Idle]
    /\ UNCHANGED <<clock, last>>

\* execute() has settled.
\* A mutant: the instant the pass began at is recorded, not the window.
ExecutedAt(p) ==
    /\ last' = [last EXCEPT ![Current(p).id] = pass[p].now]
    /\ UNCHANGED clock
    /\ Scan(p, pass[p].index + 1, pass[p].now)
Executed(p) ==
    /\ last' = [last EXCEPT ![Current(p).id] = Window(p)]
    /\ UNCHANGED clock
    /\ Scan(p, pass[p].index + 1, pass[p].now)
\* A mutant: a window whose run failed counts as run.
ExecutionMarked(p) ==
    /\ pass' = [pass EXCEPT ![p] = Idle]
    /\ last' = [last EXCEPT ![Current(p).id] = Window(p)]
    /\ UNCHANGED clock
ExecutionFails(p) ==
    /\ pass' = [pass EXCEPT ![p] = Idle]
    /\ UNCHANGED <<clock, last>>

Tick ==
    /\ clock + TimeStep <= Horizon
    /\ clock' = clock + TimeStep
    /\ UNCHANGED <<last, pass>>
=============================================================================
