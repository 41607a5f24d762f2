--------------------------- MODULE MCScheduledRuns ---------------------------
(* An instance of ScheduledRuns: an interval, a cron expression in a zone   *)
(* whose clock is set back, a schedule that is off, and one that throws.    *)
EXTENDS ScheduledRuns

CONSTANTS p1, p2

UTC == [known |-> TRUE, before |-> 0, after |-> 0, change |-> 0]
SetBack == [known |-> TRUE, before |-> 60, after |-> 0, change |-> 30]
Segment(from, to, step) == [from |-> from, to |-> to, step |-> step]
AnyTime == <<{Segment(0, 59, 1)}, {Segment(0, 23, 1)}, {Segment(1, 31, 1)}, {Segment(1, 12, 1)}, {Segment(0, 6, 1)}>>
At(minutes, hours) == [AnyTime EXCEPT ![1] = minutes, ![2] = hours]
Schedule(id, expression, zone, enabled) == [id |-> id, expression |-> expression, zone |-> zone, enabled |-> enabled]

\* Its hour comes twice, at minutes 15 and 75; the last two have no window, now or ever.
SomeSchedules ==
    <<Schedule("hourly", Cron(At({Segment(15, 15, 1)}, {Segment(1, 1, 1)})), SetBack, TRUE),
      Schedule("off", Cron(At({Segment(0, 59, 0)}, {Segment(0, 23, 1)})), UTC, FALSE),
      Schedule("interval", Every(80), UTC, TRUE),
      Schedule("never", Cron([AnyTime EXCEPT ![3] = {Segment(31, 31, 1)}]), UTC, TRUE)>>
TwoPasses == {p1, p2}
AllSessions == {"hourly", "off", "interval", "never"}
=============================================================================
