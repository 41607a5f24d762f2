---------------------------- MODULE ScheduledRuns ----------------------------
(***************************************************************************)
(* A host that calls runDue() again and again, two passes at once if it    *)
(* likes, and whose execute() appends each run to the session of its       *)
(* schedule in a JSONLSessionStore.  The host is external: the repository  *)
(* has the executor and the store, and leaves the two to it.               *)
(***************************************************************************)
EXTENDS JsonlStore, Schedules

ASSUME CallersAssumption == Callers = Passes /\ Sessions = Ids

VARIABLES
    ran,        \* history: <<schedule, window>> -> runs that execute() reported in this process
    overlapped, \* history: two passes were under way at once in this process
    clashed     \* history: the schedules that two passes had runs of at once in this process

vars == <<storeVars, scheduleVars, ran, overlapped, clashed>>
history == <<ran, overlapped, clashed>>

File == [i \in 1 .. Cardinality(Sessions) |-> Snapshot(SetToSeq(Sessions)[i], << >>)]
Init ==
    /\ StoreInit(File) /\ ScheduleInit
    /\ ran = {} /\ overlapped = FALSE /\ clashed = {}

Fault == faults < MaxFaults /\ faults' = faults + 1 /\ UNCHANGED <<lines, cut, chain, broken, op, saved, first, gap>>

Begin(p) ==
    /\ RunDue(p)
    /\ overlapped' = (overlapped \/ \E other \in Passes \ {p} : pass[other] # Idle)
    /\ UNCHANGED <<storeVars, ran, clashed>>
PolicyAllows(p) ==
    /\ Allowed(p) /\ AppendEvent(p, Current(p).id, Window(p))
    /\ clashed' = clashed \cup
         {Current(q).id : q \in {q \in Passes \ {p} : pass[q].phase = "executing" /\ pass[q].index = pass[p].index}}
    /\ UNCHANGED <<ran, overlapped>>
PolicyRefuses(p) == (Refused(p) \/ PolicyThrows(p)) /\ Fault /\ UNCHANGED history

RunRecorded(p) ==
    /\ Settles(p, "done") /\ Executed(p)
    /\ ran' = LET run == <<Current(p).id, Window(p)>>
              IN  ran \cup {<<run, 1 + Cardinality({r \in ran : r[1] = run})>>}
    /\ UNCHANGED <<overlapped, clashed>>
RunLost(p) == Settles(p, "failed") /\ ExecutionFails(p) /\ UNCHANGED history

Restart ==
    /\ Restarts
    /\ last' = [id \in Ids |-> 0] /\ pass' = [p \in Passes |-> Idle]
    /\ ran' = {} /\ overlapped' = FALSE /\ clashed' = {}
    /\ UNCHANGED clock

LineAdded == LineWritten /\ UNCHANGED <<scheduleVars, history>>
WriteFails == LineFails /\ UNCHANGED <<scheduleVars, history>>
Reads(caller) == (ReadsAndSaves(caller) \/ ReadsPartly(caller)) /\ UNCHANGED <<scheduleVars, history>>
Time == Tick /\ UNCHANGED <<storeVars, history>>

Next ==
    \/ \E p \in Passes :
         Begin(p) \/ PolicyAllows(p) \/ PolicyRefuses(p) \/ RunRecorded(p) \/ RunLost(p) \/ Reads(p)
    \/ LineAdded \/ WriteFails \/ Restart \/ Time

Spec == Init /\ [][Next]_vars

\* The host keeps calling, the policy answers, the file system does what it is asked.  At most one
\* step of a caller is enabled beside its refusal.
PassStep(p) == Begin(p) \/ PolicyAllows(p) \/ RunRecorded(p) \/ RunLost(p) \/ Reads(p)
FairSpec ==
    /\ Spec
    /\ \A p \in Passes : WF_vars(PassStep(p))
    /\ WF_vars(LineAdded)

--------------------------------------------------------------------------
\* One process runs a window once, as long as its passes do not overlap (ScheduleExecutor.last).
RunsOnce == ~ overlapped => \A r \in ran : r[2] = 1

\* A window that counts as run is in the snapshot the file has of its schedule, unless two runs of
\* that schedule were written at once: what runDue() skips has been recorded, whatever failed.  One
\* run may be lost after its append was answered, the first of a process that took over a file whose
\* last line has no end: the two are one line, which nothing can read.
FirstLost(id) == gap /\ saved # << >> /\ Head(saved).session = id /\ ~ Readable(lines)
RunsAreLogged ==
    \A id \in Ids \ clashed :
        last[id] # 0 => FirstLost(id) \/ (Known(lines, id) /\ last[id] \in ToSet(EventsOf(lines, id)))

\* For good and all, every window that has opened of an enabled schedule below which none throws has
\* been run or a later one has, unless the store is lost for the process or its file for good
\* (runDue(), JSONLSessionStore.writeChain).
Opened == [i \in DOMAIN List |-> [now \in Clocks |-> IF Throws[i][now] THEN {} ELSE Windows(List[i], now)]]
Reached(i) == \A j \in 1 .. i : List[j].enabled => \A now \in Clocks : ~ Throws[j][now]
Served == {i \in DOMAIN List : List[i].enabled /\ Reached(i)}
Lost == broken \/ ~ Readable(lines)
DueRuns == <>[](Lost \/ \A i \in Served : \A window \in Opened[i][clock] : last[List[i].id] >= window)
=============================================================================
