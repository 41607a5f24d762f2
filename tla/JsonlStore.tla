------------------------------ MODULE JsonlStore ------------------------------
(***************************************************************************)
(* persistence/jsonl.ts: JSONLSessionStore over its file, used by several  *)
(* callers at once.  A save is a line appended through writeChain;         *)
(* appendEvent() lists the file and saves the snapshot it found with one   *)
(* event more.  The file system is external: an append may fail, or the    *)
(* process end, with any part of its line written, a whole record without  *)
(* its line end included, to which the next append is joined.              *)
(***************************************************************************)
EXTENDS Naturals, Sequences, FiniteSets, SequencesExt

CONSTANTS
    Callers,        \* who has a call under way on the store
    Sessions,       \* ids of the sessions in it
    MaxFaults       \* bound on what fails: appends, reads, answers, the process

ASSUME FaultsAssumption == MaxFaults \in Nat

VARIABLES
    lines,      \* the file: snapshots [session, events], or Torn
    cut,        \* the last line of the file has no line end
    chain,      \* writeChain: the saves not settled yet, the first one being written
    broken,     \* writeChain is rejected
    op,         \* caller -> the call it has under way
    saved,      \* history: the snapshots saved since the store was made
    first,      \* history: lines of the file when the store was made
    gap,        \* history: cut when the store was made
    faults      \* history: what has failed

storeVars == <<lines, cut, chain, broken, op, saved, first, gap, faults>>

Torn == [torn |-> TRUE]
NoOp == [step |-> "none"]
Snapshot(session, events) == [session |-> session, events |-> events]

\* A line written behind one without its end is joined to it, and neither parses.
WithLine(line) == IF cut THEN [lines EXCEPT ![Len(lines)] = Torn] ELSE Append(lines, line)

\* What there is in the file of an append that is not over: nothing, a part of the line or the whole
\* of it without its end, or all.
Written(line) == lines' = WithLine(line) /\ cut' = FALSE
WrittenInPart(line) ==
    \/ UNCHANGED <<lines, cut>>
    \/ \E part \in {Torn, line} : lines' = WithLine(part) /\ cut' = TRUE
    \/ Written(line)

\* list(): every line parses, and the last snapshot of a session counts.
Readable(file) == Torn \notin ToSet(file)
LinesOf(file, session) == {i \in DOMAIN file : file[i] # Torn /\ file[i].session = session}
Known(file, session) == LinesOf(file, session) # {}
EventsOf(file, session) == file[Max(LinesOf(file, session))].events

StoreInit(file) ==
    /\ lines = file /\ first = Len(file)
    /\ chain = << >> /\ saved = << >> /\ faults = 0
    /\ cut = FALSE /\ gap = FALSE /\ broken = FALSE
    /\ op = [caller \in Callers |-> NoOp]

Fails(caller) == [op EXCEPT ![caller].step = "failed"]

\* save(): the line waits for those before it, unless one of them was rejected.
Saves(caller, snapshot) ==
    /\ saved' = Append(saved, snapshot)
    /\ IF broken THEN op' = Fails(caller) /\ UNCHANGED chain
       ELSE /\ chain' = Append(chain, [by |-> caller, line |-> snapshot])
            /\ op' = [op EXCEPT ![caller].step = "saving"]

\* appendEvent() begins with list(), which waits for the saves called before it.
AppendEvent(caller, session, event) ==
    /\ op[caller] = NoOp
    /\ op' = [op EXCEPT ![caller] =
                [step |-> IF broken THEN "failed" ELSE IF chain = << >> THEN "reading" ELSE "draining",
                 session |-> session, event |-> event, behind |-> Len(chain)]]
    /\ UNCHANGED <<lines, cut, chain, broken, saved, first, gap, faults>>

\* The append of the first line is over: those that waited for it go on.
Advanced(calls, by) ==
    [caller \in Callers |->
        CASE caller = by -> [calls[caller] EXCEPT !.step = "done"]
          [] calls[caller].step = "draining" ->
               LET behind == calls[caller].behind - 1
               IN  [calls[caller] EXCEPT !.behind = behind, !.step = IF behind = 0 THEN "reading" ELSE "draining"]
          [] OTHER -> calls[caller]]
LineWritten ==
    /\ chain # << >>
    /\ Written(Head(chain).line)
    /\ chain' = Tail(chain)
    /\ op' = Advanced(op, Head(chain).by)
    /\ UNCHANGED <<broken, saved, first, gap, faults>>

\* A rejected append rejects all that wait for it, and every later one.
Rejected(calls) ==
    [caller \in Callers |->
        IF calls[caller].step \in {"saving", "draining"} THEN [calls[caller] EXCEPT !.step = "failed"] ELSE calls[caller]]
\* A mutant: the chain goes on after a rejected append.
LineFailsAlone ==
    /\ chain # << >> /\ faults < MaxFaults /\ faults' = faults + 1
    /\ op' = [op EXCEPT ![Head(chain).by].step = "failed"]
    /\ chain' = Tail(chain)
    /\ UNCHANGED <<lines, cut, broken, saved, first, gap>>
LineFails ==
    /\ chain # << >> /\ faults < MaxFaults /\ faults' = faults + 1
    /\ WrittenInPart(Head(chain).line)
    /\ broken' = TRUE /\ chain' = << >>
    /\ op' = Rejected(op)
    /\ UNCHANGED <<saved, first, gap>>

\* readFile() has the whole file, or a part of the line that is being written; a line that lacks
\* no more than its end is read as one that has been written.
ReadsAndSaves(caller) ==
    /\ op[caller].step = "reading"
    /\ LET session == op[caller].session
       IN  IF Readable(lines) /\ Known(lines, session)
           THEN Saves(caller, Snapshot(session, Append(EventsOf(lines, session), op[caller].event)))
           ELSE op' = Fails(caller) /\ UNCHANGED <<chain, saved>>
    /\ UNCHANGED <<lines, cut, broken, first, gap, faults>>
ReadsPartly(caller) ==
    /\ op[caller].step = "reading" /\ chain # << >>
    /\ faults < MaxFaults /\ faults' = faults + 1
    /\ op' = Fails(caller)
    /\ UNCHANGED <<lines, cut, chain, broken, saved, first, gap>>

\* The caller has the outcome of its call.
Settles(caller, outcome) ==
    /\ op[caller].step = outcome
    /\ op' = [op EXCEPT ![caller] = NoOp]
    /\ UNCHANGED <<lines, cut, chain, broken, saved, first, gap, faults>>

\* The process ends, a line under way written or not or in part, and a new store has the file.
Restarts ==
    /\ faults < MaxFaults /\ faults' = faults + 1
    /\ IF chain = << >> THEN UNCHANGED <<lines, cut>> ELSE WrittenInPart(Head(chain).line)
    /\ first' = Len(lines') /\ gap' = cut'
    /\ chain' = << >> /\ saved' = << >> /\ broken' = FALSE
    /\ op' = [caller \in Callers |-> NoOp]

StoreStep == LineWritten \/ LineFails \/ \E caller \in Callers : ReadsAndSaves(caller) \/ ReadsPartly(caller)

\* The lines a store adds to its file are those of the first saves it was asked for, in their order:
\* a failed append leaves no gap that a later one would hide, and nothing follows a part of a line
\* (JSONLSessionStore.save(), writeChain).
\* One save alone is missing, the first of a store made on a file whose last line has no end: it is
\* joined to that line, and the file cannot be read any more.
Joined == IF gap THEN 1 ELSE 0
WritesInOrder ==
    /\ \A i \in first + 1 .. Len(lines) :
          LET save == i - first + Joined
          IN  \/ save <= Len(saved) /\ lines[i] = saved[save]
              \/ lines[i] = Torn /\ i = Len(lines) /\ broken
    /\ gap /\ Len(lines) > first => lines[first] = Torn
=============================================================================
