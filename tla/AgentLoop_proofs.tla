-------------------------- MODULE AgentLoop_proofs --------------------------
(***************************************************************************)
(* AgentLoop for any number of iterations, calls, slots and candidates:    *)
(* typing, the semaphore, the budgets, and that every step of the run is a *)
(* step of GovernedRun or leaves it alone.                                 *)
(***************************************************************************)
EXTENDS AgentLoop, FiniteSetTheorems, WellFoundedInduction, TLAPS

-----------------------------------------------------------------------------
(* Where the loop is, and how far its counters are: they are equal between   *)
(* turns, and inside a turn they say which of its calls were let through.    *)

Open == outcome = "open"

LoopPlace ==
    /\ pc = "ended" <=> outcome # "open"
    /\ pc \notin {"head", "ended"} => iteration < MaxIterations
    /\ pc \in {"head", "model"} => answered = issued
    /\ pc \in {"policy", "requested", "wait"} =>
         IF stage = "call" THEN granted < issued ELSE answered = issued
    /\ pc \in {"dispatch", "results"} => granted = issued
    /\ outcome = "completed" => answered = issued

\* The model that is asked may get the conversation's state.
AskedSuits == pc = "model" => candidate \in Suitable(1)

\* What assertParallel() and recordCalls() let through.
Budgeted == issued <= MaxCalls /\ issued - answered <= MaxParallel

LoopInv == LoopTypeOK /\ LoopPlace /\ AskedSuits /\ Budgeted

LEMMA CandidatesCounted == Len(Candidates) \in Nat
BY CandidatesAssumption

\* Some candidate suits, so there is a first one.
LEMMA FirstSuits ==
    ASSUME NEW n \in Nat \ {0}
    PROVE  IF Suitable(n) = {} THEN FirstSuitable(n) = Len(Candidates) + 1
                               ELSE FirstSuitable(n) \in Suitable(n)
<1>1. CASE Suitable(n) = {}
    BY <1>1 DEF FirstSuitable
<1>2. CASE Suitable(n) # {}
    <2>1. Suitable(n) \subseteq Nat
        BY CandidatesCounted DEF Suitable
    <2>2. PICK m \in Suitable(n) : \A k \in Suitable(n) : ~(<<k, m>> \in OpToRel(<, Nat))
        BY <1>2, <2>1, NatLessThanWellFounded, WFMin
    <2>3. \A k \in Suitable(n) : m <= k
        <3> TAKE k \in Suitable(n)
        <3>1. k \in Nat /\ m \in Nat
            BY <2>1
        <3>2. k < m => <<k, m>> \in OpToRel(<, Nat)
            BY <3>1 DEF OpToRel
        <3>3. ~(k < m)
            BY <2>2, <3>2
        <3> QED  BY <3>1, <3>3
    <2>4. FirstSuitable(n) = CHOOSE j \in Suitable(n) : \A k \in Suitable(n) : j <= k
        BY <1>2 DEF FirstSuitable
    <2> QED  BY <1>2, <2>3, <2>4
<1> QED  BY <1>1, <1>2

\* Asking leaves the run at a candidate that suits, or ended.
LEMMA AskFromLeads ==
    ASSUME LoopTypeOK, Open, NEW n \in 1..(Len(Candidates) + 1),
           NEW e \in {"none", "execution", "not_found"}, AskFrom(n, e)
    PROVE  /\ candidate' \in 1..(Len(Candidates) + 1)
           /\ strategy' \in Strategies \cup {NativeFallback}
           /\ lastError' \in {"none", "execution", "not_found"}
           /\ \/ pc' = "model" /\ outcome' = "open" /\ candidate' \in Suitable(1)
              \/ pc' = "ended" /\ outcome' = "model_error"
<1>0. Len(Candidates) \in Nat
    BY CandidatesCounted
<1>1. \A k \in 1..(Len(Candidates) + 1) :
         \/ FirstSuitable(k) = Len(Candidates) + 1
         \/ FirstSuitable(k) \in Suitable(1) /\ FirstSuitable(k) <= Len(Candidates)
    <2> TAKE k \in 1..(Len(Candidates) + 1)
    <2>1. k \in Nat \ {0} /\ Suitable(k) \subseteq Suitable(1)
        BY <1>0 DEF Suitable
    <2>2. \A m \in Suitable(1) : m <= Len(Candidates)
        BY <1>0 DEF Suitable
    <2> QED  BY <2>1, <2>2, FirstSuits
<1>2. 1 \in 1..(Len(Candidates) + 1)
    BY <1>0
<1>3. \E k \in 1..(Len(Candidates) + 1) :
         /\ candidate' = FirstSuitable(k)
         /\ IF candidate' > Len(Candidates) THEN Fails("model_error") ELSE Goes("model")
    BY <1>2 DEF AskFrom
<1>4. /\ strategy' \in {strategy, NativeFallback}
      /\ lastError' \in {"none", e}
    BY DEF AskFrom
<1>5. Suitable(1) \subseteq 1..(Len(Candidates) + 1)
    BY <1>0 DEF Suitable
<1> QED  BY <1>0, <1>1, <1>3, <1>4, <1>5 DEF LoopTypeOK, Open, Fails, Goes

LEMMA LoopInitTyped == Init => LoopInv
<1> SUFFICES ASSUME Init PROVE LoopInv
    OBVIOUS
<1>1. Candidates[1] \in Providers /\ 1 \in 1..(Len(Candidates) + 1)
    BY CandidatesAssumption DEF Providers
<1>2. 0 \in 0..MaxIterations /\ 0 \in 0..CallBound /\ 0 \in Nat /\ 0 \in 0..0
    BY LimitsAssumption, CallBoundAssumption
<1>3. LoopTypeOK
    BY <1>1, <1>2 DEF Init, LoopTypeOK, Stages, Decisions
<1> QED  BY <1>3, LimitsAssumption DEF Init, LoopInv, LoopPlace, AskedSuits, Budgeted

\* Passing a checkpoint keeps the loop's invariant.
LEMMA GrantedKeepsLoop ==
    ASSUME LoopInv, pc \in {"policy", "wait"}, Granted,
           UNCHANGED <<decision, checkpointFrame>>
    PROVE  LoopInv'
<1>0. /\ LoopTypeOK /\ Open /\ iteration < MaxIterations
      /\ UNCHANGED <<decision, stage, iteration, state, validations, answered, collected>>
    BY DEF LoopInv, LoopPlace, Open, checkpointFrame
<1>1. CASE stage = "model"
    <2>1. AskFrom(1, "none") /\ UNCHANGED <<issued, granted>>
        BY <1>1 DEF Granted
    <2>2. 1 \in 1..(Len(Candidates) + 1)
        BY CandidatesCounted
    <2>3. /\ candidate' \in 1..(Len(Candidates) + 1)
          /\ strategy' \in Strategies \cup {NativeFallback}
          /\ lastError' \in {"none", "execution", "not_found"}
          /\ \/ pc' = "model" /\ outcome' = "open" /\ candidate' \in Suitable(1)
             \/ pc' = "ended" /\ outcome' = "model_error"
        BY <1>0, <2>1, <2>2, AskFromLeads
    <2>4. answered = issued
        BY <1>1 DEF LoopInv, LoopPlace
    <2>5. LoopTypeOK'
        BY <1>0, <2>1, <2>3 DEF LoopTypeOK, Failures
    <2>6. LoopPlace' /\ AskedSuits'
        BY <1>0, <2>1, <2>3, <2>4 DEF LoopPlace, AskedSuits, Suitable
    <2>7. Budgeted'
        BY <1>0, <2>1 DEF LoopInv, Budgeted
    <2> QED  BY <2>5, <2>6, <2>7 DEF LoopInv
<1>2. CASE stage = "call"
    <2>1. /\ granted' = granted + 1
          /\ pc' = (IF granted' = issued THEN "dispatch" ELSE "policy")
          /\ UNCHANGED <<strategy, candidate, lastError, issued, outcome>>
        BY <1>2 DEF Granted, Goes
    <2>2. granted < issued
        BY <1>2 DEF LoopInv, LoopPlace
    <2>3. granted' \in 0..issued /\ answered \in 0..granted'
        BY <1>0, <2>1, <2>2 DEF LoopTypeOK
    <2>4. LoopTypeOK'
        BY <1>0, <2>1, <2>3 DEF LoopTypeOK
    <2>5. LoopPlace' /\ AskedSuits'
        BY <1>0, <1>2, <2>1, <2>2, <2>3 DEF LoopTypeOK, LoopPlace, AskedSuits, Open
    <2>6. Budgeted'
        BY <1>0, <2>1 DEF LoopInv, Budgeted
    <2> QED  BY <2>4, <2>5, <2>6 DEF LoopInv
<1>3. CASE stage = "final"
    <2>1. /\ pc' = "ended" /\ outcome' = "completed"
          /\ UNCHANGED <<strategy, candidate, lastError, issued, granted>>
        BY <1>3 DEF Granted, Fails
    <2>2. answered = issued
        BY <1>3 DEF LoopInv, LoopPlace
    <2>3. LoopTypeOK'
        BY <1>0, <2>1 DEF LoopTypeOK
    <2>4. LoopPlace' /\ AskedSuits' /\ Budgeted'
        BY <1>0, <2>1, <2>2 DEF LoopInv, LoopPlace, AskedSuits, Budgeted
    <2> QED  BY <2>3, <2>4 DEF LoopInv
<1> QED  BY <1>0, <1>1, <1>2, <1>3 DEF LoopTypeOK, Stages

\* Ending a run that has not completed keeps it, whatever else stays.
LEMMA FailingKeepsLoop ==
    ASSUME LoopInv, NEW o \in Failures \cup {"cancelled"}, Fails(o),
           stage' \in Stages, validations' \in Nat,
           state' \in Providers \cup {NoProvider, "foreign"},
           UNCHANGED <<decision, iteration, strategy, candidate, lastError, issued, granted,
                       answered, collected>>
    PROVE  LoopInv'
<1>1. o # "open" /\ o # "completed"
    BY DEF Failures
<1>2. LoopTypeOK'
    BY DEF LoopInv, LoopTypeOK, Fails
<1>3. LoopPlace' /\ AskedSuits' /\ Budgeted'
    BY <1>1 DEF LoopInv, LoopPlace, AskedSuits, Budgeted, Fails
<1> QED  BY <1>2, <1>3 DEF LoopInv

LEMMA StepKeepsLoop == LoopInv /\ [Next]_vars => LoopInv'
<1> SUFFICES ASSUME LoopInv, [Next]_vars PROVE LoopInv'
    OBVIOUS
<1>0. LoopTypeOK /\ LoopPlace /\ AskedSuits /\ Budgeted
    BY DEF LoopInv
<1>f. {"cancelled", "denied", "iterations", "budget", "model_error", "invalid_output"}
          \subseteq Failures \cup {"cancelled"}
    BY DEF Failures
<1>s. \A m \in Suitable(1) : Candidates[m] \in Providers
    BY DEF Suitable, Providers
<1>1. CASE TurnBegins
    <2>1. CASE Goes("policy")
        <3>1. (pc = "head" /\ iteration # MaxIterations) \/ outcome' = "iterations"
            BY <1>1 DEF TurnBegins, Fails
        <3>2. iteration < MaxIterations \/ outcome' = "iterations"
            BY <1>0, <3>1, LimitsAssumption DEF LoopTypeOK
        <3>3. pc = "head" /\ stage' = "model"
              /\ UNCHANGED <<decision, iteration, strategy, candidate, lastError,
                             state, validations, issued, granted, answered, collected>>
            BY <1>1 DEF TurnBegins
        <3>4. LoopTypeOK'
            BY <1>0, <2>1, <3>3 DEF LoopTypeOK, Goes, Stages
        <3>5. LoopPlace' /\ AskedSuits' /\ Budgeted'
            BY <1>0, <2>1, <3>2, <3>3 DEF LoopPlace, AskedSuits, Budgeted, Goes
        <3> QED  BY <3>4, <3>5 DEF LoopInv
    <2>2. CASE Fails("iterations") \/ Fails("cancelled")
        <3>1. /\ stage' \in Stages /\ validations' \in Nat
              /\ state' \in Providers \cup {NoProvider, "foreign"}
              /\ UNCHANGED <<decision, iteration, strategy, candidate, lastError, issued, granted,
                             answered, collected>>
            BY <1>0, <1>1 DEF TurnBegins, LoopTypeOK, Stages
        <3> QED  BY <1>f, <2>2, <3>1, FailingKeepsLoop
    <2> QED  BY <1>1, <2>1, <2>2 DEF TurnBegins
<1>2. CASE PolicyAllows
    BY <1>2, GrantedKeepsLoop DEF PolicyAllows
<1>3. CASE Approved
    BY <1>3, GrantedKeepsLoop DEF Approved
<1>4. CASE PolicyDenies \/ Refused \/ (WaitBegins /\ aborted)
    <2>1. /\ Fails("denied") \/ Fails("cancelled")
          /\ UNCHANGED <<stage, decision, iteration, strategy, candidate, lastError, state,
                         validations, issued, granted, answered, collected>>
        BY <1>4 DEF PolicyDenies, Refused, WaitBegins, checkpointFrame
    <2>2. /\ stage' \in Stages /\ validations' \in Nat
          /\ state' \in Providers \cup {NoProvider, "foreign"}
        BY <1>0, <2>1 DEF LoopTypeOK
    <2> QED  BY <1>f, <2>1, <2>2, FailingKeepsLoop
<1>5. CASE PolicyAsks \/ (WaitBegins /\ ~aborted)
    <2>1. /\ pc \in {"policy", "requested"} /\ pc' \in {"requested", "wait"}
          /\ decision' \in {decision, "none"}
          /\ UNCHANGED <<stage, iteration, strategy, candidate, lastError, state,
                         validations, issued, granted, answered, collected, outcome>>
        BY <1>5 DEF PolicyAsks, WaitBegins, checkpointFrame, Goes
    <2> QED  BY <1>0, <2>1 DEF LoopInv, LoopTypeOK, LoopPlace, AskedSuits, Budgeted
<1>6. CASE ModelFails
    <2>1. PICK e \in {"execution", "not_found"} : AskFrom(candidate + 1, e)
        BY <1>6 DEF ModelFails
    <2>2. /\ pc = "model"
          /\ UNCHANGED <<decision, stage, iteration, state, validations, issued, granted,
                         answered, collected>>
        BY <1>6 DEF ModelFails, modelFrame
    <2>3. candidate + 1 \in 1..(Len(Candidates) + 1)
        BY <1>0, <2>2, CandidatesCounted DEF AskedSuits, Suitable
    <2>4. Open
        BY <1>0, <2>2 DEF LoopPlace, Open
    <2>5. /\ candidate' \in 1..(Len(Candidates) + 1)
          /\ strategy' \in Strategies \cup {NativeFallback}
          /\ lastError' \in {"none", "execution", "not_found"}
          /\ \/ pc' = "model" /\ outcome' = "open" /\ candidate' \in Suitable(1)
             \/ pc' = "ended" /\ outcome' = "model_error"
        BY <1>0, <2>1, <2>3, <2>4, AskFromLeads
    <2>6. LoopTypeOK'
        BY <1>0, <2>2, <2>5 DEF LoopTypeOK, Failures
    <2>7. LoopPlace' /\ AskedSuits' /\ Budgeted'
        BY <1>0, <2>2, <2>5 DEF LoopPlace, AskedSuits, Suitable, Budgeted
    <2> QED  BY <2>6, <2>7 DEF LoopInv
<1>7. CASE ModelThrows
    <2>1. /\ Fails("model_error") \/ Fails("cancelled")
          /\ UNCHANGED <<stage, decision, iteration, strategy, candidate, lastError, state,
                         validations, issued, granted, answered, collected>>
        BY <1>7 DEF ModelThrows, modelFrame
    <2>2. /\ stage' \in Stages /\ validations' \in Nat
          /\ state' \in Providers \cup {NoProvider, "foreign"}
        BY <1>0, <2>1 DEF LoopTypeOK
    <2> QED  BY <1>f, <2>1, <2>2, FailingKeepsLoop
<1>8. ASSUME NEW how \in {"text", "finalizer"}, ModelFinishes(how) PROVE LoopInv'
    <2>1. /\ pc = "model" /\ StateOfAnswer
          /\ validations' = validations + (IF strategy = "text" THEN 0 ELSE 1)
          /\ UNCHANGED <<decision, strategy, candidate, lastError, issued, granted,
                         answered, collected>>
        BY <1>8 DEF ModelFinishes, modelFrame
    <2>2. validations' \in Nat /\ state' \in Providers \cup {NoProvider, "foreign"}
        BY <1>0, <1>s, <2>1 DEF LoopTypeOK, StateOfAnswer, AskedSuits
    <2>3. \/ pc' = "policy" /\ outcome' = outcome /\ stage' = "final" /\ iteration' = iteration
          \/ pc' = "head" /\ outcome' = outcome /\ stage' = stage /\ iteration' = iteration + 1
          \/ Fails("invalid_output") /\ UNCHANGED <<iteration, stage>>
        BY <1>8 DEF ModelFinishes, Goes
    <2>4. answered = issued /\ iteration < MaxIterations /\ outcome = "open"
        BY <1>0, <2>1 DEF LoopPlace
    <2>5. CASE ~Fails("invalid_output")
        <3>1. iteration' \in 0..MaxIterations /\ stage' \in Stages
              /\ pc' \in {"policy", "head"} /\ outcome' = outcome
              /\ (pc' = "policy" => iteration' = iteration /\ stage' = "final")
            BY <1>0, <2>3, <2>4, <2>5, LimitsAssumption DEF LoopTypeOK, Stages
        <3>2. LoopTypeOK'
            BY <1>0, <2>1, <2>2, <3>1 DEF LoopTypeOK
        <3>3. LoopPlace' /\ AskedSuits' /\ Budgeted'
            BY <1>0, <2>1, <2>4, <3>1 DEF LoopPlace, AskedSuits, Budgeted
        <3> QED  BY <3>2, <3>3 DEF LoopInv
    <2>6. CASE Fails("invalid_output")
        <3>1. stage' \in Stages /\ UNCHANGED iteration
            BY <1>0, <2>3, <2>6 DEF LoopTypeOK, Stages, Fails
        <3> QED  BY <1>f, <2>1, <2>2, <2>6, <3>1, FailingKeepsLoop
    <2> QED  BY <2>5, <2>6
<1>9. ASSUME NEW n \in 0..CallBound, ModelCalls(n) PROVE LoopInv'
    <2>1. /\ pc = "model" /\ StateOfAnswer /\ stage' = "call"
          /\ UNCHANGED <<decision, iteration, strategy, candidate, lastError, validations, granted,
                         answered, collected>>
        BY <1>9 DEF ModelCalls, modelFrame
    <2>2. state' \in Providers \cup {NoProvider, "foreign"}
        BY <1>0, <1>s, <2>1 DEF LoopTypeOK, StateOfAnswer, AskedSuits
    <2>3. answered = issued /\ iteration < MaxIterations /\ outcome = "open"
        BY <1>0, <2>1 DEF LoopPlace
    <2>4. CASE ~Accepted(n)
        <3>1. Fails("budget") /\ UNCHANGED issued
            BY <1>9, <2>4 DEF ModelCalls
        <3>2. stage' \in Stages /\ validations' \in Nat
            BY <1>0, <2>1 DEF LoopTypeOK, Stages
        <3> QED  BY <1>f, <2>1, <2>2, <3>1, <3>2, FailingKeepsLoop
    <2>5. CASE Accepted(n)
        <3>1. /\ issued' = issued + n /\ outcome' = outcome
              /\ pc' = IF n = 0 THEN "dispatch" ELSE "policy"
              /\ issued + n <= CallBound /\ n <= MaxParallel /\ issued + n <= MaxCalls
            BY <1>9, <2>5 DEF ModelCalls, Goes, Accepted
        <3>2. /\ issued \in Nat /\ n \in Nat /\ granted = issued
              /\ issued' \in 0..CallBound /\ granted \in 0..issued' /\ answered \in 0..granted
            BY <1>0, <2>3, <3>1, CallBoundAssumption DEF LoopTypeOK
        <3>3. LoopTypeOK'
            BY <1>0, <2>1, <2>2, <3>1, <3>2 DEF LoopTypeOK, Stages
        <3>4. LoopPlace' /\ AskedSuits'
            BY <1>0, <2>1, <2>3, <3>1, <3>2 DEF LoopPlace, AskedSuits
        <3>5. Budgeted'
            BY <2>1, <2>3, <3>1, <3>2, LimitsAssumption DEF Budgeted
        <3> QED  BY <3>3, <3>4, <3>5 DEF LoopInv
    <2> QED  BY <2>4, <2>5
<1>10. CASE Dispatch
    <2>1. /\ pc = "dispatch" /\ pc' = "results"
          /\ UNCHANGED <<stage, decision, iteration, strategy, candidate, lastError, state,
                         validations, issued, granted, answered, collected, outcome>>
        BY <1>10 DEF Dispatch, resultFrame, Goes
    <2> QED  BY <1>0, <2>1 DEF LoopInv, LoopTypeOK, LoopPlace, AskedSuits, Budgeted
<1>11. CASE AllCollected
    <2>1. /\ pc = "results" /\ pc' = "head" /\ answered' = issued /\ iteration' = iteration + 1
          /\ UNCHANGED <<stage, decision, strategy, candidate, lastError, state,
                         validations, issued, granted, collected, outcome>>
        BY <1>11 DEF AllCollected, resultFrame, Goes
    <2>2. iteration < MaxIterations /\ granted = issued /\ outcome = "open"
        BY <1>0, <2>1 DEF LoopPlace
    <2>3. iteration' \in 0..MaxIterations /\ answered' \in 0..granted
        BY <1>0, <2>1, <2>2, LimitsAssumption DEF LoopTypeOK
    <2>4. LoopTypeOK'
        BY <1>0, <2>1, <2>3 DEF LoopTypeOK
    <2>5. LoopPlace' /\ AskedSuits'
        BY <1>0, <2>1, <2>2 DEF LoopPlace, AskedSuits
    <2>6. Budgeted'
        BY <1>0, <2>1, LimitsAssumption, CallBoundAssumption DEF Budgeted, LoopTypeOK
    <2> QED  BY <2>4, <2>5, <2>6 DEF LoopInv
<1>12. CASE OneCancelled
    <2>1. /\ Fails("cancelled")
          /\ UNCHANGED <<stage, decision, iteration, strategy, candidate, lastError, state,
                         validations, issued, granted, answered, collected>>
        BY <1>12 DEF OneCancelled, resultFrame
    <2>2. /\ stage' \in Stages /\ validations' \in Nat
          /\ state' \in Providers \cup {NoProvider, "foreign"}
        BY <1>0, <2>1 DEF LoopTypeOK
    <2> QED  BY <1>f, <2>1, <2>2, FailingKeepsLoop
<1>13. ASSUME NEW c \in Calls, Collect(c) PROVE LoopInv'
    <2>1. /\ collected' \in [Calls -> {"none", "result", "cancelled"}]
          /\ UNCHANGED <<pc, stage, decision, iteration, strategy, candidate, lastError, state,
                         validations, issued, granted, answered, outcome>>
        BY <1>0, <1>13 DEF Collect, resultFrame, LoopTypeOK
    <2> QED  BY <1>0, <2>1 DEF LoopInv, LoopTypeOK, LoopPlace, AskedSuits, Suitable, Budgeted
<1>14. CASE Decide
    <2>1. /\ decision' \in Decisions
          /\ UNCHANGED <<pc, stage, iteration, strategy, candidate, lastError, state,
                         validations, issued, granted, answered, collected, outcome>>
        BY <1>14 DEF Decide
    <2> QED  BY <1>0, <2>1 DEF LoopInv, LoopTypeOK, LoopPlace, AskedSuits, Suitable, Budgeted
<1>15. CASE Abort
    <2>1. UNCHANGED <<stage, decision, iteration, strategy, candidate, lastError, state,
                      validations, issued, granted, answered, collected>>
        BY <1>15 DEF Abort
    <2>2. CASE Fails("cancelled")
        <3>1. /\ stage' \in Stages /\ validations' \in Nat
              /\ state' \in Providers \cup {NoProvider, "foreign"}
            BY <1>0, <2>1 DEF LoopTypeOK
        <3> QED  BY <1>f, <2>1, <2>2, <3>1, FailingKeepsLoop
    <2>3. CASE UNCHANGED <<pc, outcome>>
        BY <1>0, <2>1, <2>3
        DEF LoopInv, LoopTypeOK, LoopPlace, AskedSuits, Suitable, Budgeted
    <2> QED  BY <1>15, <2>2, <2>3 DEF Abort
<1>16. CASE UNCHANGED loopVars
    BY <1>0, <1>16
    DEF loopVars, LoopInv, LoopTypeOK, LoopPlace, AskedSuits, Suitable, Budgeted
<1>17. CASE UNCHANGED vars
    BY <1>16, <1>17 DEF vars
<1> QED
    BY <1>1, <1>2, <1>3, <1>4, <1>5, <1>6, <1>7, <1>8, <1>9, <1>10, <1>11, <1>12, <1>13,
       <1>14, <1>15, <1>16, <1>17
    DEF Next, LoopStep

-----------------------------------------------------------------------------
(* Where the calls are.  Only while the results of a turn are awaited, or    *)
(* after a cancelled one, is a call that is not answered anything but idle.  *)

CallPlaced(c) ==
    /\ c <= answered => place[c] = "done"
    /\ c > answered /\ place[c] # "idle" =>
         c <= issued /\ (pc = "results" \/ (outcome = "cancelled" /\ granted = issued))
    /\ c \in handled => place[c] \in {"running", "over", "done"}
    /\ collected[c] # "none" => place[c] = "done"
    /\ result[c] = "cancelled" =>
         c > answered /\ place[c] \in {"over", "done"} /\ aborted /\ collected[c] # "result"

\* The queue holds the calls that wait, each once.
Queued ==
    /\ \A c \in Calls : place[c] = "waiting" <=> \E n \in 1..Len(waiters) : waiters[n] = c
    /\ \A m, n \in 1..Len(waiters) : waiters[m] = waiters[n] => m = n

CallsInv == ToolTypeOK /\ Queued /\ \A c \in Calls : CallPlaced(c)

\* Slots are counted; who has one or was woken for one fits in the capacity.
WithSlot == {c \in Calls : HasSlot(c)}
Woken == {c \in Calls : place[c] = "woken"}
SlotsInv ==
    /\ active = Cardinality(WithSlot)
    /\ active + Cardinality(Woken) <= Capacity
    /\ waiters # <<>> => active + Cardinality(Woken) >= Capacity

\* The calls of a turn, when they are made: those that find a slot come first.
LEMMA BatchSplit ==
    ASSUME LoopTypeOK, active = 0,
           NEW taking, taking = {c \in Turn : active + (c - (answered + 1)) < Capacity}
    PROVE  /\ Turn \subseteq Calls /\ IsFiniteSet(Turn) /\ IsFiniteSet(taking)
           /\ IF issued - answered <= Capacity
              THEN /\ taking = Turn /\ Turn \ taking = {}
                   /\ Cardinality(taking) = issued - answered
                   /\ Cardinality(Turn \ taking) = 0
              ELSE /\ taking = (answered + 1)..(answered + Capacity)
                   /\ Turn \ taking = (answered + Capacity + 1)..issued
                   /\ Cardinality(taking) = Capacity
                   /\ Cardinality(Turn \ taking) = issued - answered - Capacity
<1>0. /\ answered \in Nat /\ issued \in Nat /\ Capacity \in Nat \ {0} /\ CallBound \in Nat
      /\ answered <= issued /\ issued <= CallBound
    BY CapacityAssumption, CallBoundAssumption DEF LoopTypeOK
<1>1. Turn \subseteq Calls
    BY <1>0 DEF Turn, Calls
<1>2. IsFiniteSet(Turn) /\ Cardinality(Turn) = issued - answered
    <2>1. issued >= answered + 1 \/ issued = answered
        BY <1>0
    <2>2. CASE issued >= answered + 1
        BY <1>0, <2>2, FS_Interval DEF Turn
    <2>3. CASE issued = answered
        <3>1. Turn = {}
            BY <1>0, <2>3 DEF Turn
        <3> QED  BY <1>0, <2>3, <3>1, FS_EmptySet
    <2> QED  BY <2>1, <2>2, <2>3
<1>3. taking \subseteq Turn
    OBVIOUS
<1>4. IsFiniteSet(taking)
    BY <1>2, <1>3, FS_Subset
<1>5. CASE issued - answered <= Capacity
    <2>1. taking = Turn
        BY <1>0, <1>5 DEF Turn
    <2> QED  BY <1>1, <1>2, <1>4, <1>5, <2>1, FS_EmptySet
<1>6. CASE ~(issued - answered <= Capacity)
    <2>1. taking = (answered + 1)..(answered + Capacity)
        BY <1>0, <1>6 DEF Turn
    <2>2. Turn \ taking = (answered + Capacity + 1)..issued
        BY <1>0, <1>6, <2>1 DEF Turn
    <2>3. Cardinality((answered + 1)..(answered + Capacity)) = Capacity
        BY <1>0, FS_Interval
    <2>4. Cardinality((answered + Capacity + 1)..issued) = issued - answered - Capacity
        BY <1>0, <1>6, FS_Interval
    <2> QED  BY <1>1, <1>2, <1>4, <1>6, <2>1, <2>2, <2>3, <2>4
<1> QED  BY <1>5, <1>6

\* Between turns no call has a slot or waits for one.
LEMMA QuietBeforeDispatch ==
    ASSUME LoopInv, CallsInv, SlotsInv, pc \notin {"results", "ended"}
    PROVE  /\ \A c \in Calls : IF c <= answered THEN place[c] = "done" ELSE place[c] = "idle"
           /\ active = 0 /\ waiters = <<>>
<1>1. \A c \in Calls : IF c <= answered THEN place[c] = "done" ELSE place[c] = "idle"
    <2> TAKE c \in Calls
    <2>1. c \in Nat /\ answered \in Nat
        BY DEF Calls, LoopInv, LoopTypeOK
    <2>2. outcome = "open"
        BY DEF LoopInv, LoopPlace
    <2> QED  BY <2>1, <2>2 DEF CallsInv, CallPlaced
<1>2. WithSlot = {}
    BY <1>1 DEF WithSlot, HasSlot
<1>3. active = 0
    BY <1>2, FS_EmptySet DEF SlotsInv
<1>4. Len(waiters) = 0
    <2>1. \A n \in 1..Len(waiters) : waiters[n] \in Calls /\ place[waiters[n]] = "waiting"
        BY DEF CallsInv, ToolTypeOK, Queued
    <2> QED  BY <1>1, <2>1 DEF CallsInv, ToolTypeOK
<1> QED  BY <1>1, <1>3, <1>4 DEF CallsInv, ToolTypeOK

\* A step of the loop that makes no calls leaves them where they are.
LEMMA LoopStepKeepsCalls ==
    ASSUME LoopInv, CallsInv, pc \notin {"results", "ended"}, issued <= issued',
           UNCHANGED <<aborted, toolVars, answered, collected>>
    PROVE  CallsInv'
<1>1. ToolTypeOK' /\ Queued'
    BY DEF CallsInv, ToolTypeOK, Queued, toolVars
<1>2. outcome = "open"
    BY DEF LoopInv, LoopPlace
<1>3. ASSUME NEW c \in Calls PROVE CallPlaced(c)'
    <2>1. CallPlaced(c)
        BY DEF CallsInv
    <2>2. ~(c > answered /\ place[c] # "idle")
        BY <1>2, <2>1 DEF CallPlaced
    <2> QED  BY <2>1, <2>2 DEF CallPlaced, toolVars
<1> QED  BY <1>1, <1>3 DEF CallsInv

LEMMA DispatchKeepsCalls ==
    ASSUME LoopInv, CallsInv, SlotsInv, Dispatch
    PROVE  CallsInv' /\ SlotsInv'
<1>0. /\ LoopTypeOK /\ pc = "dispatch" /\ pc' = "results"
      /\ UNCHANGED <<aborted, issued, granted, answered, collected, outcome>>
      /\ AcquireAll(answered + 1, issued)
      /\ answered \in Nat /\ issued \in Nat /\ answered <= issued
    BY CallBoundAssumption DEF Dispatch, resultFrame, Goes, LoopInv, LoopTypeOK
<1>1. /\ \A c \in Calls : IF c <= answered THEN place[c] = "done" ELSE place[c] = "idle"
      /\ active = 0 /\ waiters = <<>>
    BY <1>0, QuietBeforeDispatch
<1> DEFINE taking == {c \in Turn : active + (c - (answered + 1)) < Capacity}
           late == Cardinality(Turn \ taking)
<1>2. /\ Turn \subseteq Calls /\ IsFiniteSet(Turn) /\ IsFiniteSet(taking)
      /\ IF issued - answered <= Capacity
         THEN /\ taking = Turn /\ Turn \ taking = {}
              /\ Cardinality(taking) = issued - answered
              /\ late = 0
         ELSE /\ taking = (answered + 1)..(answered + Capacity)
              /\ Turn \ taking = (answered + Capacity + 1)..issued
              /\ Cardinality(taking) = Capacity
              /\ late = issued - answered - Capacity
    BY <1>0, <1>1, BatchSplit
<1>3. /\ place \in [Calls -> CallPlaces] /\ result \in [Calls -> Results \cup {"none"}]
      /\ handled \subseteq Calls /\ Calls \subseteq Nat
      /\ \A c \in Calls : CallPlaced(c)
    BY DEF CallsInv, ToolTypeOK, Calls
<1>4. CASE aborted
    <2>1. /\ place' = [c \in Calls |-> IF c \in Turn THEN "done" ELSE place[c]]
          /\ result' = [c \in Calls |-> IF c \in Turn THEN "cancelled" ELSE result[c]]
          /\ UNCHANGED <<active, waiters, handled>>
        BY <1>0, <1>4 DEF AcquireAll, Turn
    <2>2. ToolTypeOK'
        BY <1>0, <1>3, <2>1 DEF CallsInv, ToolTypeOK, CallPlaces, Results
    <2>3. \A c \in Calls : place'[c] \in {"idle", "done"}
        BY <1>1, <2>1
    <2>4. Queued'
        BY <1>1, <2>1, <2>3 DEF Queued
    <2>5. \A c \in Calls : c \in Turn <=> c > answered /\ c <= issued
        BY <1>0, <1>3 DEF Turn
    <2>6. ASSUME NEW c \in Calls PROVE CallPlaced(c)'
        BY <1>0, <1>1, <1>3, <1>4, <2>1, <2>5 DEF CallPlaced
    <2>7. WithSlot' = {} /\ Woken' = {} /\ WithSlot = {} /\ Woken = {}
        BY <1>1, <2>3 DEF WithSlot, Woken, HasSlot
    <2>8. SlotsInv'
        BY <1>1, <2>1, <2>7 DEF SlotsInv
    <2> QED  BY <2>2, <2>4, <2>6, <2>8 DEF CallsInv
<1>5. CASE ~aborted
    <2>1. /\ place' = [c \in Calls |-> IF c \in taking THEN "held"
                                       ELSE IF c \in Turn THEN "waiting" ELSE place[c]]
          /\ active' = active + Cardinality(taking)
          /\ waiters' = waiters \o [n \in 1..late |-> issued - late + n]
          /\ UNCHANGED <<result, handled>>
        BY <1>0, <1>5 DEF AcquireAll, Turn
    <2>2. late \in Nat /\ Cardinality(taking) \in Nat /\ issued - late >= answered
        BY <1>0, <1>2, CapacityAssumption
    <2>3. waiters' = [n \in 1..late |-> issued - late + n] /\ Len(waiters') = late
        BY <1>1, <2>1, <2>2
    <2>4. \A n \in 1..late : issued - late + n \in Calls
        BY <1>0, <2>2, CallBoundAssumption DEF Calls, LoopTypeOK
    <2>5. waiters' \in Seq(Calls)
        BY <2>2, <2>3, <2>4
    <2>6. active' = Cardinality(taking) /\ active' <= Capacity /\ active' \in Nat
          /\ (late > 0 => active' = Capacity)
        BY <1>0, <1>1, <1>2, <2>1, <2>2, CapacityAssumption
    <2>7. ToolTypeOK'
        BY <1>0, <1>3, <2>1, <2>5, <2>6 DEF CallsInv, ToolTypeOK, CallPlaces
    <2>8. \A c \in Turn \ taking : c \in 1..(issued) /\ c - (issued - late) \in 1..late
        BY <1>0, <1>2, <2>2, CapacityAssumption
    <2>9. \A n \in 1..late : issued - late + n \in Turn \ taking
        BY <1>0, <1>2, <2>2, CapacityAssumption
    <2>10. Queued'
        <3>1. \A c \in Calls : place'[c] = "waiting" <=> c \in Turn \ taking
            BY <1>1, <2>1
        <3>2. \A n \in 1..late : waiters'[n] = issued - late + n
            BY <2>3
        <3>3. ASSUME NEW c \in Turn \ taking PROVE \E n \in 1..late : waiters'[n] = c
            <4>1. c - (issued - late) \in 1..late /\ c \in Int
                BY <2>8
            <4>2. issued - late + (c - (issued - late)) = c
                BY <1>0, <2>2, <4>1
            <4> QED  BY <3>2, <4>1, <4>2
        <3>4. \A m, n \in 1..late : waiters'[m] = waiters'[n] => m = n
            BY <1>0, <2>2, <3>2
        <3> HIDE DEF late, taking
        <3> QED  BY <2>3, <2>9, <3>1, <3>2, <3>3, <3>4 DEF Queued
    <2>11. \A c \in Calls : c \in Turn <=> c > answered /\ c <= issued
        BY <1>0, <1>3 DEF Turn
    <2>12. ASSUME NEW c \in Calls PROVE CallPlaced(c)'
        <3>1. CallPlaced(c) /\ taking \subseteq Turn
            BY <1>3
        <3>2. IF c \in Turn THEN place'[c] \in {"held", "waiting"} ELSE place'[c] = place[c]
            BY <2>1, <3>1
        <3> HIDE DEF taking
        <3> QED  BY <1>0, <1>1, <2>1, <2>11, <3>1, <3>2 DEF CallPlaced
    <2>13. SlotsInv'
        <3>1. WithSlot' = taking
            BY <1>1, <1>2, <2>1 DEF WithSlot, HasSlot
        <3>2. Woken' = {}
            BY <1>1, <2>1 DEF Woken
        <3>3. Cardinality(Woken') = 0
            BY <3>2, FS_EmptySet
        <3>4. waiters' # <<>> => late > 0
            <4>1. waiters' # <<>> => Len(waiters') # 0
                BY <2>5
            <4> QED  BY <2>2, <2>3, <4>1
        <3> HIDE DEF taking, late
        <3> QED  BY <2>6, <3>1, <3>3, <3>4, CapacityAssumption DEF SlotsInv
    <2> QED  BY <2>7, <2>10, <2>12, <2>13 DEF CallsInv
<1> QED  BY <1>4, <1>5

LEMMA CallsFinite ==
    /\ IsFiniteSet(Calls) /\ IsFiniteSet(WithSlot) /\ IsFiniteSet(Woken)
    /\ Cardinality(WithSlot) \in Nat /\ Cardinality(Woken) \in Nat
<1>1. IsFiniteSet(Calls)
    BY CallBoundAssumption, FS_Interval DEF Calls
<1>2. WithSlot \subseteq Calls /\ Woken \subseteq Calls
    BY DEF WithSlot, Woken
<1> QED  BY <1>1, <1>2, FS_Subset, FS_CardinalityType

\* A step of one call that leaves the others and the queue alone.
LEMMA OneCallMoves ==
    ASSUME LoopInv, CallsInv, NEW c \in Calls, NEW p \in CallPlaces \ {"idle", "waiting", "done"},
           place[c] \notin {"idle", "waiting", "done"},
           place' = [place EXCEPT ![c] = p],
           NEW r \in Results \cup {"none"}, result' = [result EXCEPT ![c] = r],
           r = "cancelled" => aborted /\ p = "over",
           handled' = handled \/ (handled' = handled \cup {c}),
           c \in handled' => p \in {"running", "over"},
           active' \in Nat,
           UNCHANGED <<aborted, waiters, loopVars>>
    PROVE  CallsInv'
<1>0. UNCHANGED <<pc, issued, granted, answered, collected, outcome>>
    BY DEF loopVars
<1>1. /\ place \in [Calls -> CallPlaces] /\ result \in [Calls -> Results \cup {"none"}]
      /\ handled \subseteq Calls
      /\ \A d \in Calls : CallPlaced(d)
    BY DEF CallsInv, ToolTypeOK
<1>2. ToolTypeOK'
    BY <1>1 DEF CallsInv, ToolTypeOK
<1>3. \A d \in Calls : place'[d] = (IF d = c THEN p ELSE place[d])
                       /\ result'[d] = (IF d = c THEN r ELSE result[d])
    BY <1>1
<1>4. Queued'
    BY <1>3 DEF CallsInv, Queued
<1>5. c > answered /\ collected[c] = "none"
    BY <1>1 DEF CallPlaced, Calls, LoopInv, LoopTypeOK
<1>6. ASSUME NEW d \in Calls PROVE CallPlaced(d)'
    <2>1. CallPlaced(d)
        BY <1>1
    <2>2. CASE d = c
        BY <1>0, <1>3, <1>5, <2>1, <2>2 DEF CallPlaced, CallPlaces, LoopInv, LoopTypeOK, Calls
    <2>3. CASE d # c
        BY <1>0, <1>3, <2>1, <2>3 DEF CallPlaced
    <2> QED  BY <2>2, <2>3
<1> QED  BY <1>2, <1>4, <1>6 DEF CallsInv

\* Giving a slot back wakes the call that waited longest.
LEMMA ReleaseKeepsCalls ==
    ASSUME LoopInv, CallsInv, SlotsInv, NEW c \in Calls, Release(c), UNCHANGED loopVars
    PROVE  CallsInv' /\ SlotsInv'
<1>0. UNCHANGED <<aborted, result, handled, pc, issued, granted, answered, collected, outcome>>
    BY DEF Release, loopVars
<1>1. /\ place \in [Calls -> CallPlaces] /\ result \in [Calls -> Results \cup {"none"}]
      /\ handled \subseteq Calls /\ waiters \in Seq(Calls) /\ active \in Nat
      /\ \A d \in Calls : CallPlaced(d)
    BY DEF CallsInv, ToolTypeOK
<1>2. place[c] = "over" /\ active' = active - 1
    BY DEF Release
<1>3. c \in WithSlot /\ c \notin Woken /\ Cardinality(WithSlot \ {c}) = active - 1
      /\ active - 1 \in Nat
    <2>1. c \in WithSlot /\ c \notin Woken
        BY <1>2 DEF WithSlot, HasSlot, Woken
    <2>2. Cardinality(WithSlot \ {c}) = Cardinality(WithSlot) - 1 /\ IsFiniteSet(WithSlot \ {c})
        BY <2>1, CallsFinite, FS_RemoveElement
    <2> QED  BY <2>1, <2>2, FS_CardinalityType DEF SlotsInv
<1>4. CASE waiters = <<>>
    <2>1. place' = [place EXCEPT ![c] = "done"] /\ waiters' = waiters
        BY <1>4 DEF Release
    <2>2. \A d \in Calls : place'[d] = IF d = c THEN "done" ELSE place[d]
        BY <1>1, <2>1
    <2>3. ToolTypeOK'
        BY <1>0, <1>1, <1>2, <1>3, <2>1 DEF CallsInv, ToolTypeOK, CallPlaces
    <2>4. Queued'
        BY <1>2, <2>1, <2>2 DEF CallsInv, Queued
    <2>5. ASSUME NEW d \in Calls PROVE CallPlaced(d)'
        BY <1>0, <1>1, <1>2, <2>2 DEF CallPlaced
    <2>6. WithSlot' = WithSlot \ {c} /\ Woken' = Woken
        BY <1>2, <2>2 DEF WithSlot, HasSlot, Woken
    <2>7. SlotsInv'
        BY <1>1, <1>2, <1>3, <1>4, <2>1, <2>6, CallsFinite, CapacityAssumption DEF SlotsInv
    <2> QED  BY <2>3, <2>4, <2>5, <2>7 DEF CallsInv
<1>5. CASE waiters # <<>>
    <2> DEFINE w == Head(waiters)
    <2>1. /\ place' = [place EXCEPT ![c] = "done", ![w] = "woken"]
          /\ waiters' = Tail(waiters)
        BY <1>5 DEF Release
    <2>2. /\ Len(waiters) \in Nat \ {0} /\ w = waiters[1] /\ w \in Calls
          /\ waiters' \in Seq(Calls) /\ Len(waiters') = Len(waiters) - 1
          /\ \A n \in 1..Len(waiters') : waiters'[n] = waiters[n + 1]
        BY <1>1, <1>5, <2>1
    <2>3. place[w] = "waiting" /\ w # c
        BY <1>2, <2>2 DEF CallsInv, Queued
    <2>4. \A d \in Calls : place'[d] = IF d = c THEN "done" ELSE IF d = w THEN "woken" ELSE place[d]
        BY <1>1, <2>1, <2>2, <2>3
    <2>5. ToolTypeOK'
        BY <1>0, <1>1, <1>2, <1>3, <2>1, <2>2 DEF CallsInv, ToolTypeOK, CallPlaces
    <2>6. Queued'
        <3>1. \A m, n \in 1..Len(waiters) : waiters[m] = waiters[n] => m = n
            BY DEF CallsInv, Queued
        <3>2. \A m, n \in 1..Len(waiters') : waiters'[m] = waiters'[n] => m = n
            <4> TAKE m, n \in 1..Len(waiters')
            <4>1. m + 1 \in 1..Len(waiters) /\ n + 1 \in 1..Len(waiters) /\ m \in Int /\ n \in Int
                BY <2>2
            <4> QED  BY <2>2, <3>1, <4>1
        <3>3. ASSUME NEW d \in Calls, place'[d] = "waiting"
              PROVE  \E n \in 1..Len(waiters') : waiters'[n] = d
            <4>1. d # w /\ place[d] = "waiting"
                BY <2>4, <3>3
            <4>2. PICK n \in 1..Len(waiters) : waiters[n] = d
                BY <4>1 DEF CallsInv, Queued
            <4>3. n # 1 /\ n - 1 \in 1..Len(waiters') /\ n - 1 + 1 = n
                BY <2>2, <4>1, <4>2
            <4> QED  BY <2>2, <4>2, <4>3
        <3>4. ASSUME NEW d \in Calls, NEW n \in 1..Len(waiters'), waiters'[n] = d
              PROVE  place'[d] = "waiting"
            <4>1. n + 1 \in 1..Len(waiters) /\ n + 1 # 1 /\ 1 \in 1..Len(waiters)
                BY <2>2
            <4>2. waiters[n + 1] = d /\ d # w
                BY <2>2, <3>1, <3>4, <4>1
            <4>3. place[d] = "waiting"
                BY <4>1, <4>2 DEF CallsInv, Queued
            <4> QED  BY <1>2, <2>4, <4>2, <4>3
        <3> QED  BY <3>2, <3>3, <3>4 DEF Queued
    <2>7. ASSUME NEW d \in Calls PROVE CallPlaced(d)'
        <3>1. CallPlaced(d)
            BY <1>1
        <3>2. CASE d = w
            BY <1>0, <2>2, <2>3, <2>4, <3>1, <3>2 DEF CallPlaced
        <3>3. CASE d # w
            BY <1>0, <1>2, <2>4, <3>1, <3>3 DEF CallPlaced
        <3> QED  BY <3>2, <3>3
    <2>8. WithSlot' = WithSlot \ {c} /\ Woken' = Woken \cup {w} /\ w \notin Woken
        BY <1>2, <2>2, <2>3, <2>4 DEF WithSlot, HasSlot, Woken
    <2>9. Cardinality(Woken') = Cardinality(Woken) + 1
        BY <2>8, CallsFinite, FS_AddElement
    <2>10. SlotsInv'
        BY <1>1, <1>2, <1>3, <1>5, <2>8, <2>9, CallsFinite, CapacityAssumption DEF SlotsInv
    <2> QED  BY <2>5, <2>6, <2>7, <2>10 DEF CallsInv
<1> QED  BY <1>4, <1>5

\* The other steps of a call.
LEMMA ToolStepKeepsCalls ==
    ASSUME LoopInv, CallsInv, SlotsInv, NEW c \in Calls, ToolStep(c), UNCHANGED loopVars
    PROVE  CallsInv' /\ SlotsInv'
<1>0. /\ place \in [Calls -> CallPlaces] /\ result \in [Calls -> Results \cup {"none"}]
      /\ active \in Nat /\ CallPlaced(c)
    BY DEF CallsInv, ToolTypeOK
<1>1. result = [result EXCEPT ![c] = result[c]] /\ result[c] \in Results \cup {"none"}
    BY <1>0
<1>2. CASE TakeSlot(c)
    <2>1. /\ place[c] = "woken" /\ place' = [place EXCEPT ![c] = "held"]
          /\ active' = active + 1 /\ UNCHANGED <<aborted, waiters, result, handled>>
        BY <1>2 DEF TakeSlot
    <2>2. result[c] # "cancelled" /\ c \notin handled /\ active' \in Nat
        BY <1>0, <2>1 DEF CallPlaced
    <2>3. CallsInv'
        BY <1>1, <2>1, <2>2, OneCallMoves DEF CallPlaces
    <2>4. WithSlot' = WithSlot \cup {c} /\ Woken' = Woken \ {c} /\ c \in Woken /\ c \notin WithSlot
        BY <1>0, <2>1 DEF WithSlot, HasSlot, Woken
    <2>5. Cardinality(WithSlot') = Cardinality(WithSlot) + 1
          /\ Cardinality(Woken') = Cardinality(Woken) - 1
        BY <2>4, CallsFinite, FS_AddElement, FS_RemoveElement
    <2>6. SlotsInv'
        BY <2>1, <2>5, CallsFinite, CapacityAssumption DEF SlotsInv
    <2> QED  BY <2>3, <2>6
<1>3. CASE EndsUnhandled(c) \/ HandlerSettles(c) \/ Timeout(c)
    <2>1. PICK r \in {"returned", "threw"} : Ends(c, r)
        BY <1>3 DEF EndsUnhandled, HandlerSettles, Timeout
    <2>2. place[c] \in {"held", "running"} /\ UNCHANGED <<aborted, active, waiters, handled>>
        BY <1>3 DEF EndsUnhandled, HandlerSettles, Timeout
    <2>3. place' = [place EXCEPT ![c] = "over"] /\ result' = [result EXCEPT ![c] = r]
        BY <2>1 DEF Ends
    <2>4. r \in Results \cup {"none"} /\ r # "cancelled"
        BY DEF Results
    <2>5. CallsInv'
        BY <1>0, <2>2, <2>3, <2>4, OneCallMoves DEF CallPlaces
    <2>6. WithSlot' = WithSlot /\ Woken' = Woken
        BY <1>0, <2>2, <2>3 DEF WithSlot, HasSlot, Woken
    <2> QED  BY <2>2, <2>5, <2>6 DEF SlotsInv
<1>4. CASE Handle(c)
    <2>1. /\ place[c] = "held" /\ handled' = handled \cup {c}
          /\ UNCHANGED <<aborted, active, waiters>>
        BY <1>4 DEF Handle
    <2>2. CASE aborted
        <3>1. place' = [place EXCEPT ![c] = "over"] /\ result' = [result EXCEPT ![c] = "cancelled"]
            BY <1>4, <2>2 DEF Handle, Ends
        <3>2. CallsInv'
            BY <1>0, <2>1, <2>2, <3>1, OneCallMoves DEF CallPlaces, Results
        <3>3. WithSlot' = WithSlot /\ Woken' = Woken
            BY <1>0, <2>1, <3>1 DEF WithSlot, HasSlot, Woken
        <3> QED  BY <2>1, <3>2, <3>3 DEF SlotsInv
    <2>3. CASE ~aborted
        <3>1. place' = [place EXCEPT ![c] = "running"] /\ result' = result
            BY <1>4, <2>3 DEF Handle
        <3>2. result[c] # "cancelled"
            BY <1>0, <2>1 DEF CallPlaced
        <3>3. CallsInv'
            BY <1>0, <1>1, <2>1, <3>1, <3>2, OneCallMoves DEF CallPlaces
        <3>4. WithSlot' = WithSlot /\ Woken' = Woken
            BY <1>0, <2>1, <3>1 DEF WithSlot, HasSlot, Woken
        <3> QED  BY <2>1, <3>3, <3>4 DEF SlotsInv
    <2> QED  BY <2>2, <2>3
<1> QED  BY <1>2, <1>3, <1>4, ReleaseKeepsCalls DEF ToolStep, CallContinues

LEMMA AbortKeepsCalls ==
    ASSUME LoopInv, CallsInv, SlotsInv, Abort
    PROVE  CallsInv' /\ SlotsInv'
<1>0. /\ aborted' = TRUE /\ AbortCalls
      /\ UNCHANGED <<active, handled, issued, granted, answered, collected>>
      /\ (pc' = pc /\ outcome' = outcome) \/ (pc = "wait" /\ pc' = "ended" /\ outcome' = "cancelled")
    BY DEF Abort, AbortCalls, Fails
<1>1. /\ place \in [Calls -> CallPlaces] /\ result \in [Calls -> Results \cup {"none"}]
      /\ \A c \in Calls : CallPlaced(c)
    BY DEF CallsInv, ToolTypeOK
<1>2. /\ waiters' = <<>>
      /\ \A c \in Calls :
           /\ place'[c] = (IF place[c] = "waiting" THEN "done"
                            ELSE IF place[c] = "running" THEN "over" ELSE place[c])
           /\ result'[c] = (IF place[c] \in {"waiting", "running"} THEN "cancelled" ELSE result[c])
    BY <1>0 DEF AbortCalls
<1>3. /\ place' \in [Calls -> CallPlaces]
      /\ result' \in [Calls -> Results \cup {"none"}]
    <2>1. /\ \A c \in Calls : place'[c] \in CallPlaces
          /\ \A c \in Calls : result'[c] \in Results \cup {"none"}
        BY <1>1, <1>2 DEF CallPlaces, Results
    <2>2. /\ place' = [c \in Calls |-> place'[c]]
          /\ result' = [c \in Calls |-> result'[c]]
        BY <1>0 DEF AbortCalls
    <2> QED  BY <2>1, <2>2
<1>4. ToolTypeOK'
    BY <1>0, <1>2, <1>3 DEF CallsInv, ToolTypeOK
<1>5. Queued'
    <2>1. \A c \in Calls : place'[c] # "waiting"
        BY <1>2
    <2> QED  BY <1>2, <2>1 DEF Queued
<1>6. ASSUME NEW c \in Calls PROVE CallPlaced(c)'
    <2>1. CallPlaced(c) /\ c \in Nat /\ answered \in Nat
        BY <1>1 DEF Calls, LoopInv, LoopTypeOK
    <2>2. outcome = "completed" => answered = issued /\ pc # "results"
        BY DEF LoopInv, LoopPlace
    <2>3. pc = "wait" => outcome = "open"
        BY DEF LoopInv, LoopPlace
    <2>4. c > answered \/ place[c] = "done"
        BY <2>1 DEF CallPlaced
    <2> QED  BY <1>0, <1>2, <2>1, <2>2, <2>3, <2>4 DEF CallPlaced
<1>7. WithSlot' = WithSlot /\ Woken' = Woken
    BY <1>1, <1>2 DEF WithSlot, HasSlot, Woken
<1> QED  BY <1>0, <1>2, <1>4, <1>5, <1>6, <1>7 DEF CallsInv, SlotsInv

\* The catch around a call: a cancelled one is never collected as a result.
LEMMA CollectKeepsCalls ==
    ASSUME LoopInv, CallsInv, NEW c \in Calls, Collect(c)
    PROVE  CallsInv'
<1>0. /\ place[c] = "done"
      /\ collected' = [collected EXCEPT ![c] =
                          IF result[c] # "returned" /\ aborted THEN "cancelled" ELSE "result"]
      /\ UNCHANGED <<aborted, active, waiters, place, result, handled, pc, issued, granted,
                     answered, outcome>>
    BY DEF Collect, resultFrame, toolVars
<1>1. \A d \in Calls : collected'[d] = IF d # c THEN collected[d]
                          ELSE IF result[c] # "returned" /\ aborted THEN "cancelled" ELSE "result"
    BY <1>0 DEF LoopInv, LoopTypeOK
<1>2. ASSUME NEW d \in Calls PROVE CallPlaced(d)'
    BY <1>0, <1>1 DEF CallsInv, CallPlaced
<1> QED  BY <1>0, <1>2 DEF CallsInv, ToolTypeOK, Queued

LEMMA InitPlacesCalls == Init => CallsInv /\ SlotsInv
<1> SUFFICES ASSUME Init PROVE CallsInv /\ SlotsInv
    OBVIOUS
<1>1. ToolTypeOK
    <2>0. aborted \in BOOLEAN
        BY DEF Init
    <2>1. active \in Nat /\ waiters \in Seq(Calls) /\ handled \subseteq Calls
        BY DEF Init, ToolInit
    <2>2. place \in [Calls -> CallPlaces] /\ result \in [Calls -> Results \cup {"none"}]
        BY DEF Init, ToolInit, CallPlaces
    <2> QED  BY <2>0, <2>1, <2>2 DEF ToolTypeOK
<1>2. Queued /\ \A c \in Calls : CallPlaced(c)
    BY DEF Init, ToolInit, Queued, CallPlaced, Calls
<1>3. WithSlot = {} /\ Woken = {}
    BY DEF Init, ToolInit, WithSlot, HasSlot, Woken
<1>4. Cardinality(WithSlot) = 0 /\ Cardinality(Woken) = 0
    BY <1>3, FS_EmptySet
<1>5. SlotsInv
    BY <1>4, CapacityAssumption DEF Init, ToolInit, SlotsInv
<1> QED  BY <1>1, <1>2, <1>5 DEF CallsInv

LEMMA StepKeepsCalls ==
    LoopInv /\ CallsInv /\ SlotsInv /\ [Next]_vars => CallsInv' /\ SlotsInv'
<1> SUFFICES ASSUME LoopInv, CallsInv, SlotsInv, [Next]_vars PROVE CallsInv' /\ SlotsInv'
    OBVIOUS
<1>s. UNCHANGED toolVars => SlotsInv'
    BY DEF SlotsInv, toolVars, WithSlot, HasSlot, Woken
<1>q. ASSUME pc \notin {"results", "ended"}, issued <= issued',
             UNCHANGED <<aborted, toolVars, answered, collected>>
      PROVE  CallsInv' /\ SlotsInv'
    BY <1>q, <1>s, LoopStepKeepsCalls
<1>i. issued \in Nat
    BY CallBoundAssumption DEF LoopInv, LoopTypeOK
<1>1. CASE TurnBegins
    BY <1>1, <1>q, <1>i DEF TurnBegins
<1>2. CASE PolicyAllows \/ PolicyDenies \/ PolicyAsks \/ WaitBegins \/ Approved \/ Refused
    <2>1. pc \notin {"results", "ended"} /\ UNCHANGED <<aborted, answered, collected>>
        BY <1>2 DEF PolicyAllows, PolicyDenies, PolicyAsks, WaitBegins, Approved, Refused,
                    checkpointFrame
    <2>2. Granted => UNCHANGED <<toolVars, issued>>
        BY DEF Granted, LoopInv, LoopTypeOK, Stages
    <2>3. UNCHANGED <<toolVars, issued>>
        BY <1>2, <2>2
        DEF PolicyAllows, PolicyDenies, PolicyAsks, WaitBegins, Approved, Refused
    <2> QED  BY <1>q, <1>i, <2>1, <2>3
<1>3. CASE ModelFails \/ ModelThrows \/ \E how \in {"text", "finalizer"} : ModelFinishes(how)
    <2>1. pc = "model" /\ issued' = issued /\ UNCHANGED modelFrame
        BY <1>3 DEF ModelFails, ModelThrows, ModelFinishes
    <2> QED  BY <1>q, <1>i, <2>1 DEF modelFrame
<1>4. ASSUME NEW n \in 0..CallBound, ModelCalls(n) PROVE CallsInv' /\ SlotsInv'
    <2>1. pc = "model" /\ UNCHANGED modelFrame
        BY <1>4 DEF ModelCalls
    <2>2. issued' = issued \/ issued' = issued + n
        BY <1>4 DEF ModelCalls
    <2>3. issued <= issued'
        BY <1>i, <2>2
    <2> QED  BY <1>q, <2>1, <2>3 DEF modelFrame
<1>5. CASE Dispatch
    BY <1>5, DispatchKeepsCalls
<1>6. CASE AllCollected
    <2>1. /\ pc = "results" /\ \A c \in Turn : collected[c] = "result"
          /\ answered' = issued
          /\ UNCHANGED <<aborted, toolVars, issued, granted, outcome, collected>>
        BY <1>6 DEF AllCollected, resultFrame, Goes
    <2>2. answered \in Nat /\ Calls \subseteq Nat /\ answered <= issued
        BY DEF LoopInv, LoopTypeOK, Calls
    <2>3. ASSUME NEW c \in Calls PROVE CallPlaced(c)'
        <3>1. CallPlaced(c) /\ (c > answered /\ c <= issued => c \in Turn)
            BY <1>i, <2>2 DEF CallsInv, Turn
        <3>2. c <= issued => place[c] = "done" /\ result[c] # "cancelled"
            BY <1>i, <2>1, <2>2, <3>1 DEF CallPlaced
        <3>3. c > issued => place[c] = "idle"
            BY <1>i, <2>2, <3>1 DEF CallPlaced
        <3> QED  BY <1>i, <2>1, <2>2, <3>1, <3>2, <3>3 DEF CallPlaced, toolVars
    <2>4. ToolTypeOK' /\ Queued'
        BY <2>1 DEF CallsInv, ToolTypeOK, Queued, toolVars
    <2> QED  BY <1>s, <2>1, <2>3, <2>4 DEF CallsInv
<1>7. CASE OneCancelled
    <2>1. /\ pc = "results" /\ pc' = "ended" /\ outcome' = "cancelled"
          /\ UNCHANGED <<aborted, toolVars, issued, granted, answered, collected>>
        BY <1>7 DEF OneCancelled, resultFrame, Fails
    <2>2. granted = issued
        BY <2>1 DEF LoopInv, LoopPlace
    <2>3. ASSUME NEW c \in Calls PROVE CallPlaced(c)'
        BY <2>1, <2>2 DEF CallsInv, CallPlaced, toolVars
    <2>4. ToolTypeOK' /\ Queued'
        BY <2>1 DEF CallsInv, ToolTypeOK, Queued, toolVars
    <2> QED  BY <1>s, <2>1, <2>3, <2>4 DEF CallsInv
<1>8. ASSUME NEW c \in Calls, Collect(c) PROVE CallsInv' /\ SlotsInv'
    <2>1. UNCHANGED toolVars
        BY <1>8 DEF Collect
    <2> QED  BY <1>8, <1>s, <2>1, CollectKeepsCalls
<1>9. ASSUME NEW c \in Calls, ToolStep(c), UNCHANGED loopVars PROVE CallsInv' /\ SlotsInv'
    BY <1>9, ToolStepKeepsCalls
<1>10. CASE Decide
    <2>1. pc \notin {"results", "ended"} /\ issued' = issued
          /\ UNCHANGED <<aborted, toolVars, answered, collected>>
        BY <1>10 DEF Decide
    <2> QED  BY <1>q, <1>i, <2>1
<1>11. CASE Abort
    BY <1>11, AbortKeepsCalls
<1>12. CASE UNCHANGED vars
    <2>1. UNCHANGED <<aborted, toolVars, pc, issued, granted, answered, collected, outcome>>
        BY <1>12 DEF vars, loopVars
    <2>2. ToolTypeOK' /\ Queued' /\ \A c \in Calls : CallPlaced(c)'
        BY <2>1 DEF CallsInv, ToolTypeOK, Queued, CallPlaced, toolVars
    <2> QED  BY <1>s, <2>1, <2>2 DEF CallsInv
<1> QED
    BY <1>1, <1>2, <1>3, <1>4, <1>5, <1>6, <1>7, <1>8, <1>9, <1>10, <1>11, <1>12
    DEF Next, LoopStep

RunInv == LoopInv /\ CallsInv /\ SlotsInv

LEMMA RunInvInductive == Spec => []RunInv
<1>1. Init => RunInv
    BY LoopInitTyped, InitPlacesCalls DEF RunInv
<1>2. RunInv /\ [Next]_vars => RunInv'
    BY StepKeepsLoop, StepKeepsCalls DEF RunInv
<1> QED  BY <1>1, <1>2, PTL DEF Spec

-----------------------------------------------------------------------------
(* What follows. *)

\* Every variable of the loop and of the tool runtime keeps its type.
THEOREM RunsAreTyped == Spec => []TypeOK
<1>1. RunInv => TypeOK
    BY DEF RunInv, LoopInv, CallsInv, TypeOK
<1> QED  BY <1>1, RunInvInductive, PTL

\* The semaphore never hands out more slots than it has, nor forgets a call
\* that waits while one is free.
THEOREM SlotsAreAccounted == Spec => []SlotsAccounted
<1>1. RunInv => SlotsAccounted
    <2> SUFFICES ASSUME RunInv PROVE SlotsAccounted
        OBVIOUS
    <2>1. ToSet(waiters) = {c \in Calls : place[c] = "waiting"}
        <3>1. \A n \in 1..Len(waiters) : waiters[n] \in Calls
            BY DEF RunInv, CallsInv, ToolTypeOK
        <3>2. \A c \in Calls : place[c] = "waiting" <=> \E n \in 1..Len(waiters) : waiters[n] = c
            BY DEF RunInv, CallsInv, Queued
        <3>3. ToSet(waiters) = {waiters[n] : n \in 1..Len(waiters)}
            BY DEF RunInv, CallsInv, ToolTypeOK, ToSet
        <3> QED  BY <3>1, <3>2, <3>3
    <2>2. active <= Capacity
        <3>1. active \in Nat /\ Cardinality(Woken) \in Nat
            BY CallsFinite DEF RunInv, CallsInv, ToolTypeOK
        <3> QED  BY <3>1, CapacityAssumption DEF RunInv, SlotsInv
    <2> QED
        BY <2>1, <2>2
        DEF SlotsAccounted, RunInv, SlotsInv, WithSlot, Woken, CallsInv, Queued
<1> QED  BY <1>1, RunInvInductive, PTL

\* Neither budget is ever exceeded: a handler runs only for a call that
\* recordCalls() let through, and the calls under way are of one turn.
THEOREM BudgetsAreHeld == Spec => []BudgetsHold
<1>1. RunInv => BudgetsHold
    <2> SUFFICES ASSUME RunInv PROVE BudgetsHold
        OBVIOUS
    <2>1. /\ answered \in Nat /\ issued \in Nat /\ answered <= issued /\ Calls \subseteq Nat
          /\ issued <= MaxCalls /\ issued - answered <= MaxParallel
          /\ \A c \in Calls : CallPlaced(c)
        BY CallBoundAssumption DEF RunInv, LoopInv, LoopTypeOK, Budgeted, CallsInv, Calls
    <2>2. handled \subseteq 1..issued
        <3> SUFFICES ASSUME NEW c \in handled PROVE c \in 1..issued
            OBVIOUS
        <3>1. c \in Calls
            BY DEF RunInv, CallsInv, ToolTypeOK
        <3> QED  BY <2>1, <3>1 DEF CallPlaced, Calls
    <2>3. {c \in Calls : place[c] \notin {"idle", "done"}} \subseteq (answered + 1)..issued
        <3> SUFFICES ASSUME NEW c \in Calls, place[c] \notin {"idle", "done"}
                     PROVE  c \in (answered + 1)..issued
            OBVIOUS
        <3>1. CallPlaced(c) /\ c \in Nat
            BY <2>1
        <3>2. c > answered /\ c <= issued
            BY <2>1, <3>1 DEF CallPlaced
        <3> QED  BY <2>1, <3>1, <3>2
    <2>4. /\ IsFiniteSet(1..issued) /\ Cardinality(1..issued) = issued
          /\ IsFiniteSet((answered + 1)..issued)
          /\ Cardinality((answered + 1)..issued) <= issued - answered
          /\ Cardinality((answered + 1)..issued) \in Nat
        <3>1. 1 \in Int /\ issued \in Int /\ answered + 1 \in Int
            BY <2>1
        <3>2. /\ IsFiniteSet(1..issued)
              /\ Cardinality(1..issued) = IF 1 > issued THEN 0 ELSE issued - 1 + 1
            BY <3>1, FS_Interval
        <3>3. /\ IsFiniteSet((answered + 1)..issued)
              /\ Cardinality((answered + 1)..issued)
                   = IF answered + 1 > issued THEN 0 ELSE issued - (answered + 1) + 1
            BY <3>1, FS_Interval
        <3> QED  BY <2>1, <3>2, <3>3
    <2>5. /\ Cardinality(handled) <= issued /\ Cardinality(handled) \in Nat
          /\ Cardinality({c \in Calls : place[c] \notin {"idle", "done"}}) <= issued - answered
          /\ Cardinality({c \in Calls : place[c] \notin {"idle", "done"}}) \in Nat
        <3>1. /\ Cardinality(handled) <= Cardinality(1..issued) /\ IsFiniteSet(handled)
            BY <2>2, <2>4, FS_Subset
        <3>2. /\ Cardinality({c \in Calls : place[c] \notin {"idle", "done"}})
                    <= Cardinality((answered + 1)..issued)
              /\ IsFiniteSet({c \in Calls : place[c] \notin {"idle", "done"}})
            BY <2>3, <2>4, FS_Subset
        <3>3. /\ Cardinality(handled) \in Nat
              /\ Cardinality({c \in Calls : place[c] \notin {"idle", "done"}}) \in Nat
            BY <3>1, <3>2, FS_CardinalityType
        <3> QED  BY <2>1, <2>4, <3>1, <3>2, <3>3
    <2> QED  BY <2>1, <2>5, LimitsAssumption DEF BudgetsHold
<1> QED  BY <1>1, RunInvInductive, PTL

\* A call the signal cancelled is not answered and its run does not complete.
THEOREM InterruptedTurnsNotAnswered == Spec => []InterruptedTurnNotAnswered
<1>1. RunInv => InterruptedTurnNotAnswered
    <2> SUFFICES ASSUME RunInv, NEW c \in Calls, result[c] = "cancelled"
                 PROVE  c > answered /\ outcome # "completed"
        BY DEF InterruptedTurnNotAnswered
    <2>1. CallPlaced(c)
        BY DEF RunInv, CallsInv
    <2>2. pc = "results" => outcome = "open"
        BY DEF RunInv, LoopInv, LoopPlace
    <2> QED  BY <2>1, <2>2 DEF CallPlaced
<1> QED  BY <1>1, RunInvInductive, PTL

\* Once a conversation has provider state, the state stays with its provider.
THEOREM ConversationStays == Spec => StaysWithProvider
<1>1. RunInv /\ [Next]_vars => [state # NoProvider => state' = state]_vars
    <2> SUFFICES ASSUME RunInv, Next, state # NoProvider PROVE state' = state
        BY DEF vars, loopVars
    <2>1. CASE pc = "model" /\ StateOfAnswer
        <3>1. candidate \in Suitable(1)
            BY <2>1 DEF RunInv, LoopInv, AskedSuits
        <3> QED  BY <2>1, <3>1 DEF Suitable, StateOfAnswer
    <2>2. CASE ~(pc = "model" /\ StateOfAnswer)
        <3>1. ~\E how \in {"text", "finalizer"} : ModelFinishes(how)
            BY <2>2 DEF ModelFinishes
        <3>2. ~\E n \in 0..CallBound : ModelCalls(n)
            BY <2>2 DEF ModelCalls
        <3> QED
            BY <3>1, <3>2
            DEF Next, LoopStep, TurnBegins, PolicyAllows, PolicyDenies, PolicyAsks, WaitBegins,
                Approved, Refused, ModelFails, ModelThrows, Dispatch, AllCollected, OneCancelled,
                Collect, Decide, Abort, loopVars, checkpointFrame, resultFrame
    <2> QED  BY <2>1, <2>2
<1> QED  BY <1>1, RunInvInductive, PTL DEF StaysWithProvider, Spec

-----------------------------------------------------------------------------
(* Refinement of GovernedRun.  A step of the run ends it, announces a turn,  *)
(* grants or handles one call, answers a turn, or none of these.             *)

governedFrame == <<issued, granted, handled, answered>>

LEMMA EndIsGoverned ==
    ASSUME Open, UNCHANGED governedFrame,
           outcome' \in Failures \cup {"completed", "cancelled"},
           outcome' = "completed" => answered = issued
    PROVE  Governed!Next
<1> DEFINE o == IF outcome' \in Failures THEN "failed" ELSE outcome'
<1>1. o \in {"completed", "failed", "cancelled"} /\ (o = "completed" => outcome' = "completed")
    OBVIOUS
<1>2. outcome \notin Failures /\ outcome = "open"
    BY DEF Open, Failures
<1>3. o = "completed" => 1..answered = 1..issued
    BY <1>1
<1>4. Governed!End(o)
    BY <1>2, <1>3 DEF Governed!End, governedFrame
<1> QED  BY <1>1, <1>4 DEF Governed!Next

LEMMA GrantIsGoverned ==
    ASSUME RunInv, pc \in {"policy", "wait"}, Granted, UNCHANGED checkpointFrame
    PROVE  Governed!Next \/ UNCHANGED Governed!vars
<1>0. LoopTypeOK /\ Open /\ answered' = answered
    BY DEF RunInv, LoopInv, LoopPlace, Open, checkpointFrame
<1>1. CASE stage = "model"
    <2>1. AskFrom(1, "none") /\ UNCHANGED governedFrame
        BY <1>0, <1>1 DEF Granted, toolVars, governedFrame
    <2>2. outcome' = "model_error" \/ outcome' = outcome
        BY <2>1 DEF AskFrom, Fails, Goes
    <2>3. CASE outcome' = "model_error"
        BY <1>0, <2>1, <2>3, EndIsGoverned DEF Failures
    <2>4. CASE outcome' = outcome
        BY <2>1, <2>4 DEF governedFrame, Governed!vars
    <2> QED  BY <2>2, <2>3, <2>4
<1>2. CASE stage = "call"
    <2>1. granted' = granted + 1 /\ UNCHANGED <<issued, handled, answered, outcome>>
        BY <1>0, <1>2 DEF Granted, Goes, toolVars
    <2>2. granted < issued /\ granted \in Nat /\ issued \in Nat /\ issued <= CallBound
        BY <1>0, <1>2, CallBoundAssumption DEF RunInv, LoopInv, LoopPlace, LoopTypeOK
    <2>3. /\ granted + 1 \in Calls /\ granted + 1 \in (1..issued) \ (1..granted)
          /\ 1..granted' = (1..granted) \cup {granted + 1}
        BY <2>1, <2>2, CallBoundAssumption DEF Calls
    <2>4. outcome = "open" /\ outcome \notin Failures
        BY <1>0 DEF Open, Failures
    <2>5. Governed!Grant(granted + 1)
        BY <2>1, <2>3, <2>4 DEF Governed!Grant
    <2> QED  BY <2>3, <2>5 DEF Governed!Next
<1>3. CASE stage = "final"
    <2>1. outcome' = "completed" /\ UNCHANGED governedFrame
        BY <1>0, <1>3 DEF Granted, Fails, toolVars, governedFrame
    <2>2. answered = issued
        BY <1>3 DEF RunInv, LoopInv, LoopPlace
    <2> QED  BY <1>0, <2>1, <2>2, EndIsGoverned
<1> QED  BY <1>0, <1>1, <1>2, <1>3 DEF LoopTypeOK, Stages

\* The run keeps GovernedRun's promise: nothing runs before the whole turn was
\* granted, nothing twice, nothing in a run that completed or failed, and the
\* results of a turn reach the model together.
THEOREM RunsKeepGovernance == Spec => KeepsGovernance
<1>1. Init => Governed!Init
    <2> SUFFICES ASSUME Init PROVE Governed!Init
        OBVIOUS
    <2>1. 1..issued = {} /\ 1..granted = {} /\ 1..answered = {} /\ handled = {} /\ outcome = "open"
        BY DEF Init, ToolInit
    <2> QED  BY <2>1 DEF Governed!Init, Failures
<1>2. RunInv /\ [Next]_vars => [Governed!Next]_(Governed!vars)
    <2> SUFFICES ASSUME RunInv, [Next]_vars
                 PROVE  Governed!Next \/ UNCHANGED Governed!vars
        OBVIOUS
    <2>0. /\ answered \in Nat /\ issued \in Nat /\ granted \in Nat
          /\ answered <= granted /\ granted <= issued /\ issued <= CallBound
          /\ (pc # "ended" => Open)
        BY CallBoundAssumption DEF RunInv, LoopInv, LoopTypeOK, LoopPlace, Open
    <2>e. ASSUME pc # "ended", UNCHANGED governedFrame,
                 outcome' \in Failures \cup {"cancelled"} \/ outcome' = outcome
          PROVE  Governed!Next \/ UNCHANGED Governed!vars
        <3>1. CASE outcome' = outcome
            BY <2>e, <3>1 DEF governedFrame, Governed!vars
        <3>2. CASE outcome' \in Failures \cup {"cancelled"}
            BY <2>0, <2>e, <3>2, EndIsGoverned DEF Failures
        <3> QED  BY <2>e, <3>1, <3>2
    <2>1. CASE TurnBegins \/ PolicyDenies \/ PolicyAsks \/ WaitBegins \/ Refused
        <3>1. pc # "ended" /\ UNCHANGED governedFrame
            BY <2>1
            DEF TurnBegins, PolicyDenies, PolicyAsks, WaitBegins, Refused, checkpointFrame,
                toolVars, governedFrame
        <3>2. outcome' \in Failures \cup {"cancelled"} \/ outcome' = outcome
            BY <2>1 DEF TurnBegins, PolicyDenies, PolicyAsks, WaitBegins, Refused, Fails, Goes, Failures
        <3> QED  BY <2>e, <3>1, <3>2
    <2>2. CASE PolicyAllows \/ Approved
        BY <2>2, GrantIsGoverned DEF PolicyAllows, Approved
    <2>3. CASE ModelFails \/ ModelThrows \/ \E how \in {"text", "finalizer"} : ModelFinishes(how)
        <3>1. pc # "ended" /\ UNCHANGED governedFrame
            BY <2>3 DEF ModelFails, ModelThrows, ModelFinishes, modelFrame, toolVars, governedFrame
        <3>2. outcome' \in Failures \cup {"cancelled"} \/ outcome' = outcome
            BY <2>3 DEF ModelFails, ModelThrows, ModelFinishes, AskFrom, Fails, Goes, Failures
        <3> QED  BY <2>e, <3>1, <3>2
    <2>4. ASSUME NEW n \in 0..CallBound, ModelCalls(n)
          PROVE  Governed!Next \/ UNCHANGED Governed!vars
        <3>1. pc = "model" /\ UNCHANGED <<granted, handled, answered>>
            BY <2>4 DEF ModelCalls, modelFrame, toolVars
        <3>2. answered = issued /\ granted = issued
            BY <2>0, <3>1 DEF RunInv, LoopInv, LoopPlace
        <3>3. CASE ~Accepted(n)
            <4>1. outcome' = "budget" /\ issued' = issued
                BY <2>4, <3>3 DEF ModelCalls, Fails
            <4> QED  BY <2>e, <3>1, <4>1 DEF governedFrame, Failures
        <3>4. CASE Accepted(n) /\ n = 0
            <4>1. outcome' = outcome /\ issued' = issued
                BY <2>0, <2>4, <3>4 DEF ModelCalls, Goes
            <4> QED  BY <2>e, <3>1, <4>1 DEF governedFrame
        <3>5. CASE Accepted(n) /\ n # 0
            <4> DEFINE S == (issued + 1)..(issued + n)
            <4>1. outcome' = outcome /\ issued' = issued + n /\ issued + n <= CallBound
                BY <2>4, <3>5 DEF ModelCalls, Goes
            <4>2. /\ S \subseteq Calls /\ S # {} /\ S \cap (1..issued) = {}
                  /\ 1..issued' = (1..issued) \cup S
                <5>1. n \in Nat /\ issued + 1 \in S
                    BY <2>0, <3>5
                <5>2. S \subseteq Calls /\ S \cap (1..issued) = {}
                    BY <2>0, <4>1, <5>1, CallBoundAssumption DEF Calls
                <5>3. 1..(issued + n) = (1..issued) \cup S
                    BY <2>0, <5>1
                <5> QED  BY <4>1, <5>1, <5>2, <5>3
            <4>3. outcome = "open" /\ outcome \notin Failures /\ outcome' \notin Failures
                BY <2>0, <3>1, <4>1 DEF Open, Failures
            <4> HIDE DEF S
            <4>4. Governed!Announce(S)
                BY <3>1, <3>2, <4>1, <4>2, <4>3 DEF Governed!Announce
            <4> QED  BY <4>2, <4>4 DEF Governed!Next
        <3> QED  BY <3>3, <3>4, <3>5
    <2>5. CASE Dispatch
        <3>1. pc # "ended" /\ outcome' = outcome /\ UNCHANGED governedFrame
            BY <2>5 DEF Dispatch, AcquireAll, Goes, resultFrame, governedFrame
        <3> QED  BY <2>e, <3>1
    <2>6. CASE AllCollected
        <3>1. /\ pc = "results" /\ answered' = issued
              /\ UNCHANGED <<issued, granted, handled, outcome>>
            BY <2>6 DEF AllCollected, Goes, resultFrame, toolVars
        <3>2. outcome = "open" /\ outcome \notin Failures /\ granted = issued
            BY <2>0, <3>1 DEF Open, Failures, RunInv, LoopInv, LoopPlace
        <3>3. Governed!Answer
            BY <3>1, <3>2 DEF Governed!Answer
        <3> QED  BY <3>3 DEF Governed!Next
    <2>7. CASE OneCancelled
        <3>1. pc # "ended" /\ outcome' = "cancelled" /\ UNCHANGED governedFrame
            BY <2>7 DEF OneCancelled, Fails, resultFrame, toolVars, governedFrame
        <3> QED  BY <2>e, <3>1
    <2>8. CASE (\E c \in Calls : Collect(c)) \/ Decide \/ UNCHANGED vars
        <3>1. UNCHANGED <<issued, granted, handled, answered, outcome>>
            BY <2>8 DEF Collect, Decide, vars, toolVars, loopVars, resultFrame
        <3> QED  BY <3>1 DEF Governed!vars
    <2>9. ASSUME NEW c \in Calls, ToolStep(c), UNCHANGED loopVars
          PROVE  Governed!Next \/ UNCHANGED Governed!vars
        <3>1. UNCHANGED <<issued, granted, answered, outcome>>
            BY <2>9 DEF loopVars
        <3>2. CASE Handle(c)
            <4>1. place[c] = "held" /\ handled' = handled \cup {c} /\ CallPlaced(c) /\ c \in Nat
                BY <3>2 DEF Handle, RunInv, CallsInv, Calls
            <4>2. c \notin handled /\ c > answered /\ c <= issued
                BY <2>0, <4>1 DEF CallPlaced
            <4>3. granted = issued /\ outcome \in {"open", "cancelled"}
                BY <2>0, <4>1, <4>2 DEF CallPlaced, RunInv, LoopInv, LoopPlace, Open
            <4>4. outcome \notin Failures
                BY <4>3 DEF Failures
            <4>5. c \in (1..issued) \ (handled \cup (1..answered))
                BY <2>0, <4>1, <4>2 DEF Calls
            <4>6. Governed!Handle(c)
                BY <3>1, <4>1, <4>3, <4>4, <4>5 DEF Governed!Handle
            <4> QED  BY <4>6 DEF Governed!Next
        <3>3. CASE ~Handle(c)
            <4>1. handled' = handled
                BY <2>9, <3>3
                DEF ToolStep, CallContinues, TakeSlot, EndsUnhandled, Release, HandlerSettles, Timeout
            <4> QED  BY <3>1, <4>1 DEF Governed!vars
        <3> QED  BY <3>2, <3>3
    <2>10. CASE Abort
        <3>1. UNCHANGED governedFrame
            BY <2>10 DEF Abort, AbortCalls, governedFrame
        <3>2. CASE outcome' = outcome
            BY <3>1, <3>2 DEF governedFrame, Governed!vars
        <3>3. CASE pc = "wait" /\ outcome' = "cancelled"
            BY <2>e, <3>1, <3>3
        <3> QED  BY <2>10, <3>2, <3>3 DEF Abort, Fails
    <2> QED
        BY <2>1, <2>2, <2>3, <2>4, <2>5, <2>6, <2>7, <2>8, <2>9, <2>10 DEF Next, LoopStep
<1> QED  BY <1>1, <1>2, RunInvInductive, PTL DEF KeepsGovernance, Governed!Spec, Spec

=============================================================================
