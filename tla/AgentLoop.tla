----------------------------- MODULE AgentLoop -----------------------------
(***************************************************************************)
(* One run of AgentLoop (src/src/runtime/agent-loop.ts) over ToolRuntime:  *)
(* streamBody() and runWithFallback().  An action runs from one await, or  *)
(* one yield after which the code looks at the signal or at a decision, to *)
(* the next; pc names where the run is suspended:                          *)
(*                                                                         *)
(*   head       top of the for loop         model     models.run           *)
(*   policy     policy.check                dispatch  the last STARTED     *)
(*   requested  the yield of the request    results   Promise.all          *)
(*   wait       waitForApproval             ended                          *)
(*                                                                         *)
(* The policy, the model, the handlers and who decides may do anything     *)
(* their interfaces allow.  The run always has an approval manager; one    *)
(* without ends as if the policy had denied.                               *)
(***************************************************************************)
EXTENDS ToolRuntime

CONSTANTS
    MaxIterations,  \* request.max_iterations
    MaxRetries,     \* output.max_validation_retries
    MaxCalls,       \* tool_budget.max_calls
    MaxParallel,    \* tool_budget.max_parallel
    Candidates,     \* the providers to try: of the model, then the fallbacks
    NoProvider,     \* provider_state === undefined
    Strategies,     \* what output.strategy resolves to; "text" without output
    NativeFallback  \* output.fallback of "provider_native"

ASSUME LimitsAssumption ==
    /\ MaxIterations \in Nat /\ MaxRetries \in Nat /\ MaxCalls \in Nat /\ MaxParallel \in Nat
ASSUME CandidatesAssumption ==
    /\ Candidates \in Seq(STRING) /\ Candidates # <<>>
    /\ NoProvider \in STRING /\ \A n \in 1..Len(Candidates) : Candidates[n] # NoProvider
ASSUME StrategiesAssumption ==
    /\ Strategies \subseteq {"text", "provider_native", "finalizer_tool", "posthoc_parse_with_retry"}
    /\ NativeFallback \in {"error", "finalizer_tool", "posthoc_parse_with_retry"}

Providers == {Candidates[n] : n \in 1..Len(Candidates)}
Decisions == {"approved", "denied"}
Stages == {"model", "call", "final"}
Failures == {"denied", "model_error", "invalid_output", "budget", "iterations"}

VARIABLES
    pc,
    stage,          \* the checkpoint the policy or approver is asked about
    decision,       \* what the manager holds for the last request
    iteration,
    strategy,       \* output.strategy
    candidate,      \* the index of the candidate asked
    lastError,      \* the last fallback error of runWithFallback()
    state,          \* providerState.provider
    validations,    \* validationAttempts
    issued,         \* toolsetRuntime.calls: the calls 1..issued were accepted
    granted,        \* the calls 1..granted are or were in authorizedCalls
    answered,       \* the results of the calls 1..answered are in messages
    collected,      \* collected[c]: what the catch around call c made of it
    outcome         \* how the run ended

loopVars == <<pc, stage, decision, iteration, strategy, candidate, lastError, state,
              validations, issued, granted, answered, collected, outcome>>
vars == <<aborted, toolVars, loopVars>>

LoopTypeOK ==
    /\ pc \in {"head", "policy", "requested", "wait", "model", "dispatch", "results", "ended"}
    /\ stage \in Stages
    /\ decision \in Decisions \cup {"none"}
    /\ iteration \in 0..MaxIterations
    /\ strategy \in Strategies \cup {NativeFallback}
    /\ candidate \in 1..(Len(Candidates) + 1)
    /\ lastError \in {"none", "execution", "not_found"}
    /\ state \in Providers \cup {NoProvider, "foreign"}
    /\ validations \in Nat
    /\ issued \in 0..CallBound
    /\ granted \in 0..issued
    /\ answered \in 0..granted
    /\ collected \in [Calls -> {"none", "result", "cancelled"}]
    /\ outcome \in Failures \cup {"open", "completed", "cancelled"}

TypeOK == ToolTypeOK /\ LoopTypeOK

\* A run may continue an earlier conversation, with its own provider or another.
Init ==
    /\ aborted = FALSE
    /\ ToolInit
    /\ pc = "head"
    /\ stage = "model"
    /\ decision = "none"
    /\ iteration = 0
    /\ strategy \in Strategies
    /\ candidate = 1
    /\ lastError = "none"
    /\ state \in {NoProvider, Candidates[1], "foreign"}
    /\ validations = 0
    /\ issued = 0
    /\ granted = 0
    /\ answered = 0
    /\ collected = [c \in Calls |-> "none"]
    /\ outcome = "open"

Goes(place_) == pc' = place_ /\ UNCHANGED outcome

\* Something throws: RUN_FAILED, and the error for who reads the stream.
Fails(error) == pc' = "ended" /\ outcome' = error

-----------------------------------------------------------------------------
(* The turn's head, and the checkpoints. *)

\* assertNotCancelled() before the policy is asked about the next turn.
TurnBegins ==
    /\ pc = "head"
    /\ IF iteration = MaxIterations THEN Fails("iterations")
       ELSE IF aborted THEN Fails("cancelled")
       ELSE Goes("policy")
    /\ stage' = "model"
    /\ UNCHANGED <<aborted, toolVars, decision, iteration, strategy, candidate, lastError,
                   state, validations, issued, granted, answered, collected>>

\* The candidates from n on that may get the conversation's provider state.
Suitable(n) == {m \in n..Len(Candidates) : state \in {NoProvider, Candidates[m]}}

\* runWithFallback() skips the others; past the last one it throws.
FirstSuitable(n) == IF Suitable(n) = {} THEN Len(Candidates) + 1
                    ELSE CHOOSE m \in Suitable(n) : \A k \in Suitable(n) : m <= k

\* Ask the first suitable candidate from n on, after the error e.  When there
\* is none the last error is thrown; a provider error makes a run that asked
\* for provider-native output start over, once, with the fallback strategy.
AskFrom(n, e) ==
    LET restart == /\ FirstSuitable(n) > Len(Candidates)
                   /\ e = "execution" /\ strategy = "provider_native"
                   /\ NativeFallback # "error"
        m == FirstSuitable(IF restart THEN 1 ELSE n)
    IN /\ candidate' = m
       /\ strategy' = IF restart THEN NativeFallback ELSE strategy
       /\ lastError' = IF restart THEN "none" ELSE e
       /\ IF m > Len(Candidates) THEN Fails("model_error") ELSE Goes("model")

\* Mutant of Granted: each call is on its way as soon as it was granted.
GrantedAtOnce ==
    CASE stage = "model" ->
           AskFrom(1, "none") /\ UNCHANGED <<toolVars, issued, granted>>
      [] stage = "call" ->
           /\ granted' = granted + 1
           /\ Goes(IF granted' = issued THEN "results" ELSE "policy")
           /\ AcquireAll(granted', granted')
           /\ UNCHANGED <<strategy, candidate, lastError, issued>>
      [] stage = "final" ->
           /\ Fails("completed")
           /\ UNCHANGED <<toolVars, strategy, candidate, lastError, issued, granted>>

\* The checkpoint was passed: ask the model, announce the call as started and
\* turn to the next one, or complete.
Granted ==
    CASE stage = "model" ->
           AskFrom(1, "none") /\ UNCHANGED <<toolVars, issued, granted>>
      [] stage = "call" ->
           /\ granted' = granted + 1
           /\ Goes(IF granted' = issued THEN "dispatch" ELSE "policy")
           /\ UNCHANGED <<toolVars, strategy, candidate, lastError, issued>>
      [] stage = "final" ->
           /\ Fails("completed")
           /\ UNCHANGED <<toolVars, strategy, candidate, lastError, issued, granted>>

\* The rest of what a checkpoint leaves alone.
checkpointFrame == <<aborted, stage, iteration, state, validations, answered, collected>>

PolicyAllows ==
    /\ pc = "policy"
    /\ Granted
    /\ UNCHANGED <<decision, checkpointFrame>>

\* It denies, requires an approval nobody can give, or throws.
PolicyDenies ==
    /\ pc = "policy"
    /\ Fails("denied")
    /\ UNCHANGED <<toolVars, decision, strategy, candidate, lastError, issued, granted,
                   checkpointFrame>>

\* manager.request(), then the yield of APPROVAL_REQUESTED.
PolicyAsks ==
    /\ pc = "policy"
    /\ Goes("requested")
    /\ decision' = "none"
    /\ UNCHANGED <<toolVars, strategy, candidate, lastError, issued, granted, checkpointFrame>>

\* waitForApproval() looks at the signal before it listens to it.
WaitBegins ==
    /\ pc = "requested"
    /\ IF aborted THEN Fails("cancelled") ELSE Goes("wait")
    /\ UNCHANGED <<toolVars, decision, strategy, candidate, lastError, issued, granted,
                   checkpointFrame>>

Approved ==
    /\ pc = "wait" /\ decision = "approved"
    /\ Granted
    /\ UNCHANGED <<decision, checkpointFrame>>

Refused ==
    /\ pc = "wait" /\ decision = "denied"
    /\ Fails("denied")
    /\ UNCHANGED <<toolVars, decision, strategy, candidate, lastError, issued, granted,
                   checkpointFrame>>

-----------------------------------------------------------------------------
(* The model. *)

modelFrame == <<aborted, toolVars, decision, answered, collected>>

\* An error that lets the next candidate try.
ModelFails ==
    /\ pc = "model"
    /\ \E e \in {"execution", "not_found"} : AskFrom(candidate + 1, e)
    /\ UNCHANGED <<modelFrame, stage, iteration, state, validations, issued, granted>>

\* Any other error; or an answer, or an error, that a cancelled run gets.
ModelThrows ==
    /\ pc = "model"
    /\ \/ Fails("model_error")
       \/ aborted /\ Fails("cancelled")
    /\ UNCHANGED <<modelFrame, stage, iteration, strategy, candidate, lastError, state,
                   validations, issued, granted>>

\* The answer's provider_state, if it has one, replaces the run's.
StateOfAnswer == state' \in {state, Candidates[candidate]}

\* The output is there, as a text or as the finalizer's arguments.  Only a text
\* that did not match its schema is worth a retry, and only in one strategy.
ModelFinishes(how) ==
    LET attempts == validations + (IF strategy = "text" THEN 0 ELSE 1)
        valid == Goes("policy") /\ stage' = "final" /\ UNCHANGED iteration
        retried == /\ how = "text" /\ strategy = "posthoc_parse_with_retry"
                   /\ attempts <= MaxRetries
                   /\ Goes("head") /\ iteration' = iteration + 1 /\ UNCHANGED stage
        invalid == /\ strategy # "text"
                   /\ ~(how = "text" /\ strategy = "posthoc_parse_with_retry"
                        /\ attempts <= MaxRetries)
                   /\ Fails("invalid_output") /\ UNCHANGED <<iteration, stage>>
    IN
    /\ pc = "model" /\ ~aborted
    /\ how = "finalizer" => strategy # "text"
    /\ StateOfAnswer
    /\ validations' = attempts
    /\ valid \/ retried \/ invalid
    /\ UNCHANGED <<modelFrame, strategy, candidate, lastError, issued, granted>>

\* Mutant of Accepted: the budget is compared before the turn's calls count.
AcceptedBefore(n) == n <= MaxParallel /\ issued <= MaxCalls

\* assertParallel() and recordCalls() let n more calls through.
Accepted(n) == n <= MaxParallel /\ issued + n <= MaxCalls

\* n calls of tools, none if the model called only a finalizer the run has no
\* use for.  Over the budget nothing is announced; else the policy is asked
\* about the first call.
ModelCalls(n) ==
    /\ pc = "model" /\ ~aborted
    /\ n = 0 => strategy = "text"
    /\ Accepted(n) => issued + n <= CallBound
    /\ StateOfAnswer
    /\ stage' = "call"
    /\ IF ~Accepted(n) THEN Fails("budget") /\ UNCHANGED issued
       ELSE /\ issued' = issued + n
            /\ Goes(IF n = 0 THEN "dispatch" ELSE "policy")
    /\ UNCHANGED <<modelFrame, iteration, strategy, candidate, lastError, validations, granted>>

-----------------------------------------------------------------------------
(* The turn's calls. *)

resultFrame == <<aborted, stage, decision, strategy, candidate, lastError, state, validations,
                 issued, granted>>

Turn == (answered + 1)..issued

Dispatch ==
    /\ pc = "dispatch"
    /\ AcquireAll(answered + 1, issued)
    /\ Goes("results")
    /\ UNCHANGED <<resultFrame, iteration, answered, collected>>

\* Mutant of Collect: the catch makes every error a result.
CollectAnyway(c) ==
    /\ place[c] = "done" /\ collected[c] = "none"
    /\ collected' = [collected EXCEPT ![c] = "result"]
    /\ UNCHANGED <<resultFrame, toolVars, pc, outcome, iteration, answered>>

\* The promise of a call settled; the catch makes an error a result, unless
\* the run was cancelled by then.
Collect(c) ==
    /\ place[c] = "done" /\ collected[c] = "none"
    /\ collected' = [collected EXCEPT ![c] =
                       IF result[c] # "returned" /\ aborted THEN "cancelled" ELSE "result"]
    /\ UNCHANGED <<resultFrame, toolVars, pc, outcome, iteration, answered>>

\* Promise.all resolved: the results become messages, and the next turn.
AllCollected ==
    /\ pc = "results"
    /\ \A c \in Turn : collected[c] = "result"
    /\ answered' = issued
    /\ iteration' = iteration + 1
    /\ Goes("head")
    /\ UNCHANGED <<resultFrame, toolVars, collected>>

\* Promise.all rejected, other calls may be under way.
OneCancelled ==
    /\ pc = "results"
    /\ \E c \in Turn : collected[c] = "cancelled"
    /\ Fails("cancelled")
    /\ UNCHANGED <<resultFrame, toolVars, iteration, answered, collected>>

-----------------------------------------------------------------------------
(* The system. *)

\* The approver decides a pending request, once.
Decide ==
    /\ pc \in {"requested", "wait"} /\ decision = "none"
    /\ decision' \in Decisions
    /\ UNCHANGED <<aborted, toolVars, pc, stage, iteration, strategy, candidate, lastError, state,
                   validations, issued, granted, answered, collected, outcome>>

\* The caller's signal fires.  A wait for a decision is over with it.
Abort ==
    /\ ~aborted
    /\ aborted' = TRUE
    /\ AbortCalls
    /\ IF pc = "wait" THEN Fails("cancelled") ELSE UNCHANGED <<pc, outcome>>
    /\ UNCHANGED <<stage, decision, iteration, strategy, candidate, lastError, state, validations,
                   issued, granted, answered, collected>>

LoopStep ==
    \/ TurnBegins
    \/ PolicyAllows \/ PolicyDenies \/ PolicyAsks
    \/ WaitBegins \/ Approved \/ Refused
    \/ ModelFails \/ ModelThrows
    \/ \E how \in {"text", "finalizer"} : ModelFinishes(how)
    \/ \E n \in 0..CallBound : ModelCalls(n)
    \/ Dispatch \/ AllCollected \/ OneCancelled

Next ==
    \/ LoopStep
    \/ \E c \in Calls : Collect(c) \/ (ToolStep(c) /\ UNCHANGED loopVars)
    \/ Decide
    \/ Abort

Spec == Init /\ [][Next]_vars

\* Settled promises are continued and timers fire; the policy and the model
\* answer.  A handler need not, an approver need not, nobody has to cancel.
Fairness ==
    /\ WF_vars(LoopStep)
    /\ \A c \in Calls :
          /\ WF_vars(Collect(c))
          /\ WF_vars(CallContinues(c) /\ UNCHANGED loopVars)
          /\ WF_vars(Timeout(c) /\ UNCHANGED loopVars)

FairSpec == Spec /\ Fairness

-----------------------------------------------------------------------------
(* Properties. *)

\* The run keeps what GovernedRun promises about its tool calls.
Governed == INSTANCE GovernedRun WITH
    announced <- 1..issued, granted <- 1..granted, answered <- 1..answered,
    outcome <- IF outcome \in Failures THEN "failed" ELSE outcome

KeepsGovernance == Governed!Spec

\* A toolset's budgets hold over the whole run, whatever fails in between: no
\* more handlers are invoked than max_calls, nor are more calls of one turn
\* under way than max_parallel.  (tests/unit/agent-loop.test.ts: "enforces
\* toolset call and parallel budgets before dispatch".)
BudgetsHold ==
    /\ Cardinality(handled) <= MaxCalls
    /\ Cardinality({c \in Calls : place[c] \notin {"idle", "done"}}) <= MaxParallel

\* Provider state goes back to the provider it came from, across turns,
\* fallbacks and the restart with another strategy; so once a conversation has
\* state it stays with one provider.  (runWithFallback()'s skip.)
StaysWithProvider == [][state # NoProvider => state' = state]_vars

\* A cancelled run never gives its model the results of a turn that the signal
\* interrupted, nor completes instead.  (tests/unit/agent-loop.test.ts: "cancels
\* active tool handlers instead of continuing with an error result".)
InterruptedTurnNotAnswered ==
    \A c \in Calls : result[c] = "cancelled" => c > answered /\ outcome # "completed"

\* Every run ends, unless it waits for a decision nobody takes: handlers that
\* never settle are timed out, waiting calls get their slot, and a signal ends
\* every wait.
RunEnds == <>(\/ pc = "ended"
              \/ [](pc = "wait" /\ decision = "none" /\ ~aborted))
=============================================================================
