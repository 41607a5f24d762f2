# TLA+ models of blackbox-ts

Modules, model-checking configurations and machine-checked proofs about the runtime in
`src/src`. File and line references are relative to the repository root `src/`.

## 1. Inventory

| component | state it keeps | operations | talks to | what is hard | what makes it correct |
|---|---|---|---|---|---|
| `src/workers/index.ts`: `InMemoryWorkSource` | map of items with status, attempts, lease id and expiry; `sequence`, `reclaimed`, `stopped` | enqueue, requestStop, claim, heartbeat, complete, fail, stats, stop | workers, application | leases expire at any moment; answers under an old lease | an item is held by one lease at a time, finished at most once, by its holder |
| `EnvironmentWorker` (same file) | flags, `inFlightWorkId`, `interruptCurrent`, `wakePoll`, counters | run, drain, handleOne, stop, status; heartbeat timer | source, policy, handler | each await lets a stop, a beat or another worker in | stops are not missed, the status is truthful, the counters add up |
| `AnthropicEnvironmentWorkSource` | none (remote) | the same calls over HTTP | remote service | a call fails before or after it took effect | a worker never claims a result the source lacks |
| `src/runtime/agent-loop.ts` | messages, provider state, counters of one run | turns: model policy, fallback, final output, tool calls | models, tools, policies, approvals | calls of a turn run at the same time, cancellation in every await | what is refused is not run; every started call has a result |
| `src/tools/runtime.ts`, `catalog.ts` | semaphore, visible tools, call budget | call, load, recordCalls | handlers | timeouts, abort, slots | slots are neither lost nor exceeded, budgets hold |
| `src/core/approvals.ts`, `policy.ts` | pending decisions | request, approve, deny | loop, sessions | decision against cancellation | one decision per request |
| `src/core/tool-permissions.ts` | async-local stack of frames | decide, narrow | every dispatch, model requests | nesting of frames; what is judged is not what runs | a frame only narrows; what goes out is what was allowed |
| `src/providers/local-agent.ts` | records: status, event log, abort signal, `done` | startSession, sendMessage, approve, cancel, streamSessionEvents | agent loop | a background job per invocation | jobs settle, cancelled is final, protected actions need an approval |
| `src/runtime/agent-sessions.ts` | the stored snapshot (through the store) | start, streamSession, approve, sendMessage, cancel | provider, store | load and save are separate awaits | durable log is a gap-free prefix; decisions and terminal statuses last |
| `src/persistence/*` | snapshots, JSONL lines, rows | load, save, appendEvent | session runtime, hosts of schedules | write chain, torn lines, read-modify-write | saves reach the file in order, without a gap |
| `src/runtime/model-runtime.ts` | none | run, stream | config, permissions, providers | layers of configuration; streams without an end | what is asked reaches the wire; a turn with a timeout ends |
| `src/runtime/realtime-runtime.ts` | send chain, `closed`, cursor | send, events, update, close | realtime provider, tools | sends that fail, close against send | commands in order, each tool call answered once by a stream, a handler runs only as it is permitted |
| `src/mcp/client.ts`, `transports.ts` | negotiated version, tool cache and its generation, the shared fetch, pending requests | initialize, listTools, callTool, invalidateTools, request | MCP server, trust policy, permission frames | lists that arrive after they are outdated, a shared fetch that one caller cancels, a list replaced while a call is judged | nothing outdated is cached or shared; a call goes out as it was judged |
| `src/mcp/server.ts`, `toolset.ts` | none of their own | dispatch | client, tools | | |
| `src/providers/codex-app-server.ts` | threads, turns, pending requests, held approvals | start, stream, approve, cancel, close | child process | notifications before responses, reader failure, cancel against completion | requests settle, streams are complete, the live turn is known |
| `src/providers/cloud-agents.ts` | none of its own | start, stream, approve | injected client | as above | as the session contract |
| `src/schedules/index.ts` | the last window run of each schedule | parseSchedule, runDue | policy, execute callback | overlapping passes, clock changes, a schedule that throws | a window runs once, and due windows run |
| `src/cache/index.ts` | entries with expiry | get, set | model runtime | expiry | no stale entry |
| model providers, http, catalog, registry | none | build bodies, decode streams, retry | vendors | chunked streams, retries, timeouts, replayed thinking | decoding does not depend on chunking; nothing refused is sent |
| `src/pricing`, `src/config` | tables, loaded layers | estimate; load, validate | model runtime | tokens counted twice, precedence of layers | a token is billed once; the strongest layer wins |
| planning, output, skills, workspaces, workspace-agents, observability, core values, testing | mostly none | pure conversions, file access | the above | | |

`PROJECT.json` lists every component with its status and every hazard with its line and the
properties that would notice it going wrong.

## 2. Plan

Order of work, most important behaviour first; composed modules are indented below what they
are built from.

1. `WorkSource` (implements `ExclusiveWork`) and `EnvironmentWorker` over it. **Done.**
2. `LocalAgentProvider`, and `AgentSessions` over it. **Done.**
3. `ToolRuntime`, and `AgentLoop` over it, implementing the abstract `GovernedRun`. **Done.**
4. `McpTransport`, and `McpClient` over it: initialisation, tool cache, trust, retry. **Done.**
5. `DuplexProvider`, `RealtimeConnect`, and `RealtimeSession` over them and over the
   operators of `ToolPermissions`. **Done.**
6. `CodexProtocol`, `CodexConnection`, and `CodexSession` over them. **Done.**
7. `Collections`; `ModelProfiles`, `ModelRequests`, `ModelBodies` (what is sent), `SseStream`,
   `StreamDecoding`, `Pricing` (what comes back), and `ModelTurns` over all of them. **Done.**
8. `JsonlStore`, `Schedules`, and `ScheduledRuns`, a host that runs both. **Done.**
9. Left: the response cache around `ModelTurns`; artifacts, idempotency keys and adopted sessions
   of the session runtime; tools loaded during a run of the agent loop; the MCP toolset.

Abstract specifications: `ExclusiveWork` and `GovernedRun`. Elsewhere the reference is a
definition beside the program: `ModelTurns` compares a decoded stream with the answer that comes
whole, a price with the bill of the response, and a body with the layers the caller set.

## 3. Modules and the code

| module | models | state | actions |
|---|---|---|---|
| `ExclusiveWork` | what a work source promises | outcome, holder, finisher, granted | Offer, Grant, Revoke, Finish |
| `WorkSource` | `InMemoryWorkSource` | its fields; time is relative (`remaining`) | one per method, plus `Tick` |
| `EnvironmentWorker` | `EnvironmentWorker` over `WorkSource` | the worker's fields, a program counter and locals per activation | one per stretch of code between two awaits |
| `LocalAgentProvider` | one session record and its jobs | status, log, done, abort signal, each run's place | one per event handled by `executeRun()` and one per method |
| `AgentSessions` | `AgentSessions` and the store over `LocalAgentProvider` | the snapshot, each stream's and call's place and loaded copy | one per store call or provider pull |
| `ToolRuntime` | `ToolRuntime.call()` and its `Semaphore` | `active`, `waiters`, the signal, each call's place and result | one per stretch of `call()`; `AbortCalls` when the signal fires |
| `GovernedRun` | what a run promises about its tool calls | announced, granted, handled, answered, outcome | Announce, Grant, Handle, Answer, End |
| `McpTransport` | `StdioMCPTransport`: requests waiting for their response | pending requests, what is on the wire, what a promise settled to, whether the process lives | Request, Serve, HandleLine, GiveUp (timer or signal), Exit |
| `McpClient` | `MCPClient` over `McpTransport`, its callers and a server that changes its tools | the client's fields; the await each caller and each fetch is in; versions of the server's list | one per stretch of `listTools()`, `fetchTools()`, `callTool()`, `request()` between two awaits; invalidation, expiry, notification |
| `AgentLoop` | `streamBody()` and `runWithFallback()` over `ToolRuntime` | where the run is suspended, its counters, candidate, strategy, provider state | checkpoints, the model's answers and errors, the turn's calls, decisions, the signal |
| `ToolPermissions` | decisions of the package frames, canonical names, approval keys | none: operators | |
| `DuplexProvider` | `DuplexRealtimeProvider` and its transport | the session's entry, what the transport took | opening, a send, its outcome, closing |
| `RealtimeConnect` | `connect()`: request, configuration, capabilities | none: operators | |
| `RealtimeSession` | `ManagedRealtimeSession` over `DuplexProvider`, with `ToolPermissions` | the chain of sends, `closed`, the registered tool, approval keys, each stream's place, locals and last event given | one per stretch of `send()`, `update()`, `close()`, `events()`, `executeToolCall()`; the application edits its tool |
| `CodexProtocol` | tables and refusals of the Codex provider | none: operators | |
| `CodexConnection` | `CodexConnection`: `request()`, its reader, `close()`, `fail()` | pending requests, sends under way, the two closed flags, the transport | Request, SendSettles, Respond, CloseBegins, CloseSettles, CloseThrows, ReaderEnds |
| `CodexSession` | one thread over `CodexConnection` | log, current turn, held approvals, each call's and stream's place | one per stretch of `startSession()`, `sendMessage()`, `approve()`, `cancel()`, `close()`, `streamEvents()`; one per inbound message |
| `ModelProfiles` | the providers' capability profiles and the check of a request | none: operators | |
| `ModelRequests` | configuration layers, provider and model, controls, package boundary, normalisation | none: operators | |
| `ModelBodies` | the bodies of each adapter, the checks on them, replay prefixes | none: operators | |
| `Collections` | spreads of objects (`++`), arrays joined (`Joined`, a recursive function) | none: operators | |
| `SseStream` | `decodeSSE()` on tokens | none: operators | |
| `StreamDecoding` | the event mappers, streamed and whole | none: operators | |
| `Pricing` | rates, aliases and `estimate()` | none: operators | |
| `ModelTurns` | the turns of a caller of `ModelRuntime.stream()` | where the turn is, attempts, signal, buffer, pending messages, decoder; provider states held | call, attempts and retries, timer, chunks read, messages yielded, end |
| `JsonlStore` | `JSONLSessionStore` and its file | the lines, whether the last has its end, `writeChain`, each caller's call | AppendEvent, LineWritten, LineFails, ReadsAndSaves, ReadsPartly, Restarts |
| `Schedules` | `parseSchedule()` and `runDue()` | the clock, `last`, each pass | RunDue, Allowed, Refused, PolicyThrows, Executed, ExecutionFails, Tick |
| `ScheduledRuns` | a host of both (external) | history only | the actions of both, joined where `execute()` appends the run |

Actions run from one await to the next, since JavaScript interleaves nowhere else. A call of the
in-memory source takes effect when it is made; the `await` before it only delays the
continuation. The store's `load` and `save` are asynchronous by interface, hence two actions.
History variables (`finisher`, `acted`, `cancelledWaiting`, `delivered`, the `errored` counter, `known` and `served` of the MCP client)
record what properties speak of and guard nothing; so do `took` and `closes` of
`DuplexProvider`, `ledger` of `ModelTurns`, `saved`, `first` and `gap` of `JsonlStore`, and `ran`,
`overlapped` and `clashed` of `ScheduledRuns`. `events` and `pulled` of `RealtimeSession` stand for the
transport's iterators: the events yielded so far, and how far each stream has got. Definitions marked "mutant" are wrong variants that
show a property to depend on the code; nothing refers to them.

## 4. Runs

| run | instance | what it shows |
|---|---|---|
| `worker_serial` | 2 workers, one activation of `run()` each, 1 item, 2 grants | stop and forced stop in every await, a lease lost to the other worker, heartbeats against completion, liveness after a stop; the source they share keeps the promise of `ExclusiveWork` |
| `worker_overlap` | 1 worker, overlapping `drain()` and `handleOne()`, 2 items, remote source with faults | `AccountsHold`: counters add up and claim nothing the source lacks |
| `sessions` | a first run and two follow-ups, one stream opened again and again, calls one at a time | `RecordHolds` (the durable log is a prefix of the provider's, delivery is in order, statuses agree), decisions, and everything settles |
| `agent_loop` | 3 iterations, at most 4 calls, budgets of 3 calls and 2 at a time, 1 slot, 1 retry, a provider and a fallback | governance of tool calls, budgets, slots, cancellation at every await, and that a run ends |
| `mcp_client` | a `callTool()` and a `listTools({refresh: true})`, lists with a harmless, a forbidden and no tool, one change by the server, invalidation by the application | nothing outdated is cached, returned or shared; fetches are shared; a call goes out as it was judged |
| `realtime` | two event streams one after the other, one `close()`, one `update()`, one send, two events given, one edit of the tool, one package frame | commands reach the provider in order; no stream answers a call twice; no approval outlives its dispatch; a handler runs only as it is permitted |
| `codex` | a start, two messages, a cancel, a close, one stream, one approval name, in six loads | requests settle, streams are complete, requests of the app-server are answered once, the live turn is known, `cancel()` settles |
| `model_turns` | some 60 calls over five providers, two turns, two retries, reads of up to 4 tokens, a timeout | what reaches the wire is what was asked and what the package allows; a streamed answer is the whole one; tokens are billed once; guarded thinking stays below its prefix; turns end |
| `scheduled_runs` | two passes, four schedules, one fault, the clock at 0, 40 and 80 minutes | windows run once; what counts as run is in the file; saves reach it in order, whatever a crash leaves of a line; due windows are run |
| `session_lost_decision`, `session_follow_up`, `mcp_stale_hit` | overlapping calls, an attentive application, or the instance of `mcp_client` | the disagreements of section 7 |

Bounds. `MaxClaims` bounds leases: two suffice for an item to be lost to another worker while
its first holder goes on, three for every stale-lease case of the source. `LeaseMs` is 1 or 2
ticks: alive, about to expire, expired. Two items make the order of claims and overlapping calls
matter. Two workers, or two activations of one, are the least that interleave. `Invocations`
bounds follow-ups: the second one begins after a completed, a failed and a cancelled session.
One approval per invocation, decided either way. Sequences are bounded by those numbers.
In `agent_loop` one slot for two parallel calls makes a call wait; a budget of 3 is exceeded by a
second turn of two; three iterations leave room for a retry after a turn with calls; two
candidates and a state of the first, of neither or absent cover every skip.
In `mcp_client` the caller of a tool may fetch, be invalidated, and look again while the other
refreshes: four fetches. One change of the list and one invalidation by the application give three
generations, so an answer can be one or two generations late; the server starts with a list that
has the tool. A timer or a signal may give any request up, the process may exit at any time.
In `realtime` two events are given: two tool calls to one stream, or one call to each of two streams,
the same or another; two streams, of which the second may be given what the first carried out, are
also a stream left and opened again. The close races the sends and results, and `update()` repeats. In `codex` the loads keep the calls that do not meet apart: two follow-ups, with and
without a stream; one follow-up that crosses a cancel, with a stream; a cancel with a notification,
an approval and a stream; a cancel and a close,
with a stream or with two requests of the app-server. A refused spec and a refused task are inputs
too. In `model_turns` the calls are chosen so that every provider, each layer of configuration,
the controls that conflict with a model or with `extra`, every hosted kind and three packages
occur; a response has up to three blocks of two pieces, its tokens cut anywhere into reads, line
ends included. The second turn replays the state of the first, under the same or other conditions.
In `scheduled_runs` the zone of the cron schedule is set back by an hour at minute 30, so that its
hour comes twice; the last schedule never occurs and ends every pass. One fault is a failed append
or a restart, either with any part of a line written, the whole of it without its end included, or
a partial read, or a refusal of the policy. `SearchLimit` stands for the
366 days of the code and is longer than the model's month.
`CHECK_DEADLOCK FALSE` is set where the program may rest: an application that does nothing more.

Fairness. Settled promises are continued and the heartbeat interval fires (weak fairness of each
activation's continuations and beats): Node runs its event loop. No fairness is given to
handlers, poll timers, decisions, cancellations or the application. In `FairSpec` of
`AgentSessions` runs go on unless they wait for a decision, and a consumer goes on pulling or
leaves; `Attentive` adds an application that reopens its stream and does not always leave it at
once, needed only to show that even then a follow-up is not persisted.
In `AgentLoop` the policy and the model answer, settled promises are continued and the tool timers
fire; a handler need not settle, an approver need not decide, nobody has to cancel. `RunEnds`
therefore excludes a run that waits for ever for a decision.
In `CodexSession` sends and a close of the transport settle, requests are answered or the connection fails,
the grace timer fires, and a consumer pulls or has left; no fairness makes a turn complete, so
`CancelSettles` rests on the grace period alone. In `ModelTurns` the timeout fires, a sleep between
attempts ends, an aborted fetch or read rejects, and the caller takes what was decoded; the
service need never answer. In `ScheduledRuns` the host keeps calling `runDue()` and each pass goes
on, by weak fairness of `PassStep` (a disjunction of which one step at a time is enabled), and the
file system does what it is asked (`LineAdded`); nothing makes time pass, and a policy refuses only as a
counted fault. `realtime` states no liveness: its runtime has no timer, and a rejected send stops
it for good (section 7).

## 5. Proofs

Checked by TLAPS for every value of the constants.

`EnvironmentWorker_proofs`, the source. The inductive invariant `SourceInv` is the typing together with
`LeaseNamesOneItem`: the uniqueness of lease ids needs that an item has an id only while leased
and that ids do not exceed `sequence`. `LeasesConserved` counts finite sets: each step moves one
item between the leased, finished and reclaimed sets. `SourceKeepsPromise` maps every method to
a step of `ExclusiveWork` or a stutter, using `SourceInv`.

The workers. `WorkersUseTheSource` shows that a step of the workers is a step of
the source or leaves it alone, which carries the source's theorems over
(`WorkersKeepPromise`). It rests on `WorkerInv`: the lease a call holds was issued.
`AccountsAreTrue` covers overlapping activations and a remote source: `AccountInv` adds that `stop()` wakes only a call that sleeps, that what the source
will report is known only to the call that waits for it, and that the credits of the counters are
finite; the steps then move one call from accepted to credited, or give the source a result. For workers
whose activations do not overlap (`SerialWorkers`) three more results hold: a forced stop is
seen (`InterruptAimed`: `interruptCurrent` points at the handling call), a stop is not slept
through (`WakeAimed`: `wakePoll` points at the sleeping call), and the status is truthful. TLC
refutes the first and last without that assumption, which is why it is stated.

`AgentSessions_proofs`. Typing for any overlap (`SessionInv` adds that a stream's index lies in
the log, and needs that the log only grows). `ActionsAreApproved` needs `ApprovalInv`: a wait
that settled approved stands for an approval, and a wait cancelled before its decision stays so.
`JobsDoNotReject` holds when calls do not overlap: at most one job is active (`OneRun`), and a
completed session has none, so the catch never meets a terminal status.
`RecordsAgree`, `DecisionsAreDurable` and `DurableStatusesAreFinal` assume the same (`Overlap =
FALSE`; without it the run `session_lost_decision` refutes the second). They rest on `RecordInv`: a
stream rests while a call is under way (`OneAtATime`), whoever has loaded a copy and has yet to
save it holds what is stored (`ViewsCurrent`), the stored log is a prefix of the provider's and each
stream stands in it (`DurablePrefix`, `StreamsStand`), an approval the snapshot knows was requested
in its log (`ApprovalsStored`), the stored status excludes the events that would contradict it
(`StatusRecorded`), no event is logged twice (`LogOnce`), and a status that ended has its event in
the log (`StatusLogged`).

`AgentLoop_proofs`. `RunInv` has three parts. `LoopInv` says where the counters `answered <=
granted <= issued` stand at each place of the loop, what the budgets let through, and that the
candidate asked suits the conversation's state. `CallsInv` says that only while the results of a
turn are awaited, or after a cancelled one, is an unanswered call anything but idle, and that the
queue holds exactly the waiting calls. `SlotsInv` adds to the capacity the calls that were woken
and have not yet taken their slot: without them the bound on `active` is not inductive. From
these follow the typing, the slots, the budgets, `InterruptedTurnNotAnswered`,
`StaysWithProvider`, and that every step is a step of `GovernedRun` or a stutter.

`McpClient_proofs`. The argument has five layers, each used by the next. `Typed` adds to the types
that whoever awaits a fetch has joined one. `OneFetchInv`: the pending fetch is exactly the one
that runs in the current generation (`FetchesAreShared`). `Looks`: a caller that has yet to look
has started no fetch, and one that looks again has its tool; hence a fetch, once over, is never
restarted. `Idle`: nothing is under way for a requester that does not wait. From these a list object,
once made, says the same for ever (`MadeStays`). `Versions` then says that a list served in the
current generation, read or still under way, is newer than what the client was told of
(`AnswersAreNotOlder`), and `Judged` that between the verdict and the request the caller's
descriptor is one the boundary permits (`CallsGoAsJudged`). `IdentitiesAreKept` needs none of it.

`RealtimeSession_proofs`. `SentInv` says where the chain stands (`ChainInv`: what reached the
transport is the fulfilled prefix of what was accepted, and at most one send more), that a
command bears its place and a result its stream and the number of an event that stream was given,
that what was accepted twice was rejected the first time, and that a stream, which is given no
event twice, has one unrejected result for its call, the one it awaits (`CallsInv`).
`CommandsGoInOrder` and `CallsAnsweredOnce` follow for any number of streams and closers, because
nothing is sent after a rejected send. That is once for each stream: that two streams answer a call
is not excluded by the code (section 7), nor by the model. With one stream at a time (`SerialStreams`, which TLC needs
too) `KeysInv` gives the approval keys exactly: the one of the dispatch under way, or none
(`ApprovalsForgotten`). `JudgedInv` holds what each place of a dispatch owes to the package, the policy (`Permitted`) and
the approval; with keys that tell definitions apart, which `HandlersRunAsPermitted` assumes, a
handler runs only as it is permitted: granted by the package at that moment, let pass by the policy
unless the package had refused what was judged, approved whoever asked, and the very definition that
was judged where the package asks for an approval. Where it does not, section 7 says what may run.

`CodexSession_proofs`. `HeldInv`: a held approval names the last request of its name and that one
has no answer yet; hence `RequestsAnsweredOnce`. `PendingInv` ties pending requests to the flags of
the connection; hence `RequestsAreSettled`. `LiveTurnIsKnown`, for messages that do not overlap
(`SerialSenders`): `TurnLives` says that a turn goes on from its request to its completion, that a
completion in the log is of a turn that is over, and that a call begins a turn only when no
returned one goes on. `StreamsDeliverTheirTurn` needs no such assumption. `StreamInv` says that
nobody streams before the first turn began (`SessionOpens`), that a stream's position, cursor and batch
lie in the log (`StreamsInLog`), and what ended a session: an event that tells of it, a `close()`, or a
`cancel()` of a turn that is complete (`OverTold`). The last case came from the proof: without it
`OverTold` is not inductive, and TLC, given a follow-up that crosses a cancel, showed that a stream
can indeed end in silence. `StreamsComplete` names that case (section 7).

`ScheduledRuns_proofs`. `DueGrows`: the latest window of a schedule is never set back by a later
look at the clock, by the existence of greatest elements of bounded sets. `OnceInv` says, while
passes have not overlapped, that the last window of a schedule was due at a clock no later than
that of the one pass, and that no run lies beyond it; `Linked` that a call on the store is the run
of a pass and is in the chain of writes once. Then a pass that stops at a window other than the
last one stops at a later one, and `WindowsRunOnce` follows. It assumes that schedules have distinct
ids (`DistinctIds`), since `last` knows them by nothing else.

`WritesKeepOrder` (same module) holds for any host. `StoreInv`: what waits in the chain is what comes
next among the saves (`ChainNext`), and a line without its end is one that the store was made on, and
is then its last, or one that a failed append left (`CutFirst`): a failed append rejects the chain for good,
so no later line covers the gap. `gap` remembers that the store was made on such a line, to which its
first save is joined (`Joined`); every other save is a line of its own, in its place.
`SkippedRunsAreLogged` assumes `DistinctIds`. `LogInv`: a call is about the window of its pass
(`CallsOfPasses`), a line that waits has the event of its call (`ChainOfPasses`), the schedule of two
passes that run it at once is in `clashed` (`ClashesSeen`); for every other one, a line that waits has
all that the file has of its session, and what was answered, or counts as run (`Answered`), is in the
file and in all that waits (`Stays`), unless it was lost in the first save behind a line without
its end (`FirstLost`); before that save nothing has been answered (`CutFresh`), so no other schedule
has anything to lose by it (`NothingUndone`).

`ModelTurns_proofs`. `TurnInv`: from the dispatch until the response comes, what is sent is built of a
call that `Sendable` accepts in the frames of the turn, however often it is retried (`RequestBuilt`),
and the guard of every state the caller holds was recorded (`GuardsRecorded`). The three theorems
then speak of `Sendable` and the builders alone, by lemmas on partial functions: which fields of an
overlay (`++`) are those of which part. `ReplaysAreGuarded`: the fields an adaptive Claude gets on top
are not those of the fingerprint, so the body that is sent has the digest that was checked.
`PackagesBoundRequests`: an accepted hosted tool is one that runs here or an allowed search, and no
builder turns it into another, where Anthropic needs the capability check to refuse the rest.
`ControlsReachTheWire`: the controls of the request are those of the strongest layer
(`LayersCollected`), `extra` collides with none of them, and a control a provider has no field for
is not supported. It assumes of the calls that they have the fields of a request (`CallsAssumption`).

`AnswersDecodedAsWhole` (same module) holds for responses of any length and every way a body is cut
into reads. `DecodedAsWhole` alone says nothing before a turn has ended, so `StreamInv` describes every
phase: the body has been read up to some token, whose place in its line and block is known (`Place`,
`Shaped`), m messages have been parsed and k of them mapped, those between are pending, and
`Stage` of the provider's dialect says what its mapper has gathered after k payloads. Two
halves carry the proof. *Reading* (`ReceivedStands`): a read that stops anywhere, also between the CR
and the LF of one line end or between the two line ends of a block, yields the messages it
completes and leaves a buffer from which the next read goes on as if nothing had been cut. What
is normalised twice is normalised once, and `split` after the last boundary agrees with
scanning to it. *Mapping*: each payload moves the stage of its dialect one on, within a block, to the
next block, or to the last reports; at the last stage the answer is that of `WholeAnswer`. For OpenAI
this needs `response.completed` to report the same items again without adding any, hence distinct ids;
for Anthropic that the arguments of a call are gathered apart until its block stops.

`AnswersPricedOnce` follows: the usage of an answer is that of the whole response (`WholeUsage`), every
row of the bundled tables has the rates that its kind of tokens needs (`RatesTyped`), and the cost of
these counts is the bill (`EstimateIs`), rounded up by less than one increment.

Both assume what a service answers (`ResponsesAssumption`, evaluated by TLC for the responses of the run):
items of OpenAI have distinct ids; counts of input and output are positive, since
Anthropic's first report counts one token of output and the model tells a chunk of Gemini without
usage by its zero input; and cached tokens are within the input, but for Anthropic, which counts
them apart. The three dialects cover xAI, which speaks that of OpenAI. The proof goes through a
body as long as the response makes it, by the invariant and not by induction over data: the
recursion in `SseStream`, `StreamDecoding` and `Collections` is that of functions on `0 .. n`, whose
equations are proved first (`ScansEquation`, `GeminiEquation`, `ReportsEquation` and those of `Joins`).

Only model-checked: everything under fairness (`StopEndsCalls`, `BeatsNoticeLoss`,
`CancelledSessionsSettle`, `SettledStreamsEnd`, `RunEnds`, `CancelSettles`, `TurnsSettle`, `DueRuns`), because the
prover does not handle ENABLED.

## 6. Not modelled

See `components` in `PROJECT.json`. Within the modelled files: idempotency keys, artifacts,
`run()` and permission frames of the session runtime; provider state and adopted sessions of the
local provider; in the agent loop hosted tools, package permission frames, tools loaded during a
run, arguments modified by an approver and a stream its reader abandons; tool calls of one
`ToolRuntime` that are not made together; in the MCP client what descriptors, schemas, scopes and
contents say, a trust policy that changes its mind about a list, `close()`; HTTP requests settle
like those of the stdio transport, without their wire format; in the realtime runtime
`reconnect()`, sequence numbers and the stored session; in the Codex provider artifacts and the
framing of lines; in the model runtime the response cache, structured output and events to sinks;
media contents, the wording of requests and the fields of a body no check reads; contents of
OpenAI's output items other than messages, whose text both ways of reading a response would add; additional
prices of an application and floating point; the event store and the SQLite stores, whose calls are
transactions; months of the calendar; logging and error texts everywhere. Work payloads are opaque.

Whole components that are left out: planning, output validation, skills, workspace agents (pure
conversions of data or files), workspaces (file and process I/O by one owner), observability
(told of events, feeds nothing back), the response cache (one map, one caller at a time), the MCP
server and toolset (no state of their own), and the cloud agents provider (a client behind the
session contract that is modelled twice already).

## 7. Disagreements found

* **A decision can be lost** (`session_lost_decision`). `agent-sessions.ts:89-91` says the refresh
  keeps the stream from overwriting a concurrent durable decision. The refresh and the save are
  two awaited calls, and a decision saved between them is overwritten.
* **A cancellation can be taken back** (no run of its own: the same overlap). `docs/SPEC.md:54-57` and
  `CHANGELOG.md:35` call cancellation terminal. `approve()` saves the snapshot it loaded as a
  whole (`agent-sessions.ts:191-197`): if the stream persisted `session.cancelled` in between, the
  save undoes it.
* **Follow-ups are not persisted** (`session_follow_up`). After a stored `run.completed` the
  snapshot is terminal and `streamSession()` returns before asking the provider.

* **A cache hit can fail** (`mcp_stale_hit`). `mcp/client.ts:131-133` says that after an
  invalidation older callers may finish with their original response. A caller that found the cache
  fresh awaits its `MCP_TOOLS_CACHE_HIT` event and then reads `this.toolsCache.tools` again: if the
  list was invalidated meanwhile, `toolsCache` is undefined and the call throws a `TypeError`.

The first two need calls that overlap a stream; when calls are made one at a time the `sessions`
run shows both properties to hold.

Two more have no run. The comment of `assertPackagePermits()` (`mcp/client.ts:276-291`) says that
a descriptor swapped between decision and dispatch is refused.
The comparison is made at the decision; between it and the request the `MCP_CALL_STARTED` event and
the token are awaited, and a list replaced there is not noticed. `CallsAsJudged` states what does
hold: the call that goes out is the one that was judged.

And `codex-app-server.ts:336` says that `cancel()` interrupts the active turn; it reads
`current_turn_id` (346) before its awaits. While the `turn/start` of a follow-up is under way that is
the completed turn before it: nothing is interrupted, no `session/cancelled` is appended (365), and
`sendMessage()` returns with a turn that was started over a connection that is closed. A stream of
that turn ends in silence, which `StreamsComplete` therefore exempts.

Facts of the newer modules, most of them met while a property was being stated; none has a run.

Realtime (`runtime/realtime-runtime.ts`).
* After one rejected send every later send and `close()` reject, and the provider is never closed.
* Two event streams that each carry out an approved call leave an approval key behind (560-566,
  against the comment at 551-552): hence `SerialStreams`.
* A definition swapped while an approval is pending is not always refused. The comments at 394-397,
  and at `runtime/agent-loop.ts:557-563`, say that it is, "whoever asked". `ToolRuntime.call()`
  (`tools/runtime.ts:82-86`) refuses what the package denies, or asks an approval for and has none;
  what the registry holds by then runs if the package allows it outright. So a swap passes when the
  user policy alone asked, and also when the package asked about a definition that was replaced by an
  allowed one. Nobody has then approved the handler that runs. `RunsAsPermitted` says what does hold:
  this call was approved, and what needs the package's approval is what was judged.
* A denial is not bound to its definition either. The package's refusal is left to the dispatch and the
  user policy is not asked (`realtime-runtime.ts:380-386`). A definition that is replaced before the dispatch by one
  the package allows runs without the policy having seen it.
* Every `events()` calls `transport.events()` anew and its `after_event_id` is ignored
  (`providers/duplex-realtime.ts:51-59`). Where the transport yields an event again, two streams, or one
  left and opened again, both carry out and answer its call. `AnsweredOnce` is therefore about one stream.
* `reconnect()` keeps neither policy, approval manager nor tool context. A package denial skips the
  policy of the application. A tool call without a name, or in automatic mode without tools, is
  never answered. `connect()` reads `configured.provider` alone as the reference, so a provider and
  an unqualified model set apart do not connect, unlike in `ModelRuntime`.

Codex (`providers/codex-app-server.ts`).
* A reader that fails during the grace period of `cancel()` has both `session/failed` and
  `session/cancelled` appended (comment at 347-349); two `cancel()` append two cancelled events.
* A stream opened while a follow-up's `turn/start` is awaited has no target and ends at once
  (doc comment at 241-242). A rejected `transport.close()` leaves pending requests hanging (502). A
  request rejected while its send is awaited is an unhandled rejection. A late `approve()` decides the
  newer of two approvals of one name.

Models.
* `buildResponsesRequest()` (`responses-provider.ts:113-137`) sends neither `verbosity` nor
  `tool_search`, which the profile (394-395) calls supported; `docs/plans/archive/initial-parity-plan.md:256`
  has "No public request field can be silently ignored.". `SentAsAsked` is about the controls that are sent.
* The native history of a streamed Anthropic turn has only the blocks as they started, without
  their contents, unlike that of a whole message. `DecodedAsWhole` compares kinds of blocks for that reason.
* A read that ends between CR and LF makes an empty line (`http.ts:79`), harmless unless a message has
  two data lines; a block whose first line is a comment is dropped whole.
* OpenAI and Anthropic streams that end early finish without `model.completed`, and `turn()` returns the
  partial text; Gemini completes with a null reason. A timeout after the completed event makes
  `run()` reject and the state is lost. Leaving a stream early neither cancels the reader nor aborts the fetch.
* The profiles `high_reliability` and `eval_run` set `parallel_tool_calls`, which Anthropic and Gemini
  refuse; `output_schema` and `output_strategy` of a configuration reach no request; a nested control that
  differs from a profile default is refused.
* Gemini replays the native history of any provider unchecked. The sleep between retries ignores the
  signal; chat-completions adapters neither retry nor mind the caller's signal.
* Thinking tokens of Gemini are not in `output_tokens`, and no bundled rate prices reasoning.

Schedules and the JSONL store.
* Overlapping passes run a window twice, and a slow older pass can set `last` back so that a newer
  window runs again (`schedules/index.ts:87`): hence the condition of `RunsOnce`.
* An expression that is invalid, or has no occurrence within a year, throws and ends every pass before
  the later schedules: hence `Reached` in `DueRuns`. Intervals are anchored at `since`: a host that moves
  `since` and polls more often than the interval never runs it. An hour that comes twice fires twice.
  Denied windows are not recorded and are asked about again.
* A crash may leave a whole record without its line end, since `appendLine()` (`persistence/jsonl.ts:66`) writes
  both at once and nothing repairs the file. `readLines()` (79-81) still reads that record. The next append, of
  a new store, resolves, but its record is joined to the old one: both are lost, and the file is
  unreadable from then on, although a run counts as run.
  `docs/plans/archive/initial-parity-plan.md:381` asks for "JSONL event/session stores with atomic append
  and corruption handling.". Hence `FirstLost` in `RunsAreLogged` and `Joined` in `WritesInOrder`, the narrowest
  exceptions under which both hold.
* A failed append rejects every later save and `list()` of the store; a torn last line makes the file
  unreadable for good; overlapping `appendEvent()` of one session lose an event: hence `Lost` and
  `clashed`.
