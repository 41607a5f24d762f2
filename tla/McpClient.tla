----------------------------- MODULE McpClient -----------------------------
(***************************************************************************)
(* MCPClient (src/src/mcp/client.ts): callers of listTools() and           *)
(* callTool() that share one cached tool list and one pending tools/list,  *)
(* while the server changes its tools and says so.                         *)
(*                                                                         *)
(* A caller or a fetch runs from one await to the next; at[r] names the    *)
(* await it is in:                                                         *)
(*                                                                         *)
(*   looking   resumes in listTools()     trusting  assertTrusted(tool)    *)
(*   hit       emit(CACHE_HIT)            judging   trust of each tool     *)
(*   shared    pendingTools               reporting emit(COMPLETED)        *)
(*   token     all before the transport   asked     transport.request      *)
(*                                                                         *)
(* A list stands for its tools that the server spec and the trust policy   *)
(* leave visible; a list object is named by the fetch that built it.       *)
(***************************************************************************)
EXTENDS Integers, Sequences

CONSTANTS
    Callers,        \* each makes one call of listTools() or callTool()
    Wants,          \* bound: what the callers may want, together
    Lists,          \* what tools/list can say
    Offering,       \* the lists that have the tool
    Permitted,      \* the lists whose descriptor the package boundary permits
    MaxChanges,     \* bound: how often the server changes its tools
    MaxGenerations, \* bound: how far invalidateTools() by the application counts
    NoTools

ASSUME ListsAssumption == Offering \subseteq Lists /\ Permitted \subseteq Lists
ASSUME BoundsAssumption == MaxChanges \in Nat /\ MaxGenerations \in Nat

\* A caller looks for the list once, and once more when the cache was dropped
\* while its trust was evaluated; each time it may have to fetch.
Fetches == Callers \X {1, 2}

ASSUME NamesAssumption == Callers \cap Fetches = {} /\ NoTools \notin Fetches

Requesters == Callers \cup Fetches
Replies == {"ok", "error", "challenge"}
Operations == {"list", "refresh", "call"}
ASSUME WantsAssumption == Wants \subseteq [Callers -> Operations]

Places == {"ready", "looking", "hit", "shared", "trusting", "token", "asked", "judging",
           "reporting", "done", "failed", "crashed"}

VARIABLES
    alive, pending, wire, answer,   \* the transport
    lists,          \* the server's lists so far, the current one last
    heard,          \* how many of the changes the client was told of
    initialized,    \* initializedVersion !== undefined
    generation,     \* toolsGeneration
    cache,          \* toolsCache.tools
    fresh,          \* toolsCache.expires > now()
    pendingTools,
    bounded,        \* a package boundary is active
    at,
    op,             \* op[c]: what caller c wants
    retried,        \* retried[r]: its request was repeated with a new token
    again,          \* again[c]: the caller looks in assertPackagePermits()
    joined,         \* joined[c]: the fetch it awaits
    tools,          \* tools[c]: the list it resolved its tool from, or returned
    known,          \* history: known[c] is what the client had heard when c looked
    born,           \* born[f]: the generation the fetch was started in
    served,         \* served[f]: the length of lists when the server answered it
    built           \* built[f]: the list object the fetch resolves to

INSTANCE McpTransport

transportVars == <<alive, pending, wire, answer>>
clientVars == <<initialized, generation, cache, fresh, pendingTools, bounded>>
serverVars == <<lists, heard>>
callerVars == <<op, again, joined, tools, known>>
fetchVars == <<born, served, built>>
vars == <<transportVars, clientVars, serverVars, at, retried, callerVars, fetchVars>>

TypeOK ==
    /\ TransportTypeOK
    /\ lists \in Seq(Lists) /\ Len(lists) \in 1..(MaxChanges + 1)
    /\ heard \in 0..MaxChanges
    /\ initialized \in BOOLEAN /\ bounded \in BOOLEAN /\ fresh \in BOOLEAN
    /\ generation \in Nat
    /\ cache \in Fetches \cup {NoTools}
    /\ pendingTools \in Fetches \cup {NoTools}
    /\ at \in [Requesters -> Places]
    /\ op \in [Callers -> Operations]
    /\ retried \in [Requesters -> BOOLEAN]
    /\ again \in [Callers -> BOOLEAN]
    /\ joined \in [Callers -> Fetches \cup {NoTools}]
    /\ tools \in [Callers -> Fetches \cup {NoTools}]
    /\ known \in [Callers -> 0..MaxChanges]
    /\ born \in [Fetches -> Nat]
    /\ served \in [Fetches -> 0..(MaxChanges + 1)]
    /\ built \in [Fetches -> Fetches \cup {NoTools}]

Init ==
    /\ TransportInit
    /\ lists \in {<<l>> : l \in Offering}     \* bound: the tool is offered at first
    /\ heard = 0
    /\ initialized = FALSE
    /\ generation = 0
    /\ cache = NoTools
    /\ fresh = FALSE
    /\ pendingTools = NoTools
    /\ bounded \in BOOLEAN
    /\ at = [r \in Requesters |-> "ready"]
    /\ op \in Wants
    /\ retried = [r \in Requesters |-> FALSE]
    /\ again = [c \in Callers |-> FALSE]
    /\ joined = [c \in Callers |-> NoTools]
    /\ tools = [c \in Callers |-> NoTools]
    /\ known = [c \in Callers |-> 0]
    /\ born = [f \in Fetches |-> 0]
    /\ served = [f \in Fetches |-> 0]
    /\ built = [f \in Fetches |-> NoTools]

Goes(r, place) == at' = [at EXCEPT ![r] = place]

\* What the list object o says.
Content(o) == lists[served[o]]

-----------------------------------------------------------------------------
(* listTools(), up to the list. *)

\* A client that is not initialised asks for the trust and a token first.
Begin(c) ==
    /\ at[c] = "ready" /\ ~initialized
    /\ Goes(c, "token")
    /\ UNCHANGED <<transportVars, clientVars, serverVars, retried, callerVars, fetchVars>>

FetchOf(c) == <<c, IF again[c] THEN 2 ELSE 1>>

\* The list is taken from the cache while it is fresh, else from the pending
\* fetch, else from a new one.
Look(c) ==
    /\ at[c] = "looking" \/ (at[c] = "ready" /\ initialized)
    /\ known' = IF again[c] THEN known ELSE [known EXCEPT ![c] = heard]
    /\ \/ /\ op[c] # "refresh" /\ cache # NoTools /\ fresh
          /\ Goes(c, "hit")
          /\ UNCHANGED <<pendingTools, joined, born>>
       \/ /\ ~(op[c] # "refresh" /\ cache # NoTools /\ fresh)
          /\ IF pendingTools # NoTools
             THEN Goes(c, "shared") /\ UNCHANGED <<pendingTools, born>>
             ELSE /\ pendingTools' = FetchOf(c)
                  /\ born' = [born EXCEPT ![FetchOf(c)] = generation]
                  /\ at' = [at EXCEPT ![c] = "shared", ![FetchOf(c)] = "token"]
          /\ joined' = [joined EXCEPT ![c] = pendingTools']
    /\ UNCHANGED <<transportVars, serverVars, initialized, generation, cache, fresh, bounded,
                   retried, op, again, tools, served, built>>

\* Mutant of Decide: the caller's own descriptor is not compared.
DecideUnpinned(c, o) ==
    IF Content(o) \in Offering \cap Permitted
    THEN Goes(c, "token") ELSE Goes(c, "failed")

\* The verdict on the descriptor of o, and the pin to the caller's own.
Decide(c, o) ==
    IF Content(o) \in Offering \cap Permitted /\ o = tools[c]
    THEN Goes(c, "token") ELSE Goes(c, "failed")

\* listTools() returns o: to its caller, to callTool(), or to
\* assertPackagePermits().
Got(c, o) ==
    IF again[c] THEN Decide(c, o) /\ UNCHANGED tools
    ELSE /\ tools' = [tools EXCEPT ![c] = o]
         /\ Goes(c, IF op[c] # "call" THEN "done"
                    ELSE IF Content(o) \in Offering THEN "trusting" ELSE "failed")

gotFrame == <<transportVars, clientVars, serverVars, retried, op, again, joined, known,
              fetchVars>>

\* The cache is read again after the await.
Hit(c) ==
    /\ at[c] = "hit"
    /\ IF cache = NoTools THEN Goes(c, "crashed") /\ UNCHANGED tools ELSE Got(c, cache)
    /\ UNCHANGED gotFrame

Shared(c) ==
    /\ at[c] = "shared"
    /\ \/ at[joined[c]] = "done" /\ Got(c, built[joined[c]])
       \/ at[joined[c]] = "failed" /\ Goes(c, "failed") /\ UNCHANGED tools
    /\ UNCHANGED gotFrame

\* Trust was granted.  Inside a package boundary the descriptor is looked up
\* again: in the cache, even an expired one, or with listTools().
Trusted(c) ==
    /\ at[c] = "trusting"
    /\ IF ~bounded THEN Goes(c, "token") /\ UNCHANGED again
       ELSE IF cache # NoTools THEN Decide(c, cache) /\ UNCHANGED again
       ELSE Goes(c, "looking") /\ again' = [again EXCEPT ![c] = TRUE]
    /\ UNCHANGED <<transportVars, clientVars, serverVars, retried, op, joined, tools, known,
                   fetchVars>>

-----------------------------------------------------------------------------
(* request(), of the callers and of the fetches. *)

Calling(c) == tools[c] # NoTools

\* The token is there and the request is written.
Send(r) ==
    /\ at[r] = "token"
    /\ Request(r)
    /\ Goes(r, "asked")
    /\ UNCHANGED <<clientVars, serverVars, retried, callerVars, fetchVars>>

\* An authentication challenge is answered once, with another token.
Challenged(r) ==
    /\ at[r] = "asked" /\ answer[r] = "challenge" /\ ~retried[r]
    /\ Goes(r, "token")
    /\ Take(r)
    /\ retried' = [retried EXCEPT ![r] = TRUE]
    /\ UNCHANGED <<clientVars, serverVars, callerVars, fetchVars>>

\* Mutant of Clears: without the comparison.
ClearsAny(r) == pendingTools' = NoTools

\* The finally() of a fetch: a newer generation's fetch stays.
Clears(r) == pendingTools' = IF pendingTools = r THEN NoTools ELSE pendingTools

\* The request is over, and its requester goes on at a place.
Ends(r, place) ==
    /\ Take(r)
    /\ retried' = [retried EXCEPT ![r] = FALSE]
    /\ Goes(r, place)

\* An await throws: trust or a token is refused, an event listener fails, the
\* request is rejected, or its answer is an error or not what can be accepted.
GivesUp(r) ==
    /\ \/ at[r] \in {"hit", "trusting", "token", "judging", "reporting"}
       \/ at[r] = "asked" /\ answer[r] # "none"
    /\ Ends(r, "failed")
    /\ IF r \in Fetches THEN Clears(r) ELSE UNCHANGED pendingTools
    /\ UNCHANGED <<serverVars, initialized, generation, cache, fresh, bounded, callerVars,
                   fetchVars>>

Answered(r) == at[r] = "asked" /\ answer[r] = "ok"

\* initialize() returns to listTools().
Initialized(c) ==
    /\ Answered(c) /\ ~Calling(c)
    /\ initialized' = TRUE
    /\ Ends(c, "looking")
    /\ UNCHANGED <<serverVars, generation, cache, fresh, pendingTools, bounded, callerVars,
                   fetchVars>>

\* tools/call returns.
CallReturns(c) ==
    /\ Answered(c) /\ Calling(c)
    /\ Ends(c, "done")
    /\ UNCHANGED <<clientVars, serverVars, callerVars, fetchVars>>

-----------------------------------------------------------------------------
(* fetchTools(), after tools/list. *)

\* The list is read, and the trust of its tools is asked for.
Reads(f) ==
    /\ Answered(f)
    /\ Ends(f, "judging")
    /\ UNCHANGED <<clientVars, serverVars, callerVars, fetchVars>>

\* The object that stands for the fetched list: the cached one, even expired,
\* when the generation is still the same and the list is too.
Kept(f) ==
    IF born[f] = generation /\ cache # NoTools /\ Content(cache) = Content(f) THEN cache ELSE f

\* Mutant of Stores: the generation is not looked at after the awaits.
StoresAnyway(f) ==
    /\ at[f] = "judging"
    /\ built' = [built EXCEPT ![f] = Kept(f)]
    /\ cache' = Kept(f) /\ fresh' = TRUE
    /\ Goes(f, "reporting")
    /\ UNCHANGED <<transportVars, serverVars, initialized, generation, pendingTools, bounded,
                   retried, callerVars, born, served>>

\* The cache belongs to one generation.
Stores(f) ==
    /\ at[f] = "judging"
    /\ built' = [built EXCEPT ![f] = Kept(f)]
    /\ IF born[f] = generation
       THEN cache' = Kept(f) /\ fresh' = TRUE
       ELSE UNCHANGED <<cache, fresh>>
    /\ Goes(f, "reporting")
    /\ UNCHANGED <<transportVars, serverVars, initialized, generation, pendingTools, bounded,
                   retried, callerVars, born, served>>

\* The event is out: the fetch resolves, and those who share it go on.
Resolves(f) ==
    /\ at[f] = "reporting"
    /\ Goes(f, "done")
    /\ Clears(f)
    /\ UNCHANGED <<transportVars, serverVars, initialized, generation, cache, fresh, bounded,
                   retried, callerVars, fetchVars>>

-----------------------------------------------------------------------------
(* What happens to a client. *)

\* invalidateTools().
Invalidates ==
    /\ generation' = generation + 1
    /\ cache' = NoTools
    /\ pendingTools' = NoTools
    /\ UNCHANGED <<transportVars, initialized, fresh, bounded, at, retried, callerVars, fetchVars>>

\* The application invalidates the list.
InvalidateTools ==
    /\ generation < MaxGenerations
    /\ Invalidates
    /\ UNCHANGED serverVars

\* A list_changed notification is read.
ListChanged ==
    /\ heard + 1 < Len(lists)
    /\ heard' = heard + 1
    /\ Invalidates
    /\ UNCHANGED lists

\* The server gets another list of tools, and will say so.
ChangeTools(l) ==
    /\ Len(lists) <= MaxChanges
    /\ lists' = Append(lists, l)
    /\ UNCHANGED <<transportVars, clientVars, heard, at, retried, callerVars, fetchVars>>

\* The server answers, a tools/list with the list it has.
ServeRequest(r, reply) ==
    /\ Serve(r, reply)
    /\ served' = IF r \in Fetches THEN [served EXCEPT ![r] = Len(lists)] ELSE served
    /\ UNCHANGED <<clientVars, serverVars, at, retried, callerVars, born, built>>

\* cache_ttl_ms passes.
Expire ==
    /\ fresh
    /\ fresh' = FALSE
    /\ UNCHANGED <<transportVars, serverVars, initialized, generation, cache, pendingTools, bounded,
                   at, retried, callerVars, fetchVars>>

\* A fetch has the signal of the caller that started it, whoever shares it.
Transporting ==
    /\ \/ \E r \in Requesters : HandleLine(r) \/ GiveUp(r)
       \/ Exit
    /\ UNCHANGED <<clientVars, serverVars, at, retried, callerVars, fetchVars>>

-----------------------------------------------------------------------------
Next ==
    \/ \E c \in Callers : Begin(c) \/ Look(c) \/ Hit(c) \/ Shared(c) \/ Trusted(c)
                          \/ Initialized(c) \/ CallReturns(c)
    \/ \E f \in Fetches : Reads(f) \/ Stores(f) \/ Resolves(f)
    \/ \E r \in Requesters : Send(r) \/ Challenged(r) \/ GivesUp(r)
                             \/ \E reply \in Replies : ServeRequest(r, reply)
    \/ \E l \in Lists : ChangeTools(l)
    \/ ListChanged \/ InvalidateTools \/ Expire \/ Transporting

Spec == Init /\ [][Next]_vars

-----------------------------------------------------------------------------
(* Properties. *)

Version(o) == served[o] - 1

\* What listTools() returns, and what the cache holds for those who come, is
\* no older than the last change the client had been told of: when the caller
\* looked, and now (client.ts, the generations of listTools()).
AnswersNotOlder ==
    /\ cache # NoTools => Version(cache) >= heard
    /\ \A c \in Callers : tools[c] # NoTools => Version(tools[c]) >= known[c]

\* A call is sent with a tool its caller was shown, and inside a package
\* boundary with the very descriptor the boundary permits, however often the
\* list was replaced while trust and policy were awaited (client.ts,
\* assertPackagePermits()).
CallsAsJudged ==
    \A c \in Callers :
        at[c] = "asked" /\ Calling(c) =>
            /\ Content(tools[c]) \in Offering
            /\ bounded => Content(tools[c]) \in Permitted

\* The fetches that run for the current generation are the one fetch that
\* callers share: nobody fetches beside it, and nobody joins a fetch that is
\* over, whose failure would then be theirs (client.ts, pendingTools).
OneFetchAtATime ==
    \A f \in Fetches :
        pendingTools = f <=> born[f] = generation /\ at[f] \notin {"ready", "done", "failed"}

\* The cached objects are replaced only by a list that says something else:
\* a refresh or an expiry alone never makes a tool look changed (client.ts,
\* the comment of listTools()).
IdentityKept ==
    [][cache # NoTools /\ cache' # NoTools /\ cache' # cache =>
           Content(cache)' # Content(cache)]_vars

\* A caller that found the cache fresh gets a list, though the cache may be
\* dropped while its event is delivered: "older callers may finish with their
\* original response" (client.ts, the comment of listTools()).
HitsReturn == \A c \in Callers : at[c] # "crashed"
=============================================================================
