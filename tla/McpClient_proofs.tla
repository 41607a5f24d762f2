-------------------------- MODULE McpClient_proofs --------------------------
(***************************************************************************)
(* McpClient for any callers, any lists and any number of changes.         *)
(***************************************************************************)
EXTENDS McpClient, TLAPS

-----------------------------------------------------------------------------
(* Typing. *)

LEMMA Named ==
    ASSUME NEW c \in Callers
    PROVE  /\ c \notin Fetches /\ c \in Requesters
           /\ FetchOf(c) \in Fetches /\ <<c, 1>> \in Fetches /\ <<c, 2>> \in Fetches
BY NamesAssumption DEF Fetches, Requesters, FetchOf

\* A caller that awaits a fetch awaits one.
JoinersJoined == \A c \in Callers : at[c] = "shared" => joined[c] \in Fetches

Typed == TypeOK /\ JoinersJoined

LEMMA InitTyped == Init => Typed
<1> SUFFICES ASSUME Init PROVE Typed
    OBVIOUS
<1>1. PICK l \in Lists : lists = <<l>>
    BY ListsAssumption DEF Init
<1>2. lists \in Seq(Lists) /\ Len(lists) = 1 /\ 1 \in 1..(MaxChanges + 1)
    BY <1>1, BoundsAssumption
<1>3. op \in [Callers -> Operations]
    BY WantsAssumption DEF Init
<1>4. 0 \in 0..MaxChanges /\ 0 \in 0..(MaxChanges + 1) /\ 0 \in Nat
    BY BoundsAssumption
<1>5. JoinersJoined
    BY DEF Init, JoinersJoined, Requesters
<1> QED  BY <1>2, <1>3, <1>4, <1>5 DEF Init, Typed, TypeOK, TransportInit, TransportTypeOK, Places

\* Where a caller that got a list goes on.
LEMMA GotLeads ==
    ASSUME Typed, NEW c \in Callers, NEW o \in Fetches \cup {NoTools}, Got(c, o)
    PROVE  /\ tools' \in [Callers -> Fetches \cup {NoTools}]
           /\ \E place \in Places \ {"shared"} : Goes(c, place)
<1>1. CASE again[c]
    BY <1>1 DEF Typed, TypeOK, Got, Decide, Places
<1>2. CASE ~again[c]
    BY <1>2 DEF Typed, TypeOK, Got, Places
<1> QED  BY <1>1, <1>2

\* What it takes for a move of one requester to keep the typing.
LEMMA MoveTyped ==
    ASSUME Typed, NEW r \in Requesters, NEW place \in Places \ {"shared"}, Goes(r, place),
           UNCHANGED joined
    PROVE  at' \in [Requesters -> Places] /\ JoinersJoined'
BY DEF Typed, TypeOK, JoinersJoined, Goes, Requesters

LEMMA CallersTyped ==
    ASSUME Typed, NEW c \in Callers,
           Begin(c) \/ Look(c) \/ Hit(c) \/ Shared(c) \/ Trusted(c)
    PROVE  Typed'
<1> USE DEF transportVars, clientVars, serverVars, callerVars, fetchVars
<1>0. c \in Requesters /\ FetchOf(c) \in Fetches /\ FetchOf(c) \in Requesters /\ c # FetchOf(c)
    BY Named DEF Requesters
<1>1. CASE Begin(c)
    <2>1. at' \in [Requesters -> Places] /\ JoinersJoined'
        BY <1>0, <1>1, MoveTyped DEF Begin, Places
    <2> QED  BY <1>1, <2>1 DEF Typed, TypeOK, TransportTypeOK, Begin
<1>2. CASE Look(c)
    <2>1. UNCHANGED <<alive, pending, wire, answer, lists, heard, initialized, generation, cache,
                      fresh, bounded, retried, op, again, tools, served, built>>
        BY <1>2 DEF Look
    <2>2. known' \in [Callers -> 0..MaxChanges]
        BY <1>2 DEF Look, Typed, TypeOK
    <2>3. CASE /\ Goes(c, "hit")
               /\ UNCHANGED <<pendingTools, joined, born>>
        <3>1. at' \in [Requesters -> Places] /\ JoinersJoined'
            BY <1>0, <2>3, MoveTyped DEF Places
        <3> QED  BY <2>1, <2>2, <2>3, <3>1 DEF Typed, TypeOK, TransportTypeOK
    <2>4. CASE /\ IF pendingTools # NoTools
                  THEN Goes(c, "shared") /\ UNCHANGED <<pendingTools, born>>
                  ELSE /\ pendingTools' = FetchOf(c)
                       /\ born' = [born EXCEPT ![FetchOf(c)] = generation]
                       /\ at' = [at EXCEPT ![c] = "shared", ![FetchOf(c)] = "token"]
               /\ joined' = [joined EXCEPT ![c] = pendingTools']
        <3>1. pendingTools' \in Fetches /\ born' \in [Fetches -> Nat]
            BY <1>0, <2>4 DEF Typed, TypeOK
        <3>2. at' \in [Requesters -> Places] /\ \A d \in Callers \ {c} : at'[d] = at[d]
            <4>1. \A d \in Callers \ {c} : d # FetchOf(c) /\ d \in Requesters
                BY <1>0, NamesAssumption DEF Requesters
            <4>2. \/ at' = [at EXCEPT ![c] = "shared"]
                  \/ at' = [at EXCEPT ![c] = "shared", ![FetchOf(c)] = "token"]
                BY <2>4 DEF Goes
            <4>3. at \in [Requesters -> Places] /\ "shared" \in Places /\ "token" \in Places
                BY DEF Typed, TypeOK, Places
            <4> HIDE DEF Goes
            <4> QED  BY <1>0, <4>1, <4>2, <4>3
        <3>3. joined' \in [Callers -> Fetches \cup {NoTools}] /\ JoinersJoined'
            BY <2>4, <3>1, <3>2 DEF Typed, TypeOK, JoinersJoined
        <3> QED  BY <2>1, <2>2, <3>1, <3>2, <3>3 DEF Typed, TypeOK, TransportTypeOK
    <2> QED  BY <1>2, <2>3, <2>4 DEF Look
<1>3. CASE Hit(c)
    <2>1. /\ tools' \in [Callers -> Fetches \cup {NoTools}]
          /\ \E place \in Places \ {"shared"} : Goes(c, place)
        <3>1. CASE cache = NoTools
            BY <1>3, <3>1 DEF Hit, Typed, TypeOK, Places
        <3>2. CASE cache # NoTools
            BY <1>3, <3>2, GotLeads DEF Hit, Typed, TypeOK
        <3> QED  BY <3>1, <3>2
    <2>2. at' \in [Requesters -> Places] /\ JoinersJoined'
        BY <1>0, <1>3, <2>1, MoveTyped DEF Hit, gotFrame
    <2> QED  BY <1>3, <2>1, <2>2 DEF Hit, gotFrame, Typed, TypeOK, TransportTypeOK
<1>4. CASE Shared(c)
    <2>1. /\ tools' \in [Callers -> Fetches \cup {NoTools}]
          /\ \E place \in Places \ {"shared"} : Goes(c, place)
        <3>1. CASE at[joined[c]] = "done" /\ Got(c, built[joined[c]])
            <4>1. built[joined[c]] \in Fetches \cup {NoTools}
                BY <1>4 DEF Shared, Typed, TypeOK, JoinersJoined
            <4> QED  BY <3>1, <4>1, GotLeads DEF Typed, TypeOK
        <3>2. CASE Goes(c, "failed") /\ UNCHANGED tools
            BY <3>2 DEF Typed, TypeOK, Places
        <3> QED  BY <1>4, <3>1, <3>2 DEF Shared
    <2>2. at' \in [Requesters -> Places] /\ JoinersJoined'
        BY <1>0, <1>4, <2>1, MoveTyped DEF Shared, gotFrame
    <2> QED  BY <1>4, <2>1, <2>2 DEF Shared, gotFrame, Typed, TypeOK, TransportTypeOK
<1>5. CASE Trusted(c)
    <2>1. \E place \in Places \ {"shared"} : Goes(c, place)
        BY <1>5 DEF Trusted, Decide, Places
    <2>2. at' \in [Requesters -> Places] /\ JoinersJoined'
        BY <1>0, <1>5, <2>1, MoveTyped DEF Trusted
    <2>3. again' \in [Callers -> BOOLEAN]
        BY <1>5 DEF Trusted, Typed, TypeOK, Decide
    <2> QED  BY <1>5, <2>2, <2>3 DEF Trusted, Typed, TypeOK, TransportTypeOK
<1> QED  BY <1>1, <1>2, <1>3, <1>4, <1>5

\* The end of a request at a place.
LEMMA EndsTyped ==
    ASSUME Typed, NEW r \in Requesters, NEW place \in Places \ {"shared"}, Ends(r, place),
           UNCHANGED joined
    PROVE  /\ TransportTypeOK' /\ JoinersJoined'
           /\ at' \in [Requesters -> Places]
           /\ retried' \in [Requesters -> BOOLEAN]
<1>1. at' \in [Requesters -> Places] /\ JoinersJoined'
    BY MoveTyped DEF Ends
<1> QED  BY <1>1 DEF Typed, TypeOK, TransportTypeOK, Ends, Take

LEMMA RequestersTyped ==
    ASSUME Typed, NEW r \in Requesters, Send(r) \/ Challenged(r) \/ GivesUp(r)
    PROVE  Typed'
<1> USE DEF transportVars, clientVars, serverVars, callerVars, fetchVars
<1>1. CASE Send(r)
    <2>1. at' \in [Requesters -> Places] /\ JoinersJoined'
        BY <1>1, MoveTyped DEF Send, Places
    <2>2. TransportTypeOK'
        BY <1>1 DEF Send, Request, Typed, TypeOK, TransportTypeOK
    <2> QED  BY <1>1, <2>1, <2>2 DEF Send, Typed, TypeOK
<1>2. CASE Challenged(r)
    <2>1. at' \in [Requesters -> Places] /\ JoinersJoined'
        BY <1>2, MoveTyped DEF Challenged, Places
    <2>2. TransportTypeOK' /\ retried' \in [Requesters -> BOOLEAN]
        BY <1>2 DEF Challenged, Take, Typed, TypeOK, TransportTypeOK
    <2> QED  BY <1>2, <2>1, <2>2 DEF Challenged, Typed, TypeOK
<1>3. CASE GivesUp(r)
    <2>1. Ends(r, "failed") /\ UNCHANGED joined
        BY <1>3 DEF GivesUp
    <2>2. /\ TransportTypeOK' /\ JoinersJoined'
          /\ at' \in [Requesters -> Places]
          /\ retried' \in [Requesters -> BOOLEAN]
        BY <2>1, EndsTyped DEF Places
    <2>3. pendingTools' \in Fetches \cup {NoTools}
        BY <1>3 DEF GivesUp, Clears, Typed, TypeOK
    <2> QED  BY <1>3, <2>2, <2>3 DEF GivesUp, Typed, TypeOK
<1> QED  BY <1>1, <1>2, <1>3

LEMMA ReturnsTyped ==
    ASSUME Typed, NEW c \in Callers, Initialized(c) \/ CallReturns(c)
    PROVE  Typed'
<1> USE DEF transportVars, clientVars, serverVars, callerVars, fetchVars
<1>0. c \in Requesters
    BY Named
<1>1. \E place \in {"looking", "done"} : Ends(c, place)
    BY DEF Initialized, CallReturns
<1>2. /\ TransportTypeOK' /\ JoinersJoined'
      /\ at' \in [Requesters -> Places]
      /\ retried' \in [Requesters -> BOOLEAN]
    BY <1>0, <1>1, EndsTyped DEF Initialized, CallReturns, Places
<1> QED  BY <1>2 DEF Initialized, CallReturns, Typed, TypeOK

LEMMA KeptTyped ==
    ASSUME Typed, NEW f \in Fetches
    PROVE  Kept(f) \in Fetches
BY DEF Kept, Typed, TypeOK

LEMMA FetchesTyped ==
    ASSUME Typed, NEW f \in Fetches, Reads(f) \/ Stores(f) \/ Resolves(f)
    PROVE  Typed'
<1> USE DEF transportVars, clientVars, serverVars, callerVars, fetchVars
<1>0. f \in Requesters
    BY DEF Requesters
<1>1. CASE Reads(f)
    <2>1. /\ TransportTypeOK' /\ JoinersJoined'
          /\ at' \in [Requesters -> Places]
          /\ retried' \in [Requesters -> BOOLEAN]
        BY <1>0, <1>1, EndsTyped DEF Reads, Places
    <2> QED  BY <1>1, <2>1 DEF Reads, Typed, TypeOK
<1>2. CASE Stores(f)
    <2>1. at' \in [Requesters -> Places] /\ JoinersJoined'
        BY <1>0, <1>2, MoveTyped DEF Stores, Places
    <2>2. /\ built' \in [Fetches -> Fetches \cup {NoTools}]
          /\ cache' \in Fetches \cup {NoTools} /\ fresh' \in BOOLEAN
        BY <1>2, KeptTyped DEF Stores, Typed, TypeOK
    <2> QED  BY <1>2, <2>1, <2>2 DEF Stores, Typed, TypeOK, TransportTypeOK
<1>3. CASE Resolves(f)
    <2>1. at' \in [Requesters -> Places] /\ JoinersJoined'
        BY <1>0, <1>3, MoveTyped DEF Resolves, Places
    <2>2. pendingTools' \in Fetches \cup {NoTools}
        BY <1>3 DEF Resolves, Clears, Typed, TypeOK
    <2> QED  BY <1>3, <2>1, <2>2 DEF Resolves, Typed, TypeOK, TransportTypeOK
<1> QED  BY <1>1, <1>2, <1>3

\* What the connection does.
LEMMA TransportTyped ==
    ASSUME TransportTypeOK,
           \/ \E r \in Requesters : HandleLine(r) \/ GiveUp(r)
           \/ \E r \in Requesters, reply \in Replies : Serve(r, reply)
           \/ Exit
    PROVE  TransportTypeOK'
<1>1. ASSUME NEW r \in Requesters, HandleLine(r)
      PROVE  TransportTypeOK'
    BY <1>1 DEF HandleLine, TransportTypeOK, Replies
<1>2. ASSUME NEW R \in SUBSET Requesters, RejectThose(R), alive' \in BOOLEAN
      PROVE  TransportTypeOK'
    BY <1>2 DEF RejectThose, TransportTypeOK
<1>3. ASSUME NEW r \in Requesters, NEW reply \in Replies, Serve(r, reply)
      PROVE  TransportTypeOK'
    BY <1>3 DEF Serve, TransportTypeOK
<1>4. ASSUME NEW r \in Requesters, GiveUp(r)
      PROVE  TransportTypeOK'
    BY <1>2, <1>4 DEF GiveUp, TransportTypeOK
<1>5. CASE Exit
    BY <1>2, <1>5 DEF Exit
<1> QED  BY <1>1, <1>3, <1>4, <1>5

\* What goes on around the callers and the fetches.
Around ==
    \/ \E r \in Requesters, reply \in Replies : ServeRequest(r, reply)
    \/ \E l \in Lists : ChangeTools(l)
    \/ ListChanged \/ InvalidateTools \/ Expire \/ Transporting

LEMMA AroundTyped == Typed /\ Around => Typed'
<1> SUFFICES ASSUME Typed, Around PROVE Typed'
    OBVIOUS
<1> USE DEF transportVars, clientVars, serverVars, callerVars, fetchVars
<1>1. ASSUME NEW r \in Requesters, NEW reply \in Replies, ServeRequest(r, reply)
      PROVE  Typed'
    <2>1. TransportTypeOK'
        BY <1>1, TransportTyped DEF ServeRequest, Typed, TypeOK
    <2>2. served' \in [Fetches -> 0..(MaxChanges + 1)]
        BY <1>1, BoundsAssumption DEF ServeRequest, Typed, TypeOK
    <2> QED  BY <1>1, <2>1, <2>2 DEF ServeRequest, Typed, TypeOK, JoinersJoined
<1>2. ASSUME NEW l \in Lists, ChangeTools(l)
      PROVE  Typed'
    <2>1. lists' \in Seq(Lists) /\ Len(lists') = Len(lists) + 1
        BY <1>2 DEF ChangeTools, Typed, TypeOK
    <2>2. Len(lists') \in 1..(MaxChanges + 1)
        BY <1>2, <2>1, BoundsAssumption DEF ChangeTools, Typed, TypeOK
    <2> QED  BY <1>2, <2>1, <2>2 DEF ChangeTools, Typed, TypeOK, TransportTypeOK, JoinersJoined
<1>3. CASE ListChanged
    <2>1. heard' \in 0..MaxChanges
        BY <1>3, BoundsAssumption DEF ListChanged, Typed, TypeOK
    <2> QED  BY <1>3, <2>1 DEF ListChanged, Invalidates, Typed, TypeOK, TransportTypeOK, JoinersJoined
<1>4. CASE InvalidateTools
    BY <1>4 DEF InvalidateTools, Invalidates, Typed, TypeOK, TransportTypeOK, JoinersJoined
<1>5. CASE Expire
    BY <1>5 DEF Expire, Typed, TypeOK, TransportTypeOK, JoinersJoined
<1>6. CASE Transporting
    <2>1. TransportTypeOK'
        BY <1>6, TransportTyped DEF Transporting, Typed, TypeOK
    <2> QED  BY <1>6, <2>1 DEF Transporting, Typed, TypeOK, JoinersJoined
<1> QED  BY <1>1, <1>2, <1>3, <1>4, <1>5, <1>6 DEF Around

\* The steps, by who takes them.
LEMMA Steps ==
    Next <=> \/ \E c \in Callers : Begin(c) \/ Look(c) \/ Hit(c) \/ Shared(c) \/ Trusted(c)
             \/ \E c \in Callers : Initialized(c) \/ CallReturns(c)
             \/ \E f \in Fetches : Reads(f) \/ Stores(f) \/ Resolves(f)
             \/ \E r \in Requesters : Send(r) \/ Challenged(r) \/ GivesUp(r)
             \/ Around
BY DEF Next, Around

LEMMA StutterTyped == Typed /\ UNCHANGED vars => Typed'
BY DEF Typed, TypeOK, TransportTypeOK, JoinersJoined, vars, transportVars, clientVars, serverVars,
       callerVars, fetchVars

LEMMA StepsTyped == Typed /\ [Next]_vars => Typed'
BY CallersTyped, ReturnsTyped, FetchesTyped, RequestersTyped, AroundTyped, Steps, StutterTyped

LEMMA AlwaysTyped == Spec => []Typed
<1>1. Init => Typed
    BY InitTyped
<1>2. Typed /\ [Next]_vars => Typed'
    BY StepsTyped
<1> QED  BY <1>1, <1>2, PTL DEF Spec

\* The state of a client, its callers and its connection keeps its types,
\* however many they are and whatever fails.
THEOREM ClientsAreTyped == Spec => []TypeOK
<1>1. Typed => TypeOK
    BY DEF Typed
<1> QED  BY <1>1, AlwaysTyped, PTL

-----------------------------------------------------------------------------
(* Descriptor identity. *)

\* Only a fetch puts a list into the cache.
LEMMA CacheChanges ==
    ASSUME [Next]_vars
    PROVE  \/ cache' \in {cache, NoTools}
           \/ \E f \in Fetches : Stores(f)
<1> USE DEF clientVars
<1>1. ASSUME NEW c \in Callers, Begin(c) \/ Look(c) \/ Hit(c) \/ Shared(c) \/ Trusted(c)
      PROVE  cache' = cache
    BY <1>1 DEF Begin, Look, Hit, Shared, gotFrame, Trusted
<1>2. ASSUME NEW c \in Callers, Initialized(c) \/ CallReturns(c)
      PROVE  cache' = cache
    BY <1>2 DEF Initialized, CallReturns
<1>3. ASSUME NEW f \in Fetches, Reads(f) \/ Resolves(f)
      PROVE  cache' = cache
    BY <1>3 DEF Reads, Resolves
<1>4. ASSUME NEW r \in Requesters, Send(r) \/ Challenged(r) \/ GivesUp(r)
      PROVE  cache' = cache
    BY <1>4 DEF Send, Challenged, GivesUp
<1>5. ASSUME Around
      PROVE  cache' \in {cache, NoTools}
    BY <1>5 DEF Around, ServeRequest, ChangeTools, ListChanged, InvalidateTools, Invalidates, Expire,
                Transporting
<1>6. ASSUME UNCHANGED vars
      PROVE  cache' = cache
    BY <1>6 DEF vars
<1> QED  BY <1>1, <1>2, <1>3, <1>4, <1>5, <1>6, Steps

\* A fetch that finds the list unchanged keeps the cached objects.
LEMMA StoresAnother ==
    ASSUME NEW f \in Fetches, Stores(f), cache # NoTools, cache' # cache
    PROVE  Content(cache)' # Content(cache)
<1>1. born[f] = generation /\ cache' = Kept(f) /\ UNCHANGED <<lists, served>>
    BY DEF Stores, serverVars
<1>2. cache' = f /\ Content(cache) # Content(f)
    BY <1>1 DEF Kept
<1> QED  BY <1>1, <1>2 DEF Content

\* The cached descriptor objects are replaced only by a list that says
\* something else, or dropped.
THEOREM IdentitiesAreKept == Spec => IdentityKept
<1>1. [Next]_vars => [cache # NoTools /\ cache' # NoTools /\ cache' # cache =>
                          Content(cache)' # Content(cache)]_vars
    BY CacheChanges, StoresAnother
<1> QED  BY <1>1, PTL DEF Spec, IdentityKept

-----------------------------------------------------------------------------
(* The shared fetch. *)

Running(f) == at[f] \notin {"ready", "done", "failed"}

OneFetchInv ==
    /\ \A f \in Fetches : pendingTools = f <=> born[f] = generation /\ Running(f)
    /\ \A f \in Fetches : born[f] <= generation

\* A step that starts, ends and invalidates no fetch.
LEMMA OneFetchStays ==
    ASSUME OneFetchInv, UNCHANGED <<pendingTools, born, generation>>,
           \A f \in Fetches : Running(f)' <=> Running(f)
    PROVE  OneFetchInv'
BY DEF OneFetchInv

\* A caller's own move does not touch the fetches.
LEMMA CallerMoves ==
    ASSUME Typed, NEW c \in Callers, NEW place, Goes(c, place)
    PROVE  \A f \in Fetches : at'[f] = at[f]
BY Named DEF Typed, TypeOK, Goes, Requesters

\* Fetch f runs to its end.
LEMMA OneFetchEnds ==
    ASSUME Typed, OneFetchInv, NEW f \in Fetches, NEW place \in {"done", "failed"}, Goes(f, place),
           Clears(f), UNCHANGED <<born, generation>>
    PROVE  OneFetchInv'
<1>1. at'[f] = place /\ \A g \in Fetches \ {f} : at'[g] = at[g]
    BY DEF Typed, TypeOK, Goes, Requesters
<1>2. pendingTools' = IF pendingTools = f THEN NoTools ELSE pendingTools
    BY DEF Clears
<1>3. \A g \in Fetches \ {f} : pendingTools' = g <=> pendingTools = g
    BY <1>2, NamesAssumption
<1>4. pendingTools' # f
    BY <1>2, NamesAssumption
<1> QED  BY <1>1, <1>3, <1>4 DEF OneFetchInv, Running

LEMMA OneFetchInvalidated ==
    ASSUME Typed, OneFetchInv, Invalidates
    PROVE  OneFetchInv'
<1>1. generation' = generation + 1 /\ pendingTools' = NoTools /\ UNCHANGED <<at, born>>
    BY DEF Invalidates, fetchVars
<1>2. \A f \in Fetches : born[f] \in Nat /\ generation \in Nat /\ born[f] <= generation
    BY DEF Typed, TypeOK, OneFetchInv
<1>3. \A f \in Fetches : born[f] # generation + 1 /\ born[f] <= generation + 1
    BY <1>2
<1> QED  BY <1>1, <1>3, NamesAssumption DEF OneFetchInv

LEMMA LookSharesOne ==
    ASSUME Typed, OneFetchInv, NEW c \in Callers, Look(c)
    PROVE  OneFetchInv'
<1>0. FetchOf(c) \in Fetches /\ c \notin Fetches /\ c \in Requesters /\ generation' = generation
    BY Named DEF Look
<1>1. CASE UNCHANGED <<pendingTools, born>> /\ \E place \in {"hit", "shared"} : Goes(c, place)
    BY <1>0, <1>1, CallerMoves, OneFetchStays DEF Running
<1>2. CASE /\ pendingTools = NoTools /\ pendingTools' = FetchOf(c)
           /\ born' = [born EXCEPT ![FetchOf(c)] = generation]
           /\ at' = [at EXCEPT ![c] = "shared", ![FetchOf(c)] = "token"]
    <2>1. /\ at'[FetchOf(c)] = "token" /\ born'[FetchOf(c)] = generation
          /\ \A g \in Fetches \ {FetchOf(c)} : at'[g] = at[g] /\ born'[g] = born[g]
        BY <1>0, <1>2 DEF Typed, TypeOK, Requesters
    <2>2. generation <= generation
        BY DEF Typed, TypeOK
    <2> QED  BY <1>0, <1>2, <2>1, <2>2, NamesAssumption DEF OneFetchInv, Running
<1> QED  BY <1>1, <1>2 DEF Look

LEMMA OneFetchSteps ==
    ASSUME Typed, OneFetchInv, [Next]_vars
    PROVE  OneFetchInv'
<1> USE DEF clientVars, fetchVars
<1>1. ASSUME NEW c \in Callers, Begin(c) \/ Look(c) \/ Hit(c) \/ Shared(c) \/ Trusted(c)
      PROVE  OneFetchInv'
    <2>1. CASE Look(c)
        BY <2>1, LookSharesOne
    <2>2. CASE Begin(c) \/ Hit(c) \/ Shared(c) \/ Trusted(c)
        <3>1. \E place : Goes(c, place)
            BY <2>2 DEF Begin, Hit, Shared, Trusted, Got, Decide
        <3>2. UNCHANGED <<pendingTools, born, generation>>
            BY <2>2 DEF Begin, Hit, Shared, Trusted, gotFrame
        <3> QED  BY <3>1, <3>2, CallerMoves, OneFetchStays DEF Running
    <2> QED  BY <1>1, <2>1, <2>2
<1>2. ASSUME NEW c \in Callers, Initialized(c) \/ CallReturns(c)
      PROVE  OneFetchInv'
    <2>1. \E place : Goes(c, place)
        BY <1>2 DEF Initialized, CallReturns, Ends
    <2> QED  BY <1>2, <2>1, CallerMoves, OneFetchStays DEF Initialized, CallReturns, Running
<1>3. ASSUME NEW f \in Fetches, Reads(f) \/ Stores(f) \/ Resolves(f)
      PROVE  OneFetchInv'
    <2>1. CASE Resolves(f)
        BY <2>1, OneFetchEnds DEF Resolves
    <2>2. CASE Reads(f) \/ Stores(f)
        <3>1. at[f] \in {"asked", "judging"} /\ \E place \in {"judging", "reporting"} : Goes(f, place)
            BY <2>2 DEF Reads, Stores, Answered, Ends
        <3>2. \A g \in Fetches : Running(g)' <=> Running(g)
            BY <3>1 DEF Running, Goes, Typed, TypeOK, Requesters
        <3> QED  BY <2>2, <3>2, OneFetchStays DEF Reads, Stores
    <2> QED  BY <1>3, <2>1, <2>2
<1>4. ASSUME NEW r \in Requesters, Send(r) \/ Challenged(r) \/ GivesUp(r)
      PROVE  OneFetchInv'
    <2>1. CASE GivesUp(r)
        <3>1. Goes(r, "failed") /\ UNCHANGED <<born, generation>>
            BY <2>1 DEF GivesUp, Ends
        <3>2. CASE r \in Fetches
            BY <2>1, <3>1, <3>2, OneFetchEnds DEF GivesUp
        <3>3. CASE r \notin Fetches
            BY <2>1, <3>1, <3>3, CallerMoves, OneFetchStays DEF GivesUp, Running, Requesters
        <3> QED  BY <3>2, <3>3
    <2>2. CASE Send(r) \/ Challenged(r)
        <3>1. at[r] \in {"token", "asked"} /\ \E place \in {"token", "asked"} : Goes(r, place)
            BY <2>2 DEF Send, Challenged
        <3>2. \A g \in Fetches : Running(g)' <=> Running(g)
            BY <3>1 DEF Running, Goes, Typed, TypeOK, Requesters
        <3> QED  BY <2>2, <3>2, OneFetchStays DEF Send, Challenged
    <2> QED  BY <1>4, <2>1, <2>2
<1>5. ASSUME Around
      PROVE  OneFetchInv'
    <2>1. CASE ListChanged \/ InvalidateTools
        BY <2>1, OneFetchInvalidated DEF ListChanged, InvalidateTools
    <2>2. ASSUME UNCHANGED <<at, pendingTools, born, generation>>
          PROVE  OneFetchInv'
        BY <2>2, OneFetchStays DEF Running
    <2> QED  BY <1>5, <2>1, <2>2 DEF Around, ServeRequest, ChangeTools, Expire, Transporting
<1>6. ASSUME UNCHANGED vars
      PROVE  OneFetchInv'
    BY <1>6, OneFetchStays DEF vars, Running
<1> QED  BY <1>1, <1>2, <1>3, <1>4, <1>5, <1>6, Steps

LEMMA OneFetchInit == Init => OneFetchInv
BY NamesAssumption DEF Init, OneFetchInv, Running, Requesters

LEMMA AlwaysOneFetch == Spec => []OneFetchInv
<1>1. Typed /\ OneFetchInv /\ [Next]_vars => OneFetchInv'
    BY OneFetchSteps
<1> QED  BY <1>1, OneFetchInit, AlwaysTyped, PTL DEF Spec

\* Callers that come together share the one fetch of their generation, and
\* nobody joins one that is over.
THEOREM FetchesAreShared == Spec => []OneFetchAtATime
<1>1. OneFetchInv => OneFetchAtATime
    BY DEF OneFetchInv, OneFetchAtATime, Running
<1> QED  BY <1>1, AlwaysOneFetch, PTL

-----------------------------------------------------------------------------
(* The callers' way through listTools(): a caller that has yet to look has   *)
(* started no fetch, and one that looks again has its tool.                  *)

Starting(c) == at[c] = "ready" \/ (at[c] \in {"token", "asked", "looking"} /\ tools[c] = NoTools)

LooksFor(c) ==
    /\ Starting(c) => at[<<c, 1>>] = "ready"
    /\ ~again[c] \/ at[c] = "looking" => at[<<c, 2>>] = "ready"
    /\ again[c] \/ at[c] = "trusting" => tools[c] # NoTools
    /\ at[c] \in {"ready", "trusting"} => ~again[c]
    /\ at[c] \in {"ready", "looking", "hit", "shared"} /\ ~again[c] => tools[c] = NoTools

Looks == \A c \in Callers : LooksFor(c)

LEMMA LooksInit == Init => Looks
BY Named, NamesAssumption DEF Init, Looks, LooksFor, Starting, Requesters

\* A step that is not this caller's and starts no fetch of the caller.
LEMMA OthersLook ==
    ASSUME Looks, NEW d \in Callers, at'[d] = at[d], tools'[d] = tools[d], again'[d] = again[d],
           at[<<d, 1>>] = "ready" => at'[<<d, 1>>] = "ready",
           at[<<d, 2>>] = "ready" => at'[<<d, 2>>] = "ready"
    PROVE  LooksFor(d)'
BY DEF Looks, LooksFor, Starting

\* A step of caller c from place to place.
LEMMA LooksAfterMove ==
    ASSUME Typed, Looks, NEW c \in Callers, NEW place \in Places, Goes(c, place), LooksFor(c)',
           \A d \in Callers \ {c} : tools'[d] = tools[d] /\ again'[d] = again[d]
    PROVE  Looks'
<1>1. ASSUME NEW d \in Callers \ {c}
      PROVE  LooksFor(d)'
    <2>1. <<d, 1>> \in Fetches /\ <<d, 2>> \in Fetches /\ d \in Requesters
        BY Named
    <2>2. at'[d] = at[d] /\ at'[<<d, 1>>] = at[<<d, 1>>] /\ at'[<<d, 2>>] = at[<<d, 2>>]
        BY <2>1, CallerMoves DEF Goes, Typed, TypeOK
    <2> QED  BY <2>2, OthersLook
<1> QED  BY <1>1 DEF Looks

\* A step of a fetch that runs.
LEMMA LooksAfterFetch ==
    ASSUME Typed, Looks, NEW f \in Fetches, at[f] # "ready", NEW place, Goes(f, place),
           UNCHANGED <<tools, again>>
    PROVE  Looks'
<1>1. ASSUME NEW d \in Callers
      PROVE  LooksFor(d)'
    <2>1. <<d, 1>> \in Requesters /\ <<d, 2>> \in Requesters /\ d \in Requesters /\ d # f
        BY Named DEF Requesters
    <2> QED  BY <2>1, OthersLook DEF Goes, Typed, TypeOK
<1> QED  BY <1>1 DEF Looks

LEMMA LooksAfterLook ==
    ASSUME Typed, Looks, NEW c \in Callers, Look(c)
    PROVE  Looks' /\ at[FetchOf(c)] = "ready"
<1>0. /\ c \in Requesters /\ c # FetchOf(c) /\ FetchOf(c) \in Requesters
      /\ <<c, 1>> \in Requesters /\ <<c, 2>> \in Requesters /\ c # <<c, 1>> /\ c # <<c, 2>>
    BY Named DEF Requesters
<1>1. at[FetchOf(c)] = "ready"
    BY DEF Looks, LooksFor, Starting, Look, FetchOf
<1>2. /\ UNCHANGED <<tools, again>>
      /\ at[c] \in {"ready", "looking"}
      /\ \/ Goes(c, "hit") \/ Goes(c, "shared")
         \/ at' = [at EXCEPT ![c] = "shared", ![FetchOf(c)] = "token"]
    BY DEF Look
<1>3. LooksFor(c)
    BY DEF Looks
<1>4. /\ at'[c] \in {"hit", "shared"}
      /\ ~again[c] => at'[<<c, 2>>] = at[<<c, 2>>]
    <2>1. ~again[c] => FetchOf(c) # <<c, 2>>
        BY DEF FetchOf
    <2> QED  BY <1>0, <1>2, <2>1 DEF Goes, Typed, TypeOK
<1>5. LooksFor(c)'
    BY <1>2, <1>3, <1>4 DEF LooksFor, Starting
<1>6. ASSUME NEW d \in Callers \ {c}
      PROVE  LooksFor(d)'
    <2>1. <<d, 1>> \in Requesters /\ <<d, 2>> \in Requesters /\ d \in Requesters
          /\ d # c /\ d # FetchOf(c) /\ <<d, 1>> # c /\ <<d, 2>> # c
          /\ <<d, 1>> # FetchOf(c) /\ <<d, 2>> # FetchOf(c)
        BY Named, NamesAssumption DEF Requesters, FetchOf
    <2>2. at'[d] = at[d] /\ at'[<<d, 1>>] = at[<<d, 1>>] /\ at'[<<d, 2>>] = at[<<d, 2>>]
        BY <1>2, <2>1 DEF Goes, Typed, TypeOK
    <2> QED  BY <1>2, <2>2, OthersLook
<1> QED  BY <1>1, <1>5, <1>6 DEF Looks

\* A fetch that is over has built its list object.
BuiltWhenDone == \A f \in Fetches : at[f] \in {"reporting", "done"} => built[f] \in Fetches

LEMMA BuiltInit == Init => BuiltWhenDone
BY DEF Init, BuiltWhenDone, Requesters

LEMMA BuiltStays ==
    ASSUME BuiltWhenDone, built' = built,
           \A f \in Fetches : at'[f] \in {"reporting", "done"} => at[f] \in {"reporting", "done"}
    PROVE  BuiltWhenDone'
BY DEF BuiltWhenDone

\* The moves a step can make, whoever takes it.
LEMMA BuiltSteps ==
    ASSUME Typed, BuiltWhenDone, [Next]_vars
    PROVE  BuiltWhenDone'
<1> USE DEF fetchVars
<1>1. ASSUME NEW c \in Callers, Begin(c) \/ Look(c) \/ Hit(c) \/ Shared(c) \/ Trusted(c)
      PROVE  BuiltWhenDone'
    <2>1. built' = built
        BY <1>1 DEF Begin, Look, Hit, Shared, gotFrame, Trusted
    <2>2. CASE \E place : Goes(c, place)
        BY <2>1, <2>2, CallerMoves, BuiltStays
    <2>3. CASE at' = [at EXCEPT ![c] = "shared", ![FetchOf(c)] = "token"]
        <3>1. \A f \in Fetches : f # c /\ f \in Requesters
            BY Named DEF Requesters
        <3>2. \A f \in Fetches : at'[f] = at[f] \/ at'[f] = "token"
            BY <2>3, <3>1 DEF Typed, TypeOK
        <3> QED  BY <2>1, <3>2, BuiltStays
    <2> QED  BY <1>1, <2>2, <2>3 DEF Begin, Look, Hit, Shared, Trusted, Got, Decide
<1>2. ASSUME NEW c \in Callers, Initialized(c) \/ CallReturns(c)
      PROVE  BuiltWhenDone'
    BY <1>2, CallerMoves, BuiltStays DEF Initialized, CallReturns, Ends
<1>3. ASSUME NEW f \in Fetches, Reads(f) \/ Stores(f) \/ Resolves(f)
      PROVE  BuiltWhenDone'
    <2>1. CASE Stores(f)
        <3>1. built'[f] \in Fetches /\ \A g \in Fetches \ {f} : at'[g] = at[g] /\ built'[g] = built[g]
            BY <2>1, KeptTyped DEF Stores, Goes, Typed, TypeOK, Requesters
        <3> QED  BY <3>1 DEF BuiltWhenDone
    <2>2. CASE Reads(f)
        BY <2>2, BuiltStays DEF Reads, Ends, Goes, Typed, TypeOK, Requesters
    <2>3. CASE Resolves(f)
        BY <2>3, BuiltStays DEF Resolves, Goes, Typed, TypeOK, Requesters
    <2> QED  BY <1>3, <2>1, <2>2, <2>3
<1>4. ASSUME NEW r \in Requesters, Send(r) \/ Challenged(r) \/ GivesUp(r)
      PROVE  BuiltWhenDone'
    <2>1. built' = built /\ \E place \in {"asked", "token", "failed"} : Goes(r, place)
        BY <1>4 DEF Send, Challenged, GivesUp, Ends
    <2> QED  BY <2>1, BuiltStays DEF Goes, Typed, TypeOK, Requesters
<1>5. ASSUME Around \/ UNCHANGED vars
      PROVE  BuiltWhenDone'
    <2>1. UNCHANGED <<at, built>>
        BY <1>5 DEF Around, ServeRequest, ChangeTools, ListChanged, InvalidateTools, Invalidates,
                    Expire, Transporting, vars
    <2> QED  BY <2>1, BuiltStays
<1> QED  BY <1>1, <1>2, <1>3, <1>4, <1>5, Steps

LEMMA LooksInCallers ==
    ASSUME Typed, BuiltWhenDone, Looks, NEW c \in Callers,
           Begin(c) \/ Hit(c) \/ Shared(c) \/ Trusted(c)
    PROVE  Looks'
<1>0. /\ c \in Requesters /\ <<c, 1>> \in Fetches /\ <<c, 2>> \in Fetches
      /\ c # <<c, 1>> /\ c # <<c, 2>>
    BY Named
<1>1. LooksFor(c)
    BY DEF Looks
<1>2. ASSUME NEW o \in Fetches, Got(c, o), at[c] \in {"hit", "shared"}, again' = again
      PROVE  Looks'
    <2>1. /\ \A d \in Callers \ {c} : tools'[d] = tools[d]
          /\ again[c] => tools'[c] = tools[c]
          /\ ~again[c] => tools'[c] # NoTools
        BY <1>2, NamesAssumption DEF Got, Typed, TypeOK
    <2>2. PICK place \in Places : /\ Goes(c, place)
                                  /\ again[c] => place \in {"token", "failed"}
                                  /\ ~again[c] => place \in {"done", "trusting", "failed"}
        BY <1>2 DEF Got, Decide, Places
    <2>3. /\ at'[c] = place /\ at'[<<c, 1>>] = at[<<c, 1>>] /\ at'[<<c, 2>>] = at[<<c, 2>>]
          /\ again'[c] = again[c]
        BY <1>0, <1>2, <2>2, CallerMoves DEF Goes, Typed, TypeOK
    <2>4. LooksFor(c)'
        BY <1>1, <2>1, <2>2, <2>3 DEF LooksFor, Starting
    <2> QED  BY <1>2, <2>1, <2>2, <2>4, LooksAfterMove
<1>3. ASSUME at[c] # "ready", UNCHANGED <<tools, again>>,
             NEW place \in {"failed", "crashed"}, Goes(c, place)
      PROVE  Looks'
    <2>1. at'[c] = place /\ at'[<<c, 1>>] = at[<<c, 1>>] /\ at'[<<c, 2>>] = at[<<c, 2>>]
        BY <1>0, <1>3, CallerMoves DEF Goes, Typed, TypeOK
    <2>2. LooksFor(c)'
        BY <1>1, <1>3, <2>1 DEF LooksFor, Starting
    <2> QED  BY <1>3, <2>2, LooksAfterMove DEF Places
<1>4. CASE Begin(c)
    <2>1. Goes(c, "token") /\ UNCHANGED <<tools, again>> /\ at[c] = "ready"
        BY <1>4 DEF Begin, callerVars
    <2>2. at'[c] = "token" /\ at'[<<c, 1>>] = at[<<c, 1>>] /\ at'[<<c, 2>>] = at[<<c, 2>>]
        BY <1>0, <2>1, CallerMoves DEF Goes, Typed, TypeOK
    <2>3. LooksFor(c)'
        BY <1>1, <2>1, <2>2 DEF LooksFor, Starting
    <2> QED  BY <2>1, <2>3, LooksAfterMove DEF Places
<1>5. CASE Hit(c)
    BY <1>2, <1>3, <1>5 DEF Hit, gotFrame, Typed, TypeOK
<1>6. CASE Shared(c)
    <2>1. at[joined[c]] = "done" => built[joined[c]] \in Fetches
        BY <1>6 DEF Shared, Typed, JoinersJoined, BuiltWhenDone
    <2> QED  BY <1>2, <1>3, <1>6, <2>1 DEF Shared, gotFrame
<1>7. CASE Trusted(c)
    <2>1. /\ at[c] = "trusting" /\ UNCHANGED tools /\ ~again[c]
          /\ \/ again' = again /\ \E place \in {"token", "failed"} : Goes(c, place)
             \/ again' = [again EXCEPT ![c] = TRUE] /\ Goes(c, "looking")
        BY <1>1, <1>7 DEF Trusted, Decide, LooksFor
    <2>2. PICK place \in Places : Goes(c, place) /\ place \in {"token", "failed", "looking"}
        BY <2>1 DEF Places
    <2>3. at'[c] = place /\ at'[<<c, 1>>] = at[<<c, 1>>] /\ at'[<<c, 2>>] = at[<<c, 2>>]
        BY <1>0, <2>2, CallerMoves DEF Goes, Typed, TypeOK
    <2>4. /\ again'[c] => at'[c] = "looking"
          /\ at'[c] = "looking" => again'[c]
          /\ \A d \in Callers \ {c} : again'[d] = again[d]
        BY <1>0, <2>1 DEF Goes, Typed, TypeOK
    <2>5. LooksFor(c)'
        BY <1>1, <2>1, <2>2, <2>3, <2>4 DEF LooksFor, Starting
    <2> QED  BY <2>1, <2>2, <2>4, <2>5, LooksAfterMove
<1> QED  BY <1>4, <1>5, <1>6, <1>7

LEMMA LooksSteps ==
    ASSUME Typed, BuiltWhenDone, Looks, [Next]_vars
    PROVE  Looks'
<1> USE DEF callerVars
<1>1. ASSUME NEW c \in Callers, Begin(c) \/ Look(c) \/ Hit(c) \/ Shared(c) \/ Trusted(c)
      PROVE  Looks'
    BY <1>1, LooksInCallers, LooksAfterLook
<1>2. ASSUME NEW c \in Callers, NEW place \in Places,
             \/ Send(c) /\ place = "asked"
             \/ Challenged(c) /\ place = "token"
             \/ GivesUp(c) /\ place = "failed"
             \/ Initialized(c) /\ place = "looking"
             \/ CallReturns(c) /\ place = "done"
      PROVE  Looks'
    <2>1. /\ Goes(c, place) /\ UNCHANGED <<tools, again>> /\ at[c] # "ready"
          /\ place \in {"asked", "token"} => at[c] \in {"asked", "token"}
          /\ place = "looking" => at[c] = "asked" /\ tools[c] = NoTools
        BY <1>2 DEF Send, Challenged, GivesUp, Initialized, CallReturns, Ends, Answered, Calling
    <2>2. at'[c] = place /\ at'[<<c, 1>>] = at[<<c, 1>>] /\ at'[<<c, 2>>] = at[<<c, 2>>]
        BY <2>1, Named, CallerMoves DEF Goes, Typed, TypeOK
    <2>3. LooksFor(c)
        BY DEF Looks
    <2>4. LooksFor(c)'
        BY <1>2, <2>1, <2>2, <2>3 DEF LooksFor, Starting
    <2> QED  BY <2>1, <2>4, LooksAfterMove
<1>3. ASSUME NEW f \in Fetches,
             Reads(f) \/ Stores(f) \/ Resolves(f) \/ Send(f) \/ Challenged(f) \/ GivesUp(f)
      PROVE  Looks'
    <2>1. at[f] # "ready" /\ UNCHANGED <<tools, again>> /\ \E place : Goes(f, place)
        BY <1>3 DEF Reads, Stores, Resolves, Send, Challenged, GivesUp, Ends, Answered
    <2> QED  BY <2>1, LooksAfterFetch
<1>4. ASSUME Around \/ UNCHANGED vars
      PROVE  Looks'
    <2>1. UNCHANGED <<at, tools, again>>
        BY <1>4 DEF Around, ServeRequest, ChangeTools, ListChanged, InvalidateTools, Invalidates,
                    Expire, Transporting, vars
    <2> QED  BY <2>1 DEF Looks, LooksFor, Starting
<1> QED  BY <1>1, <1>2, <1>3, <1>4, Steps DEF Requesters, Places

-----------------------------------------------------------------------------
(* The connection is idle for whoever does not wait for it. *)

IdleFor(r) ==
    /\ at[r] # "asked" => wire[r] = "none" /\ answer[r] = "none" /\ r \notin pending
    /\ answer[r] # "none" => wire[r] = "none" /\ r \notin pending

Idle == \A r \in Requesters : IdleFor(r)

LEMMA IdleStays ==
    ASSUME Idle, UNCHANGED <<wire, answer, pending>>,
           \A r \in Requesters : at[r] = "asked" => at'[r] = "asked"
    PROVE  Idle'
BY DEF Idle, IdleFor

\* A move from a place where nothing is awaited from the connection.
LEMMA IdleMoves ==
    ASSUME Typed, Idle, NEW r \in Requesters, NEW place, at[r] # "asked", Goes(r, place),
           UNCHANGED <<wire, answer, pending>>
    PROVE  Idle'
<1>1. \A q \in Requesters \ {r} : at'[q] = at[q]
    BY DEF Typed, TypeOK, Goes
<1> QED  BY <1>1, IdleStays

LEMMA IdleTakes ==
    ASSUME Typed, Idle, NEW r \in Requesters, NEW place, Goes(r, place), Take(r),
           at[r] # "asked" \/ answer[r] # "none"
    PROVE  Idle'
<1>1. \A q \in Requesters \ {r} : at'[q] = at[q] /\ answer'[q] = answer[q]
    BY DEF Typed, TypeOK, TransportTypeOK, Goes, Take
<1>2. answer'[r] = "none" /\ wire'[r] = "none" /\ r \notin pending'
    BY DEF Typed, TypeOK, TransportTypeOK, Take, Idle, IdleFor
<1> QED  BY <1>1, <1>2 DEF Idle, IdleFor, Take

LEMMA IdleInTransport ==
    ASSUME Typed, Idle, UNCHANGED at,
           \/ \E r \in Requesters : HandleLine(r) \/ GiveUp(r)
           \/ \E r \in Requesters, reply \in Replies : Serve(r, reply)
           \/ Exit
    PROVE  Idle'
<1> USE DEF Typed, TypeOK, TransportTypeOK, Idle, IdleFor
<1>1. ASSUME NEW r \in Requesters, HandleLine(r)
      PROVE  Idle'
    <2>1. wire[r] # "none"
        BY <1>1 DEF HandleLine, Replies
    <2> QED  BY <1>1, <2>1 DEF HandleLine
<1>2. ASSUME NEW R \in SUBSET Requesters, RejectThose(R)
      PROVE  Idle'
    BY <1>2 DEF RejectThose
<1>3. ASSUME NEW r \in Requesters, NEW reply \in Replies, Serve(r, reply)
      PROVE  Idle'
    BY <1>3 DEF Serve, Replies
<1> QED  BY <1>1, <1>2, <1>3 DEF GiveUp, Exit

LEMMA IdleInit == Init => Idle
BY DEF Init, TransportInit, Idle, IdleFor

LEMMA IdleSteps ==
    ASSUME Typed, Looks, Idle, [Next]_vars
    PROVE  Idle'
<1> USE DEF transportVars
<1>1. ASSUME NEW c \in Callers, Begin(c) \/ Look(c) \/ Hit(c) \/ Shared(c) \/ Trusted(c)
      PROVE  Idle'
    <2>0. c \in Requesters /\ FetchOf(c) \in Requesters
        BY Named DEF Requesters
    <2>1. UNCHANGED <<wire, answer, pending>> /\ at[c] # "asked"
        BY <1>1 DEF Begin, Look, Hit, Shared, Trusted, gotFrame
    <2>2. CASE \E place : Goes(c, place)
        BY <2>0, <2>1, <2>2, IdleMoves
    <2>3. CASE Look(c) /\ at' = [at EXCEPT ![c] = "shared", ![FetchOf(c)] = "token"]
        <3>1. at[FetchOf(c)] = "ready"
            BY <2>3, LooksAfterLook
        <3> QED  BY <2>0, <2>1, <2>3, <3>1, IdleStays DEF Typed, TypeOK
    <2> QED  BY <1>1, <2>2, <2>3 DEF Begin, Look, Hit, Shared, Trusted, Got, Decide
<1>2. ASSUME NEW c \in Callers, Initialized(c) \/ CallReturns(c)
      PROVE  Idle'
    <2>1. answer[c] # "none" /\ Take(c) /\ \E place : Goes(c, place)
        BY <1>2 DEF Initialized, CallReturns, Answered, Ends
    <2> QED  BY <2>1, Named, IdleTakes
<1>3. ASSUME NEW f \in Fetches, Reads(f) \/ Stores(f) \/ Resolves(f)
      PROVE  Idle'
    <2>0. f \in Requesters
        BY DEF Requesters
    <2>1. CASE Reads(f)
        BY <2>0, <2>1, IdleTakes DEF Reads, Answered, Ends
    <2>2. CASE Stores(f) \/ Resolves(f)
        BY <2>0, <2>2, IdleMoves DEF Stores, Resolves
    <2> QED  BY <1>3, <2>1, <2>2
<1>4. ASSUME NEW r \in Requesters, Send(r) \/ Challenged(r) \/ GivesUp(r)
      PROVE  Idle'
    <2>1. CASE Send(r)
        <3>1. /\ at'[r] = "asked" /\ answer'[r] = "none"
              /\ \A q \in Requesters \ {r} : /\ at'[q] = at[q] /\ answer'[q] = answer[q]
                                             /\ wire'[q] = wire[q]
                                             /\ q \in pending' <=> q \in pending
            BY <2>1 DEF Send, Goes, Request, Typed, TypeOK, TransportTypeOK, Idle, IdleFor
        <3> QED  BY <3>1 DEF Idle, IdleFor
    <2>2. CASE Challenged(r)
        BY <2>2, IdleTakes DEF Challenged
    <2>3. CASE GivesUp(r)
        BY <2>3, IdleTakes DEF GivesUp, Ends
    <2> QED  BY <1>4, <2>1, <2>2, <2>3
<1>5. ASSUME Around \/ UNCHANGED vars
      PROVE  Idle'
    <2>1. UNCHANGED at
        BY <1>5 DEF Around, ServeRequest, ChangeTools, ListChanged, InvalidateTools, Invalidates,
                    Expire, Transporting, vars
    <2>2. CASE UNCHANGED <<wire, answer, pending>>
        BY <2>1, <2>2, IdleStays
    <2>3. CASE \/ \E r \in Requesters : HandleLine(r) \/ GiveUp(r)
               \/ \E r \in Requesters, reply \in Replies : Serve(r, reply)
               \/ Exit
        BY <2>1, <2>3, IdleInTransport
    <2> QED  BY <1>5, <2>2, <2>3 DEF Around, ServeRequest, ChangeTools, ListChanged,
                InvalidateTools, Invalidates, Expire, Transporting, vars
<1> QED  BY <1>1, <1>2, <1>3, <1>4, <1>5, Steps

-----------------------------------------------------------------------------
(* A list object, once made, says the same for ever. *)

Made(o) == /\ o \in Fetches
           /\ at[o] \in {"reporting", "done", "failed"}
           /\ served[o] \in 1..Len(lists)

LEMMA MadeStays ==
    ASSUME Typed, Looks, Idle, [Next]_vars, NEW o, Made(o)
    PROVE  Made(o)' /\ served'[o] = served[o] /\ Content(o)' = Content(o)
<1>0. o \in Fetches /\ o \in Requesters /\ o \notin Callers
    BY NamesAssumption DEF Made, Requesters
<1>1. at'[o] \in {"reporting", "done", "failed"}
    <2>1. ASSUME NEW c \in Callers, NEW place, Goes(c, place)
          PROVE  at'[o] = at[o]
        BY <1>0, <2>1, CallerMoves
    <2>2. ASSUME NEW c \in Callers, Look(c)
          PROVE  at'[o] = at[o]
        <3>1. o # FetchOf(c) /\ o # c
            BY <1>0, <2>2, LooksAfterLook DEF Made
        <3> QED  BY <1>0, <2>2, <3>1 DEF Look, Goes, Typed, TypeOK
    <2>3. ASSUME NEW f \in Fetches, Reads(f) \/ Stores(f) \/ Resolves(f)
          PROVE  at'[o] \in {"reporting", "done", "failed"}
        BY <1>0, <2>3 DEF Reads, Stores, Resolves, Ends, Answered, Goes, Made, Typed, TypeOK
    <2>4. ASSUME NEW r \in Requesters, Send(r) \/ Challenged(r) \/ GivesUp(r)
          PROVE  at'[o] \in {"reporting", "done", "failed"}
        BY <1>0, <2>4 DEF Send, Challenged, GivesUp, Ends, Goes, Made, Typed, TypeOK
    <2>5. ASSUME Around \/ UNCHANGED vars
          PROVE  at'[o] = at[o]
        BY <2>5 DEF Around, ServeRequest, ChangeTools, ListChanged, InvalidateTools, Invalidates,
                    Expire, Transporting, vars
    <2>6. ASSUME NEW c \in Callers, \/ Begin(c) \/ Hit(c) \/ Shared(c) \/ Trusted(c)
                                    \/ Initialized(c) \/ CallReturns(c)
          PROVE  \E place : Goes(c, place)
        BY <2>6 DEF Begin, Hit, Shared, Trusted, Got, Decide, Initialized, CallReturns, Ends
    <2> QED  BY <2>1, <2>2, <2>3, <2>4, <2>5, <2>6, Steps DEF Made
<1>2. served'[o] = served[o] /\ \/ lists' = lists
                                \/ \E l \in Lists : lists' = Append(lists, l)
    <2>1. ASSUME NEW c \in Callers, \/ Begin(c) \/ Look(c) \/ Hit(c) \/ Shared(c) \/ Trusted(c)
                                    \/ Initialized(c) \/ CallReturns(c)
          PROVE  UNCHANGED <<served, lists>>
        BY <2>1 DEF Begin, Look, Hit, Shared, gotFrame, Trusted, Initialized, CallReturns,
                    fetchVars, serverVars
    <2>2. ASSUME NEW f \in Fetches, Reads(f) \/ Stores(f) \/ Resolves(f)
          PROVE  UNCHANGED <<served, lists>>
        BY <2>2 DEF Reads, Stores, Resolves, fetchVars, serverVars
    <2>3. ASSUME NEW r \in Requesters, Send(r) \/ Challenged(r) \/ GivesUp(r)
          PROVE  UNCHANGED <<served, lists>>
        BY <2>3 DEF Send, Challenged, GivesUp, fetchVars, serverVars
    <2>4. ASSUME NEW r \in Requesters, NEW reply \in Replies, ServeRequest(r, reply)
          PROVE  served'[o] = served[o] /\ lists' = lists
        <3>1. wire[r] = "request" /\ r # o
            BY <1>0, <2>4 DEF ServeRequest, Serve, Made, Idle, IdleFor
        <3> QED  BY <2>4, <3>1 DEF ServeRequest, serverVars, Typed, TypeOK
    <2>5. CASE Around
        BY <2>4, <2>5 DEF Around, ChangeTools, ListChanged, InvalidateTools, Invalidates, Expire,
                    Transporting, fetchVars, serverVars
    <2>6. CASE UNCHANGED vars
        BY <2>6 DEF vars, fetchVars, serverVars
    <2> QED  BY <2>1, <2>2, <2>3, <2>5, <2>6, Steps
<1>3. /\ Len(lists') >= Len(lists) /\ Len(lists') \in Nat
      /\ \A k \in 1..Len(lists) : lists'[k] = lists[k]
    BY <1>2 DEF Typed, TypeOK
<1> QED  BY <1>0, <1>1, <1>2, <1>3 DEF Made, Content, Typed, TypeOK

-----------------------------------------------------------------------------
(* Who changes what. *)

LEMMA Owners ==
    ASSUME [Next]_vars
    PROVE  /\ UNCHANGED <<known, joined, born>> \/ \E c \in Callers : Look(c)
           /\ UNCHANGED tools \/ \E c \in Callers : Hit(c) \/ Shared(c)
           /\ UNCHANGED built \/ \E f \in Fetches : Stores(f)
           /\ \/ UNCHANGED served
              \/ \E r \in Requesters, reply \in Replies : ServeRequest(r, reply)
           /\ UNCHANGED <<heard, generation>> \/ ListChanged \/ InvalidateTools
           /\ UNCHANGED lists \/ \E l \in Lists : ChangeTools(l)
           /\ UNCHANGED bounded
<1> USE DEF clientVars, serverVars, callerVars, fetchVars
<1>1. ASSUME NEW c \in Callers, Begin(c) \/ Trusted(c) \/ Initialized(c) \/ CallReturns(c)
      PROVE  UNCHANGED <<known, joined, born, tools, built, served, heard, generation, lists, bounded>>
    BY <1>1 DEF Begin, Trusted, Initialized, CallReturns
<1>2. ASSUME NEW c \in Callers, Look(c)
      PROVE  UNCHANGED <<tools, built, served, heard, generation, lists, bounded>>
    BY <1>2 DEF Look
<1>3. ASSUME NEW c \in Callers, Hit(c) \/ Shared(c)
      PROVE  UNCHANGED <<known, joined, born, built, served, heard, generation, lists, bounded>>
    BY <1>3 DEF Hit, Shared, gotFrame
<1>4. ASSUME NEW f \in Fetches, Reads(f) \/ Resolves(f)
      PROVE  UNCHANGED <<known, joined, born, tools, built, served, heard, generation, lists, bounded>>
    BY <1>4 DEF Reads, Resolves
<1>5. ASSUME NEW f \in Fetches, Stores(f)
      PROVE  UNCHANGED <<known, joined, born, tools, served, heard, generation, lists, bounded>>
    BY <1>5 DEF Stores
<1>6. ASSUME NEW r \in Requesters, Send(r) \/ Challenged(r) \/ GivesUp(r)
      PROVE  UNCHANGED <<known, joined, born, tools, built, served, heard, generation, lists, bounded>>
    BY <1>6 DEF Send, Challenged, GivesUp
<1>7. ASSUME NEW r \in Requesters, NEW reply \in Replies, ServeRequest(r, reply)
      PROVE  UNCHANGED <<known, joined, born, tools, built, heard, generation, lists, bounded>>
    BY <1>7 DEF ServeRequest
<1>8. ASSUME NEW l \in Lists, ChangeTools(l)
      PROVE  UNCHANGED <<known, joined, born, tools, built, served, heard, generation, bounded>>
    BY <1>8 DEF ChangeTools
<1>9. ASSUME ListChanged \/ InvalidateTools
      PROVE  UNCHANGED <<known, joined, born, tools, built, served, lists, bounded>>
    BY <1>9 DEF ListChanged, InvalidateTools, Invalidates
<1>10. ASSUME Expire \/ Transporting \/ UNCHANGED vars
       PROVE  UNCHANGED <<known, joined, born, tools, built, served, heard, generation, lists, bounded>>
    BY <1>10 DEF Expire, Transporting, vars
<1>11. CASE Next
    BY <1>1, <1>2, <1>3, <1>4, <1>5, <1>6, <1>7, <1>8, <1>9, <1>10, <1>11 DEF Next
<1> QED  BY <1>10, <1>11

\* How a fetch moves: only Look starts one, and none becomes ready again.
LEMMA FetchMoves ==
    ASSUME Typed, Looks, [Next]_vars, NEW f \in Fetches
    PROVE  /\ \/ at'[f] = at[f] /\ born'[f] = born[f]
              \/ at[f] = "ready" /\ at'[f] = "token"
              \/ Reads(f) /\ at'[f] = "judging" /\ born'[f] = born[f]
              \/ Stores(f) /\ at'[f] = "reporting" /\ born'[f] = born[f]
              \/ Resolves(f) /\ at'[f] = "done" /\ born'[f] = born[f]
              \/ at'[f] \in {"asked", "token", "failed"} /\ born'[f] = born[f]
           /\ at'[f] = "ready" => at[f] = "ready"
<1>0. f \in Requesters /\ f \notin Callers
    BY NamesAssumption DEF Requesters
<1>1. ASSUME NEW c \in Callers, \/ Begin(c) \/ Hit(c) \/ Shared(c) \/ Trusted(c)
                                \/ Initialized(c) \/ CallReturns(c)
      PROVE  at'[f] = at[f] /\ born' = born
    <2>1. \E place : Goes(c, place)
        BY <1>1 DEF Begin, Hit, Shared, Trusted, Got, Decide, Initialized, CallReturns, Ends
    <2>2. born' = born
        BY <1>1 DEF Begin, Hit, Shared, gotFrame, Trusted, Initialized, CallReturns, fetchVars
    <2> QED  BY <2>1, <2>2, CallerMoves
<1>2. ASSUME NEW c \in Callers, Look(c)
      PROVE  \/ at'[f] = at[f] /\ born'[f] = born[f]
             \/ at[f] = "ready" /\ at'[f] = "token"
    <2>1. at[FetchOf(c)] = "ready" /\ FetchOf(c) \in Fetches /\ c # f
        BY <1>0, <1>2, LooksAfterLook, Named
    <2>2. CASE born' = born /\ \E place : Goes(c, place)
        BY <2>2, CallerMoves
    <2>3. CASE /\ born' = [born EXCEPT ![FetchOf(c)] = generation]
               /\ at' = [at EXCEPT ![c] = "shared", ![FetchOf(c)] = "token"]
        BY <1>0, <2>1, <2>3 DEF Typed, TypeOK
    <2> QED  BY <1>2, <2>2, <2>3 DEF Look
<1>3. ASSUME NEW g \in Fetches, Reads(g) \/ Stores(g) \/ Resolves(g)
      PROVE  /\ born' = born
             /\ \/ at'[f] = at[f]
                \/ Reads(f) /\ at'[f] = "judging"
                \/ Stores(f) /\ at'[f] = "reporting"
                \/ Resolves(f) /\ at'[f] = "done"
    BY <1>0, <1>3 DEF Reads, Stores, Resolves, Ends, Goes, Typed, TypeOK, fetchVars
<1>4. ASSUME NEW r \in Requesters, Send(r) \/ Challenged(r) \/ GivesUp(r)
      PROVE  born' = born /\ (at'[f] = at[f] \/ at'[f] \in {"asked", "token", "failed"})
    BY <1>0, <1>4 DEF Send, Challenged, GivesUp, Ends, Goes, Typed, TypeOK, fetchVars
<1>5. ASSUME Around \/ UNCHANGED vars
      PROVE  UNCHANGED <<at, born>>
    BY <1>5 DEF Around, ServeRequest, ChangeTools, ListChanged, InvalidateTools, Invalidates,
                Expire, Transporting, vars, fetchVars
<1> QED  BY <1>1, <1>2, <1>3, <1>4, <1>5, Steps

-----------------------------------------------------------------------------
(* Versions: a list served in the current generation is newer than what the  *)
(* client was told of, and so are the objects made of it.                    *)

\* The list of fetch f is under way, or read.
Had(f) == wire[f] = "ok" \/ answer[f] = "ok" \/ at[f] = "judging"

Over(f) == at[f] \in {"reporting", "done"}

FetchVersions ==
    \A f \in Fetches :
        /\ served[f] <= Len(lists)
        /\ Had(f) => served[f] > 0 /\ (born[f] = generation => served[f] > heard)
        /\ Over(f) => Made(built[f]) /\ (born[f] = generation => served[built[f]] > heard)

CacheVersion == cache # NoTools => Made(cache) /\ served[cache] > heard

CallerVersions ==
    \A c \in Callers :
        /\ known[c] <= heard
        /\ tools[c] # NoTools => Made(tools[c]) /\ served[tools[c]] > known[c]
        /\ at[c] = "shared" =>
              /\ at[joined[c]] # "ready"
              /\ Had(joined[c]) => served[joined[c]] > known[c]
              /\ Over(joined[c]) => served[built[joined[c]]] > known[c]

Versions == heard < Len(lists) /\ FetchVersions /\ CacheVersion /\ CallerVersions

Before == Typed /\ OneFetchInv /\ BuiltWhenDone /\ Looks /\ Idle

\* A list that is there after a step was there before it, or has just been served.
LEMMA HadSteps ==
    ASSUME Before, [Next]_vars, NEW f \in Fetches, Had(f)'
    PROVE  /\ born'[f] = born[f]
           /\ \/ Had(f) /\ served'[f] = served[f]
              \/ /\ served'[f] = Len(lists)
                 /\ UNCHANGED <<lists, generation, heard, known, joined, at, built>>
<1>0. f \in Requesters /\ f \notin Callers
    BY NamesAssumption DEF Requesters
<1>1. ~(at[f] = "ready" /\ at'[f] = "token")
    <2>1. ASSUME at[f] = "ready" /\ at'[f] = "token"
          PROVE  FALSE
        <3>1. wire[f] = "none" /\ answer[f] = "none"
            BY <1>0, <2>1 DEF Before, Idle, IdleFor
        <3>2. Idle'
            BY IdleSteps DEF Before
        <3> QED  BY <1>0, <2>1, <3>2 DEF Idle, IdleFor, Had
    <2> QED  BY <2>1
<1>2. born'[f] = born[f]
    BY <1>1, FetchMoves DEF Before
<1>3. CASE \E r \in Requesters, reply \in Replies : ServeRequest(r, reply)
    <2>1. PICK r \in Requesters, reply \in Replies : ServeRequest(r, reply)
        BY <1>3
    <2>2. CASE r = f
        <3>1. at[f] = "asked" /\ answer[f] = "none"
            BY <1>0, <2>1, <2>2 DEF ServeRequest, Serve, Before, Idle, IdleFor
        <3>2. served'[f] = Len(lists)
            BY <2>1, <2>2 DEF ServeRequest, Before, Typed, TypeOK
        <3> QED  BY <1>2, <2>1, <3>2 DEF ServeRequest, serverVars, clientVars, callerVars
    <2>3. CASE r # f
        <3>1. served'[f] = served[f] /\ wire'[f] = wire[f] /\ UNCHANGED <<answer, at>>
            BY <1>0, <2>1, <2>3 DEF ServeRequest, Serve, Before, Typed, TypeOK, TransportTypeOK
        <3> QED  BY <1>2, <3>1 DEF Had
    <2> QED  BY <2>2, <2>3
<1>4. CASE served' = served
    <2>1. ASSUME NEW r \in Requesters, HandleLine(r) \/ GiveUp(r) \/ Exit, at' = at
          PROVE  Had(f)
        <3>1. CASE HandleLine(r)
            BY <1>0, <2>1, <3>1 DEF HandleLine, Had, Before, Typed, TypeOK, TransportTypeOK
        <3>2. CASE GiveUp(r) \/ Exit
            BY <1>0, <2>1, <3>2 DEF GiveUp, Exit, RejectThose, Had, Before, Typed, TypeOK,
                                    TransportTypeOK
        <3> QED  BY <2>1, <3>1, <3>2
    <2>2. ASSUME NEW r \in Requesters, Take(r) \/ Request(r) \/ UNCHANGED <<wire, answer>>
          PROVE  (wire'[f] = "ok" => wire[f] = "ok") /\ (answer'[f] = "ok" => answer[f] = "ok")
        BY <1>0, <2>2 DEF Take, Request, Before, Typed, TypeOK, TransportTypeOK
    <2>3. at'[f] = "judging" => at[f] = "judging" \/ answer[f] = "ok"
        BY <1>1, FetchMoves DEF Before, Reads, Answered
    <2>4. CASE \E r \in Requesters : Take(r) \/ Request(r) \/ UNCHANGED <<wire, answer>>
        BY <1>2, <1>4, <2>2, <2>3, <2>4 DEF Had
    <2>5. CASE Transporting
        BY <1>0, <1>2, <1>4, <2>1, <2>5 DEF Transporting
    <2>6. ASSUME NEW c \in Callers, \/ Begin(c) \/ Look(c) \/ Hit(c) \/ Shared(c) \/ Trusted(c)
                                    \/ Initialized(c) \/ CallReturns(c)
          PROVE  \E r \in Requesters : Take(r) \/ UNCHANGED <<wire, answer>>
        BY <2>6, Named DEF Begin, Look, Hit, Shared, gotFrame, Trusted, Initialized, CallReturns,
                           Ends, transportVars
    <2>7. ASSUME NEW g \in Fetches, Reads(g) \/ Stores(g) \/ Resolves(g)
          PROVE  \E r \in Requesters : Take(r) \/ UNCHANGED <<wire, answer>>
        BY <2>7 DEF Reads, Stores, Resolves, Ends, transportVars, Requesters
    <2>8. ASSUME NEW r \in Requesters, Send(r) \/ Challenged(r) \/ GivesUp(r)
          PROVE  Take(r) \/ Request(r)
        BY <2>8 DEF Send, Challenged, GivesUp, Ends
    <2>9. CASE Around \/ UNCHANGED vars
        <3>1. CASE UNCHANGED <<wire, answer>>
            BY <1>0, <2>4, <3>1
        <3> QED  BY <1>3, <2>5, <2>9, <3>1 DEF Around, ChangeTools, ListChanged, InvalidateTools,
                    Invalidates, Expire, vars, transportVars
    <2> QED  BY <2>4, <2>6, <2>7, <2>8, <2>9, Steps
<1> QED  BY <1>3, <1>4, Owners

\* What the client was told of, and how far the generations are.
LEMMA HeardSteps ==
    ASSUME Before, heard < Len(lists), [Next]_vars
    PROVE  /\ heard' < Len(lists') /\ heard <= heard' /\ Len(lists) <= Len(lists')
           /\ heard \in Nat /\ heard' \in Nat /\ Len(lists) \in Nat /\ Len(lists') \in Nat
           /\ \/ UNCHANGED <<heard, generation>>
              \/ /\ generation' = generation + 1 /\ cache' = NoTools
                 /\ UNCHANGED <<lists, at, built, served, tools, known, joined>>
<1>0. heard \in Nat /\ Len(lists) \in Nat /\ heard' \in Nat /\ Len(lists') \in Nat
    BY StepsTyped, BoundsAssumption DEF Before, Typed, TypeOK
<1>1. CASE ListChanged \/ InvalidateTools
    BY <1>0, <1>1 DEF ListChanged, InvalidateTools, Invalidates, serverVars, callerVars, fetchVars
<1>2. CASE UNCHANGED <<heard, generation>>
    <2>1. lists' = lists \/ \E l \in Lists : lists' = Append(lists, l)
        BY Owners DEF ChangeTools
    <2>2. Len(lists) <= Len(lists')
        BY <2>1 DEF Before, Typed, TypeOK
    <2> QED  BY <1>0, <1>2, <2>2
<1> QED  BY <1>1, <1>2, Owners

\* What a fetch in the current generation makes is new enough.
LEMMA StoresVersion ==
    ASSUME Before, Versions, NEW f \in Fetches, Stores(f)
    PROVE  \E o \in Fetches :
               /\ Made(o)' /\ built'[f] = o
               /\ born[f] = generation => cache' = o /\ served'[o] > heard
               /\ \A n \in Nat : served[f] > n /\ n <= heard => served'[o] > n
<1>0. Kept(f) \in Fetches /\ f \in Requesters /\ Kept(f) \in Requesters
    BY KeptTyped DEF Before, Requesters
<1>1. at[f] = "judging" /\ UNCHANGED <<served, lists>> /\ Goes(f, "reporting")
    BY DEF Stores, serverVars
<1>2. Had(f) /\ served[f] \in 1..Len(lists)
    BY <1>1 DEF Had, Versions, FetchVersions, Before, Typed, TypeOK
<1>3. built'[f] = Kept(f) /\ (born[f] = generation => cache' = Kept(f))
    BY DEF Stores, Before, Typed, TypeOK
<1>4. heard \in Nat /\ served[f] \in Nat /\ served[Kept(f)] \in Nat
    BY <1>0, BoundsAssumption DEF Before, Typed, TypeOK
<1>5. CASE Kept(f) = f
    <2>1. at'[f] = "reporting"
        BY <1>0, <1>1 DEF Goes, Before, Typed, TypeOK
    <2>2. born[f] = generation => served[f] > heard
        BY <1>2 DEF Versions, FetchVersions
    <2> QED  BY <1>0, <1>1, <1>2, <1>3, <1>5, <2>1, <2>2 DEF Made
<1>6. CASE Kept(f) # f
    <2>1. Kept(f) = cache /\ cache # NoTools
        BY <1>6 DEF Kept
    <2>2. Made(cache) /\ served[cache] > heard
        BY <2>1 DEF Versions, CacheVersion
    <2>3. cache # f
        BY <1>1, <2>2 DEF Made
    <2>4. at'[cache] = at[cache]
        BY <1>0, <1>1, <2>1, <2>3 DEF Goes, Before, Typed, TypeOK
    <2> QED  BY <1>1, <1>3, <1>4, <2>1, <2>2, <2>4 DEF Made
<1> QED  BY <1>5, <1>6

LEMMA FetchVersionSteps ==
    ASSUME Before, Versions, [Next]_vars
    PROVE  FetchVersions'
<1>0. /\ heard' < Len(lists') /\ heard <= heard' /\ Len(lists) <= Len(lists')
      /\ heard \in Nat /\ heard' \in Nat /\ Len(lists) \in Nat /\ Len(lists') \in Nat
      /\ \/ UNCHANGED <<heard, generation>>
         \/ /\ generation' = generation + 1 /\ cache' = NoTools
            /\ UNCHANGED <<lists, at, built, served, tools, known, joined>>
    BY HeardSteps DEF Versions
<1> SUFFICES ASSUME NEW f \in Fetches
             PROVE  /\ served'[f] <= Len(lists')
                    /\ Had(f)' => served'[f] > 0 /\ (born'[f] = generation' => served'[f] > heard')
                    /\ Over(f)' => /\ Made(built[f])'
                                   /\ born'[f] = generation' => served'[built'[f]] > heard'
    BY DEF FetchVersions
<1>1. /\ served[f] <= Len(lists) /\ served[f] \in Nat /\ born[f] <= generation
      /\ born[f] \in Nat /\ generation \in Nat
    BY BoundsAssumption DEF Versions, FetchVersions, Before, OneFetchInv, Typed, TypeOK
<1>2. served'[f] <= Len(lists')
    <2>1. CASE \E r \in Requesters, reply \in Replies : ServeRequest(r, reply)
        <3>1. served'[f] \in {served[f], Len(lists)} /\ lists' = lists
            BY <2>1 DEF ServeRequest, serverVars, Before, Typed, TypeOK
        <3> QED  BY <1>0, <1>1, <3>1
    <2> QED  BY <1>0, <1>1, <2>1, Owners
<1>3. ASSUME Had(f)'
      PROVE  served'[f] > 0 /\ (born'[f] = generation' => served'[f] > heard')
    <2>1. /\ born'[f] = born[f]
          /\ \/ Had(f) /\ served'[f] = served[f]
             \/ /\ served'[f] = Len(lists)
                /\ UNCHANGED <<lists, generation, heard, known, joined, at, built>>
        BY <1>3, HadSteps
    <2>2. Had(f) => served[f] > 0 /\ (born[f] = generation => served[f] > heard)
        BY DEF Versions, FetchVersions
    <2>3. heard < Len(lists)
        BY DEF Versions
    <2> QED  BY <1>0, <1>1, <2>1, <2>2, <2>3
<1>4. ASSUME Over(f)'
      PROVE  Made(built[f])' /\ (born'[f] = generation' => served'[built'[f]] > heard')
    <2>1. CASE Stores(f)
        <3>1. born' = born /\ UNCHANGED <<heard, generation>>
            BY <2>1 DEF Stores, serverVars
        <3>2. PICK o \in Fetches : /\ Made(o)' /\ built'[f] = o
                                   /\ born[f] = generation => served'[o] > heard
            BY <2>1, StoresVersion
        <3>3. Made(built[f])'
            BY <3>2 DEF Made
        <3> QED  BY <3>1, <3>2, <3>3
    <2>2. CASE ~Stores(f)
        <3>1. Over(f) /\ born'[f] = born[f]
            BY <1>4, <2>2, FetchMoves DEF Over, Before, Resolves
        <3>2. built'[f] = built[f]
            <4>1. ASSUME NEW g \in Fetches, Stores(g)
                  PROVE  built'[f] = built[f]
                BY <2>2, <4>1 DEF Stores, Before, Typed, TypeOK
            <4> QED  BY <4>1, Owners
        <3>3. Made(built[f]) /\ (born[f] = generation => served[built[f]] > heard)
            BY <3>1 DEF Versions, FetchVersions
        <3>4. /\ built'[f] \in Fetches /\ at'[built[f]] \in {"reporting", "done", "failed"}
              /\ served'[built[f]] = served[built[f]] /\ served'[built[f]] \in 1..Len(lists')
            BY <3>2, <3>3, MadeStays DEF Before, Made
        <3> QED  BY <1>0, <1>1, <3>1, <3>2, <3>3, <3>4 DEF Made
    <2> QED  BY <2>1, <2>2
<1> QED  BY <1>2, <1>3, <1>4

LEMMA CacheVersionSteps ==
    ASSUME Before, Versions, [Next]_vars
    PROVE  CacheVersion'
<1> SUFFICES ASSUME cache' # NoTools
             PROVE  Made(cache)' /\ served'[cache'] > heard'
    BY DEF CacheVersion
<1>1. UNCHANGED <<heard, generation>>
    BY HeardSteps DEF Versions
<1>2. CASE cache' = cache
    <2>1. Made(cache) /\ served[cache] > heard
        BY <1>2 DEF Versions, CacheVersion
    <2>2. Made(cache)' /\ served'[cache] = served[cache]
        <3>1. /\ at'[cache] \in {"reporting", "done", "failed"} /\ cache \in Fetches
              /\ served'[cache] = served[cache] /\ served'[cache] \in 1..Len(lists')
            BY <2>1, MadeStays DEF Before, Made
        <3> QED  BY <1>2, <3>1 DEF Made
    <2> QED  BY <1>1, <1>2, <2>1, <2>2
<1>3. ASSUME NEW f \in Fetches, Stores(f), cache' # cache
      PROVE  Made(cache)' /\ served'[cache'] > heard'
    <2>1. born[f] = generation
        BY <1>3 DEF Stores
    <2>2. PICK o \in Fetches : Made(o)' /\ cache' = o /\ served'[o] > heard
        BY <1>3, <2>1, StoresVersion
    <2>3. Made(cache)'
        BY <2>1, <2>2 DEF Made
    <2> QED  BY <1>1, <2>1, <2>2, <2>3
<1> QED  BY <1>2, <1>3, CacheChanges

LEMMA OnlyLookShares ==
    ASSUME Typed, [Next]_vars, NEW c \in Callers, ~Look(c), at'[c] = "shared"
    PROVE  at[c] = "shared"
<1>0. c \in Requesters
    BY Named
<1>1. ASSUME NEW r \in Requesters, NEW place, place # "shared", Goes(r, place)
      PROVE  at[c] = "shared"
    BY <1>0, <1>1 DEF Goes, Typed, TypeOK
<1>2. ASSUME NEW d \in Callers, Look(d), d # c
      PROVE  at[c] = "shared"
    <2>1. c # FetchOf(d) /\ d \in Requesters /\ FetchOf(d) \in Requesters
        BY Named DEF Requesters
    <2> QED  BY <1>0, <1>2, <2>1 DEF Look, Goes, Typed, TypeOK
<1>3. ASSUME NEW d \in Callers, \/ Begin(d) \/ Hit(d) \/ Shared(d) \/ Trusted(d)
                                \/ Initialized(d) \/ CallReturns(d)
      PROVE  \E place : place # "shared" /\ Goes(d, place)
    BY <1>3 DEF Begin, Hit, Shared, Trusted, Got, Decide, Initialized, CallReturns, Ends
<1>4. ASSUME NEW f \in Fetches, Reads(f) \/ Stores(f) \/ Resolves(f)
      PROVE  \E place : place # "shared" /\ Goes(f, place)
    BY <1>4 DEF Reads, Stores, Resolves, Ends
<1>5. ASSUME NEW r \in Requesters, Send(r) \/ Challenged(r) \/ GivesUp(r)
      PROVE  \E place : place # "shared" /\ Goes(r, place)
    BY <1>5 DEF Send, Challenged, GivesUp, Ends
<1>6. ASSUME Around \/ UNCHANGED vars
      PROVE  at' = at
    BY <1>6 DEF Around, ServeRequest, ChangeTools, ListChanged, InvalidateTools, Invalidates,
                Expire, Transporting, vars
<1> QED  BY <1>1, <1>2, <1>3, <1>4, <1>5, <1>6, Steps DEF Requesters

\* A list object of a caller, however it came by it.
LEMMA CallerVersionSteps ==
    ASSUME Before, Versions, [Next]_vars
    PROVE  CallerVersions'
<1>0. /\ heard <= heard' /\ heard \in Nat /\ heard' \in Nat
      /\ \A c \in Callers : known[c] \in Nat /\ known[c] <= heard
    BY HeardSteps, BoundsAssumption DEF Before, Typed, TypeOK, Versions, CallerVersions
<1> SUFFICES ASSUME NEW c \in Callers
             PROVE  /\ known'[c] <= heard'
                    /\ tools'[c] # NoTools => Made(tools[c])' /\ served'[tools'[c]] > known'[c]
                    /\ at'[c] = "shared" =>
                          /\ at'[joined'[c]] # "ready"
                          /\ Had(joined[c])' => served'[joined'[c]] > known'[c]
                          /\ Over(joined[c])' => served'[built'[joined'[c]]] > known'[c]
    BY DEF CallerVersions
<1>1. CASE Look(c)
    <2>1. /\ UNCHANGED <<heard, served, lists, built, tools, generation, wire, answer>>
          /\ known'[c] = heard \/ (again[c] /\ known' = known)
        BY <1>1 DEF Look, transportVars, serverVars, Before, Typed, TypeOK
    <2>2. known'[c] <= heard /\ (tools[c] # NoTools => known' = known)
        BY <1>0, <1>1, <2>1 DEF Look, Before, Looks, LooksFor
    <2>3. tools'[c] # NoTools => Made(tools[c])' /\ served'[tools'[c]] > known'[c]
        <3>1. ASSUME tools[c] # NoTools
              PROVE  Made(tools[c])' /\ served[tools[c]] > known[c]
            <4>1. Made(tools[c]) /\ served[tools[c]] > known[c]
                BY <3>1 DEF Versions, CallerVersions
            <4>2. at'[tools[c]] \in {"reporting", "done", "failed"}
                BY <4>1, MadeStays DEF Before, Made
            <4> QED  BY <2>1, <4>1, <4>2 DEF Made
        <3> QED  BY <2>1, <2>2, <3>1
    <2>4. ASSUME at'[c] = "shared"
          PROVE  /\ at'[joined'[c]] # "ready"
                 /\ Had(joined[c])' => served'[joined'[c]] > known'[c]
                 /\ Over(joined[c])' => served'[built'[joined'[c]]] > known'[c]
        <3>0. c \in Requesters /\ c # FetchOf(c) /\ FetchOf(c) \in Fetches /\ FetchOf(c) \in Requesters
            BY Named DEF Requesters
        <3>1. CASE Goes(c, "hit")
            BY <2>4, <3>0, <3>1 DEF Goes, Before, Typed, TypeOK
        <3>2. CASE /\ pendingTools # NoTools /\ Goes(c, "shared") /\ UNCHANGED <<pendingTools, born>>
                   /\ joined' = [joined EXCEPT ![c] = pendingTools']
            <4>1. PICK f \in Fetches : f = pendingTools
                BY <3>2 DEF Before, Typed, TypeOK
            <4>2. joined'[c] = f /\ at'[f] = at[f] /\ born[f] = generation /\ Running(f)
                BY <3>0, <3>2, <4>1, CallerMoves DEF Before, Typed, TypeOK, OneFetchInv
            <4>3. /\ Had(f) => served[f] > heard
                  /\ Over(f) => served[built[f]] > heard
                BY <4>2 DEF Versions, FetchVersions
            <4>4. served[f] \in Nat /\ (Over(f) => served[built[f]] \in Nat) /\ known'[c] \in Nat
                BY <1>0, <2>1, BoundsAssumption DEF Before, Typed, TypeOK, BuiltWhenDone, Over
            <4> QED  BY <1>0, <2>1, <2>2, <4>2, <4>3, <4>4 DEF Had, Over, Running
        <3>3. CASE /\ at' = [at EXCEPT ![c] = "shared", ![FetchOf(c)] = "token"]
                   /\ pendingTools' = FetchOf(c)
                   /\ joined' = [joined EXCEPT ![c] = pendingTools']
            <4>1. joined'[c] = FetchOf(c) /\ at'[FetchOf(c)] = "token"
                BY <3>0, <3>3 DEF Before, Typed, TypeOK
            <4>2. wire'[FetchOf(c)] # "ok" /\ answer'[FetchOf(c)] # "ok"
                BY <1>1, <2>1, <3>0, LooksAfterLook DEF Before, Idle, IdleFor
            <4> QED  BY <4>1, <4>2 DEF Had, Over
        <3> QED  BY <1>1, <3>1, <3>2, <3>3 DEF Look
    <2> QED  BY <1>0, <2>1, <2>2, <2>3, <2>4
<1>2. CASE ~Look(c)
    <2>1. known'[c] = known[c] /\ joined'[c] = joined[c]
        <3>1. ASSUME NEW d \in Callers, Look(d)
              PROVE  known'[c] = known[c] /\ joined'[c] = joined[c]
            BY <1>2, <3>1 DEF Look, Before, Typed, TypeOK
        <3> QED  BY <3>1, Owners
    <2>2. tools'[c] # NoTools => Made(tools[c])' /\ served'[tools'[c]] > known'[c]
        <3>1. ASSUME NEW o, Made(o), served[o] > known[c], tools'[c] = o
              PROVE  Made(tools[c])' /\ served'[tools'[c]] > known'[c]
            <4>1. Made(o)' /\ served'[o] = served[o]
                BY <3>1, MadeStays DEF Before
            <4> QED  BY <2>1, <3>1, <4>1 DEF Made
        <3>2. CASE tools'[c] = tools[c]
            BY <3>1, <3>2 DEF Versions, CallerVersions
        <3>3. CASE Hit(c) /\ tools'[c] = cache /\ cache # NoTools
            <4>1. Made(cache) /\ served[cache] > heard
                BY <3>3 DEF Versions, CacheVersion
            <4>2. served[cache] > known[c]
                BY <1>0, <4>1, BoundsAssumption DEF Made, Before, Typed, TypeOK
            <4> QED  BY <3>1, <3>3, <4>1, <4>2
        <3>4. CASE Shared(c) /\ at[joined[c]] = "done" /\ tools'[c] = built[joined[c]]
            <4>1. joined[c] \in Fetches /\ at[c] = "shared"
                BY <3>4 DEF Shared, Before, Typed, JoinersJoined
            <4>2. Made(built[joined[c]]) /\ served[built[joined[c]]] > known[c]
                BY <3>4, <4>1 DEF Versions, FetchVersions, CallerVersions, Over
            <4> QED  BY <3>1, <3>4, <4>2
        <3>5. ASSUME NEW d \in Callers, Hit(d) \/ Shared(d)
              PROVE  \/ tools'[c] = tools[c]
                     \/ Hit(c) /\ tools'[c] = cache /\ cache # NoTools
                     \/ Shared(c) /\ at[joined[c]] = "done" /\ tools'[c] = built[joined[c]]
            BY <3>5 DEF Hit, Shared, Got, Before, Typed, TypeOK
        <3> QED  BY <3>2, <3>3, <3>4, <3>5, Owners
    <2>3. ASSUME at'[c] = "shared"
          PROVE  /\ at'[joined'[c]] # "ready"
                 /\ Had(joined[c])' => served'[joined'[c]] > known'[c]
                 /\ Over(joined[c])' => served'[built'[joined'[c]]] > known'[c]
        <3>1. at[c] = "shared"
            BY <1>2, <2>3, OnlyLookShares DEF Before
        <3>2. PICK f \in Fetches : f = joined[c]
            BY <3>1 DEF Before, Typed, JoinersJoined
        <3>3. /\ at[f] # "ready"
              /\ Had(f) => served[f] > known[c]
              /\ Over(f) => served[built[f]] > known[c]
            BY <3>1, <3>2 DEF Versions, CallerVersions
        <3>4. at'[f] # "ready"
            BY <3>3, FetchMoves DEF Before
        <3>5. Had(f)' => served'[f] > known[c]
            <4>1. Len(lists) > known[c]
                BY <1>0, HeardSteps DEF Versions
            <4> QED  BY <3>3, <4>1, HadSteps
        <3>6. Over(f)' => served'[built'[f]] > known[c]
            <4>1. CASE Stores(f)
                <5>1. served[f] > known[c]
                    BY <3>3, <4>1 DEF Stores, Had
                <5> QED  BY <1>0, <4>1, <5>1, StoresVersion
            <4>2. CASE ~Stores(f) /\ Over(f)'
                <5>1. Over(f)
                    BY <4>2, FetchMoves DEF Over, Before, Resolves
                <5>2. built'[f] = built[f]
                    <6>1. ASSUME NEW g \in Fetches, Stores(g)
                          PROVE  built'[f] = built[f]
                        BY <4>2, <6>1 DEF Stores, Before, Typed, TypeOK
                    <6> QED  BY <6>1, Owners
                <5>3. Made(built[f])
                    BY <5>1 DEF Versions, FetchVersions
                <5>4. served'[built[f]] = served[built[f]]
                    BY <5>3, MadeStays DEF Before
                <5> QED  BY <3>3, <5>1, <5>2, <5>4
            <4> QED  BY <4>1, <4>2
        <3> QED  BY <2>1, <3>2, <3>4, <3>5, <3>6 DEF Had, Over
    <2> QED  BY <1>0, <2>1, <2>2, <2>3
<1> QED  BY <1>1, <1>2

LEMMA VersionsInit == Init => Versions
<1> SUFFICES ASSUME Init PROVE Versions
    OBVIOUS
<1>1. Len(lists) = 1 /\ heard = 0
    BY DEF Init
<1>2. \A r \in Requesters : at[r] = "ready" /\ wire[r] = "none" /\ answer[r] = "none"
    BY DEF Init, TransportInit
<1>3. FetchVersions
    BY <1>1, <1>2 DEF Init, FetchVersions, Had, Over, Requesters
<1>4. \A c \in Callers : at[c] = "ready" /\ known[c] = 0 /\ tools[c] = NoTools
    BY <1>2 DEF Init, Requesters
<1>5. \A c \in Callers : known[c] <= heard /\ tools[c] = NoTools /\ at[c] # "shared"
    <2> TAKE c \in Callers
    <2>1. at[c] # "shared" /\ tools[c] = NoTools
        BY <1>4
    <2>2. known[c] = 0 /\ heard = 0
        BY <1>1, <1>4
    <2>3. known[c] <= heard
        BY <2>2
    <2> QED  BY <2>1, <2>3
<1>6. CallerVersions
    BY ONLY <1>5 DEF CallerVersions
<1> QED  BY <1>1, <1>3, <1>6 DEF Init, Versions, CacheVersion

LEMMA VersionSteps ==
    ASSUME Before, Versions, [Next]_vars
    PROVE  Versions'
BY HeardSteps, FetchVersionSteps, CacheVersionSteps, CallerVersionSteps DEF Versions

LEMMA AlwaysBefore == Spec => []Before
<1>1. Init => BuiltWhenDone /\ Looks /\ Idle
    BY BuiltInit, LooksInit, IdleInit
<1>2. Typed /\ BuiltWhenDone /\ Looks /\ Idle /\ [Next]_vars => (BuiltWhenDone /\ Looks /\ Idle)'
    BY BuiltSteps, LooksSteps, IdleSteps
<1>3. Typed /\ OneFetchInv /\ BuiltWhenDone /\ Looks /\ Idle => Before
    BY DEF Before
<1> QED  BY <1>1, <1>2, <1>3, AlwaysTyped, AlwaysOneFetch, PTL DEF Spec

LEMMA AlwaysVersions == Spec => []Versions
<1>1. Before /\ Versions /\ [Next]_vars => Versions'
    BY VersionSteps
<1> QED  BY <1>1, VersionsInit, AlwaysBefore, PTL DEF Spec

\* However fetches, invalidations and notifications interleave, what a caller
\* gets and what the cache holds is no older than what the client was told.
THEOREM AnswersAreNotOlder == Spec => []AnswersNotOlder
<1>1. Typed /\ Versions => AnswersNotOlder
    <2> SUFFICES ASSUME Typed, Versions PROVE AnswersNotOlder
        OBVIOUS
    <2>1. heard \in Nat /\ \A c \in Callers : known[c] \in Nat
        BY BoundsAssumption DEF Typed, TypeOK
    <2>2. \A o \in Fetches : served[o] \in Nat
        BY BoundsAssumption DEF Typed, TypeOK
    <2>3. cache # NoTools => Version(cache) >= heard
        BY <2>1, <2>2 DEF Versions, CacheVersion, Version, Made
    <2>4. \A c \in Callers : tools[c] # NoTools => Version(tools[c]) >= known[c]
        BY <2>1, <2>2 DEF Versions, CallerVersions, Version, Made
    <2> QED  BY <2>3, <2>4 DEF AnswersNotOlder
<1> QED  BY <1>1, AlwaysTyped, AlwaysVersions, PTL

-----------------------------------------------------------------------------
(* Calls and the descriptor they were judged by. *)

JudgedFor(c) ==
    tools[c] # NoTools /\ at[c] \notin {"done", "failed", "crashed"} =>
        /\ Content(tools[c]) \in Offering
        /\ bounded /\ at[c] \in {"token", "asked"} => Content(tools[c]) \in Permitted

Judged == \A c \in Callers : JudgedFor(c)

LEMMA JudgedInit == Init => Judged
BY DEF Init, Judged, JudgedFor

\* A caller that did not get a list in this step and stays on its way, or goes
\* on to a place where more is asked of it after a verdict.
LEMMA JudgedStays ==
    ASSUME Before, Versions, Judged, [Next]_vars, NEW c \in Callers, tools'[c] = tools[c],
           \/ at'[c] = at[c]
           \/ at'[c] \in {"done", "failed", "crashed"}
           \/ /\ at[c] \notin {"done", "failed", "crashed"}
              /\ \/ at'[c] \notin {"token", "asked"} \/ at[c] \in {"token", "asked"} \/ ~bounded
                 \/ Content(tools[c]) \in Permitted
    PROVE  JudgedFor(c)'
<1> SUFFICES ASSUME tools'[c] # NoTools, at'[c] \notin {"done", "failed", "crashed"}
             PROVE  /\ Content(tools[c])' \in Offering
                    /\ bounded' /\ at'[c] \in {"token", "asked"} => Content(tools[c])' \in Permitted
    BY DEF JudgedFor
<1>1. PICK o \in Fetches : o = tools[c] /\ Made(o)
    BY DEF Versions, CallerVersions, Made
<1>2. Content(o)' = Content(o)
    BY <1>1, MadeStays DEF Before
<1>3. Content(tools[c])' = Content(tools[c])
    BY <1>1, <1>2 DEF Content
<1>4. bounded' = bounded
    BY Owners
<1>5. at[c] \notin {"done", "failed", "crashed"}
    OBVIOUS
<1>6. Content(tools[c]) \in Offering /\ (bounded /\ at[c] \in {"token", "asked"} => Content(tools[c]) \in Permitted)
    BY <1>5 DEF Judged, JudgedFor
<1> QED  BY <1>3, <1>4, <1>6

\* listTools() returns o to caller c.
LEMMA JudgedWhenGot ==
    ASSUME Before, Versions, Judged, [Next]_vars, NEW c \in Callers, at[c] \in {"hit", "shared"},
           NEW o \in Fetches, Made(o), Got(c, o)
    PROVE  JudgedFor(c)'
<1>0. c \in Requesters
    BY Named
<1>1. CASE again[c]
    <2>1. /\ tools'[c] = tools[c]
          /\ \/ at'[c] = "failed"
             \/ Content(tools[c]) \in Permitted
        BY <1>0, <1>1 DEF Got, Decide, Goes, Before, Typed, TypeOK
    <2> QED  BY <2>1, JudgedStays
<1>2. CASE ~again[c]
    <2>1. /\ tools'[c] = o
          /\ \/ at'[c] \in {"done", "failed"}
             \/ at'[c] = "trusting" /\ Content(o) \in Offering
        BY <1>0, <1>2 DEF Got, Goes, Before, Typed, TypeOK
    <2>2. Content(o)' = Content(o)
        BY MadeStays DEF Before
    <2>3. Content(tools[c])' = Content(o)
        BY <2>1, <2>2 DEF Content
    <2> QED  BY <2>1, <2>3 DEF JudgedFor
<1> QED  BY <1>1, <1>2

LEMMA JudgedSteps ==
    ASSUME Before, Versions, Judged, [Next]_vars, NEW c \in Callers
    PROVE  JudgedFor(c)'
<1>0. c \in Requesters /\ LooksFor(c)
    BY Named DEF Before, Looks
<1>1. ASSUME NEW r \in Requesters, r # c, NEW place, Goes(r, place), tools'[c] = tools[c]
      PROVE  JudgedFor(c)'
    BY <1>0, <1>1, JudgedStays DEF Goes, Before, Typed, TypeOK
<1>2. ASSUME NEW d \in Callers, Begin(d) \/ Trusted(d) \/ Hit(d) \/ Shared(d), d # c
      PROVE  JudgedFor(c)'
    <2>1. tools'[c] = tools[c] /\ \E place : Goes(d, place)
        BY <1>2 DEF Begin, Trusted, Hit, Shared, Got, Decide, callerVars, Before, Typed, TypeOK
    <2> QED  BY <1>1, <1>2, <2>1, Named
<1>3. ASSUME NEW d \in Callers, Look(d)
      PROVE  JudgedFor(c)'
    <2>1. tools' = tools /\ d \in Requesters /\ FetchOf(d) \in Requesters /\ c # FetchOf(d) /\ d # FetchOf(d)
        BY <1>3, Named DEF Look, Requesters
    <2>2. at'[c] = at[c] \/ (at[c] \in {"ready", "looking"} /\ at'[c] \in {"hit", "shared"})
        BY <1>0, <1>3, <2>1 DEF Look, Goes, Before, Typed, TypeOK
    <2> QED  BY <2>1, <2>2, JudgedStays
<1>4. CASE Begin(c)
    <2>1. tools' = tools /\ tools[c] = NoTools
        BY <1>0, <1>4 DEF Begin, callerVars, LooksFor
    <2> QED  BY <2>1 DEF JudgedFor
<1>5. CASE Trusted(c)
    <2>1. /\ tools'[c] = tools[c] /\ at[c] = "trusting"
          /\ \/ at'[c] \in {"failed", "looking"} \/ ~bounded
             \/ Content(tools[c]) \in Permitted
        BY <1>0, <1>5 DEF Trusted, Decide, Goes, Before, Typed, TypeOK
    <2> QED  BY <2>1, JudgedStays
<1>6. CASE Hit(c)
    <2>1. CASE cache = NoTools
        <3>1. tools' = tools /\ at'[c] = "crashed"
            BY <1>0, <1>6, <2>1 DEF Hit, Goes, Before, Typed, TypeOK
        <3> QED  BY <3>1, JudgedStays
    <2>2. CASE cache # NoTools
        <3>1. PICK o \in Fetches : o = cache /\ Made(o)
            BY <2>2 DEF Versions, CacheVersion, Made
        <3> QED  BY <1>6, <2>2, <3>1, JudgedWhenGot DEF Hit
    <2> QED  BY <2>1, <2>2
<1>7. CASE Shared(c)
    <2>1. CASE at[joined[c]] = "failed" /\ Goes(c, "failed") /\ UNCHANGED tools
        <3>1. tools' = tools /\ at'[c] = "failed"
            BY <1>0, <2>1 DEF Goes, Before, Typed, TypeOK
        <3> QED  BY <3>1, JudgedStays
    <2>2. CASE at[joined[c]] = "done" /\ Got(c, built[joined[c]])
        <3>1. joined[c] \in Fetches
            BY <1>7 DEF Shared, Before, Typed, JoinersJoined
        <3>2. PICK o \in Fetches : o = built[joined[c]] /\ Made(o)
            BY <2>2, <3>1 DEF Versions, FetchVersions, Over, Made
        <3> QED  BY <1>7, <2>2, <3>2, JudgedWhenGot DEF Shared
    <2> QED  BY <1>7, <2>1, <2>2 DEF Shared
<1>8. ASSUME NEW r \in Requesters, NEW place,
             \/ Send(r) /\ place = "asked"
             \/ Challenged(r) /\ place = "token"
             \/ GivesUp(r) /\ place = "failed"
             \/ r \in Callers /\ Initialized(r) /\ place = "looking"
             \/ r \in Callers /\ CallReturns(r) /\ place = "done"
      PROVE  JudgedFor(c)'
    <2>1. /\ tools' = tools /\ Goes(r, place)
          /\ place \in {"asked", "token", "looking"} => at[r] \in {"asked", "token"}
          /\ place \in {"asked", "token", "looking", "failed", "done"}
        BY <1>8 DEF Send, Challenged, GivesUp, Initialized, CallReturns, Ends, Answered, callerVars
    <2>2. CASE r = c
        <3>1. at'[c] = place
            BY <1>0, <2>1, <2>2 DEF Goes, Before, Typed, TypeOK
        <3> QED  BY <2>1, <2>2, <3>1, JudgedStays
    <2> QED  BY <1>1, <2>1, <2>2
<1>9. ASSUME NEW f \in Fetches, Reads(f) \/ Stores(f) \/ Resolves(f)
      PROVE  JudgedFor(c)'
    <2>1. tools' = tools /\ f \in Requesters /\ f # c /\ \E place : Goes(f, place)
        BY <1>9, Named DEF Reads, Stores, Resolves, Ends, callerVars, Requesters
    <2> QED  BY <1>1, <2>1
<1>10. ASSUME Around \/ UNCHANGED vars
       PROVE  JudgedFor(c)'
    <2>1. UNCHANGED <<at, tools>>
        BY <1>10 DEF Around, ServeRequest, ChangeTools, ListChanged, InvalidateTools, Invalidates,
                     Expire, Transporting, vars, callerVars
    <2> QED  BY <2>1, JudgedStays
<1> QED  BY <1>2, <1>3, <1>4, <1>5, <1>6, <1>7, <1>8, <1>9, <1>10, Steps DEF Requesters

LEMMA AlwaysJudged == Spec => []Judged
<1>1. Before /\ Versions /\ Judged /\ [Next]_vars => Judged'
    BY JudgedSteps DEF Judged
<1> QED  BY <1>1, JudgedInit, AlwaysBefore, AlwaysVersions, PTL DEF Spec

\* However often the list is replaced while trust and policy are awaited, a
\* call is sent with a tool its caller was shown, and inside a boundary with
\* the very descriptor the boundary permits.
THEOREM CallsGoAsJudged == Spec => []CallsAsJudged
<1>1. Judged => CallsAsJudged
    BY DEF Judged, JudgedFor, CallsAsJudged, Calling
<1> QED  BY <1>1, AlwaysJudged, PTL
=============================================================================
