------------------------- MODULE RealtimeSession_proofs -------------------------
(***************************************************************************)
(* Proofs about RealtimeSession: what the provider is sent, for any number *)
(* of streams, each iterating the transport's events anew, and what the    *)
(* handlers of the application are run for.                                *)
(***************************************************************************)
EXTENDS RealtimeSession, TLAPS

Items == {"command", "result"} \X Nat \X (Streams \cup {None})
Answering == {"answer", "answerLast"}
Resting == Ended \cup {"pull"}
Places == Yields \cup Resting \cup Answering \cup {"policy", "ticket", "acquire", "handler"}
Keys == {None} \cup {ApprovalKey(def) : def \in Definitions}

StreamRecord ==
    [at : Places, call : Nat, kind : Kinds, judged : Definitions \cup {None}, user : Verdicts \cup {"none"},
     package : Verdicts, ticket : {"none", "pending", "approved", "denied"}, key : Keys,
     previous : SUBSET Keys, denied : BOOLEAN, pos : Nat]

\* The types of what the properties are about.
Typed ==
    /\ accepted \in Seq(Items) /\ took \in Seq(Items)
    /\ settled \in Nat /\ brokenAt \in Nat /\ inFlight \in BOOLEAN
    /\ events \in Seq(Kinds) /\ pulled \in [Streams -> Nat]
    /\ tool \in Definitions /\ keys \in SUBSET Keys
    /\ stream \in [Streams -> StreamRecord]

\* A decision is waited for where it was asked for.
AskedOnce == \A s \in Streams : stream[s].ticket = "pending" => stream[s].at \in {"asked", "ticket"}

LEMMA StreamsStart == Fresh \in StreamRecord
  BY DEF Fresh, StreamRecord, Places, Resting, Ended, Kinds, Verdicts, Keys

LEMMA VerdictsOnly ==
  ASSUME NEW frames, NEW request
  PROVE  PackageDecision(frames, request) \in Verdicts
  BY DEF PackageDecision, Verdicts

\* What a step of stream s may do to what is sent, unless it pulls a call or answers one: the call
\* stays until the stream rests, and an answer is tried again only when its send was rejected.
MovesOn(s) ==
    /\ UNCHANGED <<accepted, took, settled, brokenAt, inFlight, events, pulled, tool>>
    /\ stream' = [stream EXCEPT ![s] = stream'[s]]
    /\ stream'[s] \in StreamRecord
    /\ stream'[s].at \notin Resting =>
          /\ stream[s].at \notin Resting
          /\ stream'[s].call = stream[s].call
          /\ stream'[s].at \notin Answering
          /\ stream[s].at \in Answering => SendState(stream[s].pos) = "rejected"

LEMMA GoesTyped ==
  ASSUME Typed, NEW s \in Streams, NEW to \in Places, Goes(s, to)
  PROVE  /\ stream' = [stream EXCEPT ![s] = stream'[s]]
         /\ stream'[s] \in StreamRecord
         /\ stream'[s].at = to
         /\ to \notin Resting => stream'[s].call = stream[s].call
         /\ to \notin Resting \cup Answerable => stream'[s] = [stream[s] EXCEPT !.at = to]
         /\ to \in Resting \cup Answerable => stream'[s].key = None /\ stream'[s].ticket = "none"
         /\ stream'[s].ticket \in {stream[s].ticket, "none"}
  <1> DEFINE asked == [stream[s] EXCEPT !.at = to]
             known == [Fresh EXCEPT !.at = to, !.call = stream[s].call]
             over == [Fresh EXCEPT !.at = to]
             next == CASE to \in Resting -> over [] to \in Answerable -> known [] OTHER -> asked
  <1>1. stream \in [Streams -> StreamRecord] /\ stream[s] \in StreamRecord /\ Fresh \in StreamRecord
    BY StreamsStart DEF Typed
  <1>2. /\ asked \in StreamRecord /\ asked.at = to /\ asked.call = stream[s].call /\ asked.ticket = stream[s].ticket
        /\ known \in StreamRecord /\ known.at = to /\ known.call = stream[s].call /\ known.key = None /\ known.ticket = "none"
        /\ over \in StreamRecord /\ over.at = to /\ over.key = None /\ over.ticket = "none"
    <2>1. Fresh.key = None /\ Fresh.ticket = "none"
      BY DEF Fresh
    <2> QED  BY <1>1, <2>1 DEF StreamRecord
  <1>3. stream' = [stream EXCEPT ![s] = next]
    BY DEF Goes, Resting
  <1>4. Resting \cap Answerable = {}
    BY DEF Resting, Ended, Answerable
  <1> HIDE DEF asked, known, over
  <1>5. stream'[s] = next /\ stream' = [stream EXCEPT ![s] = stream'[s]]
    BY <1>1, <1>3
  <1> QED  BY <1>2, <1>4, <1>5 DEF asked

LEMMA GoesOn ==
  ASSUME Typed, NEW s \in Streams, NEW to \in Places \ Answering, Goes(s, to),
         UNCHANGED <<accepted, took, settled, brokenAt, inFlight, events, pulled, tool>>,
         stream[s].at \notin Resting \/ to \in Resting,
         stream[s].at \in Answering => to \in Resting \/ SendState(stream[s].pos) = "rejected"
  PROVE  MovesOn(s)
  BY GoesTyped DEF MovesOn

LEMMA RefusedCall ==
  ASSUME Typed, NEW s \in Streams, Refuse(s)
  PROVE  /\ stream' = [stream EXCEPT ![s] = stream'[s]] /\ stream'[s] \in StreamRecord
         /\ stream'[s].at = "reported" /\ stream'[s].call = stream[s].call
         /\ stream'[s].key = None /\ stream'[s].ticket = "none"
  <1> DEFINE new == [Fresh EXCEPT !.at = "reported", !.call = stream[s].call, !.denied = TRUE]
  <1>1. stream \in [Streams -> StreamRecord] /\ stream[s] \in StreamRecord /\ Fresh \in StreamRecord
    BY StreamsStart DEF Typed
  <1>2. Fresh.key = None /\ Fresh.ticket = "none"
    BY DEF Fresh
  <1>3. /\ new \in StreamRecord /\ new.at = "reported" /\ new.call = stream[s].call
        /\ new.key = None /\ new.ticket = "none"
    BY <1>1, <1>2 DEF StreamRecord, Places, Yields
  <1>4. stream' = [stream EXCEPT ![s] = new]
    BY DEF Refuse
  <1> HIDE DEF new
  <1> QED  BY <1>1, <1>3, <1>4

LEMMA SimpleMoves ==
  ASSUME Typed, NEW s \in Streams,
         Open(s) \/ SourceEnds(s) \/ Leave(s) \/ PassOver(s) \/ AwaitDecision(s) \/ Run(s) \/ ReportRejection(s)
  PROVE  MovesOn(s)
  <1> USE DEF StreamOnly, duplexVars, chainVars
  <1>0. stream[s] \in StreamRecord
    BY DEF Typed
  <1>1. CASE Open(s)
    BY <1>1, GoesTyped DEF Open, MovesOn, Places, Resting, Ended
  <1>2. CASE SourceEnds(s)
    BY <1>2, GoesTyped DEF SourceEnds, MovesOn, Places, Resting, Ended
  <1>3. CASE Leave(s)
    BY <1>3, GoesTyped DEF Leave, MovesOn, Places, Resting, Ended
  <1>4. CASE PassOver(s)
    <2>1. PICK to \in {"unnamed", "pull"} : Goes(s, to)
      BY <1>4 DEF PassOver
    <2> QED  BY <1>4, <2>1, GoesOn DEF PassOver, Places, Resting, Ended, Yields, Answering
  <1>5. CASE AwaitDecision(s)
    <2>1. PICK to \in {"ticket", "decided", "started", "refused"} : Goes(s, to)
      BY <1>5 DEF AwaitDecision
    <2> QED  BY <1>5, <2>1, GoesOn DEF AwaitDecision, Places, Resting, Ended, Yields, Answering
  <1>6. CASE Run(s)
    BY <1>6, GoesOn DEF Run, Places, Resting, Ended, Yields, Answering
  <1>7. CASE ReportRejection(s)
    BY <1>7, GoesOn DEF ReportRejection, Places, Resting, Ended, Yields, Answering
  <1> QED  BY <1>1, <1>2, <1>3, <1>4, <1>5, <1>6, <1>7

LEMMA CallMoves ==
  ASSUME Typed, AskedOnce, NEW s \in Streams,
         \/ Judge(s) \/ Dispatch(s) \/ Refuse(s) \/ HandlerSettles(s) \/ AnswerSettles(s)
         \/ \E user \in Verdicts : PolicyAnswers(s, user)
         \/ \E decision \in {"approved", "denied"} : Decide(s, decision)
  PROVE  MovesOn(s)
  <1> USE DEF StreamOnly, duplexVars, chainVars
  <1>0. stream[s] \in StreamRecord /\ stream \in [Streams -> StreamRecord] /\ tool \in Definitions /\ keys \in SUBSET Keys
    BY DEF Typed
  <1>1. CASE Judge(s)
    <2> DEFINE verdict == IF stream[s].kind = "call" THEN PackageVerdict(tool) ELSE PackageDecision(Frames, Minimal)
    <2>1. verdict \in Verdicts
      BY VerdictsOnly DEF PackageVerdict
    <2> DEFINE new == [stream[s] EXCEPT !.judged = IF Enforced /\ stream[s].kind = "call" THEN tool ELSE None,
                                        !.package = IF verdict = "deny" THEN "allow" ELSE verdict,
                                        !.at = IF verdict = "deny" THEN "started" ELSE "policy"]
    <2> HIDE DEF verdict
    <2>2. stream' = [stream EXCEPT ![s] = new]
      BY <1>0, <1>1 DEF Judge, verdict
    <2>3. new \in StreamRecord /\ new.call = stream[s].call /\ new.at \in {"started", "policy"}
      <3>1. (IF Enforced /\ stream[s].kind = "call" THEN tool ELSE None) \in Definitions \cup {None}
        BY <1>0
      <3>2. {"started", "policy"} \subseteq Places
        BY DEF Places, Yields
      <3>3. (IF verdict = "deny" THEN "allow" ELSE verdict) \in Verdicts
        BY <2>1 DEF Verdicts
      <3> QED  BY <1>0, <3>1, <3>2, <3>3 DEF StreamRecord
    <2>4. stream[s].at = "event"
      BY <1>1 DEF Judge
    <2> QED  BY <1>0, <1>1, <2>2, <2>3, <2>4 DEF Judge, MovesOn, Resting, Ended, Answering
  <1>2. CASE Dispatch(s)
    BY <1>0, <1>2 DEF Dispatch, MovesOn, Places, Resting, Ended, Yields, Answering, StreamRecord
  <1>3. CASE Refuse(s)
    BY <1>3, RefusedCall DEF Refuse, MovesOn, Resting, Ended, Answering
  <1>4. CASE HandlerSettles(s)
    <2>1. PICK to \in {"reported", "failing"} : Goes(s, to)
      BY <1>4 DEF HandlerSettles
    <2> QED  BY <1>4, <2>1, GoesOn DEF HandlerSettles, Places, Resting, Ended, Yields, Answering
  <1>5. CASE AnswerSettles(s)
    <2>1. PICK to \in {"pull", "failing", "over"} :
            Goes(s, to) /\ (to = "failing" => SendState(stream[s].pos) = "rejected")
      BY <1>5 DEF AnswerSettles, SendState
    <2> QED  BY <1>5, <2>1, GoesOn DEF AnswerSettles, Places, Resting, Ended, Yields, Answering
  <1>6. ASSUME NEW user \in Verdicts, PolicyAnswers(s, user) PROVE MovesOn(s)
    <2> DEFINE verdict == Combined(stream[s].package, user)
    <2>1. verdict \in Verdicts
      BY <1>0 DEF Combined, StreamRecord
    <2>2. PendingKey(s) \in Keys
      BY <1>0 DEF PendingKey, Keys, StreamRecord
    <2> DEFINE new == [stream[s] EXCEPT !.user = user,
                      !.at = CASE verdict = "allow" -> "started" [] verdict = "deny" -> "refused" [] OTHER -> "asked",
                      !.ticket = IF verdict = "require_approval" THEN "pending" ELSE @,
                      !.key = IF verdict = "require_approval" THEN PendingKey(s) ELSE None]
    <2>3. stream' = [stream EXCEPT ![s] = new]
      BY <1>0, <1>6 DEF PolicyAnswers
    <2> HIDE DEF verdict
    <2>4. new \in StreamRecord /\ new.call = stream[s].call /\ new.at \in {"started", "refused", "asked"}
      BY <1>0, <2>1, <2>2 DEF StreamRecord, Places, Yields, Verdicts, Keys
    <2>5. stream[s].at = "policy"
      BY <1>6 DEF PolicyAnswers
    <2> QED  BY <1>0, <1>6, <2>3, <2>4, <2>5 DEF PolicyAnswers, MovesOn, Resting, Ended, Answering
  <1>7. ASSUME NEW decision \in {"approved", "denied"}, Decide(s, decision) PROVE MovesOn(s)
    BY <1>0, <1>7 DEF Decide, AskedOnce, MovesOn, Resting, Ended, Answering, StreamRecord
  <1> QED  BY <1>1, <1>2, <1>3, <1>4, <1>5, <1>6, <1>7

-----------------------------------------------------------------------------
(* What is sent. *)

Rejected(pos) == brokenAt # 0 /\ brokenAt <= pos

\* Where the chain stands: what reached the transport is what was fulfilled, and maybe the send
\* that is under way or was rejected.
ChainInv ==
    /\ settled <= Len(accepted)
    /\ inFlight => brokenAt = 0 /\ settled < Len(accepted)
    /\ brokenAt # 0 => brokenAt = settled + 1 /\ settled < Len(accepted)
    /\ \/ took = SubSeq(accepted, 1, settled)
       \/ (inFlight \/ brokenAt # 0) /\ took = SubSeq(accepted, 1, settled + 1)

\* A command bears its place, and a result the number of an event its stream was given.
ItemsNamed ==
    \A i \in 1 .. Len(accepted) :
        \/ accepted[i] = <<"command", i, None>>
        \/ \E s \in Streams : \E n \in 1 .. pulled[s] : accepted[i] = <<"result", n, s>>

\* What was accepted once more was rejected the first time.
NoneTwice == \A i, j \in 1 .. Len(accepted) : i < j /\ accepted[i] = accepted[j] => Rejected(i)

\* A stream's call came with the last event it was given, and the stream's result for it is the one
\* it awaits, or was rejected.
CallOf(s) ==
    stream[s].at \notin Resting =>
        /\ stream[s].call = pulled[s] /\ pulled[s] # 0
        /\ \A i \in 1 .. Len(accepted) : accepted[i] = <<"result", pulled[s], s>> =>
              Rejected(i) \/ (stream[s].at \in Answering /\ i = stream[s].pos)
CallsInv == \A s \in Streams : CallOf(s)

SentInv == Typed /\ AskedOnce /\ ChainInv /\ ItemsNamed /\ NoneTwice /\ CallsInv

LEMMA Rejections ==
  ASSUME Typed, NEW pos \in Nat
  PROVE  SendState(pos) = "rejected" <=> Rejected(pos)
  BY DEF Typed, SendState, Rejected

LEMMA SentInit == Init => SentInv
  <1> SUFFICES ASSUME Init PROVE SentInv
    OBVIOUS
  <1>1. Typed
    <2>1. accepted \in Seq(Items) /\ took \in Seq(Items) /\ settled \in Nat /\ brokenAt \in Nat /\ events \in Seq(Kinds)
          /\ pulled \in [Streams -> Nat]
      BY DEF Init, DuplexInit
    <2>2. stream \in [Streams -> StreamRecord]
      BY StreamsStart DEF Init
    <2> QED  BY <2>1, <2>2 DEF Init, Typed
  <1>2. AskedOnce
    BY DEF Init, AskedOnce, Fresh
  <1>3. ChainInv /\ ItemsNamed /\ NoneTwice
    BY DEF Init, DuplexInit, ChainInv, ItemsNamed, NoneTwice
  <1>4. CallsInv
    BY DEF Init, CallsInv, CallOf, Fresh, Resting, Ended
  <1> QED  BY <1>1, <1>2, <1>3, <1>4 DEF SentInv

\* A stream that moves on sends nothing.
LEMMA MovesKeep ==
  ASSUME SentInv, NEW s \in Streams, MovesOn(s), keys' \in SUBSET Keys,
         stream'[s].ticket = "pending" => stream'[s].at \in {"asked", "ticket"}
  PROVE  SentInv'
  <1>1. Typed'
    BY DEF SentInv, Typed, MovesOn
  <1>2. AskedOnce'
    BY DEF SentInv, AskedOnce, MovesOn, Typed
  <1>3. ChainInv' /\ ItemsNamed' /\ NoneTwice'
    BY DEF SentInv, MovesOn, ChainInv, ItemsNamed, NoneTwice, Rejected
  <1>4. CallsInv'
    <2>1. \A u \in Streams : u # s => stream'[u] = stream[u]
      BY DEF MovesOn, SentInv, Typed
    <2>2. UNCHANGED <<accepted, pulled, brokenAt>>
      BY DEF MovesOn
    <2>3. ASSUME NEW t \in Streams, t # s PROVE CallOf(t)'
      BY <2>1, <2>2, <2>3 DEF SentInv, CallsInv, CallOf, Rejected
    <2>4. CallOf(s)'
      <3> SUFFICES ASSUME stream'[s].at \notin Resting PROVE CallOf(s)'
        BY DEF CallOf
      <3>1. /\ stream[s].at \notin Resting /\ stream'[s].call = stream[s].call /\ stream'[s].at \notin Answering
            /\ stream[s].at \in Answering => Rejected(stream[s].pos)
        BY Rejections DEF MovesOn, SentInv, Typed, StreamRecord
      <3>2. CallOf(s)
        BY DEF SentInv, CallsInv
      <3> QED  BY <2>2, <3>1, <3>2 DEF CallOf, Rejected
    <2> QED  BY <2>3, <2>4 DEF CallsInv
  <1> QED  BY <1>1, <1>2, <1>3, <1>4 DEF SentInv

LEMMA PulledTyped ==
  ASSUME NEW record \in StreamRecord, NEW place \in Places, NEW n \in Nat, NEW k \in Kinds
  PROVE  [record EXCEPT !.at = place, !.call = n, !.kind = k] \in StreamRecord
  BY DEF StreamRecord

\* What a stream is given it was never given before.
LEMMA PullKeeps ==
  ASSUME SentInv, NEW s \in Streams, NEW n \in 1 .. MaxEvents, NEW kind \in Kinds, Pull(s, n, kind)
  PROVE  SentInv'
  <1> USE DEF duplexVars, chainVars
  <1> DEFINE new == [Fresh EXCEPT !.at = "event", !.call = n, !.kind = kind]
  <1>1. events \in Seq(Kinds) /\ pulled \in [Streams -> Nat] /\ stream \in [Streams -> StreamRecord] /\ n \in Nat
    BY BoundsAssumption DEF SentInv, Typed
  <1>2. new \in StreamRecord /\ new.at = "event" /\ new.call = n /\ new.ticket = "none"
    <2>1. "event" \in Places
      BY DEF Places, Yields
    <2>2. Fresh.ticket = "none" /\ Fresh \in StreamRecord
      BY StreamsStart DEF Fresh
    <2>3. new.at = "event" /\ new.call = n /\ new.ticket = Fresh.ticket
      BY <2>2 DEF StreamRecord
    <2>4. new \in StreamRecord
      BY <1>1, <2>1, <2>2, PulledTyped
    <2> QED  BY <2>2, <2>3, <2>4
  <1>3. stream' = [stream EXCEPT ![s] = new] /\ pulled' = [pulled EXCEPT ![s] = n]
        /\ UNCHANGED <<accepted, took, settled, brokenAt, inFlight, tool, keys>>
    BY DEF Pull
  <1>4. pulled[s] < n
    BY <1>1 DEF Pull
  <1>5. events' \in Seq(Kinds)
    BY <1>1 DEF Pull
  <1> HIDE DEF new
  <1>6. /\ stream'[s] = new /\ pulled'[s] = n
        /\ \A u \in Streams : u # s => stream'[u] = stream[u] /\ pulled'[u] = pulled[u]
    BY <1>1, <1>3
  <1>7. Typed'
    BY <1>1, <1>2, <1>3, <1>5 DEF SentInv, Typed
  <1>8. AskedOnce'
    BY <1>2, <1>6 DEF SentInv, AskedOnce
  <1>9. ChainInv' /\ NoneTwice'
    BY <1>3 DEF SentInv, ChainInv, NoneTwice, Rejected
  <1>10. ItemsNamed'
    <2>1. \A u \in Streams : pulled[u] <= pulled'[u] /\ pulled'[u] \in Nat /\ pulled[u] \in Nat
      BY <1>1, <1>4, <1>6
    <2> QED  BY <1>3, <2>1 DEF SentInv, ItemsNamed
  <1>11. CallsInv'
    <2>1. ASSUME NEW u \in Streams, u # s PROVE CallOf(u)'
      BY <1>3, <1>6, <2>1 DEF SentInv, CallsInv, CallOf, Rejected
    <2>2. ASSUME NEW i \in 1 .. Len(accepted), accepted[i] = <<"result", n, s>> PROVE FALSE
      <3>1. accepted[i] # <<"command", i, None>>
        BY <2>2
      <3>2. PICK u \in Streams : \E m \in 1 .. pulled[u] : accepted[i] = <<"result", m, u>>
        BY <3>1 DEF SentInv, ItemsNamed
      <3>3. PICK m \in 1 .. pulled[u] : accepted[i] = <<"result", m, u>>
        BY <3>2
      <3>4. m = n /\ u = s
        BY <2>2, <3>3
      <3> QED  BY <1>1, <1>4, <3>3, <3>4
    <2>3. CallOf(s)'
      BY <1>1, <1>2, <1>3, <1>4, <1>6, <2>2 DEF CallOf
    <2> QED  BY <2>1, <2>3 DEF CallsInv
  <1> QED  BY <1>7, <1>8, <1>9, <1>10, <1>11 DEF SentInv

\* One more item that was accepted changes nothing that was said of the others.
LEMMA AppendKeepsChain ==
  ASSUME Typed, ChainInv, NEW item \in Items, accepted' = Append(accepted, item),
         UNCHANGED <<settled, brokenAt, inFlight, took>>
  PROVE  /\ ChainInv' /\ accepted' \in Seq(Items) /\ Len(accepted') = Len(accepted) + 1
         /\ accepted'[Len(accepted) + 1] = item
         /\ \A i \in 1 .. Len(accepted) : accepted'[i] = accepted[i]
  <1>1. accepted \in Seq(Items) /\ Len(accepted) \in Nat /\ settled \in Nat
    BY DEF Typed
  <1>2. /\ accepted' \in Seq(Items) /\ Len(accepted') = Len(accepted) + 1
        /\ accepted'[Len(accepted) + 1] = item
        /\ \A i \in 1 .. Len(accepted) : accepted'[i] = accepted[i]
    BY <1>1
  <1>3. \A n \in Nat : n <= Len(accepted) => SubSeq(accepted', 1, n) = SubSeq(accepted, 1, n)
    BY <1>1, <1>2
  <1> QED  BY <1>1, <1>2, <1>3 DEF ChainInv, Typed

LEMMA AnswerKeeps ==
  ASSUME SentInv, NEW s \in Streams, Answer(s)
  PROVE  SentInv'
  <1> USE DEF duplexVars, chainVars
  <1> DEFINE from == stream[s].at
             place == IF from \in {"refused", "failing"} THEN "answerLast" ELSE "answer"
             item == <<"result", stream[s].call, s>>
  <1>1. stream \in [Streams -> StreamRecord] /\ stream[s] \in StreamRecord /\ accepted \in Seq(Items) /\ pulled \in [Streams -> Nat]
    BY DEF SentInv, Typed
  <1>2. from \in {"reported", "rejected", "refused", "failing"}
    BY DEF Answer
  <1>3. UNCHANGED <<took, settled, brokenAt, inFlight, events, pulled, tool, keys>>
    BY DEF Answer
  <1>4. CASE closed
    <2>1. PICK to \in {"over", "failing"} : Goes(s, to)
      BY <1>4 DEF Answer
    <2>2. UNCHANGED accepted
      BY <1>4 DEF Answer
    <2>3. from \notin Resting /\ from \notin Answering /\ to \in Places \ Answering
      BY <1>2 DEF Resting, Ended, Answering, Places, Yields
    <2>4. MovesOn(s)
      BY <1>3, <2>1, <2>2, <2>3, GoesOn DEF SentInv
    <2>5. stream'[s].ticket # "pending"
      <3>1. stream[s].ticket # "pending"
        BY <1>2 DEF SentInv, AskedOnce
      <3> QED  BY <2>1, <2>3, <3>1, GoesTyped DEF SentInv
    <2> QED  BY <1>3, <2>4, <2>5, MovesKeep DEF SentInv, Typed
  <1>5. CASE ~closed
    <2> DEFINE new == [stream[s] EXCEPT !.at = place, !.pos = Len(accepted) + 1]
    <2>1. accepted' = Append(accepted, item) /\ stream' = [stream EXCEPT ![s] = new]
      BY <1>5 DEF Answer
    <2>2. /\ new \in StreamRecord /\ new.at \in Answering /\ new.pos = Len(accepted) + 1
          /\ new.call = stream[s].call /\ new.ticket # "pending"
      <3>1. place \in Answering /\ place \in Places
        BY DEF Places, Answering
      <3>2. stream[s].ticket # "pending"
        BY <1>2 DEF SentInv, AskedOnce
      <3>3. Len(accepted) + 1 \in Nat
        BY <1>1
      <3> HIDE DEF place
      <3>4. new.at = place /\ new.pos = Len(accepted) + 1 /\ new.call = stream[s].call /\ new.ticket = stream[s].ticket
        BY <1>1 DEF StreamRecord
      <3>5. new \in StreamRecord
        BY <1>1, <3>1, <3>3 DEF StreamRecord
      <3> QED  BY <3>1, <3>2, <3>4, <3>5
    <2> HIDE DEF new
    <2>3. item \in Items /\ stream[s].call = pulled[s] /\ pulled[s] \in 1 .. pulled[s]
          /\ from \notin Resting /\ from \notin Answering
      <3>1. from \notin Resting /\ from \notin Answering
        BY <1>2 DEF Resting, Ended, Answering
      <3>2. stream[s].call = pulled[s] /\ pulled[s] # 0
        BY <3>1 DEF SentInv, CallsInv, CallOf
      <3> QED  BY <1>1, <3>1, <3>2 DEF Items
    <2> DEFINE last == Len(accepted) + 1
    <2>4. /\ ChainInv' /\ accepted' \in Seq(Items) /\ Len(accepted') = last /\ accepted'[last] = item
          /\ \A i \in 1 .. Len(accepted) : accepted'[i] = accepted[i]
      BY <1>3, <2>1, <2>3, AppendKeepsChain DEF SentInv
    <2>5. \A i \in 1 .. Len(accepted) : accepted[i] = item => Rejected(i)
      BY <2>3 DEF SentInv, CallsInv, CallOf
    <2>6. Typed' /\ AskedOnce'
      BY <1>1, <1>3, <2>1, <2>2, <2>4 DEF SentInv, Typed, AskedOnce
    <2>7. ItemsNamed'
      <3>1. \E u \in Streams : \E n \in 1 .. pulled[u] : item = <<"result", n, u>>
        BY <2>3
      <3>2. \A i \in 1 .. last : i \in 1 .. Len(accepted) \/ accepted'[i] = item
        BY <1>1, <2>4
      <3> HIDE DEF item
      <3> QED  BY <1>3, <2>4, <3>1, <3>2 DEF SentInv, ItemsNamed
    <2>8. NoneTwice'
      <3> SUFFICES ASSUME NEW i \in 1 .. last, NEW j \in 1 .. last, i < j, accepted'[i] = accepted'[j]
                   PROVE  Rejected(i)
        BY <1>3, <2>4 DEF NoneTwice, Rejected
      <3> HIDE DEF item
      <3>1. Len(accepted) \in Nat /\ i \in 1 .. Len(accepted) /\ accepted'[i] = accepted[i]
        BY <1>1, <2>4
      <3>2. CASE j = last
        BY <2>4, <2>5, <3>1, <3>2
      <3>3. CASE j # last
        <4>1. j \in 1 .. Len(accepted)
          BY <3>1, <3>3
        <4>2. accepted'[j] = accepted[j] /\ accepted[i] = accepted[j]
          BY <2>4, <3>1, <4>1
        <4>3. NoneTwice
          BY DEF SentInv
        <4> QED  BY <3>1, <4>1, <4>2, <4>3 DEF NoneTwice
      <3> QED  BY <3>2, <3>3
    <2>9. CallsInv'
      <3>1. stream'[s] = new /\ \A u \in Streams : u # s => stream'[u] = stream[u]
        BY <1>1, <2>1
      <3>2. \A i \in 1 .. last : \A u \in Streams : u # s /\ accepted'[i] = <<"result", pulled[u], u>> =>
               i \in 1 .. Len(accepted) /\ accepted[i] = accepted'[i]
        BY <1>1, <2>4
      <3>3. ASSUME NEW t \in Streams, t # s PROVE CallOf(t)'
        BY <1>3, <2>4, <3>1, <3>2, <3>3 DEF SentInv, CallsInv, CallOf, Rejected
      <3>4. ASSUME NEW i \in 1 .. last, accepted'[i] = item PROVE Rejected(i) \/ i = new.pos
        <4>1. CASE i = last
          BY <2>2, <4>1
        <4>2. CASE i # last
          <5> HIDE DEF item, new
          <5>1. i \in 1 .. Len(accepted)
            BY <1>1, <4>2
          <5>2. accepted[i] = item
            BY <2>4, <3>4, <5>1
          <5> QED  BY <2>5, <5>1, <5>2
        <4> QED  BY <4>1, <4>2
      <3>5. CallOf(s)'
        BY <1>3, <2>2, <2>3, <2>4, <3>1, <3>4 DEF CallOf, Rejected
      <3> QED  BY <3>3, <3>5 DEF CallsInv
    <2> QED  BY <2>4, <2>6, <2>7, <2>8, <2>9 DEF SentInv
  <1> QED  BY <1>4, <1>5

\* The calls of the application and the chain itself.
LEMMA SendKeeps ==
  ASSUME SentInv, Send
  PROVE  SentInv'
  <1> USE DEF duplexVars
  <1> DEFINE last == Len(accepted) + 1
             item == <<"command", last, None>>
  <1>1. accepted \in Seq(Items) /\ item \in Items /\ last \in Nat
    BY DEF SentInv, Typed, Items
  <1>2. /\ accepted' = Append(accepted, item)
        /\ UNCHANGED <<took, settled, brokenAt, inFlight, events, pulled, tool, keys, stream>>
    BY DEF Send
  <1>3. /\ ChainInv' /\ accepted' \in Seq(Items) /\ Len(accepted') = last /\ accepted'[last] = item
        /\ \A i \in 1 .. Len(accepted) : accepted'[i] = accepted[i]
    BY <1>1, <1>2, AppendKeepsChain DEF SentInv
  <1>4. Typed' /\ AskedOnce'
    BY <1>2, <1>3 DEF SentInv, Typed, AskedOnce
  <1>5. ItemsNamed'
    <2>1. \A i \in 1 .. last : i \in 1 .. Len(accepted) \/ i = last
      BY <1>1
    <2> QED  BY <1>2, <1>3, <2>1 DEF SentInv, ItemsNamed
  <1>6. NoneTwice'
    <2> SUFFICES ASSUME NEW i \in 1 .. last, NEW j \in 1 .. last, i < j, accepted'[i] = accepted'[j]
                 PROVE  Rejected(i)
      BY <1>2, <1>3 DEF NoneTwice, Rejected
    <2>1. CASE j = last
      <3>1. i \in 1 .. Len(accepted) /\ accepted[i] = item
        BY <1>1, <1>3, <2>1
      <3> QED  BY <1>1, <3>1 DEF SentInv, ItemsNamed
    <2>2. CASE j # last
      BY <1>1, <1>3, <2>2 DEF SentInv, NoneTwice
    <2> QED  BY <2>1, <2>2
  <1>7. CallsInv'
    <2>1. \A i \in 1 .. Len(accepted') : \A n, s : accepted'[i] = <<"result", n, s>> =>
             i \in 1 .. Len(accepted) /\ accepted[i] = <<"result", n, s>>
      BY <1>1, <1>3
    <2> QED  BY <1>2, <2>1 DEF SentInv, CallsInv, CallOf, Rejected
  <1> QED  BY <1>3, <1>4, <1>5, <1>6, <1>7 DEF SentInv

LEMMA ChainKeeps ==
  ASSUME SentInv, SendNext \/ SendSettles
  PROVE  SentInv'
  <1> USE DEF duplexVars
  <1>1. accepted \in Seq(Items) /\ took \in Seq(Items) /\ settled \in Nat /\ brokenAt \in Nat
    BY DEF SentInv, Typed
  <1>2. UNCHANGED <<accepted, events, pulled, tool, keys, stream>>
    BY DEF SendNext, SendSettles
  <1>3. \A i \in Nat : Rejected(i) => Rejected(i)'
    BY <1>1 DEF SentInv, ChainInv, SendNext, SendSettles, Rejected
  <1>4. ChainInv' /\ Typed'
    <2>1. CASE SendNext
      <3>1. accepted[settled + 1] \in Items /\ settled < Len(accepted) /\ took = SubSeq(accepted, 1, settled)
            /\ brokenAt = 0 /\ ~inFlight
        BY <1>1, <2>1 DEF SendNext, SentInv, ChainInv
      <3>2. Append(took, accepted[settled + 1]) = SubSeq(accepted, 1, settled + 1)
        BY <1>1, <3>1
      <3>3. CASE Deliver(accepted[settled + 1]) /\ inFlight' = TRUE /\ UNCHANGED brokenAt
        <4>1. took' = took \/ took' = SubSeq(accepted, 1, settled + 1)
          BY <3>2, <3>3 DEF Deliver
        <4>2. UNCHANGED <<settled, brokenAt, accepted>> /\ inFlight' = TRUE
          BY <1>2, <2>1, <3>3 DEF SendNext
        <4>3. took' \in Seq(Items)
          BY <1>1, <3>1, <3>2, <4>1
        <4>4. settled' \in Nat /\ brokenAt' \in Nat /\ inFlight' \in BOOLEAN
          <5>1. inFlight' \in BOOLEAN
            BY <3>1, <4>2 DEF SentInv, Typed
          <5>2. settled' \in Nat /\ brokenAt' \in Nat
            BY <1>1, <3>1, <4>2
          <5> QED  BY <5>1, <5>2
        <4>5. ChainInv'
          BY <1>1, <3>1, <4>1, <4>2 DEF ChainInv
        <4> QED  BY <1>2, <4>3, <4>4, <4>5 DEF SentInv, Typed
      <3>4. CASE ~mapped /\ brokenAt' = settled + 1 /\ UNCHANGED <<inFlight, duplexVars>>
        <4>1. UNCHANGED <<settled, accepted, took, inFlight>> /\ brokenAt' = settled + 1
          BY <1>2, <2>1, <3>4 DEF SendNext
        <4>2. settled' \in Nat /\ brokenAt' \in Nat /\ inFlight' \in BOOLEAN /\ took' \in Seq(Items)
          <5>1. inFlight' \in BOOLEAN
            BY <3>1, <4>1 DEF SentInv, Typed
          <5>2. settled' \in Nat /\ brokenAt' \in Nat /\ took' \in Seq(Items)
            BY <1>1, <3>1, <4>1
          <5> QED  BY <5>1, <5>2
        <4>3. ChainInv'
          BY <1>1, <3>1, <4>1 DEF ChainInv
        <4> QED  BY <1>2, <4>2, <4>3 DEF SentInv, Typed
      <3> QED  BY <2>1, <3>3, <3>4 DEF SendNext
    <2>2. CASE SendSettles
      <3>1. inFlight /\ brokenAt = 0 /\ settled < Len(accepted) /\ inFlight' = FALSE /\ took' = took
        BY <1>1, <2>2 DEF SendSettles, SentInv, ChainInv
      <3>2. CASE brokenAt' = settled + 1 /\ UNCHANGED settled
        <4>1. ChainInv'
          BY <1>1, <1>2, <3>1, <3>2 DEF SentInv, ChainInv
        <4>2. settled' \in Nat /\ brokenAt' \in Nat /\ inFlight' \in BOOLEAN /\ took' \in Seq(Items)
          <5>1. inFlight' \in BOOLEAN
            BY <3>1, <3>2 DEF SentInv, Typed
          <5>2. settled' \in Nat /\ brokenAt' \in Nat /\ took' \in Seq(Items)
            BY <1>1, <3>1, <3>2
          <5> QED  BY <5>1, <5>2
        <4> QED  BY <1>2, <4>1, <4>2 DEF SentInv, Typed
      <3>3. CASE took # << >> /\ took[Len(took)] = accepted[settled + 1] /\ settled' = settled + 1 /\ UNCHANGED brokenAt
        <4>1. took # SubSeq(accepted, 1, settled)
          <5> SUFFICES ASSUME took = SubSeq(accepted, 1, settled) PROVE FALSE
            OBVIOUS
          <5>1. Len(took) = settled /\ settled >= 1 /\ took[settled] = accepted[settled]
            BY <1>1, <3>1, <3>3
          <5>2. accepted[settled] = accepted[settled + 1]
            BY <3>3, <5>1
          <5> QED  BY <1>1, <3>1, <5>1, <5>2 DEF SentInv, NoneTwice, Rejected
        <4>2. took = SubSeq(accepted, 1, settled + 1)
          BY <4>1 DEF SentInv, ChainInv
        <4>3. ChainInv'
          BY <1>1, <1>2, <3>1, <3>3, <4>2 DEF ChainInv
        <4>4. settled' \in Nat /\ brokenAt' \in Nat /\ inFlight' \in BOOLEAN /\ took' \in Seq(Items)
          <5>1. inFlight' \in BOOLEAN
            BY <3>1, <3>3 DEF SentInv, Typed
          <5>2. settled' \in Nat /\ brokenAt' \in Nat /\ took' \in Seq(Items)
            BY <1>1, <3>1, <3>3
          <5> QED  BY <5>1, <5>2
        <4> QED  BY <1>2, <4>3, <4>4 DEF SentInv, Typed
      <3> QED  BY <2>2, <3>2, <3>3 DEF SendSettles
    <2> QED  BY <2>1, <2>2
  <1>5. AskedOnce' /\ ItemsNamed'
    BY <1>2 DEF SentInv, AskedOnce, ItemsNamed
  <1>6. NoneTwice' /\ CallsInv'
    BY <1>2, <1>3 DEF SentInv, NoneTwice, CallsInv, CallOf
  <1> QED  BY <1>4, <1>5, <1>6 DEF SentInv

\* A decision is asked for only where it is then awaited.
LEMMA CallAsks ==
  ASSUME Typed, AskedOnce, NEW s \in Streams,
         \/ Judge(s) \/ Dispatch(s) \/ Refuse(s) \/ HandlerSettles(s) \/ AnswerSettles(s)
         \/ \E user \in Verdicts : PolicyAnswers(s, user)
         \/ \E decision \in {"approved", "denied"} : Decide(s, decision)
  PROVE  stream'[s].ticket = "pending" => stream'[s].at \in {"asked", "ticket"}
  <1>1. stream[s] \in StreamRecord /\ stream \in [Streams -> StreamRecord]
    BY DEF Typed
  <1>2. stream[s].at \notin {"asked", "ticket"} => stream[s].ticket # "pending"
    BY DEF AskedOnce
  <1>3. ASSUME NEW to \in Places, Goes(s, to), stream[s].at \notin {"asked", "ticket"}
        PROVE  stream'[s].ticket # "pending"
    BY <1>2, <1>3, GoesTyped
  <1>4. CASE Judge(s) \/ Dispatch(s) \/ Refuse(s)
    <2>1. CASE Judge(s) \/ Dispatch(s)
      BY <1>1, <1>2, <2>1 DEF Judge, Dispatch, StreamRecord
    <2>2. CASE Refuse(s)
      BY <2>2, RefusedCall
    <2> QED  BY <1>4, <2>1, <2>2
  <1>5. CASE HandlerSettles(s)
    <2>1. PICK to \in {"reported", "failing"} : Goes(s, to)
      BY <1>5 DEF HandlerSettles
    <2> QED  BY <1>3, <1>5, <2>1 DEF HandlerSettles, Places, Yields
  <1>6. CASE AnswerSettles(s)
    <2>1. PICK to \in {"pull", "failing", "over"} : Goes(s, to)
      BY <1>6 DEF AnswerSettles
    <2> QED  BY <1>3, <1>6, <2>1 DEF AnswerSettles, Places, Yields, Resting, Ended
  <1>7. ASSUME NEW user \in Verdicts, PolicyAnswers(s, user)
        PROVE  stream'[s].ticket = "pending" => stream'[s].at \in {"asked", "ticket"}
    <2> DEFINE verdict == Combined(stream[s].package, user)
    <2>1. stream[s].ticket # "pending"
      BY <1>2, <1>7 DEF PolicyAnswers
    <2>2. stream'[s].at = CASE verdict = "allow" -> "started" [] verdict = "deny" -> "refused" [] OTHER -> "asked"
      BY <1>1, <1>7 DEF PolicyAnswers, StreamRecord
    <2>3. stream'[s].ticket = IF verdict = "require_approval" THEN "pending" ELSE stream[s].ticket
      BY <1>1, <1>7 DEF PolicyAnswers, StreamRecord
    <2> HIDE DEF verdict
    <2> QED  BY <2>1, <2>2, <2>3
  <1>8. ASSUME NEW decision \in {"approved", "denied"}, Decide(s, decision)
        PROVE  stream'[s].ticket # "pending"
    BY <1>1, <1>8 DEF Decide, StreamRecord
  <1> QED  BY <1>4, <1>5, <1>6, <1>7, <1>8

LEMMA SentStep == SentInv /\ [Next]_rtVars => SentInv'
  <1> SUFFICES ASSUME SentInv, [Next]_rtVars PROVE SentInv'
    OBVIOUS
  <1>0. Typed /\ AskedOnce
    BY DEF SentInv
  <1> DEFINE Kept == UNCHANGED <<accepted, took, settled, brokenAt, inFlight, events, pulled, keys, stream>>
  <1>1. ASSUME Kept, tool' \in Definitions PROVE SentInv'
    BY <1>1 DEF SentInv, Typed, AskedOnce, ChainInv, ItemsNamed, NoneTwice, CallsInv, CallOf, Rejected
  <1>2. CASE UNCHANGED rtVars
    BY <1>0, <1>1, <1>2 DEF rtVars, Typed
  <1>3. ASSUME NEW u \in Updaters, UpdateBegins(u) \/ UpdateGoes(u) PROVE SentInv'
    BY <1>0, <1>1, <1>3 DEF UpdateBegins, UpdateGoes, duplexVars, chainVars, Typed
  <1>4. ASSUME NEW c \in Closers, CloseBegins(c) \/ CloseGoes(c) \/ CloseFails(c) \/ CloseSettles(c) PROVE SentInv'
    BY <1>0, <1>1, <1>4 DEF CloseBegins, CloseGoes, CloseFails, CloseSettles, CloseTransport, duplexVars, chainVars, Typed
  <1>5. ASSUME NEW def \in Definitions, Edit(def) PROVE SentInv'
    BY <1>0, <1>1, <1>5 DEF Edit, duplexVars, chainVars
  <1>6. ASSUME NEW s \in Streams,
               Open(s) \/ SourceEnds(s) \/ Leave(s) \/ PassOver(s) \/ AwaitDecision(s) \/ Run(s) \/ ReportRejection(s)
        PROVE  SentInv'
    <2>1. MovesOn(s) /\ keys' = keys
      BY <1>0, <1>6, SimpleMoves
         DEF Open, SourceEnds, Leave, PassOver, AwaitDecision, Run, ReportRejection, StreamOnly
    <2>2. stream'[s].ticket = "pending" => stream'[s].at \in {"asked", "ticket"}
      <3>1. PICK to \in Places : Goes(s, to) /\ (stream[s].at = "asked" => to \in {"ticket", "over"})
                                 /\ (stream[s].at = "ticket" => stream[s].ticket # "pending")
        BY <1>6 DEF Open, SourceEnds, Leave, PassOver, AwaitDecision, Run, ReportRejection, Places, Yields, Resting, Ended
      <3>2. stream'[s].at = to /\ stream'[s].ticket \in {stream[s].ticket, "none"}
        BY <1>0, <3>1, GoesTyped
      <3>3. stream[s].at = "asked" /\ to = "over" => stream'[s].ticket = "none"
        BY <1>0, <3>1, GoesTyped DEF Resting, Ended
      <3> QED  BY <1>0, <3>1, <3>2, <3>3 DEF AskedOnce
    <2> QED  BY <1>0, <2>1, <2>2, MovesKeep DEF Typed
  <1>7. ASSUME NEW s \in Streams,
               \/ Judge(s) \/ Dispatch(s) \/ Refuse(s) \/ HandlerSettles(s) \/ AnswerSettles(s)
               \/ \E user \in Verdicts : PolicyAnswers(s, user)
               \/ \E decision \in {"approved", "denied"} : Decide(s, decision)
        PROVE  SentInv'
    <2>1. MovesOn(s)
      BY <1>0, <1>7, CallMoves
    <2>2. keys' \in SUBSET Keys
      <3>1. stream[s] \in StreamRecord /\ keys \in SUBSET Keys
        BY <1>0 DEF Typed
      <3>2. RestoredKeys(s) \in SUBSET Keys
        BY <3>1 DEF RestoredKeys, StreamRecord
      <3>3. (IF stream[s].key = None THEN keys ELSE keys \cup {stream[s].key}) \in SUBSET Keys
        BY <3>1 DEF StreamRecord
      <3> QED  BY <1>7, <3>1, <3>2, <3>3
               DEF Judge, Dispatch, Refuse, HandlerSettles, AnswerSettles, PolicyAnswers, Decide, StreamOnly
    <2>3. stream'[s].ticket = "pending" => stream'[s].at \in {"asked", "ticket"}
      BY <1>0, <1>7, CallAsks
    <2> QED  BY <2>1, <2>2, <2>3, MovesKeep
  <1>8. ASSUME NEW s \in Streams PROVE (\E n \in 1 .. MaxEvents, kind \in Kinds : Pull(s, n, kind)) \/ Answer(s) => SentInv'
    BY PullKeeps, AnswerKeeps
  <1>9. Send \/ SendNext \/ SendSettles => SentInv'
    BY SendKeeps, ChainKeeps
  <1> QED  BY <1>2, <1>3, <1>4, <1>5, <1>6, <1>7, <1>8, <1>9 DEF Next, StreamStep

(***************************************************************************)
(* The transport takes the commands in the order they were accepted,       *)
(* however many streams and closers there are.                             *)
(***************************************************************************)
THEOREM CommandsGoInOrder == Spec => []CommandsInOrder
  <1>1. SentInv => CommandsInOrder
    BY DEF SentInv, Typed, ChainInv, CommandsInOrder
  <1> QED  BY <1>1, SentInit, SentStep, PTL DEF Spec

(***************************************************************************)
(* No stream answers a call twice, whichever events the transport hands to *)
(* which of them: a stream is given no event twice, and its result is      *)
(* accepted a second time only when the first was rejected, where the      *)
(* chain stops.                                                            *)
(***************************************************************************)
THEOREM CallsAnsweredOnce == Spec => []AnsweredOnce
  <1>1. SentInv => AnsweredOnce
    <2> SUFFICES ASSUME SentInv, NEW i \in 1 .. Len(took), NEW j \in 1 .. Len(took), took[i] = took[j], i # j
                 PROVE  FALSE
      BY DEF AnsweredOnce
    <2>1. settled \in Nat /\ brokenAt \in Nat /\ accepted \in Seq(Items) /\ took \in Seq(Items)
      BY DEF SentInv, Typed
    <2>2. PICK n \in {settled, settled + 1} : n <= Len(accepted) /\ took = SubSeq(accepted, 1, n)
      BY <2>1 DEF SentInv, ChainInv
    <2>3. Len(took) = n /\ \A k \in 1 .. n : took[k] = accepted[k]
      BY <2>1, <2>2
    <2>4. \A k, m \in 1 .. n : k < m => accepted[k] # accepted[m]
      BY <2>1, <2>2 DEF SentInv, ChainInv, NoneTwice, Rejected
    <2> QED  BY <2>1, <2>2, <2>3, <2>4
  <1> QED  BY <1>1, SentInit, SentStep, PTL DEF Spec

-----------------------------------------------------------------------------
(* What handlers are run for. *)

Dispatching == {"acquire", "handler"}

\* What the policy of the user said of a call that goes on; it was not asked about a definition that
\* the package had refused.
Passed == {"allow", "require_approval"}
Permitted(s) ==
    \/ stream[s].user \in Passed
    \/ /\ stream[s].user = "none"
       /\ stream[s].kind = "call" => stream[s].judged \in Definitions /\ PackageVerdict(stream[s].judged) = "deny"

\* What a call has been through when it stands where it stands.
Judged(s) ==
    /\ stream[s].at \notin Resting \cup {"event", "unnamed"} => session.tool_mode = "auto"
    /\ stream[s].at = "event" => stream[s].user = "none"
    /\ stream[s].at \in {"event", "policy"} => stream[s].key = None
    /\ stream[s].at \in {"asked", "ticket", "decided"} => stream[s].user \in Passed
    /\ stream[s].at \in {"started"} \cup Dispatching =>
          /\ Permitted(s)
          /\ stream[s].user = "require_approval" => stream[s].ticket = "approved"
          /\ stream[s].key # None => stream[s].ticket = "approved"
    /\ stream[s].key # None => stream[s].judged \in Definitions /\ stream[s].key = ApprovalKey(stream[s].judged)
JudgedInv == \A s \in Streams : Judged(s)

LEMMA PermittedStays ==
  ASSUME NEW s \in Streams, Permitted(s), stream'[s].user = stream[s].user,
         stream'[s].judged = stream[s].judged, stream'[s].kind = stream[s].kind
  PROVE  Permitted(s)'
  BY DEF Permitted, PackageVerdict

\* Without a frame there is nothing to refuse.
LEMMA RefusedByFrames ==
  ASSUME NEW request, PackageDecision(Frames, request) = "deny"
  PROVE  Enforced
  BY DEF PackageDecision, Enforced, NoFrames

LEMMA JudgedInit == Init => JudgedInv
  BY DEF Init, JudgedInv, Judged, Fresh, Resting, Ended, Dispatching

LEMMA GoesJudged ==
  ASSUME Typed, JudgedInv, NEW s \in Streams, NEW to \in Places, Goes(s, to), UNCHANGED session,
         to \notin Resting \cup {"event", "unnamed"} => session.tool_mode = "auto",
         to \notin {"event", "policy", "asked"},
         to \in {"ticket", "decided"} => stream[s].user \in Passed,
         to \in {"started"} \cup Dispatching =>
            /\ Permitted(s)
            /\ stream[s].user = "require_approval" => stream[s].ticket = "approved"
            /\ stream[s].key # None => stream[s].ticket = "approved"
  PROVE  Judged(s)'
  <1>1. stream[s] \in StreamRecord
    BY DEF Typed
  <1>2. CASE to \in Resting \cup Answerable
    <2>1. stream'[s].at = to /\ stream'[s].key = None
      BY <1>2, GoesTyped
    <2> QED  BY <1>2, <2>1 DEF Judged, Resting, Ended, Answerable, Dispatching
  <1>3. CASE to \notin Resting \cup Answerable
    <2>1. stream'[s] = [stream[s] EXCEPT !.at = to]
      BY <1>3, GoesTyped
    <2>2. /\ stream'[s].at = to /\ stream'[s].key = stream[s].key /\ stream'[s].user = stream[s].user
          /\ stream'[s].ticket = stream[s].ticket /\ stream'[s].judged = stream[s].judged
          /\ stream'[s].kind = stream[s].kind
      BY <1>1, <2>1 DEF StreamRecord
    <2>3. Permitted(s) => Permitted(s)'
      BY <2>2, PermittedStays
    <2> QED  BY <1>3, <2>2, <2>3 DEF JudgedInv, Judged
  <1> QED  BY <1>2, <1>3

LEMMA JudgedMoves ==
  ASSUME Typed, AskedOnce, JudgedInv, NEW s \in Streams,
         \/ Open(s) \/ SourceEnds(s) \/ Leave(s) \/ PassOver(s) \/ AwaitDecision(s) \/ Run(s) \/ ReportRejection(s)
         \/ HandlerSettles(s) \/ AnswerSettles(s)
  PROVE  Judged(s)'
  <1> USE DEF StreamOnly
  <1>1. UNCHANGED session
    BY DEF Open, SourceEnds, Leave, PassOver, AwaitDecision, Run, ReportRejection, HandlerSettles, AnswerSettles
  <1>2. Judged(s)
    BY DEF JudgedInv
  <1>3. CASE Open(s) \/ SourceEnds(s) \/ Leave(s)
    BY <1>1, <1>3, GoesJudged DEF Open, SourceEnds, Leave, Places, Resting, Ended, Dispatching
  <1>4. CASE PassOver(s)
    <2>1. PICK to \in {"unnamed", "pull"} : Goes(s, to)
      BY <1>4 DEF PassOver
    <2> QED  BY <1>1, <2>1, GoesJudged DEF Places, Yields, Resting, Ended, Dispatching
  <1>5. CASE AwaitDecision(s)
    <2>1. PICK to \in {"ticket", "decided", "started", "refused"} :
            Goes(s, to) /\ (to = "started" => stream[s].ticket = "approved")
      BY <1>5 DEF AwaitDecision
    <2>2. stream[s].at \in {"asked", "ticket", "decided"}
      BY <1>5 DEF AwaitDecision
    <2>3. session.tool_mode = "auto" /\ stream[s].user \in Passed /\ Permitted(s)
      BY <1>2, <2>2 DEF Judged, Permitted, Resting, Ended
    <2> QED  BY <1>1, <2>1, <2>3, GoesJudged DEF Places, Yields, Dispatching
  <1>6. CASE Run(s)
    <2>1. stream[s].at = "acquire" /\ Goes(s, "handler")
      BY <1>6 DEF Run
    <2>2. /\ session.tool_mode = "auto" /\ Permitted(s)
          /\ stream[s].user = "require_approval" => stream[s].ticket = "approved"
          /\ stream[s].key # None => stream[s].ticket = "approved"
      BY <1>2, <2>1 DEF Judged, Resting, Ended, Dispatching
    <2> QED  BY <1>1, <2>1, <2>2, GoesJudged DEF Places
  <1>7. CASE ReportRejection(s) \/ HandlerSettles(s) \/ AnswerSettles(s)
    <2>1. PICK to \in {"rejected", "reported", "failing", "pull", "over"} : Goes(s, to)
      BY <1>7 DEF ReportRejection, HandlerSettles, AnswerSettles
    <2>2. stream[s].at \notin Resting \cup {"event", "unnamed"}
      BY <1>7 DEF ReportRejection, HandlerSettles, AnswerSettles, Resting, Ended
    <2>3. session.tool_mode = "auto"
      BY <1>2, <2>2 DEF Judged
    <2> QED  BY <1>1, <2>1, <2>3, GoesJudged DEF Places, Yields, Resting, Ended, Dispatching
  <1> QED  BY <1>3, <1>4, <1>5, <1>6, <1>7

LEMMA JudgedCalls ==
  ASSUME Typed, AskedOnce, JudgedInv, NEW s \in Streams,
         \/ Judge(s) \/ Dispatch(s) \/ Refuse(s) \/ Answer(s)
         \/ \E user \in Verdicts : PolicyAnswers(s, user)
         \/ \E decision \in {"approved", "denied"} : Decide(s, decision)
         \/ \E n \in 1 .. MaxEvents, kind \in Kinds : Pull(s, n, kind)
  PROVE  Judged(s)'
  <1> USE DEF StreamOnly
  <1>1. UNCHANGED session
    BY DEF Judge, Dispatch, Refuse, Answer, PolicyAnswers, Decide, Pull
  <1>2. Judged(s) /\ stream[s] \in StreamRecord /\ stream \in [Streams -> StreamRecord] /\ tool \in Definitions
    BY DEF JudgedInv, Typed
  <1>3. CASE Judge(s)
    <2> DEFINE verdict == IF stream[s].kind = "call" THEN PackageVerdict(tool) ELSE PackageDecision(Frames, Minimal)
               judged == IF Enforced /\ stream[s].kind = "call" THEN tool ELSE None
    <2>1. verdict = "deny" /\ stream[s].kind = "call" => judged = tool /\ PackageVerdict(tool) = "deny"
      BY RefusedByFrames DEF PackageVerdict
    <2>2. /\ stream[s].at = "event" /\ session.tool_mode = "auto"
          /\ stream' = [stream EXCEPT ![s].judged = judged,
                                      ![s].package = IF verdict = "deny" THEN "allow" ELSE verdict,
                                      ![s].at = IF verdict = "deny" THEN "started" ELSE "policy"]
      BY <1>3 DEF Judge, CarriesOut
    <2> HIDE DEF verdict, judged
    <2>3. /\ stream'[s].at \in {"started", "policy"} /\ stream'[s].key = None /\ stream'[s].user = "none"
          /\ stream'[s].kind = stream[s].kind /\ stream'[s].judged = judged
          /\ stream'[s].at = "started" => verdict = "deny"
      BY <1>2, <2>2 DEF StreamRecord, Judged
    <2>4. stream'[s].at = "started" => Permitted(s)'
      <3> SUFFICES ASSUME stream'[s].at = "started" PROVE Permitted(s)'
        OBVIOUS
      <3>1. stream'[s].kind = "call" => stream'[s].judged = tool /\ PackageVerdict(tool) = "deny"
        BY <2>1, <2>3
      <3>2. stream'[s].kind = "call" => stream'[s].judged \in Definitions /\ PackageVerdict(stream'[s].judged) = "deny"
        BY <1>2, <3>1
      <3> QED  BY <2>3, <3>2 DEF Permitted, PackageVerdict
    <2> QED  BY <1>1, <2>2, <2>3, <2>4 DEF Judged, Dispatching
  <1>4. CASE Dispatch(s)
    <2>1. stream[s].at = "started" /\ stream'[s] = [stream[s] EXCEPT !.at = "acquire", !.previous = keys]
      BY <1>2, <1>4 DEF Dispatch
    <2>2. /\ stream'[s].at = "acquire" /\ stream'[s].key = stream[s].key /\ stream'[s].user = stream[s].user
          /\ stream'[s].ticket = stream[s].ticket /\ stream'[s].judged = stream[s].judged
          /\ stream'[s].kind = stream[s].kind
      BY <1>2, <2>1 DEF StreamRecord
    <2>3. Permitted(s)'
      BY <1>2, <2>1, <2>2, PermittedStays DEF Judged
    <2> QED  BY <1>1, <1>2, <2>1, <2>2, <2>3 DEF Judged, Resting, Ended, Dispatching
  <1>5. CASE Refuse(s)
    <2>1. stream[s].at = "acquire"
      BY <1>5 DEF Refuse
    <2>2. stream'[s].at = "reported" /\ stream'[s].key = None
      BY <1>5, RefusedCall
    <2> QED  BY <1>1, <1>2, <2>1, <2>2 DEF Judged, Resting, Ended, Dispatching
  <1>6. CASE Answer(s)
    <2>1. stream[s].at \in {"reported", "rejected", "refused", "failing"}
      BY <1>6 DEF Answer
    <2>2. session.tool_mode = "auto"
      BY <1>2, <2>1 DEF Judged, Resting, Ended
    <2>3. CASE closed
      <3>1. PICK to \in {"over", "failing"} : Goes(s, to)
        BY <1>6, <2>3 DEF Answer
      <3> QED  BY <1>1, <2>2, <3>1, GoesJudged DEF Places, Yields, Resting, Ended, Dispatching
    <2>4. CASE ~closed
      <3>1. PICK to \in Answering : stream'[s] = [stream[s] EXCEPT !.at = to, !.pos = Len(accepted) + 1]
        BY <1>2, <1>6, <2>4 DEF Answer, Answering
      <3>2. stream'[s].at = to /\ stream'[s].key = stream[s].key /\ stream'[s].judged = stream[s].judged
        BY <1>2, <3>1 DEF StreamRecord
      <3> QED  BY <1>1, <1>2, <2>2, <3>2 DEF Judged, Answering, Dispatching
    <2> QED  BY <2>3, <2>4
  <1>7. ASSUME NEW user \in Verdicts, PolicyAnswers(s, user) PROVE Judged(s)'
    <2> DEFINE verdict == Combined(stream[s].package, user)
    <2>1. stream[s].at = "policy" /\ stream[s].key = None /\ session.tool_mode = "auto"
      BY <1>2, <1>7 DEF PolicyAnswers, Judged, Resting, Ended
    <2>2. /\ stream'[s].at = CASE verdict = "allow" -> "started" [] verdict = "deny" -> "refused" [] OTHER -> "asked"
          /\ stream'[s].key = IF verdict = "require_approval" THEN PendingKey(s) ELSE None
          /\ stream'[s].user = user /\ stream'[s].judged = stream[s].judged
      BY <1>2, <1>7 DEF PolicyAnswers, StreamRecord
    <2>3. verdict # "deny" => user \in Passed
      BY DEF Combined, Verdicts, Passed
    <2>4. verdict = "allow" => user = "allow"
      BY DEF Combined, Verdicts
    <2>5. PendingKey(s) # None => stream[s].judged \in Definitions /\ PendingKey(s) = ApprovalKey(stream[s].judged)
      BY <1>2 DEF PendingKey, StreamRecord
    <2> HIDE DEF verdict
    <2> QED  BY <1>1, <2>1, <2>2, <2>3, <2>4, <2>5 DEF Judged, Permitted, Dispatching
  <1>8. ASSUME NEW decision \in {"approved", "denied"}, Decide(s, decision) PROVE Judged(s)'
    <2>1. stream[s].at \in {"asked", "ticket"} /\ stream'[s] = [stream[s] EXCEPT !.ticket = decision]
      BY <1>2, <1>8 DEF Decide, AskedOnce
    <2>2. /\ stream'[s].at = stream[s].at /\ stream'[s].key = stream[s].key /\ stream'[s].user = stream[s].user
          /\ stream'[s].judged = stream[s].judged
      BY <1>2, <2>1 DEF StreamRecord
    <2> QED  BY <1>1, <1>2, <2>1, <2>2 DEF Judged, Dispatching
  <1>9. ASSUME NEW n \in 1 .. MaxEvents, NEW kind \in Kinds, Pull(s, n, kind) PROVE Judged(s)'
    <2>1. stream'[s] = [Fresh EXCEPT !.at = "event", !.call = n, !.kind = kind]
      BY <1>2, <1>9 DEF Pull
    <2>2. Fresh \in StreamRecord /\ Fresh.user = "none" /\ Fresh.key = None
      BY StreamsStart DEF Fresh
    <2>3. stream'[s].at = "event" /\ stream'[s].user = "none" /\ stream'[s].key = None
      BY <2>1, <2>2 DEF StreamRecord
    <2> QED  BY <1>1, <2>3 DEF Judged, Dispatching
  <1> QED  BY <1>3, <1>4, <1>5, <1>6, <1>7, <1>8, <1>9

\* A step of a stream is a step of no other.
LEMMA StreamAlone ==
  ASSUME Typed, NEW s \in Streams,
         \/ Open(s) \/ SourceEnds(s) \/ Leave(s) \/ StreamStep(s) \/ HandlerSettles(s)
         \/ \E n \in 1 .. MaxEvents, kind \in Kinds : Pull(s, n, kind)
         \/ \E decision \in {"approved", "denied"} : Decide(s, decision)
  PROVE  UNCHANGED session /\ stream' = [stream EXCEPT ![s] = stream'[s]]
  <1> USE DEF StreamOnly
  <1>0. stream \in [Streams -> StreamRecord] /\ stream[s] \in StreamRecord
    BY DEF Typed
  <1>1. ASSUME NEW to, Goes(s, to) PROVE stream' = [stream EXCEPT ![s] = stream'[s]]
    BY <1>0, <1>1 DEF Goes
  <1>2. CASE Open(s) \/ SourceEnds(s) \/ Leave(s)
    BY <1>1, <1>2 DEF Open, SourceEnds, Leave
  <1>3. CASE StreamStep(s)
    <2>1. CASE PassOver(s) \/ AwaitDecision(s) \/ Run(s) \/ ReportRejection(s) \/ AnswerSettles(s)
      BY <1>1, <2>1 DEF PassOver, AwaitDecision, Run, ReportRejection, AnswerSettles
    <2>2. CASE Judge(s) \/ Dispatch(s) \/ Refuse(s) \/ \E user \in Verdicts : PolicyAnswers(s, user)
      BY <1>0, <2>2 DEF Judge, Dispatch, Refuse, PolicyAnswers
    <2>3. CASE Answer(s)
      BY <1>0, <1>1, <2>3 DEF Answer
    <2> QED  BY <1>3, <2>1, <2>2, <2>3 DEF StreamStep
  <1>4. CASE HandlerSettles(s)
    BY <1>1, <1>4 DEF HandlerSettles
  <1>5. CASE \/ \E n \in 1 .. MaxEvents, kind \in Kinds : Pull(s, n, kind)
             \/ \E decision \in {"approved", "denied"} : Decide(s, decision)
    BY <1>0, <1>5 DEF Pull, Decide
  <1> QED  BY <1>2, <1>3, <1>4, <1>5

LEMMA StepsJudged ==
  ASSUME SentInv, JudgedInv, [Next]_rtVars
  PROVE  JudgedInv'
  <1>0. Typed /\ AskedOnce
    BY DEF SentInv
  <1>1. ASSUME UNCHANGED <<stream, session>> PROVE JudgedInv'
    BY <1>1 DEF JudgedInv, Judged, Permitted, PackageVerdict
  <1>2. ASSUME NEW s \in Streams, UNCHANGED session, stream' = [stream EXCEPT ![s] = stream'[s]], Judged(s)'
        PROVE  JudgedInv'
    <2>1. \A t \in Streams : t # s => stream'[t] = stream[t]
      BY <1>0, <1>2 DEF Typed
    <2>2. \A t \in Streams : t # s => Judged(t)'
      BY <1>2, <2>1 DEF JudgedInv, Judged, Permitted, PackageVerdict
    <2> QED  BY <1>2, <2>2 DEF JudgedInv
  <1>3. CASE UNCHANGED rtVars
    BY <1>1, <1>3 DEF rtVars
  <1>4. CASE Send \/ SendNext \/ SendSettles
    BY <1>1, <1>4 DEF Send, SendNext, SendSettles
  <1>5. ASSUME NEW u \in Updaters, UpdateBegins(u) \/ UpdateGoes(u) PROVE JudgedInv'
    BY <1>1, <1>5 DEF UpdateBegins, UpdateGoes
  <1>6. ASSUME NEW c \in Closers, CloseBegins(c) \/ CloseGoes(c) \/ CloseFails(c) \/ CloseSettles(c) PROVE JudgedInv'
    BY <1>1, <1>6 DEF CloseBegins, CloseGoes, CloseFails, CloseSettles
  <1>7. ASSUME NEW def \in Definitions, Edit(def) PROVE JudgedInv'
    BY <1>1, <1>7 DEF Edit
  <1>8. ASSUME NEW s \in Streams,
               \/ Open(s) \/ SourceEnds(s) \/ Leave(s) \/ StreamStep(s) \/ HandlerSettles(s)
               \/ \E n \in 1 .. MaxEvents, kind \in Kinds : Pull(s, n, kind)
               \/ \E decision \in {"approved", "denied"} : Decide(s, decision)
        PROVE  JudgedInv'
    <2>1. Judged(s)'
      BY <1>0, <1>8, JudgedMoves, JudgedCalls DEF StreamStep
    <2>2. UNCHANGED session /\ stream' = [stream EXCEPT ![s] = stream'[s]]
      BY <1>0, <1>8, StreamAlone DEF StreamStep
    <2> QED  BY <1>2, <2>1, <2>2
  <1> QED  BY <1>3, <1>4, <1>5, <1>6, <1>7, <1>8 DEF Next

(***************************************************************************)
(* With one stream at a time, the approvals of the runtime are those of    *)
(* the dispatch that is under way.                                         *)
(***************************************************************************)
OneStream == \A s, t \in Streams : s = t \/ stream[s].at \in Ended \/ stream[t].at \in Ended
Approvals ==
    /\ \A s \in Streams : stream[s].at \in Dispatching =>
          stream[s].previous = {} /\ keys = IF stream[s].key = None THEN {} ELSE {stream[s].key}
    /\ (\A s \in Streams : stream[s].at \notin Dispatching) => keys = {}
KeysInv == OneStream /\ Approvals

LEMMA KeysInit == Init => KeysInv
  BY DEF Init, KeysInv, OneStream, Approvals, Fresh, Ended, Dispatching

\* A stream that is not ended was the only one, and its step leaves the others ended.
LEMMA KeysStep ==
  ASSUME Typed, AskedOnce, KeysInv, NEW s \in Streams,
         stream' = [stream EXCEPT ![s] = stream'[s]],
         stream'[s].at \notin Ended => \A t \in Streams \ {s} : stream[t].at \in Ended,
         stream[s].at \notin Ended => \A t \in Streams \ {s} : stream[t].at \in Ended,
         \/ /\ stream'[s].at \in Dispatching
            /\ stream'[s].previous = {}
            /\ keys' = IF stream'[s].key = None THEN {} ELSE {stream'[s].key}
         \/ /\ stream'[s].at \notin Dispatching
            /\ IF stream[s].at \in Dispatching THEN keys' = {} ELSE UNCHANGED keys
  PROVE  KeysInv'
  <1>1. stream'[s] = stream'[s] /\ \A t \in Streams : t # s => stream'[t] = stream[t]
    BY DEF Typed
  <1>2. OneStream'
    BY <1>1 DEF KeysInv, OneStream
  <1>3. CASE stream'[s].at \in Dispatching
    <2>1. \A t \in Streams \ {s} : stream'[t].at \notin Dispatching
      BY <1>1, <1>3 DEF Dispatching, Ended
    <2> QED  BY <1>2, <1>3, <2>1 DEF KeysInv, Approvals
  <1>4. CASE stream'[s].at \notin Dispatching /\ stream[s].at \in Dispatching
    <2>1. \A t \in Streams \ {s} : stream'[t].at \notin Dispatching
      BY <1>1, <1>4 DEF Dispatching, Ended
    <2> QED  BY <1>2, <1>4, <2>1 DEF KeysInv, Approvals
  <1>5. CASE stream'[s].at \notin Dispatching /\ stream[s].at \notin Dispatching
    BY <1>1, <1>2, <1>5 DEF KeysInv, Approvals
  <1> QED  BY <1>3, <1>4, <1>5

\* Where the steps that leave the approvals alone take their stream.
LEMMA KeysUntouched ==
  ASSUME Typed, AskedOnce, NEW s \in Streams,
         \/ Open(s) \/ SourceEnds(s) \/ Leave(s) \/ PassOver(s) \/ AwaitDecision(s) \/ ReportRejection(s)
         \/ AnswerSettles(s) \/ Judge(s) \/ Answer(s)
         \/ \E user \in Verdicts : PolicyAnswers(s, user)
         \/ \E decision \in {"approved", "denied"} : Decide(s, decision)
         \/ \E n \in 1 .. MaxEvents, kind \in Kinds : Pull(s, n, kind)
  PROVE  UNCHANGED keys /\ stream[s].at \notin Dispatching /\ stream'[s].at \notin Dispatching
  <1> USE DEF StreamOnly
  <1>0. stream[s] \in StreamRecord /\ stream \in [Streams -> StreamRecord]
    BY DEF Typed
  <1>1. ASSUME NEW to \in Places \ Dispatching, Goes(s, to) PROVE stream'[s].at \notin Dispatching
    BY <1>1, GoesTyped
  <1>2. CASE Open(s) \/ SourceEnds(s) \/ Leave(s)
    BY <1>1, <1>2 DEF Open, SourceEnds, Leave, Places, Yields, Resting, Ended, Dispatching
  <1>3. CASE PassOver(s) \/ AwaitDecision(s) \/ ReportRejection(s) \/ AnswerSettles(s)
    <2>1. PICK to \in {"unnamed", "pull", "ticket", "decided", "started", "refused", "rejected", "failing", "over"} : Goes(s, to)
      BY <1>3 DEF PassOver, AwaitDecision, ReportRejection, AnswerSettles
    <2>2. stream'[s].at \notin Dispatching
      BY <1>1, <2>1 DEF Places, Yields, Resting, Ended, Dispatching
    <2> QED  BY <1>3, <2>2 DEF PassOver, AwaitDecision, ReportRejection, AnswerSettles, Dispatching
  <1>4. CASE Judge(s)
    BY <1>0, <1>4 DEF Judge, StreamRecord, Dispatching
  <1>5. CASE Answer(s)
    <2>1. stream[s].at \notin Dispatching /\ UNCHANGED keys
      BY <1>5 DEF Answer, Dispatching
    <2>2. CASE closed
      BY <1>1, <1>5, <2>1, <2>2 DEF Answer, Places, Yields, Resting, Ended, Dispatching
    <2>3. CASE ~closed
      <3>1. PICK to \in Answering : stream'[s] = [stream[s] EXCEPT !.at = to, !.pos = Len(accepted) + 1]
        BY <1>0, <1>5, <2>3 DEF Answer, Answering
      <3> QED  BY <1>0, <2>1, <3>1 DEF StreamRecord, Answering, Dispatching
    <2> QED  BY <2>2, <2>3
  <1>6. ASSUME NEW user \in Verdicts, PolicyAnswers(s, user)
        PROVE  UNCHANGED keys /\ stream[s].at \notin Dispatching /\ stream'[s].at \notin Dispatching
    <2> DEFINE verdict == Combined(stream[s].package, user)
    <2>1. stream'[s].at = CASE verdict = "allow" -> "started" [] verdict = "deny" -> "refused" [] OTHER -> "asked"
      BY <1>0, <1>6 DEF PolicyAnswers, StreamRecord
    <2> HIDE DEF verdict
    <2>2. stream'[s].at \in {"started", "refused", "asked"}
      BY <2>1
    <2>3. UNCHANGED keys /\ stream[s].at = "policy"
      BY <1>6 DEF PolicyAnswers
    <2> QED  BY <2>2, <2>3 DEF Dispatching
  <1>7. ASSUME NEW decision \in {"approved", "denied"}, Decide(s, decision)
        PROVE  UNCHANGED keys /\ stream[s].at \notin Dispatching /\ stream'[s].at \notin Dispatching
    BY <1>0, <1>7 DEF Decide, AskedOnce, StreamRecord, Dispatching
  <1>8. ASSUME NEW n \in 1 .. MaxEvents, NEW kind \in Kinds, Pull(s, n, kind)
        PROVE  UNCHANGED keys /\ stream[s].at \notin Dispatching /\ stream'[s].at \notin Dispatching
    <2>1. stream'[s] = [Fresh EXCEPT !.at = "event", !.call = n, !.kind = kind]
      BY <1>0, <1>8 DEF Pull
    <2>2. stream'[s].at = "event"
      BY <2>1, StreamsStart DEF StreamRecord
    <2> QED  BY <1>8, <2>2 DEF Pull, Dispatching
  <1> QED  BY <1>2, <1>3, <1>4, <1>5, <1>6, <1>7, <1>8

\* A handler is run by Run alone.
LEMMA OnlyRuns ==
  ASSUME Typed, AskedOnce, [Next]_rtVars, NEW s \in Streams, stream[s].at = "acquire", stream'[s].at = "handler"
  PROVE  Run(s)
  <1>0. stream \in [Streams -> StreamRecord] /\ stream[s] \in StreamRecord
    BY DEF Typed
  <1>1. ASSUME UNCHANGED stream PROVE FALSE
    BY <1>1
  <1>2. CASE UNCHANGED rtVars
    BY <1>1, <1>2 DEF rtVars
  <1>3. CASE Send \/ SendNext \/ SendSettles
    BY <1>1, <1>3 DEF Send, SendNext, SendSettles
  <1>4. CASE \/ \E u \in Updaters : UpdateBegins(u) \/ UpdateGoes(u)
             \/ \E c \in Closers : CloseBegins(c) \/ CloseGoes(c) \/ CloseFails(c) \/ CloseSettles(c)
             \/ \E def \in Definitions : Edit(def)
    BY <1>1, <1>4 DEF UpdateBegins, UpdateGoes, CloseBegins, CloseGoes, CloseFails, CloseSettles, Edit
  <1>5. ASSUME NEW t \in Streams,
               \/ Open(t) \/ SourceEnds(t) \/ Leave(t) \/ StreamStep(t) \/ HandlerSettles(t)
               \/ \E n \in 1 .. MaxEvents, kind \in Kinds : Pull(t, n, kind)
               \/ \E decision \in {"approved", "denied"} : Decide(t, decision)
        PROVE  Run(s)
    <2>1. t = s
      BY <1>0, <1>5, StreamAlone
    <2>2. ~ (Dispatch(s) \/ Refuse(s) \/ HandlerSettles(s))
      <3>1. ~ Dispatch(s)
        BY DEF Dispatch
      <3>2. ~ Refuse(s)
        BY RefusedCall
      <3>3. ~ HandlerSettles(s)
        <4> SUFFICES ASSUME HandlerSettles(s) PROVE FALSE
          OBVIOUS
        <4>1. PICK to \in {"reported", "failing"} : Goes(s, to)
          BY DEF HandlerSettles
        <4> QED  BY <4>1, GoesTyped DEF Places, Yields
      <3> QED  BY <3>1, <3>2, <3>3
    <2> QED  BY <1>5, <2>1, <2>2, KeysUntouched DEF StreamStep, Dispatching
  <1> QED  BY <1>2, <1>3, <1>4, <1>5 DEF Next

LEMMA StepsKeys ==
  ASSUME SerialStreams, SentInv, KeysInv, [Next]_rtVars
  PROVE  KeysInv'
  <1>0. Typed /\ AskedOnce /\ stream \in [Streams -> StreamRecord] /\ \A s \in Streams : stream[s] \in StreamRecord
    BY DEF SentInv, Typed
  <1>1. ASSUME UNCHANGED <<stream, keys>> PROVE KeysInv'
    BY <1>1 DEF KeysInv, OneStream, Approvals
  <1>2. CASE UNCHANGED rtVars
    BY <1>1, <1>2 DEF rtVars
  <1>3. CASE Send \/ SendNext \/ SendSettles
    BY <1>1, <1>3 DEF Send, SendNext, SendSettles
  <1>4. ASSUME NEW u \in Updaters, UpdateBegins(u) \/ UpdateGoes(u) PROVE KeysInv'
    BY <1>1, <1>4 DEF UpdateBegins, UpdateGoes
  <1>5. ASSUME NEW c \in Closers, CloseBegins(c) \/ CloseGoes(c) \/ CloseFails(c) \/ CloseSettles(c) PROVE KeysInv'
    BY <1>1, <1>5 DEF CloseBegins, CloseGoes, CloseFails, CloseSettles
  <1>6. ASSUME NEW def \in Definitions, Edit(def) PROVE KeysInv'
    BY <1>1, <1>6 DEF Edit
  <1>7. ASSUME NEW s \in Streams,
               \/ Open(s) \/ SourceEnds(s) \/ Leave(s) \/ StreamStep(s) \/ HandlerSettles(s)
               \/ \E n \in 1 .. MaxEvents, kind \in Kinds : Pull(s, n, kind)
               \/ \E decision \in {"approved", "denied"} : Decide(s, decision)
        PROVE  KeysInv'
    <2>1. stream' = [stream EXCEPT ![s] = stream'[s]]
      BY <1>0, <1>7, StreamAlone
    <2>2. stream[s].at \notin Ended => \A t \in Streams \ {s} : stream[t].at \in Ended
      BY DEF KeysInv, OneStream
    <2>3. Open(s) => \A t \in Streams \ {s} : stream[t].at \in Ended
      <3>1. SUFFICES ASSUME Open(s) PROVE \A t \in Streams \ {s} : stream[t].at \in Ended
        OBVIOUS
      <3> QED  BY <3>1 DEF Open
    <2>4. stream[s].at \in Ended => Open(s)
      <3>1. ~ Open(s) => stream[s].at \notin Ended
        BY <1>0, <1>7 DEF SourceEnds, Leave, StreamStep, PassOver, Judge, PolicyAnswers, AwaitDecision, Dispatch, Run,
              Refuse, ReportRejection, Answer, AnswerSettles, HandlerSettles, Pull, Decide, AskedOnce, Yields, Ended
      <3> QED  BY <3>1
    <2>5. stream'[s].at \notin Ended => \A t \in Streams \ {s} : stream[t].at \in Ended
      BY <2>2, <2>3, <2>4
    <2>6. stream[s].at \in Dispatching =>
             stream[s].previous = {} /\ keys = IF stream[s].key = None THEN {} ELSE {stream[s].key}
      BY DEF KeysInv, Approvals
    <2>7. CASE Dispatch(s)
      <3>1. stream[s].at = "started" /\ stream'[s] = [stream[s] EXCEPT !.at = "acquire", !.previous = keys]
            /\ keys' = IF stream[s].key = None THEN keys ELSE keys \cup {stream[s].key}
        BY <1>0, <2>7 DEF Dispatch
      <3>2. keys = {}
        BY <2>2, <3>1 DEF KeysInv, Approvals, Ended, Dispatching
      <3>3. stream'[s].at = "acquire" /\ stream'[s].previous = keys /\ stream'[s].key = stream[s].key
        BY <1>0, <3>1 DEF StreamRecord
      <3>4. /\ stream'[s].at \in Dispatching /\ stream'[s].previous = {}
            /\ keys' = IF stream'[s].key = None THEN {} ELSE {stream'[s].key}
        BY <3>1, <3>2, <3>3 DEF Dispatching
      <3> QED  BY <1>0, <2>1, <2>2, <2>5, <3>4, KeysStep
    <2>8. CASE Run(s)
      <3>1. stream[s].at = "acquire" /\ Goes(s, "handler") /\ UNCHANGED keys
        BY <2>8 DEF Run, StreamOnly
      <3>2. stream'[s] = [stream[s] EXCEPT !.at = "handler"]
        BY <1>0, <3>1, GoesTyped DEF Places, Resting, Ended, Answerable
      <3>3. stream'[s].at = "handler" /\ stream'[s].previous = stream[s].previous /\ stream'[s].key = stream[s].key
        BY <1>0, <3>2 DEF StreamRecord
      <3>4. /\ stream'[s].at \in Dispatching /\ stream'[s].previous = {}
            /\ keys' = IF stream'[s].key = None THEN {} ELSE {stream'[s].key}
        BY <2>6, <3>1, <3>3 DEF Dispatching
      <3> QED  BY <1>0, <2>1, <2>2, <2>5, <3>4, KeysStep
    <2>9. CASE Refuse(s) \/ HandlerSettles(s)
      <3>1. stream[s].at \in Dispatching /\ keys' = RestoredKeys(s)
        BY <2>9 DEF Refuse, HandlerSettles, Dispatching
      <3>2. keys' = {}
        BY <2>6, <3>1 DEF RestoredKeys
      <3>3. stream'[s].at \notin Dispatching
        <4>1. CASE Refuse(s)
          BY <1>0, <4>1, RefusedCall DEF Dispatching
        <4>2. CASE HandlerSettles(s)
          <5>1. PICK to \in {"reported", "failing"} : Goes(s, to)
            BY <4>2 DEF HandlerSettles
          <5> QED  BY <1>0, <5>1, GoesTyped DEF Places, Yields, Dispatching
        <4> QED  BY <2>9, <4>1, <4>2
      <3> QED  BY <1>0, <2>1, <2>2, <2>5, <3>1, <3>2, <3>3, KeysStep
    <2>10. CASE ~ Dispatch(s) /\ ~ Run(s) /\ ~ Refuse(s) /\ ~ HandlerSettles(s)
      <3>1. UNCHANGED keys /\ stream[s].at \notin Dispatching /\ stream'[s].at \notin Dispatching
        <4>1. \/ Open(s) \/ SourceEnds(s) \/ Leave(s) \/ PassOver(s) \/ AwaitDecision(s) \/ ReportRejection(s)
              \/ AnswerSettles(s) \/ Judge(s) \/ Answer(s)
              \/ \E user \in Verdicts : PolicyAnswers(s, user)
              \/ \E decision \in {"approved", "denied"} : Decide(s, decision)
              \/ \E n \in 1 .. MaxEvents, kind \in Kinds : Pull(s, n, kind)
          BY <1>7, <2>10 DEF StreamStep
        <4> QED  BY <1>0, <4>1, KeysUntouched
      <3> QED  BY <1>0, <2>1, <2>2, <2>5, <3>1, KeysStep
    <2> QED  BY <2>7, <2>8, <2>9, <2>10
  <1> QED  BY <1>2, <1>3, <1>4, <1>5, <1>6, <1>7 DEF Next

(***************************************************************************)
(* The approval of a dispatch is forgotten when the dispatch has settled,  *)
(* as long as one stream of the session is pulled at a time.               *)
(***************************************************************************)
THEOREM ApprovalsForgotten == SerialStreams => (Spec => []KeysForgotten)
  <1> SUFFICES ASSUME SerialStreams PROVE Spec => []KeysForgotten
    OBVIOUS
  <1>1. Init => SentInv /\ KeysInv
    BY SentInit, KeysInit
  <1>2. SentInv /\ KeysInv /\ [Next]_rtVars => SentInv' /\ KeysInv'
    BY SentStep, StepsKeys
  <1>3. KeysInv => KeysForgotten
    BY DEF KeysInv, Approvals, KeysForgotten, Dispatching
  <1> QED  BY <1>1, <1>2, <1>3, PTL DEF Spec

(***************************************************************************)
(* A handler runs only as it is permitted, whatever the application edits: *)
(* the policy of the user let the call pass unless the package had refused *)
(* what was judged; the key that admits a definition the package asks an   *)
(* approval for is of this call, because no other stream has one of its    *)
(* own, and of this definition, because keys tell definitions apart        *)
(* (approvalKey()).  A definition the package allows outright needs no key *)
(* and may run in the place of the one that was approved.                  *)
(***************************************************************************)
THEOREM HandlersRunAsPermitted ==
  ASSUME SerialStreams, \A def, other \in Definitions : ApprovalKey(def) = ApprovalKey(other) => def = other
  PROVE  Spec => RunsAsPermitted
  <1>1. Init => SentInv /\ JudgedInv /\ KeysInv
    BY SentInit, JudgedInit, KeysInit
  <1>2. SentInv /\ JudgedInv /\ KeysInv /\ [Next]_rtVars => SentInv' /\ JudgedInv' /\ KeysInv'
    BY SentStep, StepsJudged, StepsKeys
  <1> DEFINE Runs(s) == stream[s].at = "acquire" /\ stream'[s].at = "handler"
             Held(s) ==
               /\ session.tool_mode = "auto" /\ PackageVerdict(tool) # "deny"
               /\ \/ stream[s].user \in {"allow", "require_approval"}
                  \/ stream[s].judged \in Definitions \ {tool} /\ PackageVerdict(stream[s].judged) = "deny"
               /\ "require_approval" \in {stream[s].user, PackageVerdict(tool)} => stream[s].ticket = "approved"
               /\ PackageVerdict(tool) = "require_approval" => stream[s].judged = tool
  <1>3. SentInv /\ JudgedInv /\ KeysInv /\ [Next]_rtVars => [\A s \in Streams : Runs(s) => Held(s)]_rtVars
    <2> SUFFICES ASSUME SentInv, JudgedInv, KeysInv, Next, NEW s \in Streams, Runs(s) PROVE Held(s)
      OBVIOUS
    <2>1. Typed /\ AskedOnce /\ tool \in Definitions /\ stream \in [Streams -> StreamRecord]
      BY DEF SentInv, Typed
    <2>2. Run(s)
      BY <2>1, OnlyRuns
    <2>3. /\ session.tool_mode = "auto" /\ Permitted(s)
          /\ stream[s].user = "require_approval" => stream[s].ticket = "approved"
          /\ stream[s].key # None => stream[s].ticket = "approved"
          /\ stream[s].key # None => stream[s].judged \in Definitions /\ stream[s].key = ApprovalKey(stream[s].judged)
      BY DEF JudgedInv, Judged, Resting, Ended, Dispatching
    <2>4. keys = IF stream[s].key = None THEN {} ELSE {stream[s].key}
      BY DEF KeysInv, Approvals, Dispatching
    <2>5. \/ PackageVerdict(tool) = "allow"
          \/ PackageVerdict(tool) = "require_approval" /\ ApprovalKey(tool) \in keys
      BY <2>2 DEF Run, Admitted
    <2>6. PackageVerdict(tool) # "deny"
      BY <2>5
    <2>7. PackageVerdict(tool) = "require_approval" => stream[s].ticket = "approved" /\ stream[s].judged = tool
      BY <2>1, <2>3, <2>4, <2>5
    <2>8. \/ stream[s].user \in {"allow", "require_approval"}
          \/ stream[s].judged \in Definitions \ {tool} /\ PackageVerdict(stream[s].judged) = "deny"
      <3>1. stream[s].kind = "call"
        BY <2>2 DEF Run
      <3>2. \/ stream[s].user \in {"allow", "require_approval"}
            \/ stream[s].judged \in Definitions /\ PackageVerdict(stream[s].judged) = "deny"
        BY <2>3, <3>1 DEF Permitted, Passed
      <3>3. PackageVerdict(stream[s].judged) = "deny" => stream[s].judged # tool
        BY <2>6
      <3> QED  BY <3>2, <3>3
    <2> QED  BY <2>3, <2>6, <2>7, <2>8
  <1> QED  BY <1>1, <1>2, <1>3, PTL DEF Spec, RunsAsPermitted
=============================================================================
