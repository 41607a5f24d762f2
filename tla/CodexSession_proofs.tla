-------------------------- MODULE CodexSession_proofs --------------------------
(***************************************************************************)
(* Proofs about CodexSession: the requests of both sides are answered, and *)
(* at most once, the session knows the turn that goes on, and a stream     *)
(* ends only when its turn has been told to the end.                       *)
(***************************************************************************)
EXTENDS CodexSession, TLAPS

(***************************************************************************)
(* The requests of the app-server.                                         *)
(***************************************************************************)
HeldTyped ==
    /\ asked \in Seq(ApprovalIds \cup {"other"})
    /\ answers \in Seq(Nat \X {"accept", "decline", "error"})
    /\ approvals \in [ApprovalIds -> Nat]

\* A request is held under one name until it is answered, and only those that came are answered.
HeldInv ==
    /\ HeldTyped
    /\ \A a \in ApprovalIds : approvals[a] <= Len(asked)
    /\ \A i \in 1 .. Len(answers) : answers[i][1] <= Len(asked)
    /\ \A a, b \in ApprovalIds : a # b /\ approvals[a] # 0 => approvals[a] # approvals[b]
    /\ \A a \in ApprovalIds, i \in 1 .. Len(answers) : approvals[a] # 0 => answers[i][1] # approvals[a]
    /\ AnsweredOnce

LEMMA HeldInit == Init => HeldInv
  BY DEF Init, HeldInv, HeldTyped, AnsweredOnce

\* Nothing is asked or answered, and maybe all that is held is dropped.
LEMMA HeldDropped ==
  ASSUME HeldInv, UNCHANGED <<asked, answers>>,
         approvals' \in {approvals, [a \in ApprovalIds |-> 0]}
  PROVE  HeldInv'
  <1>1. CASE approvals' = approvals
    BY <1>1 DEF HeldInv, HeldTyped, AnsweredOnce
  <1>2. CASE approvals' = [a \in ApprovalIds |-> 0]
    <2>1. approvals' \in [ApprovalIds -> Nat] /\ \A a \in ApprovalIds : approvals'[a] = 0
      BY <1>2
    <2>2. Len(asked) \in Nat
      BY DEF HeldInv, HeldTyped
    <2> QED  BY <2>1, <2>2 DEF HeldInv, HeldTyped, AnsweredOnce
  <1> QED  BY <1>1, <1>2

\* One answer more, to a request that is held no longer.
LEMMA AnswerAdded ==
  ASSUME HeldInv, NEW id \in Nat, NEW what \in {"accept", "decline", "error"},
         answers' = Append(answers, <<id, what>>),
         \A i \in 1 .. Len(answers) : answers[i][1] # id,
         asked' \in Seq(ApprovalIds \cup {"other"}), Len(asked') >= Len(asked), id <= Len(asked'),
         approvals' \in [ApprovalIds -> Nat],
         \A a \in ApprovalIds : approvals'[a] \in {0, approvals[a]} /\ (approvals'[a] # 0 => approvals'[a] # id)
  PROVE  HeldInv'
  <1>1. /\ answers \in Seq(Nat \X {"accept", "decline", "error"}) /\ Len(answers) \in Nat
        /\ Len(asked) \in Nat /\ Len(asked') \in Nat /\ approvals \in [ApprovalIds -> Nat]
    BY DEF HeldInv, HeldTyped
  <1>2. <<id, what>> \in Nat \X {"accept", "decline", "error"} /\ <<id, what>>[1] = id
    OBVIOUS
  <1>3. /\ answers' \in Seq(Nat \X {"accept", "decline", "error"})
        /\ Len(answers') = Len(answers) + 1 /\ answers'[Len(answers) + 1] = <<id, what>>
        /\ \A i \in 1 .. Len(answers) : answers'[i] = answers[i]
    BY <1>1, <1>2
  <1>4. HeldTyped'
    BY <1>3 DEF HeldTyped
  <1>5. \A a \in ApprovalIds : approvals'[a] <= Len(asked')
    <2>1. \A a \in ApprovalIds : approvals[a] \in Nat /\ approvals[a] <= Len(asked)
      BY <1>1 DEF HeldInv
    <2> QED  BY <1>1, <2>1
  <1>6. \A i \in 1 .. Len(answers') : answers'[i][1] <= Len(asked')
    <2> SUFFICES ASSUME NEW i \in 1 .. Len(answers') PROVE answers'[i][1] <= Len(asked')
      OBVIOUS
    <2>1. CASE i = Len(answers) + 1
      BY <1>1, <1>2, <1>3, <2>1
    <2>2. CASE i # Len(answers) + 1
      <3>1. i \in 1 .. Len(answers)
        BY <1>1, <1>3, <2>2
      <3>2. answers[i][1] \in Nat /\ answers[i][1] <= Len(asked)
        BY <1>1, <3>1 DEF HeldInv
      <3> QED  BY <1>1, <1>3, <3>1, <3>2
    <2> QED  BY <2>1, <2>2
  <1>7. \A a, b \in ApprovalIds : a # b /\ approvals'[a] # 0 => approvals'[a] # approvals'[b]
    BY DEF HeldInv
  <1>8. \A a \in ApprovalIds, i \in 1 .. Len(answers') : approvals'[a] # 0 => answers'[i][1] # approvals'[a]
    <2> SUFFICES ASSUME NEW a \in ApprovalIds, NEW i \in 1 .. Len(answers'), approvals'[a] # 0
                 PROVE  answers'[i][1] # approvals'[a]
      OBVIOUS
    <2>1. CASE i = Len(answers) + 1
      BY <1>2, <1>3, <2>1
    <2>2. CASE i # Len(answers) + 1
      BY <1>1, <1>3, <2>2 DEF HeldInv
    <2> QED  BY <2>1, <2>2
  <1>9. AnsweredOnce'
    <2> SUFFICES ASSUME NEW i \in 1 .. Len(answers'), NEW j \in 1 .. Len(answers'), answers'[i][1] = answers'[j][1]
                 PROVE  i = j
      BY DEF AnsweredOnce
    <2>1. \A k \in 1 .. Len(answers') : k = Len(answers) + 1 \/ (k \in 1 .. Len(answers) /\ answers'[k] = answers[k])
      BY <1>1, <1>3
    <2>2. answers'[Len(answers) + 1][1] = id
      BY <1>2, <1>3
    <2> QED  BY <2>1, <2>2 DEF HeldInv, AnsweredOnce
  <1> QED  BY <1>4, <1>5, <1>6, <1>7, <1>8, <1>9 DEF HeldInv

LEMMA AskedMore ==
  ASSUME HeldInv, NEW a \in ApprovalIds \cup {"other"}
  PROVE  /\ Append(asked, a) \in Seq(ApprovalIds \cup {"other"})
         /\ Len(Append(asked, a)) = Len(asked) + 1
         /\ Len(asked) \in Nat
  <1>1. asked \in Seq(ApprovalIds \cup {"other"})
    BY DEF HeldInv, HeldTyped
  <1> QED  BY <1>1

LEMMA HeldStep == HeldInv /\ [Next]_codexVars => HeldInv'
  <1> SUFFICES ASSUME HeldInv, [Next]_codexVars PROVE HeldInv'
    OBVIOUS
  <1> DEFINE None == [a \in ApprovalIds |-> 0]
  <1> HIDE DEF None
  <1> USE DEF connVars, sessVars, serverVars, givenVars, Nothing
  <1>1. approvals \in [ApprovalIds -> Nat] /\ Len(asked) \in Nat
    BY DEF HeldInv, HeldTyped
  <1>2. CASE UNCHANGED codexVars
    BY <1>2, HeldDropped DEF codexVars
  <1>3. CASE Connect \/ ReaderStarts \/ Initialized \/ ThreadStarted \/ FirstTurnStarted \/ StartFails \/ RefusalSent
    BY <1>3, HeldDropped DEF Connect, ReaderStarts, Initialized, ThreadStarted, FirstTurnStarted, StartFails, RefusalSent, None
  <1>4. CASE Failure
    BY <1>4, HeldDropped DEF Failure, None
  <1>5. ASSUME NEW c \in Callers, Calls(c) PROVE HeldInv'
    BY <1>5, HeldDropped DEF Calls, SendOfCall, CloseConnection, TransportCloses, Finish, Answered, None
  <1>6. ASSUME NEW c \in Senders, SendBegins(c) \/ SendReturns(c) PROVE HeldInv'
    BY <1>6, HeldDropped DEF SendBegins, SendReturns
  <1>7. ASSUME NEW c \in Callers, CancelBegins(c) \/ Interrupted(c) \/ GraceEnds(c) \/ ProviderClose(c) PROVE HeldInv'
    BY <1>7, HeldDropped DEF CancelBegins, Interrupted, GraceEnds, ProviderClose
  <1>8. ASSUME NEW t \in Callers,
               \/ \E m \in Methods : Notified(t, m[1], m[2])
               \/ \E status \in {"completed", "interrupted"} : TurnCompleted(t, status)
        PROVE  HeldInv'
    BY <1>8, HeldDropped DEF Notified, TurnCompleted
  <1>9. ASSUME NEW s \in Streams, Look(s) \/ Resume(s) \/ Leave(s) \/ \E from : Open(s, from) PROVE HeldInv'
    BY <1>9, HeldDropped DEF Look, Resume, Leave, Open, StreamOnly
  <1>10. ASSUME NEW a \in ApprovalIds, NEW decision \in {"accept", "decline"}, Approve(a, decision) PROVE HeldInv'
    <2>1. approvals[a] # 0 /\ approvals' = [approvals EXCEPT ![a] = 0] /\ asked' = asked
      BY <1>10 DEF Approve, Forgotten
    <2>2. /\ approvals' \in [ApprovalIds -> Nat]
          /\ \A b \in ApprovalIds : approvals'[b] \in {0, approvals[b]} /\ (approvals'[b] # 0 => approvals'[b] # approvals[a])
      BY <1>1, <2>1 DEF HeldInv
    <2>3. CASE answers' = Append(answers, <<approvals[a], decision>>)
      <3>1. /\ approvals[a] \in Nat /\ approvals[a] <= Len(asked')
            /\ \A i \in 1 .. Len(answers) : answers[i][1] # approvals[a]
        BY <1>1, <2>1 DEF HeldInv
      <3>2. asked' \in Seq(ApprovalIds \cup {"other"}) /\ Len(asked') >= Len(asked)
        BY <1>1, <2>1 DEF HeldInv, HeldTyped
      <3> QED  BY <2>2, <2>3, <3>1, <3>2, AnswerAdded
    <2>4. CASE answers' = answers
      <3>1. HeldTyped' /\ AnsweredOnce'
        BY <2>1, <2>2, <2>4 DEF HeldInv, HeldTyped, AnsweredOnce
      <3>2. \A b \in ApprovalIds : approvals'[b] <= Len(asked')
        <4>1. \A b \in ApprovalIds : approvals[b] <= Len(asked)
          BY DEF HeldInv
        <4> QED  BY <1>1, <2>1, <2>2, <4>1
      <3>3. \A i \in 1 .. Len(answers') : answers'[i][1] <= Len(asked')
        BY <2>1, <2>4 DEF HeldInv
      <3>4. \A b, d \in ApprovalIds : b # d /\ approvals'[b] # 0 => approvals'[b] # approvals'[d]
        BY <2>2 DEF HeldInv
      <3>5. \A b \in ApprovalIds, i \in 1 .. Len(answers') : approvals'[b] # 0 => answers'[i][1] # approvals'[b]
        BY <2>2, <2>4 DEF HeldInv
      <3> QED  BY <3>1, <3>2, <3>3, <3>4, <3>5 DEF HeldInv
    <2> QED  BY <1>10, <2>3, <2>4 DEF Approve
  <1>11. ASSUME NEW a \in ApprovalIds, ApprovalAsked(a) PROVE HeldInv'
    <2>1. /\ approvals' = [approvals EXCEPT ![a] = Len(asked) + 1] /\ asked' = Append(asked, a) /\ answers' = answers
      BY <1>11 DEF ApprovalAsked
    <2>2. asked' \in Seq(ApprovalIds \cup {"other"}) /\ Len(asked') = Len(asked) + 1
      BY <2>1, AskedMore
    <2>3. \A i \in 1 .. Len(answers) : answers[i][1] \in Nat /\ answers[i][1] <= Len(asked)
      BY DEF HeldInv, HeldTyped
    <2>4. \A b \in ApprovalIds : approvals[b] \in Nat /\ approvals[b] <= Len(asked)
      BY <1>1 DEF HeldInv
    <2>5. \A b \in ApprovalIds : approvals'[b] = IF b = a THEN Len(asked) + 1 ELSE approvals[b]
      BY <1>1, <2>1
    <2>6. HeldTyped'
      BY <1>1, <2>1, <2>2 DEF HeldInv, HeldTyped
    <2>7. \A b \in ApprovalIds : approvals'[b] <= Len(asked')
      BY <1>1, <2>2, <2>4, <2>5
    <2>8. \A i \in 1 .. Len(answers') : answers'[i][1] <= Len(asked')
      BY <1>1, <2>1, <2>2, <2>3
    <2>9. \A b, d \in ApprovalIds : b # d /\ approvals'[b] # 0 => approvals'[b] # approvals'[d]
      <3>1. \A b, d \in ApprovalIds : b # d /\ approvals[b] # 0 => approvals[b] # approvals[d]
        BY DEF HeldInv
      <3> QED  BY <1>1, <2>4, <2>5, <3>1
    <2>10. \A b \in ApprovalIds, i \in 1 .. Len(answers') : approvals'[b] # 0 => answers'[i][1] # approvals'[b]
      <3>1. \A b \in ApprovalIds, i \in 1 .. Len(answers) : approvals[b] # 0 => answers[i][1] # approvals[b]
        BY DEF HeldInv
      <3> QED  BY <1>1, <2>1, <2>3, <2>5, <3>1
    <2>11. AnsweredOnce'
      BY <2>1 DEF HeldInv, AnsweredOnce
    <2> QED  BY <2>6, <2>7, <2>8, <2>9, <2>10, <2>11, Zenon DEF HeldInv
  <1>12. ASSUME NEW a \in ApprovalIds \cup {"other"}, RequestRefused(a) PROVE HeldInv'
    <2>1. /\ approvals' = approvals /\ asked' = Append(asked, a)
          /\ answers' = Append(answers, <<Len(asked) + 1, "error">>)
      BY <1>12 DEF RequestRefused
    <2>2. asked' \in Seq(ApprovalIds \cup {"other"}) /\ Len(asked') = Len(asked) + 1
      BY <2>1, AskedMore
    <2>3. /\ \A i \in 1 .. Len(answers) : answers[i][1] # Len(asked) + 1
          /\ \A b \in ApprovalIds : approvals[b] # Len(asked) + 1
      <3>1. \A i \in 1 .. Len(answers) : answers[i][1] \in Nat /\ answers[i][1] <= Len(asked)
        BY DEF HeldInv, HeldTyped
      <3> QED  BY <1>1, <3>1 DEF HeldInv
    <2>4. Len(asked) + 1 \in Nat /\ Len(asked') >= Len(asked) /\ Len(asked) + 1 <= Len(asked')
      BY <1>1, <2>2
    <2>5. /\ approvals' \in [ApprovalIds -> Nat]
          /\ \A b \in ApprovalIds : approvals'[b] \in {0, approvals[b]} /\ (approvals'[b] # 0 => approvals'[b] # Len(asked) + 1)
      BY <1>1, <2>1, <2>3
    <2> QED  BY <2>1, <2>2, <2>3, <2>4, <2>5, AnswerAdded
  <1> QED  BY <1>2, <1>3, <1>4, <1>5, <1>6, <1>7, <1>8, <1>9, <1>10, <1>11, <1>12, CallersAssumption DEF Next

(***************************************************************************)
(* No request of the app-server is answered twice: approve() forgets it    *)
(* before it answers, and a name that is taken is refused.                 *)
(***************************************************************************)
THEOREM RequestsAnsweredOnce == Spec => []AnsweredOnce
  <1>1. HeldInv => AnsweredOnce
    BY DEF HeldInv
  <1> QED  BY <1>1, HeldInit, HeldStep, PTL DEF Spec

(***************************************************************************)
(* The requests of this side.                                              *)
(***************************************************************************)

\* Who closes has closed for writes; what nobody will answer is not pending.
PendingInv ==
    /\ transportClosed => closed
    /\ closing # Nobody => transportClosed
    /\ transport = "closed" => transportClosed /\ pending = {}
    /\ transport \in {"open", "closed"}
    /\ closed /\ ~transportClosed => pending = {}

LEMMA PendingInit == Init => PendingInv
  BY DEF Init, ConnInit, PendingInv

LEMMA PendingStep == PendingInv /\ [Next]_codexVars => PendingInv'
  <1> SUFFICES ASSUME PendingInv, [Next]_codexVars PROVE PendingInv'
    OBVIOUS
  <1> USE DEF connVars, Nothing
  <1>1. ASSUME UNCHANGED <<closed, transportClosed, closing, transport, pending>> PROVE PendingInv'
    BY <1>1 DEF PendingInv
  <1>2. ASSUME NEW c, NEW what, Request(c, what) PROVE PendingInv'
    BY <1>2 DEF Request, PendingInv
  <1>3. ASSUME NEW c, CloseBegins(c) PROVE PendingInv'
    BY <1>3 DEF CloseBegins, PendingInv
  <1>4. CASE UNCHANGED codexVars
    BY <1>1, <1>4 DEF codexVars
  <1>5. CASE Connect \/ Initialized \/ ThreadStarted
    BY <1>1, <1>2, <1>5 DEF Connect, Initialized, ThreadStarted
  <1>6. CASE ReaderStarts \/ FirstTurnStarted \/ RefusalSent
    BY <1>1, <1>6 DEF ReaderStarts, FirstTurnStarted, RefusalSent
  <1>7. CASE StartFails
    BY <1>3, <1>7 DEF StartFails
  <1>8. CASE Failure
    BY <1>8 DEF Failure, ReaderEnds, RejectPending, PendingInv
  <1>9. ASSUME NEW c \in Callers, Calls(c) PROVE PendingInv'
    <2>1. CASE SendOfCall(c)
      BY <2>1 DEF SendOfCall, SendSettles, PendingInv
    <2>2. CASE CloseConnection(c)
      BY <1>1, <1>3, <2>2 DEF CloseConnection
    <2>3. CASE TransportCloses(c)
      BY <2>3, CallersAssumption DEF TransportCloses, CloseSettles, CloseThrows, RejectPending, PendingInv
    <2>4. CASE Finish(c)
      BY <1>1, <2>4 DEF Finish
    <2>5. ASSUME NEW outcome, Answered(c, outcome) PROVE PendingInv'
      BY <2>5 DEF Answered, Respond, PendingInv
    <2> QED  BY <1>9, <2>1, <2>2, <2>3, <2>4, <2>5 DEF Calls
  <1>10. ASSUME NEW c \in Senders, SendBegins(c) \/ SendReturns(c) PROVE PendingInv'
    BY <1>1, <1>2, <1>10 DEF SendBegins, SendReturns, Took
  <1>11. ASSUME NEW c \in Callers, CancelBegins(c) \/ Interrupted(c) \/ GraceEnds(c) \/ ProviderClose(c) PROVE PendingInv'
    BY <1>1, <1>2, <1>11 DEF CancelBegins, Interrupted, GraceEnds, ProviderClose
  <1>12. ASSUME NEW t \in Callers,
                \/ \E m \in Methods : Notified(t, m[1], m[2])
                \/ \E status \in {"completed", "interrupted"} : TurnCompleted(t, status)
         PROVE  PendingInv'
    BY <1>1, <1>12 DEF Notified, TurnCompleted
  <1>13. ASSUME NEW s \in Streams, Look(s) \/ Resume(s) \/ Leave(s) \/ \E from : Open(s, from) PROVE PendingInv'
    BY <1>1, <1>13 DEF Look, Resume, Leave, Open, StreamOnly
  <1>14. ASSUME NEW a \in ApprovalIds \cup {"other"}, ApprovalAsked(a) \/ RequestRefused(a) PROVE PendingInv'
    BY <1>1, <1>14 DEF ApprovalAsked, RequestRefused
  <1>15. ASSUME NEW a \in ApprovalIds, NEW decision, Approve(a, decision) PROVE PendingInv'
    BY <1>1, <1>15 DEF Approve
  <1> QED  BY <1>4, <1>5, <1>6, <1>7, <1>8, <1>9, <1>10, <1>11, <1>12, <1>13, <1>14, <1>15, CallersAssumption DEF Next

(***************************************************************************)
(* Nobody waits for an answer over a connection that is closed: request()  *)
(* registers nothing on it, and whoever closes it, the reader that failed  *)
(* or the transport that did close, rejects what is pending.               *)
(***************************************************************************)
THEOREM RequestsAreSettled == Spec => []RequestsSettle
  <1>1. PendingInv => RequestsSettle
    BY DEF PendingInv, RequestsSettle
  <1> QED  BY <1>1, PendingInit, PendingStep, PTL DEF Spec

(***************************************************************************)
(* The turn that goes on.                                                  *)
(***************************************************************************)
Turners == Senders \cup {Starter}
Unbegun == {"off", "initialize", "thread"}
Idle == {"off", "done", "failed"}
CallPlaces == {"off", "initialize", "thread", "turn", "done", "closing", "failed", "steer",
               "interrupt", "grace", "close", "finish"}
CallRecord == [at : CallPlaces, turn : Callers \cup {NoTurn}, settled : BOOLEAN]
EventMethods == {"turn/completed", "item/completed", "blackbox/session/started", "blackbox/session/failed",
                 "blackbox/session/cancelled", "blackbox/approval/requested"}
EventStatuses == {"", "completed", "interrupted"}
EventItems == {"", "fileChange"} \cup ApprovalIds
EventSet == [method : EventMethods, turn : Callers \cup {NoTurn}, status : EventStatuses,
             item : EventItems, synthesized : BOOLEAN]

TurnTyped ==
    /\ call \in [Callers -> CallRecord]
    /\ turn \in [Callers -> {"none", "running", "done"}]
    /\ events \in Seq(EventSet)
    /\ over \in BOOLEAN
    /\ current \in Callers \cup {NoTurn}
    /\ call[Starter].at \in {"off", "initialize", "thread", "turn", "done", "closing", "failed"}
    /\ \A c \in Senders : call[c].at \in {"off", "steer", "turn", "done", "failed"}

\* Where the calls that begin turns stand: one at a time, and after the first has returned.
TurnCalls ==
    /\ listed => call[Starter].at = "done"
    /\ ~listed => call[Starter].at # "done" /\ \A c \in Senders : call[c].at = "off"
    /\ \A c, d \in Senders : c = d \/ call[c].at \in Idle \/ call[d].at \in Idle

\* The app-server has told that turn t is complete.
Told(t) == \E i \in 1 .. Len(events) : events[i].method = "turn/completed" /\ ~events[i].synthesized /\ events[i].turn = t

\* A turn goes on from its request to its completion, and a call begins one only when none goes on.
TurnLives ==
    /\ \A c \in Turners : call[c].at \in Unbegun \cup {"steer"} => turn[c] = "none"
    /\ \A c \in Turners : Told(c) => call[c].at \notin Unbegun /\ turn[c] # "running"
    /\ \A c \in Senders, d \in Turners :
          call[c].at = "turn" /\ c # d /\ call[d].at = "done" => turn[d] # "running"

TurnInv == TurnTyped /\ TurnCalls /\ TurnLives /\ TurnKnown

LEMMA EventTyped ==
  ASSUME NEW method \in EventMethods, NEW t \in Callers \cup {NoTurn}, NEW status \in EventStatuses,
         NEW item \in EventItems, NEW synthesized \in BOOLEAN
  PROVE  /\ Event(method, t, status, item, synthesized) \in EventSet
         /\ Event(method, t, status, item, synthesized).method = method
         /\ Event(method, t, status, item, synthesized).turn = t
         /\ Event(method, t, status, item, synthesized).synthesized = synthesized
  BY DEF Event, EventSet

LEMMA Literals ==
  /\ "turn/completed" \in EventMethods /\ "blackbox/session/started" \in EventMethods
  /\ "blackbox/session/failed" \in EventMethods /\ "blackbox/session/cancelled" \in EventMethods
  /\ "blackbox/approval/requested" \in EventMethods
  /\ "" \in EventStatuses /\ "completed" \in EventStatuses /\ "interrupted" \in EventStatuses
  /\ "" \in EventItems /\ \A a \in ApprovalIds : a \in EventItems
  BY DEF EventMethods, EventStatuses, EventItems

LEMMA TurnInit == Init => TurnInv
  <1> SUFFICES ASSUME Init PROVE TurnInv
    OBVIOUS
  <1>1. \A c \in Callers : call[c].at = "off" /\ turn[c] = "none"
    BY DEF Init, ConnInit
  <1>2. Starter \in Callers /\ Senders \subseteq Callers
    BY CallersAssumption
  <1>3. TurnTyped
    <2>1. [at |-> "off", turn |-> NoTurn, settled |-> FALSE] \in CallRecord
      BY DEF CallRecord, CallPlaces
    <2>2. call \in [Callers -> CallRecord] /\ turn \in [Callers -> {"none", "running", "done"}]
      BY <2>1 DEF Init, ConnInit
    <2>3. events \in Seq(EventSet) /\ over \in BOOLEAN /\ current \in Callers \cup {NoTurn}
      <3>1. events = << >> /\ over = FALSE /\ current = NoTurn
        BY DEF Init
      <3>2. << >> \in Seq(EventSet) /\ FALSE \in BOOLEAN
        OBVIOUS
      <3> QED  BY <3>1, <3>2, Zenon
    <2> QED  BY <1>1, <1>2, <2>2, <2>3 DEF TurnTyped
  <1>4. TurnCalls /\ TurnLives /\ TurnKnown
    BY <1>1, <1>2 DEF Init, TurnCalls, TurnLives, Told, TurnKnown, Turners, Idle
  <1> QED  BY <1>3, <1>4 DEF TurnInv

\* An event that tells of no completion.
Untold(event) == event \in EventSet /\ (event.method # "turn/completed" \/ event.synthesized)

LEMMA EventAdded ==
  ASSUME events \in Seq(EventSet), NEW event \in EventSet, events' = Append(events, event)
  PROVE  /\ events' \in Seq(EventSet)
         /\ \A t : Told(t)' <=>
               Told(t) \/ (event.method = "turn/completed" /\ ~event.synthesized /\ event.turn = t)
  <1>1. /\ events' \in Seq(EventSet) /\ Len(events) \in Nat
        /\ Len(events') = Len(events) + 1 /\ events'[Len(events) + 1] = event
        /\ \A i \in 1 .. Len(events) : events'[i] = events[i]
    OBVIOUS
  <1>2. \A i : i \in 1 .. Len(events') <=> i \in 1 .. Len(events) \/ i = Len(events) + 1
    BY <1>1
  <1> QED  BY <1>1, <1>2 DEF Told

LEMMA Completion ==
  ASSUME NEW t \in Callers, IsComplete(events, t)
  PROVE  Told(t)
  BY CallersAssumption DEF IsComplete, Completes, Told, NoTurn

\* What leaves the calls that begin turns and their turns alone, whatever else is recorded.
LEMMA TurnsAside ==
  ASSUME TurnInv, UNCHANGED <<turn, current, listed>>, over' \in BOOLEAN,
         call' \in [Callers -> CallRecord], \A c \in Turners : call'[c] = call[c],
         events' = events \/ \E event : Untold(event) /\ events' = Append(events, event)
  PROVE  TurnInv'
  <1>1. events' \in Seq(EventSet) /\ \A t : Told(t)' <=> Told(t)
    <2>1. CASE events' = events
      BY <2>1 DEF TurnInv, TurnTyped, Told
    <2>2. ASSUME NEW event, Untold(event), events' = Append(events, event)
          PROVE  events' \in Seq(EventSet) /\ \A t : Told(t)' <=> Told(t)
      BY <2>2, EventAdded DEF TurnInv, TurnTyped, Untold
    <2> QED  BY <2>1, <2>2
  <1>2. TurnTyped'
    BY <1>1 DEF TurnInv, TurnTyped, Turners
  <1>3. TurnCalls' /\ TurnKnown'
    BY DEF TurnInv, TurnCalls, TurnKnown, Turners
  <1>4. TurnLives'
    BY <1>1 DEF TurnInv, TurnLives, Turners
  <1> QED  BY <1>2, <1>3, <1>4 DEF TurnInv

\* A step of caller c whose turn begins with it, or not at all.
LEMMA CallGoes ==
  ASSUME TurnTyped, NEW c \in Callers, NEW where \in CallPlaces, At(c, where)
  PROVE  /\ call' \in [Callers -> CallRecord]
         /\ call'[c].at = where /\ call'[c].turn = call[c].turn
         /\ \A d \in Callers : d # c => call'[d] = call[d]
  <1>1. call \in [Callers -> CallRecord] /\ call[c] \in CallRecord
    BY DEF TurnTyped
  <1>2. [call[c] EXCEPT !.at = where] \in CallRecord
    BY <1>1 DEF CallRecord
  <1> QED  BY <1>1, <1>2 DEF At, CallRecord

LEMMA StarterSteps ==
  ASSUME TurnInv, Connect \/ Initialized \/ ThreadStarted \/ FirstTurnStarted \/ StartFails
  PROVE  TurnInv'
  <1> USE DEF Nothing, connVars
  <1>0. /\ Starter \in Callers /\ Senders \subseteq Callers /\ Starter \notin Senders
        /\ turn \in [Callers -> {"none", "running", "done"}] /\ TurnTyped
    BY CallersAssumption DEF TurnInv, TurnTyped
  \* Before its first turn is returned, no other call has begun.
  <1>1. ~listed /\ call[Starter].at # "done" /\ \A c \in Senders : call[c].at = "off" /\ turn[c] = "none" /\ ~ Told(c)
    <2>1. call[Starter].at # "done"
      BY DEF Connect, Initialized, ThreadStarted, FirstTurnStarted, StartFails
    <2> QED  BY <2>1 DEF TurnInv, TurnCalls, TurnLives, Turners, Unbegun
  <1>2. ASSUME NEW where \in {"initialize", "thread", "failed", "closing"}, At(Starter, where),
               UNCHANGED <<turn, current, listed, events, over>>,
               where \in Unbegun => call[Starter].at \in Unbegun
        PROVE  TurnInv'
    <2>1. /\ call' \in [Callers -> CallRecord] /\ call'[Starter].at = where
          /\ \A d \in Callers : d # Starter => call'[d] = call[d]
      BY <1>0, <1>2, CallGoes DEF CallPlaces
    <2>2. \A c \in Senders : call'[c] = call[c]
      BY <1>0, <2>1
    <2>3. TurnTyped'
      BY <1>0, <1>2, <2>1, <2>2 DEF TurnTyped
    <2>4. TurnCalls' /\ TurnKnown'
      BY <1>1, <1>2, <2>1, <2>2 DEF TurnCalls, TurnKnown, Idle
    <2>5. TurnLives'
      <3>1. \A c : Told(c)' <=> Told(c)
        BY <1>2 DEF Told
      <3>2. where \in Unbegun => turn[Starter] = "none" /\ ~ Told(Starter)
        BY <1>2 DEF TurnInv, TurnLives, Turners
      <3>3. Told(Starter) => turn[Starter] # "running"
        BY DEF TurnInv, TurnLives, Turners
      <3> QED  BY <1>1, <1>2, <2>1, <2>2, <3>1, <3>2, <3>3 DEF TurnLives, Turners, Unbegun
    <2> QED  BY <2>3, <2>4, <2>5 DEF TurnInv
  <1>3. CASE Connect
    <2>1. PICK where \in {"initialize", "failed"} : At(Starter, where) /\ UNCHANGED turn
      BY <1>3 DEF Connect, Request
    <2>2. call[Starter].at = "off" /\ UNCHANGED <<current, listed, events, over>>
      BY <1>3 DEF Connect
    <2> QED  BY <1>2, <2>1, <2>2 DEF Unbegun
  <1>4. CASE Initialized
    <2>1. At(Starter, "thread") /\ UNCHANGED turn /\ call[Starter].at = "initialize"
      BY <1>4 DEF Initialized, Request
    <2> QED  BY <1>2, <1>4, <2>1 DEF Initialized, Unbegun
  <1>5. CASE StartFails
    BY <1>2, <1>5 DEF StartFails, CloseBegins, Unbegun
  <1>6. CASE ThreadStarted
    <2>1. call[Starter].at = "thread" /\ At(Starter, "turn") /\ turn' = [turn EXCEPT ![Starter] = "running"]
          /\ UNCHANGED <<listed, current, over>>
          /\ events' = <<Event("blackbox/session/started", NoTurn, "", "", TRUE)>>
      BY <1>6 DEF ThreadStarted, Request
    <2>2. /\ call' \in [Callers -> CallRecord] /\ call'[Starter].at = "turn"
          /\ \A d \in Callers : d # Starter => call'[d] = call[d]
      BY <1>0, <2>1, CallGoes DEF CallPlaces
    <2>3. \A c \in Senders : call'[c] = call[c] /\ turn'[c] = turn[c]
      BY <1>0, <2>1, <2>2
    <2>4. events' \in Seq(EventSet) /\ \A c : ~ Told(c)'
      <3> DEFINE started == Event("blackbox/session/started", NoTurn, "", "", TRUE)
      <3>1. started \in EventSet /\ started.synthesized = TRUE
        BY EventTyped, Literals
      <3>2. events' = <<started>>
        BY <2>1
      <3> HIDE DEF started
      <3>3. \A i \in 1 .. Len(events') : events'[i].synthesized
        BY <3>1, <3>2
      <3>4. events' \in Seq(EventSet)
        BY <3>1, <3>2
      <3> QED  BY <3>3, <3>4 DEF Told
    <2>5. TurnTyped'
      BY <1>0, <2>1, <2>2, <2>3, <2>4 DEF TurnTyped
    <2>6. TurnCalls' /\ TurnKnown'
      BY <1>1, <2>1, <2>2, <2>3 DEF TurnCalls, TurnKnown, Idle
    <2>7. TurnLives'
      BY <1>1, <2>2, <2>3, <2>4 DEF TurnLives, Turners, Unbegun
    <2> QED  BY <2>5, <2>6, <2>7 DEF TurnInv
  <1>7. CASE FirstTurnStarted
    <2>1. call[Starter].at = "turn" /\ At(Starter, "done") /\ current' = Starter /\ listed' = TRUE
          /\ UNCHANGED <<turn, events, over>>
      BY <1>7 DEF FirstTurnStarted
    <2>2. /\ call' \in [Callers -> CallRecord] /\ call'[Starter].at = "done"
          /\ \A d \in Callers : d # Starter => call'[d] = call[d]
      BY <1>0, <2>1, CallGoes DEF CallPlaces
    <2>3. \A c \in Senders : call'[c] = call[c]
      BY <1>0, <2>2
    <2>4. TurnTyped'
      BY <1>0, <2>1, <2>2, <2>3 DEF TurnTyped
    <2>5. TurnCalls' /\ TurnKnown'
      BY <1>0, <1>1, <2>1, <2>2, <2>3 DEF TurnCalls, TurnKnown, Idle
    <2>6. TurnLives'
      <3>1. \A c : Told(c)' <=> Told(c)
        BY <2>1 DEF Told
      <3>2. Told(Starter) => turn[Starter] # "running"
        BY DEF TurnInv, TurnLives, Turners
      <3> QED  BY <1>1, <2>1, <2>2, <2>3, <3>1, <3>2 DEF TurnLives, Turners, Unbegun
    <2> QED  BY <2>4, <2>5, <2>6 DEF TurnInv
  <1> QED  BY <1>3, <1>4, <1>5, <1>6, <1>7

LEMMA SenderSteps ==
  ASSUME SerialSenders, TurnInv, NEW c \in Senders, SendBegins(c) \/ SendReturns(c)
  PROVE  TurnInv'
  <1> USE DEF Nothing, connVars
  <1>0. /\ c \in Callers /\ Starter \in Callers /\ Starter # c /\ Senders \subseteq Callers /\ Nobody \notin Callers
        /\ turn \in [Callers -> {"none", "running", "done"}] /\ TurnTyped
        /\ call \in [Callers -> CallRecord] /\ current \in Callers \cup {NoTurn} /\ Turners \subseteq Callers
    BY CallersAssumption DEF TurnInv, TurnTyped, Turners
  <1>1. call[c].at \in {"off", "steer", "turn"} /\ UNCHANGED <<listed, events, over>>
    BY DEF SendBegins, SendReturns, Called
  <1>2. call[c].at = "off" => \A d \in Senders : call[d].at \in Idle
    <2>1. call[c].at = "off" => SendBegins(c)
      BY DEF SendReturns
    <2> QED  BY <2>1 DEF SendBegins, Idle
  <1>3. \A d \in Senders : d # c => call[d].at \in Idle
    BY <1>1, <1>2 DEF TurnInv, TurnCalls, Idle
  <1>4. \A d : Told(d)' <=> Told(d)
    BY <1>1 DEF Told
  <1>5. listed /\ call[Starter].at = "done"
    <2>1. call[c].at = "off" => listed
      <3>1. call[c].at = "off" => SendBegins(c)
        BY DEF SendReturns
      <3> QED  BY <3>1 DEF SendBegins, Called
    <2>2. call[c].at # "off" => listed
      BY DEF TurnInv, TurnCalls
    <2> QED  BY <2>1, <2>2 DEF TurnInv, TurnCalls
  <1>6. ASSUME NEW where \in {"steer", "turn", "done", "failed"},
               call' \in [Callers -> CallRecord], call'[c].at = where,
               \A d \in Callers : d # c => call'[d] = call[d],
               turn' \in [Callers -> {"none", "running", "done"}],
               \A d \in Callers : d # c => turn'[d] = turn[d],
               current' \in Callers \cup {NoTurn},
               where = "steer" => turn'[c] = "none",
               Told(c) => turn'[c] # "running",
               where = "turn" => \A d \in Turners : d # c /\ call[d].at = "done" => turn[d] # "running",
               \A d \in Turners : call'[d].at = "done" /\ turn'[d] = "running" => current' = d
        PROVE  TurnInv'
    <2>1. TurnTyped'
      BY <1>0, <1>1, <1>6 DEF TurnTyped
    <2>2. TurnCalls'
      BY <1>0, <1>1, <1>3, <1>5, <1>6 DEF TurnCalls, Idle
    <2>3. TurnKnown'
      BY <1>6 DEF TurnKnown, Turners
    <2>4. TurnLives'
      <3>1. \A d \in Turners : call'[d].at \in Unbegun \cup {"steer"} => turn'[d] = "none"
        BY <1>0, <1>6 DEF TurnInv, TurnLives, Unbegun
      <3>2. \A d \in Turners : Told(d)' => call'[d].at \notin Unbegun /\ turn'[d] # "running"
        BY <1>0, <1>4, <1>6 DEF TurnInv, TurnLives, Unbegun
      <3>3. \A e \in Senders, d \in Turners :
              call'[e].at = "turn" /\ e # d /\ call'[d].at = "done" => turn'[d] # "running"
        BY <1>0, <1>3, <1>6 DEF Idle
      <3> QED  BY <3>1, <3>2, <3>3 DEF TurnLives
    <2> QED  BY <2>1, <2>2, <2>3, <2>4 DEF TurnInv
  <1>7. CASE SendBegins(c)
    <2>1. call[c].at = "off" /\ turn[c] = "none" /\ ~ Told(c) /\ UNCHANGED current
      BY <1>7 DEF SendBegins, Called, TurnInv, TurnLives, Turners, Unbegun
    <2>2. \A d \in Turners : call[d].at = "done" /\ turn[d] = "running" => current = d
      BY DEF TurnInv, TurnKnown, Turners
    <2>3. CASE over \/ closed
      <3>1. At(c, "failed") /\ UNCHANGED turn
        BY <1>7, <2>3 DEF SendBegins
      <3> QED  BY <1>0, <1>6, <2>1, <2>2, <3>1, CallGoes DEF CallPlaces
    <2>4. CASE ~(over \/ closed) /\ current # NoTurn /\ ~IsComplete(events, current)
      <3>1. call' = [call EXCEPT ![c].at = "steer", ![c].turn = current] /\ UNCHANGED turn
        BY <1>7, <2>4 DEF SendBegins, Request
      <3>2. /\ call' \in [Callers -> CallRecord] /\ call'[c].at = "steer"
            /\ \A d \in Callers : d # c => call'[d] = call[d]
        <4>1. call[c] \in CallRecord
          BY <1>0
        <4>2. [call[c] EXCEPT !.at = "steer", !.turn = current] \in CallRecord
          BY <1>0, <4>1 DEF CallRecord, CallPlaces
        <4> QED  BY <1>0, <3>1, <4>1, <4>2 DEF CallRecord
      <3> QED  BY <1>0, <1>6, <2>1, <2>2, <3>1, <3>2
    <2>5. CASE ~(over \/ closed) /\ (current = NoTurn \/ IsComplete(events, current))
      <3>1. At(c, "turn") /\ turn' = [turn EXCEPT ![c] = "running"]
        BY <1>7, <2>5 DEF SendBegins, Request
      <3>2. \A d \in Turners : call[d].at = "done" => turn[d] # "running"
        BY <1>0, <2>2, <2>5, Completion DEF NoTurn, TurnInv, TurnLives
      <3> QED  BY <1>0, <1>6, <2>1, <2>2, <3>1, <3>2, CallGoes DEF CallPlaces
    <2> QED  BY <2>3, <2>4, <2>5
  <1>8. CASE SendReturns(c)
    <2>1. PICK where \in {"done", "failed"} : At(c, where) /\ (where = "done" <=> answer[c] = "ok")
      BY <1>8 DEF SendReturns
    <2>2. UNCHANGED turn
      BY <1>8 DEF SendReturns
    <2>3. current' = IF call[c].at = "turn" /\ where = "done" THEN c ELSE current
      BY <1>8, <2>1 DEF SendReturns
    <2>4. Told(c) => turn[c] # "running"
      BY DEF TurnInv, TurnLives, Turners
    <2>5. call[c].at = "steer" => turn[c] = "none"
      BY DEF TurnInv, TurnLives, Turners
    <2>6. \A d \in Turners : call[d].at = "done" /\ turn[d] = "running" => current = d
      BY DEF TurnInv, TurnKnown, Turners
    <2>7. call[c].at = "turn" => \A d \in Turners : d # c /\ call[d].at = "done" => turn[d] # "running"
      BY DEF TurnInv, TurnLives
    <2>8. call[c].at \in {"steer", "turn"}
      BY <1>8 DEF SendReturns
    <2>9. /\ call' \in [Callers -> CallRecord] /\ call'[c].at = where
          /\ \A d \in Callers : d # c => call'[d] = call[d]
      BY <1>0, <2>1, CallGoes DEF CallPlaces
    <2>10. \A d \in Turners : call'[d].at = "done" /\ turn'[d] = "running" => current' = d
      BY <1>0, <2>2, <2>3, <2>5, <2>6, <2>7, <2>8, <2>9
    <2> QED  BY <1>0, <1>6, <2>2, <2>3, <2>4, <2>9, <2>10
  <1> QED  BY <1>7, <1>8

\* What the app-server tells of a turn, and what it answers.
LEMMA ServerSteps ==
  ASSUME TurnInv, NEW t \in Callers,
         \/ \E m \in Methods : Notified(t, m[1], m[2])
         \/ \E status \in {"completed", "interrupted"} : TurnCompleted(t, status)
         \/ \E outcome \in {"ok", "error"} : Answered(t, outcome)
  PROVE  TurnInv'
  <1> USE DEF Nothing, connVars, sessVars, serverVars
  <1>0. /\ turn \in [Callers -> {"none", "running", "done"}] /\ TurnTyped /\ Turners \subseteq Callers
        /\ events \in Seq(EventSet) /\ call \in [Callers -> CallRecord]
    BY CallersAssumption DEF TurnInv, TurnTyped, Turners
  <1>1. ASSUME NEW m \in Methods, Notified(t, m[1], m[2]) PROVE TurnInv'
    <2> DEFINE event == Event(m[1], t, "", m[2], FALSE)
    <2>1. m[1] \in EventMethods /\ m[2] \in EventItems /\ m[1] # "turn/completed"
      <3>1. CASE m = <<"item/completed", "fileChange">>
        BY <3>1 DEF EventMethods, EventItems
      <3>2. CASE m = <<"blackbox/session/failed", "">>
        BY <3>2 DEF EventMethods, EventItems
      <3> QED  BY <3>1, <3>2 DEF Methods
    <2>2. Untold(event)
      <3>1. event \in EventSet /\ event.method = m[1]
        BY <2>1, Literals DEF Event, EventSet
      <3> QED  BY <2>1, <3>1 DEF Untold
    <2>3. events' \in {events, Append(events, event)}
      BY <1>1 DEF Notified, Append1
    <2>4. UNCHANGED <<turn, current, listed, over, call>>
      BY <1>1 DEF Notified
    <2> HIDE DEF event
    <2> QED  BY <1>0, <2>2, <2>3, <2>4, TurnsAside DEF TurnTyped
  <1>2. ASSUME NEW outcome \in {"ok", "error"}, Answered(t, outcome) PROVE TurnInv'
    <2>1. turn' = turn \/ turn' = [turn EXCEPT ![t] = "none"]
      BY <1>2 DEF Answered, Respond
    <2>2. UNCHANGED <<current, listed, over, call, events>>
      BY <1>2 DEF Answered
    <2>3. /\ turn' \in [Callers -> {"none", "running", "done"}]
          /\ \A d \in Callers : turn'[d] = turn[d] \/ turn'[d] = "none"
      BY <1>0, <2>1
    <2>4. \A d : Told(d)' <=> Told(d)
      BY <2>2 DEF Told
    <2>5. TurnTyped' /\ TurnCalls'
      BY <2>2, <2>3 DEF TurnInv, TurnTyped, TurnCalls
    <2>6. TurnKnown'
      BY <1>0, <2>2, <2>3 DEF TurnInv, TurnKnown, Turners
    <2>7. TurnLives'
      BY <1>0, <2>2, <2>3, <2>4 DEF TurnInv, TurnLives
    <2> QED  BY <2>5, <2>6, <2>7 DEF TurnInv
  <1>3. ASSUME NEW status \in {"completed", "interrupted"}, TurnCompleted(t, status) PROVE TurnInv'
    <2> DEFINE event == Event("turn/completed", t, status, "", FALSE)
    <2>1. event \in EventSet /\ event.method = "turn/completed" /\ event.synthesized = FALSE /\ event.turn = t
      BY Literals DEF Event, EventSet, EventStatuses
    <2>2. /\ turn[t] = "running" /\ turn' = [turn EXCEPT ![t] = "done"]
          /\ UNCHANGED <<call, listed, over>>
          /\ events' \in {events, Append(events, event)}
          /\ current' = IF bound THEN CurrentEnded(t) ELSE current
      BY <1>3 DEF TurnCompleted, Append1
    <2> HIDE DEF event
    <2>3. /\ turn' \in [Callers -> {"none", "running", "done"}]
          /\ turn'[t] = "done" /\ \A d \in Callers : d # t => turn'[d] = turn[d]
      BY <1>0, <2>2
    <2>4. events' \in Seq(EventSet) /\ \A d : Told(d)' => Told(d) \/ d = t
      <3>1. CASE events' = events
        BY <1>0, <3>1 DEF Told
      <3>2. CASE events' = Append(events, event)
        BY <1>0, <2>1, <3>2, EventAdded
      <3> QED  BY <2>2, <3>1, <3>2
    <2>5. current' \in Callers \cup {NoTurn} /\ (current # t => current' = current)
      BY <1>0, <2>2 DEF CurrentEnded, TurnTyped
    <2>6. TurnTyped' /\ TurnCalls'
      BY <2>2, <2>3, <2>4, <2>5 DEF TurnInv, TurnTyped, TurnCalls
    <2>7. TurnKnown'
      BY <1>0, <2>2, <2>3, <2>5 DEF TurnInv, TurnKnown, Turners
    <2>8. TurnLives'
      <3>1. \A d \in Turners : call[d].at \in Unbegun \cup {"steer"} => d # t
        BY <2>2 DEF TurnInv, TurnLives
      <3>2. \A d \in Turners : call'[d].at \in Unbegun \cup {"steer"} => turn'[d] = "none"
        BY <1>0, <2>2, <2>3, <3>1 DEF TurnInv, TurnLives
      <3>3. \A d \in Turners : Told(d)' => call'[d].at \notin Unbegun /\ turn'[d] # "running"
        BY <1>0, <2>2, <2>3, <2>4, <3>1 DEF TurnInv, TurnLives
      <3>4. \A c \in Senders, d \in Turners :
              call'[c].at = "turn" /\ c # d /\ call'[d].at = "done" => turn'[d] # "running"
        BY <1>0, <2>2, <2>3 DEF TurnInv, TurnLives
      <3> QED  BY <3>2, <3>3, <3>4 DEF TurnLives
    <2> QED  BY <2>6, <2>7, <2>8 DEF TurnInv
  <1> QED  BY <1>1, <1>2, <1>3

\* What cancel() and close() do begins no turn.
LEMMA EndingSteps ==
  ASSUME TurnInv, NEW c \in Callers,
         \/ c \in Cancellers /\ (CancelBegins(c) \/ Interrupted(c) \/ GraceEnds(c))
         \/ c \in Closers /\ ProviderClose(c)
         \/ SendOfCall(c) \/ CloseConnection(c) \/ TransportCloses(c) \/ Finish(c)
  PROVE  TurnInv'
  <1> USE DEF Nothing, connVars, sessVars, serverVars
  <1>0. /\ TurnTyped /\ call \in [Callers -> CallRecord] /\ call[c] \in CallRecord /\ Turners \subseteq Callers
        /\ over \in BOOLEAN /\ current \in Callers \cup {NoTurn}
    BY CallersAssumption DEF TurnInv, TurnTyped, Turners
  <1>1. ASSUME NEW where \in CallPlaces, At(c, where), c \notin Turners, UNCHANGED <<turn, current, listed, events, over>>
        PROVE  TurnInv'
    <2>1. call' \in [Callers -> CallRecord] /\ \A d \in Turners : call'[d] = call[d]
      BY <1>0, <1>1, CallGoes
    <2> QED  BY <1>0, <1>1, <2>1, TurnsAside
  <1>2. c \in Cancellers \cup Closers => c \notin Turners
    BY CallersAssumption DEF Turners
  <1>3. call[c].at \in {"interrupt", "grace", "close", "finish"} => c \notin Turners
    BY DEF TurnInv, TurnTyped, Turners
  <1>4. CASE c \in Cancellers /\ CancelBegins(c)
    <2>1. UNCHANGED <<turn, current, listed, events, over>>
      BY <1>4 DEF CancelBegins, Request
    <2>2. PICK where \in {"close", "failed", "interrupt"} :
            call' = [call EXCEPT ![c] = [at |-> where, turn |-> current, settled |-> over]]
      BY <1>4 DEF CancelBegins
    <2>3. [at |-> where, turn |-> current, settled |-> over] \in CallRecord
      BY <1>0 DEF CallRecord, CallPlaces
    <2>4. call' \in [Callers -> CallRecord] /\ \A d \in Turners : call'[d] = call[d]
      BY <1>0, <1>2, <1>4, <2>2, <2>3
    <2> QED  BY <1>0, <2>1, <2>4, TurnsAside
  <1>5. CASE c \in Cancellers /\ (Interrupted(c) \/ GraceEnds(c))
    <2>1. UNCHANGED <<turn, current, listed, events, over>>
      BY <1>5 DEF Interrupted, GraceEnds
    <2>2. PICK where \in {"grace", "failed", "close"} : At(c, where)
      BY <1>5 DEF Interrupted, GraceEnds
    <2> QED  BY <1>1, <1>2, <1>5, <2>1, <2>2 DEF CallPlaces
  <1>6. CASE c \in Closers /\ ProviderClose(c)
    <2>1. UNCHANGED <<turn, current, listed, events, over>>
          /\ call' = [call EXCEPT ![c].at = "close", ![c].settled = TRUE]
      BY <1>6 DEF ProviderClose
    <2>2. [call[c] EXCEPT !.at = "close", !.settled = TRUE] \in CallRecord
      BY <1>0 DEF CallRecord, CallPlaces
    <2>3. call' \in [Callers -> CallRecord] /\ \A d \in Turners : call'[d] = call[d]
      BY <1>0, <1>2, <1>6, <2>1, <2>2
    <2> QED  BY <1>0, <2>1, <2>3, TurnsAside
  <1>7. CASE SendOfCall(c)
    BY <1>0, <1>7, TurnsAside DEF SendOfCall, SendSettles
  <1>8. CASE CloseConnection(c)
    <2>1. UNCHANGED <<turn, current, listed, events, over>> /\ call[c].at = "close"
      BY <1>8 DEF CloseConnection, CloseBegins
    <2>2. PICK where \in {"finish", "closing"} : At(c, where)
      BY <1>8 DEF CloseConnection
    <2> QED  BY <1>1, <1>3, <2>1, <2>2 DEF CallPlaces
  <1>9. CASE TransportCloses(c) /\ c # Starter
    <2>1. UNCHANGED <<turn, current, listed, events, over>> /\ call[c].at = "closing"
      BY <1>9 DEF TransportCloses, CloseSettles, CloseThrows
    <2>2. c \notin Turners
      BY <1>9, <2>1 DEF TurnInv, TurnTyped, Turners
    <2>3. PICK where \in {"finish", "failed"} : At(c, where)
      BY <1>9 DEF TransportCloses
    <2> QED  BY <1>1, <2>1, <2>2, <2>3 DEF CallPlaces
  <1>10. CASE TransportCloses(c) /\ c = Starter
    <2>1. UNCHANGED <<turn, current, listed, events, over>> /\ call[Starter].at = "closing" /\ At(Starter, "failed")
      BY <1>10 DEF TransportCloses, CloseSettles, CloseThrows
    <2>2. /\ call' \in [Callers -> CallRecord] /\ call'[Starter].at = "failed"
          /\ \A d \in Callers : d # Starter => call'[d] = call[d]
      BY <1>0, <1>10, <2>1, CallGoes DEF CallPlaces
    <2>3. Starter \notin Senders /\ Senders \subseteq Callers /\ \A d : Told(d)' <=> Told(d)
      BY <2>1, CallersAssumption DEF Told
    <2>4. TurnTyped'
      BY <2>1, <2>2, <2>3 DEF TurnInv, TurnTyped
    <2>5. TurnCalls' /\ TurnKnown'
      BY <2>1, <2>2, <2>3 DEF TurnInv, TurnCalls, TurnKnown
    <2>6. TurnLives'
      BY <2>1, <2>2, <2>3 DEF TurnInv, TurnLives, Turners, Unbegun
    <2> QED  BY <2>4, <2>5, <2>6 DEF TurnInv
  <1>11. CASE Finish(c)
    <2> DEFINE event == Event("blackbox/session/cancelled", call[c].turn, "", "", TRUE)
    <2>1. /\ UNCHANGED <<turn, current, listed>> /\ over' = TRUE /\ call[c].at = "finish" /\ At(c, "done")
          /\ events' \in {events, Append(events, event)}
      BY <1>11 DEF Finish
    <2>2. Untold(event)
      <3>1. call[c].turn \in Callers \cup {NoTurn}
        BY <1>0 DEF CallRecord
      <3> QED  BY <3>1, EventTyped, Literals DEF Untold
    <2> HIDE DEF event
    <2>3. call' \in [Callers -> CallRecord] /\ \A d \in Turners : call'[d] = call[d]
      BY <1>0, <1>3, <2>1, CallGoes DEF CallPlaces
    <2> QED  BY <2>1, <2>2, <2>3, TurnsAside
  <1> QED  BY <1>4, <1>5, <1>6, <1>7, <1>8, <1>9, <1>10, <1>11

LEMMA TurnStep == SerialSenders /\ TurnInv /\ [Next]_codexVars => TurnInv'
  <1> SUFFICES ASSUME SerialSenders, TurnInv, [Next]_codexVars PROVE TurnInv'
    OBVIOUS
  <1> USE DEF connVars, Nothing
  <1>1. ASSUME UNCHANGED <<call, turn, current, listed>>, over' \in BOOLEAN,
               events' = events \/ \E event : Untold(event) /\ events' = Append(events, event)
        PROVE  TurnInv'
    BY <1>1, TurnsAside DEF TurnInv, TurnTyped
  <1>2. over \in BOOLEAN
    BY DEF TurnInv, TurnTyped
  <1>3. CASE UNCHANGED codexVars
    BY <1>1, <1>2, <1>3 DEF codexVars, sessVars
  <1>4. CASE Connect \/ Initialized \/ ThreadStarted \/ FirstTurnStarted \/ StartFails
    BY <1>4, StarterSteps
  <1>5. CASE ReaderStarts \/ RefusalSent
    BY <1>1, <1>2, <1>5 DEF ReaderStarts, RefusalSent, sessVars
  <1>6. CASE Failure
    <2> DEFINE event == Event("blackbox/session/failed", NoTurn, "", "", TRUE)
    <2>1. Untold(event)
      BY EventTyped, Literals DEF Untold
    <2>2. events' \in {events, Append(events, event)} /\ over' \in {over, TRUE} /\ UNCHANGED <<call, turn, current, listed>>
      BY <1>6 DEF Failure, ReaderEnds, Append1
    <2> HIDE DEF event
    <2> QED  BY <1>1, <1>2, <2>1, <2>2
  <1>7. ASSUME NEW c \in Callers, Calls(c) PROVE TurnInv'
    BY <1>7, EndingSteps, ServerSteps DEF Calls
  <1>8. ASSUME NEW c \in Senders, SendBegins(c) \/ SendReturns(c) PROVE TurnInv'
    BY <1>8, SenderSteps
  <1>9. ASSUME NEW c \in Cancellers, CancelBegins(c) \/ Interrupted(c) \/ GraceEnds(c) PROVE TurnInv'
    BY <1>9, EndingSteps, CallersAssumption
  <1>10. ASSUME NEW c \in Closers, ProviderClose(c) PROVE TurnInv'
    BY <1>10, EndingSteps, CallersAssumption
  <1>11. ASSUME NEW t \in Callers,
                \/ \E m \in Methods : Notified(t, m[1], m[2])
                \/ \E status \in {"completed", "interrupted"} : TurnCompleted(t, status)
         PROVE  TurnInv'
    BY <1>11, ServerSteps
  <1>12. ASSUME NEW s \in Streams, Look(s) \/ Resume(s) \/ Leave(s) \/ \E from : Open(s, from) PROVE TurnInv'
    BY <1>1, <1>2, <1>12 DEF Look, Resume, Leave, Open, StreamOnly
  <1>13. ASSUME NEW a \in ApprovalIds, ApprovalAsked(a) PROVE TurnInv'
    <2> DEFINE event == Event("blackbox/approval/requested", NoTurn, "", a, TRUE)
    <2>1. Untold(event)
      BY EventTyped, Literals DEF Untold
    <2>2. events' \in {events, Append(events, event)} /\ UNCHANGED <<call, turn, current, listed, over>>
      BY <1>13 DEF ApprovalAsked, Append1
    <2> HIDE DEF event
    <2> QED  BY <1>1, <1>2, <2>1, <2>2
  <1>14. ASSUME NEW a \in ApprovalIds \cup {"other"}, RequestRefused(a) PROVE TurnInv'
    BY <1>1, <1>2, <1>14 DEF RequestRefused, sessVars
  <1>15. ASSUME NEW a \in ApprovalIds, NEW decision, Approve(a, decision) PROVE TurnInv'
    BY <1>1, <1>2, <1>15 DEF Approve
  <1> QED  BY <1>3, <1>4, <1>5, <1>6, <1>7, <1>8, <1>9, <1>10, <1>11, <1>12, <1>13, <1>14, <1>15 DEF Next

(***************************************************************************)
(* The turn that goes on is the one cancel() interrupts and a message      *)
(* steers, when no two sendMessage() overlap: a late completion of an      *)
(* older turn does not end it, and a new one begins only after it.         *)
(***************************************************************************)
THEOREM LiveTurnIsKnown == SerialSenders => (Spec => []TurnKnown)
  <1> SUFFICES ASSUME SerialSenders PROVE Spec => []TurnKnown
    OBVIOUS
  <1>1. TurnInv /\ [Next]_codexVars => TurnInv'
    BY TurnStep
  <1>2. TurnInv => TurnKnown
    BY DEF TurnInv
  <1> QED  BY <1>1, <1>2, TurnInit, PTL DEF Spec

(***************************************************************************)
(* What a stream delivers.                                                 *)
(***************************************************************************)
StreamRecord == [at : {"off", "look", "yield", "waiting", "ended", "left"}, from : Nat, cursor : Nat,
                 pos : Nat, target : Callers \cup {NoTurn}]

\* Where the call of each kind may be.
Places(c) ==
    IF c = Starter THEN {"off", "initialize", "thread", "turn", "done", "closing", "failed"}
    ELSE IF c \in Senders THEN {"off", "steer", "turn", "done", "failed"}
    ELSE {"off", "interrupt", "grace", "close", "closing", "finish", "done", "failed"}

StreamTyped ==
    /\ call \in [Callers -> CallRecord]
    /\ \A c \in Callers : call[c].at \in Places(c)
    /\ current \in Callers \cup {NoTurn}
    /\ events \in Seq(EventSet)
    /\ start \in 0 .. Len(events)
    /\ over \in BOOLEAN
    /\ stream \in [Streams -> StreamRecord]

\* Nothing is over, and nobody streams or closes, before the session is bound and its first turn began.
SessionOpens ==
    /\ listed => bound /\ call[Starter].at = "done"
    /\ ~listed => \A c \in Callers : c = Starter \/ call[c].at = "off"
    /\ ~listed => \A s \in Streams : stream[s].at = "off"
    /\ over => bound
    /\ bound => call[Starter].at \notin Unbegun
    /\ call[Starter].at = "turn" => bound

\* A stream holds what it has yielded of the log, up to the end of its batch.
StreamsInLog ==
    \A s \in Streams : stream[s].at # "off" =>
        /\ stream[s].pos <= stream[s].cursor /\ stream[s].cursor <= Len(events)
        /\ stream[s].at \in {"look", "waiting"} => stream[s].pos = stream[s].cursor
        /\ stream[s].at = "yield" => stream[s].pos >= 1

\* What ended a session: the log tells of it, or close() did, or a cancel() of a turn that is complete.
OverReason ==
    \/ \E i \in 1 .. Len(events) : Tells(events[i])
    \/ \E c \in Closers : call[c].at = "done"
    \/ \E c \in Cancellers : call[c].at = "done" /\ IsComplete(events, call[c].turn)

OverTold ==
    /\ over => OverReason
    /\ \A c \in Cancellers : call[c].at # "off" /\ call[c].settled => over
    /\ \A c \in Closers : call[c].at # "off" => call[c].settled

StreamInv == StreamTyped /\ SessionOpens /\ StreamsInLog /\ OverTold /\ StreamsComplete

\* The log grows by an event at most.
LogGrows == events' = events \/ \E event \in EventSet : events' = Append(events, event)

LEMMA LogKept ==
  ASSUME events \in Seq(EventSet), LogGrows
  PROVE  /\ events' \in Seq(EventSet) /\ Len(events) \in Nat /\ Len(events') \in Nat
         /\ Len(events') >= Len(events)
         /\ \A i \in 1 .. Len(events) : i \in 1 .. Len(events') /\ events'[i] = events[i]
         /\ \A t : IsComplete(events, t) => IsComplete(events', t)
  <1>1. /\ events' \in Seq(EventSet) /\ Len(events) \in Nat /\ Len(events') \in Nat
        /\ Len(events') >= Len(events)
        /\ \A i \in 1 .. Len(events) : i \in 1 .. Len(events') /\ events'[i] = events[i]
    <2>1. CASE events' = events
      BY <2>1
    <2>2. ASSUME NEW event \in EventSet, events' = Append(events, event)
          PROVE  /\ events' \in Seq(EventSet) /\ Len(events) \in Nat /\ Len(events') \in Nat
                 /\ Len(events') >= Len(events)
                 /\ \A i \in 1 .. Len(events) : i \in 1 .. Len(events') /\ events'[i] = events[i]
      BY <2>2
    <2> QED  BY <2>1, <2>2 DEF LogGrows
  <1>2. ASSUME NEW t, IsComplete(events, t) PROVE IsComplete(events', t)
    <2>1. PICK i \in 1 .. Len(events) : Completes(events[i], t)
      BY <1>2 DEF IsComplete
    <2> QED  BY <1>1, <2>1 DEF IsComplete
  <1> QED  BY <1>1, <1>2

\* Waking moves the waiting to the look.
LEMMA Waking ==
  ASSUME stream \in [Streams -> StreamRecord], stream' \in {stream, Woken(stream)}
  PROVE  /\ stream' \in [Streams -> StreamRecord]
         /\ \A s \in Streams :
               /\ stream'[s].pos = stream[s].pos /\ stream'[s].cursor = stream[s].cursor
               /\ stream'[s].target = stream[s].target
               /\ stream'[s].at = stream[s].at \/ (stream[s].at = "waiting" /\ stream'[s].at = "look")
  <1>1. CASE stream' = stream
    BY <1>1
  <1>2. CASE stream' = Woken(stream)
    <2>1. \A s \in Streams : stream[s] \in StreamRecord
      OBVIOUS
    <2>2. \A s \in Streams : [stream[s] EXCEPT !.at = "look"] \in StreamRecord
      BY <2>1 DEF StreamRecord
    <2>3. stream' = [s \in Streams |-> IF stream[s].at = "waiting" THEN [stream[s] EXCEPT !.at = "look"] ELSE stream[s]]
      BY <1>2 DEF Woken
    <2>4. stream' \in [Streams -> StreamRecord]
      BY <2>1, <2>2, <2>3
    <2>5. \A s \in Streams : stream'[s] = stream[s] \/ (stream[s].at = "waiting" /\ stream'[s] = [stream[s] EXCEPT !.at = "look"])
      BY <2>3
    <2> QED  BY <2>1, <2>4, <2>5 DEF StreamRecord
  <1> QED  BY <1>1, <1>2

\* A call that has returned stays so.
CallsReturned == \A c \in Closers \cup Cancellers : call[c].at = "done" => call'[c].at = "done" /\ call'[c].turn = call[c].turn

\* What a step that moves no stream along owes them.
LEMMA StreamsStand ==
  ASSUME StreamInv, LogGrows, stream' \in {stream, Woken(stream)}, CallsReturned
  PROVE  StreamsInLog' /\ StreamsComplete'
  <1>1. /\ events \in Seq(EventSet) /\ stream \in [Streams -> StreamRecord]
    BY DEF StreamInv, StreamTyped
  <1>2. \A s \in Streams : stream[s] \in StreamRecord /\ stream[s].pos \in Nat /\ stream[s].cursor \in Nat
    BY <1>1 DEF StreamRecord
  <1>3. StreamsInLog'
    BY <1>1, <1>2, LogKept, Waking DEF StreamInv, StreamsInLog
  <1>4. ASSUME NEW s \in Streams, stream'[s].at = "ended"
        PROVE  \/ \E i \in 1 .. Len(events') : i <= stream'[s].pos /\ (Completes(events'[i], stream'[s].target) \/ Tells(events'[i]))
               \/ \E c \in Closers : call'[c].at = "done"
               \/ \E c \in Cancellers : call'[c].at = "done" /\ call'[c].turn # stream'[s].target
    <2>1. stream[s].at = "ended" /\ stream'[s].pos = stream[s].pos /\ stream'[s].target = stream[s].target
      BY <1>1, <1>4, Waking
    <2>2. CASE \E c \in Closers : call[c].at = "done"
      BY <2>2 DEF CallsReturned
    <2>3. CASE \E c \in Cancellers : call[c].at = "done" /\ call[c].turn # stream[s].target
      BY <2>1, <2>3 DEF CallsReturned
    <2>4. CASE \E i \in 1 .. Len(events) : i <= stream[s].pos /\ (Completes(events[i], stream[s].target) \/ Tells(events[i]))
      <3>1. PICK i \in 1 .. Len(events) : i <= stream[s].pos /\ (Completes(events[i], stream[s].target) \/ Tells(events[i]))
        BY <2>4
      <3>2. i \in 1 .. Len(events') /\ events'[i] = events[i]
        BY <1>1, LogKept
      <3> QED  BY <2>1, <3>1, <3>2
    <2> QED  BY <2>1, <2>2, <2>3, <2>4 DEF StreamInv, StreamsComplete
  <1> QED  BY <1>3, <1>4 DEF StreamsComplete

\* Calls that were under way move on, others begin.
CallsMove ==
    /\ call' \in [Callers -> CallRecord]
    /\ \A c \in Callers :
          \/ call'[c] = call[c]
          \/ /\ call'[c].at \in Places(c) \ Unbegun /\ call[c].at # "done"
             /\ IF c = Starter THEN call'[c].at # "turn" ELSE listed
             /\ c \in Cancellers \cup Closers =>
                   IF call[c].at = "off" THEN call'[c].settled <=> (c \in Closers \/ over)
                   ELSE call'[c].settled = call[c].settled /\ call'[c].turn = call[c].turn

LEMMA Roles ==
  /\ Starter \in Callers /\ Senders \subseteq Callers /\ Cancellers \subseteq Callers /\ Closers \subseteq Callers
  /\ \A c \in Cancellers \cup Closers : c # Starter /\ c \notin Senders
  /\ \A c \in Senders : c # Starter
  /\ \A c \in Cancellers : c \notin Closers
  /\ \A c \in Callers : c = Starter \/ c \in Senders \/ c \in Cancellers \/ c \in Closers
  BY CallersAssumption

\* What moves no stream along, and ends the session for a reason if at all.
LEMMA StreamsAside ==
  ASSUME StreamInv, LogGrows, CallsMove, stream' \in {stream, Woken(stream)}, start' \in {start, Len(events)},
         current' \in Callers \cup {NoTurn}, UNCHANGED <<bound, listed>>,
         over' = over \/ (over' = TRUE /\ bound /\ OverReason')
  PROVE  StreamInv'
  <1>1. CallsReturned
    BY Roles DEF CallsMove, CallsReturned
  <1>2. StreamsInLog' /\ StreamsComplete'
    BY <1>1, StreamsStand
  <1>3. events \in Seq(EventSet) /\ stream \in [Streams -> StreamRecord] /\ start \in 0 .. Len(events)
    BY DEF StreamInv, StreamTyped
  <1>4. StreamTyped'
    <2>1. \A c \in Callers : call'[c].at \in Places(c)
      BY DEF CallsMove, StreamInv, StreamTyped
    <2>2. start' \in 0 .. Len(events')
      BY <1>3, LogKept
    <2>3. events' \in Seq(EventSet) /\ stream' \in [Streams -> StreamRecord]
      BY <1>3, LogKept, Waking
    <2>4. over' \in BOOLEAN
      BY Zenon DEF StreamInv, StreamTyped
    <2> QED  BY <2>1, <2>2, <2>3, <2>4, Zenon DEF StreamTyped, CallsMove
  <1>5. SessionOpens'
    <2>1. ~listed => \A s \in Streams : stream'[s].at = "off"
      BY <1>3, Waking DEF StreamInv, SessionOpens
    <2>2. /\ listed => call'[Starter].at = "done"
          /\ ~listed => \A c \in Callers : c = Starter \/ call'[c].at = "off"
          /\ bound => call'[Starter].at \notin Unbegun
          /\ call'[Starter].at = "turn" => bound
      BY Roles DEF StreamInv, SessionOpens, CallsMove
    <2> QED  BY <2>1, <2>2 DEF StreamInv, SessionOpens
  <1>6. OverTold'
    <2>1. over' => OverReason'
      <3>1. ASSUME NEW i \in 1 .. Len(events), Tells(events[i]) PROVE \E j \in 1 .. Len(events') : Tells(events'[j])
        BY <1>3, <3>1, LogKept
      <3>2. ASSUME NEW c \in Cancellers, call[c].at = "done", IsComplete(events, call[c].turn)
            PROVE  call'[c].at = "done" /\ IsComplete(events', call'[c].turn)
        BY <1>1, <1>3, <3>2, LogKept DEF CallsReturned
      <3>3. \A c \in Closers : call[c].at = "done" => call'[c].at = "done"
        BY <1>1 DEF CallsReturned
      <3> QED  BY <3>1, <3>2, <3>3 DEF StreamInv, OverTold, OverReason
    <2>2. \A c \in Cancellers : call'[c].at # "off" /\ call'[c].settled => over'
      BY Roles DEF CallsMove, StreamInv, OverTold
    <2>3. \A c \in Closers : call'[c].at # "off" => call'[c].settled
      BY Roles DEF CallsMove, StreamInv, OverTold
    <2> QED  BY <2>1, <2>2, <2>3 DEF OverTold
  <1> QED  BY <1>2, <1>4, <1>5, <1>6 DEF StreamInv

LEMMA StreamsInit == Init => StreamInv
  <1> SUFFICES ASSUME Init PROVE StreamInv
    OBVIOUS
  <1>1. \A c \in Callers : call[c].at = "off"
    BY DEF Init
  <1>2. events = << >> /\ start = 0 /\ current = NoTurn /\ ~over /\ ~bound /\ ~listed
    BY DEF Init
  <1>3. \A s \in Streams : stream[s].at = "off" /\ stream[s].cursor = 0 /\ stream[s].pos = 0
    BY DEF Init
  <1>4. StreamTyped
    <2>1. call \in [Callers -> CallRecord]
      <3>1. [at |-> "off", turn |-> NoTurn, settled |-> FALSE] \in CallRecord
        BY DEF CallRecord, CallPlaces
      <3> QED  BY <3>1 DEF Init
    <2>2. stream \in [Streams -> StreamRecord]
      <3>1. [at |-> "off", from |-> 0, cursor |-> 0, pos |-> 0, target |-> NoTurn] \in StreamRecord
        BY DEF StreamRecord
      <3> QED  BY <3>1 DEF Init
    <2>3. events \in Seq(EventSet) /\ start \in 0 .. Len(events)
      BY <1>2
    <2>4. \A c \in Callers : call[c].at \in Places(c)
      BY <1>1 DEF Places
    <2>5. over \in BOOLEAN
      BY Zenon DEF Init
    <2>6. current \in Callers \cup {NoTurn}
      BY <1>2
    <2> QED  BY <2>1, <2>2, <2>3, <2>4, <2>5, <2>6, Zenon DEF StreamTyped
  <1>5. SessionOpens /\ StreamsInLog /\ OverTold /\ StreamsComplete
    <2>1. SessionOpens /\ OverTold
      BY <1>1, <1>2, <1>3, Roles DEF SessionOpens, OverTold
    <2>2. StreamsInLog /\ StreamsComplete
      BY <1>2, <1>3 DEF StreamsInLog, StreamsComplete
    <2> QED  BY <2>1, <2>2
  <1> QED  BY <1>4, <1>5 DEF StreamInv

\* A call that is under way moves on.
LEMMA MovesOn ==
  ASSUME StreamInv, NEW c \in Callers, NEW where \in Places(c) \ Unbegun, call[c].at \notin {"off", "done"}, At(c, where),
         c = Starter => where # "turn"
  PROVE  CallsMove /\ call'[c].at = where /\ call'[c].turn = call[c].turn /\ call'[c].settled = call[c].settled
  <1>1. call \in [Callers -> CallRecord] /\ call[c] \in CallRecord
    BY DEF StreamInv, StreamTyped
  <1>2. where \in CallPlaces
    BY DEF Places, CallPlaces
  <1>3. [call[c] EXCEPT !.at = where] \in CallRecord
    BY <1>1, <1>2 DEF CallRecord
  <1>4. /\ call' \in [Callers -> CallRecord]
        /\ call'[c].at = where /\ call'[c].turn = call[c].turn /\ call'[c].settled = call[c].settled
        /\ \A d \in Callers : d # c => call'[d] = call[d]
    BY <1>1, <1>3 DEF At, CallRecord
  <1>5. c # Starter => listed
    BY DEF StreamInv, SessionOpens
  <1> QED  BY <1>4, <1>5 DEF CallsMove

LEMMA CallsStay ==
  ASSUME StreamInv, call' = call
  PROVE  CallsMove
  BY DEF StreamInv, StreamTyped, CallsMove

\* What changes nothing that streams depend on.
LEMMA StreamsUntouched ==
  ASSUME StreamInv, CallsMove, UNCHANGED <<events, stream, start, current, over, bound, listed>>
  PROVE  StreamInv'
  BY StreamsAside DEF LogGrows, StreamInv, StreamTyped

\* An event of the app-server, or an approval it asks for.
LEMMA StreamsHear ==
  ASSUME StreamInv, call' = call, NEW event \in EventSet, Append1(event),
         current' \in Callers \cup {NoTurn}, UNCHANGED <<start, over, bound, listed>>
  PROVE  StreamInv'
  <1>1. LogGrows /\ stream' \in {stream, Woken(stream)}
    BY DEF Append1, LogGrows
  <1> QED  BY <1>1, CallsStay, StreamsAside

LEMMA TellsOf ==
  ASSUME NEW t \in Callers \cup {NoTurn}, NEW method \in {"blackbox/session/failed", "blackbox/session/cancelled"}
  PROVE  Tells(Event(method, t, "", "", TRUE))
  <1>1. /\ Event(method, t, "", "", TRUE).method = method
        /\ Event(method, t, "", "", TRUE).synthesized = TRUE
    BY DEF Event
  <1>2. method \in DOMAIN Synthesized
    BY DEF Synthesized
  <1>3. Synthesized[method] \in {"session.failed", "session.cancelled"}
    BY DEF Synthesized
  <1> QED  BY <1>1, <1>2, <1>3 DEF Tells, CoercedType

LEMMA StreamsFail ==
  ASSUME StreamInv, Failure
  PROVE  StreamInv'
  <1> DEFINE event == Event("blackbox/session/failed", NoTurn, "", "", TRUE)
  <1>1. call' = call /\ UNCHANGED <<bound, listed, current, start>>
    BY DEF Failure
  <1>2. CASE closed \/ ~bound
    BY <1>1, <1>2, CallsStay, StreamsUntouched DEF Failure
  <1>3. CASE ~closed /\ bound
    <2>1. event \in EventSet /\ Tells(event)
      BY EventTyped, Literals, TellsOf
    <2>2. over' = TRUE /\ events' = Append(events, event) /\ stream' = Woken(stream)
      BY <1>3 DEF Failure, Append1
    <2> HIDE DEF event
    <2>3. LogGrows
      BY <2>1, <2>2 DEF LogGrows
    <2>4. OverReason'
      <3>1. events \in Seq(EventSet)
        BY DEF StreamInv, StreamTyped
      <3>2. Len(events') \in 1 .. Len(events') /\ events'[Len(events')] = event
        BY <2>1, <2>2, <3>1
      <3> QED  BY <2>1, <3>2 DEF OverReason
    <2>5. start' \in {start, Len(events)} /\ current' \in Callers \cup {NoTurn}
      BY <1>1 DEF StreamInv, StreamTyped
    <2> QED  BY <1>1, <1>3, <2>2, <2>3, <2>4, <2>5, CallsStay, StreamsAside
  <1> QED  BY <1>2, <1>3

LEMMA StreamsFinish ==
  ASSUME StreamInv, NEW c \in Callers, Finish(c)
  PROVE  StreamInv'
  <1> DEFINE event == Event("blackbox/session/cancelled", call[c].turn, "", "", TRUE)
  <1>1. /\ call[c].at = "finish" /\ At(c, "done") /\ over' = TRUE /\ stream' = Woken(stream)
        /\ UNCHANGED <<bound, listed, current, start>>
        /\ events' = IF call[c].settled \/ IsComplete(events, call[c].turn) THEN events ELSE Append(events, event)
    BY DEF Finish
  <1>2. c \in Cancellers \cup Closers /\ "done" \in Places(c) \ Unbegun
    BY <1>1, Roles DEF StreamInv, StreamTyped, Places, Unbegun
  <1>3. listed /\ bound
    BY <1>1, <1>2, Roles DEF StreamInv, SessionOpens
  <1>4. CallsMove /\ call'[c].at = "done" /\ call'[c].turn = call[c].turn
    BY <1>1, <1>2, MovesOn
  <1>5. call[c].turn \in Callers \cup {NoTurn}
    BY DEF StreamInv, StreamTyped, CallRecord
  <1>6. event \in EventSet /\ Tells(event)
    BY <1>5, EventTyped, Literals, TellsOf
  <1> HIDE DEF event
  <1>7. LogGrows
    BY <1>1, <1>6 DEF LogGrows
  <1>8. events \in Seq(EventSet)
    BY DEF StreamInv, StreamTyped
  <1>9. OverReason'
    <2>1. CASE c \in Closers
      BY <1>4, <2>1 DEF OverReason
    <2>2. CASE c \in Cancellers /\ call[c].settled
      <3>1. over /\ OverReason
        BY <1>1, <2>2 DEF StreamInv, OverTold
      <3>2. \A d \in Closers \cup Cancellers : call[d].at = "done" => call'[d].at = "done" /\ call'[d].turn = call[d].turn
        BY <1>4, Roles DEF CallsMove
      <3>3. \A i \in 1 .. Len(events) : Tells(events[i]) => i \in 1 .. Len(events') /\ Tells(events'[i])
        BY <1>7, <1>8, LogKept
      <3>4. \A t : IsComplete(events, t) => IsComplete(events', t)
        BY <1>7, <1>8, LogKept
      <3> QED  BY <3>1, <3>2, <3>3, <3>4 DEF OverReason
    <2>3. CASE c \in Cancellers /\ ~call[c].settled /\ IsComplete(events, call[c].turn)
      BY <1>1, <1>4, <2>3 DEF OverReason
    <2>4. CASE c \in Cancellers /\ ~call[c].settled /\ ~IsComplete(events, call[c].turn)
      <3>1. events' = Append(events, event)
        BY <1>1, <2>4
      <3>2. Len(events') \in 1 .. Len(events') /\ events'[Len(events')] = event
        BY <1>6, <1>8, <3>1
      <3> QED  BY <1>6, <3>2 DEF OverReason
    <2> QED  BY <1>2, <2>1, <2>2, <2>3, <2>4
  <1> QED  BY <1>1, <1>3, <1>4, <1>7, <1>9, StreamsAside DEF StreamInv, StreamTyped

\* startSession() until its turn has begun: nobody else has the session yet.
LEMMA StreamsStart ==
  ASSUME StreamInv, Connect \/ Initialized \/ ThreadStarted \/ FirstTurnStarted \/ StartFails
  PROVE  StreamInv'
  <1> DEFINE event == Event("blackbox/session/started", NoTurn, "", "", TRUE)
  <1>0. /\ call \in [Callers -> CallRecord] /\ \A c \in Callers : call[c] \in CallRecord /\ call[c].at \in Places(c)
        /\ Starter \in Callers
    BY Roles DEF StreamInv, StreamTyped
  <1>1. ASSUME NEW where \in Places(Starter), At(Starter, where)
        PROVE  /\ call' \in [Callers -> CallRecord] /\ call'[Starter].at = where
               /\ \A c \in Callers : c # Starter => call'[c] = call[c]
               /\ \A c \in Callers : call'[c].at \in Places(c)
    <2>1. where \in CallPlaces
      BY DEF Places, CallPlaces
    <2>2. [call[Starter] EXCEPT !.at = where] \in CallRecord
      BY <1>0, <2>1 DEF CallRecord
    <2>3. call' = [call EXCEPT ![Starter] = [call[Starter] EXCEPT !.at = where]]
      BY <1>0, <1>1 DEF At
    <2>4. [call[Starter] EXCEPT !.at = where].at = where
      BY <1>0 DEF CallRecord
    <2> QED  BY <1>0, <2>2, <2>3, <2>4
  <1>2. CASE UNCHANGED <<bound, listed, events, current, start, over, stream>> /\ ~listed
             /\ \E where \in Places(Starter) \ {"done", "turn"} : At(Starter, where) /\ (where \in Unbegun => ~bound)
    <2>1. PICK where \in Places(Starter) \ {"done", "turn"} : At(Starter, where) /\ (where \in Unbegun => ~bound)
      BY <1>2
    <2>2. StreamTyped'
      BY <1>1, <1>2, <2>1 DEF StreamInv, StreamTyped
    <2>3. SessionOpens' /\ StreamsInLog' /\ StreamsComplete'
      BY <1>1, <1>2, <2>1, Roles DEF StreamInv, SessionOpens, StreamsInLog, StreamsComplete
    <2>4. OverTold'
      BY <1>1, <1>2, <2>1, Roles DEF StreamInv, OverTold, OverReason
    <2> QED  BY <2>2, <2>3, <2>4 DEF StreamInv
  <1>3. CASE Connect \/ Initialized \/ StartFails
    <2>1. call[Starter].at # "done" /\ UNCHANGED <<bound, listed, events, current, start, over, stream>>
      BY <1>3 DEF Connect, Initialized, StartFails
    <2>2. ~listed
      BY <2>1 DEF StreamInv, SessionOpens
    <2>3. /\ Connect => \E where \in {"initialize", "failed"} : At(Starter, where) /\ call[Starter].at \in Unbegun
          /\ Initialized => At(Starter, "thread") /\ call[Starter].at \in Unbegun
          /\ StartFails => At(Starter, "closing")
      BY DEF Connect, Initialized, StartFails, Unbegun
    <2>4. call[Starter].at \in Unbegun => ~bound
      BY DEF StreamInv, SessionOpens
    <2>5. {"initialize", "failed", "thread", "closing"} \subseteq Places(Starter) \ {"done", "turn"} /\ "closing" \notin Unbegun
      BY DEF Places, Unbegun
    <2> QED  BY <1>2, <1>3, <2>1, <2>2, <2>3, <2>4, <2>5
  <1>4. CASE ThreadStarted
    <2>1. /\ call[Starter].at = "thread" /\ At(Starter, "turn") /\ bound' = TRUE /\ events' = <<event>> /\ start' = 1
          /\ UNCHANGED <<listed, current, over, stream>>
      BY <1>4 DEF ThreadStarted
    <2>2. ~listed /\ ~bound /\ ~over /\ \A s \in Streams : stream[s].at = "off"
      BY <2>1 DEF StreamInv, SessionOpens, Unbegun
    <2>3. event \in EventSet
      BY EventTyped, Literals
    <2> HIDE DEF event
    <2>4. events' \in Seq(EventSet) /\ Len(events') = 1
      BY <2>1, <2>3
    <2>5. "turn" \in Places(Starter) /\ "turn" \notin Unbegun
      BY DEF Places, Unbegun
    <2>6. StreamTyped'
      BY <1>1, <2>1, <2>4, <2>5 DEF StreamInv, StreamTyped
    <2>7. SessionOpens' /\ OverTold'
      BY <1>1, <2>1, <2>2, <2>5, Roles DEF StreamInv, SessionOpens, OverTold
    <2>8. StreamsInLog' /\ StreamsComplete'
      BY <2>1, <2>2 DEF StreamsInLog, StreamsComplete
    <2> QED  BY <2>6, <2>7, <2>8 DEF StreamInv
  <1>5. CASE FirstTurnStarted
    <2>1. /\ call[Starter].at = "turn" /\ At(Starter, "done") /\ current' = Starter /\ listed' = TRUE
          /\ UNCHANGED <<bound, events, start, over, stream>>
      BY <1>5 DEF FirstTurnStarted
    <2>2. bound
      BY <2>1 DEF StreamInv, SessionOpens
    <2>3. "done" \in Places(Starter) /\ "done" \notin Unbegun
      BY DEF Places, Unbegun
    <2>4. StreamTyped'
      BY <1>0, <1>1, <2>1, <2>3 DEF StreamInv, StreamTyped
    <2>5. SessionOpens' /\ StreamsInLog' /\ StreamsComplete'
      BY <1>1, <2>1, <2>2, <2>3, Roles DEF StreamInv, SessionOpens, StreamsInLog, StreamsComplete
    <2>6. OverTold'
      BY <1>1, <2>1, <2>3, Roles DEF StreamInv, OverTold, OverReason
    <2> QED  BY <2>4, <2>5, <2>6 DEF StreamInv
  <1> QED  BY <1>3, <1>4, <1>5

\* A call begins.
LEMMA CallBegins ==
  ASSUME StreamInv, NEW c \in Callers, c # Starter, listed, call[c].at = "off",
         NEW where \in Places(c) \ Unbegun, where # "done",
         NEW t \in Callers \cup {NoTurn}, NEW settled \in BOOLEAN, c \notin Senders => (settled <=> (c \in Closers \/ over)),
         call' = [call EXCEPT ![c] = [at |-> where, turn |-> t, settled |-> settled]]
  PROVE  CallsMove
  <1>1. call \in [Callers -> CallRecord]
    BY DEF StreamInv, StreamTyped
  <1>2. where \in CallPlaces
    BY DEF Places, CallPlaces
  <1>3. [at |-> where, turn |-> t, settled |-> settled] \in CallRecord
    BY <1>2 DEF CallRecord
  <1>4. /\ call' \in [Callers -> CallRecord]
        /\ call'[c].at = where /\ call'[c].settled = settled
        /\ \A d \in Callers : d # c => call'[d] = call[d]
    BY <1>1, <1>3
  <1> QED  BY <1>4, Roles DEF CallsMove

LEMMA StreamsCalled ==
  ASSUME StreamInv
  PROVE  /\ \A c \in Senders : SendBegins(c) => StreamInv'
         /\ \A c \in Cancellers : CancelBegins(c) => StreamInv'
         /\ \A c \in Closers : ProviderClose(c) => StreamInv'
  <1>1. call \in [Callers -> CallRecord] /\ current \in Callers \cup {NoTurn}
    BY DEF StreamInv, StreamTyped
  <1>2. \A c \in Callers : call[c] \in CallRecord
    BY <1>1
  <1>3. LogGrows \/ events' # events
    BY DEF LogGrows
  <1>4. ASSUME NEW c \in Senders, SendBegins(c) PROVE StreamInv'
    <2>1. /\ listed /\ call[c].at = "off" /\ start' \in {start, Len(events)}
          /\ UNCHANGED <<bound, listed, events, current, over, stream>>
      BY <1>4 DEF SendBegins, Called
    <2>2. \E where \in {"failed", "steer", "turn"}, t \in {call[c].turn, current} :
              call' = [call EXCEPT ![c] = [at |-> where, turn |-> t, settled |-> call[c].settled]]
      <3>1. call[c] = [at |-> call[c].at, turn |-> call[c].turn, settled |-> call[c].settled]
        BY <1>2, Roles DEF CallRecord
      <3>2. \A where \in {"failed", "steer", "turn"} : At(c, where) =>
               call' = [call EXCEPT ![c] = [at |-> where, turn |-> call[c].turn, settled |-> call[c].settled]]
        BY <1>2, <3>1, Roles DEF At, CallRecord
      <3>3. call' = [call EXCEPT ![c].at = "steer", ![c].turn = current] =>
               call' = [call EXCEPT ![c] = [at |-> "steer", turn |-> current, settled |-> call[c].settled]]
        BY <1>1, <1>2, <3>1, Roles DEF CallRecord
      <3>4. \/ \E where \in {"failed", "steer", "turn"} : At(c, where)
            \/ call' = [call EXCEPT ![c].at = "steer", ![c].turn = current]
        BY <1>4 DEF SendBegins
      <3> QED  BY <3>2, <3>3, <3>4
    <2>3. {"failed", "steer", "turn"} \subseteq Places(c) \ Unbegun /\ "done" \notin {"failed", "steer", "turn"}
      BY Roles DEF Places, Unbegun
    <2>4. {call[c].turn, current} \subseteq Callers \cup {NoTurn} /\ call[c].settled \in BOOLEAN
      BY <1>1, <1>2, Roles DEF CallRecord
    <2>5. CallsMove
      BY <2>1, <2>2, <2>3, <2>4, CallBegins, Roles
    <2> QED  BY <1>1, <1>3, <2>1, <2>5, StreamsAside
  <1>5. ASSUME NEW c \in Cancellers, CancelBegins(c) PROVE StreamInv'
    <2>1. /\ listed /\ call[c].at = "off"
          /\ UNCHANGED <<bound, listed, events, start, current, over, stream>>
      BY <1>5 DEF CancelBegins, Called
    <2>2. \E where \in {"close", "failed", "interrupt"} :
              call' = [call EXCEPT ![c] = [at |-> where, turn |-> current, settled |-> over]]
      BY <1>5 DEF CancelBegins
    <2>3. {"close", "failed", "interrupt"} \subseteq Places(c) \ Unbegun /\ "done" \notin {"close", "failed", "interrupt"}
      BY Roles DEF Places, Unbegun
    <2>4. over \in BOOLEAN
      BY Zenon DEF StreamInv, StreamTyped
    <2>5. CallsMove
      BY <1>1, <2>1, <2>2, <2>3, <2>4, CallBegins, Roles
    <2> QED  BY <2>1, <2>5, StreamsUntouched
  <1>6. ASSUME NEW c \in Closers, ProviderClose(c) PROVE StreamInv'
    <2>1. /\ listed /\ call[c].at = "off"
          /\ UNCHANGED <<bound, listed, events, start, current, over, stream>>
      BY <1>6 DEF ProviderClose, Called
    <2>2. call' = [call EXCEPT ![c] = [at |-> "close", turn |-> call[c].turn, settled |-> TRUE]]
      <3>1. call[c] = [at |-> call[c].at, turn |-> call[c].turn, settled |-> call[c].settled]
        BY <1>2, Roles DEF CallRecord
      <3>2. call' = [call EXCEPT ![c] = [[call[c] EXCEPT !.at = "close"] EXCEPT !.settled = TRUE]]
        <4> DEFINE moved == [call[c] EXCEPT !.at = "close"]
        <4>1. call' = [[call EXCEPT ![c] = moved] EXCEPT ![c] = [[call EXCEPT ![c] = moved][c] EXCEPT !.settled = TRUE]]
          BY <1>6 DEF ProviderClose
        <4> HIDE DEF moved
        <4>2. [call EXCEPT ![c] = moved][c] = moved
          BY <1>1, Roles
        <4>3. call' = [call EXCEPT ![c] = [moved EXCEPT !.settled = TRUE]]
          BY <4>1, <4>2
        <4> QED  BY <4>3 DEF moved
      <3>3. [[call[c] EXCEPT !.at = "close"] EXCEPT !.settled = TRUE] = [at |-> "close", turn |-> call[c].turn, settled |-> TRUE]
        <4>1. [call[c] EXCEPT !.at = "close"] = [at |-> "close", turn |-> call[c].turn, settled |-> call[c].settled]
          BY <1>2, Roles DEF CallRecord
        <4>2. \A b \in BOOLEAN : [[at |-> "close", turn |-> call[c].turn, settled |-> call[c].settled] EXCEPT !.settled = b]
                = [at |-> "close", turn |-> call[c].turn, settled |-> b]
          OBVIOUS
        <4> QED  BY <4>1, <4>2
      <3> QED  BY <3>2, <3>3
    <2>3. "close" \in Places(c) \ Unbegun /\ call[c].turn \in Callers \cup {NoTurn} /\ c \in Closers
      BY <1>2, Roles DEF Places, Unbegun, CallRecord
    <2>5. CallsMove
      BY <2>1, <2>2, <2>3, CallBegins, Roles
    <2> QED  BY <2>1, <2>5, StreamsUntouched
  <1> QED  BY <1>4, <1>5, <1>6

\* What a stream in state r has delivered when it ends.
Delivered(r) ==
    \/ \E i \in 1 .. Len(events) : i <= r.pos /\ (Completes(events[i], r.target) \/ Tells(events[i]))
    \/ \E c \in Closers : call[c].at = "done"
    \/ \E c \in Cancellers : call[c].at = "done" /\ call[c].turn # r.target

\* A stream that has yielded the whole log may end with the session or its turn.
LEMMA WholeLogDelivered ==
  ASSUME StreamInv, NEW s \in Streams, Ends(s), stream[s].pos = Len(events)
  PROVE  Delivered(stream[s])
  <1>1. Len(events) \in Nat
    BY DEF StreamInv, StreamTyped
  <1>2. CASE IsComplete(events, stream[s].target)
    BY <1>1, <1>2 DEF IsComplete, Delivered
  <1>3. CASE over
    <2>1. OverReason
      BY <1>3 DEF StreamInv, OverTold
    <2>2. CASE \E i \in 1 .. Len(events) : Tells(events[i])
      BY <1>1, <2>2 DEF Delivered
    <2>3. CASE \E c \in Closers : call[c].at = "done"
      BY <2>3 DEF Delivered
    <2>4. ASSUME NEW c \in Cancellers, call[c].at = "done", IsComplete(events, call[c].turn)
          PROVE  Delivered(stream[s])
      BY <1>2, <2>4 DEF Delivered
    <2> QED  BY <2>1, <2>2, <2>3, <2>4 DEF OverReason
  <1> QED  BY <1>2, <1>3 DEF Ends

\* One stream moves to r.
LEMMA OneStreamMoves ==
  ASSUME StreamInv, NEW s \in Streams, NEW r \in StreamRecord, stream' = [stream EXCEPT ![s] = r], StreamOnly,
         listed, r.pos <= r.cursor, r.cursor <= Len(events),
         r.at \in {"look", "waiting"} => r.pos = r.cursor,
         r.at = "yield" => r.pos >= 1,
         r.at = "ended" => Delivered(r)
  PROVE  StreamInv'
  <1>1. UNCHANGED <<call, bound, listed, events, current, start, over>>
    BY DEF StreamOnly
  <1>2. stream \in [Streams -> StreamRecord]
    BY DEF StreamInv, StreamTyped
  <1>3. stream' \in [Streams -> StreamRecord] /\ stream'[s] = r /\ \A q \in Streams : q # s => stream'[q] = stream[q]
    BY <1>2
  <1>4. StreamTyped'
    BY <1>1, <1>3 DEF StreamInv, StreamTyped
  <1>5. SessionOpens' /\ OverTold'
    BY <1>1 DEF StreamInv, SessionOpens, OverTold, OverReason
  <1>6. StreamsInLog'
    BY <1>1, <1>3 DEF StreamInv, StreamsInLog
  <1>7. StreamsComplete'
    BY <1>1, <1>3 DEF StreamInv, StreamsComplete, Delivered
  <1> QED  BY <1>4, <1>5, <1>6, <1>7 DEF StreamInv

LEMMA StreamsMove ==
  ASSUME StreamInv, NEW s \in Streams
  PROVE  /\ Look(s) \/ Resume(s) \/ Leave(s) => StreamInv'
         /\ \A from \in {start} \cup {i \in Cursors : i <= Len(events)} : Open(s, from) => StreamInv'
  <1> DEFINE now == stream[s]
  <1>1. stream \in [Streams -> StreamRecord] /\ Len(events) \in Nat /\ events \in Seq(EventSet) /\ start \in 0 .. Len(events)
        /\ current \in Callers \cup {NoTurn}
    BY DEF StreamInv, StreamTyped
  <1>2. /\ now \in StreamRecord /\ now.pos \in Nat /\ now.cursor \in Nat
        /\ now = [at |-> now.at, from |-> now.from, cursor |-> now.cursor, pos |-> now.pos, target |-> now.target]
    BY <1>1 DEF StreamRecord
  <1>3. now.at # "off" =>
          /\ listed /\ now.pos <= now.cursor /\ now.cursor <= Len(events)
          /\ now.at \in {"look", "waiting"} => now.pos = now.cursor
          /\ now.at = "yield" => now.pos >= 1
    BY DEF StreamInv, SessionOpens, StreamsInLog
  <1>4. Ends(s) /\ now.pos = Len(events) => Delivered(now)
    BY WholeLogDelivered
  <1>5. \A where \in {"ended", "waiting", "look", "left"} :
          LET r == [now EXCEPT !.at = where]
          IN  /\ r \in StreamRecord /\ r.at = where /\ r.pos = now.pos /\ r.cursor = now.cursor /\ r.target = now.target
              /\ Delivered(now) => Delivered(r)
    <2>1. \A where \in {"ended", "waiting", "look", "left"} :
            LET r == [now EXCEPT !.at = where]
            IN  r \in StreamRecord /\ r.at = where /\ r.pos = now.pos /\ r.cursor = now.cursor /\ r.target = now.target
      BY <1>2 DEF StreamRecord
    <2> QED  BY <2>1 DEF Delivered
  <1>6. ASSUME Look(s) PROVE StreamInv'
    <2>1. now.at = "look" /\ StreamOnly
      BY <1>6 DEF Look
    <2>2. CASE now.cursor < Len(events)
      <3> DEFINE r == [now EXCEPT !.at = "yield", !.pos = now.pos + 1, !.cursor = Len(events)]
      <3>1. stream' = [stream EXCEPT ![s] = r]
        BY <1>6, <2>2, <1>1 DEF Look
      <3>2. r \in StreamRecord /\ r.at = "yield" /\ r.pos = now.pos + 1 /\ r.cursor = Len(events)
        <4> DEFINE first == [now EXCEPT !.at = "yield"]
                   second == [first EXCEPT !.pos = now.pos + 1]
        <4>1. first \in StreamRecord /\ first.at = "yield"
          BY <1>2 DEF StreamRecord
        <4> HIDE DEF first
        <4>2. second \in StreamRecord /\ second.at = "yield" /\ second.pos = now.pos + 1
          BY <1>2, <4>1 DEF StreamRecord
        <4> HIDE DEF second
        <4>3. LET third == [second EXCEPT !.cursor = Len(events)]
              IN  third \in StreamRecord /\ third.at = "yield" /\ third.pos = now.pos + 1 /\ third.cursor = Len(events)
          BY <1>1, <4>2 DEF StreamRecord
        <4> QED  BY <4>3 DEF first, second
      <3> HIDE DEF r
      <3>3. listed /\ r.pos <= r.cursor /\ r.cursor <= Len(events) /\ r.pos >= 1
        BY <1>1, <1>2, <1>3, <2>1, <2>2, <3>2
      <3>4. r.at \notin {"look", "waiting"} /\ r.at # "ended"
        BY <3>2
      <3> QED  BY <2>1, <3>1, <3>2, <3>3, <3>4, OneStreamMoves
    <2>3. CASE ~(now.cursor < Len(events))
      <3> DEFINE r == [now EXCEPT !.at = IF Ends(s) THEN "ended" ELSE "waiting"]
      <3>1. stream' = [stream EXCEPT ![s] = r]
        BY <1>6, <2>3 DEF Look
      <3>2. now.pos = Len(events)
        BY <1>1, <1>2, <1>3, <2>1, <2>3
      <3>3. /\ r \in StreamRecord /\ r.pos = now.pos /\ r.cursor = now.cursor /\ r.at \in {"ended", "waiting"}
            /\ r.at = "ended" => Delivered(r)
        BY <1>4, <1>5, <3>2
      <3> HIDE DEF r
      <3> QED  BY <1>1, <1>2, <1>3, <2>1, <3>1, <3>3, OneStreamMoves
    <2> QED  BY <2>2, <2>3
  <1>7. ASSUME Resume(s) PROVE StreamInv'
    <2>1. now.at = "yield" /\ StreamOnly
      BY <1>7 DEF Resume
    <2>2. listed /\ now.pos >= 1 /\ now.pos <= now.cursor /\ now.cursor <= Len(events)
      BY <1>3, <2>1
    <2>3. CASE Completes(events[now.pos], now.target)
      <3> DEFINE r == [now EXCEPT !.at = "ended"]
      <3>1. stream' = [stream EXCEPT ![s] = r]
        BY <1>7, <2>3 DEF Resume
      <3>2. now.pos \in 1 .. Len(events)
        BY <1>1, <1>2, <2>2
      <3>3. Delivered(now)
        BY <1>2, <2>3, <3>2 DEF Delivered
      <3>4. /\ r \in StreamRecord /\ r.pos = now.pos /\ r.cursor = now.cursor /\ r.at = "ended" /\ Delivered(r)
        BY <1>5, <3>3
      <3> HIDE DEF r
      <3> QED  BY <2>1, <2>2, <3>1, <3>4, OneStreamMoves
    <2>4. CASE ~Completes(events[now.pos], now.target) /\ now.pos < now.cursor
      <3> DEFINE r == [now EXCEPT !.pos = now.pos + 1]
      <3>1. stream' = [stream EXCEPT ![s] = r]
        BY <1>7, <2>4 DEF Resume
      <3>2. r \in StreamRecord /\ r.at = "yield" /\ r.pos = now.pos + 1 /\ r.cursor = now.cursor
        BY <1>2, <2>1 DEF StreamRecord
      <3> HIDE DEF r
      <3>3. listed /\ r.pos <= r.cursor /\ r.cursor <= Len(events) /\ r.pos >= 1
        BY <1>1, <1>2, <2>2, <2>4, <3>2
      <3>4. r.at \notin {"look", "waiting"} /\ r.at # "ended"
        BY <3>2
      <3> QED  BY <2>1, <3>1, <3>2, <3>3, <3>4, OneStreamMoves
    <2>5. CASE ~Completes(events[now.pos], now.target) /\ ~(now.pos < now.cursor)
      <3> DEFINE r == [now EXCEPT !.at = IF Drained(s) THEN "ended" ELSE "look"]
      <3>1. stream' = [stream EXCEPT ![s] = r]
        BY <1>7, <2>5 DEF Resume
      <3>2. now.pos = now.cursor
        BY <1>2, <2>2, <2>5
      <3>3. Drained(s) => Ends(s) /\ now.pos = Len(events)
        BY <1>1, <1>2, <2>2, <3>2 DEF Drained
      <3>4. /\ r \in StreamRecord /\ r.pos = now.pos /\ r.cursor = now.cursor /\ r.at \in {"ended", "look"}
            /\ r.at = "ended" => Delivered(r)
        BY <1>4, <1>5, <3>3
      <3> HIDE DEF r
      <3> QED  BY <2>1, <2>2, <3>1, <3>2, <3>4, OneStreamMoves
    <2> QED  BY <2>3, <2>4, <2>5
  <1>8. ASSUME Leave(s) PROVE StreamInv'
    <2> DEFINE r == [now EXCEPT !.at = "left"]
    <2>1. now.at = "yield" /\ StreamOnly /\ stream' = [stream EXCEPT ![s] = r]
      BY <1>8 DEF Leave
    <2>2. r \in StreamRecord /\ r.at = "left" /\ r.pos = now.pos /\ r.cursor = now.cursor
      BY <1>5
    <2> HIDE DEF r
    <2>3. listed /\ r.pos <= r.cursor /\ r.cursor <= Len(events)
      BY <1>3, <2>1, <2>2
    <2>4. r.at \notin {"look", "waiting"} /\ r.at # "yield" /\ r.at # "ended"
      BY <2>2
    <2> QED  BY <2>1, <2>2, <2>3, <2>4, OneStreamMoves
  <1>9. ASSUME NEW from \in {start} \cup {i \in Cursors : i <= Len(events)}, Open(s, from) PROVE StreamInv'
    <2> DEFINE r == [at |-> "look", from |-> from, cursor |-> from, pos |-> from, target |-> current]
    <2>1. listed /\ StreamOnly /\ stream' = [stream EXCEPT ![s] = r]
      BY <1>9 DEF Open
    <2>2. from \in Nat /\ from <= Len(events)
      BY <1>1, CursorsAssumption
    <2>3. r \in StreamRecord /\ r.at = "look" /\ r.pos = from /\ r.cursor = from
      BY <1>1, <2>2 DEF StreamRecord
    <2> HIDE DEF r
    <2>4. r.pos <= r.cursor /\ r.cursor <= Len(events) /\ r.at # "yield" /\ r.at # "ended"
      BY <2>2, <2>3
    <2> QED  BY <2>1, <2>3, <2>4, OneStreamMoves
  <1> QED  BY <1>6, <1>7, <1>8, <1>9

LEMMA StreamStep == StreamInv /\ [Next]_codexVars => StreamInv'
  <1> SUFFICES ASSUME StreamInv, [Next]_codexVars PROVE StreamInv'
    OBVIOUS
  <1> USE DEF connVars, sessVars, Nothing
  <1>1. current \in Callers \cup {NoTurn}
    BY DEF StreamInv, StreamTyped
  <1>2. CASE UNCHANGED codexVars
    BY <1>2, CallsStay, StreamsUntouched DEF codexVars
  <1>3. CASE Connect \/ Initialized \/ ThreadStarted \/ FirstTurnStarted \/ StartFails
    BY <1>3, StreamsStart
  <1>4. CASE ReaderStarts \/ RefusalSent
    BY <1>4, CallsStay, StreamsUntouched DEF ReaderStarts, RefusalSent
  <1>5. CASE Failure
    BY <1>5, StreamsFail
  <1>6. ASSUME NEW c \in Callers, Calls(c) PROVE StreamInv'
    <2>1. CASE SendOfCall(c) \/ \E outcome \in {"ok", "error"} : Answered(c, outcome)
      BY <2>1, CallsStay, StreamsUntouched DEF SendOfCall, Answered
    <2>2. CASE CloseConnection(c)
      <3>1. /\ call[c].at = "close" /\ (At(c, "finish") \/ At(c, "closing"))
            /\ UNCHANGED <<bound, listed, events, current, start, over, stream>>
        BY <2>2 DEF CloseConnection
      <3>2. "finish" \in Places(c) \ Unbegun /\ "closing" \in Places(c) \ Unbegun
        BY <3>1 DEF StreamInv, StreamTyped, Places, Unbegun
      <3>3. CallsMove
        BY <3>1, <3>2, MovesOn
      <3> QED  BY <3>1, <3>3, StreamsUntouched
    <2>3. CASE TransportCloses(c)
      <3>1. /\ call[c].at = "closing" /\ (At(c, "failed") \/ (c # Starter /\ At(c, "finish")))
            /\ UNCHANGED <<bound, listed, events, current, start, over, stream>>
        BY <2>3 DEF TransportCloses
      <3>2. "failed" \in Places(c) \ Unbegun /\ (c # Starter => "finish" \in Places(c) \ Unbegun)
        BY <3>1 DEF StreamInv, StreamTyped, Places, Unbegun
      <3>3. CallsMove
        BY <3>1, <3>2, MovesOn
      <3> QED  BY <3>1, <3>3, StreamsUntouched
    <2>4. CASE Finish(c)
      BY <2>4, StreamsFinish
    <2> QED  BY <1>6, <2>1, <2>2, <2>3, <2>4 DEF Calls
  <1>7. ASSUME NEW c \in Senders, SendReturns(c) PROVE StreamInv'
    <2>1. /\ call[c].at \in {"steer", "turn"} /\ (At(c, "done") \/ At(c, "failed"))
          /\ current' \in {c, current} /\ UNCHANGED <<bound, listed, events, start, over, stream>>
      BY <1>7 DEF SendReturns
    <2>2. c \in Callers /\ {"done", "failed"} \subseteq Places(c) \ Unbegun
      BY Roles DEF Places, Unbegun
    <2>3. CallsMove
      BY <2>1, <2>2, MovesOn
    <2> QED  BY <1>1, <2>1, <2>2, <2>3, StreamsAside DEF LogGrows
  <1>8. ASSUME NEW c \in Cancellers, Interrupted(c) \/ GraceEnds(c) PROVE StreamInv'
    <2>1. /\ call[c].at \in {"interrupt", "grace"} /\ (At(c, "grace") \/ At(c, "failed") \/ At(c, "close"))
          /\ UNCHANGED <<bound, listed, events, current, start, over, stream>>
      BY <1>8 DEF Interrupted, GraceEnds
    <2>2. c \in Callers /\ {"grace", "failed", "close"} \subseteq Places(c) \ Unbegun
      BY Roles DEF Places, Unbegun
    <2>3. CallsMove
      BY <2>1, <2>2, MovesOn
    <2> QED  BY <2>1, <2>3, StreamsUntouched
  <1>9. ASSUME NEW t \in Callers,
               \/ \E m \in Methods : Notified(t, m[1], m[2])
               \/ \E status \in {"completed", "interrupted"} : TurnCompleted(t, status)
        PROVE  StreamInv'
    <2>1. ASSUME NEW m \in Methods, Notified(t, m[1], m[2]) PROVE StreamInv'
      <3>1. m[1] \in EventMethods /\ m[2] \in EventItems
        <4>1. CASE m = <<"item/completed", "fileChange">>
          BY <4>1 DEF EventMethods, EventItems
        <4>2. CASE m = <<"blackbox/session/failed", "">>
          BY <4>2 DEF EventMethods, EventItems
        <4> QED  BY <4>1, <4>2 DEF Methods
      <3>2. Event(m[1], t, "", m[2], FALSE) \in EventSet
        BY <3>1, EventTyped, Literals
      <3> QED  BY <1>1, <2>1, <3>2, StreamsHear DEF Notified
    <2>2. ASSUME NEW status \in {"completed", "interrupted"}, TurnCompleted(t, status) PROVE StreamInv'
      <3>1. Event("turn/completed", t, status, "", FALSE) \in EventSet
        BY EventTyped, Literals
      <3>2. current' \in Callers \cup {NoTurn}
        BY <1>1, <2>2 DEF TurnCompleted, CurrentEnded
      <3> QED  BY <2>2, <3>1, <3>2, StreamsHear DEF TurnCompleted
    <2> QED  BY <1>9, <2>1, <2>2
  <1>10. ASSUME NEW a \in ApprovalIds, ApprovalAsked(a) PROVE StreamInv'
    <2>1. Event("blackbox/approval/requested", NoTurn, "", a, TRUE) \in EventSet
      BY EventTyped, Literals
    <2> QED  BY <1>1, <1>10, <2>1, StreamsHear DEF ApprovalAsked
  <1>11. ASSUME NEW a \in ApprovalIds \cup {"other"}, RequestRefused(a) PROVE StreamInv'
    BY <1>11, CallsStay, StreamsUntouched DEF RequestRefused
  <1>12. ASSUME NEW a \in ApprovalIds, NEW decision, Approve(a, decision) PROVE StreamInv'
    BY <1>12, CallsStay, StreamsUntouched DEF Approve
  <1> QED
    BY <1>2, <1>3, <1>4, <1>5, <1>6, <1>7, <1>8, <1>9, <1>10, <1>11, <1>12, StreamsCalled, StreamsMove DEF Next

(***************************************************************************)
(* However its consumer pulls, turns complete late, connections fail and   *)
(* calls cross: a stream that ended had yielded its turn's completion or   *)
(* what became of the session, unless a close(), or a cancel() that knew   *)
(* of another turn, ended it.                                              *)
(***************************************************************************)
THEOREM StreamsDeliverTheirTurn == Spec => []StreamsComplete
  <1>1. StreamInv => StreamsComplete
    BY DEF StreamInv
  <1> QED  BY <1>1, StreamsInit, StreamStep, PTL DEF Spec
=============================================================================
