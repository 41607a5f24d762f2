------------------------------ MODULE SseStream ------------------------------
(***************************************************************************)
(* providers/http.ts: how decodeSSE() makes messages of the chunks of a    *)
(* response body.  A text is a sequence of tokens [k, v]: "lf" and "cr"    *)
(* end lines, "data" is a whole data line that carries payload v, "torn"   *)
(* one of which only a part has come, "comment" a line with a colon first. *)
(***************************************************************************)
EXTENDS Collections, FiniteSets, FiniteSetsExt

Token(k, v) == [k |-> k, v |-> v]
LF == Token("lf", 0)
CR == Token("cr", 0)

\* replaceAll('\r\n', '\n').replaceAll('\r', '\n'), token by token.
LineOf(text, i) ==
    CASE text[i] = LF /\ i > 1 /\ text[i - 1] = CR -> << >>
      [] text[i] = CR -> <<LF>>
      [] OTHER -> <<text[i]>>
LinesOf(text) == [i \in 1 .. Len(text) |-> LineOf(text, i)]
NormalizedLines(text) == Joined(LinesOf(text))

\* Where two line ends meet.
Boundaries(text) == {i \in 1 .. Len(text) - 1 : text[i] = LF /\ text[i + 1] = LF}

\* parseSSEBlock(): the data lines of a block, none for an empty block or one a comment begins.
DataIn(token) == IF token.k \in {"data", "torn"} THEN <<token>> ELSE << >>
DataOf(block) ==
    IF block = << >> \/ block[1].k = "comment" THEN << >>
    ELSE Joined([i \in 1 .. Len(block) |-> DataIn(block[i])])
MessageOf(block) == IF DataOf(block) = << >> THEN << >> ELSE <<DataOf(block)>>

\* split('\n\n') takes pairs from the left: what it has parsed, and the block it is in.
Scanned(scan, token) ==
    LET size == Len(scan.block)
    IN  IF token = LF /\ size > 0 /\ scan.block[size] = LF
        THEN [messages |-> scan.messages \o MessageOf(SubSeq(scan.block, 1, size - 1)), block |-> << >>]
        ELSE [messages |-> scan.messages, block |-> Append(scan.block, token)]
Scans(text) ==
    LET upTo[n \in 0 .. Len(text)] ==
            IF n = 0 THEN [messages |-> << >>, block |-> << >>] ELSE Scanned(upTo[n - 1], text[n])
    IN  upTo
MessagesOf(text) == Scans(text)[Len(text)].messages \o MessageOf(Scans(text)[Len(text)].block)

\* One chunk read: what is complete is parsed, the rest stays in the buffer.
Received(buffer, chunk) ==
    LET text == NormalizedLines(buffer \o chunk)
        end  == Max({0} \cup Boundaries(text))
    IN  IF end = 0 THEN [messages |-> << >>, buffer |-> text]
        ELSE [messages |-> MessagesOf(SubSeq(text, 1, end - 1)), buffer |-> SubSeq(text, end + 2, Len(text))]

\* At the end of the body what is left is parsed as one block.
Remaining(buffer) == MessageOf(buffer)
=============================================================================
