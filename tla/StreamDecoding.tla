---------------------------- MODULE StreamDecoding ----------------------------
(***************************************************************************)
(* The event mappers of the adapters: what they make of the payloads of a  *)
(* streamed response one by one, and of a response that comes whole.       *)
(*                                                                         *)
(* A response is [blocks, usage, finish]: blocks are [type, id, pieces],   *)
(* type being "thinking", "text" or "tool_use"; usage is what the service  *)
(* reports.  A text is the sequence of its pieces, so are the arguments of *)
(* a call.  A decoder is what a mapper has gathered; its answer, once      *)
(* there, is the data of the model.completed event.                        *)
(***************************************************************************)
EXTENDS Collections, FiniteSets

Greater(a, b) == IF a > b THEN a ELSE b

Usage(input, output, read, created) ==
    [input |-> input, output |-> output, cached |-> read + created, read |-> read, created |-> created]
NoUsage == Usage(0, 0, 0, 0)
\* Anthropic counts cached input apart, OpenAI and Gemini in their input.
UsageFromAnthropic(usage) == Usage(usage.input + usage.read + usage.created, usage.output, usage.read, usage.created)
UsageFromOpenAI(usage) == Usage(usage.input, usage.output, usage.read, usage.created)
UsageFromGemini(usage) == Usage(usage.input, usage.output, usage.read, 0)

NoAnswer == [text |-> << >>, calls |-> << >>, usage |-> NoUsage, history |-> << >>, response |-> "none", finish |-> "none", done |-> FALSE]
NewDecoder == [text |-> << >>, items |-> << >>, args |-> << >>, blocks |-> << >>, start |-> NoUsage, usage |-> NoUsage,
               finish |-> "none", answer |-> NoAnswer, failed |-> FALSE]

\* An item of the run: the calls keep their arguments, the others are told by their type.
Item(type, id, pieces, status) == [type |-> type, id |-> id, arguments |-> pieces, status |-> status]
CallsOf(items) ==
    LET called == SelectSeq(items, LAMBDA item : item.type = "tool_use")
    IN  [i \in 1 .. Len(called) |-> [id |-> called[i].id, arguments |-> called[i].arguments]]
TypesOf(blocks) == [i \in 1 .. Len(blocks) |-> blocks[i].type]

--------------------------------------------------------------------------
(* AnthropicEventMapper: items and blocks are kept by their index, and the *)
(* arguments of a call are put together apart until its block stops.       *)

AnthropicAnswer(decoder) ==
    [ text |-> decoder.text, calls |-> CallsOf(decoder.items),
      usage |-> [decoder.start EXCEPT !.output = Greater(@, decoder.usage.output)],
      history |-> << <<"assistant", TypesOf(decoder.blocks), "anthropic">> >>,
      response |-> "none", finish |-> "none", done |-> TRUE ]

AnthropicStops(decoder, index) ==
    LET item == decoder.items[index]
        done == IF index \in DOMAIN decoder.args THEN [item EXCEPT !.arguments = decoder.args[index]] ELSE item
    IN  [decoder EXCEPT !.items[index] = [done EXCEPT !.status = "completed"]]

\* A mutant: a piece of the arguments replaces what has come before it.
AnthropicDeltaReplacing(decoder, payload) ==
    CASE payload.kind = "text" -> [decoder EXCEPT !.text = Append(@, payload.piece)]
      [] payload.kind = "tool_use" -> [decoder EXCEPT !.args = Single(payload.index, <<payload.piece>>) ++ @]
      [] OTHER -> decoder

AnthropicDelta(decoder, payload) ==
    CASE payload.kind = "text" -> [decoder EXCEPT !.text = Append(@, payload.piece)]
      [] payload.kind = "tool_use" ->
           [decoder EXCEPT !.args = Single(payload.index,
               Append(IF payload.index \in DOMAIN @ THEN @[payload.index] ELSE << >>, payload.piece)) ++ @]
      [] OTHER -> decoder

AnthropicMap(decoder, payload) ==
    CASE payload.t = "message_start" -> [decoder EXCEPT !.start = UsageFromAnthropic(payload.usage)]
      [] payload.t = "content_block_start" ->
           [decoder EXCEPT !.blocks = Append(@, [type |-> payload.kind, pieces |-> << >>]),
                           !.items = Append(@, Item(payload.kind, payload.id, << >>, "none"))]
      [] payload.t = "content_block_delta" -> AnthropicDelta(decoder, payload)
      [] payload.t = "content_block_stop" -> AnthropicStops(decoder, payload.index)
      [] payload.t = "message_delta" -> [decoder EXCEPT !.usage = UsageFromAnthropic(payload.usage)]
      [] payload.t = "message_stop" -> [decoder EXCEPT !.answer = AnthropicAnswer(decoder)]
      [] payload.t = "error" -> [decoder EXCEPT !.failed = TRUE]
      [] OTHER -> decoder

\* completeMessage(): the same from a response that was not streamed.
TextIn(block) == IF block.type = "text" THEN block.pieces ELSE << >>
TextsOf(blocks) == [i \in 1 .. Len(blocks) |-> TextIn(blocks[i])]
TextOf(response) == Joined(TextsOf(response.blocks))
CompletedItem(block) ==
    Item(block.type, block.id, IF block.type = "tool_use" THEN block.pieces ELSE << >>, "completed")
AnthropicComplete(response) ==
    AnthropicAnswer([NewDecoder EXCEPT
        !.text = TextOf(response), !.start = UsageFromAnthropic(response.usage),
        !.blocks = response.blocks,
        !.items = [i \in 1 .. Len(response.blocks) |-> CompletedItem(response.blocks[i])]])

--------------------------------------------------------------------------
(* GeminiEventMapper: parts arrive whole, several to a chunk; complete()   *)
(* is called at the end of the body, whatever the last chunk was.          *)

GeminiPart(decoder, part) ==
    LET noted == [decoder EXCEPT !.blocks = Append(@, [type |-> part.type, pieces |-> part.pieces])]
    IN  CASE part.type = "text" -> [noted EXCEPT !.text = @ \o part.pieces]
          [] part.type = "tool_use" -> [noted EXCEPT !.items = Append(@, Item("tool_use", part.id, part.pieces, "completed"))]
          [] OTHER -> noted

GeminiParts(decoder, parts) ==
    LET upTo[n \in 0 .. Len(parts)] == IF n = 0 THEN decoder ELSE GeminiPart(upTo[n - 1], parts[n])
    IN  upTo

GeminiMap(decoder, payload) ==
    LET counted  == IF payload.usage.input = 0 THEN decoder ELSE [decoder EXCEPT !.usage = UsageFromGemini(payload.usage)]
        finished == IF payload.finish = "none" THEN counted ELSE [counted EXCEPT !.finish = payload.finish]
    IN  [GeminiParts(finished, payload.parts)[Len(payload.parts)] EXCEPT !.failed = payload.t = "error"]

GeminiComplete(decoder) ==
    [ text |-> decoder.text, calls |-> CallsOf(decoder.items), usage |-> decoder.usage,
      history |-> << <<"model", TypesOf(decoder.blocks), "google">> >>,
      response |-> "none", finish |-> decoder.finish, done |-> TRUE ]

--------------------------------------------------------------------------
(* OpenAIEventMapper: items are kept by id, each report of one replaces    *)
(* the last; response.completed carries the whole output again.  The text  *)
(* is that of every item's content (extractResponseText()): of the items   *)
(* modelled a message alone has one, reasoning comes as a summary and a    *)
(* call with its arguments.                                                *)

Reported(items, item) ==
    LET known == {i \in 1 .. Len(items) : items[i].id = item.id}
    IN  IF known = {} THEN Append(items, item) ELSE [items EXCEPT ![CHOOSE i \in known : TRUE] = item]
OutputItems(response) == [i \in 1 .. Len(response.blocks) |->
    Item(response.blocks[i].type, response.blocks[i].id, response.blocks[i].pieces, "completed")]

Reports(items, output) ==
    LET upTo[n \in 0 .. Len(output)] == IF n = 0 THEN items ELSE Reported(upTo[n - 1], output[n])
    IN  upTo
OpenAIAnswer(decoder, response) ==
    LET output == OutputItems(response)
        items  == Reports(decoder.items, output)[Len(output)]
    IN  [ text |-> IF TextOf(response) # << >> THEN TextOf(response) ELSE decoder.text, calls |-> CallsOf(items),
          usage |-> UsageFromOpenAI(response.usage),
          history |-> << <<"output", TypesOf(response.blocks), "openai">> >>,
          response |-> "resp", finish |-> "none", done |-> TRUE ]

OpenAIMap(decoder, payload) ==
    CASE payload.t = "output_text.delta" -> [decoder EXCEPT !.text = Append(@, payload.piece)]
      [] payload.t \in {"output_item.added", "output_item.done"} ->
           [decoder EXCEPT !.items = Reported(@, Item(payload.kind, payload.id, payload.pieces,
                                                     IF payload.t = "output_item.done" THEN "completed" ELSE "in_progress"))]
      [] payload.t = "response.completed" -> [decoder EXCEPT !.answer = OpenAIAnswer(decoder, payload.response)]
      [] payload.t \in {"response.failed", "error"} -> [decoder EXCEPT !.failed = TRUE]
      [] OTHER -> decoder

--------------------------------------------------------------------------
Mapped(provider, decoder, payload) ==
    CASE provider = "anthropic" -> AnthropicMap(decoder, payload)
      [] provider = "google" -> GeminiMap(decoder, payload)
      [] OTHER -> OpenAIMap(decoder, payload)

\* What streamTurn() makes of the body as a whole when it is not an event stream.
WholeAnswer(provider, response) ==
    CASE provider = "anthropic" -> AnthropicComplete(response)
      [] provider = "google" ->
           GeminiComplete(GeminiMap(NewDecoder,
               [t |-> "chunk", parts |-> response.blocks, usage |-> response.usage, finish |-> response.finish]))
      [] provider = "openai" -> OpenAIAnswer(NewDecoder, response)
      [] OTHER -> [NoAnswer EXCEPT !.text = TextOf(response), !.usage = UsageFromOpenAI(response.usage), !.done = TRUE]
=============================================================================
