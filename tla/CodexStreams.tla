---------------------------- MODULE CodexStreams ----------------------------
(***************************************************************************)
(* The three readers of a Codex response stream, on the same stream:       *)
(*   chat  streamCodexChatResponses (src/providers/codex-chat.ts), which   *)
(*         forwards it as chunks of Chat Completions;                      *)
(*   coll  collectCodexResponseFromSse (src/providers/codex-sse.ts), which *)
(*         collects it for a client that does not stream;                  *)
(*   obs   observeCodexStreamCompletion, which watches the stream that     *)
(*         streamCodexResponses (src/providers/codex-responses.ts) passes  *)
(*         on as it is.                                                    *)
(* In the code a request has one of them.  What upstream may send is taken *)
(* from what they handle: the items of a response before its ends, and of  *)
(* those any, in any order and again, with one status for a response.      *)
(***************************************************************************)
EXTENDS CodexText, SequencesExt

CONSTANTS
    Pieces,      \* contents of deltas, arguments and pictures
    MaxItems,    \* bound: output items of a response
    MaxDeltas    \* bound: deltas of an item

Types == {"message", "function_call", "custom_tool_call", "image_generation_call"}
Calls == {"function_call", "custom_tool_call"}

VARIABLES
    items,      \* the output upstream has produced: [type, body]
    phase,      \* where its stream is
    finals,     \* how often the text of this message has been repeated as a whole
    terse,      \* does upstream send text events only?
    options,    \* legacyFunctionCall and includeUsage of the chat client
    chat, coll, obs

upstreamVars == <<items, phase, finals, terse, options>>
vars == <<upstreamVars, chat, coll, obs>>

Output == [type : Types, body : Seq(Pieces)]
Ends == {"open", "ok", "failed"}
FinishReasons == {"none", "stop", "length", "tool_calls", "function_call"}

\* What each reader has made of the stream so far: what its client has been sent
\* (late: a chunk after [DONE]), what it has collected, what it has seen.  Of upstream,
\* unordered says that it closed the response after [DONE], and missed that an end
\* the observer did not look at was a failure, or no JSON.
Chat == [role : BOOLEAN, text : Seq(Pieces), shown : SUBSET Pieces, calls : Seq(Output),
         finish : FinishReasons, usage : BOOLEAN, usages : 0..1, done : BOOLEAN,
         late : BOOLEAN, unordered : BOOLEAN, completed : BOOLEAN, end : Ends]
Coll == [text : Seq(Pieces), output : Seq(Output), completed : BOOLEAN,
         status : {"none", "in_progress", "completed", "incomplete"}, end : Ends]
Obs == [completed : BOOLEAN, error : BOOLEAN, missed : BOOLEAN, end : Ends]

TypeOK ==
    /\ items \in Seq(Output)
    /\ phase \in {"silent", "open", "item", "ended", "failed", "over"}
    /\ finals \in 0..2 /\ terse \in BOOLEAN
    /\ options \in [legacy : BOOLEAN, includeUsage : BOOLEAN]
    /\ chat \in Chat /\ coll \in Coll /\ obs \in Obs

Init ==
    /\ items = <<>> /\ phase = "silent" /\ finals = 0
    /\ terse \in BOOLEAN
    /\ options \in [legacy : BOOLEAN, includeUsage : BOOLEAN]
    /\ chat = [role |-> FALSE, text |-> <<>>, shown |-> {}, calls |-> <<>>,
               finish |-> "none", usage |-> FALSE, usages |-> 0, done |-> FALSE,
               late |-> FALSE, unordered |-> FALSE, completed |-> FALSE, end |-> "open"]
    /\ coll = [text |-> <<>>, output |-> <<>>, completed |-> FALSE,
               status |-> "none", end |-> "open"]
    /\ obs = [completed |-> FALSE, error |-> FALSE, missed |-> FALSE, end |-> "open"]

Current == Len(items)
Producing(type) == phase = "item" /\ items[Current].type = type
Produced(body) == items' = [items EXCEPT ![Current].body = body]

\* mergeOutputItem and mergeImagePartial at the current output_index.
Collected(body) == [coll EXCEPT !.output[Current].body = body]

-----------------------------------------------------------------------------
\* Every chunk with content is preceded by the chunk with the role.
WithRole == [chat EXCEPT !.role = TRUE]

\* Fault: only response.created brings the role.
ChatTextBare(text) == [chat EXCEPT !.text = @ \o text]

ChatText(text) ==
    IF text = <<>> THEN WithRole ELSE [WithRole EXCEPT !.text = @ \o text]

Created ==
    /\ phase = "silent" /\ phase' = "open"
    /\ chat' = WithRole
    /\ coll' = [coll EXCEPT !.status = "in_progress"]
    /\ UNCHANGED <<items, finals, terse, options, obs>>

\* response.output_item.added
ItemAdded(type) ==
    /\ phase \in {"silent", "open"} /\ Current < MaxItems
    /\ terse => type = "message" /\ Current = 0
    /\ options.legacy => type # "custom_tool_call"
    /\ phase' = "item" /\ finals' = 0
    /\ items' = Append(items, [type |-> type, body |-> <<>>])
    /\ coll' = IF terse THEN coll
               ELSE [coll EXCEPT !.output = Append(@, [type |-> type, body |-> <<>>])]
    /\ UNCHANGED <<terse, options, chat, obs>>

\* response.output_text.delta
TextDelta(p) ==
    /\ Producing("message") /\ finals = 0 /\ Len(items[Current].body) < MaxDeltas
    /\ Produced(Append(items[Current].body, p))
    /\ chat' = ChatText(<<p>>)
    /\ coll' = [coll EXCEPT !.text = Append(@, p)]
    /\ UNCHANGED <<phase, finals, terse, options, obs>>

\* response.output_text.done, and response.content_part.done after it: the whole
\* text, of which nothing may have been sent before.
TextFinal(text) ==
    /\ Producing("message") /\ finals < 2 /\ text # <<>>
    /\ items[Current].body \in {<<>>, text}
    /\ finals' = finals + 1 /\ Produced(text)
    /\ chat' = ChatText(Suffix(chat.text, text))
    /\ coll' = [coll EXCEPT !.text = Merge(@, text)]
    /\ UNCHANGED <<phase, terse, options, obs>>

Show(p) == [WithRole EXCEPT !.shown = @ \cup {p}]

\* response.image_generation_call.partial_image, and response.output_item.partial_image,
\* of which only the chat reader knows.
PartialImage(p, known) ==
    /\ Producing("image_generation_call") /\ Len(items[Current].body) < MaxDeltas
    /\ Produced(Append(items[Current].body, p))
    /\ chat' = Show(p)
    /\ coll' = IF known THEN Collected(<<p>>) ELSE coll
    /\ UNCHANGED <<phase, finals, terse, options, obs>>

Close == phase' = "open" /\ UNCHANGED <<finals, terse, options, obs>>

\* response.output_item.done, by the type of the item
MessageDone ==
    /\ Producing("message") /\ items[Current].body # <<>>
    /\ coll' = IF terse THEN coll ELSE Collected(items[Current].body)
    /\ Close /\ UNCHANGED <<items, chat>>

CallDone(args) ==
    /\ phase = "item" /\ items[Current].type \in Calls
    /\ Produced(<<args>>)
    /\ chat' = [WithRole EXCEPT !.calls = Append(@, items'[Current])]
    /\ coll' = Collected(<<args>>)
    /\ Close

\* A picture that comes without its data is the last partial one.
ImageDone(p) ==
    /\ Producing("image_generation_call")
    /\ Produced(Append(items[Current].body, p))
    /\ chat' = Show(p)
    /\ coll' = Collected(<<p>>)
    /\ Close

ImageDoneBare ==
    /\ Producing("image_generation_call")
    /\ Close /\ UNCHANGED <<items, chat, coll>>

-----------------------------------------------------------------------------
\* mapFinishReason, and what a call makes of it.
CallReason == IF options.legacy THEN "function_call" ELSE "tool_calls"

\* Fault: the status is passed on as it is; calls are not considered.
FinishReasonRaw(status) == status
FinishReasonByStatus(status) == IF status = "incomplete" THEN "length" ELSE "stop"

FinishReason(status) == CASE chat.calls # <<>> -> CallReason
                          [] chat.calls = <<>> /\ status = "incomplete" -> "length"
                          [] OTHER -> "stop"

\* The one finish chunk, and the one chunk with the usage that was asked for.
Finishing(status, usage) ==
    LET told == options.includeUsage /\ (usage \/ chat.usage) /\ chat.usages = 0
    IN  [chat EXCEPT !.completed = TRUE,
                     !.finish = IF chat.finish = "none" THEN FinishReason(status)
                                ELSE chat.finish,
                     !.usage = chat.usage \/ usage,
                     !.usages = IF told THEN 1 ELSE chat.usages,
                     !.late = chat.late \/ (chat.done /\ (chat.finish = "none" \/ told)),
                     !.unordered = chat.unordered \/ chat.done]

\* Fault: an incomplete response is not an end.
ClosedCompleted(status, carried, usage) ==
    /\ chat' = [Finishing(status, usage) EXCEPT !.completed = (status = "completed")]
    /\ coll' = [coll EXCEPT !.completed = TRUE, !.status = status,
                            !.output = IF carried THEN items ELSE @]
    /\ obs' = [obs EXCEPT !.completed = TRUE]

\* What the readers make of the end of the response: the chunks above; the snapshot,
\* with its output unless that is empty.
Closed(status, carried, usage) ==
    /\ chat' = Finishing(status, usage)
    /\ coll' = [coll EXCEPT !.completed = TRUE, !.status = status,
                            !.output = IF carried THEN items ELSE @]
    /\ obs' = [obs EXCEPT !.completed = TRUE]

UpstreamClosed == coll.status \in {"completed", "incomplete"}

\* response.completed, or response.incomplete, which may come amid an item, or an
\* event of no other use with that status; again too, and after [DONE].
ResponseClosed(status, carried, usage) ==
    /\ phase \in {"silent", "open", "item", "ended"}
    /\ phase = "item" => status = "incomplete"
    /\ UpstreamClosed => status = coll.status
    /\ phase' = "ended"
    /\ Closed(status, carried, usage)
    /\ UNCHANGED <<items, finals, terse, options>>

\* response.done or [DONE], also from an upstream that sends no other end.
ResponseDone ==
    /\ phase \in {"silent", "open", "ended"} /\ phase' = "ended"
    /\ chat' = [chat EXCEPT !.completed = TRUE, !.done = TRUE]
    /\ coll' = [coll EXCEPT !.completed = TRUE]
    /\ obs' = [obs EXCEPT !.completed = TRUE]
    /\ UNCHANGED <<items, finals, terse, options>>

\* An end whose data is no JSON: the observer alone goes by the name of the event.
EndUnread ==
    /\ phase \notin {"failed", "over"}
    /\ obs' = [obs EXCEPT !.completed = TRUE, !.missed = TRUE]
    /\ UNCHANGED <<upstreamVars, chat, coll>>

\* An error event, response.failed, or any event with a response that has failed: chat
\* ends its own stream, coll throws.  The observer reads on, and does not look at
\* the response of an event that is named as an end.
UpstreamFails(asEnd) ==
    /\ phase # "over" /\ phase' = "failed"
    /\ chat' = [chat EXCEPT !.end = "failed"]
    /\ coll' = [coll EXCEPT !.end = "failed"]
    /\ obs' = IF asEnd THEN [obs EXCEPT !.completed = TRUE, !.missed = TRUE]
              ELSE [obs EXCEPT !.completed = FALSE, !.error = TRUE]
    /\ UNCHANGED <<items, finals, terse, options>>

\* The finally of the chat reader: it sends what is missing, [DONE] the last.
Finished ==
    LET untold == options.includeUsage /\ chat.usage /\ chat.usages = 0
    IN  [chat EXCEPT !.end = "ok", !.done = TRUE,
                     !.finish = IF chat.finish = "none" THEN "stop" ELSE chat.finish,
                     !.usages = IF untold THEN 1 ELSE chat.usages,
                     !.late = chat.late \/ (chat.done /\ (chat.finish = "none" \/ untold))]

\* Whoever is still reading learns that the connection has ended.
Ended(completed) == IF completed THEN "ok" ELSE "failed"
ConnectionEnds ==
    /\ phase # "over" /\ phase' = "over"
    /\ \/ chat.end # "open" /\ UNCHANGED chat
       \/ chat.end = "open" /\ chat.completed /\ chat' = Finished
       \/ chat.end = "open" /\ ~chat.completed /\ chat' = [chat EXCEPT !.end = "failed"]
    /\ coll' = [coll EXCEPT !.end = IF @ = "open" THEN Ended(coll.completed) ELSE @]
    /\ obs' = [obs EXCEPT !.end = Ended(~obs.error /\ obs.completed)]
    /\ UNCHANGED <<items, finals, terse, options>>

\* reader.read() throws: the connection breaks, or its time is up.
ConnectionBreaks ==
    /\ phase # "over" /\ phase' = "over"
    /\ chat' = [chat EXCEPT !.completed = FALSE, !.end = "failed"]
    /\ coll' = [coll EXCEPT !.end = "failed"]
    /\ obs' = [obs EXCEPT !.completed = FALSE, !.end = "failed"]
    /\ UNCHANGED <<items, finals, terse, options>>

Texts == BoundedSeq(Pieces, MaxDeltas)

Next == \/ Created
        \/ \E type \in Types : ItemAdded(type)
        \/ \E p \in Pieces : TextDelta(p) \/ CallDone(p) \/ ImageDone(p)
        \/ \E p \in Pieces, known \in BOOLEAN : PartialImage(p, known)
        \/ \E text \in Texts : TextFinal(text)
        \/ MessageDone \/ ImageDoneBare
        \/ \E status \in {"completed", "incomplete"}, carried, usage \in BOOLEAN :
               ResponseClosed(status, carried, usage)
        \/ \E asEnd \in BOOLEAN : UpstreamFails(asEnd)
        \/ ResponseDone \/ EndUnread \/ ConnectionEnds \/ ConnectionBreaks

Spec == Init /\ [][Next]_vars

-----------------------------------------------------------------------------
(* normalizeResponse: the answer of a client that does not stream *)

Places(output, types) == {i \in DOMAIN output : output[i].type \in types}
Filled(type) == {i \in Places(coll.output, {type}) : coll.output[i].body # <<>>}
First(places) == CHOOSE i \in places : \A j \in places : i <= j

\* What is at the given places, in order.
Chosen(output, places) ==
    LET upTo[n \in 0..Len(output)] ==
            CASE n = 0 -> <<>>
              [] n \in places /\ n # 0 -> Append(upTo[n - 1], output[n])
              [] OTHER -> upTo[n - 1]
    IN  upTo[Len(output)]

\* normalizeOutputText: the first message and the first picture; buildOutputFromText
\* when there is no output.
AnswerText == CASE coll.output = <<>> -> coll.text
                [] coll.output # <<>> /\ Filled("message") # {} ->
                       coll.output[First(Filled("message"))].body
                [] OTHER -> <<>>
AnswerPictures == LET pictures == Filled("image_generation_call")
                  IN  IF pictures = {} THEN {} ELSE {Last(coll.output[First(pictures)].body)}

CallsFound == Places(coll.output, Calls)
AnswerCalls == IF options.legacy /\ CallsFound # {}
               THEN <<coll.output[First(CallsFound)]>> ELSE Chosen(coll.output, CallsFound)
AnswerFinish == CASE CallsFound # {} -> CallReason
                  [] CallsFound = {} /\ coll.status = "incomplete" -> "length"
                  [] OTHER -> "stop"

-----------------------------------------------------------------------------
(* Properties *)

\* The text a streaming client has been sent is the text collected for one that does
\* not stream, at every point of any stream (getCodexTextSuffix against
\* mergeCodexFinalText, and the events both take text from).
SameText == chat.text = coll.text

\* A client that streams and one that does not are told the same of how a response
\* ended, whatever order its ends, errors and the loss of the connection come in.  A
\* stream that is only watched never counts as failed without them, and counts as
\* ended well against them only for an end whose data nobody looked at.
SameVerdict ==
    phase = "over" => /\ chat.end = coll.end
                      /\ obs.end = "failed" => coll.end = "failed"
                      /\ obs.end = "ok" /\ coll.end = "failed" => obs.missed

\* A chat stream has its role before anything else, and if it ends well one finish
\* reason and one [DONE], and the usage that was asked for.  [DONE] is the last, unless
\* upstream says it before it closes the response, or never closes it.
ChatStreamIsWellFormed ==
    /\ chat.text # <<>> \/ chat.shown # {} \/ chat.calls # <<>> => chat.role
    /\ chat.end = "ok" => /\ chat.done /\ chat.finish # "none"
                          /\ options.includeUsage /\ chat.usage => chat.usages = 1
    /\ chat.late => chat.unordered \/ ~UpstreamClosed

AtMostOne(places) == \A i, j \in places : i = j

\* Of a response that was closed with all its items, a client that streams gets the
\* text, the calls and the finish reason that one that does not stream gets, and
\* its picture.  (Of several messages only the first is in the answer, and a
\* function_call has room for one call.)
ChatStreamIsTheAnswer ==
    /\ chat.end = "ok" /\ coll.end = "ok"
    /\ coll.status = "completed"
    /\ AtMostOne(Places(items, {"message"}))
    /\ options.legacy => AtMostOne(Places(items, Calls))
    => /\ chat.text = AnswerText
       /\ chat.calls = AnswerCalls
       /\ chat.finish = AnswerFinish
       /\ AnswerPictures \subseteq chat.shown
=============================================================================
