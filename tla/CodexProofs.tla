----------------------------- MODULE CodexProofs -----------------------------
(* Theorems about CodexText and CodexStreams, for arbitrary constants. *)
EXTENDS CodexStreams, TLAPS, SequenceTheorems, WellFoundedInduction

\* A text that starts with head is head and what comes after it.
LEMMA HeadAndRest ==
    ASSUME NEW S, NEW text \in Seq(S), NEW head \in Seq(S), StartsWith(text, head)
    PROVE  After(text, head) \in Seq(S) /\ text = head \o After(text, head)
  <1> DEFINE rest == After(text, head)
  <1>1. Len(head) \in Nat /\ Len(text) \in Nat /\ Len(head) <= Len(text)
    BY DEF StartsWith
  <1>2. rest \in Seq(S) /\ Len(rest) = Len(text) - Len(head)
    BY <1>1 DEF After
  <1>3. head \o rest \in Seq(S) /\ Len(head \o rest) = Len(text)
    BY <1>1, <1>2
  <1>4. ASSUME NEW i \in 1..Len(text)
        PROVE  text[i] = (head \o rest)[i]
    <2>1. CASE i <= Len(head)
      <3>1. (head \o rest)[i] = head[i]
        BY <1>1, <1>2, <2>1
      <3>2. head[i] = SubSeq(text, 1, Len(head))[i]
        BY DEF StartsWith
      <3> QED BY <1>1, <2>1, <3>1, <3>2
    <2>2. CASE i > Len(head)
      <3>1. (head \o rest)[i] = rest[i - Len(head)]
        BY <1>1, <1>2, <2>2
      <3> QED BY <1>1, <2>2, <3>1 DEF After
    <2>3. i <= Len(head) \/ i > Len(head)
      BY <1>1
    <2> QED BY <2>1, <2>2, <2>3
  <1>5. text = head \o rest
    BY <1>3, <1>4, SeqEqual
  <1> QED BY <1>2, <1>5

\* What a client still lacks, appended to what it has, is the text brought up to
\* date: getCodexTextSuffix and mergeCodexFinalText treat every text alike.
THEOREM SuffixCompletes ==
    ASSUME NEW S, NEW current \in Seq(S), NEW text \in Seq(S)
    PROVE  /\ Suffix(current, text) \in Seq(S)
           /\ Merge(current, text) = current \o Suffix(current, text)
  <1>1. CASE StartsWith(text, current)
    <2>1. Suffix(current, text) = After(text, current)
      BY <1>1 DEF Suffix
    <2>2. text = <<>> => current = <<>>
      BY <1>1 DEF StartsWith
    <2>3. Merge(current, text) = text
      BY <1>1, <2>2 DEF Merge
    <2> QED BY <1>1, <2>1, <2>3, HeadAndRest
  <1>2. CASE ~StartsWith(text, current) /\ EndsWith(current, text)
    <2>1. Suffix(current, text) = <<>>
      BY <1>2 DEF Suffix
    <2>2. Merge(current, text) = current
      BY <1>2 DEF Merge
    <2> QED BY <2>1, <2>2
  <1>3. CASE ~StartsWith(text, current) /\ ~EndsWith(current, text)
    <2>1. text # <<>>
      BY <1>3 DEF EndsWith
    <2>2. Suffix(current, text) = text /\ Merge(current, text) = current \o text
      BY <1>3, <2>1 DEF Suffix, Merge
    <2> QED BY <2>2
  <1> QED BY <1>1, <1>2, <1>3

-----------------------------------------------------------------------------
LEMMA TextsAreSequences == Texts \subseteq Seq(Pieces)
  BY DEF Texts, BoundedSeq, SeqOf

LEMMA FinishReasonType ==
    ASSUME NEW status \in {"completed", "incomplete"}
    PROVE  FinishReason(status) \in FinishReasons
  <1>1. CallReason \in FinishReasons
    BY DEF CallReason, FinishReasons
  <1>2. "length" \in FinishReasons /\ "stop" \in FinishReasons
    BY DEF FinishReasons
  <1> QED BY <1>1, <1>2 DEF FinishReason

LEMMA BodyReplaced ==
    ASSUME NEW s \in Seq(Output), NEW n \in Nat, NEW body \in Seq(Pieces)
    PROVE  [s EXCEPT ![n].body = body] \in Seq(Output)
  <1> DEFINE t == [s EXCEPT ![n].body = body]
  <1>1. Len(s) \in Nat /\ DOMAIN s = 1..Len(s)
    OBVIOUS
  <1>2. t = [i \in 1..Len(s) |-> IF i = n THEN [s[n] EXCEPT !.body = body] ELSE s[i]]
    BY <1>1
  <1>3. ASSUME NEW i \in 1..Len(s)
        PROVE  t[i] \in Output
    <2>1. s[i] \in Output
      OBVIOUS
    <2>2. [s[i] EXCEPT !.body = body] \in Output
      BY <2>1 DEF Output
    <2> QED BY <1>2, <2>1, <2>2
  <1>4. t \in [1..Len(s) -> Output]
    BY <1>2, <1>3
  <1> QED BY <1>1, <1>4

\* The output upstream has produced, and what of it has been collected.
LEMMA ProducedType ==
    ASSUME TypeOK, NEW body \in Seq(Pieces), Produced(body)
    PROVE  items' \in Seq(Output)
  BY BodyReplaced DEF TypeOK, Produced, Current

LEMMA CollectedType ==
    ASSUME TypeOK, NEW body \in Seq(Pieces)
    PROVE  Collected(body) \in Coll /\ Collected(body).text = coll.text
  <1>1. coll \in Coll /\ coll.output \in Seq(Output) /\ Current \in Nat
    BY DEF TypeOK, Coll, Current
  <1>2. [coll.output EXCEPT ![Current].body = body] \in Seq(Output)
    BY <1>1, BodyReplaced
  <1>3. Collected(body) =
            [coll EXCEPT !.output = [coll.output EXCEPT ![Current].body = body]]
    BY <1>1 DEF Collected, Coll
  <1> QED BY <1>1, <1>2, <1>3 DEF Coll

LEMMA WithRoleType ==
    ASSUME TypeOK
    PROVE  WithRole \in Chat /\ WithRole.text = chat.text
  BY DEF TypeOK, WithRole, Chat

LEMMA ChatTextType ==
    ASSUME TypeOK, NEW text \in Seq(Pieces)
    PROVE  ChatText(text) \in Chat /\ ChatText(text).text = chat.text \o text
  <1>1. chat.text \in Seq(Pieces) /\ chat.text \o <<>> = chat.text
    BY DEF TypeOK, Chat
  <1>2. CASE text = <<>>
    BY <1>1, <1>2, WithRoleType DEF ChatText
  <1>3. CASE text # <<>>
    <2>1. ChatText(text) = [WithRole EXCEPT !.text = chat.text \o text]
      BY <1>3, WithRoleType DEF ChatText, Chat
    <2>2. chat.text \o text \in Seq(Pieces)
      BY <1>1
    <2> QED BY <2>1, <2>2, WithRoleType DEF Chat
  <1> QED BY <1>2, <1>3

LEMMA ShowType ==
    ASSUME TypeOK, NEW p \in Pieces
    PROVE  Show(p) \in Chat /\ Show(p).text = chat.text
  BY WithRoleType DEF Show, Chat

-----------------------------------------------------------------------------
\* The readers keep their types, and take the same text from every event.
IInv == TypeOK /\ SameText /\ (phase = "item" => items # <<>>)

LEMMA Initially == Init => IInv
  BY DEF Init, IInv, TypeOK, SameText, Chat, Coll, Obs, FinishReasons, Ends

USE DEF IInv, SameText

LEMMA CreatedKeeps == IInv /\ Created => IInv'
  <1> SUFFICES ASSUME IInv, Created PROVE IInv'
    OBVIOUS
  <1>1. chat' \in Chat /\ chat'.text = chat.text
    BY WithRoleType DEF Created
  <1>2. coll' \in Coll /\ coll'.text = coll.text
    BY DEF Created, TypeOK, Coll
  <1> QED BY <1>1, <1>2 DEF Created, TypeOK

LEMMA ItemAddedKeeps ==
    ASSUME IInv, NEW type \in Types, ItemAdded(type) PROVE IInv'
  <1> DEFINE item == [type |-> type, body |-> <<>>]
  <1>1. item \in Output
    BY DEF Output
  <1>2. items' \in Seq(Output)
    BY <1>1 DEF ItemAdded, TypeOK
  <1>3. coll' \in Coll /\ coll'.text = coll.text
    <2>1. coll.output \in Seq(Output) /\ Append(coll.output, item) \in Seq(Output)
      BY <1>1 DEF TypeOK, Coll
    <2>2. coll' \in {coll, [coll EXCEPT !.output = Append(coll.output, item)]}
      BY DEF ItemAdded, TypeOK, Coll
    <2> QED BY <2>1, <2>2 DEF TypeOK, Coll
  <1>4. items' # <<>>
    BY <1>1 DEF ItemAdded, TypeOK
  <1> QED BY <1>2, <1>3, <1>4 DEF ItemAdded, TypeOK

LEMMA CurrentItem ==
    ASSUME IInv, phase = "item"
    PROVE  Current \in 1..Len(items) /\ items[Current].body \in Seq(Pieces)
  <1>1. Current \in 1..Len(items)
    BY DEF TypeOK, Current
  <1>2. items[Current] \in Output
    BY <1>1 DEF TypeOK
  <1> QED BY <1>1, <1>2 DEF Output

LEMMA ProducedKeepsItems ==
    ASSUME IInv, phase = "item", NEW body \in Seq(Pieces), Produced(body)
    PROVE  items' \in Seq(Output) /\ items' # <<>>
  <1>1. Len(items') = Len(items)
    BY DEF Produced, TypeOK
  <1>2. Len(items) # 0
    BY DEF TypeOK
  <1> QED BY <1>1, <1>2, ProducedType

\* What a delta, a picture or a call adds.
LEMMA OnePiece ==
    ASSUME NEW body \in Seq(Pieces), NEW p \in Pieces
    PROVE  /\ <<p>> \in Seq(Pieces) /\ Append(body, p) \in Seq(Pieces)
           /\ Append(body, p) = body \o <<p>>
  OBVIOUS

LEMMA TextDeltaKeeps ==
    ASSUME IInv, NEW p \in Pieces, TextDelta(p) PROVE IInv'
  <1>1. phase = "item" /\ Append(items[Current].body, p) \in Seq(Pieces)
    BY CurrentItem, OnePiece DEF TextDelta, Producing
  <1>2. items' \in Seq(Output) /\ items' # <<>>
    BY <1>1, ProducedKeepsItems DEF TextDelta
  <1>3. /\ chat.text \in Seq(Pieces) /\ coll.text = chat.text
        /\ <<p>> \in Seq(Pieces)
    BY OnePiece DEF TypeOK, Chat
  <1>4. chat' \in Chat /\ chat'.text = chat.text \o <<p>>
    BY <1>3, ChatTextType DEF TextDelta
  <1>5. coll' \in Coll /\ coll'.text = Append(chat.text, p)
    <2>1. Append(coll.text, p) \in Seq(Pieces)
      BY <1>3, OnePiece
    <2> QED BY <1>3, <2>1 DEF TextDelta, TypeOK, Coll
  <1>6. chat'.text = coll'.text
    BY <1>3, <1>4, <1>5, OnePiece
  <1> QED BY <1>2, <1>4, <1>5, <1>6 DEF TextDelta, TypeOK

LEMMA TextFinalKeeps ==
    ASSUME IInv, NEW text \in Texts, TextFinal(text) PROVE IInv'
  <1>1. text \in Seq(Pieces) /\ phase = "item"
    BY TextsAreSequences DEF TextFinal, Producing
  <1>2. items' \in Seq(Output) /\ items' # <<>>
    BY <1>1, ProducedKeepsItems DEF TextFinal
  <1>3. chat.text \in Seq(Pieces) /\ coll.text = chat.text
    BY DEF TypeOK, Chat
  <1>4. /\ Suffix(chat.text, text) \in Seq(Pieces)
        /\ Merge(coll.text, text) = chat.text \o Suffix(chat.text, text)
    BY <1>1, <1>3, SuffixCompletes
  <1>5. chat' \in Chat /\ chat'.text = chat.text \o Suffix(chat.text, text)
    BY <1>4, ChatTextType DEF TextFinal
  <1>6. coll' \in Coll /\ coll'.text = chat.text \o Suffix(chat.text, text)
    <2>1. chat.text \o Suffix(chat.text, text) \in Seq(Pieces)
      BY <1>3, <1>4
    <2>2. coll' = [coll EXCEPT !.text = chat.text \o Suffix(chat.text, text)]
      BY <1>4 DEF TextFinal, TypeOK, Coll
    <2> QED BY <2>1, <2>2 DEF TypeOK, Coll
  <1>7. finals' \in 0..2
    BY DEF TextFinal, TypeOK
  <1> QED BY <1>2, <1>5, <1>6, <1>7 DEF TextFinal, TypeOK

\* A picture, partial or whole.
LEMMA ImageKeeps ==
    ASSUME IInv, NEW p \in Pieces,
           ImageDone(p) \/ \E known \in BOOLEAN : PartialImage(p, known)
    PROVE  IInv'
  <1>1. phase = "item" /\ Append(items[Current].body, p) \in Seq(Pieces)
    BY CurrentItem, OnePiece DEF PartialImage, ImageDone, Producing
  <1>2. /\ Produced(Append(items[Current].body, p)) /\ chat' = Show(p)
        /\ coll' = Collected(<<p>>) \/ coll' = coll
    BY DEF PartialImage, ImageDone
  <1>3. items' \in Seq(Output) /\ items' # <<>>
    BY <1>1, <1>2, ProducedKeepsItems
  <1>4. chat' \in Chat /\ chat'.text = chat.text
    BY <1>2, ShowType
  <1>5. coll' \in Coll /\ coll'.text = coll.text
    <2>1. <<p>> \in Seq(Pieces)
      BY OnePiece
    <2> QED BY <1>2, <2>1, CollectedType DEF TypeOK
  <1> QED BY <1>3, <1>4, <1>5 DEF PartialImage, ImageDone, Close, TypeOK

LEMMA CallDoneKeeps ==
    ASSUME IInv, NEW args \in Pieces, CallDone(args) PROVE IInv'
  <1>1. /\ Current \in 1..Len(items) /\ phase = "item"
        /\ Produced(<<args>>) /\ <<args>> \in Seq(Pieces)
    BY CurrentItem DEF CallDone
  <1>2. items' \in Seq(Output) /\ items' # <<>>
    BY <1>1, ProducedKeepsItems
  <1>3. items'[Current] \in Output
    <2>1. Len(items') = Len(items)
      BY <1>1 DEF Produced, TypeOK
    <2> QED BY <1>1, <1>2, <2>1
  <1>4. chat' \in Chat /\ chat'.text = chat.text
    <2>1. Append(WithRole.calls, items'[Current]) \in Seq(Output)
      BY <1>3, WithRoleType DEF Chat
    <2> QED BY <2>1, WithRoleType DEF CallDone, Chat
  <1>5. coll' \in Coll /\ coll'.text = coll.text
    BY <1>1, CollectedType DEF CallDone
  <1> QED BY <1>2, <1>4, <1>5 DEF CallDone, Close, TypeOK

LEMMA MessageDoneKeeps == IInv /\ MessageDone => IInv'
  <1> SUFFICES ASSUME IInv, MessageDone PROVE IInv'
    OBVIOUS
  <1>1. items[Current].body \in Seq(Pieces)
    BY CurrentItem DEF MessageDone, Producing
  <1>2. coll' \in Coll /\ coll'.text = coll.text
    BY <1>1, CollectedType DEF MessageDone, TypeOK
  <1> QED BY <1>2 DEF MessageDone, Close, TypeOK

LEMMA ImageDoneBareKeeps == IInv /\ ImageDoneBare => IInv'
  BY DEF ImageDoneBare, Close, TypeOK

\* What the end of a response brings a chat stream, and what it leaves alone.
FinishingOf(c, status, usage) ==
    /\ c.role = chat.role /\ c.text = chat.text /\ c.shown = chat.shown
    /\ c.calls = chat.calls /\ c.done = chat.done /\ c.end = chat.end /\ c.completed
    /\ c.finish = IF chat.finish = "none" THEN FinishReason(status) ELSE chat.finish
    /\ c.usage = (chat.usage \/ usage)
    /\ options.includeUsage /\ c.usage => c.usages = 1 \/ chat.usages = 1
    /\ chat.usages = 1 => c.usages = 1
    /\ c.unordered = (chat.unordered \/ chat.done)
    /\ c.late => chat.late \/ chat.done

LEMMA FinishingType ==
    ASSUME TypeOK, NEW status \in {"completed", "incomplete"}, NEW usage \in BOOLEAN
    PROVE  Finishing(status, usage) \in Chat /\ FinishingOf(Finishing(status, usage), status, usage)
  <1> DEFINE told == options.includeUsage /\ (usage \/ chat.usage) /\ chat.usages = 0
             finish == IF chat.finish = "none" THEN FinishReason(status) ELSE chat.finish
             used == chat.usage \/ usage
             usages == IF told THEN 1 ELSE chat.usages
             late == chat.late \/ (chat.done /\ (chat.finish = "none" \/ told))
             unordered == chat.unordered \/ chat.done
  <1>1. chat \in Chat
    BY DEF TypeOK
  <1>2. Finishing(status, usage) =
            [chat EXCEPT !.completed = TRUE, !.finish = finish, !.usage = used,
                         !.usages = usages, !.late = late, !.unordered = unordered]
    BY DEF Finishing
  <1>3. finish \in FinishReasons
    BY <1>1, FinishReasonType DEF Chat
  <1>4. /\ used \in BOOLEAN /\ (used => chat.usage \/ usage)
        /\ late \in BOOLEAN /\ unordered \in BOOLEAN
    OBVIOUS
  <1>5. usages \in 0..1 /\ (chat.usages = 1 => usages = 1)
    BY <1>1 DEF Chat
  <1>6. options.includeUsage /\ used => usages = 1 \/ chat.usages = 1
    BY <1>1 DEF Chat
  <1>7. late => chat.late \/ chat.done
    OBVIOUS
  <1> HIDE DEF finish, used, usages, late, unordered
  <1> DEFINE c == Finishing(status, usage)
  <1>8. /\ c.role = chat.role /\ c.text = chat.text /\ c.shown = chat.shown
        /\ c.calls = chat.calls /\ c.done = chat.done /\ c.end = chat.end
    BY <1>1, <1>2 DEF Chat
  <1>9. /\ c.completed /\ c.finish = finish /\ c.usage = used /\ c.usages = usages
        /\ c.unordered = unordered /\ c.late = late
    BY <1>1, <1>2 DEF Chat
  <1>10. c \in Chat
    BY <1>1, <1>2, <1>3, <1>4, <1>5, ZenonT(30) DEF Chat
  <1> QED BY <1>5, <1>6, <1>7, <1>8, <1>9, <1>10 DEF FinishingOf, finish, used, unordered

LEMMA ResponseClosedKeeps ==
    ASSUME IInv, NEW status \in {"completed", "incomplete"}, NEW carried \in BOOLEAN,
           NEW usage \in BOOLEAN, ResponseClosed(status, carried, usage)
    PROVE  IInv'
  <1>1. chat' \in Chat /\ chat'.text = chat.text
    BY FinishingType DEF ResponseClosed, Closed, FinishingOf
  <1>2. coll' \in Coll /\ coll'.text = coll.text
    BY DEF ResponseClosed, Closed, TypeOK, Coll
  <1>3. obs' \in Obs
    BY DEF ResponseClosed, Closed, TypeOK, Obs
  <1> QED BY <1>1, <1>2, <1>3 DEF ResponseClosed, TypeOK

LEMMA ResponseDoneKeeps == IInv /\ ResponseDone => IInv'
  <1> SUFFICES ASSUME IInv, ResponseDone PROVE IInv'
    OBVIOUS
  <1>1. chat' \in Chat /\ chat'.text = chat.text
    BY DEF ResponseDone, TypeOK, Chat
  <1>2. coll' \in Coll /\ coll'.text = coll.text /\ obs' \in Obs
    BY DEF ResponseDone, TypeOK, Coll, Obs
  <1> QED BY <1>1, <1>2 DEF ResponseDone, TypeOK

LEMMA EndUnreadKeeps == IInv /\ EndUnread => IInv'
  BY DEF EndUnread, upstreamVars, TypeOK, Obs

LEMMA UpstreamFailsKeeps ==
    ASSUME IInv, NEW asEnd \in BOOLEAN, UpstreamFails(asEnd) PROVE IInv'
  <1>1. obs' \in Obs
    <2>1. CASE asEnd
      BY <2>1 DEF UpstreamFails, TypeOK, Obs
    <2>2. CASE ~asEnd
      BY <2>2 DEF UpstreamFails, TypeOK, Obs
    <2> QED BY <2>1, <2>2
  <1> QED BY <1>1 DEF UpstreamFails, TypeOK, Chat, Coll, Ends

LEMMA ConnectionBreaksKeeps == IInv /\ ConnectionBreaks => IInv'
  <1> SUFFICES ASSUME IInv, ConnectionBreaks PROVE IInv'
    OBVIOUS
  <1>1. chat' \in Chat /\ chat'.text = chat.text
    BY DEF ConnectionBreaks, TypeOK, Chat, Ends
  <1>2. coll' \in Coll /\ coll'.text = coll.text /\ obs' \in Obs
    BY DEF ConnectionBreaks, TypeOK, Coll, Obs, Ends
  <1> QED BY <1>1, <1>2 DEF ConnectionBreaks, TypeOK

\* What the end of the connection brings a chat stream that was complete.
LEMMA FinishedType ==
    ASSUME TypeOK
    PROVE  /\ Finished \in Chat /\ Finished.text = chat.text /\ Finished.role = chat.role
           /\ Finished.shown = chat.shown /\ Finished.calls = chat.calls
           /\ Finished.usage = chat.usage /\ Finished.unordered = chat.unordered
           /\ Finished.usages \in {1, chat.usages}
           /\ Finished.end = "ok" /\ Finished.done /\ Finished.finish # "none"
           /\ chat.finish # "none" => Finished.finish = chat.finish
           /\ \/ Finished.late = chat.late \/ chat.finish = "none"
              \/ options.includeUsage /\ chat.usage /\ chat.usages = 0
  <1> DEFINE untold == options.includeUsage /\ chat.usage /\ chat.usages = 0
             finish == IF chat.finish = "none" THEN "stop" ELSE chat.finish
             usages == IF untold THEN 1 ELSE chat.usages
             late == chat.late \/ (chat.done /\ (chat.finish = "none" \/ untold))
  <1>1. Finished = [chat EXCEPT !.end = "ok", !.done = TRUE, !.finish = finish,
                                !.usages = usages, !.late = late]
    BY DEF Finished
  <1>2. chat \in Chat
    BY DEF TypeOK
  <1>3. finish \in FinishReasons /\ finish # "none" /\ (chat.finish # "none" => finish = chat.finish)
    BY <1>2 DEF Chat, FinishReasons
  <1>4. usages \in 0..1 /\ usages \in {1, chat.usages} /\ late \in BOOLEAN
    BY <1>2 DEF Chat
  <1>5. (late <=> chat.late) \/ chat.finish = "none" \/ untold
    OBVIOUS
  <1>6. late = chat.late \/ chat.finish = "none" \/ untold
    BY <1>2, <1>4, <1>5 DEF Chat
  <1> HIDE DEF finish, usages, late
  <1>7. /\ Finished \in Chat /\ Finished.text = chat.text /\ Finished.role = chat.role
        /\ Finished.shown = chat.shown /\ Finished.calls = chat.calls
        /\ Finished.usage = chat.usage /\ Finished.unordered = chat.unordered
        /\ Finished.usages = usages /\ Finished.end = "ok" /\ Finished.done
        /\ Finished.finish = finish /\ Finished.late = late
    BY <1>1, <1>2, <1>3, <1>4 DEF Chat, Ends
  <1> QED BY <1>3, <1>4, <1>6, <1>7

LEMMA ConnectionEndsKeeps == IInv /\ ConnectionEnds => IInv'
  <1> SUFFICES ASSUME IInv, ConnectionEnds PROVE IInv'
    OBVIOUS
  <1>1. Finished \in Chat /\ Finished.text = chat.text
    BY FinishedType
  <1>2. chat' \in Chat /\ chat'.text = chat.text
    <2>1. chat' = chat \/ chat' = Finished \/ chat' = [chat EXCEPT !.end = "failed"]
      BY DEF ConnectionEnds
    <2>2. CASE chat' = [chat EXCEPT !.end = "failed"]
      BY <2>2 DEF TypeOK, Chat, Ends
    <2> QED BY <1>1, <2>1, <2>2 DEF TypeOK
  <1>3. coll' \in Coll /\ coll'.text = coll.text
    BY DEF ConnectionEnds, Ended, TypeOK, Coll, Ends
  <1>4. obs' \in Obs
    BY DEF ConnectionEnds, Ended, TypeOK, Obs, Ends
  <1> QED BY <1>2, <1>3, <1>4 DEF ConnectionEnds, TypeOK

LEMMA StepKeeps == IInv /\ [Next]_vars => IInv'
  <1> SUFFICES ASSUME IInv, [Next]_vars PROVE IInv'
    OBVIOUS
  <1>1. ASSUME NEW p \in Pieces,
               \/ TextDelta(p) \/ CallDone(p) \/ ImageDone(p)
               \/ \E known \in BOOLEAN : PartialImage(p, known)
        PROVE  IInv'
    BY <1>1, TextDeltaKeeps, ImageKeeps, CallDoneKeeps
  <1>2. CASE Created \/ \E type \in Types : ItemAdded(type)
    BY <1>2, CreatedKeeps, ItemAddedKeeps
  <1>3. CASE \E text \in Texts : TextFinal(text)
    BY <1>3, TextFinalKeeps
  <1>4. CASE MessageDone \/ ImageDoneBare
    BY <1>4, MessageDoneKeeps, ImageDoneBareKeeps
  <1>5. CASE \E status \in {"completed", "incomplete"}, carried, usage \in BOOLEAN :
                 ResponseClosed(status, carried, usage)
    BY <1>5, ResponseClosedKeeps
  <1>6. CASE \/ ResponseDone \/ EndUnread \/ ConnectionEnds \/ ConnectionBreaks
             \/ \E asEnd \in BOOLEAN : UpstreamFails(asEnd)
    BY <1>6, ResponseDoneKeeps, EndUnreadKeeps, UpstreamFailsKeeps, ConnectionEndsKeeps,
       ConnectionBreaksKeeps
  <1>7. CASE UNCHANGED vars
    BY <1>7 DEF vars, upstreamVars, TypeOK
  <1> QED BY <1>1, <1>2, <1>3, <1>4, <1>5, <1>6, <1>7 DEF Next

\* The state stays within its types: the counts and flags of what a chat client has
\* been sent are never passed, whatever upstream sends.
THEOREM TypeCorrect == Spec => []TypeOK
  <1>1. Spec => []IInv
    BY Initially, StepKeeps, PTL DEF Spec
  <1>2. IInv => TypeOK
    OBVIOUS
  <1> QED BY <1>1, <1>2, PTL

\* A client that streams a chat and one that does not are given the same text, for
\* every stream of every length (streamCodexChatResponses, collectCodexResponseFromSse).
THEOREM SameTextAlways == Spec => []SameText
  <1>1. Spec => []IInv
    BY Initially, StepKeeps, PTL DEF Spec
  <1>2. IInv => SameText
    OBVIOUS
  <1> QED BY <1>1, <1>2, PTL
-----------------------------------------------------------------------------
(* How the three readers end *)

Reading == phase \notin {"failed", "over"}
Building == phase \in {"silent", "open", "item"}

\* As long as nothing has failed the two clients agree on whether the response is
\* complete, and none has ended.  What the observer knows besides is an end it did
\* not read; an error has reached it unless that was such an end.
Together ==
    /\ Reading => /\ chat.end = "open" /\ coll.end = "open" /\ ~obs.error
                  /\ chat.completed = coll.completed
                  /\ coll.completed => obs.completed
                  /\ obs.completed => coll.completed \/ obs.missed
    /\ phase = "failed" => /\ chat.end = "failed" /\ coll.end = "failed"
                           /\ obs.error \/ obs.missed
    /\ SameVerdict

\* What a chat stream has been sent, against what upstream has said.
InOrder ==
    /\ ChatStreamIsWellFormed
    /\ UpstreamClosed => chat.finish # "none"
    /\ Building => chat.finish = "none"
    /\ phase # "over" /\ ~UpstreamClosed => chat.finish = "none"
    /\ options.includeUsage /\ chat.usage => chat.usages = 1
    /\ phase # "over" => (chat.late => chat.unordered)

EndInv == Together /\ InOrder

\* A step that brings content, which the chat stream passes on after its role.
Content ==
    /\ Building /\ Building' /\ UNCHANGED <<options, obs>>
    /\ chat'.role \/ UNCHANGED chat
    /\ chat'.end = chat.end /\ chat'.completed = chat.completed
    /\ chat'.finish = chat.finish /\ chat'.done = chat.done /\ chat'.late = chat.late
    /\ chat'.unordered = chat.unordered
    /\ chat'.usage = chat.usage /\ chat'.usages = chat.usages
    /\ coll'.end = coll.end /\ coll'.completed = coll.completed
    /\ coll'.status \in {coll.status, "in_progress"}

LEMMA EndsInitially == Init => EndInv
  BY DEF Init, EndInv, Together, InOrder, Reading, Building, UpstreamClosed, SameVerdict,
         ChatStreamIsWellFormed

LEMMA ContentKeeps == EndInv /\ Content => EndInv'
  <1> SUFFICES ASSUME EndInv, Content PROVE EndInv'
    OBVIOUS
  <1>1. Reading /\ Reading' /\ phase # "over" /\ phase' # "over"
    BY DEF Content, Building, Reading
  <1>2. Together'
    BY <1>1 DEF EndInv, Together, Content, Reading, SameVerdict
  <1>3. UpstreamClosed' => UpstreamClosed
    BY DEF Content, UpstreamClosed
  <1>4. chat.finish = "none" /\ chat'.finish = "none"
    BY DEF EndInv, InOrder, Content
  <1>5. chat'.late => chat'.unordered
    BY <1>1 DEF EndInv, InOrder, Content
  <1>6. ChatStreamIsWellFormed'
    BY <1>5 DEF EndInv, InOrder, Content, ChatStreamIsWellFormed
  <1> QED BY <1>2, <1>3, <1>4, <1>5, <1>6 DEF EndInv, InOrder, Content

\* The fields of a chat stream that content leaves alone.
ContentOnly(c) ==
    /\ c.role
    /\ c.end = chat.end /\ c.completed = chat.completed
    /\ c.finish = chat.finish /\ c.done = chat.done /\ c.late = chat.late
    /\ c.unordered = chat.unordered
    /\ c.usage = chat.usage /\ c.usages = chat.usages

LEMMA WithRoleIsContent == TypeOK => ContentOnly(WithRole)
  BY DEF TypeOK, WithRole, Chat, ContentOnly

LEMMA ChatTextIsContent ==
    ASSUME TypeOK, NEW text \in Seq(Pieces)
    PROVE  ContentOnly(ChatText(text))
  <1>1. WithRole \in Chat /\ ContentOnly(WithRole)
    BY WithRoleType, WithRoleIsContent
  <1>2. ChatText(text) = WithRole
            \/ ChatText(text) = [WithRole EXCEPT !.text = WithRole.text \o text]
    BY <1>1 DEF ChatText, Chat
  <1> QED BY <1>1, <1>2 DEF Chat, ContentOnly

LEMMA ShowIsContent ==
    ASSUME TypeOK, NEW p \in Pieces
    PROVE  ContentOnly(Show(p))
  <1>1. WithRole \in Chat /\ ContentOnly(WithRole)
    BY WithRoleType, WithRoleIsContent
  <1>2. Show(p) = [WithRole EXCEPT !.shown = WithRole.shown \cup {p}]
    BY <1>1 DEF Show, Chat
  <1> QED BY <1>1, <1>2 DEF Chat, ContentOnly

\* What is collected of an item says nothing of the end of the response.
LEMMA CollectedIsContent ==
    ASSUME TypeOK, NEW body
    PROVE  /\ Collected(body).end = coll.end
           /\ Collected(body).completed = coll.completed
           /\ Collected(body).status = coll.status
  <1>1. coll \in Coll
    BY DEF TypeOK
  <1>2. Collected(body) =
            [coll EXCEPT !.output = [coll.output EXCEPT ![Current].body = body]]
    BY <1>1 DEF Collected, Coll
  <1> QED BY <1>1, <1>2 DEF Coll

LEMMA TextIsContent ==
    ASSUME IInv, \/ \E p \in Pieces : TextDelta(p)
                 \/ \E text \in Texts : TextFinal(text)
    PROVE  Content
  <1>1. ASSUME NEW p \in Pieces, TextDelta(p)
        PROVE  Content
    <2>1. ContentOnly(chat')
      <3>1. <<p>> \in Seq(Pieces)
        OBVIOUS
      <3> QED BY <1>1, <3>1, ChatTextIsContent DEF TextDelta
    <2>2. coll'.end = coll.end /\ coll'.completed = coll.completed /\ coll'.status = coll.status
      BY <1>1 DEF TextDelta, TypeOK, Coll
    <2>3. Building /\ Building' /\ UNCHANGED <<options, obs>>
      BY <1>1 DEF TextDelta, Producing, Building
    <2> QED BY <2>1, <2>2, <2>3 DEF Content, ContentOnly
  <1>2. ASSUME NEW text \in Texts, TextFinal(text)
        PROVE  Content
    <2>1. Suffix(chat.text, text) \in Seq(Pieces)
      BY TextsAreSequences, SuffixCompletes DEF TypeOK, Chat
    <2>2. ContentOnly(chat')
      BY <1>2, <2>1, ChatTextIsContent DEF TextFinal
    <2>3. coll'.end = coll.end /\ coll'.completed = coll.completed /\ coll'.status = coll.status
      BY <1>2 DEF TextFinal, TypeOK, Coll
    <2>4. Building /\ Building' /\ UNCHANGED <<options, obs>>
      BY <1>2 DEF TextFinal, Producing, Building
    <2> QED BY <2>2, <2>3, <2>4 DEF Content, ContentOnly
  <1> QED BY <1>1, <1>2

LEMMA ItemIsContent ==
    ASSUME IInv, \/ Created \/ MessageDone \/ ImageDoneBare
                 \/ \E type \in Types : ItemAdded(type)
                 \/ \E p \in Pieces : CallDone(p) \/ ImageDone(p)
                 \/ \E p \in Pieces, known \in BOOLEAN : PartialImage(p, known)
    PROVE  Content
  <1>1. CASE Created
    <2>1. ContentOnly(chat')
      BY <1>1, WithRoleIsContent DEF Created
    <2> QED BY <1>1, <2>1 DEF Created, Content, ContentOnly, Building, TypeOK, Coll
  <1>2. CASE MessageDone
    <2>1. coll'.end = coll.end /\ coll'.completed = coll.completed /\ coll'.status = coll.status
      BY <1>2, CollectedIsContent DEF MessageDone
    <2> QED BY <1>2, <2>1 DEF MessageDone, Producing, Close, Content, Building
  <1>3. CASE ImageDoneBare
    BY <1>3 DEF ImageDoneBare, Producing, Close, Content, Building
  <1>4. ASSUME NEW type \in Types, ItemAdded(type)
        PROVE  Content
    <2>1. coll'.end = coll.end /\ coll'.completed = coll.completed /\ coll'.status = coll.status
      BY <1>4 DEF ItemAdded, TypeOK, Coll
    <2> QED BY <1>4, <2>1 DEF ItemAdded, Content, Building
  <1>5. ASSUME NEW p \in Pieces,
               ImageDone(p) \/ \E known \in BOOLEAN : PartialImage(p, known)
        PROVE  Content
    <2>1. chat' = Show(p) /\ (coll' = Collected(<<p>>) \/ coll' = coll)
      BY <1>5 DEF PartialImage, ImageDone
    <2>2. Building /\ Building' /\ UNCHANGED <<options, obs>>
      BY <1>5 DEF PartialImage, ImageDone, Producing, Close, Building
    <2> QED BY <2>1, <2>2, ShowIsContent, CollectedIsContent DEF Content, ContentOnly
  <1>6. ASSUME NEW args \in Pieces, CallDone(args)
        PROVE  Content
    <2>1. coll' = Collected(<<args>>)
      BY <1>6 DEF CallDone
    <2>2. ContentOnly(chat')
      <3>1. WithRole \in Chat /\ ContentOnly(WithRole)
        BY WithRoleType, WithRoleIsContent
      <3>2. chat' = [WithRole EXCEPT !.calls = Append(WithRole.calls, items'[Current])]
        BY <1>6, <3>1 DEF CallDone, Chat
      <3> QED BY <3>1, <3>2 DEF Chat, ContentOnly
    <2>3. Building /\ Building' /\ UNCHANGED <<options, obs>>
      BY <1>6 DEF CallDone, Close, Building
    <2> QED BY <2>1, <2>2, <2>3, CollectedIsContent DEF Content, ContentOnly
  <1> QED BY <1>1, <1>2, <1>3, <1>4, <1>5, <1>6

\* The end upstream gives a response brings its one finish reason and its usage.
LEMMA ResponseClosedEnds ==
    ASSUME IInv, EndInv, NEW status \in {"completed", "incomplete"}, NEW carried \in BOOLEAN,
           NEW usage \in BOOLEAN, ResponseClosed(status, carried, usage)
    PROVE  EndInv'
  <1>1. FinishReason(status) # "none"
    BY DEF FinishReason, CallReason
  <1>2. FinishingOf(chat', status, usage)
    BY FinishingType DEF ResponseClosed, Closed
  <1>3. /\ chat'.completed /\ chat'.finish # "none" /\ chat'.end = chat.end
        /\ chat'.role = chat.role /\ chat'.text = chat.text
        /\ chat'.shown = chat.shown /\ chat'.calls = chat.calls
    BY <1>1, <1>2 DEF FinishingOf
  <1>4. coll'.completed /\ coll'.end = coll.end /\ coll'.status = status
    BY DEF ResponseClosed, Closed, TypeOK, Coll
  <1>5. obs'.completed /\ obs'.error = obs.error
    BY DEF ResponseClosed, Closed, TypeOK, Obs
  <1>6. phase' = "ended" /\ Reading /\ phase # "over" /\ UNCHANGED options
    BY DEF ResponseClosed, Reading
  <1>7. Together'
    BY <1>3, <1>4, <1>5, <1>6 DEF EndInv, Together, Reading, SameVerdict
  <1>8. chat.end = "open" /\ (chat'.late => chat'.unordered)
    BY <1>2, <1>6 DEF EndInv, InOrder, Together, FinishingOf
  <1>9. options'.includeUsage /\ chat'.usage => chat'.usages = 1
    BY <1>2, <1>6 DEF FinishingOf
  <1>10. ChatStreamIsWellFormed'
    BY <1>3, <1>6, <1>8 DEF EndInv, InOrder, ChatStreamIsWellFormed
  <1>11. UpstreamClosed' /\ ~Building'
    BY <1>4, <1>6 DEF UpstreamClosed, Building
  <1> QED BY <1>3, <1>6, <1>7, <1>8, <1>9, <1>10, <1>11 DEF EndInv, InOrder

LEMMA ResponseDoneEnds == IInv /\ EndInv /\ ResponseDone => EndInv'
  <1> SUFFICES ASSUME IInv, EndInv, ResponseDone PROVE EndInv'
    OBVIOUS
  <1>1. /\ chat'.completed /\ chat'.finish = chat.finish /\ chat'.usage = chat.usage
        /\ chat'.usages = chat.usages /\ chat'.end = chat.end
        /\ chat'.late = chat.late /\ chat'.unordered = chat.unordered
        /\ chat'.role = chat.role /\ chat'.text = chat.text
        /\ chat'.shown = chat.shown /\ chat'.calls = chat.calls
    BY DEF ResponseDone, TypeOK, Chat
  <1>2. coll'.completed /\ coll'.end = coll.end /\ coll'.status = coll.status
    BY DEF ResponseDone, TypeOK, Coll
  <1>3. obs'.completed /\ obs'.error = obs.error
    BY DEF ResponseDone, TypeOK, Obs
  <1>4. phase' = "ended" /\ Reading /\ phase # "over" /\ UNCHANGED options
    BY DEF ResponseDone, Reading
  <1>5. Together'
    BY <1>1, <1>2, <1>3, <1>4 DEF EndInv, Together, Reading, SameVerdict
  <1>6. chat.end = "open" /\ (chat'.late => chat'.unordered)
    BY <1>1, <1>4 DEF EndInv, InOrder, Together
  <1>7. ChatStreamIsWellFormed'
    BY <1>1, <1>4, <1>6 DEF EndInv, InOrder, ChatStreamIsWellFormed
  <1> QED BY <1>1, <1>2, <1>4, <1>5, <1>6, <1>7
          DEF EndInv, InOrder, UpstreamClosed, Building

\* An end nobody but the observer has seen.
LEMMA EndUnreadEnds == IInv /\ EndInv /\ EndUnread => EndInv'
  <1> SUFFICES ASSUME IInv, EndInv, EndUnread PROVE EndInv'
    OBVIOUS
  <1>1. UNCHANGED <<phase, options, chat, coll>> /\ Reading
    BY DEF EndUnread, upstreamVars, Reading
  <1>2. obs'.completed /\ obs'.missed /\ obs'.error = obs.error
    BY DEF EndUnread, TypeOK, Obs
  <1>3. Together'
    BY <1>1, <1>2 DEF EndInv, Together, Reading, SameVerdict
  <1> QED BY <1>1, <1>3
          DEF EndInv, InOrder, UpstreamClosed, Building, ChatStreamIsWellFormed

\* Each way to fail reaches the two clients alike.
LEMMA FailureEnds ==
    ASSUME IInv, EndInv,
           ConnectionBreaks \/ \E asEnd \in BOOLEAN : UpstreamFails(asEnd)
    PROVE  EndInv'
  <1>1. /\ chat'.end = "failed" /\ chat'.finish = chat.finish /\ chat'.usage = chat.usage
        /\ chat'.usages = chat.usages
        /\ chat'.late = chat.late /\ chat'.unordered = chat.unordered
        /\ chat'.role = chat.role /\ chat'.text = chat.text
        /\ chat'.shown = chat.shown /\ chat'.calls = chat.calls
    BY DEF UpstreamFails, ConnectionBreaks, TypeOK, Chat
  <1>2. coll'.end = "failed" /\ coll'.status = coll.status
    BY DEF UpstreamFails, ConnectionBreaks, TypeOK, Coll
  <1>3. \/ phase' = "failed" /\ (obs'.error \/ obs'.missed)
        \/ phase' = "over" /\ obs'.end = "failed"
    BY DEF UpstreamFails, ConnectionBreaks, TypeOK, Obs
  <1>4. phase # "over" /\ UNCHANGED options
    BY DEF UpstreamFails, ConnectionBreaks
  <1>5. Together'
    BY <1>1, <1>2, <1>3 DEF Together, Reading, SameVerdict
  <1>6. chat'.late => chat'.unordered
    BY <1>1, <1>4 DEF EndInv, InOrder
  <1>7. ChatStreamIsWellFormed'
    BY <1>1, <1>4, <1>6 DEF EndInv, InOrder, ChatStreamIsWellFormed
  <1> QED BY <1>1, <1>2, <1>3, <1>4, <1>5, <1>6, <1>7
          DEF EndInv, InOrder, UpstreamClosed, Building

\* The end of the connection: each reader goes by whether it has seen the response
\* complete, and the chat reader sends what is missing.
LEMMA ConnectionEndsAll == IInv /\ EndInv /\ ConnectionEnds => EndInv'
  <1> SUFFICES ASSUME IInv, EndInv, ConnectionEnds PROVE EndInv'
    OBVIOUS
  <1>1. /\ chat'.usage = chat.usage /\ chat'.unordered = chat.unordered
        /\ chat'.usages \in {1, chat.usages}
        /\ chat'.role = chat.role /\ chat'.text = chat.text
        /\ chat'.shown = chat.shown /\ chat'.calls = chat.calls
    BY FinishedType DEF ConnectionEnds, TypeOK, Chat
  <1>2. \/ chat.end # "open" /\ chat' = chat
        \/ /\ chat.end = "open" /\ chat.completed /\ chat'.end = "ok" /\ chat'.done
           /\ chat'.finish # "none"
           /\ \/ chat'.late = chat.late \/ chat.finish = "none"
              \/ options.includeUsage /\ chat.usage /\ chat.usages = 0
        \/ /\ chat.end = "open" /\ ~chat.completed /\ chat'.end = "failed"
           /\ chat'.finish = chat.finish /\ chat'.late = chat.late
    BY FinishedType DEF ConnectionEnds, TypeOK, Chat
  <1>3. /\ coll'.status = coll.status
        /\ coll'.end = IF coll.end = "open" THEN Ended(coll.completed) ELSE coll.end
    BY DEF ConnectionEnds, TypeOK, Coll
  <1>4. obs'.end = Ended(~obs.error /\ obs.completed) /\ obs'.missed = obs.missed
    BY DEF ConnectionEnds, TypeOK, Obs
  <1>5. phase # "over" /\ phase' = "over" /\ UNCHANGED options
    BY DEF ConnectionEnds
  <1>6. /\ chat'.end = coll'.end
        /\ obs'.end = "failed" => coll'.end = "failed"
        /\ obs'.end = "ok" /\ coll'.end = "failed" => obs'.missed
    <2>1. CASE phase = "failed"
      BY <1>2, <1>3, <1>4, <2>1 DEF EndInv, Together, Ended
    <2>2. CASE Reading
      BY <1>2, <1>3, <1>4, <2>2 DEF EndInv, Together, Ended
    <2> QED BY <1>5, <2>1, <2>2 DEF Reading
  <1>7. Together'
    BY <1>5, <1>6 DEF Together, Reading, SameVerdict
  <1>8. (chat.late => chat.unordered) /\ (options.includeUsage /\ chat.usage => chat.usages = 1)
    BY <1>5 DEF EndInv, InOrder
  <1>9. /\ chat'.late => chat'.unordered \/ ~UpstreamClosed
        /\ UpstreamClosed => chat'.finish # "none"
    BY <1>1, <1>2, <1>8 DEF EndInv, InOrder
  <1>10. chat'.end = "ok" => chat'.done /\ chat'.finish # "none"
    BY <1>2 DEF EndInv, InOrder, ChatStreamIsWellFormed
  <1>11. options'.includeUsage /\ chat'.usage => chat'.usages = 1
    BY <1>1, <1>5, <1>8
  <1>12. ChatStreamIsWellFormed'
    BY <1>1, <1>3, <1>5, <1>9, <1>10, <1>11
       DEF EndInv, InOrder, ChatStreamIsWellFormed, UpstreamClosed
  <1> QED BY <1>3, <1>5, <1>7, <1>9, <1>11, <1>12
          DEF EndInv, InOrder, UpstreamClosed, Building

LEMMA EndsStay == EndInv /\ UNCHANGED vars => EndInv'
  BY DEF vars, upstreamVars, EndInv, Together, InOrder, Reading, Building, UpstreamClosed,
         SameVerdict, ChatStreamIsWellFormed

LEMMA EndsKept == IInv /\ EndInv /\ [Next]_vars => EndInv'
  <1> SUFFICES ASSUME IInv, EndInv, [Next]_vars PROVE EndInv'
    OBVIOUS
  <1>1. ASSUME NEW p \in Pieces,
               \/ TextDelta(p) \/ CallDone(p) \/ ImageDone(p)
               \/ \E known \in BOOLEAN : PartialImage(p, known)
        PROVE  EndInv'
    BY <1>1, TextIsContent, ItemIsContent, ContentKeeps
  <1>2. CASE \/ Created \/ MessageDone \/ ImageDoneBare
             \/ \E type \in Types : ItemAdded(type)
             \/ \E text \in Texts : TextFinal(text)
    BY <1>2, TextIsContent, ItemIsContent, ContentKeeps
  <1>3. CASE \E status \in {"completed", "incomplete"}, carried, usage \in BOOLEAN :
                 ResponseClosed(status, carried, usage)
    BY <1>3, ResponseClosedEnds
  <1>4. CASE \/ ResponseDone \/ EndUnread \/ ConnectionEnds \/ ConnectionBreaks
             \/ \E asEnd \in BOOLEAN : UpstreamFails(asEnd)
    BY <1>4, ResponseDoneEnds, EndUnreadEnds, FailureEnds, ConnectionEndsAll
  <1> QED BY <1>1, <1>2, <1>3, <1>4, EndsStay DEF Next

LEMMA EndsAlways == Spec => []EndInv
  <1>1. Spec => []IInv
    BY Initially, StepKeeps, PTL DEF Spec
  <1> QED BY <1>1, EndsInitially, EndsKept, PTL DEF Spec

\* A client that streams and one that does not are told the same of every response:
\* that it ended well, or that it failed.  Of a stream that is only watched the same is
\* recorded, unless its end was one that the observer did not read.
THEOREM SameVerdictAlways == Spec => []SameVerdict
  <1>1. EndInv => SameVerdict
    BY DEF EndInv, Together
  <1> QED BY <1>1, EndsAlways, PTL

\* Every chat stream has its role first, and one that ends well its finish reason,
\* its [DONE] and the usage that was asked for, of any number of items and deltas;
\* [DONE] is the last unless upstream sent it before its end, or sent no end.
THEOREM ChatStreamAlwaysWellFormed == Spec => []ChatStreamIsWellFormed
  <1>1. EndInv => ChatStreamIsWellFormed
    BY DEF EndInv, InOrder
  <1> QED BY <1>1, EndsAlways, PTL
-----------------------------------------------------------------------------
(***************************************************************************)
(* What is chosen of a list of items.  The recursive function of Chosen is *)
(* met by a witness, and an induction is a least counterexample.           *)
(***************************************************************************)

\* upTo is what is at the given places, up to each place.
Selects(upTo, output, places) ==
    upTo = [n \in 0..Len(output) |->
               CASE n = 0 -> <<>>
                 [] n \in places /\ n # 0 -> Append(upTo[n - 1], output[n])
                 [] OTHER -> upTo[n - 1]]
Taken(before, item, taken) == IF taken THEN Append(before, item) ELSE before
Selected(upTo, output, places) ==
    /\ upTo = [n \in 0..Len(output) |-> upTo[n]]
    /\ upTo[0] = <<>>
    /\ \A n \in 1..Len(output) : upTo[n] = Taken(upTo[n - 1], output[n], n \in places)
IsChosen(list, output, places) ==
    \E upTo : Selected(upTo, output, places) /\ list = upTo[Len(output)]
Selection(output, places) == CHOOSE upTo : Selects(upTo, output, places)

\* Chosen is the last value of its recursive function.
LEMMA ChosenIsSelection ==
    ASSUME NEW output, NEW places
    PROVE  Chosen(output, places) = Selection(output, places)[Len(output)]
  BY DEF Chosen, Selection, Selects

\* What meets the equation at every place meets it as a function, and conversely.
LEMMA SelectsPlaceByPlace ==
    ASSUME NEW output, Len(output) \in Nat, NEW places, NEW upTo
    PROVE  Selects(upTo, output, places) <=> Selected(upTo, output, places)
  <1> DEFINE next(n) == CASE n = 0 -> <<>>
                          [] n \in places /\ n # 0 -> Append(upTo[n - 1], output[n])
                          [] OTHER -> upTo[n - 1]
  <1>1. next(0) = <<>>
    OBVIOUS
  <1>2. ASSUME NEW n \in 1..Len(output)
        PROVE  next(n) = Taken(upTo[n - 1], output[n], n \in places)
    BY DEF Taken
  <1>3. \A n \in 0..Len(output) : n = 0 \/ n \in 1..Len(output)
    OBVIOUS
  <1>4. 0 \in 0..Len(output) /\ \A n \in 1..Len(output) : n \in 0..Len(output)
    OBVIOUS
  <1>5. Selects(upTo, output, places) <=> upTo = [n \in 0..Len(output) |-> next(n)]
    BY DEF Selects
  <1> HIDE DEF next
  <1>6. ASSUME upTo = [n \in 0..Len(output) |-> next(n)]
        PROVE  Selected(upTo, output, places)
    <2>1. upTo = [n \in 0..Len(output) |-> upTo[n]]
      BY <1>6
    <2>2. \A n \in 0..Len(output) : upTo[n] = next(n)
      BY <1>6
    <2> QED BY <1>1, <1>2, <1>4, <2>1, <2>2 DEF Selected
  <1>7. ASSUME Selected(upTo, output, places)
        PROVE  upTo = [n \in 0..Len(output) |-> next(n)]
    <2>1. \A n \in 0..Len(output) : upTo[n] = next(n)
      BY <1>1, <1>2, <1>3, <1>7 DEF Selected
    <2> QED BY <1>7, <2>1 DEF Selected
  <1> QED BY <1>5, <1>6, <1>7

\* Two selections of the same items are the same, by the least place they differ at.
LEMMA SelectedUnique ==
    ASSUME NEW output, Len(output) \in Nat, NEW places, NEW f, NEW g,
           Selected(f, output, places), Selected(g, output, places)
    PROVE  f[Len(output)] = g[Len(output)]
  <1> DEFINE D == {n \in 0..Len(output) : f[n] # g[n]}
  <1>1. ASSUME D # {} PROVE FALSE
    <2>1. D \subseteq Nat
      OBVIOUS
    <2>2. PICK n \in D : \A m \in D : ~ (<<m, n>> \in OpToRel(<, Nat))
      BY <1>1, <2>1, NatLessThanWellFounded, WFMin, Zenon
    <2>3. n \in 0..Len(output) /\ f[n] # g[n]
      OBVIOUS
    <2>4. n # 0
      BY <2>3 DEF Selected
    <2>5. n \in 1..Len(output) /\ n - 1 \in 0..Len(output) /\ n - 1 < n
      BY <2>3, <2>4
    <2>6. n - 1 \notin D
      <3>1. <<n - 1, n>> \in OpToRel(<, Nat)
        BY <2>5 DEF OpToRel
      <3> QED BY <2>2, <3>1
    <2>7. f[n - 1] = g[n - 1]
      BY <2>5, <2>6
    <2> QED BY <2>3, <2>5, <2>7 DEF Selected
  <1> QED BY <1>1

\* What has a selection for a witness is what is chosen.
LEMMA ChosenIs ==
    ASSUME NEW output, Len(output) \in Nat, NEW places, NEW list,
           IsChosen(list, output, places)
    PROVE  list = Chosen(output, places)
  <1>1. PICK f : Selected(f, output, places) /\ list = f[Len(output)]
    BY DEF IsChosen
  <1>2. Selects(f, output, places)
    BY <1>1, SelectsPlaceByPlace
  <1>3. Selects(Selection(output, places), output, places)
    BY <1>2, Zenon DEF Selection
  <1>4. Selected(Selection(output, places), output, places)
    BY <1>3, SelectsPlaceByPlace
  <1> QED BY <1>1, <1>4, SelectedUnique, ChosenIsSelection

\* Of nothing, nothing is chosen.
LEMMA NothingIsChosen ==
    ASSUME NEW places
    PROVE  IsChosen(<<>>, <<>>, places)
  <1> DEFINE f == [n \in 0..0 |-> <<>>]
  <1>1. Len(<<>>) = 0 /\ f[0] = <<>> /\ f = [n \in 0..0 |-> f[n]]
    OBVIOUS
  <1> HIDE DEF f
  <1>2. Selected(f, <<>>, places)
    BY <1>1 DEF Selected
  <1> QED BY <1>1, <1>2 DEF IsChosen

\* Only the items at the places matter.
LEMMA ChosenAgrees ==
    ASSUME NEW output, NEW other, Len(other) = Len(output), NEW places, NEW list,
           IsChosen(list, output, places),
           \A n \in 1..Len(output) : n \in places => other[n] = output[n]
    PROVE  IsChosen(list, other, places)
  <1>1. PICK f : Selected(f, output, places) /\ list = f[Len(output)]
    BY DEF IsChosen
  <1>2. Selected(f, other, places)
    BY <1>1 DEF Selected, Taken
  <1> QED BY <1>1, <1>2 DEF IsChosen

\* An item at a place that is not given does not matter.
LEMMA ChosenSkips ==
    ASSUME NEW S, NEW output \in Seq(S), NEW item \in S, NEW places, NEW list,
           Len(output) + 1 \notin places, IsChosen(list, output, places)
    PROVE  IsChosen(list, Append(output, item), places)
  <1> DEFINE N == Len(output)
             longer == Append(output, item)
  <1>1. PICK f : Selected(f, output, places) /\ list = f[N]
    BY DEF IsChosen
  <1> DEFINE g == [n \in 0..(N + 1) |-> IF n = N + 1 THEN f[N] ELSE f[n]]
  <1>2. N \in Nat /\ Len(longer) = N + 1 /\ \A n \in 1..N : longer[n] = output[n]
    OBVIOUS
  <1>3. g[0] = f[0] /\ g = [n \in 0..(N + 1) |-> g[n]] /\ g[N + 1] = f[N] /\ g[N] = f[N]
    BY <1>2
  <1>4. ASSUME NEW n \in 1..N
        PROVE  g[n] = f[n] /\ g[n - 1] = f[n - 1]
    BY <1>2
  <1>5. N + 1 - 1 = N /\ \A n \in 1..(N + 1) : n = N + 1 \/ n \in 1..N
    BY <1>2
  <1> HIDE DEF g, longer, N
  <1>6. ASSUME NEW n \in 1..(N + 1)
        PROVE  g[n] = Taken(g[n - 1], longer[n], n \in places)
    <2>1. CASE n = N + 1
      BY <1>3, <1>5, <2>1 DEF Taken, N
    <2>2. CASE n \in 1..N
      BY <1>1, <1>2, <1>4, <2>2 DEF Selected, N
    <2> QED BY <1>5, <2>1, <2>2
  <1>7. Selected(g, longer, places)
    BY <1>1, <1>2, <1>3, <1>6 DEF Selected
  <1> QED BY <1>1, <1>2, <1>3, <1>7 DEF IsChosen, longer

\* The last item, once its place is given, is added to what was chosen.
LEMMA ChosenAdds ==
    ASSUME NEW S, NEW output \in Seq(S), output # <<>>, NEW other, NEW places, NEW list,
           Len(other) = Len(output), Len(output) \notin places,
           \A n \in 1..Len(output) : n # Len(output) => other[n] = output[n],
           IsChosen(list, output, places)
    PROVE  IsChosen(Append(list, other[Len(output)]), other, places \cup {Len(output)})
  <1> DEFINE N == Len(output)
             more == places \cup {N}
  <1>1. PICK f : Selected(f, output, places) /\ list = f[N]
    BY DEF IsChosen
  <1> DEFINE last == Append(list, other[N])
             g == [n \in 0..N |-> IF n = N THEN last ELSE f[n]]
  <1>2. N \in Nat /\ N # 0 /\ N \in 1..N
    <2>1. N \in Nat /\ N # 0
      BY EmptySeq, LenProperties
    <2> QED BY <2>1
  <1>3. f[N] = f[N - 1]
    BY <1>1, <1>2 DEF Selected, Taken
  <1>4. g[0] = f[0] /\ g = [n \in 0..N |-> g[n]] /\ g[N] = last /\ g[N - 1] = f[N - 1]
    BY <1>2
  <1>5. ASSUME NEW n \in 1..N, n # N
        PROVE  g[n] = f[n] /\ g[n - 1] = f[n - 1]
    BY <1>2, <1>5
  <1> HIDE DEF g
  <1>6. ASSUME NEW n \in 1..N
        PROVE  g[n] = Taken(g[n - 1], other[n], n \in more)
    <2>1. CASE n = N
      BY <1>1, <1>3, <1>4, <2>1 DEF Taken
    <2>2. CASE n # N
      <3>1. (n \in more) <=> (n \in places)
        BY <2>2
      <3>2. f[n] = Taken(f[n - 1], output[n], n \in places) /\ other[n] = output[n]
        BY <1>1, <2>2 DEF Selected
      <3> QED BY <1>5, <2>2, <3>1, <3>2 DEF Taken
    <2> QED BY <2>1, <2>2
  <1> HIDE DEF more, last
  <1>7. Selected(g, other, more)
    BY <1>1, <1>4, <1>6 DEF Selected
  <1> QED BY <1>4, <1>7 DEF IsChosen, last, more
-----------------------------------------------------------------------------
(***************************************************************************)
(* What a client has of a response that is being produced, and what has    *)
(* been collected of it.                                                   *)
(***************************************************************************)

Open(i) == phase = "item" /\ i = Current
Messages == Places(items, {"message"})
CallsSent == {i \in Places(items, Calls) : ~Open(i)}

\* A stream with one message at most has sent just that.
TextFits ==
    /\ Messages = {} => chat.text = <<>>
    /\ AtMostOne(Messages) => \A i \in Messages : chat.text = items[i].body
    /\ \A i \in Messages : ~Open(i) => items[i].body # <<>>

\* The calls that are done have been sent, in order.
CallsFit ==
    /\ CallsSent = {} <=> chat.calls = <<>>
    /\ AtMostOne(CallsSent) => \A i \in CallsSent : chat.calls = <<items[i]>>
    /\ IsChosen(chat.calls, items, CallsSent)

IsImage(item) == item.type = "image_generation_call"
Shown(shown, item) == IsImage(item) /\ item.body # <<>> => Last(item.body) \in shown
PicturesFit == \A i \in DOMAIN items : Shown(chat.shown, items[i])

\* What has been collected is what is done, but of a picture the latest part.
OutputFits ==
    IF terse THEN coll.output = <<>> /\ \A i \in DOMAIN items : items[i].type = "message"
    ELSE /\ DOMAIN coll.output = DOMAIN items
         /\ \A i \in DOMAIN items :
                /\ coll.output[i].type = items[i].type
                /\ Shown(chat.shown, coll.output[i])
                /\ ~IsImage(items[i]) /\ ~Open(i) => coll.output[i] = items[i]

Sent == TextFits /\ CallsFit /\ PicturesFit
Fits == Sent /\ OutputFits

\* The output of a closed response: nothing, and then there were only texts, or
\* what was produced, but of a picture the latest part.
Whole(output) ==
    \/ output = <<>> /\ Places(items, Calls) = {}
    \/ /\ output # <<>> /\ DOMAIN output = DOMAIN items /\ Len(output) = Len(items)
       /\ \A i \in DOMAIN items :
              /\ output[i].type = items[i].type
              /\ Shown(chat.shown, output[i])
              /\ ~IsImage(items[i]) => output[i] = items[i]

\* ChatStreamIsTheAnswer, from the moment the response is closed.
Agree ==
    /\ AtMostOne(Messages)
    /\ options.legacy => AtMostOne(Places(items, Calls))
    => /\ chat.text = AnswerText
       /\ chat.calls = AnswerCalls
       /\ chat.finish = AnswerFinish
       /\ AnswerPictures \subseteq chat.shown

\* Until it is closed a response fits; from then on it is whole, and once it has its
\* status the clients agree.
AnswerInv ==
    /\ Building => Fits /\ coll.status \in {"none", "in_progress"}
    /\ phase = "ended" /\ coll.status # "incomplete" =>
           Sent /\ Whole(coll.output) /\ Whole(items)
    /\ coll.status = "completed" => chat.finish = FinishReason("completed") /\ Agree

-----------------------------------------------------------------------------
(* Items, one added or the last one with another body *)

\* An item that is added takes a place among those of its type.
LEMMA PlacesAppended ==
    ASSUME NEW s \in Seq(Output), NEW item \in Output, NEW types
    PROVE  Places(Append(s, item), types) =
               Places(s, types) \cup {n \in {Len(s) + 1} : item.type \in types}
  <1> DEFINE t == Append(s, item)
  <1>1. DOMAIN t = DOMAIN s \cup {Len(s) + 1} /\ Len(s) + 1 \notin DOMAIN s
    OBVIOUS
  <1>2. t[Len(s) + 1] = item /\ \A i \in DOMAIN s : t[i] = s[i]
    OBVIOUS
  <1> HIDE DEF t
  <1>3. Places(t, types) = Places(s, types) \cup {n \in {Len(s) + 1} : item.type \in types}
    BY <1>1, <1>2 DEF Places
  <1> QED BY <1>3 DEF t

\* Places depend on the types alone.
LEMMA PlacesKept ==
    ASSUME NEW s, NEW t, DOMAIN t = DOMAIN s, \A i \in DOMAIN s : t[i].type = s[i].type,
           NEW types
    PROVE  Places(t, types) = Places(s, types)
  BY DEF Places

\* An item whose body alone is replaced.
Replaced(t, s, n, body) ==
    /\ DOMAIN t = DOMAIN s /\ Len(t) = Len(s)
    /\ t[n].type = s[n].type /\ t[n].body = body
    /\ \A i \in DOMAIN s : i # n => t[i] = s[i]

\* The update of a body in an item is just that.
LEMMA BodyIsReplaced ==
    ASSUME NEW s \in Seq(Output), NEW n \in DOMAIN s, NEW body
    PROVE  Replaced([s EXCEPT ![n].body = body], s, n, body)
  <1> DEFINE t == [s EXCEPT ![n].body = body]
  <1>1. s[n] \in Output
    OBVIOUS
  <1>2. t[n] = [s[n] EXCEPT !.body = body]
    OBVIOUS
  <1>3. t[n].type = s[n].type /\ t[n].body = body
    BY <1>1, <1>2 DEF Output
  <1>4. DOMAIN t = DOMAIN s /\ Len(t) = Len(s) /\ \A i \in DOMAIN s : i # n => t[i] = s[i]
    OBVIOUS
  <1> HIDE DEF t
  <1>5. Replaced(t, s, n, body)
    BY <1>3, <1>4 DEF Replaced
  <1> QED BY <1>5 DEF t

\* Another body leaves an item its place.
LEMMA ReplacedPlaces ==
    ASSUME NEW s, NEW t, NEW n, NEW body, Replaced(t, s, n, body), NEW types
    PROVE  Places(t, types) = Places(s, types)
  BY PlacesKept DEF Replaced

\* The state while an item is produced.
LEMMA ProducingFacts ==
    ASSUME IInv, phase = "item"
    PROVE  /\ Current = Len(items) /\ Current \in DOMAIN items
           /\ items \in Seq(Output) /\ items # <<>>
           /\ \A i \in DOMAIN items : items[i] \in Output
           /\ \A i : Open(i) <=> i = Current
  <1>1. Current = Len(items) /\ items \in Seq(Output) /\ items # <<>>
    BY DEF TypeOK, Current
  <1>2. \A i \in DOMAIN items : items[i] \in Output
    BY <1>1
  <1> QED BY <1>1, <1>2, CurrentItem DEF Open

\* Upstream produces the body of its current item.
LEMMA ProducedIsReplaced ==
    ASSUME IInv, phase = "item", NEW body, Produced(body)
    PROVE  Replaced(items', items, Current, body)
  BY ProducingFacts, BodyIsReplaced DEF Produced

\* The collecting reader replaces that body in what it holds.
LEMMA CollectedIsReplaced ==
    ASSUME IInv, NEW body, Current \in DOMAIN coll.output, coll' = Collected(body)
    PROVE  Replaced(coll'.output, coll.output, Current, body)
  <1>1. coll \in Coll /\ coll.output \in Seq(Output)
    BY DEF TypeOK, Coll
  <1>2. coll' = [coll EXCEPT !.output = [coll.output EXCEPT ![Current].body = body]]
    BY <1>1 DEF Collected, Coll
  <1>3. coll'.output = [coll.output EXCEPT ![Current].body = body]
    BY <1>1, <1>2 DEF Coll
  <1> QED BY <1>1, <1>3, BodyIsReplaced
\* An item appended.
Appended(t, s, item) ==
    /\ DOMAIN t = DOMAIN s \cup {Len(s) + 1} /\ Len(s) + 1 \notin DOMAIN s
    /\ t[Len(s) + 1] = item /\ \A i \in DOMAIN s : t[i] = s[i]

\* Append is just that.
LEMMA ItemIsAppended ==
    ASSUME NEW s \in Seq(Output), NEW item \in Output
    PROVE  Appended(Append(s, item), s, item)
  <1> DEFINE t == Append(s, item)
  <1>1. DOMAIN t = DOMAIN s \cup {Len(s) + 1} /\ Len(s) + 1 \notin DOMAIN s
    OBVIOUS
  <1>2. t[Len(s) + 1] = item /\ \A i \in DOMAIN s : t[i] = s[i]
    OBVIOUS
  <1> HIDE DEF t
  <1>3. Appended(t, s, item)
    BY <1>1, <1>2 DEF Appended
  <1> QED BY <1>3 DEF t

NewItem(type) == [type |-> type, body |-> <<>>]

\* The state when an item is opened.
LEMMA AddedFacts ==
    ASSUME IInv, NEW type \in Types, ItemAdded(type)
    PROVE  /\ NewItem(type) \in Output /\ items \in Seq(Output)
           /\ items' = Append(items, NewItem(type))
           /\ Appended(items', items, NewItem(type))
           /\ \A i : ~Open(i)
           /\ \A i : Open(i)' <=> i = Len(items) + 1
           /\ chat' = chat /\ Building
  <1>1. NewItem(type) \in Output /\ items \in Seq(Output)
    BY DEF NewItem, Output, TypeOK
  <1>2. items' = Append(items, NewItem(type))
    BY DEF ItemAdded, NewItem
  <1>3. Appended(items', items, NewItem(type))
    BY <1>1, <1>2, ItemIsAppended
  <1>4. \A i : ~Open(i)
    BY DEF ItemAdded, Open
  <1>5. Len(items') = Len(items) + 1
    BY <1>1, <1>2
  <1>6. \A i : Open(i)' <=> i = Len(items) + 1
    BY <1>5 DEF ItemAdded, Open, Current
  <1> QED BY <1>1, <1>2, <1>3, <1>4, <1>6 DEF ItemAdded, Building

\* The places of a type once an item is added.
LEMMA AddedPlaces ==
    ASSUME IInv, NEW type \in Types, ItemAdded(type), NEW types
    PROVE  /\ Places(items', types) =
                  Places(items, types) \cup {n \in {Len(items) + 1} : type \in types}
           /\ Len(items) + 1 \notin Places(items, types)
  <1>1. NewItem(type).type = type
    BY DEF NewItem
  <1>2. Appended(items', items, NewItem(type))
    BY AddedFacts
  <1>3. Len(items) + 1 \notin Places(items, types)
    BY <1>2 DEF Appended, Places
  <1>4. items \in Seq(Output) /\ NewItem(type) \in Output /\ items' = Append(items, NewItem(type))
    BY AddedFacts
  <1>5. Places(Append(items, NewItem(type)), types) =
            Places(items, types) \cup {n \in {Len(items) + 1} : NewItem(type).type \in types}
    BY <1>4, PlacesAppended
  <1> QED BY <1>1, <1>3, <1>4, <1>5

-----------------------------------------------------------------------------
(* The text *)

\* A second message, if this is one, is one too many.
LEMMA TextAdded ==
    ASSUME IInv, TextFits, NEW type \in Types, ItemAdded(type)
    PROVE  TextFits'
  <1> DEFINE N == Len(items) + 1
  <1>1. Appended(items', items, NewItem(type)) /\ chat' = chat
    BY AddedFacts
  <1>2. \A i : ~Open(i)
    BY AddedFacts
  <1>3. \A i : Open(i)' <=> i = N
    BY AddedFacts
  <1>4. Messages' = Messages \cup {n \in {N} : type \in {"message"}} /\ N \notin Messages
    BY AddedPlaces DEF Messages
  <1>5. \A i \in Messages : i \in DOMAIN items /\ items'[i] = items[i] /\ i # N
    BY <1>1, <1>4 DEF Messages, Places, Appended
  <1>6. items'[N].body = <<>>
    BY <1>1 DEF Appended, NewItem
  <1> HIDE DEF N
  <1>7. \A i \in Messages' : ~Open(i)' => items'[i].body # <<>>
    <2> SUFFICES ASSUME NEW i \in Messages', ~Open(i)' PROVE items'[i].body # <<>>
      OBVIOUS
    <2>1. i \in Messages
      BY <1>3, <1>4
    <2> QED BY <1>2, <1>5, <2>1 DEF TextFits
  <1>8. CASE type = "message"
    <2>1. Messages' = Messages \cup {N}
      BY <1>4, <1>8
    <2>2. AtMostOne(Messages') => Messages = {}
      BY <1>4, <2>1 DEF AtMostOne
    <2>3. AtMostOne(Messages') => \A i \in Messages' : chat'.text = items'[i].body
      BY <1>1, <1>6, <2>1, <2>2 DEF TextFits
    <2>4. AtMostOne(Messages)' => \A i \in Messages' : chat'.text = items'[i].body
      BY <2>3 DEF AtMostOne
    <2> QED BY <1>7, <2>1, <2>4 DEF TextFits
  <1>9. CASE type # "message"
    <2>1. Messages' = Messages
      BY <1>4, <1>9
    <2>2. AtMostOne(Messages)' => AtMostOne(Messages)
      BY <2>1 DEF AtMostOne
    <2>3. AtMostOne(Messages)' => \A i \in Messages' : chat'.text = items'[i].body
      BY <1>1, <1>5, <2>1, <2>2 DEF TextFits
    <2> QED BY <1>1, <1>7, <2>1, <2>3 DEF TextFits
  <1> QED BY <1>8, <1>9

\* A part of the one message is a part of the text.
LEMMA TextGrown ==
    ASSUME IInv, TextFits, Producing("message"), NEW body, Produced(body), phase' = "item",
           chat.text = items[Current].body => chat'.text = body
    PROVE  TextFits'
  <1>1. phase = "item" /\ items[Current].type = "message" /\ Current \in DOMAIN items
    BY ProducingFacts DEF Producing
  <1>2. Replaced(items', items, Current, body)
    BY <1>1, ProducedIsReplaced
  <1>3. Messages' = Messages /\ Current \in Messages
    <2>1. Places(items', {"message"}) = Places(items, {"message"})
      BY <1>2, ReplacedPlaces
    <2>2. Current \in Places(items, {"message"})
      BY <1>1 DEF Places
    <2> QED BY <2>1, <2>2 DEF Messages
  <1>4. Current' = Current
    BY <1>2 DEF Replaced, Current
  <1>5. \A i \in Messages : i # Current => ~Open(i) /\ items'[i] = items[i]
    BY <1>2 DEF Messages, Places, Replaced, Open
  <1>6. \A i \in Messages' : ~Open(i)' => items'[i].body # <<>>
    BY <1>3, <1>4, <1>5 DEF TextFits, Open
  <1>7. AtMostOne(Messages) => \A i \in Messages' : chat'.text = items'[i].body
    <2> SUFFICES ASSUME AtMostOne(Messages), NEW i \in Messages'
                 PROVE  chat'.text = items'[i].body
      OBVIOUS
    <2>1. i = Current
      BY <1>3 DEF AtMostOne
    <2>2. chat.text = items[Current].body
      BY <1>3 DEF TextFits
    <2> QED BY <1>2, <2>1, <2>2 DEF Replaced
  <1>8. AtMostOne(Messages)' => AtMostOne(Messages)
    BY <1>3 DEF AtMostOne
  <1> QED BY <1>3, <1>6, <1>7, <1>8 DEF TextFits

\* Nothing else touches it.
LEMMA TextKept ==
    ASSUME IInv, TextFits, phase = "item", items[Current].type # "message",
           phase' \in {"item", "open"}, chat'.text = chat.text,
           UNCHANGED items \/ \E body : Produced(body)
    PROVE  TextFits'
  <1>1. Current \in DOMAIN items
    BY ProducingFacts
  <1>2. /\ DOMAIN items' = DOMAIN items /\ Len(items') = Len(items)
        /\ \A i \in DOMAIN items : items'[i].type = items[i].type
        /\ \A i \in DOMAIN items : i # Current => items'[i] = items[i]
    <2>1. CASE UNCHANGED items
      BY <2>1
    <2>2. CASE \E body : Produced(body)
      <3>1. PICK body : Produced(body)
        BY <2>2
      <3>2. Replaced(items', items, Current, body)
        BY <3>1, ProducedIsReplaced
      <3> QED BY <3>2 DEF Replaced
    <2> QED BY <2>1, <2>2
  <1>3. Messages' = Messages
    BY <1>2 DEF Messages, Places
  <1>4. \A i \in Messages : ~Open(i) /\ items'[i] = items[i]
    BY <1>2 DEF Messages, Places, Open
  <1>5. AtMostOne(Messages)' => AtMostOne(Messages)
    BY <1>3 DEF AtMostOne
  <1> QED BY <1>3, <1>4, <1>5 DEF TextFits

\* A message that is done has a text.
LEMMA TextDone ==
    ASSUME IInv, TextFits, MessageDone
    PROVE  TextFits'
  <1>1. /\ UNCHANGED <<items, chat>> /\ items[Current].body # <<>> /\ phase' = "open"
    BY DEF MessageDone, Close
  <1>2. Messages' = Messages
    BY <1>1 DEF Messages, Places
  <1>3. \A i \in Messages : ~Open(i) \/ i = Current
    BY DEF Open
  <1>4. AtMostOne(Messages)' => AtMostOne(Messages)
    BY <1>2 DEF AtMostOne
  <1> QED BY <1>1, <1>2, <1>3, <1>4 DEF TextFits
-----------------------------------------------------------------------------
(* The calls *)

\* What was sent of the calls stays right as long as they do not change.
LEMMA CallsStay ==
    ASSUME CallsFit, chat'.calls = chat.calls, CallsSent' = CallsSent,
           \A i \in CallsSent : items'[i] = items[i],
           IsChosen(chat.calls, items', CallsSent)
    PROVE  CallsFit'
  <1>1. AtMostOne(CallsSent)' => AtMostOne(CallsSent)
    BY DEF AtMostOne
  <1>2. CallsSent' = {} <=> chat'.calls = <<>>
    BY DEF CallsFit
  <1>3. AtMostOne(CallsSent)' => \A i \in CallsSent' : chat'.calls = <<items'[i]>>
    BY <1>1 DEF CallsFit
  <1>4. IsChosen(chat.calls, items, CallsSent)' <=> IsChosen(chat'.calls, items', CallsSent')
    BY DEF IsChosen, Selected
  <1>5. IsChosen(chat'.calls, items', CallsSent')
    OBVIOUS
  <1> QED BY <1>2, <1>3, <1>4, <1>5 DEF CallsFit

\* A call that is opened has not been sent.
LEMMA CallsAdded ==
    ASSUME IInv, CallsFit, NEW type \in Types, ItemAdded(type)
    PROVE  CallsFit'
  <1> DEFINE N == Len(items) + 1
  <1>1. \A i : ~Open(i)
    BY AddedFacts
  <1>2. \A i : Open(i)' <=> i = N
    BY AddedFacts
  <1>3. /\ Places(items', Calls) = Places(items, Calls) \cup {n \in {N} : type \in Calls}
        /\ N \notin Places(items, Calls)
    BY AddedPlaces
  <1>4. CallsSent' = {i \in Places(items', Calls) : ~Open(i)'}
    BY DEF CallsSent, Calls
  <1>5. CallsSent = Places(items, Calls)
    BY <1>1 DEF CallsSent
  <1>6. CallsSent' = CallsSent /\ N \notin CallsSent
    <2> HIDE DEF N
    <2> QED BY <1>2, <1>3, <1>4, <1>5
  <1>7. Appended(items', items, NewItem(type)) /\ chat' = chat
    BY AddedFacts
  <1>8. \A i \in CallsSent : items'[i] = items[i]
    BY <1>5, <1>7 DEF Appended, Places
  <1>9. /\ items \in Seq(Output) /\ NewItem(type) \in Output
        /\ items' = Append(items, NewItem(type))
    BY AddedFacts
  <1>10. IsChosen(chat.calls, items, CallsSent)
    BY DEF CallsFit
  <1>11. IsChosen(chat.calls, Append(items, NewItem(type)), CallsSent)
    BY <1>6, <1>9, <1>10, ChosenSkips
  <1> QED BY <1>6, <1>7, <1>8, <1>9, <1>11, CallsStay

\* An item of another type is no call.
LEMMA CallsKept ==
    ASSUME IInv, CallsFit, phase = "item", items[Current].type \notin Calls,
           phase' \in {"item", "open"}, chat'.calls = chat.calls,
           UNCHANGED items \/ \E body : Produced(body)
    PROVE  CallsFit'
  <1>1. Current \in DOMAIN items
    BY ProducingFacts
  <1>2. /\ DOMAIN items' = DOMAIN items /\ Len(items') = Len(items)
        /\ \A i \in DOMAIN items : items'[i].type = items[i].type
        /\ \A i \in DOMAIN items : i # Current => items'[i] = items[i]
    <2>1. CASE UNCHANGED items
      BY <2>1
    <2>2. CASE \E body : Produced(body)
      <3>1. PICK body : Produced(body)
        BY <2>2
      <3>2. Replaced(items', items, Current, body)
        BY <3>1, ProducedIsReplaced
      <3> QED BY <3>2 DEF Replaced
    <2> QED BY <2>1, <2>2
  <1>3. Places(items', Calls) = Places(items, Calls) /\ Current \notin Places(items, Calls)
    BY <1>2 DEF Places
  <1>4. Current' = Current
    BY <1>2 DEF Current
  <1>5. CallsSent = Places(items, Calls)
    BY <1>3 DEF CallsSent, Open
  <1>6. CallsSent' = Places(items', Calls)
    BY <1>3, <1>4 DEF CallsSent, Open, Calls
  <1>7. CallsSent' = CallsSent /\ Current \notin CallsSent
    BY <1>3, <1>5, <1>6
  <1>8. \A i \in CallsSent : i \in DOMAIN items /\ items'[i] = items[i]
    BY <1>2, <1>3, <1>5 DEF Places
  <1>9. IsChosen(chat.calls, items, CallsSent)
    BY DEF CallsFit
  <1>10. \A n \in 1..Len(items) : n \in CallsSent => items'[n] = items[n]
    BY <1>8
  <1>11. IsChosen(chat.calls, items', CallsSent)
    BY <1>2, <1>9, <1>10, ChosenAgrees
  <1> QED BY <1>7, <1>8, <1>11, CallsStay

\* A call is sent when it is done, after all others.
LEMMA CallSent ==
    ASSUME IInv, CallsFit, NEW args \in Pieces, CallDone(args)
    PROVE  CallsFit'
  <1>1. /\ phase = "item" /\ items[Current].type \in Calls /\ Produced(<<args>>)
        /\ phase' = "open"
    BY DEF CallDone, Close
  <1>2. /\ Current = Len(items) /\ Current \in DOMAIN items /\ items \in Seq(Output)
        /\ items # <<>>
    BY <1>1, ProducingFacts
  <1>3. Replaced(items', items, Current, <<args>>)
    BY <1>1, ProducedIsReplaced
  <1>4. chat'.calls = Append(chat.calls, items'[Current])
    <2>1. WithRole \in Chat /\ WithRole.calls = chat.calls
      BY DEF WithRole, TypeOK, Chat
    <2>2. chat' = [WithRole EXCEPT !.calls = Append(WithRole.calls, items'[Current])]
      BY <2>1 DEF CallDone, Chat
    <2> QED BY <2>1, <2>2 DEF Chat
  <1>5. Places(items', Calls) = Places(items, Calls)
    BY <1>3, ReplacedPlaces
  <1>6. Current \in Places(items, Calls)
    BY <1>1, <1>2 DEF Places
  <1>7. CallsSent' = Places(items', Calls)
    BY <1>1 DEF CallsSent, Open, Calls
  <1>8. CallsSent = Places(items, Calls) \ {Current}
    BY <1>1 DEF CallsSent, Open
  <1>9. CallsSent' = CallsSent \cup {Current} /\ Current \notin CallsSent
    BY <1>5, <1>6, <1>7, <1>8
  <1>10. \A i \in CallsSent : i \in DOMAIN items /\ i # Current /\ items'[i] = items[i]
    BY <1>3, <1>8 DEF Places, Replaced
  <1>11. IsChosen(chat'.calls, items', CallsSent')
    <2>1. IsChosen(chat.calls, items, CallsSent)
      BY DEF CallsFit
    <2>2. /\ Len(items') = Len(items) /\ Len(items) \notin CallsSent
          /\ \A n \in 1..Len(items) : n # Len(items) => items'[n] = items[n]
      BY <1>2, <1>3, <1>9 DEF Replaced
    <2>3. IsChosen(Append(chat.calls, items'[Len(items)]), items', CallsSent \cup {Len(items)})
      BY <1>2, <2>1, <2>2, ChosenAdds
    <2> QED BY <1>2, <1>4, <1>9, <2>3
  <1>12. CallsSent' # {} /\ chat'.calls # <<>>
    <2>1. chat.calls \in Seq(Output)
      BY DEF TypeOK, Chat
    <2>2. items'[Current] \in Output
      <3>1. items' \in Seq(Output)
        <4>1. <<args>> \in Seq(Pieces)
          OBVIOUS
        <4> QED BY <1>1, <4>1, ProducedKeepsItems
      <3> QED BY <1>2, <1>3, <3>1 DEF Replaced
    <2>3. Append(chat.calls, items'[Current]) # <<>>
      BY <2>1, <2>2
    <2> QED BY <1>4, <1>9, <2>3
  <1>13. AtMostOne(CallsSent)' => \A i \in CallsSent' : chat'.calls = <<items'[i]>>
    <2> SUFFICES ASSUME AtMostOne(CallsSent)', NEW i \in CallsSent'
                 PROVE  chat'.calls = <<items'[i]>>
      OBVIOUS
    <2>1. i = Current /\ CallsSent = {}
      BY <1>9 DEF AtMostOne
    <2>2. chat.calls = <<>>
      BY <2>1 DEF CallsFit
    <2> QED BY <1>4, <2>1, <2>2
  <1>14. IsChosen(chat.calls, items, CallsSent)' <=> IsChosen(chat'.calls, items', CallsSent')
    BY DEF IsChosen, Selected
  <1> QED BY <1>11, <1>12, <1>13, <1>14 DEF CallsFit
-----------------------------------------------------------------------------
(* The pictures, and what is collected *)

\* A picture that is opened has no part yet.
LEMMA PicturesAdded ==
    ASSUME IInv, PicturesFit, NEW type \in Types, ItemAdded(type)
    PROVE  PicturesFit'
  <1>1. Appended(items', items, NewItem(type)) /\ chat' = chat
    BY AddedFacts
  <1>2. Shown(chat.shown, NewItem(type))
    BY DEF Shown, NewItem
  <1> QED BY <1>1, <1>2 DEF PicturesFit, Appended

\* What has been shown once stays shown.
LEMMA ShownStays ==
    ASSUME NEW shown, NEW more, shown \subseteq more, NEW item, Shown(shown, item)
    PROVE  Shown(more, item)
  BY DEF Shown

\* The parts of the open picture have been shown, as those of all others.
LEMMA PicturesKept ==
    ASSUME IInv, PicturesFit, phase = "item", chat.shown \subseteq chat'.shown,
           \/ UNCHANGED items
           \/ \E body : Produced(body) /\ Shown(chat'.shown, items'[Current])
    PROVE  PicturesFit'
  <1>1. \A i \in DOMAIN items : Shown(chat'.shown, items[i])
    BY ShownStays DEF PicturesFit
  <1>2. CASE UNCHANGED items
    BY <1>1, <1>2 DEF PicturesFit
  <1>3. CASE \E body : Produced(body) /\ Shown(chat'.shown, items'[Current])
    <2>1. PICK body : Produced(body) /\ Shown(chat'.shown, items'[Current])
      BY <1>3
    <2>2. Replaced(items', items, Current, body)
      BY <2>1, ProducedIsReplaced
    <2> QED BY <1>1, <2>1, <2>2 DEF PicturesFit, Replaced
  <1> QED BY <1>2, <1>3

\* An item that is opened is collected, unless there are texts only.
LEMMA OutputAdded ==
    ASSUME IInv, OutputFits, NEW type \in Types, ItemAdded(type)
    PROVE  OutputFits'
  <1> DEFINE N == Len(items) + 1
  <1>1. Appended(items', items, NewItem(type)) /\ chat' = chat /\ NewItem(type) \in Output
    BY AddedFacts
  <1>2. \A i : ~Open(i)
    BY AddedFacts
  <1>3. \A i : Open(i)' <=> i = N
    BY AddedFacts
  <1>4. terse' = terse /\ coll \in Coll /\ coll.output \in Seq(Output) /\ items \in Seq(Output)
    BY DEF ItemAdded, TypeOK, Coll
  <1>5. CASE terse
    <2>1. type = "message" /\ coll' = coll
      BY <1>5 DEF ItemAdded
    <2>2. NewItem(type).type = "message"
      BY <2>1 DEF NewItem
    <2>3. \A i \in DOMAIN items' : items'[i].type = "message"
      BY <1>1, <1>5, <2>2 DEF OutputFits, Appended
    <2> QED BY <1>4, <1>5, <2>1, <2>3 DEF OutputFits
  <1>6. CASE ~terse
    <2>1. DOMAIN coll.output = DOMAIN items
      BY <1>6 DEF OutputFits
    <2>2. Len(coll.output) = Len(items)
      BY <1>4, <2>1
    <2>3. coll'.output = Append(coll.output, NewItem(type))
      BY <1>4, <1>6 DEF ItemAdded, NewItem, Coll
    <2>4. Appended(coll'.output, coll.output, NewItem(type))
      BY <1>1, <1>4, <2>3, ItemIsAppended
    <2>5. DOMAIN coll'.output = DOMAIN items' /\ N \notin DOMAIN items
      BY <1>1, <2>1, <2>2, <2>4 DEF Appended
    <2>6. coll'.output[N] = NewItem(type) /\ items'[N] = NewItem(type)
      BY <1>1, <2>2, <2>4 DEF Appended
    <2>7. \A i \in DOMAIN items : coll'.output[i] = coll.output[i] /\ items'[i] = items[i]
      BY <1>1, <2>1, <2>4 DEF Appended
    <2>8. \A i \in DOMAIN items' : i = N \/ i \in DOMAIN items
      BY <1>1 DEF Appended
    <2>9. Shown(chat.shown, NewItem(type))
      BY DEF Shown, NewItem
    <2> HIDE DEF N
    <2>10. ASSUME NEW i \in DOMAIN items'
           PROVE  /\ coll'.output[i].type = items'[i].type
                  /\ Shown(chat'.shown, coll'.output[i])
                  /\ ~IsImage(items'[i]) /\ ~Open(i)' => coll'.output[i] = items'[i]
      <3>1. CASE i = N
        BY <1>1, <1>3, <2>6, <2>9, <3>1
      <3>2. CASE i \in DOMAIN items
        BY <1>1, <1>2, <1>6, <2>7, <3>2 DEF OutputFits
      <3> QED BY <2>8, <3>1, <3>2
    <2> QED BY <1>4, <1>6, <2>5, <2>10 DEF OutputFits, IsImage
  <1> QED BY <1>5, <1>6

\* The open item is the only one that may differ.
LEMMA OutputBehind ==
    ASSUME IInv, OutputFits, phase = "item", phase' \in {"item", "open"},
           \/ phase' = "item" /\ \E body : Produced(body)
           \/ (terse \/ IsImage(items[Current])) /\ UNCHANGED items,
           UNCHANGED terse, coll'.output = coll.output, chat.shown \subseteq chat'.shown
    PROVE  OutputFits'
  <1>1. /\ DOMAIN items' = DOMAIN items /\ Len(items') = Len(items)
        /\ \A i \in DOMAIN items : items'[i].type = items[i].type
        /\ \A i \in DOMAIN items : i # Current => items'[i] = items[i]
    <2>1. CASE UNCHANGED items
      BY <2>1
    <2>2. CASE \E body : Produced(body)
      <3>1. PICK body : Produced(body)
        BY <2>2
      <3>2. Replaced(items', items, Current, body)
        BY <3>1, ProducedIsReplaced
      <3> QED BY <3>2 DEF Replaced
    <2> QED BY <2>1, <2>2
  <1>2. Current' = Current
    BY <1>1 DEF Current
  <1>3. CASE terse
    BY <1>1, <1>3 DEF OutputFits
  <1>4. CASE ~terse
    <2>1. ASSUME NEW i \in DOMAIN items'
          PROVE  /\ coll'.output[i].type = items'[i].type
                 /\ Shown(chat'.shown, coll'.output[i])
                 /\ ~IsImage(items'[i]) /\ ~Open(i)' => coll'.output[i] = items'[i]
      <3>1. i \in DOMAIN items /\ Shown(chat.shown, coll.output[i])
        BY <1>1, <1>4 DEF OutputFits
      <3>2. Shown(chat'.shown, coll'.output[i])
        BY <3>1, ShownStays
      <3>3. coll'.output[i].type = items'[i].type
        BY <1>1, <1>4, <3>1 DEF OutputFits
      <3>4. CASE i = Current
        <4>1. Open(i)' \/ IsImage(items'[i])
          BY <1>2, <1>4, <3>4 DEF Open
        <4> QED BY <3>2, <3>3, <4>1
      <3>5. CASE i # Current
        <4>1. ~Open(i) /\ items'[i] = items[i]
          BY <1>1, <3>1, <3>5 DEF Open
        <4> QED BY <1>4, <3>1, <3>2, <3>3, <4>1 DEF OutputFits
      <3> QED BY <3>4, <3>5
    <2>2. DOMAIN coll'.output = DOMAIN items'
      BY <1>1, <1>4 DEF OutputFits
    <2> QED BY <1>4, <2>1, <2>2 DEF OutputFits, IsImage
  <1> QED BY <1>3, <1>4

\* An item is its type and its body.
LEMMA SameItem ==
    ASSUME NEW one \in Output, NEW other \in Output,
           one.type = other.type, one.body = other.body
    PROVE  one = other
  BY DEF Output

\* What is collected of the open item is what it holds when it is done.
LEMMA OutputCollected ==
    ASSUME IInv, OutputFits, phase = "item", phase' \in {"item", "open"}, ~terse,
           UNCHANGED terse, UNCHANGED items \/ \E b \in Seq(Pieces) : Produced(b),
           NEW body \in Seq(Pieces), coll' = Collected(body),
           chat.shown \subseteq chat'.shown,
           IF IsImage(items[Current]) THEN Last(body) \in chat'.shown
           ELSE items'[Current].body = body
    PROVE  OutputFits'
  <1>1. /\ DOMAIN items' = DOMAIN items /\ Len(items') = Len(items)
        /\ \A i \in DOMAIN items : items'[i].type = items[i].type
        /\ \A i \in DOMAIN items : i # Current => items'[i] = items[i]
        /\ items' \in Seq(Output)
    <2>1. CASE UNCHANGED items
      BY <2>1, ProducingFacts
    <2>2. CASE \E b \in Seq(Pieces) : Produced(b)
      <3>1. PICK b \in Seq(Pieces) : Produced(b)
        BY <2>2
      <3>2. Replaced(items', items, Current, b) /\ items' \in Seq(Output)
        BY <3>1, ProducedIsReplaced, ProducedKeepsItems
      <3> QED BY <3>2 DEF Replaced
    <2> QED BY <2>1, <2>2
  <1>2. Current \in DOMAIN items /\ DOMAIN coll.output = DOMAIN items
    BY ProducingFacts DEF OutputFits
  <1>3. Replaced(coll'.output, coll.output, Current, body)
    BY <1>2, CollectedIsReplaced
  <1>4. coll'.output \in Seq(Output)
    <2>1. coll' \in Coll
      BY CollectedType
    <2> QED BY <2>1 DEF Coll
  <1>5. DOMAIN coll'.output = DOMAIN items'
    BY <1>1, <1>2, <1>3 DEF Replaced
  <1>6. ASSUME NEW i \in DOMAIN items'
        PROVE  /\ coll'.output[i].type = items'[i].type
               /\ Shown(chat'.shown, coll'.output[i])
               /\ ~IsImage(items'[i]) /\ ~Open(i)' => coll'.output[i] = items'[i]
    <2>1. i \in DOMAIN items /\ coll.output[i].type = items[i].type
      BY <1>1 DEF OutputFits
    <2>2. coll'.output[i].type = items'[i].type
      <3>1. coll'.output[i].type = coll.output[i].type
        BY <1>2, <1>3, <2>1 DEF Replaced
      <3> QED BY <1>1, <2>1, <3>1
    <2>3. CASE i = Current
      <3>1. coll'.output[i].body = body /\ items'[i].type = items[Current].type
        BY <1>1, <1>2, <1>3, <2>3 DEF Replaced
      <3>2. CASE IsImage(items[Current])
        <4>1. Shown(chat'.shown, coll'.output[i])
          BY <3>1, <3>2 DEF Shown
        <4>2. IsImage(items'[i])
          BY <3>1, <3>2 DEF IsImage
        <4> QED BY <2>2, <4>1, <4>2
      <3>3. CASE ~IsImage(items[Current])
        <4>1. ~IsImage(coll'.output[i])
          BY <2>2, <3>1, <3>3 DEF IsImage
        <4>2. coll'.output[i] \in Output /\ items'[i] \in Output
          BY <1>1, <1>4, <1>5
        <4>3. coll'.output[i] = items'[i]
          BY <2>2, <2>3, <3>1, <3>3, <4>2, SameItem
        <4> QED BY <2>2, <4>1, <4>3 DEF Shown
      <3> QED BY <3>2, <3>3
    <2>4. CASE i # Current
      <3>1. ~Open(i) /\ items'[i] = items[i] /\ coll'.output[i] = coll.output[i]
        BY <1>1, <1>2, <1>3, <2>1, <2>4 DEF Open, Replaced
      <3>2. Shown(chat.shown, coll.output[i])
        BY <2>1 DEF OutputFits
      <3>3. Shown(chat'.shown, coll'.output[i])
        BY <3>1, <3>2, ShownStays
      <3> QED BY <2>1, <2>2, <3>1, <3>3 DEF OutputFits
    <2> QED BY <2>3, <2>4
  <1> QED BY <1>5, <1>6 DEF OutputFits, IsImage
-----------------------------------------------------------------------------
(* The steps of a response that is being produced *)

\* At first nothing was sent, collected or produced.
LEMMA AnswerInitially == Init => AnswerInv
  <1> SUFFICES ASSUME Init PROVE AnswerInv
    OBVIOUS
  <1>1. /\ items = <<>> /\ chat.text = <<>> /\ chat.calls = <<>> /\ coll.output = <<>>
        /\ coll.status = "none" /\ phase = "silent"
    BY DEF Init
  <1>2. DOMAIN items = {} /\ \A types : Places(items, types) = {}
    BY <1>1 DEF Places
  <1>3. TextFits
    BY <1>1, <1>2 DEF TextFits, Messages
  <1>4. CallsSent = {}
    BY <1>2 DEF CallsSent
  <1>5. CallsFit
    BY <1>1, <1>4, NothingIsChosen DEF CallsFit
  <1>6. PicturesFit /\ OutputFits
    BY <1>1, <1>2 DEF PicturesFit, OutputFits
  <1> QED BY <1>1, <1>3, <1>5, <1>6 DEF AnswerInv, Fits, Sent

\* What the steps of a production leave of the end.
Produces ==
    Building /\ Building' /\ coll'.status \in {coll.status, "in_progress"}

\* They need not look at the end.
LEMMA ProducesKeeps == AnswerInv /\ Produces /\ (Fits => Fits') => AnswerInv'
  BY DEF AnswerInv, Produces, Building

\* response.created.
LEMMA CreatedFits == IInv /\ AnswerInv /\ Created => AnswerInv'
  <1> SUFFICES ASSUME IInv, AnswerInv, Created PROVE AnswerInv'
    OBVIOUS
  <1>1. /\ phase = "silent" /\ phase' = "open" /\ items' = items /\ terse' = terse
        /\ chat'.text = chat.text /\ chat'.calls = chat.calls /\ chat'.shown = chat.shown
        /\ coll'.output = coll.output /\ coll'.status = "in_progress"
    BY DEF Created, WithRole, TypeOK, Chat, Coll
  <1>2. Produces
    BY <1>1 DEF Produces, Building
  <1>3. (\A i : ~Open(i)) /\ (\A i : ~Open(i)')
    BY <1>1 DEF Open
  <1>4. ASSUME Fits PROVE Fits'
    <2>1. TextFits'
      BY <1>1, <1>3, <1>4 DEF Fits, Sent, TextFits, Messages, Places, AtMostOne
    <2>2. CallsFit'
      <3>1. CallsSent' = CallsSent
        BY <1>1, <1>3 DEF CallsSent, Places, Calls
      <3>2. IsChosen(chat.calls, items', CallsSent)
        BY <1>1, <1>4 DEF Fits, Sent, CallsFit
      <3> QED BY <1>1, <1>4, <3>1, <3>2, CallsStay DEF Fits, Sent
    <2>3. PicturesFit' /\ OutputFits'
      BY <1>1, <1>3, <1>4 DEF Fits, Sent, PicturesFit, OutputFits, Shown, IsImage
    <2> QED BY <2>1, <2>2, <2>3 DEF Fits, Sent
  <1> QED BY <1>2, <1>4, ProducesKeeps

\* response.output_item.added.
LEMMA ItemAddedFits ==
    ASSUME IInv, AnswerInv, NEW type \in Types, ItemAdded(type) PROVE AnswerInv'
  <1>1. coll'.status = coll.status
    BY DEF ItemAdded, TypeOK, Coll
  <1>2. Produces
    BY <1>1 DEF Produces, Building, ItemAdded
  <1>3. Fits => Fits'
    BY TextAdded, CallsAdded, PicturesAdded, OutputAdded DEF Fits, Sent
  <1> QED BY <1>2, <1>3, ProducesKeeps

\* A text that comes again as a whole replaces what came of it before.
LEMMA MergeWhole ==
    ASSUME NEW S, NEW text \in Seq(S), text # <<>>, NEW body \in {<<>>, text}
    PROVE  Merge(body, text) = text
  <1>1. StartsWith(text, <<>>)
    <2>1. SubSeq(text, 1, 0) = <<>> /\ Len(<<>>) = 0 /\ 0 <= Len(text)
      BY LenProperties
    <2> QED BY <2>1 DEF StartsWith
  <1>2. StartsWith(text, text)
    <2>1. SubSeq(text, 1, Len(text)) = text /\ Len(text) <= Len(text)
      BY LenProperties
    <2> QED BY <2>1 DEF StartsWith
  <1> QED BY <1>1, <1>2 DEF Merge

\* An event with text: of the message, and of nothing else.
LEMMA TextStepFits ==
    ASSUME IInv, AnswerInv, Producing("message"), NEW body, Produced(body), phase' = "item",
           chat.text = items[Current].body => chat'.text = body,
           chat'.calls = chat.calls, chat'.shown = chat.shown, UNCHANGED terse,
           coll'.output = coll.output, coll'.status = coll.status
    PROVE  AnswerInv'
  <1>1. phase = "item" /\ items[Current].type = "message" /\ Current \in DOMAIN items
    BY ProducingFacts DEF Producing
  <1>2. Produces
    BY <1>1 DEF Produces, Building
  <1>3. Replaced(items', items, Current, body)
    BY <1>1, ProducedIsReplaced
  <1>4. items[Current].type \notin Calls /\ ~IsImage(items[Current])
    BY <1>1 DEF Calls, IsImage
  <1>5. Shown(chat'.shown, items'[Current])
    BY <1>3, <1>4 DEF Replaced, Shown, IsImage
  <1>6. ASSUME Fits PROVE Fits'
    <2>1. TextFits'
      BY <1>6, TextGrown DEF Fits, Sent
    <2>2. CallsFit'
      BY <1>1, <1>4, <1>6, CallsKept DEF Fits, Sent
    <2>3. PicturesFit'
      BY <1>1, <1>5, <1>6, PicturesKept DEF Fits, Sent
    <2>4. OutputFits'
      BY <1>1, <1>6, OutputBehind DEF Fits
    <2> QED BY <2>1, <2>2, <2>3, <2>4 DEF Fits, Sent
  <1> QED BY <1>2, <1>6, ProducesKeeps

\* What a chunk with text leaves alone.
LEMMA ChatTextLeaves ==
    ASSUME TypeOK, NEW text \in Seq(Pieces)
    PROVE  ChatText(text).calls = chat.calls /\ ChatText(text).shown = chat.shown
  <1>1. WithRole \in Chat /\ WithRole.calls = chat.calls /\ WithRole.shown = chat.shown
    BY DEF WithRole, TypeOK, Chat
  <1>2. ChatText(text) = WithRole
            \/ ChatText(text) = [WithRole EXCEPT !.text = WithRole.text \o text]
    BY <1>1 DEF ChatText, Chat
  <1> QED BY <1>1, <1>2 DEF Chat

\* response.output_text.delta.
LEMMA TextDeltaFits ==
    ASSUME IInv, AnswerInv, NEW p \in Pieces, TextDelta(p) PROVE AnswerInv'
  <1> DEFINE body == Append(items[Current].body, p)
  <1>1. /\ Producing("message") /\ Produced(body) /\ phase' = "item" /\ UNCHANGED terse
        /\ chat' = ChatText(<<p>>)
    BY DEF TextDelta, Producing
  <1>2. <<p>> \in Seq(Pieces) /\ chat'.text = chat.text \o <<p>>
    <2>1. <<p>> \in Seq(Pieces)
      OBVIOUS
    <2> QED BY <1>1, <2>1, ChatTextType
  <1>3. body = items[Current].body \o <<p>>
    <2>1. items[Current].body \in Seq(Pieces)
      BY <1>1, CurrentItem DEF Producing
    <2> QED BY <2>1, OnePiece
  <1>4. chat'.calls = chat.calls /\ chat'.shown = chat.shown
    BY <1>1, <1>2, ChatTextLeaves
  <1>5. coll'.output = coll.output /\ coll'.status = coll.status
    BY DEF TextDelta, TypeOK, Coll
  <1> HIDE DEF body
  <1> QED BY <1>1, <1>2, <1>3, <1>4, <1>5, TextStepFits

\* response.output_text.done, response.content_part.done.
LEMMA TextFinalFits ==
    ASSUME IInv, AnswerInv, NEW text \in Texts, TextFinal(text) PROVE AnswerInv'
  <1>1. /\ Producing("message") /\ Produced(text) /\ phase' = "item" /\ UNCHANGED terse
        /\ chat' = ChatText(Suffix(chat.text, text)) /\ text # <<>>
        /\ items[Current].body \in {<<>>, text}
    BY DEF TextFinal, Producing
  <1>2. text \in Seq(Pieces) /\ chat.text \in Seq(Pieces)
    BY TextsAreSequences DEF TypeOK, Chat
  <1>3. /\ Suffix(chat.text, text) \in Seq(Pieces)
        /\ Merge(chat.text, text) = chat.text \o Suffix(chat.text, text)
    BY <1>2, SuffixCompletes
  <1>4. chat'.text = Merge(chat.text, text)
    BY <1>1, <1>3, ChatTextType
  <1>5. chat.text = items[Current].body => chat'.text = text
    BY <1>1, <1>2, <1>4, MergeWhole
  <1>6. chat'.calls = chat.calls /\ chat'.shown = chat.shown
    BY <1>1, <1>3, ChatTextLeaves
  <1>7. coll'.output = coll.output /\ coll'.status = coll.status
    BY DEF TextFinal, TypeOK, Coll
  <1> QED BY <1>1, <1>5, <1>6, <1>7, TextStepFits
\* Upstream sends pictures and calls only if it sends more than texts.
LEMMA NotTerse ==
    ASSUME IInv, OutputFits, phase = "item", items[Current].type # "message"
    PROVE  ~terse
  BY ProducingFacts DEF OutputFits

\* A picture, partial or whole: it is shown, and collected.
LEMMA ImageFits ==
    ASSUME IInv, AnswerInv, NEW p \in Pieces,
           ImageDone(p) \/ \E known \in BOOLEAN : PartialImage(p, known)
    PROVE  AnswerInv'
  <1> DEFINE body == Append(items[Current].body, p)
  <1>1. /\ phase = "item" /\ items[Current].type = "image_generation_call"
        /\ phase' \in {"item", "open"} /\ Produced(body) /\ UNCHANGED terse
        /\ chat' = Show(p)
        /\ coll' = Collected(<<p>>) \/ (coll' = coll /\ phase' = "item")
    BY DEF PartialImage, ImageDone, Producing, Close
  <1>2. /\ body \in Seq(Pieces) /\ <<p>> \in Seq(Pieces) /\ body # <<>>
        /\ Last(body) = p /\ Last(<<p>>) = p
    <2>1. items[Current].body \in Seq(Pieces)
      BY <1>1, CurrentItem
    <2> QED BY <2>1 DEF Last
  <1>3. /\ chat'.text = chat.text /\ chat'.calls = chat.calls
        /\ chat'.shown = chat.shown \cup {p}
    <2>1. /\ WithRole \in Chat /\ WithRole.text = chat.text
          /\ WithRole.calls = chat.calls /\ WithRole.shown = chat.shown
      BY DEF WithRole, TypeOK, Chat
    <2>2. chat' = [WithRole EXCEPT !.shown = WithRole.shown \cup {p}]
      BY <1>1, <2>1 DEF Show, Chat
    <2> QED BY <2>1, <2>2 DEF Chat
  <1>4. coll'.status = coll.status
    BY <1>1, CollectedIsContent
  <1>5. Produces
    BY <1>1, <1>4 DEF Produces, Building
  <1> HIDE DEF body
  <1>6. Replaced(items', items, Current, body)
    BY <1>1, ProducedIsReplaced
  <1>7. items[Current].type \notin Calls /\ IsImage(items[Current])
    BY <1>1 DEF Calls, IsImage
  <1>8. Shown(chat'.shown, items'[Current])
    BY <1>2, <1>3, <1>6 DEF Replaced, Shown
  <1>9. ASSUME Fits PROVE Fits'
    <2>1. TextFits'
      BY <1>1, <1>3, <1>9, TextKept DEF Fits, Sent
    <2>2. CallsFit'
      BY <1>1, <1>3, <1>7, <1>9, CallsKept DEF Fits, Sent
    <2>3. PicturesFit'
      BY <1>1, <1>3, <1>8, <1>9, PicturesKept DEF Fits, Sent
    <2>4. OutputFits'
      <3>1. ~terse
        BY <1>1, <1>9, NotTerse DEF Fits
      <3>2. CASE coll' = Collected(<<p>>)
        BY <1>1, <1>2, <1>3, <1>7, <1>9, <3>1, <3>2, OutputCollected DEF Fits
      <3>3. CASE coll' = coll /\ phase' = "item"
        BY <1>1, <1>3, <1>9, <3>3, OutputBehind DEF Fits
      <3> QED BY <1>1, <3>2, <3>3
    <2> QED BY <2>1, <2>2, <2>3, <2>4 DEF Fits, Sent
  <1> QED BY <1>5, <1>9, ProducesKeeps

\* A picture without its data, which has been shown in parts.
LEMMA ImageDoneBareFits == IInv /\ AnswerInv /\ ImageDoneBare => AnswerInv'
  <1> SUFFICES ASSUME IInv, AnswerInv, ImageDoneBare PROVE AnswerInv'
    OBVIOUS
  <1>1. /\ phase = "item" /\ items[Current].type = "image_generation_call"
        /\ phase' = "open" /\ UNCHANGED <<items, chat, coll, terse>>
    BY DEF ImageDoneBare, Producing, Close
  <1>2. items[Current].type \notin Calls /\ IsImage(items[Current])
    BY <1>1 DEF Calls, IsImage
  <1>3. Produces
    BY <1>1 DEF Produces, Building
  <1>4. ASSUME Fits PROVE Fits'
    <2>1. TextFits'
      BY <1>1, <1>4, TextKept DEF Fits, Sent
    <2>2. CallsFit'
      BY <1>1, <1>2, <1>4, CallsKept DEF Fits, Sent
    <2>3. PicturesFit'
      BY <1>1, <1>4, PicturesKept DEF Fits, Sent
    <2>4. OutputFits'
      BY <1>1, <1>2, <1>4, OutputBehind DEF Fits
    <2> QED BY <2>1, <2>2, <2>3, <2>4 DEF Fits, Sent
  <1> QED BY <1>3, <1>4, ProducesKeeps

\* response.output_item.done of a message.
LEMMA MessageDoneFits == IInv /\ AnswerInv /\ MessageDone => AnswerInv'
  <1> SUFFICES ASSUME IInv, AnswerInv, MessageDone PROVE AnswerInv'
    OBVIOUS
  <1>1. /\ phase = "item" /\ items[Current].type = "message"
        /\ phase' = "open" /\ UNCHANGED <<items, chat, terse>>
        /\ coll' = IF terse THEN coll ELSE Collected(items[Current].body)
    BY DEF MessageDone, Producing, Close
  <1>2. items[Current].type \notin Calls /\ ~IsImage(items[Current])
    BY <1>1 DEF Calls, IsImage
  <1>3. coll'.status = coll.status
    BY <1>1, CollectedIsContent
  <1>4. Produces
    BY <1>1, <1>3 DEF Produces, Building
  <1>5. ASSUME Fits PROVE Fits'
    <2>1. TextFits'
      BY <1>5, TextDone DEF Fits, Sent
    <2>2. CallsFit'
      BY <1>1, <1>2, <1>5, CallsKept DEF Fits, Sent
    <2>3. PicturesFit'
      BY <1>1, <1>5, PicturesKept DEF Fits, Sent
    <2>4. OutputFits'
      <3>1. CASE terse
        BY <1>1, <1>5, <3>1, OutputBehind DEF Fits
      <3>2. CASE ~terse
        <4>1. items[Current].body \in Seq(Pieces) /\ items'[Current].body = items[Current].body
          BY <1>1, CurrentItem
        <4> QED BY <1>1, <1>2, <1>5, <3>2, <4>1, OutputCollected DEF Fits
      <3> QED BY <3>1, <3>2
    <2> QED BY <2>1, <2>2, <2>3, <2>4 DEF Fits, Sent
  <1> QED BY <1>4, <1>5, ProducesKeeps

\* response.output_item.done of a call.
LEMMA CallDoneFits ==
    ASSUME IInv, AnswerInv, NEW args \in Pieces, CallDone(args) PROVE AnswerInv'
  <1>1. /\ phase = "item" /\ items[Current].type \in Calls /\ Produced(<<args>>)
        /\ phase' = "open" /\ UNCHANGED terse /\ coll' = Collected(<<args>>)
    BY DEF CallDone, Close
  <1>2. items[Current].type # "message" /\ ~IsImage(items[Current])
    BY <1>1 DEF Calls, IsImage
  <1>3. <<args>> \in Seq(Pieces)
    OBVIOUS
  <1>4. chat'.text = chat.text /\ chat'.shown = chat.shown
    <2>1. WithRole \in Chat /\ WithRole.text = chat.text /\ WithRole.shown = chat.shown
      BY DEF WithRole, TypeOK, Chat
    <2>2. chat' = [WithRole EXCEPT !.calls = Append(WithRole.calls, items'[Current])]
      BY <2>1 DEF CallDone, Chat
    <2> QED BY <2>1, <2>2 DEF Chat
  <1>5. coll'.status = coll.status
    BY <1>1, CollectedIsContent
  <1>6. Produces
    BY <1>1, <1>5 DEF Produces, Building
  <1>7. Replaced(items', items, Current, <<args>>)
    BY <1>1, ProducedIsReplaced
  <1>8. items'[Current].body = <<args>> /\ Shown(chat'.shown, items'[Current])
    BY <1>2, <1>7 DEF Replaced, Shown, IsImage
  <1>9. ASSUME Fits PROVE Fits'
    <2>1. TextFits'
      BY <1>1, <1>2, <1>4, <1>9, TextKept DEF Fits, Sent
    <2>2. CallsFit'
      BY <1>9, CallSent DEF Fits, Sent
    <2>3. PicturesFit'
      BY <1>1, <1>4, <1>8, <1>9, PicturesKept DEF Fits, Sent
    <2>4. OutputFits'
      <3>1. ~terse
        BY <1>1, <1>2, <1>9, NotTerse DEF Fits
      <3> QED BY <1>1, <1>2, <1>3, <1>4, <1>8, <1>9, <3>1, OutputCollected DEF Fits
    <2> QED BY <2>1, <2>2, <2>3, <2>4 DEF Fits, Sent
  <1> QED BY <1>6, <1>9, ProducesKeeps
-----------------------------------------------------------------------------
(* The end of the response *)

\* A nonempty set of places has a first.
LEMMA HasFirst ==
    ASSUME NEW places, places \subseteq Nat, places # {}
    PROVE  First(places) \in places
  <1> DEFINE R == OpToRel(<, Nat)
  <1>1. PICK n \in places : \A m \in places : ~ (<<m, n>> \in R)
    BY NatLessThanWellFounded, WFMin, Zenon
  <1>2. ASSUME NEW m \in places, m < n PROVE FALSE
    BY <1>1, <1>2 DEF OpToRel
  <1>3. \A m \in places : n <= m
    BY <1>2
  <1> QED BY <1>3, Zenon DEF First

\* That is so of what was collected and of the snapshot.
LEMMA OutputIsWhole ==
    ASSUME IInv, Fits, phase # "item"
    PROVE  Whole(coll.output) /\ Whole(items)
  <1>1. items \in Seq(Output) /\ coll.output \in Seq(Output)
    BY DEF TypeOK, Coll
  <1>2. \A i : ~Open(i)
    BY DEF Open
  <1>3. items = <<>> => \A types : Places(items, types) = {}
    BY DEF Places
  <1>4. Whole(items)
    BY <1>3 DEF Whole, Fits, Sent, PicturesFit
  <1>5. CASE terse
    <2>1. Places(items, Calls) = {}
      BY <1>5 DEF Fits, OutputFits, Places, Calls
    <2> QED BY <1>4, <1>5, <2>1 DEF Fits, OutputFits, Whole
  <1>6. CASE ~terse
    <2>1. DOMAIN coll.output = DOMAIN items
      BY <1>6 DEF Fits, OutputFits
    <2>2. Len(coll.output) = Len(items)
      BY <1>1, <2>1
    <2>3. coll.output = <<>> => items = <<>>
      BY <1>1, <2>2, EmptySeq
    <2>4. \A i \in DOMAIN items :
              /\ coll.output[i].type = items[i].type
              /\ Shown(chat.shown, coll.output[i])
              /\ ~IsImage(items[i]) => coll.output[i] = items[i]
      BY <1>2, <1>6 DEF Fits, OutputFits
    <2> QED BY <1>3, <1>4, <2>1, <2>2, <2>3, <2>4 DEF Whole
  <1> QED BY <1>5, <1>6

\* The answer a closed response has, against what its stream has sent.
LEMMA TextAnswered ==
    ASSUME TypeOK, Sent, phase # "item", NEW output, Whole(output), AtMostOne(Messages),
           output = coll'.output, coll'.text = chat.text
    PROVE  AnswerText' = chat.text
  <1> DEFINE filled == {i \in Places(output, {"message"}) : output[i].body # <<>>}
  <1>1. AnswerText' = CASE output = <<>> -> chat.text
                        [] output # <<>> /\ filled # {} -> output[First(filled)].body
                        [] OTHER -> <<>>
    BY DEF AnswerText, Filled, Places, First
  <1>2. CASE output = <<>>
    BY <1>1, <1>2
  <1>3. CASE output # <<>>
    <2>1. /\ DOMAIN output = DOMAIN items
          /\ \A i \in DOMAIN items : /\ output[i].type = items[i].type
                                     /\ ~IsImage(items[i]) => output[i] = items[i]
      BY <1>3 DEF Whole
    <2>2. \A i : ~Open(i)
      BY DEF Open
    <2>3. Places(output, {"message"}) = Messages
      BY <2>1 DEF Places, Messages
    <2>4. \A i \in Messages : output[i] = items[i] /\ items[i].body # <<>>
      BY <2>1, <2>2 DEF Messages, Places, IsImage, Sent, TextFits
    <2>5. filled = Messages
      BY <2>3, <2>4
    <2>6. CASE Messages = {}
      <3>1. chat.text = <<>>
        BY <2>6 DEF Sent, TextFits
      <3> QED BY <1>1, <1>3, <2>5, <2>6, <3>1
    <2>7. CASE Messages # {}
      <3>1. Messages \subseteq Nat
        BY DEF Messages, Places, TypeOK
      <3>2. First(Messages) \in Messages
        BY <2>7, <3>1, HasFirst
      <3>3. chat.text = items[First(Messages)].body
        BY <3>2 DEF Sent, TextFits
      <3> HIDE DEF filled
      <3>4. AnswerText' = output[First(Messages)].body
        BY <1>1, <1>3, <2>5, <2>7
      <3> QED BY <2>4, <3>2, <3>3, <3>4
    <2> QED BY <2>6, <2>7
  <1> QED BY <1>2, <1>3

\* The places of the calls in a whole output are those of the calls sent.
LEMMA CallsOfWhole ==
    ASSUME Sent, phase # "item", NEW output, Whole(output)
    PROVE  /\ Places(output, Calls) = CallsSent /\ CallsSent = Places(items, Calls)
           /\ \A i \in CallsSent : output[i] = items[i]
  <1>1. \A i : ~Open(i)
    BY DEF Open
  <1>2. CallsSent = Places(items, Calls)
    BY <1>1 DEF CallsSent
  <1>3. CASE output = <<>> /\ Places(items, Calls) = {}
    BY <1>2, <1>3 DEF Places
  <1>4. CASE output # <<>>
    <2>1. /\ DOMAIN output = DOMAIN items
          /\ \A i \in DOMAIN items : /\ output[i].type = items[i].type
                                     /\ ~IsImage(items[i]) => output[i] = items[i]
      BY <1>4 DEF Whole
    <2>2. Places(output, Calls) = Places(items, Calls)
      BY <2>1, PlacesKept
    <2>3. \A i \in CallsSent : i \in DOMAIN items /\ ~IsImage(items[i])
      BY <1>2 DEF Places, IsImage, Calls
    <2> QED BY <1>2, <2>1, <2>2, <2>3
  <1> QED BY <1>3, <1>4 DEF Whole

\* The calls of the answer are those sent.
LEMMA CallsAnswered ==
    ASSUME TypeOK, Sent, phase # "item", NEW output, Whole(output), UNCHANGED options,
           options.legacy => AtMostOne(Places(items, Calls)), output = coll'.output
    PROVE  AnswerCalls' = chat.calls
  <1>1. /\ Places(output, Calls) = CallsSent /\ CallsSent = Places(items, Calls)
        /\ \A i \in CallsSent : output[i] = items[i]
    BY CallsOfWhole
  <1>2. AnswerCalls' = IF options.legacy /\ CallsSent # {}
                       THEN <<output[First(CallsSent)]>> ELSE Chosen(output, CallsSent)
    <2>1. CallsFound' = Places(output, Calls)
      BY DEF CallsFound, Places, Calls
    <2>2. AnswerCalls' = IF options'.legacy /\ CallsFound' # {}
                         THEN <<coll'.output[First(CallsFound')]>>
                         ELSE Chosen(coll'.output, CallsFound')
      BY DEF AnswerCalls, First, Chosen
    <2> QED BY <1>1, <2>1, <2>2
  <1>3. CASE options.legacy /\ CallsSent # {}
    <2>1. CallsSent \subseteq Nat
      BY <1>1 DEF Places, TypeOK
    <2>2. First(CallsSent) \in CallsSent
      BY <1>3, <2>1, HasFirst
    <2>3. AtMostOne(CallsSent)
      BY <1>1, <1>3
    <2>4. chat.calls = <<items[First(CallsSent)]>>
      BY <2>2, <2>3 DEF Sent, CallsFit
    <2> QED BY <1>1, <1>2, <1>3, <2>2, <2>4
  <1>4. CASE ~(options.legacy /\ CallsSent # {})
    <2>1. IsChosen(chat.calls, items, CallsSent) /\ Len(items) \in Nat
      BY DEF Sent, CallsFit, TypeOK
    <2>2. IsChosen(chat.calls, output, CallsSent) /\ Len(output) \in Nat
      <3>1. CASE output = <<>> /\ Places(items, Calls) = {}
        <4>1. chat.calls = <<>>
          BY <1>1, <3>1 DEF Sent, CallsFit
        <4>2. IsChosen(<<>>, <<>>, CallsSent) /\ Len(<<>>) \in Nat
          BY NothingIsChosen
        <4> QED BY <3>1, <4>1, <4>2
      <3>2. CASE output # <<>>
        <4>1. Len(output) = Len(items)
          BY <3>2 DEF Whole
        <4>2. \A n \in 1..Len(items) : n \in CallsSent => output[n] = items[n]
          BY <1>1
        <4> QED BY <2>1, <4>1, <4>2, ChosenAgrees
      <3> QED BY <3>1, <3>2 DEF Whole
    <2>3. chat.calls = Chosen(output, CallsSent)
      BY <2>2, ChosenIs
    <2> QED BY <1>2, <1>4, <2>3
  <1> QED BY <1>3, <1>4

\* The picture of the answer has been shown.
LEMMA PicturesAnswered ==
    ASSUME TypeOK, Sent, NEW output, Whole(output), output = coll'.output
    PROVE  AnswerPictures' \subseteq chat.shown
  <1> DEFINE pictures == {i \in Places(output, {"image_generation_call"}) :
                              output[i].body # <<>>}
  <1>1. AnswerPictures' = IF pictures = {} THEN {}
                          ELSE {Last(output[First(pictures)].body)}
    BY DEF AnswerPictures, Filled, Places, First, Last
  <1>2. \A i \in pictures : i \in DOMAIN output /\ IsImage(output[i]) /\ output[i].body # <<>>
    BY DEF Places, IsImage
  <1>3. pictures # {} => output # <<>>
    BY <1>2
  <1>4. pictures # {} => DOMAIN output = DOMAIN items
    BY <1>3 DEF Whole
  <1>5. \A i \in pictures : Last(output[i].body) \in chat.shown
    BY <1>2, <1>3, <1>4 DEF Whole, Shown
  <1>6. pictures # {} => pictures \subseteq Nat
    BY <1>2, <1>4 DEF TypeOK
  <1> HIDE DEF pictures
  <1>7. pictures # {} => First(pictures) \in pictures
    BY <1>6, HasFirst
  <1> QED BY <1>1, <1>5, <1>7

\* What a step leaves alone stays sent, and stays whole.
LEMMA SentStays ==
    ASSUME Sent, phase # "item", phase' # "item", UNCHANGED items, chat'.text = chat.text,
           chat'.calls = chat.calls, chat'.shown = chat.shown
    PROVE  Sent'
  <1>1. \A i : ~Open(i) /\ ~Open(i)'
    BY DEF Open
  <1>2. CallsSent' = CallsSent
    BY <1>1 DEF CallsSent, Places, Calls
  <1>3. TextFits'
    BY <1>1 DEF Sent, TextFits, Messages, Places, AtMostOne
  <1>4. CallsFit'
    <2>1. IsChosen(chat.calls, items', CallsSent)
      BY DEF Sent, CallsFit
    <2> QED BY <1>2, <2>1, CallsStay DEF Sent
  <1>5. PicturesFit'
    BY DEF Sent, PicturesFit, Shown, IsImage
  <1> QED BY <1>3, <1>4, <1>5 DEF Sent

LEMMA WholeStays ==
    ASSUME UNCHANGED items, chat'.shown = chat.shown, NEW output, Whole(output),
           coll'.output = output
    PROVE  Whole(coll.output)'
  BY DEF Whole, Places, Calls, Shown, IsImage

LEMMA ItemsStayWhole ==
    ASSUME UNCHANGED items, chat'.shown = chat.shown, Whole(items)
    PROVE  Whole(items)'
  BY DEF Whole, Places, Calls, Shown, IsImage

\* When the response is closed as completed, the two clients agree.
LEMMA CompletedAgrees ==
    ASSUME TypeOK, Sent, phase # "item", UNCHANGED <<items, options>>, Whole(coll'.output),
           coll'.text = chat.text, coll'.status = "completed",
           chat'.text = chat.text, chat'.calls = chat.calls, chat'.shown = chat.shown,
           chat'.finish = FinishReason("completed")
    PROVE  chat'.finish = FinishReason("completed")' /\ Agree'
  <1> DEFINE output == coll'.output
  <1>1. Whole(output) /\ output = coll'.output
    OBVIOUS
  <1> HIDE DEF output
  <1>2. chat'.finish = IF chat.calls # <<>> THEN CallReason ELSE "stop"
    BY DEF FinishReason
  <1>3. CallReason' = CallReason
    BY DEF CallReason
  <1>4. chat'.finish = FinishReason("completed")'
    BY <1>2, <1>3 DEF FinishReason
  <1>5. Messages' = Messages /\ Places(items, Calls)' = Places(items, Calls)
    BY DEF Messages, Places, Calls
  <1>6. AtMostOne(Messages)' => AtMostOne(Messages)
    BY <1>5 DEF AtMostOne
  <1>7. AtMostOne(Places(items, Calls))' => AtMostOne(Places(items, Calls))
    BY <1>5 DEF AtMostOne
  <1>8. AtMostOne(Messages) => AnswerText' = chat.text
    BY <1>1, TextAnswered
  <1>9. (options.legacy => AtMostOne(Places(items, Calls))) => AnswerCalls' = chat.calls
    BY <1>1, CallsAnswered
  <1>10. AnswerPictures' \subseteq chat.shown
    BY <1>1, PicturesAnswered
  <1>11. chat'.finish = AnswerFinish'
    <2>1. Places(output, Calls) = CallsSent
      BY <1>1, CallsOfWhole
    <2>2. CallsFound' = CallsSent
      BY <1>1, <2>1 DEF CallsFound, Places, Calls
    <2>3. AnswerFinish' = IF CallsSent # {} THEN CallReason ELSE "stop"
      BY <1>3, <2>2 DEF AnswerFinish
    <2> QED BY <1>2, <2>3 DEF Sent, CallsFit
  <1> QED BY <1>4, <1>6, <1>7, <1>8, <1>9, <1>10, <1>11 DEF Agree

LEMMA ResponseClosedFits ==
    ASSUME IInv, EndInv, AnswerInv, NEW status \in {"completed", "incomplete"},
           NEW carried \in BOOLEAN, NEW usage \in BOOLEAN,
           ResponseClosed(status, carried, usage)
    PROVE  AnswerInv'
  <1>1. ~Building' /\ phase' = "ended" /\ items' = items /\ options' = options
    BY DEF ResponseClosed, Building
  <1>2. /\ coll'.status = status /\ coll'.text = coll.text
        /\ coll'.output = IF carried THEN items ELSE coll.output
    BY DEF ResponseClosed, Closed, TypeOK, Coll
  <1>3. FinishingOf(chat', status, usage)
    BY FinishingType DEF ResponseClosed, Closed
  <1>4. /\ chat'.text = chat.text /\ chat'.calls = chat.calls /\ chat'.shown = chat.shown
        /\ chat'.finish = IF chat.finish = "none" THEN FinishReason(status) ELSE chat.finish
    BY <1>3 DEF FinishingOf
  <1>5. ASSUME status = "completed"
        PROVE  /\ chat'.finish = FinishReason("completed")' /\ Agree'
               /\ Sent' /\ Whole(coll.output)' /\ Whole(items)'
    <2>1. /\ (phase # "item" /\ phase # "over" /\ Building) \/ phase = "ended"
          /\ coll.status # "incomplete"
      BY <1>5 DEF ResponseClosed, UpstreamClosed, Building
    <2>2. Sent /\ Whole(coll.output) /\ Whole(items)
      <3>1. CASE Building
        BY <2>1, <3>1, OutputIsWhole DEF AnswerInv, Fits
      <3>2. CASE phase = "ended"
        BY <2>1, <3>2 DEF AnswerInv
      <3> QED BY <2>1, <3>1, <3>2
    <2>3. Whole(coll'.output)
      BY <1>2, <2>2
    <2>4. chat'.finish = FinishReason("completed")
      <3>1. CASE coll.status = "completed"
        BY <1>4, <1>5, <3>1 DEF AnswerInv
      <3>2. CASE coll.status # "completed"
        <4>1. chat.finish = "none"
          BY <2>1, <3>2 DEF EndInv, InOrder, UpstreamClosed
        <4> QED BY <1>4, <1>5, <4>1
      <3> QED BY <3>1, <3>2
    <2>5. chat'.finish = FinishReason("completed")' /\ Agree'
      BY <1>1, <1>2, <1>4, <1>5, <2>1, <2>2, <2>3, <2>4, CompletedAgrees
    <2>6. Sent' /\ Whole(items)'
      BY <1>1, <1>4, <2>1, <2>2, SentStays, ItemsStayWhole
    <2>7. Whole(coll.output)'
      BY <1>1, <1>4, <2>3, WholeStays
    <2> QED BY <2>5, <2>6, <2>7
  <1> QED BY <1>1, <1>2, <1>5 DEF AnswerInv

\* Nothing after it changes what either client has.
LEMMA AgreeStays ==
    ASSUME Agree, UNCHANGED <<items, options>>, chat'.text = chat.text,
           chat'.calls = chat.calls, chat'.finish = chat.finish, chat'.shown = chat.shown,
           coll'.text = coll.text, coll'.output = coll.output, coll'.status = coll.status
    PROVE  Agree'
  <1>1. AtMostOne(Messages)' => AtMostOne(Messages)
    BY DEF AtMostOne, Messages, Places
  <1>2. AtMostOne(Places(items, Calls))' => AtMostOne(Places(items, Calls))
    BY DEF AtMostOne, Places, Calls
  <1>3. CallsFound' = CallsFound
    BY DEF CallsFound, Places, Calls
  <1>4. AnswerFinish' = AnswerFinish
    BY <1>3 DEF AnswerFinish, CallReason
  <1>5. AnswerCalls' = AnswerCalls
    BY <1>3 DEF AnswerCalls, First, Chosen
  <1>6. AnswerText' = AnswerText /\ AnswerPictures' = AnswerPictures
    <2>1. \A type : Filled(type)' = Filled(type)
      BY DEF Filled, Places
    <2>2. AnswerText' = AnswerText
      BY <2>1 DEF AnswerText, First
    <2>3. AnswerPictures' = AnswerPictures
      BY <2>1 DEF AnswerPictures, First, Last
    <2> QED BY <2>2, <2>3
  <1> QED BY <1>1, <1>2, <1>4, <1>5, <1>6 DEF Agree

\* The other ends, well or not.
LEMMA EndedFits ==
    ASSUME IInv, AnswerInv,
           \/ ResponseDone \/ ConnectionEnds \/ ConnectionBreaks
           \/ \E asEnd \in BOOLEAN : UpstreamFails(asEnd)
    PROVE  AnswerInv'
  <1>1. ~Building'
    BY DEF ResponseDone, UpstreamFails, ConnectionEnds, ConnectionBreaks, Building
  <1>2. UNCHANGED <<items, options>>
    BY DEF ResponseDone, UpstreamFails, ConnectionEnds, ConnectionBreaks
  <1>3. coll'.text = coll.text /\ coll'.output = coll.output /\ coll'.status = coll.status
    BY DEF ResponseDone, UpstreamFails, ConnectionEnds, ConnectionBreaks, TypeOK, Coll
  <1>4. /\ chat'.text = chat.text /\ chat'.calls = chat.calls /\ chat'.shown = chat.shown
        /\ chat.finish # "none" => chat'.finish = chat.finish
    <2>1. CASE ConnectionEnds
      <3>1. \/ chat' = chat \/ chat' = Finished
            \/ chat' = [chat EXCEPT !.end = "failed"]
        BY <2>1 DEF ConnectionEnds
      <3>2. CASE chat' = Finished
        BY <3>2, FinishedType
      <3>3. CASE chat' = [chat EXCEPT !.end = "failed"]
        BY <3>3 DEF TypeOK, Chat
      <3> QED BY <3>1, <3>2, <3>3
    <2>2. CASE ~ConnectionEnds
      BY <2>2 DEF ResponseDone, UpstreamFails, ConnectionBreaks, TypeOK, Chat
    <2> QED BY <2>1, <2>2
  <1>5. coll'.status = "completed" => chat'.finish = FinishReason("completed")' /\ Agree'
    <2> SUFFICES ASSUME coll'.status = "completed"
                 PROVE  chat'.finish = FinishReason("completed")' /\ Agree'
      OBVIOUS
    <2>1. chat.finish = FinishReason("completed") /\ Agree
      BY <1>3 DEF AnswerInv
    <2>2. FinishReason("completed")' = FinishReason("completed")
      BY <1>2, <1>4 DEF FinishReason, CallReason
    <2>3. chat.finish # "none"
      BY <2>1 DEF FinishReason, CallReason
    <2> QED BY <1>2, <1>3, <1>4, <2>1, <2>2, <2>3, AgreeStays
  <1>6. ASSUME phase' = "ended", coll'.status # "incomplete"
        PROVE  Sent' /\ Whole(coll.output)' /\ Whole(items)'
    <2>1. phase \in {"silent", "open", "ended"}
      BY <1>6 DEF ResponseDone, UpstreamFails, ConnectionEnds, ConnectionBreaks
    <2>2. Sent /\ Whole(coll.output) /\ Whole(items)
      <3>1. CASE phase \in {"silent", "open"}
        BY <3>1, OutputIsWhole DEF AnswerInv, Building, Fits
      <3>2. CASE phase = "ended"
        BY <1>3, <1>6, <3>2 DEF AnswerInv
      <3> QED BY <2>1, <3>1, <3>2
    <2>3. Sent' /\ Whole(items)'
      BY <1>2, <1>4, <1>6, <2>1, <2>2, SentStays, ItemsStayWhole
    <2>4. Whole(coll.output)'
      BY <1>2, <1>3, <1>4, <2>2, WholeStays
    <2> QED BY <2>3, <2>4
  <1> QED BY <1>1, <1>5, <1>6 DEF AnswerInv

\* A stutter, or an end that only the observer has seen.
LEMMA UnchangedFits ==
    ASSUME AnswerInv, EndUnread \/ UNCHANGED vars
    PROVE  AnswerInv'
  <1>1. UNCHANGED <<items, phase, terse, options, chat, coll>>
    BY DEF EndUnread, vars, upstreamVars
  <1>2. Agree => Agree'
    BY <1>1, AgreeStays
  <1>3. (Building' <=> Building) /\ FinishReason("completed")' = FinishReason("completed")
    BY <1>1 DEF Building, FinishReason, CallReason
  <1>4. \A i : Open(i)' <=> Open(i)
    BY <1>1 DEF Open, Current
  <1>5. ASSUME Sent PROVE Sent'
    <2>1. TextFits'
      BY <1>1, <1>4, <1>5 DEF Sent, TextFits, Messages, Places, AtMostOne
    <2>2. CallsFit'
      <3>1. CallsSent' = CallsSent
        BY <1>1, <1>4 DEF CallsSent, Places, Calls
      <3>2. IsChosen(chat.calls, items', CallsSent)
        BY <1>1, <1>5 DEF Sent, CallsFit
      <3> QED BY <1>1, <1>5, <3>1, <3>2, CallsStay DEF Sent
    <2>3. PicturesFit'
      BY <1>1, <1>5 DEF Sent, PicturesFit, Shown, IsImage
    <2> QED BY <2>1, <2>2, <2>3 DEF Sent
  <1>6. ASSUME Fits PROVE Fits'
    <2>1. OutputFits'
      BY <1>1, <1>4, <1>6 DEF Fits, OutputFits, Shown, IsImage
    <2> QED BY <1>5, <1>6, <2>1 DEF Fits
  <1>7. (Whole(items) => Whole(items)') /\ (Whole(coll.output) => Whole(coll.output)')
    BY <1>1, WholeStays, ItemsStayWhole
  <1> QED BY <1>1, <1>2, <1>3, <1>5, <1>6, <1>7 DEF AnswerInv

\* Every step keeps what the clients have in agreement.
LEMMA AnswerKept == IInv /\ EndInv /\ AnswerInv /\ [Next]_vars => AnswerInv'
  <1> SUFFICES ASSUME IInv, EndInv, AnswerInv, [Next]_vars PROVE AnswerInv'
    OBVIOUS
  <1>1. ASSUME NEW p \in Pieces,
               \/ TextDelta(p) \/ CallDone(p) \/ ImageDone(p)
               \/ \E known \in BOOLEAN : PartialImage(p, known)
        PROVE  AnswerInv'
    BY <1>1, TextDeltaFits, ImageFits, CallDoneFits
  <1>2. CASE \/ Created \/ MessageDone \/ ImageDoneBare
             \/ \E type \in Types : ItemAdded(type)
             \/ \E text \in Texts : TextFinal(text)
    BY <1>2, CreatedFits, MessageDoneFits, ImageDoneBareFits, ItemAddedFits, TextFinalFits
  <1>3. CASE \E status \in {"completed", "incomplete"}, carried, usage \in BOOLEAN :
                 ResponseClosed(status, carried, usage)
    BY <1>3, ResponseClosedFits
  <1>4. CASE \/ ResponseDone \/ ConnectionEnds \/ ConnectionBreaks
             \/ \E asEnd \in BOOLEAN : UpstreamFails(asEnd)
    BY <1>4, EndedFits
  <1> QED BY <1>1, <1>2, <1>3, <1>4, UnchangedFits DEF Next

\* Of every response that upstream closed with all its items, however many, in however
\* many deltas, repeated or not, a chat client that streams is sent the text, the calls and
\* the finish reason that one that does not stream is given, and its picture.
THEOREM ChatStreamIsAlwaysTheAnswer == Spec => []ChatStreamIsTheAnswer
  <1>1. Spec => []IInv
    BY Initially, StepKeeps, PTL DEF Spec
  <1>2. Spec => []AnswerInv
    BY <1>1, EndsAlways, AnswerInitially, AnswerKept, PTL DEF Spec
  <1>3. AnswerInv => ChatStreamIsTheAnswer
    BY DEF AnswerInv, Agree, Messages, ChatStreamIsTheAnswer
  <1> QED BY <1>2, <1>3, PTL
=============================================================================
