------------------------------ MODULE CodexText ------------------------------
(***************************************************************************)
(* What the readers of a Codex stream do with a text that comes again as a *)
(* whole (src/providers/codex-sse.ts).  A text is a sequence.              *)
(***************************************************************************)
EXTENDS Integers, Sequences

\* text.startsWith(head), and what slice(head.length) leaves of it.
StartsWith(text, head) ==
    Len(head) <= Len(text) /\ SubSeq(text, 1, Len(head)) = head
After(text, head) == SubSeq(text, Len(head) + 1, Len(text))

\* text.endsWith(tail)
EndsWith(text, tail) ==
    /\ Len(tail) <= Len(text)
    /\ SubSeq(text, Len(text) - Len(tail) + 1, Len(text)) = tail

\* Fault: a whole text is always taken for a new one.
NoSuffix(current, finalText) == finalText

\* getCodexTextSuffix: what a client that has been sent current still lacks.
Suffix(current, finalText) ==
    CASE StartsWith(finalText, current) -> After(finalText, current)
      [] ~StartsWith(finalText, current) /\ EndsWith(current, finalText) -> <<>>
      [] OTHER -> finalText

\* mergeCodexFinalText: current brought up to date.
Merge(current, nextText) ==
    CASE nextText = <<>> -> current
      [] nextText # <<>> /\ StartsWith(nextText, current) -> nextText
      [] nextText # <<>> /\ ~StartsWith(nextText, current) /\ EndsWith(current, nextText) ->
             current
      [] OTHER -> current \o nextText
=============================================================================
