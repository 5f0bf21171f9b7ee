----------------------------- MODULE ReplyStream ----------------------------
(***************************************************************************)
(* What a client is promised of one AI reply, without goroutines, channels *)
(* or buffers: the text it is shown is at all times a beginning of the     *)
(* text the AI service produced, growing by pieces of a bounded length;    *)
(* "done" is shown once, after the whole text; after "done" or "error" no  *)
(* text is shown.                                                          *)
(***************************************************************************)
EXTENDS Naturals, Sequences

VARIABLES
  longest,    \* the longest piece shown at a time; fixed for a reply
  source,     \* the text the AI service has produced, a sequence of runes
  sourceEnd,  \* "open", or how the service ended it: "done" or "error"
  shown,      \* the text the client has been shown
  shownEnd    \* "open", or the last event shown: "done" or "error"

vars == <<longest, source, sourceEnd, shown, shownEnd>>

Init ==
  /\ longest \in Nat
  /\ source = <<>>
  /\ sourceEnd = "open"
  /\ shown = <<>>
  /\ shownEnd = "open"

\* The service produces more text, or ends it.
Produce ==
  /\ sourceEnd = "open"
  /\ \/ /\ Len(source') > Len(source)
        /\ SubSeq(source', 1, Len(source)) = source
        /\ UNCHANGED sourceEnd
     \/ /\ sourceEnd' \in {"done", "error"}
        /\ UNCHANGED source
  /\ UNCHANGED <<longest, shown, shownEnd>>

\* The client is shown the next piece of the text.
Show ==
  /\ shownEnd = "open"
  /\ \E n \in 1..longest :
       /\ Len(shown) + n <= Len(source)
       /\ shown' = SubSeq(source, 1, Len(shown) + n)
  /\ UNCHANGED <<longest, source, sourceEnd, shownEnd>>

\* "done" after the whole text; "error" at any time once the service failed.
ShowEnd ==
  /\ shownEnd = "open"
  /\ \/ sourceEnd = "done" /\ shown = source /\ shownEnd' = "done"
     \/ sourceEnd = "error" /\ shownEnd' = "error"
  /\ UNCHANGED <<longest, source, sourceEnd, shown>>

Next == Produce \/ Show \/ ShowEnd

Spec == Init /\ [][Next]_vars
=============================================================================
