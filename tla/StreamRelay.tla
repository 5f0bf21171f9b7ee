---------------------------- MODULE StreamRelay -----------------------------
(***************************************************************************)
(* One call of streamAIOnce: three goroutines and four channels.           *)
(*                                                                         *)
(*   AI reader --rawBuffer--> smoother --smootherOut--> relay --> client   *)
(*      |                                                 ^                *)
(*      +-----------------directEvents-------------------+                 *)
(*                                                                         *)
(* The reader runs AIStreamClient.Stream: text, "done" and "error" events  *)
(* go to the smoother, tool events straight to the relay.  The smoother    *)
(* cuts the text into pieces of ChunkSize runes, one per tick.  The relay  *)
(* writes what it receives to the client.  When a chat request is relayed  *)
(* in document protocol (relay.doc) every event is a "message" event and   *)
(* goes straight to the relay, as the service sent it.                     *)
(***************************************************************************)
EXTENDS Naturals, Sequences

CONSTANTS
  RawCap,       \* capacity of rawBuffer (64 in the code)
  DirectCap,    \* capacity of directEvents (16)
  OutCap,       \* capacity of smootherOut (64)
  ChunkSize,    \* runes per delta
  MaxPending,   \* MaxPendingRunes (4096): more are announced once
  MaxRunes,     \* bound: runes of the reply
  MaxTools      \* bound: tool events

ASSUME RelayAssumption ==
  /\ {RawCap, DirectCap, OutCap, ChunkSize} \subseteq Nat \ {0}
  /\ {MaxPending, MaxRunes, MaxTools} \subseteq Nat

VARIABLES
  reader,     \* [pc, hold, err]: the AI reader goroutine
  raw,        \* rawBuffer: [queue, closed]
  direct,     \* directEvents: [queue, closed]
  smoother,   \* [pc, hold, last, pending, aiDone, rawClosed, notified]
  out,        \* smootherOut: [queue, closed]
  relay,      \* [pc, doc, emitted, smootherClosed, directClosed, ok]
  ctxDone,    \* the request's context is cancelled
  source, sourceEnd, shown, shownEnd, tools
              \* what the AI service sent and the client received, and the
              \* number of tool events sent and shown

produced == <<source, sourceEnd>>
received == <<shown, shownEnd>>
vars == <<reader, raw, direct, smoother, out, relay, ctxDone, produced,
          received, tools>>

-----------------------------------------------------------------------------
(* An event is a kind and, for text, the runes it carries; the runes of a    *)
(* reply are the numbers 1, 2, ...                                           *)

Event(kind, text) == [kind |-> kind, text |-> text]
NoEvent   == Event("none", <<>>)
Kinds     == {"delta", "done", "error", "tool", "status"}
Texts     == {[i \in 1..n |-> m + i] : n, m \in 0..MaxRunes}
Events    == [kind : Kinds, text : Texts]
Queues(n) == UNION {[1..m -> Events] : m \in 0..n}

TypeOK ==
  /\ reader \in [pc : {"read", "send", "closing", "ended"},
                 hold : Events \cup {NoEvent}, err : BOOLEAN]
  /\ raw \in [queue : Queues(RawCap), closed : BOOLEAN]
  /\ direct \in [queue : Queues(DirectCap), closed : BOOLEAN]
  /\ out \in [queue : Queues(OutCap), closed : BOOLEAN]
  /\ smoother \in [pc : {"run", "send", "ended"},
                   hold : Events \cup {NoEvent}, last : BOOLEAN,
                   pending : Texts, aiDone : BOOLEAN, rawClosed : BOOLEAN,
                   notified : BOOLEAN]
  /\ relay \in [pc : {"loop", "returned"}, doc : BOOLEAN, emitted : BOOLEAN,
                smootherClosed : BOOLEAN, directClosed : BOOLEAN,
                ok : BOOLEAN]
  /\ ctxDone \in BOOLEAN
  /\ {source, shown} \subseteq Texts
  /\ {sourceEnd, shownEnd} \subseteq {"open", "done", "error"}
  /\ tools \in [sent : 0..MaxTools, shown : 0..MaxTools]

Channel == [queue |-> <<>>, closed |-> FALSE]
Put(c, e) == [c EXCEPT !.queue = Append(@, e)]
Get(c)    == [c EXCEPT !.queue = Tail(@)]
Close(c)  == [c EXCEPT !.closed = TRUE]

Init ==
  /\ reader = [pc |-> "read", hold |-> NoEvent, err |-> FALSE]
  /\ raw = Channel
  /\ direct = Channel
  /\ smoother = [pc |-> "run", hold |-> NoEvent, last |-> FALSE,
                 pending |-> <<>>, aiDone |-> FALSE, rawClosed |-> FALSE,
                 notified |-> FALSE]
  /\ out = Channel
  /\ relay \in [pc : {"loop"}, doc : BOOLEAN, emitted : {FALSE},
                smootherClosed : {FALSE}, directClosed : {FALSE}, ok : {TRUE}]
  /\ ctxDone = FALSE
  /\ source = <<>> /\ sourceEnd = "open"
  /\ shown = <<>> /\ shownEnd = "open"
  /\ tools = [sent |-> 0, shown |-> 0]

-----------------------------------------------------------------------------
(* The reader: AIStreamClient.Stream and the callback it is given.           *)

\* The scanner delivers an event of the AI service (external: the service
\* ends its text once, with "done" or "error"; tools may come at any time).
ReadText ==
  /\ reader.pc = "read"
  /\ sourceEnd = "open"
  /\ \E n \in 1..(MaxRunes - Len(source)) :
       LET text == [i \in 1..n |-> Len(source) + i] IN
         /\ source' = source \o text
         /\ reader' = [reader EXCEPT !.pc = "send",
                                     !.hold = Event("delta", text)]
  /\ UNCHANGED <<raw, direct, smoother, out, relay, ctxDone, sourceEnd,
                 received, tools>>

ReadEnd ==
  /\ reader.pc = "read"
  /\ sourceEnd = "open"
  /\ sourceEnd' \in {"done", "error"}
  /\ reader' = [reader EXCEPT !.pc = "send",
                              !.hold = Event(sourceEnd', <<>>)]
  /\ UNCHANGED <<raw, direct, smoother, out, relay, ctxDone, source, received,
                 tools>>

ReadTool ==
  /\ reader.pc = "read"
  /\ tools.sent < MaxTools
  /\ tools' = [tools EXCEPT !.sent = @ + 1]
  /\ reader' = [reader EXCEPT !.pc = "send", !.hold = Event("tool", <<>>)]
  /\ UNCHANGED <<raw, direct, smoother, out, relay, ctxDone, produced,
                 received>>

\* The event is put in the channel of its kind when there is room.
GoesDirect(e) == relay.doc \/ e.kind = "tool"

\* Faulty: the channel has no bound.
SendRawUnbounded ==
  /\ reader.pc = "send"
  /\ ~GoesDirect(reader.hold)
  /\ raw' = Put(raw, reader.hold)
  /\ reader' = [reader EXCEPT !.pc = "read", !.hold = NoEvent]
  /\ UNCHANGED <<direct, smoother, out, relay, ctxDone, produced, received,
                 tools>>

SendRaw ==
  /\ reader.pc = "send"
  /\ ~GoesDirect(reader.hold)
  /\ Len(raw.queue) < RawCap
  /\ raw' = Put(raw, reader.hold)
  /\ reader' = [reader EXCEPT !.pc = "read", !.hold = NoEvent]
  /\ UNCHANGED <<direct, smoother, out, relay, ctxDone, produced, received,
                 tools>>

SendDirect ==
  /\ reader.pc = "send"
  /\ GoesDirect(reader.hold)
  /\ Len(direct.queue) < DirectCap
  /\ direct' = Put(direct, reader.hold)
  /\ reader' = [reader EXCEPT !.pc = "read", !.hold = NoEvent]
  /\ UNCHANGED <<raw, smoother, out, relay, ctxDone, produced, received,
                 tools>>

\* Faulty: an event that waits for room ignores the context.
ReaderReturnsAfterSend ==
  /\ reader.pc = "read"
  /\ \E err \in BOOLEAN :
       reader' = [reader EXCEPT !.pc = "closing", !.err = err]
  /\ direct' = Close(direct)
  /\ UNCHANGED <<raw, smoother, out, relay, ctxDone, produced, received,
                 tools>>

\* Stream returns: at the end of the body, with an error of the service or
\* the connection, or because the context is cancelled (also while an event
\* waits for room).  aiDone gets the error, then directEvents is closed.
ReaderReturns ==
  /\ \/ reader.pc = "read" /\ \E err \in BOOLEAN :
          reader' = [reader EXCEPT !.pc = "closing", !.err = err]
     \/ reader.pc = "send" /\ ctxDone /\
          reader' = [pc |-> "closing", hold |-> NoEvent, err |-> TRUE]
  /\ direct' = Close(direct)
  /\ UNCHANGED <<raw, smoother, out, relay, ctxDone, produced, received,
                 tools>>

ReaderClosesRaw ==
  /\ reader.pc = "closing"
  /\ raw' = Close(raw)
  /\ reader' = [reader EXCEPT !.pc = "ended"]
  /\ UNCHANGED <<direct, smoother, out, relay, ctxDone, produced, received,
                 tools>>

-----------------------------------------------------------------------------
(* StreamSmoother.Run.                                                       *)

\* The smoother starts to send e; with `last' it returns after that.
Sending(e, last) ==
  [smoother EXCEPT !.pc = "send", !.hold = e, !.last = last]

ReceiveChunk ==
  /\ smoother.pc = "run"
  /\ raw.queue # <<>>
  /\ raw' = Get(raw)
  /\ LET chunk == Head(raw.queue)
         text  == smoother.pending \o chunk.text
     IN  \/ chunk.kind = "error" /\ smoother' = Sending(chunk, TRUE)
         \/ chunk.kind = "done" /\ smoother' = [smoother EXCEPT !.aiDone = TRUE]
         \/ /\ chunk.kind \notin {"error", "done"}
            /\ smoother' =
                 IF Len(text) > MaxPending /\ ~smoother.notified
                 THEN [Sending(Event("status", <<>>), FALSE)
                         EXCEPT !.pending = text, !.notified = TRUE]
                 ELSE [smoother EXCEPT !.pending = text]
  /\ UNCHANGED <<reader, direct, out, relay, ctxDone, produced, received,
                 tools>>

SeeRawClosed ==
  /\ smoother.pc = "run"
  /\ raw.closed /\ raw.queue = <<>> /\ ~smoother.rawClosed
  /\ smoother' = [smoother EXCEPT !.rawClosed = TRUE]
  /\ UNCHANGED <<reader, raw, direct, out, relay, ctxDone, produced, received,
                 tools>>

\* Faulty: smootherOut is not closed.
SmootherReturnsOpen ==
  /\ smoother' = [smoother EXCEPT !.pc = "ended", !.hold = NoEvent,
                                  !.pending = <<>>]
  /\ UNCHANGED out

\* The smoother returns; its deferred close ends smootherOut.
SmootherReturns ==
  /\ smoother' = [smoother EXCEPT !.pc = "ended", !.hold = NoEvent,
                                  !.pending = <<>>]
  /\ out' = Close(out)

\* The next piece of the pending text.
SendPiece ==
  LET text == smoother.pending
      n    == IF Len(text) < ChunkSize THEN Len(text) ELSE ChunkSize
  IN  /\ smoother' = [Sending(Event("delta", SubSeq(text, 1, n)), FALSE)
                        EXCEPT !.pending = SubSeq(text, n + 1, Len(text))]
      /\ UNCHANGED out

SendDone   == smoother' = Sending(Event("done", <<>>), TRUE) /\ UNCHANGED out
SendStatus == smoother' = Sending(Event("status", <<>>), FALSE) /\ UNCHANGED out

\* Faulty: "done" is sent as soon as it is known.
TickDoneFirst ==
  /\ smoother.pc = "run"
  /\ IF smoother.aiDone THEN SendDone
     ELSE IF smoother.pending # <<>> THEN SendPiece
     ELSE IF smoother.rawClosed THEN SmootherReturns
     ELSE SendStatus
  /\ UNCHANGED <<reader, raw, direct, relay, ctxDone, produced, received,
                 tools>>

\* Faulty: the end of the input ends the smoother, with text pending.
TickClosedFirst ==
  /\ smoother.pc = "run"
  /\ IF smoother.rawClosed /\ ~smoother.aiDone THEN SmootherReturns
     ELSE IF smoother.pending # <<>> THEN SendPiece
     ELSE IF smoother.aiDone THEN SendDone
     ELSE SendStatus
  /\ UNCHANGED <<reader, raw, direct, relay, ctxDone, produced, received,
                 tools>>

\* Faulty: the end of the input does not end the smoother.
TickWaitsForDone ==
  /\ smoother.pc = "run"
  /\ IF smoother.pending # <<>> THEN SendPiece
     ELSE IF smoother.aiDone THEN SendDone
     ELSE SendStatus
  /\ UNCHANGED <<reader, raw, direct, relay, ctxDone, produced, received,
                 tools>>

\* A tick: the next piece of text, or else "done", or else the end of the
\* input, or else, after three seconds of silence, a waiting status.
Tick ==
  /\ smoother.pc = "run"
  /\ IF smoother.pending # <<>> THEN SendPiece
     ELSE IF smoother.aiDone THEN SendDone
     ELSE IF smoother.rawClosed THEN SmootherReturns
     ELSE SendStatus
  /\ UNCHANGED <<reader, raw, direct, relay, ctxDone, produced, received,
                 tools>>

\* out <- event blocks until there is room, whatever becomes of the context.
SmootherSends ==
  /\ smoother.pc = "send"
  /\ Len(out.queue) < OutCap
  /\ out' = IF smoother.last THEN Close(Put(out, smoother.hold))
                            ELSE Put(out, smoother.hold)
  /\ smoother' =
       IF smoother.last
       THEN [smoother EXCEPT !.pc = "ended", !.hold = NoEvent, !.pending = <<>>]
       ELSE [smoother EXCEPT !.pc = "run", !.hold = NoEvent]
  /\ UNCHANGED <<reader, raw, direct, relay, ctxDone, produced, received,
                 tools>>

SmootherCancelled ==
  /\ smoother.pc = "run"
  /\ ctxDone
  /\ SmootherReturns
  /\ UNCHANGED <<reader, raw, direct, relay, ctxDone, produced, received,
                 tools>>
-----------------------------------------------------------------------------
(* The relay loop.                                                           *)

\* Faulty: a tool event does not count as emitted.
EmitForgetsTools(e) ==
  LET business == e.kind \in {"delta", "done"} /\ ~relay.doc
      mark     == [relay EXCEPT !.emitted = @ \/ business]
  IN  \/ /\ relay' = mark
         /\ shown' = shown \o e.text
         /\ shownEnd' = IF e.kind \in {"done", "error"} THEN e.kind
                                                       ELSE shownEnd
         /\ tools' = IF e.kind = "tool" THEN [tools EXCEPT !.shown = @ + 1]
                                        ELSE tools
      \/ /\ relay' = [mark EXCEPT !.pc = "returned", !.ok = FALSE]
         /\ UNCHANGED <<received, tools>>

\* The relay writes event e to the client.  A business event counts as
\* emitted even if the write fails; in document protocol the kind is "message"
\* and never counts.  A failed write ends the attempt with an error.
Emit(e) ==
  LET business == e.kind \in {"delta", "tool", "done"} /\ ~relay.doc
      mark     == [relay EXCEPT !.emitted = @ \/ business]
  IN  \/ /\ relay' = mark
         /\ shown' = shown \o e.text
         /\ shownEnd' = IF e.kind \in {"done", "error"} THEN e.kind
                                                       ELSE shownEnd
         /\ tools' = IF e.kind = "tool" THEN [tools EXCEPT !.shown = @ + 1]
                                        ELSE tools
      \/ /\ relay' = [mark EXCEPT !.pc = "returned", !.ok = FALSE]
         /\ UNCHANGED <<received, tools>>

RelayDirect ==
  /\ relay.pc = "loop"
  /\ direct.queue # <<>>
  /\ direct' = Get(direct)
  /\ Emit(Head(direct.queue))
  /\ UNCHANGED <<reader, raw, smoother, out, ctxDone, produced>>

RelaySmoothed ==
  /\ relay.pc = "loop"
  /\ out.queue # <<>>
  /\ out' = Get(out)
  /\ Emit(Head(out.queue))
  /\ UNCHANGED <<reader, raw, direct, smoother, ctxDone, produced>>

\* A closed and drained channel is no longer received from.
SeeClosed ==
  /\ relay.pc = "loop"
  /\ \/ /\ direct.closed /\ direct.queue = <<>> /\ ~relay.directClosed
        /\ relay' = [relay EXCEPT !.directClosed = TRUE]
     \/ /\ out.closed /\ out.queue = <<>> /\ ~relay.smootherClosed
        /\ relay' = [relay EXCEPT !.smootherClosed = TRUE]
  /\ UNCHANGED <<reader, raw, direct, smoother, out, ctxDone, produced,
                 received, tools>>

\* Both channels have ended: the result is the reader's error.
RelayFinishes ==
  /\ relay.pc = "loop"
  /\ relay.directClosed /\ relay.smootherClosed
  /\ relay' = [relay EXCEPT !.pc = "returned", !.ok = ~reader.err]
  /\ UNCHANGED <<reader, raw, direct, smoother, out, ctxDone, produced,
                 received, tools>>

\* The context is cancelled, or a heartbeat cannot be written.
RelayAborts ==
  /\ relay.pc = "loop"
  /\ relay' = [relay EXCEPT !.pc = "returned", !.ok = FALSE]
  /\ UNCHANGED <<reader, raw, direct, smoother, out, ctxDone, produced,
                 received, tools>>
RelayCancelled == ctxDone /\ RelayAborts
HeartbeatFails == RelayAborts

\* The client goes away, the generation is cancelled or replaced.
Cancel ==
  /\ ~ctxDone
  /\ ctxDone' = TRUE
  /\ UNCHANGED <<reader, raw, direct, smoother, out, relay, produced,
                 received, tools>>

-----------------------------------------------------------------------------
Reader   == \/ ReadText \/ ReadEnd \/ ReadTool
            \/ SendRaw \/ SendDirect \/ ReaderReturns \/ ReaderClosesRaw
Smoother == \/ ReceiveChunk \/ SeeRawClosed \/ Tick \/ SmootherSends
            \/ SmootherCancelled
Relay    == RelayDirect \/ RelaySmoothed \/ SeeClosed \/ RelayFinishes
            \/ RelayCancelled

Next == Reader \/ Smoother \/ Relay \/ HeartbeatFails \/ Cancel

Spec == Init /\ [][Next]_vars

\* Every goroutine that can step is scheduled, the ticker ticks, and the body
\* of the AI service's answer ends some time (the HTTP client's timeout).  The
\* smoother comes back to its select again and again, which picks among the
\* ready cases at random: strong fairness for each case.
FairSpec ==
  /\ Spec
  /\ WF_vars(SendRaw) /\ WF_vars(SendDirect) /\ WF_vars(ReaderClosesRaw)
  /\ WF_vars(ReaderReturns)
  /\ SF_vars(ReceiveChunk) /\ SF_vars(SeeRawClosed) /\ SF_vars(Tick)
  /\ SF_vars(SmootherCancelled) /\ WF_vars(SmootherSends)
  /\ WF_vars(RelayDirect) /\ WF_vars(RelaySmoothed) /\ WF_vars(SeeClosed)
  /\ WF_vars(RelayFinishes) /\ WF_vars(RelayCancelled)

-----------------------------------------------------------------------------
(* Properties. *)

\* The pipeline implements ReplyStream: no buffer, close or early exit loses,
\* repeats or reorders text before "done", or shows text after it.  The
\* smoother's pieces have at most ChunkSize runes; in document protocol the
\* service decides.
Reply == INSTANCE ReplyStream WITH
  longest <- IF relay.doc THEN MaxRunes ELSE ChunkSize,
  source <- source, sourceEnd <- sourceEnd,
  shown <- shown, shownEnd <- shownEnd
ImplementsReplyStream == Reply!Spec

\* An attempt that ends without error and was not cancelled has shown the
\* client everything the service sent, unless the service reported an error:
\* no text is left in a buffer when the goroutines wind up.
CleanReturnIsComplete ==
  (relay.pc = "returned" /\ relay.ok /\ ~ctxDone /\ sourceEnd # "error")
     => /\ shown = source
        /\ sourceEnd = "done" => shownEnd = "done"
        /\ tools.shown = tools.sent

\* A failed attempt is followed by a second one or by the mock reply only if
\* the client has seen nothing of the first: whatever path loses the attempt,
\* the flag that decides it agrees with what was written.  (In document
\* protocol no event is of a kind that sets the flag.)
RetryOnlyBeforeContent ==
  (relay.pc = "returned" /\ ~relay.ok /\ ~relay.emitted /\ ~relay.doc)
     => shown = <<>> /\ tools.shown = 0 /\ shownEnd # "done"

\* Who does not have to wait for another goroutine: the reader and the smoother
\* unless they hold an event for which there is no room, the relay when its
\* select has a case.
ReaderReady ==
  \/ reader.pc \in {"read", "closing"}
  \/ /\ reader.pc = "send"
     /\ \/ ctxDone
        \/ GoesDirect(reader.hold) /\ Len(direct.queue) < DirectCap
        \/ ~GoesDirect(reader.hold) /\ Len(raw.queue) < RawCap
SmootherReady ==
  smoother.pc = "run" \/ (smoother.pc = "send" /\ Len(out.queue) < OutCap)
RelayReady ==
  /\ relay.pc = "loop"
  /\ \/ ctxDone
     \/ direct.queue # <<>> \/ (direct.closed /\ ~relay.directClosed)
     \/ out.queue # <<>> \/ (out.closed /\ ~relay.smootherClosed)
     \/ relay.directClosed /\ relay.smootherClosed

\* The three goroutines never all wait for one another while the attempt runs,
\* although every send blocks, the smoother may end before the reader, and the
\* relay goes on until it has seen both channels closed.
NeverStuck ==
  relay.pc = "loop" => ReaderReady \/ SmootherReady \/ RelayReady

\* The attempt returns, and once it is cancelled the reader ends too.
AttemptReturns == <>(relay.pc = "returned")
ReaderEnds     == ctxDone ~> (reader.pc = "ended")

\* The smoother ends after the reader, with or without a "done" from the
\* service.  It outlives the attempt in one way only: nobody receives any more
\* from a smootherOut that is full, and its send looks at no context.
SmootherLeft ==
  relay.pc = "returned" /\ smoother.pc = "send" /\ Len(out.queue) = OutCap
SmootherEnds == (reader.pc = "ended") ~> (smoother.pc = "ended" \/ SmootherLeft)
=============================================================================
