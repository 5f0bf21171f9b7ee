-------------------------- MODULE StreamRelay_proofs --------------------------
(***************************************************************************)
(* Theorems about StreamRelay, for every value of its constants that       *)
(* satisfies RelayAssumption: channels of any capacity, pieces of any      *)
(* length, replies of any length and any number of tool events.            *)
(***************************************************************************)
EXTENDS StreamRelay, SequenceTheorems, TLAPS

-----------------------------------------------------------------------------
(* Positions.  The text between two positions of a reply is a run of runes; *)
(* every buffer of the pipeline holds the runs between the positions at its *)
(* two ends, one after the other.                                           *)

Positions == 0..MaxRunes
Run(a, b) == [i \in 1..(b - a) |-> a + i]

\* The events of q carry the text from position a to position b, and a "done"
\* among them comes where the text has reached position end.
Carries(q, a, b, end) ==
  \E f \in [0..Len(q) -> Positions] :
    /\ f[0] = a /\ f[Len(q)] = b
    /\ \A i, j \in 0..Len(q) : i <= j => f[i] <= f[j]
    /\ \A k \in 1..Len(q) :
         /\ q[k].text = Run(f[k - 1], f[k])
         /\ q[k].kind = "done" => f[k] = end

\* What an event adds to the number of tools.
One(e) == IF e.kind = "tool" THEN 1 ELSE 0

\* After a tool events, there are b after those of q.
Counts(q, a, b) ==
  \E g \in [0..Len(q) -> 0..MaxTools] :
    /\ g[0] = a /\ g[Len(q)] = b
    /\ \A i, j \in 0..Len(q) : i <= j => g[i] <= g[j]
    /\ \A k \in 1..Len(q) :
         g[k] = g[k - 1] + (IF q[k].kind = "tool" THEN 1 ELSE 0)

-----------------------------------------------------------------------------
(* The inductive invariant.                                                *)

Ends == {"done", "error"}
Some(q, kinds)  == \E k \in 1..Len(q) : q[k].kind \in kinds
Only(q, kinds)  == \A k \in 1..Len(q) : q[k].kind \in kinds
Plain(e)        == e.kind # "delta" => e.text = <<>>
Plains(q)       == \A k \in 1..Len(q) : Plain(q[k])
Pieces(q)       == \A k \in 1..Len(q) :
                     Plain(q[k]) /\ Len(q[k].text) <= ChunkSize
ReaderStopped   == reader.pc \in {"closing", "ended"}

\* Which events are where.
ReaderKinds ==
  /\ reader.pc = "send" <=> reader.hold.kind # "none"
  /\ reader.hold.kind \in {"none", "delta", "done", "error", "tool"}
  /\ Plain(reader.hold)

SmootherKinds ==
  /\ smoother.pc = "send" <=> smoother.hold.kind # "none"
  /\ smoother.pc = "send" => (smoother.last <=> smoother.hold.kind \in Ends)
  /\ Plain(smoother.hold) /\ Len(smoother.hold.text) <= ChunkSize
  /\ relay.doc => /\ smoother.pending = <<>> /\ ~smoother.aiDone
                  /\ smoother.hold.kind \in {"none", "status"}
  /\ smoother.hold.kind \in {"none", "delta", "status", "done", "error"}

QueueKinds ==
  /\ Plains(raw.queue) /\ Plains(direct.queue) /\ Pieces(out.queue)
  /\ IF relay.doc
     THEN /\ raw.queue = <<>>
          /\ Only(direct.queue, {"delta", "done", "error", "tool"})
          /\ Only(out.queue, {"status"})
     ELSE /\ Only(raw.queue, {"delta", "done", "error"})
          /\ Only(direct.queue, {"tool"})
          /\ Only(out.queue, {"delta", "status", "done", "error"})

KindsInv == ReaderKinds /\ SmootherKinds /\ QueueKinds

\* Which channel is closed when, and what the others have seen of it.
ClosingInv ==
  /\ direct.closed <=> ReaderStopped
  /\ raw.closed <=> reader.pc = "ended"
  /\ out.closed <=> smoother.pc = "ended"
  /\ smoother.pc = "ended" => smoother.pending = <<>>
  /\ smoother.rawClosed => raw.closed /\ raw.queue = <<>>
  /\ relay.directClosed => direct.closed /\ direct.queue = <<>>
  /\ relay.smootherClosed => out.closed /\ out.queue = <<>>

\* The end the service has set is the one that is on its way or shown, ...
Agree(q) == Only(q, {"delta", "tool", "status", sourceEnd})

SameEnd ==
  /\ reader.hold.kind \in Ends => reader.hold.kind = sourceEnd
  /\ sourceEnd # "open" => reader.hold.kind # "delta"
  /\ Agree(raw.queue) /\ Agree(direct.queue) /\ Agree(out.queue)
  /\ smoother.aiDone => sourceEnd = "done"
  /\ smoother.hold.kind \in Ends => smoother.hold.kind = sourceEnd
  /\ smoother.hold.kind = "done" =>
       smoother.aiDone /\ smoother.pending = <<>>
  /\ shownEnd # "open" => shownEnd = sourceEnd

\* ... there is one of it in each channel, and only tools come after it.
EndsLast(q) == \A k \in 1..Len(q) : q[k].kind \in Ends => k = Len(q)
EndsText(q) == \A j, k \in 1..Len(q) :
                 q[j].kind \in Ends /\ j < k => q[k].kind = "tool"

OneEnd ==
  /\ EndsLast(raw.queue) /\ EndsLast(out.queue) /\ EndsText(direct.queue)
  /\ Some(raw.queue, Ends) =>
       reader.hold.kind \notin Ends /\ ~smoother.aiDone
  /\ smoother.aiDone => raw.queue = <<>> /\ reader.hold.kind \notin Ends
  /\ Some(direct.queue, Ends) =>
       reader.hold.kind \notin Ends /\ shownEnd = "open"
  /\ Some(out.queue, Ends) => smoother.pc = "ended" /\ shownEnd = "open"
  /\ shownEnd # "open" =>
       /\ Only(direct.queue, {"tool"})
       /\ IF relay.doc THEN reader.hold.kind \notin Ends
                       ELSE out.queue = <<>> /\ smoother.pc = "ended"

\* From position d on the text is in the hands of the reader, or lost with a
\* reader that was cancelled.
HeldFrom(d, q) ==
  \/ reader.hold.text = Run(d, Len(source))
  \/ /\ ctxDone /\ ReaderStopped
     /\ ~Some(q, {"done"}) /\ ~smoother.aiDone
     /\ shownEnd # "done"

\* What is shown, in smootherOut, in the smoother, in rawBuffer and with the
\* reader is the text from the first rune to the last: a smoother that has ended
\* has sent everything, unless the attempt is cancelled or has failed; ...
SmoothedFlow(x, o, p, c, d) ==
  /\ relay.pc = "loop" => x = Len(shown)
  /\ Carries(out.queue, x, o, Len(source))
  /\ o <= p /\ smoother.hold.text = Run(o, p)
  /\ p <= c /\ smoother.pending = Run(p, c)
  /\ c <= Len(source)
  /\ IF smoother.pc = "ended"
     THEN ctxDone \/ sourceEnd = "error" \/ o = Len(source)
     ELSE /\ d <= Len(source)
          /\ Carries(raw.queue, c, d, Len(source))
          /\ HeldFrom(d, raw.queue)

\* ... or, in document protocol, what is shown, in directEvents and with the
\* reader.
DirectFlow(x, d) ==
  /\ relay.pc = "loop" => x = Len(shown)
  /\ d <= Len(source)
  /\ Carries(direct.queue, x, d, Len(source))
  /\ HeldFrom(d, direct.queue)

SmoothedText == \E x, o, p, c, d \in Positions : SmoothedFlow(x, o, p, c, d)
DirectText   == \E x, d \in Positions : DirectFlow(x, d)

SourceInv ==
  /\ Len(source) \in Positions /\ source = Run(0, Len(source))
  /\ Len(shown) \in Positions /\ shown = Run(0, Len(shown))
  /\ Len(shown) <= Len(source)

TextInv ==
  /\ SourceInv
  /\ relay.doc => DirectText
  /\ ~relay.doc => SmoothedText

\* Every tool event is shown, in directEvents or with the reader, unless it was
\* lost with a cancelled one.
ToolInv ==
  /\ tools.shown <= tools.sent
  /\ \E t, u \in 0..MaxTools :
       /\ relay.pc = "loop" => t = tools.shown
       /\ u <= tools.sent
       /\ Counts(direct.queue, t, u)
       /\ \/ tools.sent = u + One(reader.hold)
          \/ ctxDone /\ ReaderStopped

Lost == ctxDone \/ (relay.pc = "returned" /\ ~relay.ok)

\* The smoother of a reply ends for one of four reasons.
EndedInv == smoother.pc = "ended" /\ ~relay.doc =>
  ctxDone \/ sourceEnd = "error" \/ smoother.aiDone \/ reader.pc = "ended"

\* The service's "done" is somewhere unless the attempt has failed.
DoneInv ==
  sourceEnd = "done" /\ ~Lost =>
    \/ reader.hold.kind = "done"
    \/ shownEnd = "done"
    \/ relay.doc /\ Some(direct.queue, {"done"})
    \/ /\ ~relay.doc /\ smoother.pc # "ended"
       /\ Some(raw.queue, {"done"}) \/ smoother.aiDone
    \/ ~relay.doc /\ Some(out.queue, {"done"})

\* The flag knows what has been shown.
EmittedInv ==
  ~relay.doc /\ ~relay.emitted =>
    shown = <<>> /\ tools.shown = 0 /\ shownEnd # "done"

\* A clean return is one after the reader has stopped.
ReturnInv == relay.pc = "returned" /\ relay.ok =>
  ReaderStopped /\ CleanReturnIsComplete

RelayInv ==
  /\ TypeOK
  /\ KindsInv /\ ClosingInv
  /\ SameEnd /\ OneEnd
  /\ TextInv /\ ToolInv /\ EndedInv /\ DoneInv
  /\ EmittedInv /\ ReturnInv
-----------------------------------------------------------------------------
(* Runs.                                                                   *)

LEMMA RunIs ==
  ASSUME NEW a \in Nat, NEW b \in Nat, a <= b
  PROVE  /\ Run(a, b) \in Seq(Nat)
         /\ Len(Run(a, b)) = b - a
         /\ \A i \in 1..(b - a) : Run(a, b)[i] = a + i
<1>1. b - a \in Nat /\ \A i \in 1..(b - a) : a + i \in Nat
  OBVIOUS
<1> QED
  BY <1>1 DEF Run

LEMMA RunText ==
  ASSUME NEW a \in Positions, NEW b \in Positions, a <= b
  PROVE  Run(a, b) \in Texts
<1>1. b - a \in 0..MaxRunes /\ a \in 0..MaxRunes
  BY RelayAssumption DEF Positions
<1>2. Run(a, b) = [i \in 1..(b - a) |-> a + i]
  BY DEF Run
<1> QED
  BY <1>1, <1>2 DEF Texts

LEMMA RunEmpty ==
  ASSUME NEW a \in Nat, NEW b \in Nat, a <= b
  PROVE  Run(a, b) = <<>> <=> a = b
<1>1. Len(Run(a, b)) = b - a
  BY RunIs
<1>2. Run(a, b) \in Seq(Nat)
  BY RunIs
<1> QED
  BY <1>1, <1>2, EmptySeq, SeqEqual

LEMMA RunConcat ==
  ASSUME NEW a \in Nat, NEW b \in Nat, NEW c \in Nat, a <= b, b <= c
  PROVE  Run(a, b) \o Run(b, c) = Run(a, c)
<1> DEFINE r == Run(a, b)
           s == Run(b, c)
<1>1. /\ r \in Seq(Nat) /\ Len(r) = b - a
      /\ \A i \in 1..(b - a) : r[i] = a + i
  BY RunIs
<1>2. /\ s \in Seq(Nat) /\ Len(s) = c - b
      /\ \A i \in 1..(c - b) : s[i] = b + i
  BY RunIs
<1>3. /\ Run(a, c) \in Seq(Nat) /\ Len(Run(a, c)) = c - a
      /\ \A i \in 1..(c - a) : Run(a, c)[i] = a + i
  BY RunIs
<1> HIDE DEF r, s
<1>4. /\ r \o s \in Seq(Nat)
      /\ Len(r \o s) = Len(r) + Len(s)
      /\ \A i \in 1..(Len(r) + Len(s)) : (r \o s)[i] =
           IF i <= Len(r) THEN r[i] ELSE s[i - Len(r)]
  BY <1>1, <1>2, ConcatProperties
<1>5. Len(r \o s) = c - a
  BY <1>1, <1>2, <1>4
<1>6. ASSUME NEW i \in 1..(c - a)
      PROVE  (r \o s)[i] = a + i
  <2>1. (r \o s)[i] = IF i <= b - a THEN r[i] ELSE s[i - (b - a)]
    BY <1>1, <1>2, <1>4
  <2>2. CASE i <= b - a
    BY <1>1, <2>1, <2>2
  <2>3. CASE ~(i <= b - a)
    <3>1. i - (b - a) \in 1..(c - b)
      BY <2>3
    <3>2. b + (i - (b - a)) = a + i
      OBVIOUS
    <3> QED
      BY <1>2, <2>1, <2>3, <3>1, <3>2
  <2> QED
    BY <2>2, <2>3
<1> DEFINE t == r \o s
           u == Run(a, c)
<1>7. /\ t \in Seq(Nat) /\ u \in Seq(Nat) /\ Len(t) = Len(u)
      /\ \A i \in 1..Len(t) : t[i] = u[i]
  BY <1>3, <1>4, <1>5, <1>6
<1> HIDE DEF t, u
<1>8. t = u
  BY <1>7, SeqEqual
<1> QED
  BY <1>8 DEF r, s, t, u

LEMMA RunSplit ==
  ASSUME NEW a \in Nat, NEW b \in Nat, a <= b, NEW n \in 0..(b - a)
  PROVE  /\ SubSeq(Run(a, b), 1, n) = Run(a, a + n)
         /\ SubSeq(Run(a, b), n + 1, b - a) = Run(a + n, b)
<1> DEFINE r == Run(a, b)
<1>1. /\ r \in Seq(Nat) /\ Len(r) = b - a
      /\ \A i \in 1..(b - a) : r[i] = a + i
  BY RunIs
<1>2. /\ Run(a, a + n) \in Seq(Nat) /\ Len(Run(a, a + n)) = n
      /\ \A i \in 1..n : Run(a, a + n)[i] = a + i
  <2>1. a + n \in Nat /\ a <= a + n /\ (a + n) - a = n
    OBVIOUS
  <2> QED
    BY <2>1, RunIs
<1>3. /\ Run(a + n, b) \in Seq(Nat) /\ Len(Run(a + n, b)) = (b - a) - n
      /\ \A i \in 1..((b - a) - n) : Run(a + n, b)[i] = (a + n) + i
  <2>1. a + n \in Nat /\ a + n <= b /\ b - (a + n) = (b - a) - n
    OBVIOUS
  <2> QED
    BY <2>1, RunIs
<1> HIDE DEF r
<1>4. /\ SubSeq(r, 1, n) \in Seq(Nat)
      /\ Len(SubSeq(r, 1, n)) = n
      /\ \A i \in 1..n : SubSeq(r, 1, n)[i] = a + i
  <2>1. \A i \in 1..n : r[i] \in Nat
    BY <1>1
  <2> QED
    BY <1>1, <2>1, SubSeqProperties
<1>5. /\ SubSeq(r, n + 1, b - a) \in Seq(Nat)
      /\ Len(SubSeq(r, n + 1, b - a)) = (b - a) - n
      /\ \A i \in 1..((b - a) - n) :
           SubSeq(r, n + 1, b - a)[i] = (a + n) + i
  <2>1. \A i \in (n + 1)..(b - a) : r[i] \in Nat
    BY <1>1
  <2>2. n + 1 \in Int /\ b - a \in Int
    OBVIOUS
  <2>3. /\ SubSeq(r, n + 1, b - a) \in Seq(Nat)
        /\ Len(SubSeq(r, n + 1, b - a)) =
             IF n + 1 <= b - a THEN (b - a) - (n + 1) + 1 ELSE 0
        /\ \A i \in 1..((b - a) - (n + 1) + 1) :
             SubSeq(r, n + 1, b - a)[i] = r[(n + 1) + i - 1]
    BY <2>1, <2>2, SubSeqProperties
  <2> QED
    BY <1>1, <2>3
<1>6. SubSeq(r, 1, n) = Run(a, a + n)
  BY <1>2, <1>4, SeqEqual
<1>7. SubSeq(r, n + 1, b - a) = Run(a + n, b)
  BY <1>3, <1>5, SeqEqual
<1> QED
  BY <1>6, <1>7 DEF r

-----------------------------------------------------------------------------
(* Queues.                                                                 *)

LEMMA QueueIs ==
  ASSUME NEW n \in Nat, NEW q
  PROVE  q \in Queues(n) <=> q \in Seq(Events) /\ Len(q) <= n
<1>1. ASSUME q \in Queues(n) PROVE q \in Seq(Events) /\ Len(q) <= n
  <2>1. PICK m \in 0..n : q \in [1..m -> Events]
    BY <1>1 DEF Queues
  <2> QED
    BY <2>1
<1>2. ASSUME q \in Seq(Events), Len(q) <= n PROVE q \in Queues(n)
  <2>1. Len(q) \in 0..n /\ q \in [1..Len(q) -> Events]
    BY <1>2, LenProperties
  <2> QED
    BY <2>1 DEF Queues
<1> QED
  BY <1>1, <1>2

LEMMA AppendIs ==
  ASSUME NEW q \in Seq(Events), NEW e \in Events
  PROVE  /\ Append(q, e) \in Seq(Events)
         /\ Len(q) \in Nat
         /\ Len(Append(q, e)) = Len(q) + 1
         /\ \A k \in 1..Len(q) : Append(q, e)[k] = q[k]
         /\ Append(q, e)[Len(q) + 1] = e
  OBVIOUS

LEMMA TailIs ==
  ASSUME NEW q \in Seq(Events), q # <<>>
  PROVE  /\ Tail(q) \in Seq(Events)
         /\ Len(q) \in Nat \ {0}
         /\ Len(Tail(q)) = Len(q) - 1
         /\ \A k \in 1..(Len(q) - 1) : Tail(q)[k] = q[k + 1]
         /\ Head(q) = q[1]
         /\ Head(q) \in Events
  BY HeadTailProperties, EmptySeq

LEMMA CarriesNothing ==
  ASSUME NEW a \in Positions, NEW end
  PROVE  Carries(<<>>, a, a, end)
<1> DEFINE f == [k \in 0..0 |-> a]
<1>1. Len(<<>>) = 0 /\ f \in [0..0 -> Positions] /\ f[0] = a
  OBVIOUS
<1>2. \A k \in 1..0 : FALSE
  OBVIOUS
<1> HIDE DEF f
<1> QED
  BY <1>1, <1>2 DEF Carries, Positions

LEMMA CarriesBounds ==
  ASSUME NEW q \in Seq(Events), NEW a, NEW b, NEW end, Carries(q, a, b, end)
  PROVE  /\ a \in Positions /\ b \in Positions /\ a <= b
         /\ q = <<>> => a = b
<1>1. PICK f \in [0..Len(q) -> Positions] :
        /\ f[0] = a /\ f[Len(q)] = b
        /\ \A i, j \in 0..Len(q) : i <= j => f[i] <= f[j]
  BY DEF Carries
<1>2. Len(q) \in Nat /\ 0 \in 0..Len(q) /\ Len(q) \in 0..Len(q)
  BY LenProperties
<1>3. q = <<>> => Len(q) = 0
  OBVIOUS
<1> QED
  BY <1>1, <1>2, <1>3

LEMMA CarriesAppend ==
  ASSUME NEW q \in Seq(Events), NEW e \in Events, NEW a, NEW b,
         NEW c \in Positions, NEW end,
         Carries(q, a, b, end), b <= c, e.text = Run(b, c),
         e.kind = "done" => c = end
  PROVE  Carries(Append(q, e), a, c, end)
<1>1. PICK f \in [0..Len(q) -> Positions] :
        /\ f[0] = a /\ f[Len(q)] = b
        /\ \A i, j \in 0..Len(q) : i <= j => f[i] <= f[j]
        /\ \A k \in 1..Len(q) : /\ q[k].text = Run(f[k - 1], f[k])
                                /\ q[k].kind = "done" => f[k] = end
  BY DEF Carries
<1> DEFINE n == Len(q)
           g == [k \in 0..(n + 1) |-> IF k <= n THEN f[k] ELSE c]
<1>2. n \in Nat /\ Len(Append(q, e)) = n + 1
  BY AppendIs
<1>3. /\ g \in [0..(n + 1) -> Positions]
      /\ g[0] = a /\ g[n + 1] = c
      /\ \A k \in 0..n : g[k] = f[k]
  BY <1>1, <1>2
<1>4. \A k \in 0..n : f[k] <= c /\ f[k] \in Nat
  BY <1>1, <1>2 DEF Positions
<1> HIDE DEF n, g
<1>5. \A i, j \in 0..(n + 1) : i <= j => g[i] <= g[j]
  <2> TAKE i, j \in 0..(n + 1)
  <2> HAVE i <= j
  <2>1. CASE j = n + 1
    <3>1. CASE i = n + 1
      BY <1>3, <2>1, <3>1 DEF Positions
    <3>2. CASE i # n + 1
      BY <1>2, <1>3, <1>4, <2>1, <3>2
    <3> QED
      BY <3>1, <3>2
  <2>2. CASE j # n + 1
    <3>1. i \in 0..n /\ j \in 0..n
      BY <1>2, <2>2
    <3> QED
      BY <1>1, <1>3, <3>1 DEF n
  <2> QED
    BY <2>1, <2>2
<1>6. ASSUME NEW k \in 1..(n + 1)
      PROVE  /\ Append(q, e)[k].text = Run(g[k - 1], g[k])
             /\ Append(q, e)[k].kind = "done" => g[k] = end
  <2>1. CASE k = n + 1
    <3>1. Append(q, e)[k] = e
      BY <2>1, AppendIs DEF n
    <3>2. g[k] = c /\ g[k - 1] = b
      BY <1>1, <1>2, <1>3, <2>1 DEF n
    <3> QED
      BY <3>1, <3>2
  <2>2. CASE k # n + 1
    <3>1. k \in 1..n /\ k \in 0..n /\ k - 1 \in 0..n
      BY <1>2, <2>2
    <3>2. Append(q, e)[k] = q[k]
      BY <3>1, AppendIs DEF n
    <3> QED
      BY <1>1, <1>3, <3>1, <3>2 DEF n
  <2> QED
    BY <2>1, <2>2
<1> QED
  BY <1>2, <1>3, <1>5, <1>6 DEF Carries

LEMMA CarriesTail ==
  ASSUME NEW q \in Seq(Events), q # <<>>, NEW a, NEW b, NEW end,
         Carries(q, a, b, end)
  PROVE  \E m \in Positions :
           /\ a <= m /\ m <= b
           /\ Head(q).text = Run(a, m)
           /\ Head(q).kind = "done" => m = end
           /\ Carries(Tail(q), m, b, end)
<1>1. PICK f \in [0..Len(q) -> Positions] :
        /\ f[0] = a /\ f[Len(q)] = b
        /\ \A i, j \in 0..Len(q) : i <= j => f[i] <= f[j]
        /\ \A k \in 1..Len(q) : /\ q[k].text = Run(f[k - 1], f[k])
                                /\ q[k].kind = "done" => f[k] = end
  BY DEF Carries
<1> DEFINE n == Len(q)
           g == [k \in 0..(n - 1) |-> f[k + 1]]
<1>2. /\ n \in Nat \ {0} /\ Len(Tail(q)) = n - 1 /\ Head(q) = q[1]
      /\ \A k \in 1..(n - 1) : Tail(q)[k] = q[k + 1]
  BY TailIs
<1>3. /\ g \in [0..(n - 1) -> Positions]
      /\ g[0] = f[1] /\ g[n - 1] = b
      /\ \A k \in 0..(n - 1) : g[k] = f[k + 1]
  BY <1>1, <1>2
<1> HIDE DEF n, g
<1>4. \A i, j \in 0..(n - 1) : i <= j => g[i] <= g[j]
  <2> TAKE i, j \in 0..(n - 1)
  <2> HAVE i <= j
  <2>1. i + 1 \in 0..n /\ j + 1 \in 0..n /\ i + 1 <= j + 1
    BY <1>2
  <2> QED
    BY <1>1, <1>3, <2>1 DEF n
<1>5. ASSUME NEW k \in 1..(n - 1)
      PROVE  /\ Tail(q)[k].text = Run(g[k - 1], g[k])
             /\ Tail(q)[k].kind = "done" => g[k] = end
  <2>1. /\ k + 1 \in 1..n /\ k \in 0..(n - 1) /\ k - 1 \in 0..(n - 1)
        /\ (k + 1) - 1 = k /\ (k - 1) + 1 = k
    BY <1>2
  <2>2. g[k] = f[k + 1] /\ g[k - 1] = f[k]
    BY <1>3, <2>1
  <2>3. Tail(q)[k] = q[k + 1]
    BY <1>2
  <2> QED
    BY <1>1, <2>1, <2>2, <2>3 DEF n
<1>6. Carries(Tail(q), f[1], b, end)
  BY <1>2, <1>3, <1>4, <1>5 DEF Carries
<1>7. /\ f[1] \in Positions /\ a <= f[1] /\ f[1] <= b
      /\ Head(q).text = Run(a, f[1])
      /\ Head(q).kind = "done" => f[1] = end
  <2>1. 1 \in 1..n /\ 0 \in 0..n /\ 1 \in 0..n /\ n \in 0..n /\ 1 - 1 = 0
        /\ 1 <= n
    BY <1>2
  <2> QED
    BY <1>1, <1>2, <2>1 DEF n
<1> QED
  BY <1>6, <1>7

\* While there is no "done" in q, the text may go on.
LEMMA CarriesOn ==
  ASSUME NEW q \in Seq(Events), NEW a, NEW b, NEW end, NEW later,
         Carries(q, a, b, end), ~Some(q, {"done"})
  PROVE  Carries(q, a, b, later)
  BY DEF Carries, Some

LEMMA CountsNothing ==
  ASSUME NEW a \in 0..MaxTools
  PROVE  Counts(<<>>, a, a)
<1> DEFINE f == [k \in 0..0 |-> a]
<1>1. Len(<<>>) = 0 /\ f \in [0..0 -> 0..MaxTools] /\ f[0] = a
  OBVIOUS
<1>2. \A k \in 1..0 : FALSE
  OBVIOUS
<1> HIDE DEF f
<1> QED
  BY <1>1, <1>2, RelayAssumption DEF Counts

LEMMA CountsBounds ==
  ASSUME NEW q \in Seq(Events), NEW a, NEW b, Counts(q, a, b)
  PROVE  /\ a \in 0..MaxTools /\ b \in 0..MaxTools /\ a <= b
         /\ q = <<>> => a = b
<1>1. PICK g \in [0..Len(q) -> 0..MaxTools] :
        /\ g[0] = a /\ g[Len(q)] = b
        /\ \A i, j \in 0..Len(q) : i <= j => g[i] <= g[j]
  BY DEF Counts
<1>2. Len(q) \in Nat /\ 0 \in 0..Len(q) /\ Len(q) \in 0..Len(q)
  BY LenProperties
<1>3. q = <<>> => Len(q) = 0
  OBVIOUS
<1> QED
  BY <1>1, <1>2, <1>3

LEMMA CountsAppend ==
  ASSUME NEW q \in Seq(Events), NEW e \in Events, NEW a, NEW b,
         Counts(q, a, b), b + One(e) \in 0..MaxTools
  PROVE  Counts(Append(q, e), a, b + One(e))
<1>1. PICK f \in [0..Len(q) -> 0..MaxTools] :
        /\ f[0] = a /\ f[Len(q)] = b
        /\ \A i, j \in 0..Len(q) : i <= j => f[i] <= f[j]
        /\ \A k \in 1..Len(q) :
             f[k] = f[k - 1] + (IF q[k].kind = "tool" THEN 1 ELSE 0)
  BY DEF Counts
<1> DEFINE n == Len(q)
           c == b + One(e)
           g == [k \in 0..(n + 1) |-> IF k <= n THEN f[k] ELSE c]
<1>2. n \in Nat /\ Len(Append(q, e)) = n + 1
  BY AppendIs
<1>3. b \in 0..MaxTools /\ b <= c /\ c \in 0..MaxTools
  BY CountsBounds DEF One
<1>4. /\ g \in [0..(n + 1) -> 0..MaxTools]
      /\ g[0] = a /\ g[n + 1] = c
      /\ \A k \in 0..n : g[k] = f[k]
  BY <1>1, <1>2, <1>3
<1>5. \A k \in 0..n : f[k] <= c /\ f[k] \in Nat
  <2>1. \A k \in 0..n : f[k] <= b /\ f[k] \in Nat
    BY <1>1, <1>2
  <2> QED
    BY <1>3, <2>1
<1>6. c = b + (IF e.kind = "tool" THEN 1 ELSE 0)
  BY DEF One
<1> HIDE DEF n, c, g
<1>7. \A i, j \in 0..(n + 1) : i <= j => g[i] <= g[j]
  <2> TAKE i, j \in 0..(n + 1)
  <2> HAVE i <= j
  <2>1. CASE j = n + 1
    <3>1. CASE i = n + 1
      BY <1>3, <1>4, <2>1, <3>1
    <3>2. CASE i # n + 1
      BY <1>2, <1>4, <1>5, <2>1, <3>2
    <3> QED
      BY <3>1, <3>2
  <2>2. CASE j # n + 1
    <3>1. i \in 0..n /\ j \in 0..n
      BY <1>2, <2>2
    <3> QED
      BY <1>1, <1>4, <3>1 DEF n
  <2> QED
    BY <2>1, <2>2
<1>8. ASSUME NEW k \in 1..(n + 1)
      PROVE  g[k] = g[k - 1]
                      + (IF Append(q, e)[k].kind = "tool" THEN 1 ELSE 0)
  <2>1. CASE k = n + 1
    <3>1. Append(q, e)[k] = e
      BY <2>1, AppendIs DEF n
    <3>2. g[k] = c /\ g[k - 1] = b
      BY <1>1, <1>2, <1>4, <2>1 DEF n
    <3> QED
      BY <1>6, <3>1, <3>2
  <2>2. CASE k # n + 1
    <3>1. k \in 1..n /\ k \in 0..n /\ k - 1 \in 0..n
      BY <1>2, <2>2
    <3>2. Append(q, e)[k] = q[k]
      BY <3>1, AppendIs DEF n
    <3> QED
      BY <1>1, <1>4, <3>1, <3>2 DEF n
  <2> QED
    BY <2>1, <2>2
<1>9. Counts(Append(q, e), a, c)
  BY <1>2, <1>4, <1>7, <1>8 DEF Counts
<1> QED
  BY <1>9 DEF c

LEMMA CountsTail ==
  ASSUME NEW q \in Seq(Events), q # <<>>, NEW a, NEW b, Counts(q, a, b)
  PROVE  /\ a + One(Head(q)) \in 0..MaxTools
         /\ a + One(Head(q)) <= b
         /\ Counts(Tail(q), a + One(Head(q)), b)
<1>1. PICK f \in [0..Len(q) -> 0..MaxTools] :
        /\ f[0] = a /\ f[Len(q)] = b
        /\ \A i, j \in 0..Len(q) : i <= j => f[i] <= f[j]
        /\ \A k \in 1..Len(q) :
             f[k] = f[k - 1] + (IF q[k].kind = "tool" THEN 1 ELSE 0)
  BY DEF Counts
<1> DEFINE n == Len(q)
           g == [k \in 0..(n - 1) |-> f[k + 1]]
<1>2. /\ n \in Nat \ {0} /\ Len(Tail(q)) = n - 1 /\ Head(q) = q[1]
      /\ \A k \in 1..(n - 1) : Tail(q)[k] = q[k + 1]
  BY TailIs
<1>3. /\ g \in [0..(n - 1) -> 0..MaxTools]
      /\ g[0] = f[1] /\ g[n - 1] = b
      /\ \A k \in 0..(n - 1) : g[k] = f[k + 1]
  BY <1>1, <1>2
<1> HIDE DEF n, g
<1>4. \A i, j \in 0..(n - 1) : i <= j => g[i] <= g[j]
  <2> TAKE i, j \in 0..(n - 1)
  <2> HAVE i <= j
  <2>1. i + 1 \in 0..n /\ j + 1 \in 0..n /\ i + 1 <= j + 1
    BY <1>2
  <2> QED
    BY <1>1, <1>3, <2>1 DEF n
<1>5. ASSUME NEW k \in 1..(n - 1)
      PROVE  g[k] = g[k - 1] + (IF Tail(q)[k].kind = "tool" THEN 1 ELSE 0)
  <2>1. /\ k + 1 \in 1..n /\ k \in 0..(n - 1) /\ k - 1 \in 0..(n - 1)
        /\ (k + 1) - 1 = k /\ (k - 1) + 1 = k
    BY <1>2
  <2>2. g[k] = f[k + 1] /\ g[k - 1] = f[k]
    BY <1>3, <2>1
  <2>3. Tail(q)[k] = q[k + 1]
    BY <1>2
  <2> QED
    BY <1>1, <2>1, <2>2, <2>3 DEF n
<1>6. Counts(Tail(q), f[1], b)
  BY <1>2, <1>3, <1>4, <1>5 DEF Counts
<1>7. f[1] \in 0..MaxTools /\ f[1] <= b /\ f[1] = a + One(Head(q))
  <2>1. 1 \in 1..n /\ 0 \in 0..n /\ 1 \in 0..n /\ n \in 0..n /\ 1 - 1 = 0
        /\ 1 <= n
    BY <1>2
  <2> QED
    BY <1>1, <1>2, <2>1 DEF n, One
<1> QED
  BY <1>6, <1>7

-----------------------------------------------------------------------------
(* What each step keeps.                                                   *)

LEMMA QueuesAre ==
  ASSUME TypeOK
  PROVE  /\ raw.queue \in Seq(Events) /\ Len(raw.queue) <= RawCap
         /\ direct.queue \in Seq(Events) /\ Len(direct.queue) <= DirectCap
         /\ out.queue \in Seq(Events) /\ Len(out.queue) <= OutCap
  BY QueueIs, RelayAssumption DEF TypeOK

LEMMA KindsAppend ==
  ASSUME NEW q \in Seq(Events), NEW e \in Events, NEW K
  PROVE  /\ Only(q, K) /\ e.kind \in K => Only(Append(q, e), K)
         /\ Plains(q) /\ Plain(e) => Plains(Append(q, e))
         /\ Pieces(q) /\ Plain(e) /\ Len(e.text) <= ChunkSize
              => Pieces(Append(q, e))
         /\ Some(q, K) \/ e.kind \in K <=> Some(Append(q, e), K)
<1>1. /\ Len(q) \in Nat
      /\ Len(Append(q, e)) = Len(q) + 1
      /\ \A k \in 1..Len(q) : Append(q, e)[k] = q[k]
      /\ Append(q, e)[Len(q) + 1] = e
  BY AppendIs
<1>2. \A k \in 1..(Len(q) + 1) : k = Len(q) + 1 \/ k \in 1..Len(q)
  BY <1>1
<1>3. Len(q) + 1 \in 1..(Len(q) + 1) /\ 1..Len(q) \subseteq 1..(Len(q) + 1)
  BY <1>1
<1> QED
  BY <1>1, <1>2, <1>3 DEF Only, Plains, Pieces, Some

LEMMA KindsTail ==
  ASSUME NEW q \in Seq(Events), q # <<>>, NEW K
  PROVE  /\ Only(q, K) => Only(Tail(q), K) /\ Head(q).kind \in K
         /\ Plains(q) => Plains(Tail(q)) /\ Plain(Head(q))
         /\ Pieces(q) => /\ Pieces(Tail(q))
                         /\ Plain(Head(q)) /\ Len(Head(q).text) <= ChunkSize
         /\ Some(q, K) <=> Head(q).kind \in K \/ Some(Tail(q), K)
<1>1. /\ Len(q) \in Nat \ {0}
      /\ Len(Tail(q)) = Len(q) - 1
      /\ \A k \in 1..(Len(q) - 1) : Tail(q)[k] = q[k + 1]
      /\ Head(q) = q[1]
  BY TailIs
<1>2. \A k \in 1..(Len(q) - 1) : k + 1 \in 1..Len(q)
  BY <1>1
<1>3. \A k \in 1..Len(q) :
        k = 1 \/ (k - 1 \in 1..(Len(q) - 1) /\ (k - 1) + 1 = k)
  BY <1>1
<1>4. 1 \in 1..Len(q)
  BY <1>1
<1>5. Some(q, K) <=> Head(q).kind \in K \/ Some(Tail(q), K)
  <2>1. ASSUME Some(q, K) PROVE Head(q).kind \in K \/ Some(Tail(q), K)
    <3>1. PICK k \in 1..Len(q) : q[k].kind \in K
      BY <2>1 DEF Some
    <3>2. CASE k = 1
      BY <1>1, <3>1, <3>2
    <3>3. CASE k # 1
      <4>1. k - 1 \in 1..Len(Tail(q)) /\ Tail(q)[k - 1] = q[k]
        BY <1>1, <1>3, <3>3
      <4> QED
        BY <3>1, <4>1 DEF Some
    <3> QED
      BY <3>2, <3>3
  <2>2. ASSUME Head(q).kind \in K \/ Some(Tail(q), K) PROVE Some(q, K)
    <3>1. CASE Head(q).kind \in K
      BY <1>1, <1>4, <3>1 DEF Some
    <3>2. CASE Some(Tail(q), K)
      <4>1. PICK k \in 1..Len(Tail(q)) : Tail(q)[k].kind \in K
        BY <3>2 DEF Some
      <4>2. k + 1 \in 1..Len(q) /\ q[k + 1].kind \in K
        BY <1>1, <1>2, <4>1
      <4> QED
        BY <4>2 DEF Some
    <3> QED
      BY <2>2, <3>1, <3>2
  <2> QED
    BY <2>1, <2>2
<1> QED
  BY <1>1, <1>2, <1>4, <1>5 DEF Only, Plains, Pieces

LEMMA EndsAppend ==
  ASSUME NEW q \in Seq(Events), NEW e \in Events
  PROVE  /\ ~Some(q, Ends) => EndsLast(Append(q, e))
         /\ EndsText(q) /\ (~Some(q, Ends) \/ e.kind = "tool")
              => EndsText(Append(q, e))
<1>1. /\ Len(q) \in Nat
      /\ Len(Append(q, e)) = Len(q) + 1
      /\ \A k \in 1..Len(q) : Append(q, e)[k] = q[k]
      /\ Append(q, e)[Len(q) + 1] = e
  BY AppendIs
<1>2. \A k \in 1..(Len(q) + 1) : k = Len(q) + 1 \/ k \in 1..Len(q)
  BY <1>1
<1>3. ~Some(q, Ends) => \A k \in 1..Len(q) : q[k].kind \notin Ends
  BY DEF Some
<1>4. ASSUME ~Some(q, Ends) PROVE EndsLast(Append(q, e))
  BY <1>1, <1>2, <1>3, <1>4 DEF EndsLast
<1>5. ASSUME EndsText(q), ~Some(q, Ends) \/ e.kind = "tool",
             NEW j \in 1..(Len(q) + 1), NEW k \in 1..(Len(q) + 1),
             Append(q, e)[j].kind \in Ends, j < k
      PROVE  Append(q, e)[k].kind = "tool"
  <2>1. j \in 1..Len(q)
    BY <1>1, <1>5
  <2>2. q[j].kind \in Ends
    BY <1>1, <1>5, <2>1
  <2>3. e.kind = "tool"
    BY <1>3, <1>5, <2>1, <2>2
  <2> QED
    BY <1>1, <1>2, <1>5, <2>1, <2>2, <2>3 DEF EndsText
<1> QED
  BY <1>1, <1>4, <1>5 DEF EndsText

LEMMA EndsTail ==
  ASSUME NEW q \in Seq(Events), q # <<>>
  PROVE  /\ EndsLast(q) => /\ EndsLast(Tail(q))
                           /\ Head(q).kind \in Ends => Tail(q) = <<>>
         /\ EndsText(q) => /\ EndsText(Tail(q))
                           /\ Head(q).kind \in Ends => Only(Tail(q), {"tool"})
<1> DEFINE n == Len(q) - 1
           t == Tail(q)
<1>1. /\ Len(q) = n + 1 /\ n \in Nat
      /\ Len(t) = n
      /\ \A k \in 1..n : t[k] = q[k + 1]
      /\ Head(q) = q[1]
      /\ n = 0 => t = <<>>
  <2>1. Tail(q) \in Seq(Events) /\ Len(Tail(q)) = Len(q) - 1
    BY TailIs
  <2>2. Len(Tail(q)) = 0 => Tail(q) = <<>>
    BY <2>1, EmptySeq
  <2> QED
    BY <2>1, <2>2, TailIs
<1> HIDE DEF n, t
<1>2. \A k \in 1..n : k + 1 \in 1..(n + 1) /\ 1 < k + 1
  BY <1>1
<1>3. 1 \in 1..(n + 1)
  BY <1>1
<1>4. ASSUME EndsLast(q), Head(q).kind \in Ends PROVE t = <<>>
  <2>1. 1 = n + 1
    BY <1>1, <1>3, <1>4 DEF EndsLast
  <2> QED
    BY <1>1, <2>1
<1>5. ASSUME EndsLast(q) PROVE EndsLast(t)
  <2>1. ASSUME NEW k \in 1..n, t[k].kind \in Ends PROVE k = n
    <3>1. k + 1 = n + 1
      BY <1>1, <1>2, <1>5, <2>1 DEF EndsLast
    <3> QED
      BY <1>1, <3>1
  <2> QED
    BY <1>1, <2>1 DEF EndsLast
<1>6. ASSUME EndsText(q), Head(q).kind \in Ends PROVE Only(t, {"tool"})
  BY <1>1, <1>2, <1>3, <1>6 DEF EndsText, Only
<1>7. ASSUME EndsText(q) PROVE EndsText(t)
  <2> SUFFICES ASSUME NEW j \in 1..n, NEW k \in 1..n,
                      t[j].kind \in Ends, j < k
               PROVE  t[k].kind = "tool"
    BY <1>1 DEF EndsText
  <2>1. j + 1 < k + 1
    BY <1>1
  <2> QED
    BY <1>1, <1>2, <1>7, <2>1 DEF EndsText
<1> QED
  BY <1>4, <1>5, <1>6, <1>7 DEF t

LEMMA NothingIs ==
  /\ \A K : ~Some(<<>>, K) /\ Only(<<>>, K)
  /\ EndsLast(<<>>) /\ EndsText(<<>>)
  BY DEF Some, Only, EndsLast, EndsText

LEMMA ReaderReturnsDoes ==
  ASSUME TypeOK, ReaderReturns
  PROVE  /\ reader.pc \in {"read", "send"} /\ reader'.pc = "closing"
         /\ reader.pc = "send" => ctxDone /\ reader'.hold = NoEvent
         /\ reader.pc = "read" => reader'.hold = reader.hold
         /\ reader'.err \in BOOLEAN
         /\ direct'.closed = TRUE /\ direct'.queue = direct.queue
<1>1. direct'.closed = TRUE /\ direct'.queue = direct.queue
  BY DEF ReaderReturns, TypeOK, Close
<1>2. CASE reader.pc = "read"
  <2>1. PICK err \in BOOLEAN :
          reader' = [reader EXCEPT !.pc = "closing", !.err = err]
    BY <1>2 DEF ReaderReturns
  <2> QED
    BY <1>1, <1>2, <2>1 DEF TypeOK
<1>3. CASE reader.pc = "send"
  <2>1. /\ reader' = [pc |-> "closing", hold |-> NoEvent, err |-> TRUE]
        /\ ctxDone
    BY <1>3 DEF ReaderReturns
  <2> QED
    BY <1>1, <1>3, <2>1
<1> QED
  BY <1>2, <1>3 DEF ReaderReturns

LEMMA ReceiveChunkIs ==
  ASSUME ReceiveChunk, NEW e, e = Head(raw.queue), NEW text,
         text = smoother.pending \o e.text
  PROVE  \/ /\ e.kind = "error"
            /\ smoother' = [smoother EXCEPT !.pc = "send", !.hold = e,
                                            !.last = TRUE]
         \/ /\ e.kind = "done"
            /\ smoother' = [smoother EXCEPT !.aiDone = TRUE]
         \/ /\ e.kind \notin Ends
            /\ smoother' = [[smoother EXCEPT !.pc = "send", !.last = FALSE,
                                             !.hold = Event("status", <<>>)]
                              EXCEPT !.pending = text, !.notified = TRUE]
         \/ /\ e.kind \notin Ends
            /\ smoother' = [smoother EXCEPT !.pending = text]
<1> DEFINE status == [Sending(Event("status", <<>>), FALSE)
                        EXCEPT !.pending = text, !.notified = TRUE]
           more   == [smoother EXCEPT !.pending = text]
           full   == Len(text) > MaxPending /\ ~smoother.notified
<1>1. \/ e.kind = "error" /\ smoother' = Sending(e, TRUE)
      \/ e.kind = "done" /\ smoother' = [smoother EXCEPT !.aiDone = TRUE]
      \/ e.kind \notin Ends /\ smoother' = IF full THEN status ELSE more
  BY DEF ReceiveChunk, Ends
<1> HIDE DEF full
<1> QED
  BY <1>1 DEF Sending

\* What ReceiveChunk leaves of the smoother's fields.
LEMMA ReceiveChunkDoes ==
  ASSUME TypeOK, ReceiveChunk, NEW e, e = Head(raw.queue)
  PROVE  /\ smoother.pc = "run" /\ raw.queue # <<>>
         /\ raw'.queue = Tail(raw.queue) /\ raw'.closed = raw.closed
         /\ smoother'.rawClosed = smoother.rawClosed
         /\ \/ /\ e.kind = "error"
               /\ smoother'.pc = "send" /\ smoother'.hold = e /\ smoother'.last
               /\ smoother'.pending = smoother.pending
               /\ smoother'.aiDone = smoother.aiDone
            \/ /\ e.kind = "done"
               /\ smoother'.pc = "run" /\ smoother'.hold = smoother.hold
               /\ smoother'.last = smoother.last
               /\ smoother'.pending = smoother.pending
               /\ smoother'.aiDone
            \/ /\ e.kind \notin Ends
               /\ smoother'.pc = "send"
               /\ smoother'.hold = Event("status", <<>>) /\ ~smoother'.last
               /\ smoother'.pending = smoother.pending \o e.text
               /\ smoother'.aiDone = smoother.aiDone
            \/ /\ e.kind \notin Ends
               /\ smoother'.pc = "run" /\ smoother'.hold = smoother.hold
               /\ smoother'.last = smoother.last
               /\ smoother'.pending = smoother.pending \o e.text
               /\ smoother'.aiDone = smoother.aiDone
<1> DEFINE text == smoother.pending \o e.text
<1>1. /\ smoother.pc = "run" /\ raw.queue # <<>>
      /\ raw'.queue = Tail(raw.queue) /\ raw'.closed = raw.closed
  BY DEF ReceiveChunk, TypeOK, Get
<1>2. \/ /\ e.kind = "error"
         /\ smoother' = [smoother EXCEPT !.pc = "send", !.hold = e,
                                         !.last = TRUE]
      \/ /\ e.kind = "done"
         /\ smoother' = [smoother EXCEPT !.aiDone = TRUE]
      \/ /\ e.kind \notin Ends
         /\ smoother' = [[smoother EXCEPT !.pc = "send", !.last = FALSE,
                                          !.hold = Event("status", <<>>)]
                           EXCEPT !.pending = text, !.notified = TRUE]
      \/ /\ e.kind \notin Ends
         /\ smoother' = [smoother EXCEPT !.pending = text]
  BY ReceiveChunkIs
<1> HIDE DEF text
<1>3. CASE /\ e.kind = "error"
           /\ smoother' = [smoother EXCEPT !.pc = "send", !.hold = e,
                                           !.last = TRUE]
  <2>1. /\ smoother'.pc = "send" /\ smoother'.hold = e /\ smoother'.last
        /\ smoother'.pending = smoother.pending
        /\ smoother'.aiDone = smoother.aiDone
        /\ smoother'.rawClosed = smoother.rawClosed
    BY <1>3 DEF TypeOK
  <2> QED
    BY <1>1, <1>3, <2>1
<1>4. CASE /\ e.kind = "done"
           /\ smoother' = [smoother EXCEPT !.aiDone = TRUE]
  <2>1. /\ smoother'.pc = smoother.pc /\ smoother'.hold = smoother.hold
        /\ smoother'.last = smoother.last /\ smoother'.aiDone
        /\ smoother'.pending = smoother.pending
        /\ smoother'.rawClosed = smoother.rawClosed
    BY <1>4 DEF TypeOK
  <2> QED
    BY <1>1, <1>4, <2>1
<1>5. CASE /\ e.kind \notin Ends
           /\ smoother' = [[smoother EXCEPT !.pc = "send", !.last = FALSE,
                                            !.hold = Event("status", <<>>)]
                             EXCEPT !.pending = text, !.notified = TRUE]
  <2>1. /\ smoother'.pc = "send" /\ ~smoother'.last
        /\ smoother'.hold = Event("status", <<>>)
        /\ smoother'.pending = text
        /\ smoother'.aiDone = smoother.aiDone
        /\ smoother'.rawClosed = smoother.rawClosed
    BY <1>5 DEF TypeOK
  <2> QED
    BY <1>1, <1>5, <2>1 DEF text
<1>6. CASE /\ e.kind \notin Ends
           /\ smoother' = [smoother EXCEPT !.pending = text]
  <2>1. /\ smoother'.pc = smoother.pc /\ smoother'.hold = smoother.hold
        /\ smoother'.last = smoother.last
        /\ smoother'.aiDone = smoother.aiDone
        /\ smoother'.pending = text
        /\ smoother'.rawClosed = smoother.rawClosed
    BY <1>6 DEF TypeOK
  <2> QED
    BY <1>1, <1>6, <2>1 DEF text
<1> QED
  BY <1>2, <1>3, <1>4, <1>5, <1>6

LEMMA TickDoes ==
  ASSUME TypeOK, Tick
  PROVE  /\ smoother.pc = "run"
         /\ smoother'.aiDone = smoother.aiDone
         /\ smoother'.rawClosed = smoother.rawClosed
         /\ out'.queue = out.queue
         /\ \/ \E n \in 1..ChunkSize :
                 /\ smoother.pending # <<>> /\ n <= Len(smoother.pending)
                 /\ smoother'.pc = "send" /\ ~smoother'.last
                 /\ smoother'.hold =
                      Event("delta", SubSeq(smoother.pending, 1, n))
                 /\ smoother'.pending =
                      SubSeq(smoother.pending, n + 1, Len(smoother.pending))
                 /\ out'.closed = out.closed
            \/ /\ smoother.pending = <<>> /\ smoother.aiDone
               /\ smoother'.pc = "send" /\ smoother'.last
               /\ smoother'.hold = Event("done", <<>>)
               /\ smoother'.pending = <<>> /\ out'.closed = out.closed
            \/ /\ smoother.pending = <<>> /\ ~smoother.aiDone
               /\ smoother.rawClosed
               /\ smoother'.pc = "ended" /\ smoother'.hold = NoEvent
               /\ smoother'.last = smoother.last
               /\ smoother'.pending = <<>> /\ out'.closed
            \/ /\ smoother.pending = <<>> /\ ~smoother.aiDone
               /\ smoother'.pc = "send" /\ ~smoother'.last
               /\ smoother'.hold = Event("status", <<>>)
               /\ smoother'.pending = <<>> /\ out'.closed = out.closed
<1> USE DEF TypeOK
<1>1. CASE smoother.pending # <<>>
  <2> DEFINE l == Len(smoother.pending)
             n == IF l < ChunkSize THEN l ELSE ChunkSize
  <2>1. l \in Nat \ {0}
    BY <1>1, RelayAssumption DEF Texts
  <2>2. n \in 1..ChunkSize /\ n <= l
    BY <2>1, RelayAssumption
  <2>3. smoother.pc = "run" /\ SendPiece
    BY <1>1 DEF Tick
  <2> HIDE DEF n
  <2>4. /\ smoother' = [[smoother EXCEPT !.pc = "send",
               !.hold = Event("delta", SubSeq(smoother.pending, 1, n)),
               !.last = FALSE]
               EXCEPT !.pending = SubSeq(smoother.pending, n + 1, l)]
        /\ UNCHANGED out
    BY <2>3 DEF SendPiece, Sending, n
  <2> HIDE DEF l
  <2>5. /\ smoother'.pc = "send" /\ ~smoother'.last
        /\ smoother'.hold = Event("delta", SubSeq(smoother.pending, 1, n))
        /\ smoother'.pending = SubSeq(smoother.pending, n + 1, l)
        /\ smoother'.aiDone = smoother.aiDone
        /\ smoother'.rawClosed = smoother.rawClosed
    BY <2>4
  <2> QED
    BY <1>1, <2>2, <2>3, <2>4, <2>5 DEF l
<1>2. CASE smoother.pending = <<>> /\ smoother.aiDone
  <2>1. /\ smoother.pc = "run" /\ UNCHANGED out
        /\ smoother' = [smoother EXCEPT !.pc = "send", !.last = TRUE,
                                        !.hold = Event("done", <<>>)]
    BY <1>2 DEF Tick, SendDone, Sending
  <2>2. /\ smoother'.pc = "send" /\ smoother'.last
        /\ smoother'.hold = Event("done", <<>>)
        /\ smoother'.pending = smoother.pending
        /\ smoother'.aiDone = smoother.aiDone
        /\ smoother'.rawClosed = smoother.rawClosed
    BY <2>1
  <2> QED
    BY <1>2, <2>1, <2>2
<1>3. CASE smoother.pending = <<>> /\ ~smoother.aiDone /\ smoother.rawClosed
  <2>1. /\ smoother.pc = "run" /\ out' = Close(out)
        /\ smoother' = [smoother EXCEPT !.pc = "ended", !.hold = NoEvent,
                                        !.pending = <<>>]
    BY <1>3 DEF Tick, SmootherReturns
  <2>2. /\ smoother'.pc = "ended" /\ smoother'.last = smoother.last
        /\ smoother'.hold = NoEvent
        /\ smoother'.pending = <<>>
        /\ smoother'.aiDone = smoother.aiDone
        /\ smoother'.rawClosed = smoother.rawClosed
    BY <2>1
  <2>3. out'.closed /\ out'.queue = out.queue
    BY <2>1 DEF Close
  <2> QED
    BY <1>3, <2>1, <2>2, <2>3
<1>4. CASE smoother.pending = <<>> /\ ~smoother.aiDone /\ ~smoother.rawClosed
  <2>1. /\ smoother.pc = "run" /\ UNCHANGED out
        /\ smoother' = [smoother EXCEPT !.pc = "send", !.last = FALSE,
                                        !.hold = Event("status", <<>>)]
    BY <1>4 DEF Tick, SendStatus, Sending
  <2>2. /\ smoother'.pc = "send" /\ ~smoother'.last
        /\ smoother'.hold = Event("status", <<>>)
        /\ smoother'.pending = smoother.pending
        /\ smoother'.aiDone = smoother.aiDone
        /\ smoother'.rawClosed = smoother.rawClosed
    BY <2>1
  <2> QED
    BY <1>4, <2>1, <2>2
<1> QED
  BY <1>1, <1>2, <1>3, <1>4

LEMMA SmootherSendsDoes ==
  ASSUME TypeOK, SmootherSends
  PROVE  /\ smoother.pc = "send"
         /\ out'.queue = Append(out.queue, smoother.hold)
         /\ smoother'.hold = NoEvent /\ smoother'.last = smoother.last
         /\ smoother'.aiDone = smoother.aiDone
         /\ smoother'.rawClosed = smoother.rawClosed
         /\ IF smoother.last
            THEN /\ smoother'.pc = "ended" /\ smoother'.pending = <<>>
                 /\ out'.closed
            ELSE /\ smoother'.pc = "run"
                 /\ smoother'.pending = smoother.pending
                 /\ out'.closed = out.closed
  BY DEF SmootherSends, TypeOK, Put, Close

LEMMA SmootherCancelledDoes ==
  ASSUME TypeOK, SmootherCancelled
  PROVE  /\ smoother.pc = "run" /\ ctxDone
         /\ smoother'.pc = "ended" /\ smoother'.pending = <<>>
         /\ smoother'.hold = NoEvent /\ smoother'.last = smoother.last
         /\ smoother'.aiDone = smoother.aiDone
         /\ smoother'.rawClosed = smoother.rawClosed
         /\ out'.queue = out.queue /\ out'.closed
  BY DEF SmootherCancelled, SmootherReturns, TypeOK, Close

LEMMA EmitDoes ==
  ASSUME TypeOK, NEW e, Emit(e)
  PROVE  /\ relay'.doc = relay.doc
         /\ relay'.smootherClosed = relay.smootherClosed
         /\ relay'.directClosed = relay.directClosed
         /\ relay'.emitted <=>
              \/ relay.emitted
              \/ e.kind \in {"delta", "tool", "done"} /\ ~relay.doc
         /\ tools'.sent = tools.sent
         /\ \/ /\ relay'.pc = relay.pc /\ relay'.ok = relay.ok
               /\ shown' = shown \o e.text
               /\ shownEnd' = IF e.kind \in Ends THEN e.kind ELSE shownEnd
               /\ tools'.shown =
                    IF e.kind = "tool" THEN tools.shown + 1 ELSE tools.shown
            \/ /\ relay'.pc = "returned" /\ ~relay'.ok
               /\ shown' = shown /\ shownEnd' = shownEnd
               /\ tools'.shown = tools.shown
<1> DEFINE business == e.kind \in {"delta", "tool", "done"} /\ ~relay.doc
           b == relay.emitted \/ business
           mark == [relay EXCEPT !.emitted = b]
<1>1. b \in BOOLEAN
  OBVIOUS
<1>2. \/ /\ relay' = mark
         /\ shown' = shown \o e.text
         /\ shownEnd' = IF e.kind \in Ends THEN e.kind ELSE shownEnd
         /\ tools' = IF e.kind = "tool" THEN [tools EXCEPT !.shown = @ + 1]
                                        ELSE tools
      \/ /\ relay' = [mark EXCEPT !.pc = "returned", !.ok = FALSE]
         /\ UNCHANGED <<received, tools>>
  BY DEF Emit, Ends
<1> HIDE DEF b
<1>3. /\ mark.doc = relay.doc /\ mark.pc = relay.pc /\ mark.ok = relay.ok
      /\ mark.smootherClosed = relay.smootherClosed
      /\ mark.directClosed = relay.directClosed
      /\ mark.emitted = b
      /\ mark \in [pc : {"loop", "returned"}, doc : BOOLEAN,
                    emitted : BOOLEAN, smootherClosed : BOOLEAN,
                    directClosed : BOOLEAN, ok : BOOLEAN]
  BY <1>1 DEF TypeOK
<1> HIDE DEF mark
<1>4. CASE /\ relay' = mark
           /\ shown' = shown \o e.text
           /\ shownEnd' = IF e.kind \in Ends THEN e.kind ELSE shownEnd
           /\ tools' = IF e.kind = "tool" THEN [tools EXCEPT !.shown = @ + 1]
                                          ELSE tools
  <2>1. /\ tools'.sent = tools.sent
        /\ tools'.shown =
             IF e.kind = "tool" THEN tools.shown + 1 ELSE tools.shown
    BY <1>4 DEF TypeOK
  <2> QED
    BY <1>3, <1>4, <2>1 DEF b
<1>5. CASE /\ relay' = [mark EXCEPT !.pc = "returned", !.ok = FALSE]
           /\ UNCHANGED <<received, tools>>
  <2>1. /\ relay'.doc = mark.doc
        /\ relay'.pc = "returned" /\ relay'.ok = FALSE
        /\ relay'.smootherClosed = mark.smootherClosed
        /\ relay'.directClosed = mark.directClosed
        /\ relay'.emitted = mark.emitted
    BY <1>3, <1>5
  <2> QED
    BY <1>3, <1>5, <2>1 DEF b, received
<1> QED
  BY <1>2, <1>4, <1>5

LEMMA EventIs ==
  /\ NoEvent.kind = "none" /\ NoEvent.text = <<>> /\ Plain(NoEvent)
  /\ \A k, t : Event(k, t).kind = k /\ Event(k, t).text = t
  /\ Len(<<>>) <= ChunkSize
  BY RelayAssumption DEF NoEvent, Event, Plain

LEMMA HeldIs ==
  ASSUME TypeOK
  PROVE  /\ reader.hold.kind # "none" => reader.hold \in Events
         /\ smoother.hold.kind # "none" => smoother.hold \in Events
  BY EventIs DEF TypeOK

LEMMA ReaderKindsStep ==
  ASSUME TypeOK, ReaderKinds, Next
  PROVE  ReaderKinds'
<1>1. CASE ReadText \/ ReadEnd \/ ReadTool
  <2>1. PICK e : /\ reader' = [reader EXCEPT !.pc = "send", !.hold = e]
                 /\ \/ \E text : e = Event("delta", text)
                    \/ \E k \in Ends \cup {"tool"} : e = Event(k, <<>>)
    <3>1. CASE ReadText
      BY <3>1 DEF ReadText
    <3>2. CASE ReadEnd
      BY <3>2 DEF ReadEnd, Ends
    <3>3. CASE ReadTool
      BY <3>3 DEF ReadTool
    <3> QED
      BY <1>1, <3>1, <3>2, <3>3
  <2>2. reader'.pc = "send" /\ reader'.hold = e
    BY <2>1 DEF TypeOK
  <2> QED
    BY <2>1, <2>2, EventIs DEF ReaderKinds, Plain, Ends
<1>2. CASE SendRaw \/ SendDirect
  <2>1. reader'.pc = "read" /\ reader'.hold = NoEvent
    BY <1>2 DEF SendRaw, SendDirect, TypeOK
  <2> QED
    BY <2>1, EventIs DEF ReaderKinds
<1>3. CASE ReaderReturns
  <2>1. CASE reader.pc = "send"
    <3>1. reader'.pc = "closing" /\ reader'.hold = NoEvent
      BY <1>3, <2>1, ReaderReturnsDoes
    <3> QED
      BY <3>1, EventIs DEF ReaderKinds
  <2>2. CASE reader.pc # "send"
    <3>1. reader'.pc = "closing" /\ reader'.hold = reader.hold
      BY <1>3, <2>2, ReaderReturnsDoes
    <3> QED
      BY <2>2, <3>1 DEF ReaderKinds
  <2> QED
    BY <2>1, <2>2
<1>4. CASE ReaderClosesRaw
  <2>1. reader.pc = "closing" /\ reader'.pc = "ended"
        /\ reader'.hold = reader.hold
    BY <1>4 DEF ReaderClosesRaw, TypeOK
  <2> QED
    BY <2>1 DEF ReaderKinds
<1>5. CASE Smoother \/ Relay \/ HeartbeatFails \/ Cancel
  <2>1. UNCHANGED reader
    BY <1>5 DEF Smoother, Relay, ReceiveChunk, SeeRawClosed, Tick,
                SmootherSends, SmootherCancelled, RelayDirect, RelaySmoothed,
                SeeClosed, RelayFinishes, RelayCancelled, HeartbeatFails,
                RelayAborts, Cancel
  <2> QED
    BY <2>1 DEF ReaderKinds
<1> QED
  BY <1>1, <1>2, <1>3, <1>4, <1>5 DEF Next, Reader

LEMMA Frames ==
  /\ Reader => UNCHANGED <<smoother, out, relay, ctxDone, shown, shownEnd>>
  /\ Smoother => UNCHANGED <<reader, direct, relay, ctxDone, source, sourceEnd,
                             shown, shownEnd, tools>>
  /\ Relay \/ HeartbeatFails =>
       UNCHANGED <<reader, raw, smoother, ctxDone, source, sourceEnd>>
  /\ Cancel => UNCHANGED <<reader, raw, direct, smoother, out, relay, source,
                           sourceEnd, shown, shownEnd, tools>>
<1>1. Reader => UNCHANGED <<smoother, out, relay, ctxDone, shown, shownEnd>>
  BY DEF Reader, ReadText, ReadEnd, ReadTool, SendRaw, SendDirect,
         ReaderReturns, ReaderClosesRaw, received
<1>2. Smoother => UNCHANGED <<reader, direct, relay, ctxDone, source, sourceEnd,
                              shown, shownEnd, tools>>
  BY DEF Smoother, ReceiveChunk, SeeRawClosed, Tick, SmootherSends,
         SmootherCancelled, produced, received
<1>3. Relay \/ HeartbeatFails =>
        UNCHANGED <<reader, raw, smoother, ctxDone, source, sourceEnd>>
  BY DEF Relay, RelayDirect, RelaySmoothed, SeeClosed, RelayFinishes,
         RelayCancelled, HeartbeatFails, RelayAborts, produced
<1>4. Cancel => UNCHANGED <<reader, raw, direct, smoother, out, relay, source,
                            sourceEnd, shown, shownEnd, tools>>
  BY DEF Cancel, produced, received
<1> QED
  BY <1>1, <1>2, <1>3, <1>4

\* The protocol of an attempt does not change.
LEMMA DocFixed ==
  ASSUME TypeOK, Next
  PROVE  relay'.doc = relay.doc
<1>1. CASE Reader \/ Smoother \/ Cancel
  BY <1>1, Frames
<1>2. CASE RelayDirect \/ RelaySmoothed
  BY <1>2, EmitDoes DEF RelayDirect, RelaySmoothed
<1>3. CASE SeeClosed
  BY <1>3 DEF SeeClosed, TypeOK
<1>4. CASE RelayFinishes
  <2>1. PICK b : relay' = [relay EXCEPT !.pc = "returned", !.ok = b]
    BY <1>4 DEF RelayFinishes
  <2> QED
    BY <2>1 DEF TypeOK
<1>5. CASE RelayCancelled \/ HeartbeatFails
  BY <1>5 DEF RelayCancelled, HeartbeatFails, RelayAborts, TypeOK
<1> QED
  BY <1>1, <1>2, <1>3, <1>4, <1>5 DEF Next, Relay

LEMMA SmootherKindsStep ==
  ASSUME TypeOK, KindsInv, Next
  PROVE  SmootherKinds'
<1>d. relay'.doc = relay.doc
  BY DocFixed
<1>s. SmootherKinds
  BY DEF KindsInv
<1>1. CASE ReceiveChunk
  <2> DEFINE e == Head(raw.queue)
  <2>1. raw.queue # <<>> /\ raw.queue \in Seq(Events)
    BY <1>1, ReceiveChunkDoes, QueuesAre
  <2>2. ~relay.doc
    BY <2>1 DEF KindsInv, QueueKinds
  <2>3. Plain(e) /\ e.kind \in {"delta", "done", "error"}
    BY <2>1, <2>2, KindsTail DEF KindsInv, QueueKinds
  <2> HIDE DEF e
  <2>4. smoother.pc = "run" /\ smoother.hold.kind = "none"
    BY <1>1, <1>s, ReceiveChunkDoes DEF SmootherKinds
  <2>5. \/ smoother'.pc = "send" /\ smoother'.hold = e /\ smoother'.last
           /\ e.kind = "error"
        \/ smoother'.pc = "run" /\ smoother'.hold = smoother.hold
        \/ smoother'.pc = "send" /\ smoother'.hold = Event("status", <<>>)
           /\ ~smoother'.last
    BY <1>1, <2>4, ReceiveChunkDoes DEF e
  <2>6. CASE smoother'.pc = "send" /\ smoother'.hold = e /\ smoother'.last
             /\ e.kind = "error"
    BY <1>d, <2>2, <2>3, <2>6, EventIs DEF SmootherKinds, Plain, Ends
  <2>7. CASE smoother'.pc = "run" /\ smoother'.hold = smoother.hold
    BY <1>d, <1>s, <2>2, <2>4, <2>7 DEF SmootherKinds
  <2>8. CASE smoother'.pc = "send" /\ smoother'.hold = Event("status", <<>>)
             /\ ~smoother'.last
    BY <1>d, <2>2, <2>8, EventIs DEF SmootherKinds, Plain, Ends
  <2> QED
    BY <2>5, <2>6, <2>7, <2>8
<1>2. CASE SeeRawClosed
  <2>1. /\ smoother'.pc = smoother.pc /\ smoother'.hold = smoother.hold
        /\ smoother'.last = smoother.last
        /\ smoother'.pending = smoother.pending
        /\ smoother'.aiDone = smoother.aiDone
    BY <1>2 DEF SeeRawClosed, TypeOK
  <2> QED
    BY <1>d, <1>s, <2>1 DEF SmootherKinds
<1>3. CASE Tick
  <2>1. \A n \in 1..ChunkSize : n <= Len(smoother.pending) =>
          Len(SubSeq(smoother.pending, 1, n)) <= ChunkSize
    BY RelayAssumption DEF TypeOK, Texts
  <2>2. smoother'.aiDone = smoother.aiDone
    BY <1>3, TickDoes
  <2>3. \/ \E n \in 1..ChunkSize :
             /\ smoother.pending # <<>> /\ n <= Len(smoother.pending)
             /\ smoother'.pc = "send" /\ ~smoother'.last
             /\ smoother'.hold =
                  Event("delta", SubSeq(smoother.pending, 1, n))
        \/ /\ smoother'.pc = "send" /\ smoother'.last /\ smoother.aiDone
           /\ smoother'.hold = Event("done", <<>>)
        \/ /\ smoother'.pc = "ended" /\ smoother'.hold = NoEvent
           /\ smoother'.pending = <<>>
        \/ /\ smoother'.pc = "send" /\ ~smoother'.last
           /\ smoother'.hold = Event("status", <<>>)
           /\ smoother'.pending = <<>>
    BY <1>3, TickDoes
  <2>4. CASE \E n \in 1..ChunkSize :
               /\ smoother.pending # <<>> /\ n <= Len(smoother.pending)
               /\ smoother'.pc = "send" /\ ~smoother'.last
               /\ smoother'.hold =
                    Event("delta", SubSeq(smoother.pending, 1, n))
    <3>1. PICK piece : /\ smoother'.hold = Event("delta", piece)
                       /\ Len(piece) <= ChunkSize
      BY <2>1, <2>4
    <3>2. smoother'.pc = "send" /\ ~smoother'.last /\ ~relay.doc
      BY <1>s, <2>4 DEF SmootherKinds
    <3>3. smoother'.hold.kind = "delta" /\ Len(smoother'.hold.text) <= ChunkSize
      BY <3>1, EventIs
    <3> QED
      BY <1>d, <3>2, <3>3 DEF SmootherKinds, Plain, Ends
  <2>5. CASE /\ smoother'.pc = "send" /\ smoother'.last /\ smoother.aiDone
             /\ smoother'.hold = Event("done", <<>>)
    BY <1>d, <1>s, <2>2, <2>5, EventIs DEF SmootherKinds, Plain, Ends
  <2>6. CASE /\ smoother'.pc = "ended" /\ smoother'.hold = NoEvent
             /\ smoother'.pending = <<>>
    BY <1>d, <1>s, <2>2, <2>6, EventIs DEF SmootherKinds
  <2>7. CASE /\ smoother'.pc = "send" /\ ~smoother'.last
             /\ smoother'.hold = Event("status", <<>>)
             /\ smoother'.pending = <<>>
    BY <1>d, <1>s, <2>2, <2>7, EventIs DEF SmootherKinds, Plain, Ends
  <2> QED
    BY <2>3, <2>4, <2>5, <2>6, <2>7
<1>4. CASE SmootherSends
  <2>1. /\ smoother'.pc # "send" /\ smoother'.hold = NoEvent
        /\ smoother'.aiDone = smoother.aiDone
        /\ smoother'.pending \in {<<>>, smoother.pending}
    BY <1>4, SmootherSendsDoes
  <2> QED
    BY <1>d, <1>s, <2>1, EventIs DEF SmootherKinds
<1>5. CASE SmootherCancelled
  <2>1. /\ smoother'.pc = "ended" /\ smoother'.hold = NoEvent
        /\ smoother'.aiDone = smoother.aiDone
        /\ smoother'.pending = <<>>
    BY <1>5, SmootherCancelledDoes
  <2> QED
    BY <1>d, <1>s, <2>1, EventIs DEF SmootherKinds
<1>6. CASE Reader \/ Relay \/ HeartbeatFails \/ Cancel
  BY <1>6, <1>d, <1>s, Frames DEF SmootherKinds
<1> QED
  BY <1>1, <1>2, <1>3, <1>4, <1>5, <1>6 DEF Next, Smoother

LEMMA QueueKindsStep ==
  ASSUME TypeOK, KindsInv, Next
  PROVE  QueueKinds'
<1>d. relay'.doc = relay.doc
  BY DocFixed
<1>q. /\ raw.queue \in Seq(Events)
      /\ direct.queue \in Seq(Events)
      /\ out.queue \in Seq(Events)
  BY QueuesAre
<1>k. QueueKinds
  BY DEF KindsInv
<1>1. CASE SendRaw
  <2>1. /\ ~relay.doc /\ reader.hold \in Events
        /\ reader.hold.kind \in {"delta", "done", "error"} /\ Plain(reader.hold)
        /\ raw'.queue = Append(raw.queue, reader.hold)
        /\ UNCHANGED <<direct, out>>
    BY <1>1, HeldIs
    DEF SendRaw, GoesDirect, Put, TypeOK, KindsInv, ReaderKinds
  <2>2. /\ Plains(Append(raw.queue, reader.hold))
        /\ Only(Append(raw.queue, reader.hold), {"delta", "done", "error"})
    BY <1>k, <1>q, <2>1, KindsAppend DEF QueueKinds
  <2> QED
    BY <1>d, <1>k, <2>1, <2>2 DEF QueueKinds
<1>2. CASE SendDirect
  <2>1. /\ reader.hold \in Events /\ Plain(reader.hold)
        /\ IF relay.doc
           THEN reader.hold.kind \in {"delta", "done", "error", "tool"}
           ELSE reader.hold.kind \in {"tool"}
        /\ direct'.queue = Append(direct.queue, reader.hold)
        /\ UNCHANGED <<raw, out>>
    BY <1>2, HeldIs
    DEF SendDirect, GoesDirect, Put, TypeOK, KindsInv, ReaderKinds
  <2>2. /\ Plains(Append(direct.queue, reader.hold))
        /\ IF relay.doc
           THEN Only(Append(direct.queue, reader.hold),
                     {"delta", "done", "error", "tool"})
           ELSE Only(Append(direct.queue, reader.hold), {"tool"})
    BY <1>k, <1>q, <2>1, KindsAppend DEF QueueKinds
  <2> QED
    BY <1>d, <1>k, <2>1, <2>2 DEF QueueKinds
<1>3. CASE ReadText \/ ReadEnd \/ ReadTool
  <2>1. UNCHANGED <<raw, direct, out>>
    BY <1>3 DEF ReadText, ReadEnd, ReadTool
  <2> QED
    BY <1>d, <1>k, <2>1 DEF QueueKinds
<1>4. CASE ReaderReturns \/ ReaderClosesRaw
  <2>1. /\ raw'.queue = raw.queue /\ direct'.queue = direct.queue
        /\ UNCHANGED out
    BY <1>4 DEF ReaderReturns, ReaderClosesRaw, Close, TypeOK
  <2> QED
    BY <1>d, <1>k, <2>1 DEF QueueKinds
<1>5. CASE ReceiveChunk
  <2>1. /\ raw.queue # <<>> /\ raw'.queue = Tail(raw.queue)
        /\ UNCHANGED <<direct, out>>
    BY <1>5, ReceiveChunkDoes DEF ReceiveChunk
  <2>2. /\ ~relay.doc /\ Plains(Tail(raw.queue))
        /\ Only(Tail(raw.queue), {"delta", "done", "error"})
    BY <1>k, <1>q, <2>1, KindsTail DEF QueueKinds
  <2> QED
    BY <1>d, <1>k, <2>1, <2>2 DEF QueueKinds
<1>6. CASE SeeRawClosed
  BY <1>6, <1>d, <1>k DEF SeeRawClosed, QueueKinds
<1>7. CASE Tick \/ SmootherCancelled
  <2>1. out'.queue = out.queue /\ UNCHANGED <<raw, direct>>
    BY <1>7, TickDoes, SmootherCancelledDoes DEF Tick, SmootherCancelled
  <2> QED
    BY <1>d, <1>k, <2>1 DEF QueueKinds
<1>8. CASE SmootherSends
  <2>1. /\ out'.queue = Append(out.queue, smoother.hold)
        /\ smoother.hold \in Events
        /\ UNCHANGED <<raw, direct>>
    BY <1>8, SmootherSendsDoes, HeldIs
    DEF KindsInv, SmootherKinds, SmootherSends
  <2>2. /\ Plain(smoother.hold) /\ Len(smoother.hold.text) <= ChunkSize
        /\ IF relay.doc
           THEN smoother.hold.kind \in {"status"}
           ELSE smoother.hold.kind \in {"delta", "status", "done", "error"}
    BY <1>8, SmootherSendsDoes DEF KindsInv, SmootherKinds
  <2>3. /\ Pieces(Append(out.queue, smoother.hold))
        /\ IF relay.doc
           THEN Only(Append(out.queue, smoother.hold), {"status"})
           ELSE Only(Append(out.queue, smoother.hold),
                     {"delta", "status", "done", "error"})
    BY <1>k, <1>q, <2>1, <2>2, KindsAppend DEF QueueKinds
  <2> QED
    BY <1>d, <1>k, <2>1, <2>3 DEF QueueKinds
<1>9. CASE RelayDirect
  <2>1. /\ direct.queue # <<>> /\ direct'.queue = Tail(direct.queue)
        /\ UNCHANGED <<raw, out>>
    BY <1>9 DEF RelayDirect, Get, TypeOK
  <2>2. /\ Plains(Tail(direct.queue))
        /\ \A K : Only(direct.queue, K) => Only(Tail(direct.queue), K)
    BY <1>k, <1>q, <2>1, KindsTail DEF QueueKinds
  <2> QED
    BY <1>d, <1>k, <2>1, <2>2 DEF QueueKinds
<1>10. CASE RelaySmoothed
  <2>1. /\ out.queue # <<>> /\ out'.queue = Tail(out.queue)
        /\ UNCHANGED <<raw, direct>>
    BY <1>10 DEF RelaySmoothed, Get, TypeOK
  <2>2. /\ Pieces(Tail(out.queue))
        /\ \A K : Only(out.queue, K) => Only(Tail(out.queue), K)
    BY <1>k, <1>q, <2>1, KindsTail DEF QueueKinds
  <2> QED
    BY <1>d, <1>k, <2>1, <2>2 DEF QueueKinds
<1>11. CASE \/ SeeClosed \/ RelayFinishes \/ RelayCancelled \/ HeartbeatFails
            \/ Cancel
  <2>1. UNCHANGED <<raw, direct, out>>
    BY <1>11 DEF SeeClosed, RelayFinishes, RelayCancelled, HeartbeatFails,
                 RelayAborts, Cancel
  <2> QED
    BY <1>d, <1>k, <2>1 DEF QueueKinds
<1> QED
  BY <1>1, <1>2, <1>3, <1>4, <1>5, <1>6, <1>7, <1>8, <1>9, <1>10, <1>11
  DEF Next, Reader, Smoother, Relay

LEMMA ClosingStep ==
  ASSUME TypeOK, KindsInv, ClosingInv, Next
  PROVE  ClosingInv'
<1>1. CASE ReadText \/ ReadEnd \/ ReadTool
  <2>1. /\ reader.pc = "read" /\ reader'.pc = "send"
        /\ UNCHANGED <<raw, direct, smoother, out, relay>>
    BY <1>1 DEF ReadText, ReadEnd, ReadTool, TypeOK
  <2> QED
    BY <2>1 DEF ClosingInv, ReaderStopped
<1>2. CASE SendRaw
  <2>1. /\ reader.pc = "send" /\ reader'.pc = "read"
        /\ raw'.closed = raw.closed
        /\ UNCHANGED <<direct, smoother, out, relay>>
    BY <1>2 DEF SendRaw, Put, TypeOK
  <2> QED
    BY <2>1 DEF ClosingInv, ReaderStopped
<1>3. CASE SendDirect
  <2>1. /\ reader.pc = "send" /\ reader'.pc = "read"
        /\ direct'.closed = direct.closed
        /\ UNCHANGED <<raw, smoother, out, relay>>
    BY <1>3 DEF SendDirect, Put, TypeOK
  <2> QED
    BY <2>1 DEF ClosingInv, ReaderStopped
<1>4. CASE ReaderReturns
  <2>1. /\ reader.pc \in {"read", "send"} /\ reader'.pc = "closing"
        /\ direct'.closed /\ direct'.queue = direct.queue
        /\ UNCHANGED <<raw, smoother, out, relay>>
    BY <1>4, ReaderReturnsDoes DEF ReaderReturns
  <2> QED
    BY <2>1 DEF ClosingInv, ReaderStopped
<1>5. CASE ReaderClosesRaw
  <2>1. /\ reader.pc = "closing" /\ reader'.pc = "ended"
        /\ raw'.closed /\ raw'.queue = raw.queue
        /\ UNCHANGED <<direct, smoother, out, relay>>
    BY <1>5 DEF ReaderClosesRaw, Close, TypeOK
  <2> QED
    BY <2>1 DEF ClosingInv, ReaderStopped
<1>6. CASE ReceiveChunk
  <2>1. /\ smoother.pc = "run" /\ smoother'.pc # "ended"
        /\ smoother'.rawClosed = smoother.rawClosed
        /\ raw.queue # <<>> /\ raw'.closed = raw.closed
        /\ UNCHANGED <<reader, direct, out, relay>>
    BY <1>6, ReceiveChunkDoes DEF ReceiveChunk
  <2> QED
    BY <2>1 DEF ClosingInv, ReaderStopped
<1>7. CASE SeeRawClosed
  <2>1. /\ smoother'.pc = smoother.pc /\ smoother'.pending = smoother.pending
        /\ raw.closed /\ raw.queue = <<>>
        /\ UNCHANGED <<reader, raw, direct, out, relay>>
    BY <1>7 DEF SeeRawClosed, TypeOK
  <2> QED
    BY <2>1 DEF ClosingInv, ReaderStopped
<1>8. CASE Tick \/ SmootherCancelled
  <2>1. /\ smoother.pc = "run"
        /\ smoother'.rawClosed = smoother.rawClosed
        /\ out'.queue = out.queue
        /\ \/ /\ smoother'.pc = "ended" /\ smoother'.pending = <<>>
              /\ out'.closed
           \/ smoother'.pc = "send" /\ out'.closed = out.closed
        /\ UNCHANGED <<reader, raw, direct, relay>>
    BY <1>8, TickDoes, SmootherCancelledDoes DEF Tick, SmootherCancelled
  <2> QED
    BY <2>1 DEF ClosingInv, ReaderStopped
<1>9. CASE SmootherSends
  <2>1. /\ smoother.pc = "send"
        /\ smoother'.rawClosed = smoother.rawClosed
        /\ \/ /\ smoother'.pc = "ended" /\ smoother'.pending = <<>>
              /\ out'.closed
           \/ smoother'.pc = "run" /\ out'.closed = out.closed
        /\ UNCHANGED <<reader, raw, direct, relay>>
    BY <1>9, SmootherSendsDoes DEF SmootherSends
  <2> QED
    BY <2>1 DEF ClosingInv, ReaderStopped
<1>10. CASE RelayDirect
  <2>1. /\ direct.queue # <<>> /\ direct'.closed = direct.closed
        /\ relay'.directClosed = relay.directClosed
        /\ relay'.smootherClosed = relay.smootherClosed
        /\ UNCHANGED <<reader, raw, smoother, out>>
    BY <1>10, EmitDoes DEF RelayDirect, Get, TypeOK
  <2> QED
    BY <2>1 DEF ClosingInv, ReaderStopped
<1>11. CASE RelaySmoothed
  <2>1. /\ out.queue # <<>> /\ out'.closed = out.closed
        /\ relay'.directClosed = relay.directClosed
        /\ relay'.smootherClosed = relay.smootherClosed
        /\ UNCHANGED <<reader, raw, smoother, direct>>
    BY <1>11, EmitDoes DEF RelaySmoothed, Get, TypeOK
  <2> QED
    BY <2>1 DEF ClosingInv, ReaderStopped
<1>12. CASE SeeClosed
  <2>1. \/ /\ direct.closed /\ direct.queue = <<>>
           /\ relay'.smootherClosed = relay.smootherClosed
        \/ /\ out.closed /\ out.queue = <<>>
           /\ relay'.directClosed = relay.directClosed
    BY <1>12 DEF SeeClosed, TypeOK
  <2>2. UNCHANGED <<reader, raw, smoother, out, direct>>
    BY <1>12 DEF SeeClosed
  <2> QED
    BY <2>1, <2>2 DEF ClosingInv, ReaderStopped
<1>13. CASE RelayFinishes \/ RelayCancelled \/ HeartbeatFails
  <2>1. PICK b : relay' = [relay EXCEPT !.pc = "returned", !.ok = b]
    BY <1>13 DEF RelayFinishes, RelayCancelled, HeartbeatFails, RelayAborts
  <2>2. /\ relay'.directClosed = relay.directClosed
        /\ relay'.smootherClosed = relay.smootherClosed
    BY <2>1 DEF TypeOK
  <2>3. UNCHANGED <<reader, raw, smoother, out, direct>>
    BY <1>13 DEF RelayFinishes, RelayCancelled, HeartbeatFails, RelayAborts
  <2> QED
    BY <2>2, <2>3 DEF ClosingInv, ReaderStopped
<1>14. CASE Cancel
  BY <1>14, Frames DEF ClosingInv, ReaderStopped
<1> QED
  BY <1>1, <1>2, <1>3, <1>4, <1>5, <1>6, <1>7, <1>8, <1>9, <1>10, <1>11,
     <1>12, <1>13, <1>14 DEF Next, Reader, Smoother, Relay

\* What the relay does to what the client sees, and when it does not.
LEMMA OtherSteps ==
  ASSUME TypeOK, Next, ~RelayDirect, ~RelaySmoothed
  PROVE  /\ UNCHANGED <<shown, shownEnd>> /\ tools'.shown = tools.shown
         /\ relay'.emitted = relay.emitted
<1>1. CASE Reader
  <2>1. UNCHANGED <<shown, shownEnd, relay>>
    BY <1>1, Frames
  <2>2. tools'.shown = tools.shown
    BY <1>1 DEF Reader, ReadText, ReadEnd, ReadTool, SendRaw, SendDirect,
                ReaderReturns, ReaderClosesRaw, TypeOK
  <2> QED
    BY <2>1, <2>2
<1>2. CASE Smoother \/ Cancel
  BY <1>2, Frames
<1>3. CASE SeeClosed
  BY <1>3 DEF SeeClosed, received, TypeOK
<1>4. CASE RelayFinishes \/ RelayCancelled \/ HeartbeatFails
  <2>1. PICK b : relay' = [relay EXCEPT !.pc = "returned", !.ok = b]
    BY <1>4 DEF RelayFinishes, RelayCancelled, HeartbeatFails, RelayAborts
  <2>2. UNCHANGED <<shown, shownEnd, tools>>
    BY <1>4 DEF RelayFinishes, RelayCancelled, HeartbeatFails, RelayAborts,
                received
  <2> QED
    BY <2>1, <2>2 DEF TypeOK
<1> QED
  BY <1>1, <1>2, <1>3, <1>4 DEF Next, Relay

LEMMA EmittedStep ==
  ASSUME TypeOK, KindsInv, EmittedInv, Next
  PROVE  EmittedInv'
<1>d. relay'.doc = relay.doc
  BY DocFixed
<1>t. shown = <<>> => shown \o <<>> = <<>>
  OBVIOUS
<1>1. ASSUME NEW e, Emit(e), Plain(e),
             ~relay.doc => e.kind \in {"delta", "tool", "done", "error", "status"}
      PROVE  EmittedInv'
  <2> SUFFICES ASSUME ~relay.doc, ~relay'.emitted
               PROVE  shown' = <<>> /\ tools'.shown = 0 /\ shownEnd' # "done"
    BY <1>d DEF EmittedInv
  <2>1. ~relay.emitted /\ e.kind \in {"error", "status"}
    BY <1>1, EmitDoes
  <2>2. shown = <<>> /\ tools.shown = 0 /\ shownEnd # "done" /\ e.text = <<>>
    BY <1>1, <2>1 DEF EmittedInv, Plain
  <2> QED
    BY <1>1, <1>t, <2>1, <2>2, EmitDoes
<1>2. CASE RelayDirect
  <2>1. /\ direct.queue # <<>> /\ direct.queue \in Seq(Events)
        /\ Emit(Head(direct.queue))
    BY <1>2, QueuesAre DEF RelayDirect
  <2>2. /\ Plain(Head(direct.queue))
        /\ ~relay.doc => Head(direct.queue).kind \in {"tool"}
    BY <2>1, KindsTail DEF KindsInv, QueueKinds
  <2> QED
    BY <1>1, <2>1, <2>2
<1>3. CASE RelaySmoothed
  <2>1. /\ out.queue # <<>> /\ out.queue \in Seq(Events)
        /\ Emit(Head(out.queue))
    BY <1>3, QueuesAre DEF RelaySmoothed
  <2>2. /\ Plain(Head(out.queue))
        /\ ~relay.doc =>
             Head(out.queue).kind \in {"delta", "status", "done", "error"}
    BY <2>1, KindsTail DEF KindsInv, QueueKinds
  <2> QED
    BY <1>1, <2>1, <2>2
<1>4. CASE ~RelayDirect /\ ~RelaySmoothed
  BY <1>4, <1>d, OtherSteps DEF EmittedInv
<1> QED
  BY <1>2, <1>3, <1>4

\* Before the service has ended its text no event ends it.
LEMMA OpenQueue ==
  ASSUME NEW q \in Seq(Events), Only(q, {"delta", "tool", "status", "open"})
  PROVE  /\ ~Some(q, Ends)
         /\ \A x : Only(q, {"delta", "tool", "status", x})
<1>1. \A k \in 1..Len(q) : q[k] \in Events
  BY LenProperties
<1>2. \A k \in 1..Len(q) : q[k].kind \in {"delta", "tool", "status"}
  BY <1>1 DEF Only, Events, Kinds
<1> QED
  BY <1>2 DEF Only, Some, Ends

LEMMA SameEndStep ==
  ASSUME TypeOK, KindsInv, ClosingInv, SameEnd, OneEnd, Next
  PROVE  SameEnd'
<1>q. /\ raw.queue \in Seq(Events)
      /\ direct.queue \in Seq(Events)
      /\ out.queue \in Seq(Events)
  BY QueuesAre
<1>1. CASE ReadText
  <2>1. /\ sourceEnd = "open" /\ reader'.hold.kind = "delta"
        /\ UNCHANGED <<raw, direct, smoother, out, sourceEnd, shownEnd>>
    BY <1>1, EventIs DEF ReadText, received, TypeOK
  <2> QED
    BY <2>1 DEF SameEnd, Agree, Ends
<1>2. CASE ReadEnd
  <2>1. /\ sourceEnd = "open" /\ sourceEnd' \in Ends
        /\ reader'.hold.kind = sourceEnd'
        /\ UNCHANGED <<raw, direct, smoother, out, shownEnd>>
    BY <1>2, EventIs DEF ReadEnd, received, TypeOK, Ends
  <2>2. /\ Only(raw.queue, {"delta", "tool", "status", sourceEnd'})
        /\ Only(direct.queue, {"delta", "tool", "status", sourceEnd'})
        /\ Only(out.queue, {"delta", "tool", "status", sourceEnd'})
    BY <1>q, <2>1, OpenQueue DEF SameEnd, Agree
  <2> QED
    BY <2>1, <2>2 DEF SameEnd, Agree, Ends
<1>3. CASE ReadTool
  <2>1. /\ reader'.hold.kind = "tool"
        /\ UNCHANGED <<raw, direct, smoother, out, sourceEnd, shownEnd>>
    BY <1>3, EventIs DEF ReadTool, produced, received, TypeOK
  <2> QED
    BY <2>1 DEF SameEnd, Agree, Ends
<1>4. CASE SendRaw
  <2>1. /\ reader'.hold = NoEvent /\ reader.hold \in Events
        /\ reader.hold.kind \in {"delta", "done", "error"}
        /\ raw'.queue = Append(raw.queue, reader.hold)
        /\ UNCHANGED <<direct, smoother, out, sourceEnd, shownEnd>>
    BY <1>4, HeldIs DEF SendRaw, GoesDirect, Put, TypeOK, produced, received,
                        KindsInv, ReaderKinds
  <2>2. reader.hold.kind \in {"delta", "tool", "status", sourceEnd}
    BY <2>1 DEF SameEnd, Ends
  <2>3. Agree(Append(raw.queue, reader.hold))
    BY <1>q, <2>1, <2>2, KindsAppend DEF SameEnd, Agree
  <2> QED
    BY <2>1, <2>3, EventIs DEF SameEnd, Agree, Ends
<1>5. CASE SendDirect
  <2>1. /\ reader'.hold = NoEvent /\ reader.hold \in Events
        /\ reader.hold.kind \in {"delta", "done", "error", "tool"}
        /\ direct'.queue = Append(direct.queue, reader.hold)
        /\ UNCHANGED <<raw, smoother, out, sourceEnd, shownEnd>>
    BY <1>5, HeldIs DEF SendDirect, GoesDirect, Put, TypeOK, produced, received,
                        KindsInv, ReaderKinds
  <2>2. reader.hold.kind \in {"delta", "tool", "status", sourceEnd}
    BY <2>1 DEF SameEnd, Ends
  <2>3. Agree(Append(direct.queue, reader.hold))
    BY <1>q, <2>1, <2>2, KindsAppend DEF SameEnd, Agree
  <2> QED
    BY <2>1, <2>3, EventIs DEF SameEnd, Agree, Ends
<1>6. CASE ReaderReturns \/ ReaderClosesRaw
  <2>1. reader'.hold \in {reader.hold, NoEvent}
    BY <1>6, ReaderReturnsDoes DEF ReaderClosesRaw, TypeOK
  <2>2. /\ raw'.queue = raw.queue /\ direct'.queue = direct.queue
        /\ UNCHANGED <<smoother, out, sourceEnd, shownEnd>>
    BY <1>6 DEF ReaderReturns, ReaderClosesRaw, Close, TypeOK, produced,
                received
  <2> QED
    BY <2>1, <2>2, EventIs DEF SameEnd, Agree, Ends
<1>7. CASE ReceiveChunk
  <2> DEFINE e == Head(raw.queue)
  <2>1. /\ raw.queue # <<>> /\ raw'.queue = Tail(raw.queue)
        /\ smoother.pc = "run"
        /\ UNCHANGED <<reader, direct, out, sourceEnd, shownEnd>>
    BY <1>7, ReceiveChunkDoes DEF ReceiveChunk, produced, received
  <2>2. /\ Agree(Tail(raw.queue))
        /\ e.kind \in {"delta", "tool", "status", sourceEnd}
    BY <1>q, <2>1, KindsTail DEF SameEnd, Agree
  <2>3. smoother.hold.kind = "none"
    BY <2>1 DEF KindsInv, SmootherKinds
  <2> HIDE DEF e
  <2>4. \/ e.kind = "error" /\ smoother'.hold = e
           /\ smoother'.aiDone = smoother.aiDone
        \/ e.kind = "done" /\ smoother'.hold = smoother.hold
        \/ /\ smoother'.hold = smoother.hold
              \/ smoother'.hold = Event("status", <<>>)
           /\ smoother'.aiDone = smoother.aiDone
    BY <1>7, ReceiveChunkDoes DEF e
  <2>5. CASE e.kind = "error" /\ smoother'.hold = e
             /\ smoother'.aiDone = smoother.aiDone
    BY <2>1, <2>2, <2>5 DEF SameEnd, Agree, Ends
  <2>6. CASE e.kind = "done" /\ smoother'.hold = smoother.hold
    BY <2>1, <2>2, <2>3, <2>6 DEF SameEnd, Agree, Ends
  <2>7. CASE /\ smoother'.hold = smoother.hold
                \/ smoother'.hold = Event("status", <<>>)
             /\ smoother'.aiDone = smoother.aiDone
    BY <2>1, <2>2, <2>3, <2>7, EventIs DEF SameEnd, Agree, Ends
  <2> QED
    BY <2>4, <2>5, <2>6, <2>7
<1>8. CASE SeeRawClosed
  <2>1. /\ smoother'.hold = smoother.hold /\ smoother'.aiDone = smoother.aiDone
        /\ smoother'.pending = smoother.pending
        /\ UNCHANGED <<reader, raw, direct, out, sourceEnd, shownEnd>>
    BY <1>8 DEF SeeRawClosed, TypeOK, produced, received
  <2> QED
    BY <2>1 DEF SameEnd, Agree
<1>9. CASE Tick \/ SmootherCancelled
  <2>1. /\ smoother'.aiDone = smoother.aiDone /\ out'.queue = out.queue
        /\ \/ smoother'.hold.kind \in {"delta", "status", "none"}
           \/ /\ smoother'.hold.kind = "done" /\ smoother.aiDone
              /\ smoother'.pending = <<>>
    BY <1>9, TickDoes, SmootherCancelledDoes, EventIs
  <2>2. UNCHANGED <<reader, raw, direct, sourceEnd, shownEnd>>
    BY <1>9 DEF Tick, SmootherCancelled, produced, received
  <2> QED
    BY <2>1, <2>2 DEF SameEnd, Agree, Ends
<1>10. CASE SmootherSends
  <2>1. /\ smoother'.aiDone = smoother.aiDone /\ smoother'.hold = NoEvent
        /\ out'.queue = Append(out.queue, smoother.hold)
        /\ smoother.hold \in Events
        /\ smoother.hold.kind \in {"delta", "status", "done", "error"}
        /\ UNCHANGED <<reader, raw, direct, sourceEnd, shownEnd>>
    BY <1>10, SmootherSendsDoes, HeldIs
    DEF SmootherSends, produced, received, KindsInv, SmootherKinds
  <2>2. smoother.hold.kind \in {"delta", "tool", "status", sourceEnd}
    BY <2>1 DEF SameEnd, Ends
  <2>3. Agree(Append(out.queue, smoother.hold))
    BY <1>q, <2>1, <2>2, KindsAppend DEF SameEnd, Agree
  <2> QED
    BY <2>1, <2>3, EventIs DEF SameEnd, Agree, Ends
<1>11. CASE RelayDirect
  <2>1. /\ direct.queue # <<>> /\ direct'.queue = Tail(direct.queue)
        /\ \/ shownEnd' = shownEnd
           \/ /\ Head(direct.queue).kind \in Ends
              /\ shownEnd' = Head(direct.queue).kind
        /\ UNCHANGED <<reader, raw, out, smoother, sourceEnd>>
    BY <1>11, EmitDoes DEF RelayDirect, Get, TypeOK, produced
  <2>2. /\ Agree(Tail(direct.queue))
        /\ Head(direct.queue).kind \in {"delta", "tool", "status", sourceEnd}
    BY <1>q, <2>1, KindsTail DEF SameEnd, Agree
  <2> QED
    BY <2>1, <2>2 DEF SameEnd, Agree, Ends
<1>12. CASE RelaySmoothed
  <2>1. /\ out.queue # <<>> /\ out'.queue = Tail(out.queue)
        /\ \/ shownEnd' = shownEnd
           \/ /\ Head(out.queue).kind \in Ends
              /\ shownEnd' = Head(out.queue).kind
        /\ UNCHANGED <<reader, raw, direct, smoother, sourceEnd>>
    BY <1>12, EmitDoes DEF RelaySmoothed, Get, TypeOK, produced
  <2>2. /\ Agree(Tail(out.queue))
        /\ Head(out.queue).kind \in {"delta", "tool", "status", sourceEnd}
    BY <1>q, <2>1, KindsTail DEF SameEnd, Agree
  <2> QED
    BY <2>1, <2>2 DEF SameEnd, Agree, Ends
<1>13. CASE \/ SeeClosed \/ RelayFinishes \/ RelayCancelled \/ HeartbeatFails
            \/ Cancel
  <2>1. UNCHANGED <<reader, raw, direct, smoother, out, sourceEnd, shownEnd>>
    BY <1>13 DEF SeeClosed, RelayFinishes, RelayCancelled, HeartbeatFails,
                 RelayAborts, Cancel, produced, received
  <2> QED
    BY <2>1 DEF SameEnd, Agree
<1> QED
  BY <1>1, <1>2, <1>3, <1>4, <1>5, <1>6, <1>7, <1>8, <1>9, <1>10, <1>11,
     <1>12, <1>13 DEF Next, Reader, Smoother, Relay

LEMMA OneEndStep ==
  ASSUME TypeOK, KindsInv, ClosingInv, SameEnd, OneEnd, Next
  PROVE  OneEnd'
<1>d. relay'.doc = relay.doc
  BY DocFixed
<1>q. /\ raw.queue \in Seq(Events)
      /\ direct.queue \in Seq(Events)
      /\ out.queue \in Seq(Events)
  BY QueuesAre
<1>o. sourceEnd = "open" => /\ ~Some(raw.queue, Ends) /\ ~Some(direct.queue, Ends)
                            /\ ~Some(out.queue, Ends) /\ ~smoother.aiDone
                            /\ shownEnd = "open"
  BY <1>q, OpenQueue DEF SameEnd, Agree
<1>1. CASE ReadText \/ ReadEnd
  <2>1. /\ sourceEnd = "open"
        /\ UNCHANGED <<raw, direct, smoother, out, relay, shownEnd>>
    BY <1>1 DEF ReadText, ReadEnd, received
  <2> QED
    BY <1>o, <2>1 DEF OneEnd
<1>2. CASE ReadTool
  <2>1. /\ reader'.hold.kind = "tool"
        /\ UNCHANGED <<raw, direct, smoother, out, relay, shownEnd>>
    BY <1>2, EventIs DEF ReadTool, received, TypeOK
  <2> QED
    BY <2>1 DEF OneEnd, Ends
<1>3. CASE SendRaw
  <2>1. /\ reader'.hold = NoEvent /\ reader.hold \in Events
        /\ reader.hold.kind \in {"delta", "done", "error"} /\ ~relay.doc
        /\ raw'.queue = Append(raw.queue, reader.hold)
        /\ UNCHANGED <<direct, smoother, out, relay, shownEnd>>
    BY <1>3, HeldIs DEF SendRaw, GoesDirect, Put, TypeOK, received,
                        KindsInv, ReaderKinds
  <2>2. ~Some(raw.queue, Ends) /\ ~smoother.aiDone
    BY <1>o, <2>1 DEF OneEnd, SameEnd, Ends
  <2>3. EndsLast(Append(raw.queue, reader.hold))
    BY <1>q, <2>1, <2>2, EndsAppend
  <2>4. reader'.hold.kind \notin Ends
    BY <2>1, EventIs DEF Ends
  <2> QED
    BY <2>1, <2>2, <2>3, <2>4 DEF OneEnd
<1>4. CASE SendDirect
  <2>1. /\ reader'.hold = NoEvent /\ reader.hold \in Events
        /\ reader.hold.kind \in {"delta", "done", "error", "tool"}
        /\ reader.hold.kind # "tool" => relay.doc
        /\ direct'.queue = Append(direct.queue, reader.hold)
        /\ UNCHANGED <<raw, smoother, out, relay, shownEnd>>
    BY <1>4, HeldIs DEF SendDirect, GoesDirect, Put, TypeOK, received,
                        KindsInv, ReaderKinds
  <2>2. reader'.hold.kind \notin Ends
    BY <2>1, EventIs DEF Ends
  <2>3. CASE reader.hold.kind = "tool"
    <3>1. /\ EndsText(Append(direct.queue, reader.hold))
          /\ Some(Append(direct.queue, reader.hold), Ends) =>
               Some(direct.queue, Ends)
          /\ Only(direct.queue, {"tool"}) =>
               Only(Append(direct.queue, reader.hold), {"tool"})
      BY <1>q, <2>1, <2>3, EndsAppend, KindsAppend DEF OneEnd, Ends
    <3> QED
      BY <2>1, <2>2, <3>1 DEF OneEnd
  <2>4. CASE reader.hold.kind # "tool"
    <3>1. ~Some(direct.queue, Ends) /\ shownEnd = "open"
      BY <1>o, <2>1, <2>4 DEF OneEnd, SameEnd, Ends
    <3>2. EndsText(Append(direct.queue, reader.hold))
      BY <1>q, <2>1, <3>1, EndsAppend DEF OneEnd
    <3> QED
      BY <2>1, <2>2, <3>1, <3>2 DEF OneEnd
  <2> QED
    BY <2>3, <2>4
<1>5. CASE ReaderReturns \/ ReaderClosesRaw
  <2>1. reader'.hold \in {reader.hold, NoEvent}
    BY <1>5, ReaderReturnsDoes DEF ReaderClosesRaw, TypeOK
  <2>2. /\ raw'.queue = raw.queue /\ direct'.queue = direct.queue
        /\ UNCHANGED <<smoother, out, relay, shownEnd>>
    BY <1>5 DEF ReaderReturns, ReaderClosesRaw, Close, TypeOK, received
  <2>3. reader'.hold.kind \in Ends => reader.hold.kind \in Ends
    BY <2>1, EventIs DEF Ends
  <2> QED
    BY <2>2, <2>3 DEF OneEnd
<1>6. CASE ReceiveChunk
  <2> DEFINE e == Head(raw.queue)
  <2>1. /\ raw.queue # <<>> /\ raw'.queue = Tail(raw.queue)
        /\ smoother.pc = "run" /\ smoother'.pc # "ended"
        /\ smoother'.aiDone => smoother.aiDone \/ e.kind = "done"
        /\ UNCHANGED <<reader, direct, out, relay, shownEnd>>
    BY <1>6, ReceiveChunkDoes DEF ReceiveChunk, received
  <2>2. /\ EndsLast(Tail(raw.queue))
        /\ e.kind \in Ends => Tail(raw.queue) = <<>>
        /\ Some(raw.queue, Ends) <=> e.kind \in Ends \/ Some(Tail(raw.queue), Ends)
    BY <1>q, <2>1, EndsTail, KindsTail DEF OneEnd
  <2> HIDE DEF e
  <2>3. ~smoother.aiDone
    BY <2>1 DEF OneEnd
  <2>4. ~Some(<<>>, Ends)
    BY NothingIs
  <2>5. CASE e.kind = "done"
    <3>1. Tail(raw.queue) = <<>> /\ reader.hold.kind \notin Ends
      BY <2>2, <2>5 DEF OneEnd, Ends
    <3> QED
      BY <2>1, <2>2, <2>4, <3>1 DEF OneEnd
  <2>6. CASE e.kind # "done"
    BY <2>1, <2>2, <2>3, <2>6 DEF OneEnd
  <2> QED
    BY <2>5, <2>6
<1>7. CASE SeeRawClosed
  <2>1. /\ smoother'.pc = smoother.pc /\ smoother'.aiDone = smoother.aiDone
        /\ UNCHANGED <<reader, raw, direct, out, relay, shownEnd>>
    BY <1>7 DEF SeeRawClosed, TypeOK, received
  <2> QED
    BY <2>1 DEF OneEnd
<1>8. CASE Tick \/ SmootherCancelled
  <2>1. /\ smoother'.aiDone = smoother.aiDone /\ out'.queue = out.queue
        /\ smoother.pc = "run"
        /\ UNCHANGED <<reader, raw, direct, relay, shownEnd>>
    BY <1>8, TickDoes, SmootherCancelledDoes
    DEF Tick, SmootherCancelled, received
  <2> QED
    BY <2>1 DEF OneEnd
<1>9. CASE SmootherSends
  <2>1. /\ smoother'.aiDone = smoother.aiDone
        /\ out'.queue = Append(out.queue, smoother.hold)
        /\ smoother.hold \in Events /\ smoother.pc = "send"
        /\ smoother.hold.kind \in Ends => smoother'.pc = "ended" /\ ~relay.doc
        /\ UNCHANGED <<reader, raw, direct, relay, shownEnd>>
    BY <1>9, SmootherSendsDoes, HeldIs
    DEF SmootherSends, received, KindsInv, SmootherKinds, Ends
  <2>2. ~Some(out.queue, Ends) /\ (shownEnd = "open" \/ relay.doc)
    BY <2>1 DEF OneEnd
  <2>3. /\ EndsLast(Append(out.queue, smoother.hold))
        /\ Some(Append(out.queue, smoother.hold), Ends) =>
             smoother.hold.kind \in Ends
    BY <1>q, <2>1, <2>2, EndsAppend, KindsAppend
  <2> QED
    BY <2>1, <2>2, <2>3 DEF OneEnd
<1>10. CASE RelayDirect
  <2> DEFINE e == Head(direct.queue)
  <2>1. /\ direct.queue # <<>> /\ direct'.queue = Tail(direct.queue)
        /\ shownEnd' = shownEnd \/ (e.kind \in Ends /\ shownEnd' = e.kind)
        /\ e.kind \in Ends => shownEnd' \in {shownEnd, e.kind}
        /\ UNCHANGED <<reader, raw, out, smoother>>
    BY <1>10, EmitDoes DEF RelayDirect, Get, TypeOK
  <2>2. /\ EndsText(Tail(direct.queue))
        /\ e.kind \in Ends => Only(Tail(direct.queue), {"tool"})
        /\ Only(direct.queue, {"tool"}) => Only(Tail(direct.queue), {"tool"})
        /\ Some(direct.queue, Ends) <=>
             e.kind \in Ends \/ Some(Tail(direct.queue), Ends)
        /\ ~relay.doc => e.kind = "tool"
    BY <1>q, <2>1, EndsTail, KindsTail DEF OneEnd, KindsInv, QueueKinds
  <2> HIDE DEF e
  <2>3. CASE e.kind \in Ends
    <3>1. Tail(direct.queue) \in Seq(Events)
      BY <1>q, <2>1, TailIs
    <3>2. ~Some(Tail(direct.queue), Ends)
      BY <2>2, <2>3 DEF Only, Some, Ends
    <3>3. relay.doc /\ reader.hold.kind \notin Ends
      BY <2>2, <2>3 DEF OneEnd, Ends
    <3>4. Some(out.queue, Ends) => shownEnd' = "open"
      <4>1. Only(out.queue, {"status"})
        BY <3>3 DEF KindsInv, QueueKinds
      <4> QED
        BY <4>1 DEF Only, Some, Ends
    <3> QED
      BY <1>d, <2>1, <2>2, <2>3, <3>2, <3>3, <3>4 DEF OneEnd
  <2>4. CASE e.kind \notin Ends
    BY <1>d, <2>1, <2>2, <2>4 DEF OneEnd
  <2> QED
    BY <2>3, <2>4
<1>11. CASE RelaySmoothed
  <2> DEFINE e == Head(out.queue)
  <2>1. /\ out.queue # <<>> /\ out'.queue = Tail(out.queue)
        /\ shownEnd' = shownEnd \/ (e.kind \in Ends /\ shownEnd' = e.kind)
        /\ UNCHANGED <<reader, raw, direct, smoother>>
    BY <1>11, EmitDoes DEF RelaySmoothed, Get, TypeOK
  <2>2. /\ EndsLast(Tail(out.queue))
        /\ e.kind \in Ends => Tail(out.queue) = <<>>
        /\ Some(out.queue, Ends) <=>
             e.kind \in Ends \/ Some(Tail(out.queue), Ends)
        /\ relay.doc => e.kind = "status"
    BY <1>q, <2>1, EndsTail, KindsTail DEF OneEnd, KindsInv, QueueKinds
  <2> HIDE DEF e
  <2>3. ~Some(<<>>, Ends)
    BY NothingIs
  <2>4. CASE e.kind \in Ends
    <3>1. ~relay.doc /\ smoother.pc = "ended" /\ Tail(out.queue) = <<>>
      BY <2>2, <2>4 DEF OneEnd, Ends
    <3>2. Only(direct.queue, {"tool"})
      BY <3>1 DEF KindsInv, QueueKinds
    <3>3. ~Some(direct.queue, Ends)
      BY <3>2 DEF Only, Some, Ends
    <3> QED
      BY <1>d, <2>1, <2>2, <2>3, <3>1, <3>2, <3>3 DEF OneEnd
  <2>5. CASE e.kind \notin Ends
    BY <1>d, <2>1, <2>2, <2>5 DEF OneEnd
  <2> QED
    BY <2>4, <2>5
<1>12. CASE \/ SeeClosed \/ RelayFinishes \/ RelayCancelled \/ HeartbeatFails
            \/ Cancel
  <2>1. UNCHANGED <<reader, raw, direct, smoother, out, shownEnd>>
    BY <1>12 DEF SeeClosed, RelayFinishes, RelayCancelled, HeartbeatFails,
                 RelayAborts, Cancel, received
  <2> QED
    BY <1>d, <2>1 DEF OneEnd
<1> QED
  BY <1>1, <1>2, <1>3, <1>4, <1>5, <1>6, <1>7, <1>8, <1>9, <1>10, <1>11,
     <1>12 DEF Next, Reader, Smoother, Relay

-----------------------------------------------------------------------------
(* The text.                                                               *)

EndsInv == TypeOK /\ KindsInv /\ ClosingInv /\ SameEnd /\ OneEnd

LEMMA EndedStep ==
  ASSUME EndsInv, EndedInv, Next
  PROVE  EndedInv'
<1> USE DEF EndsInv
<1>d. relay'.doc = relay.doc
  BY DocFixed
<1> SUFFICES ASSUME smoother'.pc = "ended", ~relay.doc
             PROVE  \/ ctxDone' \/ sourceEnd' = "error" \/ smoother'.aiDone
                    \/ reader'.pc = "ended"
  BY <1>d DEF EndedInv
<1>1. CASE smoother.pc = "ended"
  <2>1. ctxDone => ctxDone'
    BY DEF Next, Reader, Smoother, Relay, ReadText, ReadEnd, ReadTool, SendRaw,
           SendDirect, ReaderReturns, ReaderClosesRaw, ReceiveChunk,
           SeeRawClosed, Tick, SmootherSends, SmootherCancelled, RelayDirect,
           RelaySmoothed, SeeClosed, RelayFinishes, RelayCancelled,
           HeartbeatFails, RelayAborts, Cancel
  <2>2. ~Smoother \/ SeeRawClosed
    BY <1>1, ReceiveChunkDoes, TickDoes, SmootherSendsDoes,
       SmootherCancelledDoes DEF Smoother
  <2>3. smoother'.aiDone = smoother.aiDone
    BY <2>2, Frames DEF Next, SeeRawClosed, TypeOK
  <2>4. sourceEnd = "error" => sourceEnd' = "error"
    <3>1. ReadEnd => sourceEnd = "open"
      BY DEF ReadEnd
    <3>2. ~ReadEnd => UNCHANGED sourceEnd
      BY Frames DEF Next, Reader, ReadText, ReadTool, SendRaw, SendDirect,
                    ReaderReturns, ReaderClosesRaw, produced
    <3> QED
      BY <3>1, <3>2
  <2>5. reader.pc = "ended" => reader'.pc = "ended"
    <3>1. reader.pc = "ended" => ~Reader
      BY DEF Reader, ReadText, ReadEnd, ReadTool, SendRaw, SendDirect,
             ReaderReturns, ReaderClosesRaw
    <3> QED
      BY <3>1, Frames DEF Next
  <2> QED
    BY <1>1, <2>1, <2>3, <2>4, <2>5 DEF EndedInv
<1>2. CASE smoother.pc # "ended"
  <2>1. Smoother
    BY <1>2, Frames DEF Next
  <2>2. CASE ReceiveChunk \/ SeeRawClosed
    BY <1>2, <2>2, ReceiveChunkDoes DEF SeeRawClosed, TypeOK
  <2>3. CASE Tick
    <3>1. smoother.rawClosed
      BY <1>2, <2>3, TickDoes
    <3> QED
      BY <2>1, <3>1, Frames DEF ClosingInv
  <2>4. CASE SmootherSends
    <3>1. smoother.hold.kind \in Ends /\ smoother'.aiDone = smoother.aiDone
      BY <2>4, SmootherSendsDoes DEF KindsInv, SmootherKinds
    <3> QED
      BY <2>1, <3>1, Frames DEF SameEnd, Ends
  <2>5. CASE SmootherCancelled
    BY <2>1, <2>5, SmootherCancelledDoes, Frames
  <2> QED
    BY <2>1, <2>2, <2>3, <2>4, <2>5 DEF Smoother
<1> QED
  BY <1>1, <1>2

LEMMA PositionsAreNat == Positions \subseteq Nat /\ 0 \in Positions
  BY RelayAssumption DEF Positions

LEMMA ReadTextDoes ==
  ASSUME TypeOK, SourceInv, ReadText
  PROVE  /\ Len(source') \in Positions /\ Len(source) <= Len(source')
         /\ Len(source') > Len(source)
         /\ source' = Run(0, Len(source'))
         /\ reader'.pc = "send"
         /\ reader'.hold = Event("delta", Run(Len(source), Len(source')))
<1> DEFINE L == Len(source)
<1>1. PICK n \in 1..(MaxRunes - L) :
        /\ source' = source \o [i \in 1..n |-> L + i]
        /\ reader' = [reader EXCEPT !.pc = "send",
                         !.hold = Event("delta", [i \in 1..n |-> L + i])]
  BY DEF ReadText
<1>2. /\ source = Run(0, L) /\ L \in Nat /\ n \in Nat /\ L + n \in Positions
      /\ (L + n) - L = n
  BY PositionsAreNat, RelayAssumption DEF SourceInv, Positions
<1>3. [i \in 1..n |-> L + i] = Run(L, L + n)
  BY <1>2 DEF Run
<1> HIDE DEF L
<1>4. source' = Run(0, L + n)
  <2>1. source' = Run(0, L) \o Run(L, L + n)
    BY <1>1, <1>2, <1>3
  <2>2. 0 \in Nat /\ L + n \in Nat /\ 0 <= L /\ L <= L + n
    BY <1>2
  <2>3. Run(0, L) \o Run(L, L + n) = Run(0, L + n)
    BY <1>2, <2>2, RunConcat
  <2> QED
    BY <2>1, <2>3
<1>5. Len(source') = L + n
  <2>1. Len(Run(0, L + n)) = (L + n) - 0
    BY <1>2, RunIs
  <2> QED
    BY <1>2, <1>4, <2>1
<1>6. reader'.pc = "send" /\ reader'.hold = Event("delta", Run(L, L + n))
  BY <1>1, <1>3 DEF TypeOK
<1> QED
  BY <1>2, <1>4, <1>5, <1>6 DEF L

\* What is written to the client.
LEMMA ShowDoes ==
  ASSUME TypeOK, SourceInv, NEW e, NEW m \in Positions, Emit(e),
         Len(shown) <= m, m <= Len(source), e.text = Run(Len(shown), m),
         UNCHANGED source
  PROVE  /\ SourceInv'
         /\ relay'.pc = "loop" => Len(shown') = m
         /\ \/ shown' = Run(0, m) /\ Len(shown') = m
            \/ shown' = shown
<1> DEFINE n == Len(shown)
<1>1. /\ n \in Nat /\ m \in Nat /\ shown = Run(0, n) /\ n <= m
      /\ Len(source) \in Nat /\ 0 \in Nat /\ 0 <= n
      /\ e.text = Run(n, m)
  BY PositionsAreNat DEF SourceInv
<1> HIDE DEF n
<1>2. shown \o e.text = Run(0, m)
  <2>1. Run(0, n) \o Run(n, m) = Run(0, m)
    BY <1>1, RunConcat
  <2> QED
    BY <1>1, <2>1
<1>3. Len(Run(0, m)) = m
  <2>1. Len(Run(0, m)) = m - 0
    BY <1>1, RunIs
  <2> QED
    BY <1>1, <2>1
<1>4. \/ shown' = Run(0, m) /\ Len(shown') = m
      \/ shown' = shown /\ relay'.pc = "returned"
  BY <1>2, <1>3, EmitDoes
<1> QED
  BY <1>1, <1>3, <1>4 DEF SourceInv

LEMMA SmoothedReader ==
  ASSUME EndsInv, EndedInv, SourceInv, ~relay.doc, Reader,
         NEW x \in Positions, NEW o \in Positions, NEW p \in Positions,
         NEW c \in Positions, NEW d \in Positions, SmoothedFlow(x, o, p, c, d)
  PROVE  SmoothedText'
<1> USE DEF EndsInv
<1>n. x \in Nat /\ o \in Nat /\ p \in Nat /\ c \in Nat /\ d \in Nat
  BY PositionsAreNat
<1>l. Len(source) \in Positions /\ Len(source) \in Nat
  BY PositionsAreNat DEF SourceInv
<1>q. raw.queue \in Seq(Events) /\ out.queue \in Seq(Events)
  BY QueuesAre
<1>f. UNCHANGED <<smoother, out, relay, ctxDone, shown, shownEnd>>
  BY Frames
<1>t. reader.hold.kind # "delta" => reader.hold.text = <<>>
  BY DEF KindsInv, ReaderKinds, Plain
<1>1. CASE ReadText
  <2>1. /\ reader.pc = "read" /\ sourceEnd = "open"
        /\ UNCHANGED <<raw, sourceEnd>>
    BY <1>1 DEF ReadText
  <2>2. /\ ~Some(raw.queue, {"done"}) /\ ~Some(out.queue, {"done"})
        /\ ~smoother.aiDone
    <3>1. ~Some(raw.queue, Ends) /\ ~Some(out.queue, Ends)
      BY <1>q, <2>1, OpenQueue DEF SameEnd, Agree
    <3> QED
      BY <2>1, <3>1 DEF Some, Ends, SameEnd
  <2>3. /\ Len(source') \in Positions /\ Len(source) <= Len(source')
        /\ Len(source') \in Nat
        /\ reader'.hold.text = Run(Len(source), Len(source'))
    BY <1>1, ReadTextDoes, EventIs, PositionsAreNat
  <2>4. Carries(out.queue, x, o, Len(source'))
    BY <1>q, <2>2, CarriesOn DEF SmoothedFlow
  <2>5. c <= Len(source')
    BY <1>n, <1>l, <2>3 DEF SmoothedFlow
  <2>6. CASE smoother.pc = "ended"
    <3>1. ctxDone
      BY <2>1, <2>2, <2>6 DEF EndedInv
    <3>2. SmoothedFlow(x, o, p, c, d)'
      BY <1>f, <2>4, <2>5, <2>6, <3>1 DEF SmoothedFlow
    <3> QED
      BY <3>2 DEF SmoothedText
  <2>7. CASE smoother.pc # "ended"
    <3>1. d = Len(source)
      <4>1. reader.hold.text = <<>>
        BY <1>t, <2>1 DEF KindsInv, ReaderKinds
      <4>2. Run(d, Len(source)) = <<>> /\ d <= Len(source)
        BY <2>1, <2>7, <4>1 DEF SmoothedFlow, HeldFrom, ReaderStopped
      <4> QED
        BY <1>n, <1>l, <4>2, RunEmpty
    <3>2. Carries(raw.queue, c, Len(source), Len(source'))
      BY <1>q, <2>2, <2>7, <3>1, CarriesOn DEF SmoothedFlow
    <3>4. ASSUME NEW l \in Positions, l = Len(source)
          PROVE  SmoothedFlow(x, o, p, c, l)'
      BY <1>f, <2>1, <2>3, <2>4, <2>5, <2>7, <3>2, <3>4
      DEF SmoothedFlow, HeldFrom
    <3> QED
      BY <1>l, <3>4 DEF SmoothedText
  <2> QED
    BY <2>6, <2>7
<1>2. CASE ~ReadText
  <2>s. UNCHANGED source
    BY <1>2 DEF Reader, ReadEnd, ReadTool, SendRaw, SendDirect, ReaderReturns,
                ReaderClosesRaw, produced
  <2>e. sourceEnd = "error" => sourceEnd' = "error"
    BY <1>2 DEF Reader, ReadEnd, ReadTool, SendRaw, SendDirect, ReaderReturns,
                ReaderClosesRaw, produced
  <2>1. CASE smoother.pc = "ended"
    <3>1. SmoothedFlow(x, o, p, c, d)'
      BY <1>f, <2>s, <2>e, <2>1 DEF SmoothedFlow
    <3> QED
      BY <3>1 DEF SmoothedText
  <2>2. CASE smoother.pc # "ended" /\ SendRaw
    <3>1. /\ reader.pc = "send" /\ reader'.hold = NoEvent
          /\ reader.hold \in Events
          /\ raw'.queue = Append(raw.queue, reader.hold)
      BY <2>2, HeldIs DEF SendRaw, Put, TypeOK, KindsInv, ReaderKinds
    <3>2. /\ d <= Len(source) /\ reader.hold.text = Run(d, Len(source))
          /\ Carries(raw.queue, c, d, Len(source))
      BY <2>2, <3>1 DEF SmoothedFlow, HeldFrom, ReaderStopped
    <3>3. Carries(raw'.queue, c, Len(source), Len(source))
      BY <1>l, <1>q, <3>1, <3>2, CarriesAppend
    <3>4. Run(Len(source), Len(source)) = <<>>
      BY <1>l, RunEmpty
    <3>5. ASSUME NEW l \in Positions, l = Len(source)
          PROVE  SmoothedFlow(x, o, p, c, l)'
      BY <1>f, <1>l, <2>s, <2>2, <3>1, <3>3, <3>4, <3>5, EventIs
      DEF SmoothedFlow, HeldFrom
    <3> QED
      BY <1>l, <3>5 DEF SmoothedText
  <2>3. CASE smoother.pc # "ended" /\ ~SendRaw
    <3>1. raw'.queue = raw.queue
      BY <1>2, <2>3 DEF Reader, ReadEnd, ReadTool, SendDirect, ReaderReturns,
                        ReaderClosesRaw, Close, TypeOK
    <3>2. HeldFrom(d, raw.queue)
      BY <2>3 DEF SmoothedFlow
    <3>3. HeldFrom(d, raw.queue)'
      <4>1. CASE ReadEnd \/ ReadTool \/ SendDirect
        <5>1. reader.hold.text = <<>> /\ ~ReaderStopped
          BY <1>t, <4>1 DEF ReadEnd, ReadTool, SendDirect, GoesDirect,
                            KindsInv, ReaderKinds, ReaderStopped
        <5>2. reader'.hold.text = <<>>
          <6>1. CASE ReadEnd
            <7>1. reader'.hold = Event(sourceEnd', <<>>)
              BY <6>1 DEF ReadEnd, TypeOK
            <7> QED
              BY <7>1, EventIs
          <6>2. CASE ReadTool
            <7>1. reader'.hold = Event("tool", <<>>)
              BY <6>2 DEF ReadTool, TypeOK
            <7> QED
              BY <7>1, EventIs
          <6>3. CASE SendDirect
            <7>1. reader'.hold = NoEvent
              BY <6>3 DEF SendDirect, TypeOK
            <7> QED
              BY <7>1, EventIs
          <6> QED
            BY <4>1, <6>1, <6>2, <6>3
        <5> QED
          BY <2>s, <3>2, <5>1, <5>2 DEF HeldFrom
      <4>2. CASE ReaderReturns /\ reader.pc = "read"
        <5>1. reader'.hold = reader.hold /\ ~ReaderStopped
          BY <4>2, ReaderReturnsDoes DEF ReaderStopped
        <5> QED
          BY <2>s, <3>2, <5>1 DEF HeldFrom
      <4>3. CASE ReaderReturns /\ reader.pc = "send"
        <5>1. /\ reader'.pc = "closing" /\ reader'.hold = NoEvent /\ ctxDone
              /\ ~ReaderStopped
          BY <4>3, ReaderReturnsDoes DEF ReaderStopped
        <5>2. CASE reader.hold.kind = "tool"
          BY <1>t, <2>s, <3>2, <5>1, <5>2, EventIs DEF HeldFrom
        <5>3. CASE reader.hold.kind # "tool"
          <6>1. reader.hold.kind \in {"delta", "done", "error"}
            BY <4>3, <5>3 DEF KindsInv, ReaderKinds
          <6>2. ~Some(raw.queue, Ends) /\ ~smoother.aiDone
            <7>1. CASE reader.hold.kind = "delta"
              <8>1. sourceEnd = "open"
                BY <7>1 DEF SameEnd
              <8> QED
                BY <1>q, <8>1, OpenQueue DEF SameEnd, Agree
            <7>2. CASE reader.hold.kind # "delta"
              BY <6>1, <7>2 DEF OneEnd, Ends
            <7> QED
              BY <7>1, <7>2
          <6>3. shownEnd # "done"
            BY <2>3 DEF OneEnd
          <6>4. ~Some(raw.queue, {"done"})
            BY <6>2 DEF Some, Ends
          <6> QED
            BY <1>f, <3>1, <5>1, <6>2, <6>3, <6>4
            DEF HeldFrom, ReaderStopped, Some
        <5> QED
          BY <5>2, <5>3
      <4>4. CASE ReaderClosesRaw
        <5>1. /\ reader'.hold = reader.hold
              /\ ReaderStopped /\ ReaderStopped'
          BY <4>4 DEF ReaderClosesRaw, TypeOK, ReaderStopped
        <5> QED
          BY <1>f, <2>s, <3>1, <3>2, <5>1 DEF HeldFrom, Some
      <4> QED
        BY <1>2, <2>3, <4>1, <4>2, <4>3, <4>4, ReaderReturnsDoes DEF Reader
    <3>4. SmoothedFlow(x, o, p, c, d)'
      BY <1>f, <2>s, <2>3, <3>1, <3>3 DEF SmoothedFlow
    <3> QED
      BY <3>4 DEF SmoothedText
  <2> QED
    BY <2>1, <2>2, <2>3
<1> QED
  BY <1>1, <1>2

LEMMA SmoothedSmoother ==
  ASSUME EndsInv, EndedInv, SourceInv, ~relay.doc, Smoother,
         NEW x \in Positions, NEW o \in Positions, NEW p \in Positions,
         NEW c \in Positions, NEW d \in Positions, SmoothedFlow(x, o, p, c, d)
  PROVE  SmoothedText'
<1> USE DEF EndsInv
<1>n. x \in Nat /\ o \in Nat /\ p \in Nat /\ c \in Nat /\ d \in Nat
  BY PositionsAreNat
<1>l. Len(source) \in Positions /\ Len(source) \in Nat
  BY PositionsAreNat DEF SourceInv
<1>q. raw.queue \in Seq(Events) /\ out.queue \in Seq(Events)
  BY QueuesAre
<1>f. UNCHANGED <<reader, direct, relay, ctxDone, source, sourceEnd, shown,
                  shownEnd>>
  BY Frames
<1>b. \A a \in Positions : Run(a, a) = <<>>
  BY PositionsAreNat, RunEmpty
<1>h. smoother.pc # "send" => o = p
  <2>1. smoother.pc # "send" => smoother.hold.text = <<>>
    BY DEF KindsInv, SmootherKinds, Plain
  <2> QED
    BY <1>n, <2>1, RunEmpty DEF SmoothedFlow
\* Where the smoother stands before it has ended: the text that is behind it
\* and before it.
<1>w. smoother.pc # "ended" =>
        /\ Carries(out.queue, x, o, Len(source))
        /\ o <= p /\ p <= c /\ c <= d /\ d <= Len(source)
        /\ smoother.hold.text = Run(o, p) /\ smoother.pending = Run(p, c)
        /\ Carries(raw.queue, c, d, Len(source)) /\ HeldFrom(d, raw.queue)
  BY <1>q, CarriesBounds DEF SmoothedFlow
<1>x. relay.pc = "loop" => x = Len(shown)
  BY DEF SmoothedFlow
<1>1. CASE ReceiveChunk
  <2> DEFINE e == Head(raw.queue)
  <2>1. /\ smoother.pc = "run" /\ smoother'.pc # "ended" /\ raw.queue # <<>>
        /\ raw'.queue = Tail(raw.queue) /\ UNCHANGED out
        /\ \/ /\ e.kind \in Ends /\ smoother'.pending = smoother.pending
              /\ smoother'.hold \in {smoother.hold, e}
           \/ /\ e.kind \notin Ends
              /\ smoother'.pending = smoother.pending \o e.text
              /\ smoother'.hold \in {smoother.hold, Event("status", <<>>)}
        /\ smoother'.aiDone => smoother.aiDone \/ e.kind = "done"
    BY <1>1, ReceiveChunkDoes DEF ReceiveChunk, Ends
  <2>2. PICK m \in Positions :
          /\ c <= m /\ m <= d /\ e.text = Run(c, m)
          /\ Carries(Tail(raw.queue), m, d, Len(source))
    BY <1>q, <1>w, <2>1, CarriesTail
  <2>3. Plain(e)
    BY <1>q, <2>1, KindsTail DEF KindsInv, QueueKinds
  <2>4. Some(raw.queue, {"done"}) <=>
          e.kind = "done" \/ Some(Tail(raw.queue), {"done"})
    BY <1>q, <2>1, KindsTail
  <2>5. smoother.hold.text = <<>>
    BY <2>1 DEF KindsInv, SmootherKinds, Plain
  <2> HIDE DEF e
  <2>6. m \in Nat
    BY PositionsAreNat
  <2>7. smoother'.pending = Run(p, m)
    <3>1. CASE e.kind \in Ends
      <4>1. Run(c, m) = <<>>
        BY <2>2, <2>3, <3>1 DEF Plain, Ends
      <4>2. c = m
        BY <1>n, <2>2, <2>6, <4>1, RunEmpty
      <4> QED
        BY <1>w, <2>1, <3>1, <4>2
    <3>2. CASE e.kind \notin Ends
      <4>1. Run(p, c) \o Run(c, m) = Run(p, m)
        BY <1>n, <1>w, <2>1, <2>2, <2>6, RunConcat
      <4> QED
        BY <1>w, <2>1, <2>2, <3>2, <4>1
    <3> QED
      BY <3>1, <3>2
  <2>8. smoother'.hold.text = <<>>
    <3>1. CASE e.kind \in Ends
      <4>1. e.text = <<>>
        BY <2>3, <3>1 DEF Plain, Ends
      <4> QED
        BY <2>1, <2>5, <3>1, <4>1
    <3>2. CASE e.kind \notin Ends
      <4>1. Event("status", <<>>).text = <<>>
        BY EventIs
      <4> QED
        BY <2>1, <2>5, <3>2, <4>1
    <3> QED
      BY <3>1, <3>2
  <2>9. HeldFrom(d, raw.queue)'
    BY <1>f, <1>w, <2>1, <2>4 DEF HeldFrom, ReaderStopped
  <2>10. /\ o = p /\ Run(o, p) = <<>> /\ p <= m /\ m <= Len(source)
    BY <1>b, <1>h, <1>n, <1>l, <1>w, <2>1, <2>2, <2>6
  <2>11. SmoothedFlow(x, o, p, m, d)'
    BY <1>f, <1>w, <1>x, <2>1, <2>2, <2>7, <2>8, <2>9, <2>10 DEF SmoothedFlow
  <2> QED
    BY <2>11 DEF SmoothedText
<1>2. CASE SeeRawClosed
  <2>1. /\ smoother.pc = "run" /\ smoother'.pc = "run"
        /\ smoother'.hold = smoother.hold
        /\ smoother'.pending = smoother.pending
        /\ smoother'.aiDone = smoother.aiDone
        /\ UNCHANGED <<raw, out>>
    BY <1>2 DEF SeeRawClosed, TypeOK
  <2>2. SmoothedFlow(x, o, p, c, d)'
    BY <1>f, <2>1 DEF SmoothedFlow, HeldFrom, ReaderStopped
  <2> QED
    BY <2>2 DEF SmoothedText
\* The smoother ends, with nothing in its hands.
<1>3. ASSUME smoother.pc # "send", smoother'.pc = "ended",
             smoother'.hold = NoEvent, smoother'.pending = <<>>,
             out'.queue = out.queue,
             ctxDone \/ o = Len(source)
      PROVE  SmoothedText'
  <2>1. o <= Len(source)
    BY <1>n, <1>l DEF SmoothedFlow
  <2>2. Run(o, o) = <<>> /\ o <= o
    BY <1>b, <1>n
  <2>3. SmoothedFlow(x, o, o, o, d)'
    BY <1>3, <1>f, <2>1, <2>2, EventIs DEF SmoothedFlow
  <2> QED
    BY <2>3 DEF SmoothedText
<1>4. CASE Tick
  <2>1. /\ smoother.pc = "run" /\ smoother'.aiDone = smoother.aiDone
        /\ out'.queue = out.queue /\ UNCHANGED raw
    BY <1>4, TickDoes DEF Tick
  <2>2. o = p
    BY <1>h, <2>1
  <2>3. HeldFrom(d, raw.queue)'
    BY <1>f, <1>w, <2>1 DEF HeldFrom, ReaderStopped
  <2>4. CASE \E n \in 1..ChunkSize :
               /\ smoother.pending # <<>> /\ n <= Len(smoother.pending)
               /\ smoother'.pc = "send"
               /\ smoother'.hold =
                    Event("delta", SubSeq(smoother.pending, 1, n))
               /\ smoother'.pending =
                    SubSeq(smoother.pending, n + 1, Len(smoother.pending))
    <3>1. PICK n \in 1..ChunkSize :
               /\ n <= Len(smoother.pending)
               /\ smoother'.pc = "send"
               /\ smoother'.hold =
                    Event("delta", SubSeq(smoother.pending, 1, n))
               /\ smoother'.pending =
                    SubSeq(smoother.pending, n + 1, Len(smoother.pending))
      BY <2>4
    <3>2. smoother.pending = Run(p, c) /\ p <= c
      BY <1>w, <2>1
    <3>3. Len(Run(p, c)) = c - p
      BY <1>n, <3>2, RunIs
    <3>4. n \in 0..(c - p)
      BY <1>n, <3>1, <3>2, <3>3, RelayAssumption
    <3>5. /\ SubSeq(Run(p, c), 1, n) = Run(p, p + n)
          /\ SubSeq(Run(p, c), n + 1, c - p) = Run(p + n, c)
      BY <1>n, <3>2, <3>4, RunSplit
    <3>6. /\ smoother'.hold = Event("delta", Run(p, p + n))
          /\ smoother'.pending = Run(p + n, c)
      BY <3>1, <3>2, <3>3, <3>5
    <3>7. /\ p + n \in Positions /\ p <= p + n /\ p + n <= c
      BY <1>n, <3>4, RelayAssumption DEF Positions
    <3>8. smoother'.hold.text = Run(o, p + n)
      BY <2>2, <3>6, EventIs
    <3>9. ASSUME NEW m \in Positions, m = p + n
          PROVE  SmoothedFlow(x, o, m, c, d)'
      BY <1>f, <1>w, <1>x, <1>n, <1>l, <2>1, <2>2, <2>3, <3>1, <3>6, <3>7,
         <3>8, <3>9
      DEF SmoothedFlow
    <3> QED
      BY <3>7, <3>9 DEF SmoothedText
  <2>5. CASE /\ smoother.pending = <<>> /\ smoother'.pc = "send"
             /\ smoother'.hold.text = <<>> /\ smoother'.pending = <<>>
    <3>1. SmoothedFlow(x, o, p, c, d)'
      BY <1>b, <1>f, <1>w, <1>x, <1>n, <1>l, <2>1, <2>2, <2>3, <2>5
      DEF SmoothedFlow
    <3> QED
      BY <3>1 DEF SmoothedText
  <2>6. CASE /\ smoother.pending = <<>> /\ ~smoother.aiDone
             /\ smoother.rawClosed
             /\ smoother'.pc = "ended" /\ smoother'.hold = NoEvent
             /\ smoother'.pending = <<>>
    <3>1. p = c
      BY <1>n, <1>w, <2>1, <2>6, RunEmpty
    <3>2. raw.queue = <<>> /\ reader.pc = "ended"
      BY <2>6 DEF ClosingInv
    <3>3. c = d
      BY <1>q, <1>w, <2>1, <3>2, CarriesBounds
    <3>4. CASE reader.hold.text = Run(d, Len(source))
      <4>1. reader.hold.text = <<>>
        BY <3>2 DEF KindsInv, ReaderKinds, Plain
      <4>2. d = Len(source)
        BY <1>n, <1>l, <1>w, <2>1, <3>4, <4>1, RunEmpty
      <4> QED
        BY <1>3, <2>1, <2>2, <2>6, <3>1, <3>3, <4>2
    <3>5. CASE ctxDone
      BY <1>3, <2>1, <2>6, <3>5
    <3> QED
      BY <1>w, <2>1, <3>4, <3>5 DEF HeldFrom
  <2> QED
    BY <1>4, <2>4, <2>5, <2>6, TickDoes, EventIs
<1>5. CASE SmootherSends
  <2>1. /\ smoother.pc = "send"
        /\ out'.queue = Append(out.queue, smoother.hold)
        /\ smoother'.hold = NoEvent
        /\ smoother'.aiDone = smoother.aiDone
        /\ UNCHANGED raw
        /\ smoother.hold \in Events
    BY <1>5, SmootherSendsDoes, HeldIs
    DEF SmootherSends, KindsInv, SmootherKinds
  <2>2. smoother.hold.kind = "done" => p = Len(source)
    <3> SUFFICES ASSUME smoother.hold.kind = "done" PROVE p = Len(source)
      OBVIOUS
    <3>1. smoother.aiDone /\ smoother.pending = <<>>
      BY DEF SameEnd
    <3>2. p = c
      BY <1>n, <1>w, <2>1, <3>1, RunEmpty
    <3>3. raw.queue = <<>> /\ sourceEnd = "done"
      BY <3>1 DEF OneEnd, SameEnd
    <3>4. c = d
      BY <1>q, <1>w, <2>1, <3>3, CarriesBounds
    <3>5. reader.hold.text = Run(d, Len(source))
      BY <1>w, <2>1, <3>1 DEF HeldFrom
    <3>6. reader.hold.text = <<>>
      BY <3>3 DEF SameEnd, KindsInv, ReaderKinds, Plain
    <3>7. d = Len(source)
      BY <1>n, <1>l, <1>w, <2>1, <3>5, <3>6, RunEmpty
    <3> QED
      BY <3>2, <3>4, <3>7
  <2>3. Carries(out'.queue, x, p, Len(source))
    BY <1>q, <1>w, <2>1, <2>2, CarriesAppend
  <2>4. Run(p, p) = <<>> /\ p <= p
    BY <1>b, <1>n
  <2>5. CASE smoother.last
    <3>1. smoother'.pc = "ended" /\ smoother'.pending = <<>>
      BY <1>5, <2>5, SmootherSendsDoes
    <3>2. sourceEnd = "error" \/ p = Len(source)
      <4>1. smoother.hold.kind \in Ends
        BY <2>1, <2>5 DEF KindsInv, SmootherKinds
      <4> QED
        BY <2>2, <4>1 DEF SameEnd, Ends
    <3>3. p <= Len(source)
      BY <1>n, <1>l, <1>w, <2>1
    <3>4. SmoothedFlow(x, p, p, p, d)'
      BY <1>f, <1>x, <2>1, <2>3, <2>4, <3>1, <3>2, <3>3, EventIs
      DEF SmoothedFlow
    <3> QED
      BY <3>4 DEF SmoothedText
  <2>6. CASE ~smoother.last
    <3>1. smoother'.pc = "run" /\ smoother'.pending = smoother.pending
      BY <1>5, <2>6, SmootherSendsDoes
    <3>2. HeldFrom(d, raw.queue)'
      BY <1>f, <1>w, <2>1 DEF HeldFrom, ReaderStopped
    <3>3. SmoothedFlow(x, p, p, c, d)'
      BY <1>f, <1>w, <1>x, <1>n, <1>l, <2>1, <2>3, <2>4, <3>1, <3>2, EventIs
      DEF SmoothedFlow
    <3> QED
      BY <3>3 DEF SmoothedText
  <2> QED
    BY <2>5, <2>6
<1>6. CASE SmootherCancelled
  BY <1>3, <1>6, SmootherCancelledDoes
<1> QED
  BY <1>1, <1>2, <1>4, <1>5, <1>6 DEF Smoother

LEMMA SmoothedRelay ==
  ASSUME EndsInv, EndedInv, SourceInv, ~relay.doc, Relay \/ HeartbeatFails,
         NEW x \in Positions, NEW o \in Positions, NEW p \in Positions,
         NEW c \in Positions, NEW d \in Positions, SmoothedFlow(x, o, p, c, d)
  PROVE  SmoothedText' /\ SourceInv'
<1> USE DEF EndsInv
<1>n. x \in Nat /\ o \in Nat /\ p \in Nat /\ c \in Nat /\ d \in Nat
  BY PositionsAreNat
<1>l. /\ Len(source) \in Positions /\ Len(source) \in Nat
      /\ Len(shown) \in Positions /\ Len(shown) \in Nat
      /\ Len(shown) <= Len(source)
  BY PositionsAreNat DEF SourceInv
<1>q. direct.queue \in Seq(Events) /\ out.queue \in Seq(Events)
  BY QueuesAre
<1>f. UNCHANGED <<reader, raw, smoother, ctxDone, source, sourceEnd>>
  BY Frames
<1>1. CASE RelayDirect
  <2> DEFINE e == Head(direct.queue)
  <2>1. /\ direct.queue # <<>> /\ Emit(e) /\ UNCHANGED out
        /\ relay.pc = "loop"
    BY <1>1 DEF RelayDirect
  <2>2. Plain(e) /\ e.kind = "tool"
    BY <1>q, <2>1, KindsTail DEF KindsInv, QueueKinds
  <2> HIDE DEF e
  <2>3. e.text = Run(Len(shown), Len(shown))
    BY <1>l, <2>2, RunEmpty DEF Plain
  <2>4. Len(shown) <= Len(shown)
    BY <1>l
  <2>5. SourceInv' /\ (relay'.pc = "loop" => Len(shown') = Len(shown))
    BY <1>f, <1>l, <2>1, <2>3, <2>4, ShowDoes
  <2>6. shownEnd' = shownEnd
    BY <2>1, <2>2, EmitDoes DEF Ends
  <2>7. SmoothedFlow(x, o, p, c, d)'
    BY <1>f, <2>1, <2>5, <2>6 DEF SmoothedFlow, HeldFrom, ReaderStopped
  <2> QED
    BY <2>5, <2>7 DEF SmoothedText
<1>2. CASE RelaySmoothed
  <2> DEFINE e == Head(out.queue)
  <2>1. /\ out.queue # <<>> /\ Emit(e) /\ relay.pc = "loop"
        /\ out'.queue = Tail(out.queue)
    BY <1>2 DEF RelaySmoothed, Get, TypeOK
  <2>2. PICK m \in Positions :
          /\ x <= m /\ m <= o /\ e.text = Run(x, m)
          /\ Carries(Tail(out.queue), m, o, Len(source))
    BY <1>q, <2>1, CarriesTail DEF SmoothedFlow
  <2>3. Some(out.queue, Ends) <=>
          e.kind \in Ends \/ Some(Tail(out.queue), Ends)
    BY <1>q, <2>1, KindsTail
  <2> HIDE DEF e
  <2>4. m \in Nat /\ x = Len(shown) /\ m <= Len(source)
    BY <1>n, <1>l, <2>1, <2>2, PositionsAreNat DEF SmoothedFlow
  <2>5. SourceInv' /\ (relay'.pc = "loop" => Len(shown') = m)
    BY <1>f, <2>1, <2>2, <2>4, ShowDoes
  <2>6. smoother.pc # "ended" => shownEnd' = shownEnd
    <3>1. smoother.pc # "ended" => e.kind \notin Ends
      BY <2>3 DEF OneEnd
    <3> QED
      BY <2>1, <3>1, EmitDoes
  <2>7. SmoothedFlow(m, o, p, c, d)'
    BY <1>f, <2>1, <2>2, <2>5, <2>6 DEF SmoothedFlow, HeldFrom, ReaderStopped
  <2> QED
    BY <2>5, <2>7 DEF SmoothedText
<1>3. CASE SeeClosed \/ RelayFinishes \/ RelayCancelled \/ HeartbeatFails
  <2>1. /\ UNCHANGED <<out, shown, shownEnd>>
        /\ relay'.pc = "loop" => relay.pc = "loop"
    BY <1>3 DEF SeeClosed, RelayFinishes, RelayCancelled, HeartbeatFails,
                RelayAborts, received
  <2>2. SmoothedFlow(x, o, p, c, d)'
    BY <1>f, <2>1 DEF SmoothedFlow, HeldFrom, ReaderStopped
  <2>3. SourceInv'
    BY <1>f, <2>1 DEF SourceInv
  <2> QED
    BY <2>2, <2>3 DEF SmoothedText
<1> QED
  BY <1>1, <1>2, <1>3 DEF Relay

LEMMA DirectReader ==
  ASSUME EndsInv, SourceInv, relay.doc, Reader,
         NEW x \in Positions, NEW d \in Positions, DirectFlow(x, d)
  PROVE  DirectText'
<1> USE DEF EndsInv
<1>n. x \in Nat /\ d \in Nat
  BY PositionsAreNat
<1>l. Len(source) \in Positions /\ Len(source) \in Nat
  BY PositionsAreNat DEF SourceInv
<1>q. direct.queue \in Seq(Events)
  BY QueuesAre
<1>f. UNCHANGED <<smoother, out, relay, ctxDone, shown, shownEnd>>
  BY Frames
<1>t. reader.hold.kind # "delta" => reader.hold.text = <<>>
  BY DEF KindsInv, ReaderKinds, Plain
<1>a. ~smoother.aiDone
  BY DEF KindsInv, SmootherKinds
<1>1. CASE ReadText
  <2>1. reader.pc = "read" /\ sourceEnd = "open" /\ UNCHANGED direct
    BY <1>1 DEF ReadText
  <2>2. ~Some(direct.queue, {"done"})
    <3>1. ~Some(direct.queue, Ends)
      BY <1>q, <2>1, OpenQueue DEF SameEnd, Agree
    <3> QED
      BY <3>1 DEF Some, Ends
  <2>3. /\ Len(source') \in Positions /\ Len(source) <= Len(source')
        /\ reader'.hold.text = Run(Len(source), Len(source'))
    BY <1>1, ReadTextDoes, EventIs
  <2>4. d = Len(source)
    <3>1. reader.hold.text = <<>>
      BY <1>t, <2>1 DEF KindsInv, ReaderKinds
    <3>2. Run(d, Len(source)) = <<>> /\ d <= Len(source)
      BY <2>1, <3>1 DEF DirectFlow, HeldFrom, ReaderStopped
    <3> QED
      BY <1>n, <1>l, <3>2, RunEmpty
  <2>5. Carries(direct.queue, x, Len(source), Len(source'))
    BY <1>q, <2>2, <2>4, CarriesOn DEF DirectFlow
  <2>6. ASSUME NEW l \in Positions, l = Len(source)
        PROVE  DirectFlow(x, l)'
    BY <1>f, <2>1, <2>3, <2>5, <2>6 DEF DirectFlow, HeldFrom
  <2> QED
    BY <1>l, <2>6 DEF DirectText
<1>2. CASE ~ReadText
  <2>s. UNCHANGED source
    BY <1>2 DEF Reader, ReadEnd, ReadTool, SendRaw, SendDirect, ReaderReturns,
                ReaderClosesRaw, produced
  <2>1. CASE SendDirect
    <3>1. /\ reader.pc = "send" /\ reader'.hold = NoEvent
          /\ reader.hold \in Events
          /\ direct'.queue = Append(direct.queue, reader.hold)
      BY <2>1, HeldIs DEF SendDirect, Put, TypeOK, KindsInv, ReaderKinds
    <3>2. /\ d <= Len(source) /\ reader.hold.text = Run(d, Len(source))
          /\ Carries(direct.queue, x, d, Len(source))
      BY <3>1 DEF DirectFlow, HeldFrom, ReaderStopped
    <3>3. Carries(direct'.queue, x, Len(source), Len(source))
      BY <1>l, <1>q, <3>1, <3>2, CarriesAppend
    <3>4. Run(Len(source), Len(source)) = <<>>
      BY <1>l, RunEmpty
    <3>5. ASSUME NEW l \in Positions, l = Len(source)
          PROVE  DirectFlow(x, l)'
      BY <1>f, <1>l, <2>s, <3>1, <3>3, <3>4, <3>5, EventIs
      DEF DirectFlow, HeldFrom
    <3> QED
      BY <1>l, <3>5 DEF DirectText
  <2>2. CASE ~SendDirect
    <3>0. ~SendRaw
      BY DEF SendRaw, GoesDirect
    <3>1. direct'.queue = direct.queue
      BY <1>2, <2>2, <3>0 DEF Reader, ReadEnd, ReadTool, ReaderReturns,
                              ReaderClosesRaw, Close, TypeOK
    <3>2. HeldFrom(d, direct.queue)
      BY DEF DirectFlow
    <3>3. HeldFrom(d, direct.queue)'
      <4>1. CASE ReadEnd \/ ReadTool
        <5>1. reader.hold.text = <<>> /\ ~ReaderStopped
          BY <1>t, <4>1 DEF ReadEnd, ReadTool, KindsInv, ReaderKinds,
                            ReaderStopped
        <5>2. reader'.hold.text = <<>>
          <6>1. CASE ReadEnd
            <7>1. reader'.hold = Event(sourceEnd', <<>>)
              BY <6>1 DEF ReadEnd, TypeOK
            <7> QED
              BY <7>1, EventIs
          <6>2. CASE ReadTool
            <7>1. reader'.hold = Event("tool", <<>>)
              BY <6>2 DEF ReadTool, TypeOK
            <7> QED
              BY <7>1, EventIs
          <6> QED
            BY <4>1, <6>1, <6>2
        <5> QED
          BY <2>s, <3>2, <5>1, <5>2 DEF HeldFrom
      <4>2. CASE ReaderReturns /\ reader.pc = "read"
        <5>1. reader'.hold = reader.hold /\ ~ReaderStopped
          BY <4>2, ReaderReturnsDoes DEF ReaderStopped
        <5> QED
          BY <2>s, <3>2, <5>1 DEF HeldFrom
      <4>3. CASE ReaderReturns /\ reader.pc = "send"
        <5>1. /\ reader'.pc = "closing" /\ reader'.hold = NoEvent /\ ctxDone
              /\ ~ReaderStopped
          BY <4>3, ReaderReturnsDoes DEF ReaderStopped
        <5>2. CASE reader.hold.kind = "tool"
          BY <1>t, <2>s, <3>2, <5>1, <5>2, EventIs DEF HeldFrom
        <5>3. CASE reader.hold.kind # "tool"
          <6>1. reader.hold.kind \in {"delta", "done", "error"}
            BY <4>3, <5>3 DEF KindsInv, ReaderKinds
          <6>2. ~Some(direct.queue, Ends) /\ shownEnd # "done"
            <7>1. CASE reader.hold.kind = "delta"
              <8>1. sourceEnd = "open"
                BY <7>1 DEF SameEnd
              <8> QED
                BY <1>q, <8>1, OpenQueue DEF SameEnd, Agree
            <7>2. CASE reader.hold.kind # "delta"
              BY <6>1, <7>2 DEF OneEnd, Ends
            <7> QED
              BY <7>1, <7>2
          <6>3. ~Some(direct.queue, {"done"})
            BY <6>2 DEF Some, Ends
          <6> QED
            BY <1>f, <1>a, <3>1, <5>1, <6>2, <6>3
            DEF HeldFrom, ReaderStopped, Some
        <5> QED
          BY <5>2, <5>3
      <4>4. CASE ReaderClosesRaw
        <5>1. /\ reader'.hold = reader.hold
              /\ ReaderStopped /\ ReaderStopped'
          BY <4>4 DEF ReaderClosesRaw, TypeOK, ReaderStopped
        <5> QED
          BY <1>f, <2>s, <3>1, <3>2, <5>1 DEF HeldFrom, Some
      <4> QED
        BY <1>2, <2>2, <3>0, <4>1, <4>2, <4>3, <4>4, ReaderReturnsDoes
        DEF Reader
    <3>4. DirectFlow(x, d)'
      BY <1>f, <2>s, <3>1, <3>3 DEF DirectFlow
    <3> QED
      BY <3>4 DEF DirectText
  <2> QED
    BY <2>1, <2>2
<1> QED
  BY <1>1, <1>2

LEMMA DirectOthers ==
  ASSUME EndsInv, SourceInv, relay.doc, Next, ~Reader,
         NEW x \in Positions, NEW d \in Positions, DirectFlow(x, d)
  PROVE  DirectText' /\ SourceInv'
<1> USE DEF EndsInv
<1>n. x \in Nat /\ d \in Nat
  BY PositionsAreNat
<1>l. /\ Len(source) \in Positions /\ Len(source) \in Nat
      /\ Len(shown) \in Positions /\ Len(shown) \in Nat
      /\ Len(shown) <= Len(source)
  BY PositionsAreNat DEF SourceInv
<1>q. direct.queue \in Seq(Events) /\ out.queue \in Seq(Events)
  BY QueuesAre
<1>f. UNCHANGED <<reader, source, sourceEnd>>
  BY Frames DEF Next
<1>a. ~smoother.aiDone /\ ~smoother'.aiDone
  <2>1. relay'.doc = relay.doc /\ SmootherKinds'
    BY DocFixed, SmootherKindsStep
  <2> QED
    BY <2>1 DEF KindsInv, SmootherKinds
<1>c. ctxDone => ctxDone'
  BY Frames DEF Next, Cancel
<1>1. CASE RelayDirect
  <2> DEFINE e == Head(direct.queue)
  <2>1. /\ direct.queue # <<>> /\ Emit(e) /\ relay.pc = "loop"
        /\ direct'.queue = Tail(direct.queue)
    BY <1>1 DEF RelayDirect, Get, TypeOK
  <2>2. PICK m \in Positions :
          /\ x <= m /\ m <= d /\ e.text = Run(x, m)
          /\ Carries(Tail(direct.queue), m, d, Len(source))
    BY <1>q, <2>1, CarriesTail DEF DirectFlow
  <2>3. Some(direct.queue, {"done"}) <=>
          e.kind = "done" \/ Some(Tail(direct.queue), {"done"})
    BY <1>q, <2>1, KindsTail
  <2> HIDE DEF e
  <2>4. m \in Nat /\ x = Len(shown) /\ m <= Len(source)
    BY <1>n, <1>l, <2>1, <2>2, PositionsAreNat DEF DirectFlow
  <2>5. SourceInv' /\ (relay'.pc = "loop" => Len(shown') = m)
    BY <1>f, <2>1, <2>2, <2>4, ShowDoes
  <2>6. shownEnd' = shownEnd \/ shownEnd' = e.kind
    BY <2>1, EmitDoes
  <2>7. HeldFrom(d, direct.queue)'
    BY <1>f, <1>a, <1>c, <2>1, <2>3, <2>6
    DEF DirectFlow, HeldFrom, ReaderStopped
  <2>8. DirectFlow(m, d)'
    BY <1>f, <2>1, <2>2, <2>5, <2>7 DEF DirectFlow
  <2> QED
    BY <2>5, <2>8 DEF DirectText
<1>2. CASE RelaySmoothed
  <2> DEFINE e == Head(out.queue)
  <2>1. /\ out.queue # <<>> /\ Emit(e) /\ UNCHANGED direct
        /\ relay.pc = "loop"
    BY <1>2 DEF RelaySmoothed
  <2>2. Plain(e) /\ e.kind = "status"
    BY <1>q, <2>1, KindsTail DEF KindsInv, QueueKinds
  <2> HIDE DEF e
  <2>3. e.text = Run(Len(shown), Len(shown))
    BY <1>l, <2>2, RunEmpty DEF Plain
  <2>4. Len(shown) <= Len(shown)
    BY <1>l
  <2>5. SourceInv' /\ (relay'.pc = "loop" => Len(shown') = Len(shown))
    BY <1>f, <1>l, <2>1, <2>3, <2>4, ShowDoes
  <2>6. shownEnd' = shownEnd
    BY <2>1, <2>2, EmitDoes DEF Ends
  <2>7. DirectFlow(x, d)'
    BY <1>f, <1>a, <1>c, <2>1, <2>5, <2>6
    DEF DirectFlow, HeldFrom, ReaderStopped
  <2> QED
    BY <2>5, <2>7 DEF DirectText
<1>3. CASE ~RelayDirect /\ ~RelaySmoothed
  <2>1. /\ UNCHANGED <<direct, shown, shownEnd>>
        /\ relay'.pc = "loop" => relay.pc = "loop"
    BY <1>3, OtherSteps, Frames
    DEF Next, Relay, SeeClosed, RelayFinishes, RelayCancelled, HeartbeatFails,
        RelayAborts
  <2>2. DirectFlow(x, d)'
    BY <1>f, <1>a, <1>c, <2>1 DEF DirectFlow, HeldFrom, ReaderStopped
  <2>3. SourceInv'
    BY <1>f, <2>1 DEF SourceInv
  <2> QED
    BY <2>2, <2>3 DEF DirectText
<1> QED
  BY <1>1, <1>2, <1>3

LEMMA TextStep ==
  ASSUME EndsInv, EndedInv, TextInv, Next
  PROVE  TextInv'
<1>d. relay'.doc = relay.doc
  BY DocFixed DEF EndsInv
<1>r. CASE Reader
  <2>1. SourceInv'
    <3>1. CASE ReadText
      <4>1. /\ Len(source') \in Positions /\ Len(source) <= Len(source')
            /\ source' = Run(0, Len(source'))
        BY <3>1, ReadTextDoes DEF EndsInv, TextInv
      <4>2. UNCHANGED shown
        BY <1>r, Frames
      <4>3. Len(source) \in Nat /\ Len(shown) \in Nat /\ Len(source') \in Nat
        BY <4>1, PositionsAreNat DEF TextInv, SourceInv
      <4> QED
        BY <4>1, <4>2, <4>3 DEF TextInv, SourceInv
    <3>2. CASE ~ReadText
      <4>1. UNCHANGED <<source, shown>>
        BY <1>r, <3>2, Frames
        DEF Reader, ReadEnd, ReadTool, SendRaw, SendDirect, ReaderReturns,
            ReaderClosesRaw, produced
      <4> QED
        BY <4>1 DEF TextInv, SourceInv
    <3> QED
      BY <3>1, <3>2
  <2>2. CASE relay.doc
    <3>1. PICK x, d \in Positions : DirectFlow(x, d)
      BY <2>2 DEF TextInv, DirectText
    <3>2. DirectText'
      BY <1>r, <2>2, <3>1, DirectReader DEF TextInv
    <3> QED
      BY <1>d, <2>1, <2>2, <3>2 DEF TextInv
  <2>3. CASE ~relay.doc
    <3>1. PICK x, o, p, c, d \in Positions : SmoothedFlow(x, o, p, c, d)
      BY <2>3 DEF TextInv, SmoothedText
    <3>2. SmoothedText'
      BY <1>r, <2>3, <3>1, SmoothedReader DEF TextInv
    <3> QED
      BY <1>d, <2>1, <2>3, <3>2 DEF TextInv
  <2> QED
    BY <2>2, <2>3
<1>o. CASE ~Reader
  <2>1. CASE relay.doc
    <3>1. PICK x, d \in Positions : DirectFlow(x, d)
      BY <2>1 DEF TextInv, DirectText
    <3>2. DirectText' /\ SourceInv'
      BY <1>o, <2>1, <3>1, DirectOthers DEF TextInv
    <3> QED
      BY <1>d, <2>1, <3>2 DEF TextInv
  <2>2. CASE ~relay.doc
    <3>1. PICK x, o, p, c, d \in Positions : SmoothedFlow(x, o, p, c, d)
      BY <2>2 DEF TextInv, SmoothedText
    <3>2. CASE Smoother
      <4>1. SmoothedText'
        BY <2>2, <3>1, <3>2, SmoothedSmoother DEF TextInv
      <4>2. UNCHANGED <<source, shown>>
        BY <3>2, Frames
      <4> QED
        BY <1>d, <2>2, <4>1, <4>2 DEF TextInv, SourceInv
    <3>3. CASE Relay \/ HeartbeatFails
      <4>1. SmoothedText' /\ SourceInv'
        BY <2>2, <3>1, <3>3, SmoothedRelay DEF TextInv
      <4> QED
        BY <1>d, <2>2, <4>1 DEF TextInv
    <3>4. CASE Cancel
      <4>1. /\ UNCHANGED <<reader, raw, smoother, out, relay, source, sourceEnd,
                           shown, shownEnd>>
            /\ ctxDone'
        BY <3>4, Frames DEF Cancel
      <4>2. SmoothedFlow(x, o, p, c, d)'
        BY <3>1, <4>1 DEF SmoothedFlow, HeldFrom, ReaderStopped
      <4>3. SmoothedText'
        BY <4>2 DEF SmoothedText
      <4> QED
        BY <1>d, <2>2, <4>1, <4>3 DEF TextInv, SourceInv
    <3> QED
      BY <1>o, <3>2, <3>3, <3>4 DEF Next
  <2> QED
    BY <2>1, <2>2
<1> QED
  BY <1>r, <1>o

-----------------------------------------------------------------------------
(* Tools, "done" and the return.                                           *)

LEMMA ToolStep ==
  ASSUME EndsInv, ToolInv, Next
  PROVE  ToolInv'
<1> USE DEF EndsInv
<1>q. direct.queue \in Seq(Events) /\ out.queue \in Seq(Events)
  BY QueuesAre
<1>s. /\ tools.sent \in 0..MaxTools /\ tools.shown \in 0..MaxTools
      /\ MaxTools \in Nat
  BY RelayAssumption DEF TypeOK
<1>1. PICK t, u \in 0..MaxTools :
        /\ relay.pc = "loop" => t = tools.shown
        /\ u <= tools.sent
        /\ Counts(direct.queue, t, u)
        /\ \/ tools.sent = u + One(reader.hold)
           \/ ctxDone /\ ReaderStopped
  BY DEF ToolInv
<1>2. CASE ReadTool
  <2>1. /\ reader.pc = "read" /\ reader.hold.kind = "none"
        /\ tools'.sent = tools.sent + 1 /\ tools'.shown = tools.shown
        /\ reader'.hold = Event("tool", <<>>)
        /\ tools.sent < MaxTools
        /\ UNCHANGED <<direct, relay>>
    BY <1>2 DEF ReadTool, TypeOK, KindsInv, ReaderKinds
  <2>2. One(reader.hold) = 0 /\ One(reader'.hold) = 1
    BY <2>1, EventIs DEF One
  <2>3. tools.sent = u
    BY <1>1, <2>1, <2>2, <1>s DEF ReaderStopped
  <2>4. /\ tools'.sent = u + One(reader'.hold) /\ u <= tools'.sent
        /\ tools'.shown <= tools'.sent
    BY <1>s, <2>1, <2>2, <2>3 DEF ToolInv
  <2> QED
    BY <1>1, <2>1, <2>4 DEF ToolInv
<1>3. CASE SendDirect
  <2>1. /\ reader.pc = "send" /\ reader'.hold = NoEvent
        /\ reader.hold \in Events
        /\ direct'.queue = Append(direct.queue, reader.hold)
        /\ UNCHANGED <<tools, relay>>
    BY <1>3, HeldIs DEF SendDirect, Put, TypeOK, KindsInv, ReaderKinds
  <2>2. tools.sent = u + One(reader.hold)
    BY <1>1, <2>1 DEF ReaderStopped
  <2>3. Counts(direct'.queue, t, u + One(reader.hold))
    BY <1>q, <1>s, <1>1, <2>1, <2>2, CountsAppend
  <2>4. One(reader'.hold) = 0
    BY <2>1, EventIs DEF One
  <2>5. ASSUME NEW v \in 0..MaxTools, v = u + One(reader.hold)
        PROVE  ToolInv'
    <3>1. tools'.sent = v + One(reader'.hold) /\ v <= tools'.sent
      BY <1>s, <2>1, <2>2, <2>4, <2>5
    <3> QED
      BY <1>1, <2>1, <2>3, <2>5, <3>1 DEF ToolInv
  <2> QED
    BY <1>s, <2>2, <2>5
<1>4. CASE ReaderReturns
  <2>1. /\ direct'.queue = direct.queue
        /\ \/ reader'.hold = reader.hold /\ ~ReaderStopped
           \/ ctxDone /\ reader'.pc = "closing" /\ ~ReaderStopped
        /\ UNCHANGED <<tools, relay, ctxDone>>
    BY <1>4, ReaderReturnsDoes DEF ReaderReturns, ReaderStopped
  <2> QED
    BY <1>1, <2>1 DEF ToolInv, ReaderStopped
<1>5. CASE Reader /\ ~ReadTool /\ ~SendDirect /\ ~ReaderReturns
  <2>1. /\ direct'.queue = direct.queue
        /\ UNCHANGED <<tools, relay, ctxDone>>
    BY <1>5 DEF Reader, ReadText, ReadEnd, SendRaw, ReaderClosesRaw
  <2>2. One(reader'.hold) = One(reader.hold)
    <3>1. CASE ReadText \/ ReadEnd
      <4>1. reader.hold.kind = "none" /\ reader'.hold.kind # "tool"
        <5>1. reader.pc = "read"
          BY <3>1 DEF ReadText, ReadEnd
        <5>2. CASE ReadText
          <6>1. PICK e : /\ reader' = [reader EXCEPT !.pc = "send", !.hold = e]
                         /\ \E text : e = Event("delta", text)
            BY <5>2 DEF ReadText
          <6>2. reader'.hold = e
            BY <6>1 DEF TypeOK
          <6>3. e.kind = "delta"
            BY <6>1, EventIs
          <6> QED
            BY <5>1, <6>2, <6>3 DEF KindsInv, ReaderKinds
        <5>3. CASE ReadEnd
          <6>1. reader'.hold = Event(sourceEnd', <<>>) /\ sourceEnd' \in Ends
            BY <5>3 DEF ReadEnd, TypeOK, Ends
          <6>2. Event(sourceEnd', <<>>).kind = sourceEnd'
            BY EventIs
          <6> QED
            BY <5>1, <6>1, <6>2 DEF KindsInv, ReaderKinds, Ends
        <5> QED
          BY <3>1, <5>2, <5>3
      <4> QED
        BY <4>1 DEF One
    <3>2. CASE SendRaw
      <4>1. reader.hold.kind # "tool" /\ reader'.hold = NoEvent
        BY <3>2 DEF SendRaw, GoesDirect, TypeOK
      <4> QED
        BY <4>1, EventIs DEF One
    <3>3. CASE ReaderClosesRaw
      BY <3>3 DEF ReaderClosesRaw, TypeOK, One
    <3> QED
      BY <1>5, <3>1, <3>2, <3>3 DEF Reader
  <2>3. ReaderStopped => ReaderStopped'
    BY <1>5 DEF Reader, ReadText, ReadEnd, SendRaw, ReaderClosesRaw,
                ReaderStopped, TypeOK
  <2> QED
    BY <1>1, <2>1, <2>2, <2>3 DEF ToolInv
<1>6. CASE RelayDirect
  <2> DEFINE e == Head(direct.queue)
  <2>1. /\ direct.queue # <<>> /\ Emit(e) /\ relay.pc = "loop"
        /\ direct'.queue = Tail(direct.queue) /\ UNCHANGED <<reader, ctxDone>>
    BY <1>6 DEF RelayDirect, Get, TypeOK
  <2>2. /\ t + One(e) \in 0..MaxTools /\ t + One(e) <= u
        /\ Counts(Tail(direct.queue), t + One(e), u)
    BY <1>q, <1>1, <2>1, CountsTail
  <2> HIDE DEF e
  <2>3. /\ tools'.sent = tools.sent /\ t = tools.shown
        /\ \/ tools'.shown = tools.shown + One(e)
           \/ relay'.pc = "returned" /\ tools'.shown = tools.shown
    BY <1>1, <1>s, <2>1, EmitDoes DEF One
  <2>4. tools'.shown <= tools'.sent
    BY <1>1, <1>s, <2>2, <2>3 DEF ToolInv
  <2>5. ASSUME NEW v \in 0..MaxTools, v = t + One(e)
        PROVE  ToolInv'
    BY <1>1, <2>1, <2>2, <2>3, <2>4, <2>5 DEF ToolInv, ReaderStopped
  <2> QED
    BY <2>2, <2>5
<1>7. CASE RelaySmoothed
  <2> DEFINE e == Head(out.queue)
  <2>1. /\ out.queue # <<>> /\ Emit(e) /\ relay.pc = "loop"
        /\ UNCHANGED <<reader, ctxDone, direct>>
    BY <1>7 DEF RelaySmoothed
  <2>2. e.kind # "tool"
    BY <1>q, <2>1, KindsTail DEF KindsInv, QueueKinds
  <2> HIDE DEF e
  <2>3. /\ tools'.sent = tools.sent /\ tools'.shown = tools.shown
        /\ relay'.pc = "loop" => relay.pc = "loop"
    BY <2>1, <2>2, EmitDoes
  <2> QED
    BY <1>1, <2>1, <2>3 DEF ToolInv, ReaderStopped
<1>8. CASE ~Reader /\ ~RelayDirect /\ ~RelaySmoothed
  <2>1. /\ UNCHANGED <<reader, direct, tools>> /\ (ctxDone => ctxDone')
        /\ relay'.pc = "loop" => relay.pc = "loop"
    BY <1>8, Frames
    DEF Next, Relay, SeeClosed, RelayFinishes, RelayCancelled, HeartbeatFails,
        RelayAborts, Cancel
  <2> QED
    BY <1>1, <2>1 DEF ToolInv, ReaderStopped
<1> QED
  BY <1>2, <1>3, <1>4, <1>5, <1>6, <1>7, <1>8

LEMMA DoneStep ==
  ASSUME EndsInv, EndedInv, DoneInv, Next
  PROVE  DoneInv'
<1> USE DEF EndsInv
<1>d. relay'.doc = relay.doc
  BY DocFixed
<1>q. /\ raw.queue \in Seq(Events) /\ direct.queue \in Seq(Events)
      /\ out.queue \in Seq(Events)
  BY QueuesAre
<1> SUFFICES ASSUME sourceEnd' = "done", ~Lost'
             PROVE  DoneInv'
  BY DEF DoneInv
<1>n. ~Lost
  <2>1. CASE ctxDone
    <3>1. ctxDone'
      BY <2>1, Frames DEF Next, Cancel
    <3> QED
      BY <3>1 DEF Lost
  <2>2. CASE relay.pc = "returned" /\ ~relay.ok
    <3>1. ~Relay /\ ~HeartbeatFails
      BY <2>2 DEF Relay, RelayDirect, RelaySmoothed, SeeClosed, RelayFinishes,
                  RelayCancelled, HeartbeatFails, RelayAborts
    <3>2. UNCHANGED relay
      BY <3>1, Frames DEF Next
    <3> QED
      BY <2>2, <3>2 DEF Lost
  <2> QED
    BY <2>1, <2>2 DEF Lost
<1>1. CASE ReadEnd
  <2>1. reader'.hold = Event(sourceEnd', <<>>)
    BY <1>1 DEF ReadEnd, TypeOK
  <2>2. reader'.hold.kind = "done"
    BY <2>1, EventIs
  <2> QED
    BY <2>2 DEF DoneInv
<1>2. CASE ~ReadEnd
  <2>s. sourceEnd = "done"
    BY <1>2, Frames DEF Next, Reader, ReadText, ReadTool, SendRaw, SendDirect,
                        ReaderReturns, ReaderClosesRaw, produced
  <2>i. \/ reader.hold.kind = "done"
        \/ shownEnd = "done"
        \/ relay.doc /\ Some(direct.queue, {"done"})
        \/ /\ ~relay.doc /\ smoother.pc # "ended"
           /\ Some(raw.queue, {"done"}) \/ smoother.aiDone
        \/ ~relay.doc /\ Some(out.queue, {"done"})
    BY <1>n, <2>s DEF DoneInv
  <2>1. CASE Reader
    <3>f. UNCHANGED <<smoother, out, relay, shownEnd>>
      BY <2>1, Frames
    <3>1. CASE ReadText
      BY <2>s, <3>1 DEF ReadText
    <3>2. CASE ReadTool
      <4>1. reader.hold.kind = "none" /\ UNCHANGED <<raw, direct>>
        BY <3>2 DEF ReadTool, KindsInv, ReaderKinds
      <4> QED
        BY <2>i, <3>f, <4>1 DEF DoneInv, Some
    <3>3. CASE SendRaw
      <4>1. /\ ~relay.doc /\ reader.hold \in Events /\ reader.pc = "send"
            /\ raw'.queue = Append(raw.queue, reader.hold)
        BY <3>3, HeldIs DEF SendRaw, GoesDirect, Put, TypeOK, KindsInv,
                            ReaderKinds
      <4>2. Some(raw.queue, {"done"}) \/ reader.hold.kind = "done" =>
              Some(raw'.queue, {"done"})
        BY <1>q, <4>1, KindsAppend
      <4>3. reader.hold.kind = "done" => smoother.pc # "ended"
        <5>1. reader.hold.kind = "done" => ~smoother.aiDone
          BY DEF OneEnd, Ends
        <5> QED
          BY <1>n, <2>s, <4>1, <5>1 DEF EndedInv, Lost
      <4> QED
        BY <2>i, <3>f, <4>1, <4>2, <4>3 DEF DoneInv, Some
    <3>4. CASE SendDirect
      <4>1. /\ reader.hold \in Events /\ reader.pc = "send"
            /\ reader.hold.kind = "done" => relay.doc
            /\ direct'.queue = Append(direct.queue, reader.hold)
            /\ UNCHANGED raw
        BY <3>4, HeldIs DEF SendDirect, GoesDirect, Put, TypeOK, KindsInv,
                            ReaderKinds
      <4>2. Some(direct.queue, {"done"}) \/ reader.hold.kind = "done" =>
              Some(direct'.queue, {"done"})
        BY <1>q, <4>1, KindsAppend
      <4> QED
        BY <2>i, <3>f, <4>1, <4>2 DEF DoneInv, Some
    <3>5. CASE ReaderReturns \/ ReaderClosesRaw
      <4>1. /\ raw'.queue = raw.queue /\ direct'.queue = direct.queue
            /\ reader'.hold = reader.hold
        BY <1>n, <3>5, ReaderReturnsDoes
        DEF ReaderReturns, ReaderClosesRaw, Close, TypeOK, Lost
      <4> QED
        BY <2>i, <3>f, <4>1 DEF DoneInv, Some
    <3> QED
      BY <1>2, <2>1, <3>1, <3>2, <3>3, <3>4, <3>5 DEF Reader
  <2>2. CASE Smoother
    <3>f. UNCHANGED <<reader, direct, relay, shownEnd, sourceEnd>>
      BY <2>2, Frames
    <3>1. CASE ReceiveChunk
      <4> DEFINE e == Head(raw.queue)
      <4>1. /\ raw.queue # <<>> /\ raw'.queue = Tail(raw.queue)
            /\ smoother'.pc # "ended" /\ UNCHANGED out
            /\ smoother.aiDone \/ e.kind = "done" => smoother'.aiDone
        BY <3>1, ReceiveChunkDoes DEF ReceiveChunk, Ends
      <4>2. Some(raw.queue, {"done"}) <=>
              e.kind = "done" \/ Some(Tail(raw.queue), {"done"})
        BY <1>q, <4>1, KindsTail
      <4> HIDE DEF e
      <4> QED
        BY <2>i, <3>f, <4>1, <4>2 DEF DoneInv, Some
    <3>2. CASE SeeRawClosed
      <4>1. /\ smoother'.pc = smoother.pc /\ smoother'.aiDone = smoother.aiDone
            /\ UNCHANGED <<raw, out>>
        BY <3>2 DEF SeeRawClosed, TypeOK
      <4> QED
        BY <2>i, <3>f, <4>1 DEF DoneInv, Some
    <3>3. CASE Tick
      <4>1. /\ smoother'.aiDone = smoother.aiDone /\ UNCHANGED raw
            /\ out'.queue = out.queue
            /\ smoother'.pc = "ended" => smoother.rawClosed /\ ~smoother.aiDone
        BY <3>3, TickDoes DEF Tick
      <4>2. smoother.rawClosed => ~Some(raw.queue, {"done"})
        BY NothingIs DEF ClosingInv
      <4> QED
        BY <2>i, <3>f, <4>1, <4>2 DEF DoneInv, Some
    <3>4. CASE SmootherSends
      <4>1. /\ smoother'.aiDone = smoother.aiDone /\ UNCHANGED raw
            /\ out'.queue = Append(out.queue, smoother.hold)
            /\ smoother.hold \in Events /\ smoother.pc = "send"
            /\ smoother'.pc = "ended" => smoother.last
        BY <3>4, SmootherSendsDoes, HeldIs
        DEF SmootherSends, KindsInv, SmootherKinds
      <4>2. Some(out.queue, {"done"}) \/ smoother.hold.kind = "done" =>
              Some(out'.queue, {"done"})
        BY <1>q, <4>1, KindsAppend
      <4>3. smoother'.pc = "ended" => smoother.hold.kind = "done"
        BY <2>s, <4>1 DEF KindsInv, SmootherKinds, SameEnd
      <4> QED
        BY <2>i, <3>f, <4>1, <4>2, <4>3 DEF DoneInv, Some
    <3>5. CASE SmootherCancelled
      BY <1>n, <3>5, SmootherCancelledDoes DEF Lost
    <3> QED
      BY <2>2, <3>1, <3>2, <3>3, <3>4, <3>5 DEF Smoother
  <2>3. CASE RelayDirect
    <3> DEFINE e == Head(direct.queue)
    <3>1. /\ direct.queue # <<>> /\ Emit(e) /\ UNCHANGED <<reader, raw, smoother, out>>
          /\ direct'.queue = Tail(direct.queue)
      BY <2>3 DEF RelayDirect, Get, TypeOK
    <3>2. /\ e.kind \in {"delta", "tool", "status", sourceEnd}
          /\ Some(direct.queue, {"done"}) <=>
               e.kind = "done" \/ Some(Tail(direct.queue), {"done"})
      BY <1>q, <3>1, KindsTail DEF SameEnd, Agree
    <3> HIDE DEF e
    <3>3. shownEnd' = IF e.kind \in Ends THEN e.kind ELSE shownEnd
      BY <3>1, EmitDoes DEF Lost
    <3>4. shownEnd = "done" \/ e.kind = "done" => shownEnd' = "done"
      BY <2>s, <3>2, <3>3 DEF Ends
    <3> QED
      BY <1>d, <2>i, <3>1, <3>2, <3>4 DEF DoneInv, Some
  <2>4. CASE RelaySmoothed
    <3> DEFINE e == Head(out.queue)
    <3>1. /\ out.queue # <<>> /\ Emit(e) /\ UNCHANGED <<reader, raw, smoother, direct>>
          /\ out'.queue = Tail(out.queue)
      BY <2>4 DEF RelaySmoothed, Get, TypeOK
    <3>2. /\ e.kind \in {"delta", "tool", "status", sourceEnd}
          /\ Some(out.queue, {"done"}) <=>
               e.kind = "done" \/ Some(Tail(out.queue), {"done"})
      BY <1>q, <3>1, KindsTail DEF SameEnd, Agree
    <3> HIDE DEF e
    <3>3. shownEnd' = IF e.kind \in Ends THEN e.kind ELSE shownEnd
      BY <3>1, EmitDoes DEF Lost
    <3>4. shownEnd = "done" \/ e.kind = "done" => shownEnd' = "done"
      BY <2>s, <3>2, <3>3 DEF Ends
    <3> QED
      BY <1>d, <2>i, <3>1, <3>2, <3>4 DEF DoneInv, Some
  <2>5. CASE ~Reader /\ ~Smoother /\ ~RelayDirect /\ ~RelaySmoothed
    <3>1. UNCHANGED <<reader, raw, direct, smoother, out, shownEnd>>
      BY <2>5, OtherSteps, Frames
      DEF Next, Relay, SeeClosed, RelayFinishes, RelayCancelled,
          HeartbeatFails, RelayAborts
    <3> QED
      BY <1>d, <2>i, <3>1 DEF DoneInv, Some
  <2> QED
    BY <2>1, <2>2, <2>3, <2>4, <2>5
<1> QED
  BY <1>1, <1>2

LEMMA ReturnStep ==
  ASSUME EndsInv, TextInv, ToolInv, DoneInv, ReturnInv, Next
  PROVE  ReturnInv'
<1> USE DEF EndsInv
<1> SUFFICES ASSUME relay'.pc = "returned", relay'.ok
             PROVE  ReaderStopped' /\ CleanReturnIsComplete'
  BY DEF ReturnInv
<1>1. CASE relay.pc = "returned"
  <2>1. ~Relay /\ ~HeartbeatFails
    BY <1>1 DEF Relay, RelayDirect, RelaySmoothed, SeeClosed, RelayFinishes,
                RelayCancelled, HeartbeatFails, RelayAborts
  <2>2. UNCHANGED <<relay, shown, shownEnd>>
    BY <2>1, Frames DEF Next
  <2>3. ReaderStopped /\ CleanReturnIsComplete
    BY <1>1, <2>2 DEF ReturnInv
  <2>4. ReaderStopped' /\ UNCHANGED <<source, sourceEnd, tools>>
    <3>1. CASE Reader
      <4>1. ReaderClosesRaw
        BY <2>3, <3>1 DEF Reader, ReadText, ReadEnd, ReadTool, SendRaw,
                          SendDirect, ReaderReturns, ReaderStopped
      <4> QED
        BY <4>1 DEF ReaderClosesRaw, ReaderStopped, TypeOK, produced
    <3>2. CASE Smoother \/ Cancel
      BY <2>3, <3>2, Frames DEF ReaderStopped
    <3> QED
      BY <2>1, <3>1, <3>2 DEF Next
  <2>5. ctxDone => ctxDone'
    BY Frames DEF Next, Cancel
  <2> QED
    BY <1>1, <2>2, <2>3, <2>4, <2>5 DEF CleanReturnIsComplete
<1>2. CASE relay.pc # "returned"
  <2>1. RelayFinishes
    <3>1. CASE Reader \/ Smoother \/ Cancel
      BY <1>2, <3>1, Frames
    <3>2. CASE RelayDirect \/ RelaySmoothed
      BY <1>2, <3>2, EmitDoes DEF RelayDirect, RelaySmoothed
    <3>3. CASE SeeClosed
      BY <1>2, <3>3 DEF SeeClosed, TypeOK
    <3>4. CASE RelayCancelled \/ HeartbeatFails
      BY <3>4 DEF RelayCancelled, HeartbeatFails, RelayAborts, TypeOK
    <3> QED
      BY <3>1, <3>2, <3>3, <3>4 DEF Next, Relay
  <2>2. /\ relay.pc = "loop" /\ relay.directClosed /\ relay.smootherClosed
        /\ UNCHANGED <<reader, ctxDone, source, sourceEnd, shown, shownEnd,
                       tools>>
    BY <2>1 DEF RelayFinishes, produced, received
  <2>3. /\ ReaderStopped /\ smoother.pc = "ended"
        /\ direct.queue = <<>> /\ out.queue = <<>>
    BY <2>2 DEF ClosingInv
  <2>4. reader.hold.kind = "none" /\ reader.hold.text = <<>>
    BY <2>3 DEF KindsInv, ReaderKinds, Plain, ReaderStopped
  <2>q. direct.queue \in Seq(Events) /\ out.queue \in Seq(Events)
    BY QueuesAre
  <2>l. /\ Len(source) \in Nat /\ Len(shown) \in Nat
        /\ source = Run(0, Len(source)) /\ shown = Run(0, Len(shown))
    BY PositionsAreNat DEF TextInv, SourceInv
  <2> SUFFICES ASSUME ~ctxDone, sourceEnd # "error"
               PROVE  /\ shown = source
                      /\ sourceEnd = "done" => shownEnd = "done"
                      /\ tools.shown = tools.sent
    BY <2>2, <2>3 DEF CleanReturnIsComplete, ReaderStopped
  <2>5. Len(shown) = Len(source)
    <3>1. CASE relay.doc
      <4>1. PICK x, d \in Positions : DirectFlow(x, d)
        BY <3>1 DEF TextInv, DirectText
      <4>2. x = Len(shown) /\ x = d
        BY <2>2, <2>3, <2>q, <4>1, CarriesBounds DEF DirectFlow
      <4>3. Run(d, Len(source)) = <<>> /\ d <= Len(source)
        BY <2>4, <4>1 DEF DirectFlow, HeldFrom
      <4> QED
        BY <2>l, <4>2, <4>3, RunEmpty
    <3>2. CASE ~relay.doc
      <4>1. PICK x, o, p, c, d \in Positions : SmoothedFlow(x, o, p, c, d)
        BY <3>2 DEF TextInv, SmoothedText
      <4> QED
        BY <2>2, <2>3, <2>q, <4>1, CarriesBounds DEF SmoothedFlow
    <3> QED
      BY <3>1, <3>2
  <2>6. sourceEnd = "done" => shownEnd = "done"
    BY <2>2, <2>3, <2>4, NothingIs DEF DoneInv, Lost
  <2>7. tools.shown = tools.sent
    <3>1. PICK t, u \in 0..MaxTools :
            /\ t = tools.shown
            /\ Counts(direct.queue, t, u)
            /\ tools.sent = u + One(reader.hold)
      BY <2>2 DEF ToolInv
    <3>2. t = u /\ One(reader.hold) = 0
      BY <2>3, <2>4, <2>q, <3>1, CountsBounds DEF One
    <3> QED
      BY <3>1, <3>2, RelayAssumption
  <2> QED
    BY <2>l, <2>5, <2>6, <2>7
<1> QED
  BY <1>1, <1>2

-----------------------------------------------------------------------------
(* Types.                                                                  *)

LEMMA NothingIsText ==
  /\ <<>> \in Texts
  /\ \A k \in Kinds : Event(k, <<>>) \in Events
<1>1. Run(0, 0) \in Texts
  BY PositionsAreNat, RunText
<1>2. Run(0, 0) = <<>>
  BY RunEmpty
<1>3. <<>> \in Texts
  BY <1>1, <1>2
<1> QED
  BY <1>3 DEF Event, Events

\* A channel and what can be done with it.
LEMMA ChannelStep ==
  ASSUME NEW n \in Nat, NEW c \in [queue : Queues(n), closed : BOOLEAN]
  PROVE  /\ Close(c) \in [queue : Queues(n), closed : BOOLEAN]
         /\ c.queue # <<>> =>
              Get(c) \in [queue : Queues(n), closed : BOOLEAN]
         /\ \A e \in Events : Len(c.queue) < n =>
              Put(c, e) \in [queue : Queues(n), closed : BOOLEAN]
<1>1. c.queue \in Seq(Events) /\ Len(c.queue) <= n
  BY QueueIs
<1>2. Close(c) \in [queue : Queues(n), closed : BOOLEAN]
  BY DEF Close
<1>3. ASSUME c.queue # <<>>
      PROVE  Get(c) \in [queue : Queues(n), closed : BOOLEAN]
  <2>1. Tail(c.queue) \in Seq(Events) /\ Len(Tail(c.queue)) <= n
    BY <1>1, <1>3, TailIs
  <2>2. Tail(c.queue) \in Queues(n)
    BY <2>1, QueueIs
  <2> QED
    BY <2>2 DEF Get
<1>4. ASSUME NEW e \in Events, Len(c.queue) < n
      PROVE  Put(c, e) \in [queue : Queues(n), closed : BOOLEAN]
  <2>1. Append(c.queue, e) \in Seq(Events) /\ Len(Append(c.queue, e)) <= n
    BY <1>1, <1>4, AppendIs
  <2>2. Append(c.queue, e) \in Queues(n)
    BY <2>1, QueueIs
  <2> QED
    BY <2>2 DEF Put
<1> QED
  BY <1>2, <1>3, <1>4

LEMMA ReaderTypeStep ==
  ASSUME EndsInv, SourceInv, Next
  PROVE  reader' \in [pc : {"read", "send", "closing", "ended"},
                      hold : Events \cup {NoEvent}, err : BOOLEAN]
<1> USE DEF EndsInv
<1>t. reader \in [pc : {"read", "send", "closing", "ended"},
                  hold : Events \cup {NoEvent}, err : BOOLEAN]
  BY DEF TypeOK
<1>1. ASSUME NEW e \in Events \cup {NoEvent},
             NEW pc \in {"read", "send", "closing", "ended"},
             reader' = [reader EXCEPT !.pc = pc, !.hold = e]
      PROVE  reader' \in [pc : {"read", "send", "closing", "ended"},
                          hold : Events \cup {NoEvent}, err : BOOLEAN]
  BY <1>t, <1>1
<1>2. CASE ReadText
  <2> DEFINE L == Len(source)
  <2>1. PICK n \in 1..(MaxRunes - L) :
          reader' = [reader EXCEPT !.pc = "send",
                         !.hold = Event("delta", [i \in 1..n |-> L + i])]
    BY <1>2 DEF ReadText
  <2>2. n \in 0..MaxRunes /\ L \in 0..MaxRunes
    BY RelayAssumption DEF SourceInv, Positions
  <2> HIDE DEF L
  <2>3. Event("delta", [i \in 1..n |-> L + i]) \in Events
    BY <2>2 DEF Event, Events, Kinds, Texts
  <2> QED
    BY <1>1, <2>1, <2>3
<1>3. CASE ReadEnd \/ ReadTool
  <2>1. PICK k \in {"done", "error", "tool"} :
          reader' = [reader EXCEPT !.pc = "send", !.hold = Event(k, <<>>)]
    BY <1>3 DEF ReadEnd, ReadTool
  <2>2. Event(k, <<>>) \in Events
    BY NothingIsText DEF Kinds
  <2> QED
    BY <1>1, <2>1, <2>2
<1>4. CASE SendRaw \/ SendDirect
  <2>1. reader' = [reader EXCEPT !.pc = "read", !.hold = NoEvent]
    BY <1>4 DEF SendRaw, SendDirect
  <2> QED
    BY <1>1, <2>1
<1>5. CASE ReaderReturns
  <2>1. CASE reader.pc = "read"
    <3>1. PICK err \in BOOLEAN :
            reader' = [reader EXCEPT !.pc = "closing", !.err = err]
      BY <1>5, <2>1 DEF ReaderReturns
    <3> QED
      BY <1>t, <3>1
  <2>2. CASE reader.pc # "read"
    <3>1. reader' = [pc |-> "closing", hold |-> NoEvent, err |-> TRUE]
      BY <1>5, <2>2 DEF ReaderReturns
    <3> QED
      BY <3>1
  <2> QED
    BY <2>1, <2>2
<1>6. CASE ReaderClosesRaw
  <2>1. reader' = [reader EXCEPT !.pc = "ended"]
    BY <1>6 DEF ReaderClosesRaw
  <2> QED
    BY <1>t, <2>1
<1>7. CASE ~Reader
  BY <1>t, <1>7, Frames DEF Next
<1> QED
  BY <1>2, <1>3, <1>4, <1>5, <1>6, <1>7 DEF Reader

LEMMA ChannelsTypeStep ==
  ASSUME EndsInv, Next
  PROVE  /\ raw' \in [queue : Queues(RawCap), closed : BOOLEAN]
         /\ direct' \in [queue : Queues(DirectCap), closed : BOOLEAN]
         /\ out' \in [queue : Queues(OutCap), closed : BOOLEAN]
<1> USE DEF EndsInv
<1>t. /\ raw \in [queue : Queues(RawCap), closed : BOOLEAN]
      /\ direct \in [queue : Queues(DirectCap), closed : BOOLEAN]
      /\ out \in [queue : Queues(OutCap), closed : BOOLEAN]
      /\ RawCap \in Nat /\ DirectCap \in Nat /\ OutCap \in Nat
  BY RelayAssumption DEF TypeOK
<1>h. /\ reader.pc = "send" => reader.hold \in Events
      /\ smoother.pc = "send" => smoother.hold \in Events
  BY HeldIs DEF KindsInv, ReaderKinds, SmootherKinds
<1>1. raw' \in [queue : Queues(RawCap), closed : BOOLEAN]
  <2>1. CASE SendRaw
    BY <1>t, <1>h, <2>1, ChannelStep DEF SendRaw
  <2>2. CASE ReaderClosesRaw
    BY <1>t, <2>2, ChannelStep DEF ReaderClosesRaw
  <2>3. CASE ReceiveChunk
    BY <1>t, <2>3, ChannelStep DEF ReceiveChunk
  <2>4. CASE ~SendRaw /\ ~ReaderClosesRaw /\ ~ReceiveChunk
    <3>1. UNCHANGED raw
      BY <2>4, Frames
      DEF Next, Reader, ReadText, ReadEnd, ReadTool, SendDirect,
          ReaderReturns, Smoother, SeeRawClosed, Tick, SmootherSends,
          SmootherCancelled
    <3> QED
      BY <1>t, <3>1
  <2> QED
    BY <2>1, <2>2, <2>3, <2>4
<1>2. direct' \in [queue : Queues(DirectCap), closed : BOOLEAN]
  <2>1. CASE SendDirect
    BY <1>t, <1>h, <2>1, ChannelStep DEF SendDirect
  <2>2. CASE ReaderReturns
    BY <1>t, <2>2, ChannelStep DEF ReaderReturns
  <2>3. CASE RelayDirect
    BY <1>t, <2>3, ChannelStep DEF RelayDirect
  <2>4. CASE ~SendDirect /\ ~ReaderReturns /\ ~RelayDirect
    <3>1. UNCHANGED direct
      BY <2>4, Frames
      DEF Next, Reader, ReadText, ReadEnd, ReadTool, SendRaw,
          ReaderClosesRaw, Relay, RelaySmoothed, SeeClosed, RelayFinishes,
          RelayCancelled, HeartbeatFails, RelayAborts
    <3> QED
      BY <1>t, <3>1
  <2> QED
    BY <2>1, <2>2, <2>3, <2>4
<1>3. out' \in [queue : Queues(OutCap), closed : BOOLEAN]
  <2>1. CASE SmootherSends
    <3>1. Put(out, smoother.hold) \in [queue : Queues(OutCap), closed : BOOLEAN]
      BY <1>t, <1>h, <2>1, ChannelStep DEF SmootherSends
    <3>2. Close(Put(out, smoother.hold))
            \in [queue : Queues(OutCap), closed : BOOLEAN]
      BY <1>t, <3>1, ChannelStep
    <3> QED
      BY <2>1, <3>1, <3>2 DEF SmootherSends
  <2>2. CASE Tick \/ SmootherCancelled
    <3>1. UNCHANGED out \/ out' = Close(out)
      BY <2>2 DEF Tick, SmootherCancelled, SmootherReturns, SendPiece,
                  SendDone, SendStatus
    <3> QED
      BY <1>t, <3>1, ChannelStep
  <2>3. CASE RelaySmoothed
    BY <1>t, <2>3, ChannelStep DEF RelaySmoothed
  <2>4. CASE ~SmootherSends /\ ~Tick /\ ~SmootherCancelled /\ ~RelaySmoothed
    <3>1. UNCHANGED out
      BY <2>4, Frames
      DEF Next, Smoother, ReceiveChunk, SeeRawClosed, Relay, RelayDirect,
          SeeClosed, RelayFinishes, RelayCancelled, HeartbeatFails, RelayAborts
    <3> QED
      BY <1>t, <3>1
  <2> QED
    BY <2>1, <2>2, <2>3, <2>4
<1> QED
  BY <1>1, <1>2, <1>3

LEMMA SmootherTypeStep ==
  ASSUME EndsInv, EndedInv, TextInv, Next
  PROVE  smoother' \in [pc : {"run", "send", "ended"},
                        hold : Events \cup {NoEvent}, last : BOOLEAN,
                        pending : Texts, aiDone : BOOLEAN,
                        rawClosed : BOOLEAN, notified : BOOLEAN]
<1> USE DEF EndsInv
<1> DEFINE S == [pc : {"run", "send", "ended"},
                 hold : Events \cup {NoEvent}, last : BOOLEAN,
                 pending : Texts, aiDone : BOOLEAN,
                 rawClosed : BOOLEAN, notified : BOOLEAN]
<1>t. smoother \in S
  BY DEF TypeOK
<1>x. smoother'.pending \in Texts /\ smoother'.hold.text \in Texts
  <2>1. TextInv' /\ SmootherKinds'
    BY TextStep, SmootherKindsStep
  <2>2. CASE relay'.doc
    BY <2>1, <2>2, NothingIsText DEF SmootherKinds, Plain
  <2>3. CASE ~relay'.doc
    <3>1. PICK x, o, p, c, d \in Positions : SmoothedFlow(x, o, p, c, d)'
      BY <2>1, <2>3 DEF TextInv, SmoothedText
    <3>2. Run(o, p) \in Texts /\ Run(p, c) \in Texts
      BY <3>1, RunText DEF SmoothedFlow
    <3> QED
      BY <3>1, <3>2 DEF SmoothedFlow
  <2> QED
    BY <2>2, <2>3
<1>s. /\ Event("status", <<>>) \in Events /\ Event("done", <<>>) \in Events
      /\ <<>> \in Texts
  BY NothingIsText DEF Kinds
<1>1. CASE ReceiveChunk
  <2> DEFINE e == Head(raw.queue)
             text == smoother.pending \o e.text
  <2>1. e \in Events
    <3>1. raw.queue \in Seq(Events) /\ raw.queue # <<>>
      BY <1>1, QueuesAre DEF ReceiveChunk
    <3> QED
      BY <3>1, TailIs
  <2>2. \/ smoother' = [smoother EXCEPT !.pc = "send", !.hold = e,
                                        !.last = TRUE]
        \/ smoother' = [smoother EXCEPT !.aiDone = TRUE]
        \/ smoother' = [[smoother EXCEPT !.pc = "send", !.last = FALSE,
                                         !.hold = Event("status", <<>>)]
                          EXCEPT !.pending = text, !.notified = TRUE]
        \/ smoother' = [smoother EXCEPT !.pending = text]
    BY <1>1, ReceiveChunkIs
  <2> HIDE DEF e, text
  <2>3. CASE smoother' = [smoother EXCEPT !.pc = "send", !.hold = e,
                                          !.last = TRUE]
    BY <1>t, <2>1, <2>3
  <2>4. CASE smoother' = [smoother EXCEPT !.aiDone = TRUE]
    BY <1>t, <2>4
  <2>5. CASE smoother' = [[smoother EXCEPT !.pc = "send", !.last = FALSE,
                                           !.hold = Event("status", <<>>)]
                            EXCEPT !.pending = text, !.notified = TRUE]
    <3>1. smoother'.pending = text
      BY <1>t, <2>5
    <3> QED
      BY <1>t, <1>x, <1>s, <2>5, <3>1
  <2>6. CASE smoother' = [smoother EXCEPT !.pending = text]
    <3>1. smoother'.pending = text
      BY <1>t, <2>6
    <3> QED
      BY <1>t, <1>x, <2>6, <3>1
  <2> QED
    BY <2>2, <2>3, <2>4, <2>5, <2>6
<1>2. CASE SeeRawClosed
  BY <1>t, <1>2 DEF SeeRawClosed
<1>3. ASSUME SmootherReturns PROVE smoother' \in S
  BY <1>t, <1>s, <1>3 DEF SmootherReturns
<1>4. CASE Tick
  <2>1. CASE SendPiece
    <3>1. PICK t, rest :
            smoother' = [[smoother EXCEPT !.pc = "send",
                              !.hold = Event("delta", t), !.last = FALSE]
                           EXCEPT !.pending = rest]
      BY <2>1 DEF SendPiece, Sending
    <3>2. smoother'.pending = rest /\ smoother'.hold = Event("delta", t)
      BY <1>t, <3>1
    <3>3. t \in Texts /\ rest \in Texts
      BY <1>x, <3>2, EventIs
    <3>4. Event("delta", t) \in Events
      BY <3>3 DEF Event, Events, Kinds
    <3> QED
      BY <1>t, <3>1, <3>3, <3>4
  <2>2. CASE SendDone \/ SendStatus
    <3>1. PICK k \in {"done", "status"}, last \in BOOLEAN :
            smoother' = [smoother EXCEPT !.pc = "send", !.last = last,
                                         !.hold = Event(k, <<>>)]
      BY <2>2 DEF SendDone, SendStatus, Sending
    <3> QED
      BY <1>t, <1>s, <3>1
  <2> QED
    BY <1>3, <1>4, <2>1, <2>2 DEF Tick
<1>5. CASE SmootherSends
  BY <1>t, <1>s, <1>5 DEF SmootherSends
<1>6. CASE SmootherCancelled
  BY <1>3, <1>6 DEF SmootherCancelled
<1>7. CASE ~Smoother
  BY <1>t, <1>7, Frames DEF Next
<1> QED
  BY <1>1, <1>2, <1>4, <1>5, <1>6, <1>7 DEF Smoother

LEMMA RelayTypeStep ==
  ASSUME EndsInv, ToolInv, Next
  PROVE  /\ relay' \in [pc : {"loop", "returned"}, doc : BOOLEAN,
                        emitted : BOOLEAN, smootherClosed : BOOLEAN,
                        directClosed : BOOLEAN, ok : BOOLEAN]
         /\ tools' \in [sent : 0..MaxTools, shown : 0..MaxTools]
<1> USE DEF EndsInv
<1> DEFINE R == [pc : {"loop", "returned"}, doc : BOOLEAN,
                 emitted : BOOLEAN, smootherClosed : BOOLEAN,
                 directClosed : BOOLEAN, ok : BOOLEAN]
           T == [sent : 0..MaxTools, shown : 0..MaxTools]
<1>t. /\ relay \in R /\ tools \in T /\ MaxTools \in Nat
      /\ tools.shown \in Nat /\ tools.sent \in 0..MaxTools
  BY RelayAssumption DEF TypeOK
<1>x. tools'.shown <= tools'.sent
  BY ToolStep DEF ToolInv
<1>1. CASE Reader
  <2>1. UNCHANGED relay
    BY <1>1, Frames
  <2>2. tools' = tools
        \/ (tools.sent < MaxTools /\ tools' = [tools EXCEPT !.sent = @ + 1])
    BY <1>1 DEF Reader, ReadText, ReadEnd, ReadTool, SendRaw, SendDirect,
                ReaderReturns, ReaderClosesRaw
  <2> QED
    BY <1>t, <2>1, <2>2
<1>2. ASSUME NEW e, Emit(e) PROVE relay' \in R /\ tools' \in T
  <2> DEFINE b == \/ relay.emitted
                  \/ e.kind \in {"delta", "tool", "done"} /\ ~relay.doc
  <2>1. /\ \/ relay' = [relay EXCEPT !.emitted = b]
           \/ relay' = [[relay EXCEPT !.emitted = b]
                          EXCEPT !.pc = "returned", !.ok = FALSE]
        /\ tools' = tools \/ tools' = [tools EXCEPT !.shown = @ + 1]
    BY <1>2 DEF Emit
  <2>2. b \in BOOLEAN
    OBVIOUS
  <2> HIDE DEF b
  <2>3. relay' \in R
    BY <1>t, <2>1, <2>2
  <2>4. CASE tools' = [tools EXCEPT !.shown = @ + 1]
    <3>1. tools'.shown = tools.shown + 1 /\ tools'.sent = tools.sent
      BY <1>t, <2>4
    <3>2. tools.shown + 1 \in 0..MaxTools
      BY <1>t, <1>x, <3>1
    <3> QED
      BY <1>t, <2>3, <2>4, <3>2
  <2> QED
    BY <1>t, <2>1, <2>3, <2>4
<1>3. CASE RelayDirect \/ RelaySmoothed
  BY <1>2, <1>3 DEF RelayDirect, RelaySmoothed
<1>4. CASE SeeClosed
  BY <1>t, <1>4 DEF SeeClosed
<1>5. CASE RelayFinishes \/ RelayCancelled \/ HeartbeatFails
  <2>1. PICK b \in BOOLEAN :
          relay' = [relay EXCEPT !.pc = "returned", !.ok = b]
    BY <1>5 DEF RelayFinishes, RelayCancelled, HeartbeatFails, RelayAborts
  <2>2. UNCHANGED tools
    BY <1>5 DEF RelayFinishes, RelayCancelled, HeartbeatFails, RelayAborts
  <2> QED
    BY <1>t, <2>1, <2>2
<1>6. CASE Smoother \/ Cancel
  BY <1>t, <1>6, Frames
<1> QED
  BY <1>1, <1>3, <1>4, <1>5, <1>6 DEF Next, Relay

LEMMA TypeStep ==
  ASSUME EndsInv, EndedInv, TextInv, ToolInv, Next
  PROVE  TypeOK'
<1>1. source' \in Texts /\ shown' \in Texts
  <2>1. /\ Len(source') \in Positions /\ source' = Run(0, Len(source'))
        /\ Len(shown') \in Positions /\ shown' = Run(0, Len(shown'))
    BY TextStep DEF TextInv, SourceInv
  <2>2. 0 \in Positions /\ 0 <= Len(source') /\ 0 <= Len(shown')
    BY <2>1, PositionsAreNat
  <2>3. Run(0, Len(source')) \in Texts /\ Run(0, Len(shown')) \in Texts
    BY <2>1, <2>2, RunText
  <2> QED
    BY <2>1, <2>3
<1>2. sourceEnd' \in {"open", "done", "error"}
  <2>1. CASE ReadEnd
    BY <2>1 DEF ReadEnd
  <2>2. CASE ~ReadEnd
    <3>1. UNCHANGED sourceEnd
      BY <2>2, Frames
      DEF Next, Reader, ReadText, ReadTool, SendRaw, SendDirect,
          ReaderReturns, ReaderClosesRaw, produced
    <3> QED
      BY <3>1 DEF EndsInv, TypeOK
  <2> QED
    BY <2>1, <2>2
<1>3. shownEnd' \in {"open", "done", "error"}
  <2>1. shownEnd' # "open" => shownEnd' = sourceEnd'
    BY SameEndStep DEF EndsInv, SameEnd
  <2> QED
    BY <1>2, <2>1
<1>4. ctxDone' \in BOOLEAN
  BY Frames DEF Next, Cancel, EndsInv, TypeOK
<1>5. SourceInv
  BY DEF TextInv
<1> QED
  BY <1>1, <1>2, <1>3, <1>4, <1>5, ReaderTypeStep, ChannelsTypeStep,
     SmootherTypeStep, RelayTypeStep DEF TypeOK

-----------------------------------------------------------------------------
(* The invariant.                                                          *)

LEMMA InitHolds ==
  ASSUME Init
  PROVE  RelayInv
<1>q. /\ raw.queue = <<>> /\ ~raw.closed
      /\ direct.queue = <<>> /\ ~direct.closed
      /\ out.queue = <<>> /\ ~out.closed
  BY DEF Init, Channel
<1>f. /\ reader.pc = "read" /\ reader.hold = NoEvent
      /\ smoother.pc = "run" /\ smoother.hold = NoEvent
      /\ smoother.pending = <<>> /\ ~smoother.aiDone /\ ~smoother.rawClosed
      /\ relay.pc = "loop" /\ ~relay.emitted /\ relay.ok
      /\ ~relay.directClosed /\ ~relay.smootherClosed
      /\ ~ctxDone /\ source = <<>> /\ shown = <<>>
      /\ sourceEnd = "open" /\ shownEnd = "open"
      /\ tools.sent = 0 /\ tools.shown = 0
  BY DEF Init
<1>1. TypeOK
  <2>1. \A c \in Nat : Channel \in [queue : Queues(c), closed : BOOLEAN]
    <3> TAKE c \in Nat
    <3>1. <<>> \in Seq(Events) /\ Len(<<>>) <= c
      OBVIOUS
    <3>2. <<>> \in Queues(c)
      BY <3>1, QueueIs
    <3> QED
      BY <3>2 DEF Channel
  <2>2. /\ raw \in [queue : Queues(RawCap), closed : BOOLEAN]
        /\ direct \in [queue : Queues(DirectCap), closed : BOOLEAN]
        /\ out \in [queue : Queues(OutCap), closed : BOOLEAN]
    BY <2>1, RelayAssumption DEF Init
  <2>3. reader \in [pc : {"read", "send", "closing", "ended"},
                    hold : Events \cup {NoEvent}, err : BOOLEAN]
    BY DEF Init
  <2>4. smoother \in [pc : {"run", "send", "ended"},
                      hold : Events \cup {NoEvent}, last : BOOLEAN,
                      pending : Texts, aiDone : BOOLEAN, rawClosed : BOOLEAN,
                      notified : BOOLEAN]
    BY NothingIsText DEF Init
  <2>5. relay \in [pc : {"loop", "returned"}, doc : BOOLEAN,
                   emitted : BOOLEAN, smootherClosed : BOOLEAN,
                   directClosed : BOOLEAN, ok : BOOLEAN]
    BY DEF Init
  <2>6. tools \in [sent : 0..MaxTools, shown : 0..MaxTools]
    BY RelayAssumption DEF Init
  <2>7. ctxDone \in BOOLEAN
    BY DEF Init
  <2> QED
    BY <1>f, <2>2, <2>3, <2>4, <2>5, <2>6, <2>7, NothingIsText DEF TypeOK
<1>2. KindsInv
  BY <1>q, <1>f, EventIs, NothingIs
  DEF KindsInv, ReaderKinds, SmootherKinds, QueueKinds, Plains, Pieces, Ends
<1>3. ClosingInv
  BY <1>q, <1>f DEF ClosingInv, ReaderStopped
<1>4. SameEnd
  BY <1>q, <1>f, EventIs, NothingIs DEF SameEnd, Agree, Ends
<1>5. OneEnd
  BY <1>q, <1>f, EventIs, NothingIs DEF OneEnd, Ends
<1>6. TextInv
  <2>1. Run(0, 0) = <<>> /\ Len(<<>>) = 0 /\ 0 \in Positions /\ 0 <= 0
    BY RunEmpty, PositionsAreNat
  <2>2. Carries(<<>>, 0, 0, 0)
    BY <2>1, CarriesNothing
  <2>3. SourceInv
    BY <1>f, <2>1 DEF SourceInv
  <2>4. NoEvent.text = Run(0, 0)
    BY <2>1, EventIs
  <2>5. DirectFlow(0, 0)
    BY <1>q, <1>f, <2>1, <2>2, <2>4 DEF DirectFlow, HeldFrom
  <2>6. SmoothedFlow(0, 0, 0, 0, 0)
    BY <1>q, <1>f, <2>1, <2>2, <2>4 DEF SmoothedFlow, HeldFrom
  <2> QED
    BY <2>1, <2>3, <2>5, <2>6 DEF TextInv, DirectText, SmoothedText
<1>7. ToolInv
  <2>1. 0 \in 0..MaxTools /\ 0 <= 0
    BY RelayAssumption
  <2>2. Counts(direct.queue, 0, 0)
    BY <1>q, <2>1, CountsNothing
  <2>3. One(reader.hold) = 0
    BY <1>f, EventIs DEF One
  <2> QED
    BY <1>f, <2>1, <2>2, <2>3 DEF ToolInv
<1>8. EndedInv /\ DoneInv /\ EmittedInv /\ ReturnInv
  BY <1>f DEF EndedInv, DoneInv, EmittedInv, ReturnInv
<1> QED
  BY <1>1, <1>2, <1>3, <1>4, <1>5, <1>6, <1>7, <1>8 DEF RelayInv

LEMMA InvariantStep ==
  ASSUME RelayInv, [Next]_vars
  PROVE  RelayInv'
<1>1. CASE Next
  <2>1. EndsInv
    BY DEF RelayInv, EndsInv
  <2>2. TypeOK'
    BY <1>1, <2>1, TypeStep DEF RelayInv
  <2>3. KindsInv'
    BY <1>1, <2>1, ReaderKindsStep, SmootherKindsStep, QueueKindsStep
    DEF RelayInv, KindsInv
  <2>4. ClosingInv'
    BY <1>1, <2>1, ClosingStep DEF RelayInv
  <2>5. SameEnd' /\ OneEnd'
    BY <1>1, <2>1, SameEndStep, OneEndStep DEF RelayInv
  <2>6. TextInv' /\ ToolInv'
    BY <1>1, <2>1, TextStep, ToolStep DEF RelayInv
  <2>7. EndedInv' /\ DoneInv' /\ EmittedInv' /\ ReturnInv'
    BY <1>1, <2>1, EndedStep, DoneStep, EmittedStep, ReturnStep DEF RelayInv
  <2> QED
    BY <2>2, <2>3, <2>4, <2>5, <2>6, <2>7 DEF RelayInv
<1>2. CASE UNCHANGED vars
  <2>1. UNCHANGED <<reader, raw, direct, smoother, out, relay, ctxDone,
                    source, sourceEnd, shown, shownEnd, tools>>
    BY <1>2 DEF vars, produced, received
  <2>2. TypeOK' /\ KindsInv' /\ ClosingInv'
    BY <2>1 DEF RelayInv, TypeOK, KindsInv, ReaderKinds, SmootherKinds,
                QueueKinds, ClosingInv, ReaderStopped
  <2>3. SameEnd' /\ OneEnd'
    BY <2>1 DEF RelayInv, SameEnd, Agree, OneEnd
  <2>4. TextInv'
    BY <2>1 DEF RelayInv, TextInv, SourceInv, DirectText, DirectFlow,
                SmoothedText, SmoothedFlow, HeldFrom, ReaderStopped
  <2>5. ToolInv' /\ EndedInv' /\ DoneInv' /\ EmittedInv' /\ ReturnInv'
    BY <2>1 DEF RelayInv, ToolInv, ReaderStopped, EndedInv, DoneInv, Lost,
                EmittedInv, ReturnInv, CleanReturnIsComplete
  <2> QED
    BY <2>2, <2>3, <2>4, <2>5 DEF RelayInv
<1> QED
  BY <1>1, <1>2

\* The invariant of the pipeline holds in every state of every attempt.
THEOREM RelayInvariance == Spec => []RelayInv
<1>1. Init => RelayInv
  BY InitHolds
<1>2. RelayInv /\ [Next]_vars => RelayInv'
  BY InvariantStep
<1> QED
  BY <1>1, <1>2, PTL DEF Spec

\* The goroutines, the channels within their capacities and the texts, runs of
\* the reply's runes, have their types.
THEOREM TypeCorrect == Spec => []TypeOK
<1>1. RelayInv => TypeOK
  BY DEF RelayInv
<1> QED
  BY <1>1, RelayInvariance, PTL

\* An attempt that returns without error and was not cancelled has shown the
\* client everything the service sent: streamAIOnce waits until both channels
\* are closed and drained before it returns the reader's result.
THEOREM CompleteReturn == Spec => []CleanReturnIsComplete
<1>1. RelayInv => CleanReturnIsComplete
  BY DEF RelayInv, ReturnInv, CleanReturnIsComplete
<1> QED
  BY <1>1, RelayInvariance, PTL

\* A second attempt or the mock reply follows a failed attempt only if the
\* client has seen nothing of it: streamAIOnce sets emittedBusiness before it
\* writes an event.
THEOREM RetryBeforeContent == Spec => []RetryOnlyBeforeContent
<1>1. RelayInv => RetryOnlyBeforeContent
  BY DEF RelayInv, EmittedInv, RetryOnlyBeforeContent
<1> QED
  BY <1>1, RelayInvariance, PTL

-----------------------------------------------------------------------------
(* Nobody waits for everybody.                                             *)

\* A smoother that has passed the service's "error" on leaves rawBuffer to no
\* one, but the reader has nothing more for it: the service ends its text once.
PassedInv ==
  ~relay.doc /\ ~ctxDone /\ ~smoother.aiDone
    /\ (smoother.hold.kind = "error" \/ smoother.pc = "ended")
  => \/ reader.pc = "ended"
     \/ /\ raw.queue = <<>> /\ reader.hold.kind \in {"none", "tool"}
        /\ sourceEnd # "open"

\* A reader that holds no text and will get none keeps rawBuffer empty.
LEMMA PassedReader ==
  ASSUME TypeOK, ReaderKinds, Reader, ~relay.doc,
         raw.queue = <<>>, reader.hold.kind \in {"none", "tool"},
         sourceEnd # "open"
  PROVE  /\ raw'.queue = <<>> /\ reader'.hold.kind \in {"none", "tool"}
         /\ sourceEnd' # "open"
<1>1. CASE ReadText \/ ReadEnd
  BY <1>1 DEF ReadText, ReadEnd
<1>2. CASE ReadTool
  BY <1>2, EventIs DEF ReadTool, produced, TypeOK
<1>3. CASE SendRaw
  BY <1>3 DEF SendRaw, GoesDirect, ReaderKinds
<1>4. CASE SendDirect
  BY <1>4, EventIs DEF SendDirect, produced, TypeOK
<1>5. CASE ReaderReturns
  <2>1. UNCHANGED <<raw, sourceEnd>>
    BY <1>5 DEF ReaderReturns, produced
  <2>2. reader'.hold = NoEvent \/ reader'.hold = reader.hold
    BY <1>5, ReaderReturnsDoes
  <2> QED
    BY <2>1, <2>2, EventIs
<1>6. CASE ReaderClosesRaw
  BY <1>6 DEF ReaderClosesRaw, Close, produced, TypeOK
<1> QED
  BY <1>1, <1>2, <1>3, <1>4, <1>5, <1>6 DEF Reader

LEMMA PassedStep ==
  ASSUME EndsInv, PassedInv, Next
  PROVE  PassedInv'
<1> USE DEF EndsInv
<1>d. relay'.doc = relay.doc
  BY DocFixed
<1> SUFFICES ASSUME ~relay.doc, ~ctxDone', ~smoother'.aiDone,
                    smoother'.hold.kind = "error" \/ smoother'.pc = "ended"
             PROVE  \/ reader'.pc = "ended"
                    \/ /\ raw'.queue = <<>>
                       /\ reader'.hold.kind \in {"none", "tool"}
                       /\ sourceEnd' # "open"
  BY <1>d DEF PassedInv
<1>c. ~ctxDone
  BY Frames DEF Next, Cancel
<1>1. CASE Reader
  <2>1. \/ reader.pc = "ended"
        \/ /\ raw.queue = <<>> /\ reader.hold.kind \in {"none", "tool"}
           /\ sourceEnd # "open"
    BY <1>1, <1>c, Frames DEF PassedInv
  <2>2. reader.pc # "ended"
    BY <1>1 DEF Reader, ReadText, ReadEnd, ReadTool, SendRaw, SendDirect,
                ReaderReturns, ReaderClosesRaw
  <2> QED
    BY <1>1, <2>1, <2>2, PassedReader DEF KindsInv
<1>2. CASE Relay \/ HeartbeatFails
  BY <1>2, <1>c, Frames DEF PassedInv
<1>3. CASE Smoother
  <2>f. UNCHANGED <<reader, sourceEnd>>
    BY <1>3, Frames
  <2>k. smoother.pc = "send" <=> smoother.hold.kind # "none"
    BY DEF KindsInv, SmootherKinds
  <2>1. CASE ReceiveChunk
    <3> DEFINE e == Head(raw.queue)
    <3>q. raw.queue \in Seq(Events) /\ raw.queue # <<>>
      BY <2>1, QueuesAre, ReceiveChunkDoes
    <3>1. e.kind = "error" /\ raw'.queue = Tail(raw.queue)
      <4>1. smoother.pc = "run" /\ smoother.hold.kind = "none"
        BY <2>1, <2>k, ReceiveChunkDoes
      <4> HIDE DEF e
      <4>2. smoother'.pc # "ended"
        BY <2>1, ReceiveChunkDoes DEF e
      <4>3. smoother'.hold.kind = "error"
        BY <4>2
      <4>4. smoother'.hold = e \/ smoother'.hold = smoother.hold
            \/ smoother'.hold = Event("status", <<>>)
        BY <2>1, ReceiveChunkDoes DEF e
      <4>5. smoother'.hold = e
        BY <4>1, <4>3, <4>4, EventIs
      <4> QED
        BY <2>1, <4>3, <4>5, ReceiveChunkDoes DEF e
    <3>2. Tail(raw.queue) = <<>>
      BY <3>q, <3>1, EndsTail DEF OneEnd, Ends
    <3>3. reader.hold.kind \notin Ends
      BY <3>q, <3>1, KindsTail DEF OneEnd, Ends
    <3>4. e.kind \in {"delta", "tool", "status", sourceEnd}
      BY <3>q, KindsTail DEF SameEnd, Agree
    <3>5. sourceEnd # "open" /\ reader.hold.kind # "delta"
      BY <3>1, <3>4 DEF SameEnd
    <3> QED
      BY <2>f, <3>1, <3>2, <3>3, <3>5 DEF KindsInv, ReaderKinds, Ends
  <2>2. CASE SeeRawClosed
    BY <2>2, <2>k, <2>f, EventIs DEF SeeRawClosed, TypeOK
  <2>3. CASE Tick
    <3>1. smoother.pc = "run" /\ smoother'.hold.kind # "error"
      BY <2>3, TickDoes, EventIs
    <3>2. smoother.rawClosed
      BY <2>3, <3>1, TickDoes
    <3> QED
      BY <2>f, <3>2 DEF ClosingInv
  <2>4. CASE SmootherSends
    <3>1. /\ smoother.pc = "send" /\ smoother'.hold.kind # "error"
          /\ smoother'.aiDone = smoother.aiDone
          /\ smoother'.pc = "ended" => smoother.last
      BY <2>4, SmootherSendsDoes, EventIs
    <3>2. smoother.hold.kind \in Ends
      BY <3>1 DEF KindsInv, SmootherKinds
    <3>3. smoother.hold.kind = "error"
      BY <3>1, <3>2 DEF SameEnd, Ends
    <3>4. UNCHANGED raw
      BY <2>4 DEF SmootherSends
    <3> QED
      BY <1>c, <2>f, <3>1, <3>3, <3>4 DEF PassedInv
  <2>5. CASE SmootherCancelled
    BY <1>c, <2>5, SmootherCancelledDoes
  <2> QED
    BY <1>3, <2>1, <2>2, <2>3, <2>4, <2>5 DEF Smoother
<1>4. CASE Cancel
  BY <1>4 DEF Cancel
<1> QED
  BY <1>1, <1>2, <1>3, <1>4 DEF Next

\* Who waits for whom: a relay without a case waits for a channel that is open,
\* and the one that has to close it waits for no one, or for the relay.
LEMMA SomebodyReady ==
  ASSUME RelayInv, PassedInv
  PROVE  NeverStuck
<1> SUFFICES ASSUME relay.pc = "loop", ~ReaderReady, ~SmootherReady,
                    ~RelayReady
             PROVE  FALSE
  BY DEF NeverStuck
<1> USE DEF RelayInv
<1>1. /\ ~ctxDone /\ direct.queue = <<>> /\ out.queue = <<>>
      /\ direct.closed => relay.directClosed
      /\ out.closed => relay.smootherClosed
      /\ ~(relay.directClosed /\ relay.smootherClosed)
  BY DEF RelayReady
<1>2. Len(direct.queue) < DirectCap /\ Len(out.queue) < OutCap
  BY <1>1, RelayAssumption
<1>3. smoother.pc = "ended"
  BY <1>2 DEF SmootherReady, TypeOK
<1>4. ~direct.closed
  BY <1>1, <1>3 DEF ClosingInv
<1>5. reader.pc = "send"
  BY <1>4 DEF ClosingInv, ReaderStopped, TypeOK, ReaderReady
<1>6. ~GoesDirect(reader.hold) /\ ~(Len(raw.queue) < RawCap)
  BY <1>2, <1>5 DEF ReaderReady
<1>7. raw.queue # <<>>
  BY <1>6, RelayAssumption
<1>8. ~relay.doc
  BY <1>6 DEF GoesDirect
<1>9. ~smoother.aiDone
  BY <1>7 DEF OneEnd
<1> QED
  BY <1>1, <1>3, <1>5, <1>7, <1>8, <1>9 DEF PassedInv

\* The reader, the smoother and the relay never all wait for one another: the
\* channels are bounded and every send blocks, a smoother that ends on an
\* "error" stops receiving from rawBuffer, and the relay of streamAIOnce waits
\* until both of its channels are closed.
THEOREM NobodyStuck == Spec => []NeverStuck
<1>1. Init => PassedInv
  BY EventIs DEF Init, PassedInv
<1>2. RelayInv /\ PassedInv /\ [Next]_vars => PassedInv'
  <2>1. ASSUME RelayInv, PassedInv, Next PROVE PassedInv'
    BY <2>1, PassedStep DEF RelayInv, EndsInv
  <2>2. ASSUME PassedInv, UNCHANGED vars PROVE PassedInv'
    BY <2>2 DEF PassedInv, vars, produced
  <2> QED
    BY <2>1, <2>2
<1>3. RelayInv /\ PassedInv => NeverStuck
  BY SomebodyReady
<1> QED
  BY <1>1, <1>2, <1>3, RelayInvariance, PTL DEF Spec

-----------------------------------------------------------------------------
(* The pipeline implements ReplyStream.                                    *)

Longest == IF relay.doc THEN MaxRunes ELSE ChunkSize

LEMMA ReplyInit ==
  ASSUME Init
  PROVE  Reply!Init
<1>1. Longest \in Nat
  BY RelayAssumption DEF Longest
<1> QED
  BY <1>1 DEF Init, Reply!Init, Longest

\* The service's text and its end are ReplyStream's Produce.
LEMMA ReplyProduces ==
  ASSUME TypeOK, SourceInv, Reader
  PROVE  [Reply!Next]_Reply!vars
<1>f. UNCHANGED <<relay, shown, shownEnd>>
  BY Frames
<1>1. CASE ReadText
  <2>1. /\ Len(source') \in Nat /\ Len(source) \in Nat /\ 0 \in Nat
        /\ Len(source') > Len(source)
        /\ source = Run(0, Len(source)) /\ source' = Run(0, Len(source'))
    BY <1>1, ReadTextDoes, PositionsAreNat DEF SourceInv
  <2>2. Len(source') > Len(source) /\ SubSeq(source', 1, Len(source)) = source
    <3> DEFINE L == Len(source)
               M == Len(source')
    <3> HIDE DEF L, M
    <3>1. /\ L \in Nat /\ M \in Nat /\ 0 <= M /\ L \in 0..(M - 0)
          /\ 0 + L = L
      BY <2>1 DEF L, M
    <3>2. SubSeq(Run(0, M), 1, L) = Run(0, 0 + L)
      BY <3>1, RunSplit
    <3> QED
      BY <2>1, <3>1, <3>2 DEF L, M
  <2> QED
    BY <1>1, <1>f, <2>2 DEF ReadText, Reply!Next, Reply!Produce
<1>2. CASE ReadEnd
  BY <1>2, <1>f DEF ReadEnd, Reply!Next, Reply!Produce
<1>3. CASE ~ReadText /\ ~ReadEnd
  <2>1. UNCHANGED <<source, sourceEnd>>
    BY <1>3 DEF Reader, ReadTool, SendRaw, SendDirect, ReaderReturns,
                ReaderClosesRaw, produced
  <2> QED
    BY <1>f, <2>1 DEF Reply!vars
<1> QED
  BY <1>1, <1>2, <1>3

\* What the relay writes is ReplyStream's Show or ShowEnd, or changes nothing:
\* e is the next event of the channel that carries the text.
LEMMA ReplyShows ==
  ASSUME TypeOK, SourceInv, NEW e, Emit(e), Plain(e),
         NEW m \in Positions, Len(shown) <= m, m <= Len(source),
         e.text = Run(Len(shown), m),
         m - Len(shown) <= Longest,
         e.kind = "done" => m = Len(source),
         e.kind \in {"delta", "tool", "status", sourceEnd},
         e.kind \in Ends \cup {"delta"} => shownEnd = "open",
         UNCHANGED <<source, sourceEnd>>
  PROVE  [Reply!Next]_Reply!vars
<1> DEFINE x == Len(shown)
           L == Len(source)
<1>n. /\ x \in Nat /\ m \in Nat /\ L \in Nat /\ 0 \in Nat
      /\ source = Run(0, L) /\ shown = Run(0, x) /\ x <= m /\ m <= L
  BY PositionsAreNat DEF SourceInv
<1>d. UNCHANGED Longest
  BY EmitDoes DEF Longest
<1>s. shown' = Run(0, m) \/ (shown' = shown /\ shownEnd' = shownEnd)
  <2>1. \/ shown' = shown \o e.text
        \/ shown' = shown /\ shownEnd' = shownEnd
    BY EmitDoes
  <2>2. Run(0, x) \o Run(x, m) = Run(0, m)
    <3>1. 0 <= x
      BY <1>n
    <3> HIDE DEF x
    <3> QED
      BY <1>n, <3>1, RunConcat
  <2> QED
    BY <1>n, <2>1, <2>2
<1>1. CASE shown' = shown /\ shownEnd' = shownEnd
  BY <1>d, <1>1 DEF Reply!vars, Longest
<1>2. CASE ~(shown' = shown /\ shownEnd' = shownEnd)
  <2>1. shown' = Run(0, m)
    BY <1>s, <1>2
  <2>2. shownEnd' = IF e.kind \in Ends THEN e.kind ELSE shownEnd
    BY <1>2, EmitDoes
  <2>3. CASE m = x
    <3>1. shown' = shown
      BY <1>n, <2>1, <2>3
    <3>2. e.kind \in Ends
      BY <1>2, <2>2, <3>1
    <3>3. e.kind = sourceEnd /\ shownEnd = "open" /\ shownEnd' = e.kind
      BY <2>2, <3>2 DEF Ends
    <3>4. e.kind = "done" => shown = source
      BY <1>n, <2>3
    <3>5. Reply!ShowEnd
      BY <1>d, <3>1, <3>2, <3>3, <3>4 DEF Reply!ShowEnd, Longest, Ends
    <3> QED
      BY <3>5 DEF Reply!Next
  <2>4. CASE m # x
    <3>1. e.kind = "delta"
      <4>1. e.text # <<>>
        BY <1>n, <2>4, RunEmpty
      <4> QED
        BY <4>1 DEF Plain
    <3>2. shownEnd = "open" /\ shownEnd' = shownEnd
      BY <2>2, <3>1 DEF Ends
    <3>3. m - x \in 1..Longest /\ x + (m - x) = m
      BY <1>n, <2>4, RelayAssumption DEF Longest
    <3>4. SubSeq(source, 1, m) = Run(0, m)
      <4>1. m \in 0..(L - 0) /\ 0 <= L /\ 0 + m = m
        BY <1>n
      <4>2. SubSeq(Run(0, L), 1, m) = Run(0, 0 + m)
        BY <1>n, <4>1, RunSplit
      <4> QED
        BY <1>n, <4>1, <4>2
    <3> HIDE DEF x
    <3>5. \E n \in 1..Longest :
            /\ x + n <= Len(source)
            /\ shown' = SubSeq(source, 1, x + n)
      BY <1>n, <2>1, <3>3, <3>4 DEF L
    <3>6. Reply!Show
      BY <1>d, <3>2, <3>5 DEF Reply!Show, Longest, x
    <3> QED
      BY <3>6 DEF Reply!Next
  <2> QED
    BY <2>3, <2>4
<1> QED
  BY <1>1, <1>2

LEMMA ReplyStep ==
  ASSUME RelayInv, [Next]_vars
  PROVE  [Reply!Next]_Reply!vars
<1> USE DEF EndsInv
<1>i. EndsInv /\ SourceInv
  BY DEF RelayInv, TextInv
<1>l. /\ Len(source) \in Positions /\ Len(source) \in Nat
      /\ Len(shown) \in Positions /\ Len(shown) \in Nat
      /\ Len(shown) <= Len(source)
  BY <1>i, PositionsAreNat DEF SourceInv
<1>q. direct.queue \in Seq(Events) /\ out.queue \in Seq(Events)
  BY <1>i, QueuesAre
<1>g. Longest \in Nat /\ (~relay.doc => Longest = ChunkSize)
      /\ (relay.doc => Longest = MaxRunes)
  BY RelayAssumption DEF Longest
\* An event without text changes at most shownEnd.
<1>e. ASSUME NEW e, Emit(e), Plain(e), e.kind \in {"tool", "status"},
             UNCHANGED <<source, sourceEnd>>
      PROVE  [Reply!Next]_Reply!vars
  <2>1. e.text = Run(Len(shown), Len(shown))
    BY <1>l, <1>e, RunEmpty DEF Plain
  <2>2. Len(shown) <= Len(shown) /\ Len(shown) - Len(shown) <= Longest
    BY <1>l, <1>g
  <2> QED
    BY <1>i, <1>e, <1>l, <2>1, <2>2, ReplyShows DEF Ends
<1>1. CASE Reader
  BY <1>i, <1>1, ReplyProduces
<1>2. CASE RelayDirect
  <2> DEFINE e == Head(direct.queue)
  <2>1. /\ direct.queue # <<>> /\ Emit(e) /\ relay.pc = "loop"
        /\ UNCHANGED <<source, sourceEnd>>
    BY <1>2 DEF RelayDirect, produced
  <2>2. /\ Plain(e) /\ ~relay.doc => e.kind = "tool"
        /\ e.kind \in {"delta", "tool", "status", sourceEnd}
    BY <1>i, <1>q, <2>1, KindsTail DEF KindsInv, QueueKinds, SameEnd, Agree
  <2>p. Plain(e)
    BY <1>i, <1>q, <2>1, KindsTail DEF KindsInv, QueueKinds
  <2>3. CASE ~relay.doc
    BY <1>e, <2>1, <2>2, <2>3, <2>p
  <2>4. CASE relay.doc
    <3>1. PICK x, d \in Positions : DirectFlow(x, d)
      BY <2>4 DEF RelayInv, TextInv, DirectText
    <3>2. PICK m \in Positions :
            /\ x <= m /\ m <= d /\ e.text = Run(x, m)
            /\ e.kind = "done" => m = Len(source)
      BY <1>q, <2>1, <3>1, CarriesTail DEF DirectFlow
    <3>3. x = Len(shown) /\ m \in Nat /\ d \in Nat /\ m <= Len(source)
          /\ m <= MaxRunes
      BY <1>l, <2>1, <3>1, <3>2, PositionsAreNat DEF DirectFlow, Positions
    <3>4. m - Len(shown) <= Longest
      BY <1>l, <1>g, <2>4, <3>3
    <3>5. e.kind \in Ends \cup {"delta"} => shownEnd = "open"
      <4>1. Only(direct.queue, {"tool"}) => e.kind = "tool"
        BY <1>q, <2>1, KindsTail
      <4> QED
        BY <1>i, <4>1 DEF OneEnd, Ends
    <3> HIDE DEF e
    <3> QED
      BY <1>i, <2>1, <2>2, <2>p, <3>2, <3>3, <3>4, <3>5, ReplyShows
  <2> QED
    BY <2>3, <2>4
<1>3. CASE RelaySmoothed
  <2> DEFINE e == Head(out.queue)
  <2>1. /\ out.queue # <<>> /\ Emit(e) /\ relay.pc = "loop"
        /\ UNCHANGED <<source, sourceEnd>>
    BY <1>3 DEF RelaySmoothed, produced
  <2>2. /\ relay.doc => e.kind = "status"
        /\ e.kind \in {"delta", "tool", "status", sourceEnd}
    BY <1>i, <1>q, <2>1, KindsTail DEF KindsInv, QueueKinds, SameEnd, Agree
  <2>p. Plain(e) /\ Len(e.text) <= ChunkSize
    BY <1>i, <1>q, <2>1, KindsTail DEF KindsInv, QueueKinds
  <2>3. CASE relay.doc
    BY <1>e, <2>1, <2>2, <2>3, <2>p
  <2>4. CASE ~relay.doc
    <3>1. PICK x, o, p, c, d \in Positions : SmoothedFlow(x, o, p, c, d)
      BY <2>4 DEF RelayInv, TextInv, SmoothedText
    <3>2. PICK m \in Positions :
            /\ x <= m /\ m <= o /\ e.text = Run(x, m)
            /\ e.kind = "done" => m = Len(source)
      BY <1>q, <2>1, <3>1, CarriesTail DEF SmoothedFlow
    <3>3. /\ x = Len(shown) /\ m \in Nat /\ m <= Len(source)
      BY <1>l, <2>1, <3>1, <3>2, PositionsAreNat DEF SmoothedFlow
    <3>4. m - Len(shown) <= Longest
      <4>1. Len(Run(x, m)) = m - x
        BY <1>l, <3>2, <3>3, RunIs
      <4> QED
        BY <1>g, <2>4, <2>p, <3>2, <3>3, <4>1
    <3>5. e.kind \in Ends \cup {"delta"} => shownEnd = "open"
      BY <1>i, <2>1, <2>4 DEF OneEnd
    <3> HIDE DEF e
    <3> QED
      BY <1>i, <2>1, <2>2, <2>p, <3>2, <3>3, <3>4, <3>5, ReplyShows
  <2> QED
    BY <2>3, <2>4
<1>4. CASE Next /\ ~Reader /\ ~RelayDirect /\ ~RelaySmoothed
  <2>1. UNCHANGED <<source, sourceEnd, shown, shownEnd>> /\ relay'.doc = relay.doc
    BY <1>i, <1>4, OtherSteps, DocFixed, Frames DEF Next
  <2> QED
    BY <2>1 DEF Reply!vars
<1>5. CASE UNCHANGED vars
  BY <1>5 DEF vars, produced, received, Reply!vars
<1> QED
  BY <1>1, <1>2, <1>3, <1>4, <1>5

\* Whatever the order in which the goroutines, the ticker and a cancellation
\* run, the client of streamAIOnce sees a beginning of the service's text, in
\* pieces of at most ChunkSize runes in the event protocol, "done" once after
\* the whole text, and no text after the end.
THEOREM RelayImplementsReply == Spec => ImplementsReplyStream
<1>1. Init => Reply!Init
  BY ReplyInit
<1>2. RelayInv /\ [Next]_vars => [Reply!Next]_Reply!vars
  BY ReplyStep
<1> QED
  BY <1>1, <1>2, RelayInvariance, PTL
  DEF Spec, ImplementsReplyStream, Reply!Spec

=============================================================================
