---------------------------- MODULE SessionStreams ---------------------------
(***************************************************************************)
(* What a session promises of its streams, without a registry, contexts or *)
(* cancel functions: a session has at most one live stream; starting one   *)
(* ends the session's previous one in the same step and no other; and a    *)
(* stream that was given up, replaced or stopped never becomes live again. *)
(***************************************************************************)
CONSTANTS
  Streams,   \* each is started at most once
  Sessions

VARIABLES
  waiting,   \* the streams that have not started
  live       \* live[s]: the streams of session s that go on

Init == waiting = Streams /\ live = [s \in Sessions |-> {}]

\* Stream r becomes the live stream of session s.
Start(r, s) ==
  /\ r \in waiting
  /\ waiting' = waiting \ {r}
  /\ live' = [live EXCEPT ![s] = {r}]

\* Stream r will never start.  If it is given up at the moment of its start, it
\* ends the session's stream all the same.
GiveUp(r) ==
  /\ r \in waiting
  /\ waiting' = waiting \ {r}
  /\ UNCHANGED live \/ \E s \in Sessions : live' = [live EXCEPT ![s] = {}]

\* The stream of session s is cancelled, or has ended.
Stop(s) ==
  /\ live[s] # {}
  /\ live' = [live EXCEPT ![s] = {}]
  /\ UNCHANGED waiting

Next ==
  \/ \E r \in Streams : GiveUp(r) \/ \E s \in Sessions : Start(r, s)
  \/ \E s \in Sessions : Stop(s)

Spec == Init /\ [][Next]_<<waiting, live>>
=============================================================================
