--------------------------- MODULE MCOnCallStream ---------------------------
(* Instances of OnCallStream for TLC. *)
EXTENDS OnCallStream, TLC

CONSTANTS u1, s1, s2

\* Both sessions belong to one user.
MCSessions == {s1, s2}
MCOneSession == {s1}
MCOwner == [s \in Sessions |-> u1]

Symmetric == Permutations(SessionRequests) \cup Permutations(Sessions)
=============================================================================
