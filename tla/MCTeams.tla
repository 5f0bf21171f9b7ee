------------------------------ MODULE MCTeams -------------------------------
(* Instances of Teams for TLC. *)
EXTENDS Teams, TLC

CONSTANTS u1, u2, home, other

\* u1 is of the seed, u2 has registered.
MCSeedTeamOf == [u \in {u1} |-> home]
MCSeedRoleOf == [u \in {u1} |-> "employee"]

Symmetric == Permutations(Admins) \cup Permutations(Lookups)
=============================================================================
