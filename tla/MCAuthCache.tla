---------------------------- MODULE MCAuthCache ----------------------------
(* Instances of AuthCache for TLC. *)
EXTENDS AuthCache, TLC

CONSTANTS u1

MCDemoOwner == [t \in DemoTokens |-> u1]

Symmetric == Permutations(Lookups) \cup Permutations(Logins)
             \cup Permutations(Tokens \ DemoTokens)
=============================================================================
