------------------------------- MODULE MCTabs --------------------------------
(* Instances of Tabs for TLC: a publisher and an employee of one team, a system *)
(* tab that the seed gives to the employee, and a custom tab.                   *)
EXTENDS Tabs, TLC

CONSTANTS publisher, employee, team, nobody, system, custom, r1, r2, home, other

MCTeamsOf == [u \in Users |-> IF u = employee THEN {team} ELSE {}]
MCUsable == [u \in Users |-> IF u = employee THEN {system} ELSE {}]
MCAudiences == {{team}, {employee}, {nobody}}
MCSeedRows == {<<employee, system>>}

\* Bound.  Tabs share no state but their routes, so it is enough to look at
\* what happens to one tab at a time, while the others are as the seed left them.
OneTab ==
  \E x \in TabIDs :
    /\ \A t \in TabIDs \ {x}, u \in Users :
         /\ t \notin SystemTabs => tabs[t] = NoTab
         /\ rows[u][t] = IF <<u, t>> \in SeedRows
                         THEN [enabled |-> TRUE, source |-> "self"] ELSE NoRow
    /\ \A r \in Requests : request[r].tab \in {x, None}

Symmetric == Permutations(Requests)
=============================================================================
