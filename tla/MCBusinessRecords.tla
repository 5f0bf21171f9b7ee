-------------------------- MODULE MCBusinessRecords --------------------------
(* Instances of BusinessRecords for TLC: an administrator, the managers of two *)
(* teams and an employee of the first, with the permissions of the seed.       *)
EXTENDS BusinessRecords, TLC

CONSTANTS admin, managerA, managerB, employeeA, teamA, teamB, i1, i2, e1, e2, n1, n2

MCTeamRole ==
  [u \in Users |-> [t \in Teams |->
     CASE u = managerA /\ t = teamA -> "manager"
       [] u = managerB /\ t = teamB -> "manager"
       [] u = employeeA /\ t = teamA -> "employee"
       [] OTHER -> "none"]]

MCCurrentTeam ==
  [u \in Users |-> CASE u = admin -> None
                     [] u = managerB -> teamB
                     [] OTHER -> teamA]

EmployeePermissions == {"tab.approval.create"}
ManagerPermissions ==
  EmployeePermissions \cup
  {"tab.approval.approve", "tab.calendar.create", "tab.calendar.manage",
   "tab.announcement.write"}
MCPermissions ==
  [u \in Users |->
     CASE u = admin -> ManagerPermissions \cup
                       {"tab.approval.all", "tab.calendar.all"}
       [] u = employeeA -> EmployeePermissions
       [] OTHER -> ManagerPermissions]

\* The seed: an approval of the employee, an event and an announcement of the
\* whole company; ids given to no row of the seed are free.
MCSeedApproval ==
  [i \in ApprovalIDs \cap {i1} |->
     [status |-> "pending", applicant |-> employeeA, team |-> teamA]]
MCSeedEvent ==
  [e \in EventIDs \cap {e1} |->
     [row |-> "stored", visibility |-> "company", team |-> None]]
MCSeedAnnouncement ==
  [n \in AnnouncementIDs \cap {n1} |->
     [row |-> "stored", scope |-> "company", team |-> None]]

\* Bound.  Records share no state, so it is enough to look at what happens to one
\* at a time, while the others are as the seed left them.
Untouched(rows, seed, none, x) ==
  \A y \in DOMAIN rows \ {x} :
    rows[y] = IF y \in DOMAIN seed THEN seed[y] ELSE none

OneRecord ==
  \E x \in RecordIDs :
    /\ Untouched(approvals, SeedApproval, NoApproval, x)
    /\ Untouched(events, SeedEvent, NoEvent, x)
    /\ Untouched(announcements, SeedAnnouncement, NoAnnouncement, x)
    /\ \A r \in Requests : request[r].id \in {x, None}

Symmetric == Permutations(Requests)
=============================================================================
