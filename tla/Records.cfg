\* Two requests at a time on approvals, events and announcements, restarts.
SPECIFICATION Spec
CONSTANTS
  admin = admin
  managerA = managerA
  managerB = managerB
  employeeA = employeeA
  teamA = teamA
  teamB = teamB
  i1 = i1
  i2 = i2
  e1 = e1
  e2 = e2
  n1 = n1
  n2 = n2
  Users = {admin, managerA, managerB, employeeA}
  Admins = {admin}
  Teams = {teamA, teamB}
  TeamRole <- MCTeamRole
  CurrentTeam <- MCCurrentTeam
  Permissions <- MCPermissions
  ApprovalIDs = {i1, i2}
  EventIDs = {e1, e2}
  AnnouncementIDs = {n1, n2}
  SeedApproval <- MCSeedApproval
  SeedEvent <- MCSeedEvent
  SeedAnnouncement <- MCSeedAnnouncement
  Requests = {r1, r2}
  RepoFaults = TRUE
  Restarts = TRUE
  None = None
INVARIANT TypeOK
PROPERTIES
  SettledForGood
  CompanyExplained
  GoneForGood
CONSTRAINT OneRecord
SYMMETRY Symmetric
