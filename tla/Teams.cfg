\* Two admin requests on two teams and a seed user, one look-up at a time.
SPECIFICATION Spec
CONSTANTS
  u1 = u1
  u2 = u2
  home = home
  other = other
  Users = {u1}
  Teams = {home, other}
  SeedTeams = {home}
  SeedTeamOf <- MCSeedTeamOf
  SeedRoleOf <- MCSeedRoleOf
  SeedAdmins = {u1}
  HomeTeam = home
  Roles = {"employee"}
  Names = {"a", "b"}
  SeedName = "a"
  Admins = {a1, a2}
  Lookups = {p1}
  CacheFaults = FALSE
  RepoFaults = TRUE
  Restarts = TRUE
  None = None
INVARIANT
  TypeOK
PROPERTIES
  StaleOnlyAnnounced
  SecondTeamExplained
SYMMETRY Symmetric
