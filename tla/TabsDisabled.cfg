\* A user switches a tab off and finds it on: Create writes the column's default.
SPECIFICATION Spec
CONSTANTS
  publisher = publisher
  employee = employee
  team = team
  nobody = nobody
  system = system
  custom = custom
  r1 = r1
  r2 = r2
  home = home
  other = other
  Users = {publisher, employee}
  Publishers = {publisher}
  Teams = {team}
  TeamsOf <- MCTeamsOf
  Unknown = {nobody}
  TabIDs = {system, custom}
  SystemTabs = {system}
  Usable <- MCUsable
  Routes = {home, other}
  SystemRoute = home
  Audiences <- MCAudiences
  SeedRows <- MCSeedRows
  Requests = {r1}
  RepoFaults = FALSE
  None = None
INVARIANT DisabledStaysHidden
