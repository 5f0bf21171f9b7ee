\* Two requests at a time of a publisher and an employee, on a tab.
SPECIFICATION Spec
CONSTANTS
  publisher = publisher
  employee = employee
  team = team
  nobody = nobody
  system = system
  custom = custom
  r1 = r1
  r2 = r2
  home = home
  other = other
  Users = {publisher, employee}
  Publishers = {publisher}
  Teams = {team}
  TeamsOf <- MCTeamsOf
  Unknown = {nobody}
  TabIDs = {system, custom}
  SystemTabs = {system}
  Usable <- MCUsable
  Routes = {home, other}
  SystemRoute = home
  Audiences <- MCAudiences
  SeedRows <- MCSeedRows
  Requests = {r1, r2}
  RepoFaults = TRUE
  None = None
INVARIANTS
  TypeOK
  PublishersOnly
PROPERTIES
  OwnersDecide
  RowsByUserOrPublisher
CONSTRAINT OneTab
SYMMETRY Symmetric
