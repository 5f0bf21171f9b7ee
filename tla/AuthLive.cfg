\* A demo user who logs in while the rights change, two tokens, a failing cache
\* and restarts, under fairness.
SPECIFICATION FairSpec
CONSTANTS
  u1 = u1
  Users = {u1}
  Tokens = {t1, t2}
  DemoTokens = {t1}
  DemoOwner <- MCDemoOwner
  Lookups = {p1}
  Logins = {g1}
  Admins = {a1}
  Life = 2
  ContextTTL = 2
  MaxRights = 2
  CacheFaults = TRUE
  RepoFaults = FALSE
  Restarts = TRUE
  None = None
PROPERTIES
  StaleOnlyAges
  StaleRightsVanish
