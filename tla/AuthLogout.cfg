\* Two requests at a time on one token, no faults, no restarts.
SPECIFICATION Spec
CONSTANTS
  u1 = u1
  Users = {u1}
  Tokens = {t1}
  DemoTokens = {t1}
  DemoOwner <- MCDemoOwner
  Lookups = {p1, p2}
  Logins = {}
  Admins = {}
  Life = 2
  ContextTTL = 1
  MaxRights = 1
  CacheFaults = FALSE
  RepoFaults = FALSE
  Restarts = FALSE
  None = None
INVARIANT LogoutIsFinal
SYMMETRY Symmetric
