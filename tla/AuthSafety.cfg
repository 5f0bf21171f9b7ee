\* A demo user and an account that two requests may register, two requests at a
\* time on two tokens, faults and restarts.
SPECIFICATION Spec
CONSTANTS
  u1 = u1
  Users = {u1, u2}
  Tokens = {t1, t2}
  DemoTokens = {t1}
  DemoOwner <- MCDemoOwner
  Lookups = {p1, p2}
  Logins = {g1, g2}
  Admins = {}
  Life = 1
  ContextTTL = 1
  MaxRights = 1
  CacheFaults = TRUE
  RepoFaults = TRUE
  Restarts = TRUE
  None = None
INVARIANTS
  TypeOK
  OneRegistration
PROPERTIES
  ExpiredNeverAdmitted
  OutForGood
SYMMETRY Symmetric
