\* Three stream requests of one user with two sessions, the default user
\* limit, a repository without faults.
SPECIFICATION Spec
CONSTANTS
  u1 = u1
  s1 = s1
  s2 = s2
  None = None
  Users = {u1}
  Sessions <- MCSessions
  Owner <- MCOwner
  SessionRequests = {r1, r2, r3}
  ChatRequests = {}
  Callers = {}
  ConfiguredAILimit = 3
  ConfiguredUserLimit = 1
  MaxUserMessages = 1
  RepoFaults = FALSE
INVARIANT OneGenerationPerUser
SYMMETRY Symmetric
