\* Two stream requests for one session of one user, a repository without
\* faults.
SPECIFICATION Spec
CONSTANTS
  u1 = u1
  s1 = s1
  s2 = s2
  None = None
  Users = {u1}
  Sessions <- MCOneSession
  Owner <- MCOwner
  SessionRequests = {r1, r2}
  ChatRequests = {}
  Callers = {}
  ConfiguredAILimit = 3
  ConfiguredUserLimit = 1
  MaxUserMessages = 1
  RepoFaults = FALSE
INVARIANT OneReplyPerMessage
SYMMETRY Symmetric
