\* One stream request and two chats of one user with one session, one global
\* slot fewer than requests, a faulty repository, under fairness.
SPECIFICATION FairSpec
CONSTANTS
  u1 = u1
  s1 = s1
  s2 = s2
  None = None
  Users = {u1}
  Sessions <- MCOneSession
  Owner <- MCOwner
  SessionRequests = {r1}
  ChatRequests = {q1, q2}
  Callers = {}
  ConfiguredAILimit = 2
  ConfiguredUserLimit = 1
  MaxUserMessages = 1
  RepoFaults = TRUE
INVARIANT
  UserSlotsBalanced
PROPERTY
  CancelledEnds
