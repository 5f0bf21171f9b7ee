\* Two stream requests of one user with two sessions, one cancel or delete
\* request, one global slot, the default user limit, a faulty repository.
SPECIFICATION Spec
CONSTANTS
  u1 = u1
  s1 = s1
  s2 = s2
  None = None
  Users = {u1}
  Sessions <- MCSessions
  Owner <- MCOwner
  SessionRequests = {r1, r2}
  ChatRequests = {}
  Callers = {c1}
  ConfiguredAILimit = 1
  ConfiguredUserLimit = 0
  MaxUserMessages = 1
  RepoFaults = TRUE
INVARIANTS
  TypeOK
  GlobalSlotsBalanced
  UserSlotsBalanced
  OneLiveStreamPerSession
  OneReplyPerRequest
PROPERTIES
  LeavesRegistryCancelledOrEnded
  ImplementsSlotPool
  ImplementsSessionStreams
  EveryChangeAdvances
SYMMETRY Symmetric
