\* Both protocols, every channel of capacity one, three runes in pieces of
\* at most two, one tool event.
SPECIFICATION FairSpec
CONSTANTS
  RawCap = 1
  DirectCap = 1
  OutCap = 1
  ChunkSize = 2
  MaxPending = 2
  MaxRunes = 3
  MaxTools = 1
INVARIANTS
  TypeOK
  CleanReturnIsComplete
  RetryOnlyBeforeContent
  NeverStuck
PROPERTIES
  ImplementsReplyStream
  AttemptReturns
  ReaderEnds
  SmootherEnds
CHECK_DEADLOCK FALSE
