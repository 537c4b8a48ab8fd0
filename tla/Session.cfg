\* Three sessions with two descriptors, so that leaked ones run out; three
\* blocks in batches of two, so that the second batch is smaller and asks for
\* the first again; three faults of any kind, in any of the sessions.
SPECIFICATION FairSpec
CONSTANTS
  NumBlocks = 3
  QueueSize = 2
  MaxSessions = 3
  FdLimit = 2
  Faults = {"connect", "late", "hangup", "silent", "nobitfield", "badbitfield", "unknown", "choke", "badhash"}
  MaxFaults = 3
INVARIANTS TypeOK LossOfStepIsTold FailureHasCause SpinsOnlyAfterLoss SocketsAccounted
PROPERTY SessionSettles
