\* Three packets, both ways of writing and of reading, two connections.
CONSTANTS
  N = 3
  Lengths <- MCLengths
  Receivers <- MCReceivers
  Base = 2
  LengthBytes = 2
  Chunk = 3
  MaxOpens = 2
SPECIFICATION FairSpec
INVARIANTS DeliveredInOrder FailedIsClosed
PROPERTIES SuccessIsWritten EveryWriteCompletes EveryPacketArrives
CHECK_DEADLOCK FALSE
