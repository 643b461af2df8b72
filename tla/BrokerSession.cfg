\* Two connections of a client that keeps its session, ends it, or starts anew.
CONSTANTS
  N = 2
  Kinds <- MCKinds
  MaxPid = 1
  MaxMsgs = 2
  Qos2 = {1}
  Expiring = {2}
SPECIFICATION FairSpec
PROPERTIES WillOnce EveryConnectIsAnswered
INVARIANTS KeptUntilAcknowledged TakenOverOnce
CHECK_DEADLOCK FALSE
