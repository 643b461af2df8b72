\* Two connections; packets written one by one and in bulk.
CONSTANTS
  N = 3
  Kinds <- MCKinds
  Codes <- MCCodes
  MaxPid = 2
  Bulks = {TRUE, FALSE}
  MaxDowns = 1
  MaxMsgs = 1
  MaxCancels = 1
SPECIFICATION FairSpec
INVARIANTS RecvWakes AnswerIsOwn
PROPERTY EveryOperationCompletes
CHECK_DEADLOCK FALSE
