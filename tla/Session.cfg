\* Six ways of using the endpoint, with two reconnections.
CONSTANTS
  MaxId = 2
  MaxMsg = 3
  MaxBreaks = 2
  Setups <- Usual
SPECIFICATION FairSpec
INVARIANTS OneMessagePerId ExactlyOnce AcksExpected
PROPERTIES EveryIdReturns AcceptedIsDelivered
CHECK_DEADLOCK FALSE
