\* Four ways of using the endpoint, from undisturbed to a session that starts anew.
CONSTANTS
  w1 = w1 w2 = w2 w3 = w3 w4 = w4 w5 = w5
  Waiters <- Operations
  Setups <- Usual
SPECIFICATION FairSpec
PROPERTIES InOrder EveryWaiterServed
