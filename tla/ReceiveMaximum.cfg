\* Both qualities of service, two reconnections.
CONSTANTS
  N = 4
  Maximum = 2
  QoS = {1, 2}
  MaxDowns = 2
  Wrap = 65536
SPECIFICATION FairSpec
INVARIANT SentInOrder
PROPERTY QueueDrains
CHECK_DEADLOCK FALSE
