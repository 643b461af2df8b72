\* Two connections of one client, in both versions.
CONSTANTS
  KeepAlives = {2, 4}
  Timeouts = {1, 2}
  Versions = {"v3_1_1", "v5"}
  MaxOpens = 2
  MaxSends = 1
  MaxClosers = 1
SPECIFICATION FairSpec
INVARIANTS NoTimerAfterClose LiveClientIsKept
PROPERTIES EveryCloserCompletes SilentServerIsNoticedInTime
CHECK_DEADLOCK FALSE
