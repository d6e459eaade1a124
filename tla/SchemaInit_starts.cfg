SPECIFICATION FairSpec
CONSTANTS
  uhf = uhf
  vhf = vhf
  Procs <- Receivers
  Target = 5
  Repeatable = {4}
  Initial <- AnyVersion
  Kinds = {{}, {"crash", "power"}}
  MaxStarts = 2
INVARIANTS
  VersionAgrees
  StartsSucceed
  NeverOverstamped
PROPERTIES
  EveryStartFinishes
CHECK_DEADLOCK FALSE
