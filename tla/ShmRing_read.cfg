SPECIFICATION Spec
CONSTANTS
  Capacity = 4
  MaxPush = 2
  MaxWritten = 7
  MaxGen = 1
INVARIANTS
  OwnBand
  CleanWithMargin
  HasWhatItHolds
