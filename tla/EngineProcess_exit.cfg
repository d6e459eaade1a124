SPECIFICATION FairSpec
CONSTANTS
  DspQueue = 2
  PipeSize = 1
  Faults = {"fatal", "orphan"}
  MaxFrames = 4
INVARIANTS
  ExitSaysAll
PROPERTIES
  StopEnds
  EarlyFatalIsReported
CHECK_DEADLOCK FALSE
