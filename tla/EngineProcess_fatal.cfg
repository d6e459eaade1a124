SPECIFICATION FairSpec
CONSTANTS
  DspQueue = 2
  PipeSize = 1
  Faults = {"fatal"}
  MaxFrames = 2
PROPERTIES
  FatalIsReported
CHECK_DEADLOCK FALSE
