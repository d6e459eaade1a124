SPECIFICATION Spec
CONSTANTS
  NChannels = 2
  HarmonicPairs <- OneHarmonic
  Windows <- TwoWindows
  Modes = {"radio"}
  StallFrames = 2
  DwellReads = 1
  MinFrames = 1
  HangFrames = 1
  Pretrigger = 1
  Analyze = 3
  MinAnalyze = 1
  Warmup = 1
  RingCapacity = 3
  JobDepth = 1
  Gain = 2
  MaxGain = 4
  FrontEnd <- TwoBands
  Budget = 3
  Overhead = 1
  FreeSpace = 1
  Faults = {{"stall"}}
  MaxReads = 3
  MaxVisits = 2
INVARIANTS
  StallGivesUp
