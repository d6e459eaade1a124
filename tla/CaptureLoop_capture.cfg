SPECIFICATION FairSpec
CONSTANTS
  NChannels = 2
  HarmonicPairs <- OneHarmonic
  Windows <- TwoWindows
  Modes = {"radio", "simulate"}
  StallFrames = 2
  DwellReads = 2
  MinFrames = 1
  HangFrames = 1
  Pretrigger = 1
  Analyze = 3
  MinAnalyze = 1
  Warmup = 1
  RingCapacity = 3
  JobDepth = 1
  Gain = 2
  MaxGain = 4
  FrontEnd <- TwoBands
  Budget = 3
  Overhead = 1
  FreeSpace = 1
  Faults = {{"stall", "overflow", "radio", "profile"}, {"db", "top", "keep"}, {"slow", "keep", "disk"}}
  MaxReads = 3
  MaxVisits = 2
INVARIANTS
  AnalysisOfOwnSignal
  OneFailureLosesOneEvent
  AnalysesApplied
  FailureExitsNonzero
  LinearAtConfiguredGain
  KeptWithinBudget
PROPERTIES
  ImplementsSurveyLog
  RunEnds
