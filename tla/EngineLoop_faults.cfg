SPECIFICATION FairSpec
CONSTANTS
  NChannels = 2
  HarmonicPairs <- OneHarmonic
  DspQueue = 2
  StallFrames = 2
  MinFrames = 1
  HangFrames = 1
  Pretrigger = 0
  Analyze = 2
  MinAnalyze = 1
  Warmup = 1
  RingCapacity = 3
  Kinds = {{"file", "slow"}, {"stall", "overflow", "fatal", "crash"}, {"worker"}, {"db"}}
  MaxReads = 2
  Windows <- TwoWindows
  AnalysisDepth = 1
  MaxVisits = 2
INVARIANTS
  JobsMatchRows
  HarmonicsNotAnalysed
  FailureExitsNonzero
PROPERTIES
  ImplementsSurveyLog
  RunEnds
CHECK_DEADLOCK FALSE
