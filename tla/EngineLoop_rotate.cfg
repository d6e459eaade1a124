SPECIFICATION Spec
CONSTANTS
  NChannels = 2
  HarmonicPairs <- OneHarmonic
  DspQueue = 2
  StallFrames = 2
  MinFrames = 1
  HangFrames = 1
  Pretrigger = 0
  Analyze = 3
  MinAnalyze = 1
  Warmup = 1
  RingCapacity = 3
  Kinds = {{}, {"file"}, {"slow"}}
  MaxReads = 3
  Windows <- TwoWindows
  AnalysisDepth = 1
  MaxVisits = 3
INVARIANTS
  TypeOK
  WindowOfEvent
  ReplayMirrorsEngine
  ClosedInOwnWindow
  AnalysesApplied
