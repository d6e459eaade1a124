SPECIFICATION Spec
CONSTANTS
    Noisy = {23}
    Phases = {7}
    Length = 69
    Hit = {23, 24, 25, 26, 27, 28, 29, 30, 31, 32, 33, 34, 35, 36, 37, 38, 39, 40, 41, 42, 43, 44, 45}
    MaxFlips = 3
    Services <- MCServices
    Plan <- MCPlan
    Channels <- MCChannels
    Results <- MCResults
    Measurements <- MCMeasurements
    MaxChannels = 3
    MaxHeard = 5
    Tones <- MCTones
    DeviationLimit <- MCDeviationLimit
    FreqBin = 4
    Margin = 1
    MinMeasured = 3
    MinSnr = 10
    MaxLag = 1
    MinPaired = 1
    Licences = {"gmrs"}
INVARIANTS
    ReadsNormal
    OneReadingEach
    WindowsDisjoint
    ToneAgreed
    RuledOutByMost
CHECK_DEADLOCK FALSE
