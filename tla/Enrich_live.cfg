SPECIFICATION Spec
CONSTANTS
    Services <- MCServices
    Plan <- MCPlan
    Freqs = {20, 29}
    Analyses <- MCAnalyses
    Tones <- MCTones
    DeviationLimit <- MCDeviationLimit
    FreqBin = 4
    Margin = 1
    MinMeasured = 1
    MinSnr = 10
    MaxLag = 1
    MinPaired = 1
    Licences = {"gmrs"}
    MaxEvents = 2
INVARIANTS
    Rederived
    TiersBackedByPairs
    LinksFollowKeys
    ChannelNotesSurvive
