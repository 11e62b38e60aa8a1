CONSTANTS
    NMetrics = 1
    MaxSamples = 3
    MaxCalls = 2
    Faults = TRUE
SPECIFICATION FairSpec
INVARIANTS TypeOK ChartIsWindow
PROPERTIES ChartKeepsUp StartIsNoticed
