CONSTANTS
    vu1 = vu1
    vu2 = vu2
    sys = sys
    NoCaller = NoCaller
    Caller <- Callers
    Node <- Nodes
    Title <- Titles2
    Plan <- Plans
    Gauge <- Gauges
    Value <- Values
    MaxNotes = 2
    Faults = TRUE
SPECIFICATION FairSpec
INVARIANTS
    TypeOK
    NoDuplicateRows
    UnitsHaveRows
    SetupInv
    SetupMakesTitlesKnown
PROPERTIES
    NotifiedIsStored
    SetupEnds
CHECK_DEADLOCK FALSE
