CONSTANTS
    c1 = c1
    c2 = c2
    MaxApps = 2
    Client <- TwoClients
    IOFaults = TRUE
SPECIFICATION Spec
SYMMETRY ClientSymmetry
INVARIANTS
    TypeOK
    AtMostOnce
    RunningIsLive
    FinishedWasRun
    JobIsCurrent
    ScheduleInv
PROPERTY
    ImplementsLifecycle
