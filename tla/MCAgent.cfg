CONSTANTS
    MaxJobs = 2
    NVus = 2
    ExecFaults = TRUE
SPECIFICATION FairSpec
INVARIANTS
    TypeOK
    OkMeansOver
    LivingIsWatched
PROPERTIES
    EndedScenarioIsOk
    ImplementsRunJob
    CancelEndsConnectedJob
    CancelledExecutorEnds
