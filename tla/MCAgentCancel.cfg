CONSTANTS
    MaxJobs = 1
    NVus = 2
    ExecFaults = TRUE
SPECIFICATION FairSpec
PROPERTY CancelEndsJob
