CONSTANTS
    c1 = c1
    c2 = c2
    MaxApps = 1
    Client <- OneClient
    IOFaults = FALSE
SPECIFICATION Spec
PROPERTY CancelledIsNotStarted
