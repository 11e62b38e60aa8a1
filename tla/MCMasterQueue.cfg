CONSTANTS
    c1 = c1
    c2 = c2
    MaxApps = 2
    Client <- OneClient
    IOFaults = FALSE
SPECIFICATION FairSpec
PROPERTY PendingIsServed
