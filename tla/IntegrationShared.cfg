SPECIFICATION FairSpec

CONSTANTS
    c1 = c1
    c2 = c2
    w1 = w1
    p1 = p1
    Null = Null
    Caller <- TwoCalls
    Task <- InstallAndUninstall
    HasCredential <- WithCredential
    Worker <- OneWorker
    Poll <- OnePoll
    Owner <- OwnerOfOne
    StartRow <- FreshOrInstalled
    LeaseDuration = 1
    HealthCheckInterval = 0
    DisposeRetries = 1
    Faults = {"crash", "plugin", "db", "trace"}

INVARIANT TypeOK
PROPERTY LeaseIsKept
PROPERTY UninstallEnds
 
