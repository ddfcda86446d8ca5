SPECIFICATION FairSpec

CONSTANTS
    r1 = r1
    r2 = r2
    w1 = w1
    w2 = w2
    p1 = p1
    p2 = p2
    p3 = p3
    Null = Null
    Worker <- OneWorker
    Request <- TwoRequests
    Poll <- TwoPolls
    Owner <- OwnerOfChains
    MaxRetries = 2
    BatchSize = 2
    ProviderConcurrency = 1
    LeaseDuration = 1
    RenewalMargin = 1
    BaseRetryDelay = 1
    MaxRetryDelay = 1
    Jitter = 0
    InitialExpiry <- ExpiryNow
    InitialAttempts <- NoAttempts
    Extension = 1
    Faults = {}
    Admin = {}

PROPERTY PendingIsResolved
PROPERTY ExpiredAccessIsProcessed
