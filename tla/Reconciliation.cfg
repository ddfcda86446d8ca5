SPECIFICATION Spec

CONSTANTS
    r1 = r1
    w1 = w1
    w2 = w2
    p1 = p1
    p2 = p2
    Null = Null
    Request <- OneRequest
    Worker <- OneWorker
    Poll <- TwoPolls
    Owner <- OwnerOfChains
    Provider <- AllEntra
    FulfillmentOwner <- OpnoryFulfills
    MaxRetries = 2
    BatchSize = 1
    ProviderConcurrency = 1
    LeaseDuration = 0
    PollInterval = 0
    BaseRetryDelay = 0
    MaxRetryDelay = 1
    Jitter = 0
    StartStatus <- AnyStart
    StartPortal <- OpenStart
    Faults = {"db", "outage"}

INVARIANT TypeOK
INVARIANT DecisionIsTheAuthoritys
INVARIANT RetryHasTaker
