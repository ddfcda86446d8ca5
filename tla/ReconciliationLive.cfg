SPECIFICATION FairSpec

CONSTANTS
    r1 = r1
    w1 = w1
    w2 = w2
    p1 = p1
    p2 = p2
    Null = Null
    Request <- OneRequest
    Worker <- TwoWorkers
    Poll <- TwoPolls
    Owner <- OwnerPerPoll
    Provider <- AllDoubles
    FulfillmentOwner <- OpnoryFulfills
    MaxRetries = 1
    BatchSize = 1
    ProviderConcurrency = 1
    LeaseDuration = 0
    PollInterval = 0
    BaseRetryDelay = 0
    MaxRetryDelay = 1
    Jitter = 0
    StartStatus <- FulfilledStart
    StartPortal <- OpenStart
    Faults = {"crash", "outage"}

PROPERTY LostAccessIsFound
PROPERTY BatchEnds
PROPERTY CorrectionNeedsLoss
