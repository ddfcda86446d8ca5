SPECIFICATION Spec
CONSTANTS
    Provider <- BothProviders
    MaxCopies = 2
    MaxRuns = 3
    Faults <- AllFaults
    Null = Null
    Attempts = 2
    Confirmations = 2
CHECK_DEADLOCK FALSE
INVARIANT TypeOK
INVARIANT EvidenceIsTrue
INVARIANT OneOfEach
