\* One worker: three events, batches of two, two attempts.
SPECIFICATION HSpec
CONSTANTS
    w1 = w1
    N = 3
    Workers = {w1}
    BatchSize = 2
    MaxRetries = 2
    MaxFaults = 2
    MaxRequeues = 1
INVARIANTS
    TypeOK
    BatchIsCurrent
    GivenUpAfterMaxRetries
PROPERTIES
    NoRedeliveryWithoutFailure
    ImplementsAtLeastOnce
