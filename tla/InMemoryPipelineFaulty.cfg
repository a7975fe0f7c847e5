\* One worker, one order with two items, overlapped commands, failing statements, a crash or failing mark, a requeue.
SPECIFICATION Spec
CONSTANTS
    o1 = o1  i1 = i1  i2 = i2  w1 = w1
    OrderIds = {o1}
    ItemIds = {i1, i2}
    Quantity <- MCQuantity
    UnitPrice <- MCUnitPrice
    IntWidth = 8
    Log <- OverlappedLog
    Workers = {w1}
    BatchSize = 2
    MaxRetries = 2
    Seen <- OverlappedSeen
    MaxFaults = 1
    MaxRequeues = 1
    MaxFailures = 2
    MayFail <- Reported
INVARIANTS
    TotalsAgree
    PublishedIsProcessed
    PublishedIsReflected
