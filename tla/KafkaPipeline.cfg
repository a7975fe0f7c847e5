\* One process, three events of one order; a write, a mark or the process fails, and a count.
SPECIFICATION FairSpec
CONSTANTS
    o1 = o1  i1 = i1  w = w  k = k
    OrderIds = {o1}
    ItemIds = {i1}
    Quantity <- MCQuantity
    UnitPrice <- MCUnitPrice
    IntWidth = 8
    Log <- LogOfLife
    Worker = w
    Consumer = k
    BatchSize = 2
    MaxRetries = 2
    MaxFaults = 1
    MayFail = {"count"}
    MaxFailures = 1
INVARIANT PublishedWasWritten
PROPERTIES
    PublishedIsProcessedEventually
    CommitsProcessed
