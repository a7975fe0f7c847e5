\* One process, no statement fails, but one write to the topic.
SPECIFICATION Spec
CONSTANTS
    o1 = o1  i1 = i1  w = w  k = k
    OrderIds = {o1}
    ItemIds = {i1}
    Quantity <- MCQuantity
    UnitPrice <- MCUnitPrice
    IntWidth = 8
    Log <- LogOfLife
    Worker = w
    Consumer = k
    BatchSize = 3
    MaxRetries = 2
    MaxFaults = 1
    MayFail = {}
    MaxFailures = 0
INVARIANT CommittedWasProcessed
