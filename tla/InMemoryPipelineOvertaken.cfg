\* One worker, one SELECT of UpsertOrderView fails.
SPECIFICATION Spec
CONSTANTS
    o1 = o1  i1 = i1  i2 = i2  w1 = w1
    OrderIds = {o1}
    ItemIds = {i1, i2}
    Quantity <- MCQuantity
    UnitPrice <- MCUnitPrice
    IntWidth = 8
    Log <- LogOfLife
    Workers = {w1}
    BatchSize = 3
    MaxRetries = 3
    Seen <- SeenOfLife
    MaxFaults = 0
    MaxRequeues = 0
    MaxFailures = 1
    MayFail = {"findView"}
INVARIANT PublishedMeansConsistent
