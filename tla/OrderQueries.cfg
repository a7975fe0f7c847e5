\* One worker, three orders with one command at a time each, crashes and failing marks, fairness, one client that reads; no statement of the handler fails.
SPECIFICATION QueryFairSpec
CONSTANTS
    o1 = o1  o2 = o2  o3 = o3  i1 = i1  w1 = w1
    OrderIds = {o1, o2, o3}
    ItemIds = {i1}
    Quantity <- MCQuantity
    UnitPrice <- MCUnitPrice
    IntWidth = 8
    Log <- LogOfThree
    Workers = {w1}
    BatchSize = 1
    MaxRetries = 2
    Seen <- SeenOfThree
    OccurredAt <- Times
    MaxFaults = 1
    MaxRequeues = 0
    MaxFailures = 0
    MayFail = {}
    Listings <- MCListings
    MaxPageSize = 2
    DefaultPageSize = 1
INVARIANTS
    PublishedMeansConsistent
    OrderFitsItsItems
    PageFitsItsCount
    OnlyTiedOrdersAreMissed
PROPERTIES
    ShowsTheHistory
    EventuallyConsistent
