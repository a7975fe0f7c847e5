\* Two consumers, the four events of one order, in any order and repeatedly.
SPECIFICATION Spec
CONSTANTS
    o1 = o1  i1 = i1  i2 = i2  c1 = c1  c2 = c2
    OrderIds = {o1}
    ItemIds = {i1, i2}
    Quantity <- MCQuantity
    UnitPrice <- MCUnitPrice
    IntWidth = 8
    Consumers = {c1, c2}
    Log <- MCLog
    MaxFailures = 1
    MayFail <- Statements
INVARIANTS
    TypeOK
    ProcessedIsReflected
    CountNeverAhead
SYMMETRY Symmetry
