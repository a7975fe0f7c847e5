\* Two additions to one order: the second save should conflict.
SPECIFICATION HSpec
CONSTANTS
    o1 = o1  o2 = o2  i1 = i1  i2 = i2  i3 = i3  h1 = h1  h2 = h2  h3 = h3
    OrderIds = {o1}
    ItemIds = {i1, i2}
    Quantity <- MCQuantity
    UnitPrice <- MCUnitPrice
    IntWidth = 8
    Handlers = {h1, h2}
    NoItem = NoItem
PROPERTY StaleSaveConflicts
