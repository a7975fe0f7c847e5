\* Two concurrent handlers, one order, three items one of which is invalid; totals wrap around.
SPECIFICATION HFairSpec
CONSTANTS
    o1 = o1  o2 = o2  i1 = i1  i2 = i2  i3 = i3  h1 = h1  h2 = h2  h3 = h3
    OrderIds = {o1}
    ItemIds = {i1, i2, i3}
    Quantity <- MCQuantityInvalid
    UnitPrice <- MCUnitPrice
    IntWidth = 3
    Handlers = {h1, h2}
    NoItem = NoItem
INVARIANTS
    TypeOK
    TotalMatchesItems
    ConfirmedHasItems
    StateWasAnnounced
    LogWellFormed
    AnsweredWasLogged
PROPERTIES
    ImplementsOutbox
    SerialUnlessOvertaken
    EveryRequestEnds
