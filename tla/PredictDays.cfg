\* Predictions while rows are collected and days pass.
SPECIFICATION Spec
CONSTANTS
    near = near
    far = far
    spring = spring
    r = r
    Unbounded = Unbounded
    NoBucket = NoBucket
    NoData = NoData
    Route = r
    Cfg <- MCCfg
    SeasonOf <- MCSeason
    Rows <- MCRows
    Departures <- MCDepartures
    Prices <- MCPrices
    LastDay = 2
    MaxRows = 3
INVARIANTS NeverRaises AnswerIsTrueOfItsDay NoCellIsLost OneCurrencyOnePrice
PROPERTY FutureIsInvisible
