SPECIFICATION Spec
CONSTANTS
    TimestampModulus = 100
    MaxCardinality = 2
    Genesis = 2
    MaxTime = 4
    MAX_TWAP_WINDOW = 2
    SourceCount = 3
    BaseIsToken0 <- Orders
    MaxDivergence = 1
    Ticks <- TwoTicks
    Quote <- QuoteRises
INVARIANTS
    EverySourceAgrees
    QuotableIsPriced
PROPERTIES
    ImplementsFeed
CHECK_DEADLOCK FALSE
