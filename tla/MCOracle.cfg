SPECIFICATION Spec
CONSTANTS
    TimestampModulus = 9
    MaxCardinality = 3
    Genesis = 4
    MaxTime = 12
    MAX_TWAP_WINDOW = 2
    Ticks <- TwoTicks
    Quote <- QuoteFalls
INVARIANTS
    PricedIsTrue
    QuotableIsPriced
    LiveTickIsIgnored
PROPERTIES
    LostOnlyWhenFull
    ImplementsFeed
CHECK_DEADLOCK FALSE
