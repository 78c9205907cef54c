SPECIFICATION FeedSpec
CONSTANTS
    a1 = a1
    a2 = a2
    btc = btc
    Streams <- OneMarket
    Addr <- TwoAddr
    Forces <- NoForce
    MaxQuote = 3
    MaxTries = 2
INVARIANTS AskedIsServed
PROPERTIES PriceNeverGoesBack ReadEnds
CHECK_DEADLOCK FALSE
