SPECIFICATION Spec
CONSTANTS
    Minutes <- OneAndTwo
    Ends <- SomeEnds
    MaxTicks = 5
    LastBar = 5
    PageLimit = 2
INVARIANTS PagesFit TicksFit NoGap
PROPERTY PagingEnds
CHECK_DEADLOCK FALSE
