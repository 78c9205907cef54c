SPECIFICATION Spec
CONSTANTS
    MaxAttempts = 3
    OrderTypes = {0, 2}
    Amounts = {1}
    Lots = {2, 3}
    MaxId = 1
    MaxCalls = 2
INVARIANTS TypeOK ReportedIsClosed ReportsOwnOrder FillIsFaithful MarketNeverRests
PROPERTY CallEnds
CHECK_DEADLOCK FALSE
