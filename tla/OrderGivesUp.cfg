SPECIFICATION Spec
CONSTANTS
    MaxAttempts = 10
    OrderTypes = {0}
    Amounts = {1}
    Lots = {1}
    MaxId = 1
    MaxCalls = 1
INVARIANT GivesUpOnOpenOrders
CHECK_DEADLOCK FALSE
