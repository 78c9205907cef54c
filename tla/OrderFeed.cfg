SPECIFICATION Spec
CONSTANTS
    Orders <- TwoOrders
    ClientId <- OneClientId
    FillIds <- SomeFillIds
    k1 = k1
    k2 = k2
    Conns <- TwoAndOne
    MaxEvents = 2
    MaxTries = 1
INVARIANTS OwnUpdate UpdatesInOrder NothingIsLost
PROPERTY NoFalseMiss
CHECK_DEADLOCK FALSE
