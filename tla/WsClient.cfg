SPECIFICATION Spec
CONSTANTS
    a1 = a1
    a2 = a2
    a3 = a3
    ticker = ticker
    fills = fills
    Streams <- TwoStreams
    Addr <- ThreeAddr
    Forces <- Either
INVARIANTS TypeOK ServingThread MapFindsWanted NoDuplicateStream
PROPERTIES ExceptionContained LogoutEnds
CHECK_DEADLOCK FALSE
