SPECIFICATION Spec
CONSTANTS
    a1 = a1
    a2 = a2
    a3 = a3
    ticker = ticker
    fills = fills
    Streams <- OneStream
    Addr <- ThreeAddr
    Forces <- Never
INVARIANT NoStrandedStream
CHECK_DEADLOCK FALSE
