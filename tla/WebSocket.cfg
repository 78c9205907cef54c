SPECIFICATION Spec
CONSTANT MaxMessages = 2
INVARIANTS AtMostOneError LoginFirst Heartbeat
PROPERTIES KeepsContract CloseEnds SubscribesEventually
CHECK_DEADLOCK FALSE
