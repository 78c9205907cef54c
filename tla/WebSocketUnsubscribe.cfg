\* The promise of ftx_ws_client.h:84 against a stream that is still connecting.
CONSTANT MaxMessages = 2
SPECIFICATION Spec
PROPERTY SilentAfterUnsubscribe
CHECK_DEADLOCK FALSE
