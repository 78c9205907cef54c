SPECIFICATION Spec
CONSTANTS
    Interval = 3
    Delay = 1
    Latency = 2
    Start = 4
    Horizon = 24
INVARIANTS TypeOK NoFalseAlarm SilenceBound
CHECK_DEADLOCK FALSE
