SPECIFICATION Spec
CONSTANTS
    LastYear = 2101
    Times <- FewTimes
INVARIANTS SecondsCountDays VariantCountsDays
CHECK_DEADLOCK FALSE
