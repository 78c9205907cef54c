SPECIFICATION Spec
CONSTANTS
    good = good
    bad = bad
    empty = empty
    none = none
    Keys <- AllKeys
    Known <- KnownKeys
    Results <- MCResults
    MaxRequests = 2
    Empty = empty
    None = none
    Events <- MCEvents
INVARIANTS SuccessIsServed IoThreadCanLog DiesOnlyLoggedOut EscapesOnlyAfterEmpty
PROPERTIES KeepsCall FiguresAreReal
CHECK_DEADLOCK FALSE
