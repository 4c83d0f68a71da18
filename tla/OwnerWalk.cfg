SPECIFICATION Spec
CONSTANTS
    a = a
    b = b
    c = c
    Ids = {a, b, c}
    NoIds = {n}
    ServiceRecords <- MCRecords
    ResolvedSets = {shared_set}
    Nothing = Nothing
    Empty = Empty
INVARIANTS
    RootIsTheOnlyOwnerless
    ValueErrorIsReal
PROPERTY WalkEnds
CHECK_DEADLOCK FALSE
