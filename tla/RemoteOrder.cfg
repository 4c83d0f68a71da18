CONSTANTS
    t1 = t1
    t2 = t2
    a = a
    b = b
    o1 = o1
    o2 = o2
    Nothing = Nothing
    MaxOrdered = 2
    MaxCalls = 2
    Tasks = {t1, t2}
    Items = {a, b}
    Batches = {{a}, {a, b}}
    OrderIds = {o1, o2}
    ChosenIds = {o1}
    Targets = {"success"}
SPECIFICATION Spec
INVARIANTS
    SuccessMeansDone
    BadStateIsExplained
    TimeoutIsExplained
PROPERTIES
    CallsEnd
CHECK_DEADLOCK FALSE
