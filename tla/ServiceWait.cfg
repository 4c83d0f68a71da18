SPECIFICATION ClientsSpec
CONSTANTS
    States = {"moving", "up", "failed"}
    Bad = {"failed"}
    Targets = {"up", "failed"}
    Nothing = Nothing
    MaxVersion = 3
INVARIANTS
    BadStateNeverHidden
    OwnTransitionSeen
PROPERTIES
    EitherOperationEnds
    ImplementsVerdict
    LegacyImplementsVerdict
CHECK_DEADLOCK FALSE
