CONSTANTS
    Count = 3
    Limits = {0, 1, 2}
    Failures = {"Exception", "BaseException"}
SPECIFICATION RunnerSpec
INVARIANTS
    SlotsAccounted
    NoSlotWasted
PROPERTIES
    ExecutionEnds
    EndsAfterTimeout
CHECK_DEADLOCK FALSE
