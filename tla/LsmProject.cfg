SPECIFICATION Spec
CONSTANTS
    a = a
    b = b
    Ids = {a, b}
    Values = {"v","w"}
    Nothing = Nothing
    States <- MCStates
    AutoTransfers <- MCAuto
    OnUpdateTargets <- MCOnUpdate
    ExportingStates <- MCExporting
    InitialStates = {"start", "up"}
    TestMoves <- MCTestMoves
    Failures = {"Exception"}
    MaxCalls = 5
INVARIANTS
    ActiveWasValidated
    SettledOnReturn
    ExportFollowsInventory
    NoSilentFailure
PROPERTY CallEnds
CHECK_DEADLOCK FALSE
