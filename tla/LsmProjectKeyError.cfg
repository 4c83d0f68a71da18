SPECIFICATION Spec
CONSTANTS
    a = a
    b = b
    Ids = {a}
    Values = {"v"}
    Nothing = Nothing
    States <- MCStates
    AutoTransfers <- MCAuto
    OnUpdateTargets <- MCOnUpdate
    ExportingStates <- MCExporting
    InitialStates = {"start", "up"}
    TestMoves <- MCTestMoves
    Failures = {"KeyError", "Exception"}
    MaxCalls = 2
INVARIANT SettledOnReturn
CHECK_DEADLOCK FALSE
