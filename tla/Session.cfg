SPECIFICATION Spec
CONSTANTS
    Names = {"pytest-inmanta-lsm", "mine"}
    Options = {"mine"}
    Default = "pytest-inmanta-lsm"
    Nothing = Nothing
    MaxEdits = 1
    MaxTests = 1
    MaxTries = 2
INVARIANTS
    LabHasItsFolder
    ConfiguredAtOnce
    EndsAsAsked
    LoadIsBounded
PROPERTY SessionEnds
CHECK_DEADLOCK FALSE
