CONSTANTS
    v1 = v1
    v2 = v2
    m1 = m1
    m2 = m2
    NoFolder = NoFolder
    Versions = {v1, v2}
    Modules = {m1, m2}
SPECIFICATION FolderSpec
INVARIANTS
    ExportIsLocal
    SoftClearKeepsProject
    SessionStartsClean
    LibsAreCached
