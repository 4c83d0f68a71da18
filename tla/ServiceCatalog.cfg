SPECIFICATION Spec
CONSTANTS
    Names <- MCNames
    Versions = {0, 1}
    Ids = {a, b}
    Models <- MCModels
    Nothing = Nothing
INVARIANTS
    CatalogIsTheModels
    FreshServicesResolve
PROPERTY OnlyAnExportUnresolves
