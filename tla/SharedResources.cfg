CONSTANTS
    r1 = r1
    r2 = r2
    s1 = s1
    s2 = s2
    h1 = h1
    h2 = h2
    Nothing = Nothing
    Resources = {r1, r2}
    Sets = {s1, s2}
    Hashes = {h1, h2}
SPECIFICATION Spec
INVARIANTS
    SharedNeverChanges
    SharedNeverOwned
SYMMETRY Interchangeable
