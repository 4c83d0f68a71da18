CONSTANTS
    m1 = m1
    m2 = m2
    p1 = p1
    p2 = p2
    p3 = p3
    p4 = p4
    p5 = p5
    s1 = s1
    s2 = s2
    Models = {m1, m2}
    Programs = {p1, p2, p3, p4, p5}
    Schedulers = {s1, s2}
    Nothing = Nothing
SPECIFICATION Spec
INVARIANTS
    ExecutesAsCold
    TypedOnce
SYMMETRY Interchangeable
