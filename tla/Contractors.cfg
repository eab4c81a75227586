SPECIFICATION Spec
CONSTANTS
    c1 = c1  c2 = c2  c3 = c3
    p1 = p1  p2 = p2
    k1 = k1  k2 = k2
    x1 = x1  x2 = x2
    Null = Null
    New = New
    Customer = {c1, c2, c3}
    Migrated = {c1}
    Plot = {p1, p2}
    Kana = {k1, k2}
    Creation <- Creations
    Edit <- Edits
    Deleter = {x1}
SYMMETRY Symmetric
CHECK_DEADLOCK FALSE
INVARIANTS
    SnapshotFresh
    PartiesAssignable
PROPERTIES
    NoPartyDeleted
