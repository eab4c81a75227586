SPECIFICATION Spec
CONSTANTS
    p1 = p1  p2 = p2
    r1 = r1  r2 = r2
    Unknown = Unknown
    Plot = {p1, p2}
    Request = {r1, r2}
    Year <- TwoYears
    Setting <- OneSetting
    HandSpan <- NoSpans
    MaxRows = 3
    MaxSpan = 2
    ChunkSize = 1
CHECK_DEADLOCK FALSE
SYMMETRY Plots
INVARIANTS
    BatchesDisjoint
