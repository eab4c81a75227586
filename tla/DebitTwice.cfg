SPECIFICATION PartSpec
CONSTANTS
    p1 = p1  p2 = p2
    r1 = r1  r2 = r2
    c1 = c1  c2 = c2  x = x  y = y  q1 = q1  q2 = q2
    Null = Null
    DebitPlot <- PlotNumbers
    Customer <- Owner
    Account <- AccountOf
    Fee <- Two
    Bill <- BillNumbers
    BillPlot <- PlotOfBill
    BillAmount <- TwoYen
    Applier = {q1, q2}
    APPLY_CHUNK_SIZE = 1
    MaxApplies = 2
    Unknown = Unknown
    Plot = {p1, p2}
    Request = {r1}
    Year <- TwoYears
    Setting <- OneSetting
    HandSpan <- NoSpans
    MaxRows = 0
    MaxSpan = 2
    ChunkSize = 1
CHECK_DEADLOCK FALSE
SYMMETRY Alike
INVARIANTS
    RecordedOnce
