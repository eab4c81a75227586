SPECIFICATION PartSpec
CONSTANTS
    p1 = p1  p2 = p2
    b1 = b1  b2 = b2
    y1 = y1  y2 = y2
    k1 = k1
    None = None
    PlotId = {q1}
    BillingId = {a1, a2}
    PaymentId = {x1}
    BatchId = {}
    Category = {"management_fee", "usage_fee"}
    Amount = {1, 2}
    Dated = {TRUE}
    StatusInput = {"overdue", "written_off"}
    PlotStatusInput = {"refunded"}
    Migrated = {a1}
SYMMETRY Alike
CHECK_DEADLOCK FALSE
INVARIANTS
    CachedTotalCovers
    DeletedPlotOwesNothing
    TerminatedShown
    PromiseOnlyWhileOwed
PROPERTIES
    LinksHold
    ManualStatusStands
    MigratedTotalStands
    OnlyEditsLeavePlotStale
