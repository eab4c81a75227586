SPECIFICATION Spec
CONSTANTS
    p1 = p1  p2 = p2
    c1 = c1  c2 = c2  c3 = c3  c4 = c4
    Keep = Keep
    Physical = {p1, p2}
    ContractId = {c1, c2, c3, c4}
    Area <- Areas
    Legacy <- ShellLegacy
    Resize <- Sizes
    Restate <- Statuses
    PERIODS <- Periods
    Other = "other"
    SectionMaster <- NewSections
    TypeOf <- Types
    Block <- Blocks
    ByAreaName <- RowOfName
    BySqm <- RowOfArea
    Naming <- Names
    Parts = 6
SYMMETRY Contracts
CHECK_DEADLOCK FALSE
INVARIANT
    PeriodsAddUp
