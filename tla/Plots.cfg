SPECIFICATION PartSpec
CONSTANTS
    p1 = p1  p2 = p2
    c1 = c1  c2 = c2  c3 = c3  c4 = c4
    Keep = Keep
    Physical = {p1, p2}
    ContractId = {c1, c2, c3, c4}
    Area <- Areas
    Legacy <- ShellLegacy
    Resize <- Sizes
    Restate <- Statuses
    PERIODS <- Periods
    Other = "other"
    SectionMaster <- Sections
    TypeOf <- Types
    Block <- Blocks
    ByAreaName <- RowOfName
    BySqm <- RowOfArea
    Naming <- Names
    Parts = 6
    g1 = g1  x1 = x1
    Null = Null
    Unsent = Unsent
    Plot = {g1}
    Run = {x1}
    ContractDate = {0}
    Roster <- Rosters
    Terms <- TermsAsked
    RowEdits <- Edits
    Noted <- Notes
    Clock = {0, 5}
SYMMETRY Contracts
CHECK_DEADLOCK FALSE
CONSTRAINT FewRows
INVARIANTS
    ScreensAgree
    VacantIsForSale
    SyncSettles
PROPERTIES
    GrowthFits
    ChangeSetsStatus
    ChosenDatesStand
