SPECIFICATION PartSpec
CONSTANTS
    p1 = p1  p2 = p2
    v1 = v1  v2 = v2
    x1 = x1  x2 = x2
    Null = Null
    Unsent = Unsent
    Blank = Blank
    Remove = Remove
    Document = {d1}
    Request = {q1, q2}
    Key = {k1, k2, k3}
    Template = {"permit", "invoice"}
    Form = {"permit"}
    MAX_CONCURRENT_CHROMIUM = 1
    Plot <- Plots
    Val <- Values
    Registration <- Registrations
    Edit <- Edits
    Deleter <- Deleters
    MaxRow = 3
    Type <- MasterType
    Searched <- SearchedTypes
    Numbered <- ByNumber
    MasterCode <- Codes
    NumberOf <- Reads
    Record <- Records
    Table <- TableOf
    Column <- Columns
    MaxId = 3
    sykbnn <- One
    matant <- Clerks
    m_bochi <- Graves
    t_danka <- Dankas
    t_family <- Families
    t_maisou <- Burials
    t_foundlog <- Works
    t_seikyu <- Invoices
    t_nyukin <- Receipts
    t_dankalog <- DankaLog
    t_famlog <- FamLog
    Picks <- Only
    MaxRuns = 3
    MaxEra = 1
CHECK_DEADLOCK FALSE
CONSTRAINT FirstPlotFirst
INVARIANTS
    HistoryTells
    NothingSurvives
    FilesKept
    Regenerable
    AtMostTwo
    NothingTwice
    TerminatedStayOut
    LinksComplete
    Finished
PROPERTIES
    OnlyOwnRecords
    EveryoneServed
    NothingOrphaned
