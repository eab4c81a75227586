SPECIFICATION Spec
CONSTANTS
    r1 = r1  r2 = r2
    e1 = e1  e2 = e2
    None = None
    Request = {r1, r2}
    MaxStaff = 2  MaxUid = 3  Initial = 1
    InitialRole = {"admin"}
    Email = {e1, e2}
    Kind <- Handler
    Want <- OfficeChanges
SYMMETRY Symmetric
CHECK_DEADLOCK FALSE
INVARIANTS
    EmailsAgree
    AdminRemains
    NoOrphanAccount
