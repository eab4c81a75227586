SPECIFICATION Spec
CONSTANTS
    r1 = r1  r2 = r2
    e1 = e1  e2 = e2
    None = None
    Request = {r1, r2}
    MaxStaff = 2  MaxUid = 2  Initial = 2
    InitialRole = {"admin", "operator"}
    Email = {e1, e2}
    Kind <- AdminKinds
    Want <- RoleChanges
SYMMETRY Symmetric
CHECK_DEADLOCK FALSE
INVARIANTS
    AlwaysAnAdmin
