-------------------------------- MODULE MCStaff --------------------------------
(* StaffAdmin on small instances. *)
EXTENDS StaffAdmin, TLC

CONSTANTS r1, r2, e1, e2

\* Changes of role or of activity, and promotions with another email.
RoleChanges ==
    {[role |-> "operator", active |-> None, email |-> None],
     [role |-> "admin", active |-> None, email |-> None],
     [role |-> None, active |-> FALSE, email |-> None]}

\* A new email together with a promotion, or a member put out of office.
Promotions == {[role |-> "admin", active |-> None, email |-> e] : e \in Email}
OfficeChanges == Promotions \cup {[role |-> None, active |-> FALSE, email |-> None]}

AdminKinds == {"update", "toggle", "delete"}
Symmetric == Permutations(Request) \cup Permutations(Email)
=============================================================================
