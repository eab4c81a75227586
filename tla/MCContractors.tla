----------------------------- MODULE MCContractors -----------------------------
(* Contractors on a small instance. *)
EXTENDS Contractors, TLC

CONSTANTS c1, c2, c3, p1, p2, k1, k2, x1, x2

Row(c, kind) == [cust |-> c, kind |-> kind]
Asked(kana, roles, applicant, work, extra) ==
    [kana |-> kana, roles |-> roles, applicant |-> applicant, work |-> work, extra |-> extra]

\* A customer alone, with an applicant, with an existing second contractor, and a
\* combined purchase.
Creations ==
    {Asked(k1, <<>>, TRUE, FALSE, {p2}),
     Asked(k1, <<Row(c1, "contractor"), Row(New, "contractor")>>, FALSE, TRUE, {})}

Change(roles, kana, work, applicant) ==
    [roles |-> roles, kana |-> kana, work |-> work, applicant |-> applicant]

\* One section each, and the ones that read what another has changed.
Edits ==
    {Change(<<Row(c, "contractor")>>, k2, Null, Null) : c \in Customer}
      \cup {Change(<<Row(c1, "contractor"), Row(c1, "applicant")>>, Null, "remove", "remove"),
            Change(Null, Null, Null, k2), Change(Null, Null, "write", "remove")}

Symmetric == Permutations(Customer \ Migrated)
=============================================================================
