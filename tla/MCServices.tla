------------------------------ MODULE MCServices ------------------------------
(* Services on small instances: a behaviour is one of the four parts. *)
EXTENDS Services, TLC

ASSUME PrintersAssumption == DocumentsAssumption

-----------------------------------------------------------------------------
(* Records below two plots: what the forms send *)

CONSTANTS p1, p2, v1, v2, x1, x2

recordVars == <<plot, rows, told, job>>

Fields == {"fee", "gravestone", "family", "buried", "construction"}
Nothing == [k \in Fields |-> Null]
It(name, other) == [form |-> name, other |-> other]
New(name) == [id |-> 0, item |-> It(name, v1)]
On(i, name, other) == [id |-> i, item |-> It(name, other)]

Registrations ==
    {[Nothing EXCEPT !["fee"] = It(v1, v1), !["family"] = <<New(Blank), New(v1)>>],
     [Nothing EXCEPT !["gravestone"] = It(v1, v1), !["buried"] = <<New(v1)>>],
     Nothing}

Lists ==
    {<<>>, <<New(v1)>>}
      \cup {<<On(i, f, Unsent)>> : i \in 1 .. 3, f \in {v2, Blank}}
Edits ==
    {[Nothing EXCEPT ![k] = s] : k \in {"fee", "gravestone"}, s \in {Remove, It(v2, Unsent)}}
      \cup {[Nothing EXCEPT !["family"] = s] : s \in Lists}
      \cup {[Nothing EXCEPT !["buried"] = s, !["construction"] = s] :
              s \in {l \in Lists : \A j \in DOMAIN l : l[j].item.form # Blank}}

Plots == {p1, p2}
Values == {v1, v2}
Deleters == {x1, x2}

ASSUME FormsAssumption == Recs!RecordsAssumption

-----------------------------------------------------------------------------
(* Masters: one that is referred to by text, one by number, one whose use is not
   looked for *)

masterVars == <<type, master, nextId, ref, form>>

MasterType == {"tax", "direction", "relationship"}
SearchedTypes == {"tax", "direction"}
ByNumber == {"direction"}
Codes == {"1", "2", "02", "N"}
Reads == "1" :> 1 @@ "02" :> 2 @@ "2" :> 2 @@ "N" :> Null
Records == {"u", "m", "g", "h", "f"}
TableOf == "u" :> "usage" @@ "m" :> "management" @@ "g" :> "gravestone"
             @@ "h" :> "gravestone" @@ "f" :> "family"
Columns == "tax" :> {"usage", "management"} @@ "direction" :> {"gravestone"}
             @@ "relationship" :> {"family"}

ASSUME TablesAssumption == Names!MastersAssumption

-----------------------------------------------------------------------------
(* The former system: a plot of a customer with an applicant of another name, and
   one whose contract had ended *)

moveVars == <<data, marks, idMaps, steps, entered, todo, owed, sold, era, runs,
              whole, picked, crashed, finished>>

One == {[cd |-> 1]}
Clerks == {[cd |-> 1, email |-> 9], [cd |-> 2, email |-> 9]}
Graves ==
    {[cd |-> 1, status |-> 1, parts |-> <<"usageFee", "gravestoneInfo">>],
     [cd |-> 2, status |-> 0, parts |-> <<>>]}
Dankas ==
    {[cd |-> 1, grave_cd |-> 1, tancd |-> 1, del_flg |-> 0, complete |-> TRUE,
      job |-> TRUE, request |-> "other"],
     [cd |-> 2, grave_cd |-> 2, tancd |-> 2, del_flg |-> 2, complete |-> FALSE,
      job |-> FALSE, request |-> "none"]}
Families ==
    {[cd |-> 1, danka_cd |-> 1, named |-> TRUE, zokugara |-> 1],
     [cd |-> 2, danka_cd |-> 2, named |-> TRUE, zokugara |-> 0]}
Burials == {[cd |-> 1, grave_cd |-> 1, named |-> TRUE, zokugara |-> 0]}
Works == {[cd |-> 1, grave_cd |-> 1, gyousha_cd |-> 7]}
Invoices ==
    {[cd |-> 1, danka_cd |-> 1, grave_cd |-> 1, year |-> 2020, terminate_flg |-> 0,
      paid |-> TRUE],
     [cd |-> 2, danka_cd |-> 1, grave_cd |-> 1, year |-> 0, terminate_flg |-> 0,
      paid |-> FALSE],
     [cd |-> 3, danka_cd |-> 2, grave_cd |-> 2, year |-> 1999, terminate_flg |-> 1,
      paid |-> FALSE]}
Receipts ==
    {[cd |-> 1, danka_cd |-> 1, grave_cd |-> 1, seikyu_cd |-> 1],
     [cd |-> 2, danka_cd |-> 2, grave_cd |-> 2, seikyu_cd |-> 0],
     [cd |-> 3, danka_cd |-> 0, grave_cd |-> 2, seikyu_cd |-> 0]}
DankaLog ==
    {[cd |-> 1, table |-> "t_dankalog", of |-> 1, changes |-> TRUE],
     [cd |-> 2, table |-> "t_dankalog", of |-> 1, changes |-> FALSE]}
FamLog == {[cd |-> 1, table |-> "t_famlog", of |-> 1, changes |-> TRUE]}
Only ==
    {{"payment"}, {"customer"}, {"saleContractRole", "billing"}, {"billing", "payment"},
     {"familyContact", "history"}}

ASSUME KeysAssumption == Move!MigrationAssumption

-----------------------------------------------------------------------------
VARIABLE part

docVars == <<doc, file, req, edited, pc, activeChromiumCount, chromiumWaitQueue, woken>>

\* The plots of ContractRecords are alike: p1 is registered first.
FirstPlotFirst == plot[p2] # "none" => plot[p1] # "none"

PartInit ==
    /\ part \in {"records", "documents", "masters", "migration"}
    /\ Init /\ Recs!Init /\ Names!Init /\ Move!Init
    /\ part # "masters" => type = "tax"
PartNext ==
    /\ UNCHANGED part
    /\ \/ part = "records" /\ Recs!Next /\ UNCHANGED <<docVars, masterVars, moveVars>>
       \/ part = "documents" /\ Next /\ UNCHANGED <<recordVars, masterVars, moveVars>>
       \/ part = "masters" /\ Names!Next /\ UNCHANGED <<recordVars, docVars, moveVars>>
       \/ part = "migration" /\ Move!Next /\ UNCHANGED <<recordVars, docVars, masterVars>>
PartSpec ==
    /\ PartInit /\ [][PartNext]_<<part, recordVars, docVars, masterVars, moveVars>>
    /\ Fairness
=============================================================================
