----------------------------- MODULE MCInventory -----------------------------
(* PlotInventory and its reports on small instances. *)
EXTENDS InventoryReports, TLC

CONSTANTS p1, p2, c1, c2, c3, c4

Areas == 1 .. 2
ShellLegacy == p1 :> [contract |-> c1, area |-> 2, status |-> "vacant"]
Sizes == {1, 3, Keep}
Statuses == {"available", "sold_out", Keep}
Contracts == Permutations({c2, c3, c4})

\* Section "A" has a row of its own; "T" is split by area, with no row for area 2;
\* "S" has no row; "I" is the name of a period, "X" is in no master.
Periods == {"I", "IV"}
Sections == "A" :> "I" @@ "T" :> "IV" @@ "S" :> "IV"
Types == [n \in {"A", "T", "I", "X"} |-> "free"] @@ "S" :> "cherry"
Blocks == {{"a"}, {"1", "3"}}
RowOfName == "A" :> "a"
RowOfArea == "T" :> (1 :> "1" @@ 3 :> "3")
Names == {p1 :> "A" @@ p2 :> "T", p1 :> "T" @@ p2 :> "S", p1 :> "X" @@ p2 :> "I"}

\* The office has opened a fifth period.
NewSections == Sections @@ "X" :> "V"
=============================================================================
