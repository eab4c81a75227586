-------------------------------- MODULE MCFees --------------------------------
(* Fees on small instances: a behaviour is one of three parts. *)
EXTENDS MCAnnual, Fees

CONSTANTS c1, c2, x, y, q1, q2

VARIABLE part

debitVars == <<payer, active, bill, file, answered, run, applies, credited,
               debited, changed, overlapped, raced>>

\* Two plots of one fee, that may share a payer and an account; the first may get a second
\* invoice for the year.
PlotNumbers == 1 .. 2
BillNumbers == 1 .. 3
PlotOfBill == <<1, 2, 1>>
TwoYen == [b \in BillNumbers |-> 2]
Owner == {c1, c2}
AccountOf == c1 :> x @@ c2 :> y
Two == [p \in PlotNumbers |-> 2]
\* Owners are interchangeable together with their accounts.
Swapped == c1 :> c2 @@ c2 :> c1 @@ x :> y @@ y :> x
Alike == Plots \cup Permutations(Request) \cup Permutations(Applier) \cup {Swapped}

ASSUME BankAssumption == Debit!DebitAssumption

\* One request at a time, among people who change two plots and their invoices.
Office ==
    /\ part = "office"
    /\ Cardinality({r \in Request : job'[r] # Idle}) <= 1 /\ Cardinality(rows') <= 2
    /\ \A b \in rows' : b.to = Unknown => b.from = Unknown

\* Two requests at once for one plot, whose settings stay, so that they say nothing of them.
Rush ==
    /\ part = "rush"
    /\ \A p \in Plot : plot'[p] \in {Yearly, Gone}
    /\ \A b \in rows' : b.from # Unknown
    /\ \A r \in Request :
         job'[r].kind = "generate" => job'[r].month = Unknown /\ ~job'[r].longer

\* The debit: the first plot has an invoice, and one is made for either; a payer or a
\* contract changes once after the file went out, and one invoice is closed.
FewBills ==
    /\ bill[1].state # "none"
    /\ Cardinality({b \in Bill : bill[b].state # "none"}) <= 2
    /\ Cardinality({b \in Bill : bill[b].state \in {"terminated", "written_off"}}) <= 1
OneChange == <<payer, active>>' # <<payer, active>> => ~changed /\ (payer' # payer => file # <<>>)

PartInit ==
    /\ Init /\ Debit!Init
    /\ \/ part = "debit" /\ plot = [p \in Plot |-> Yearly] /\ FewBills
       \/ /\ \/ part = "office"
             \/ part = "rush" /\ \E p \in Plot : plot = [q \in Plot |-> IF q = p THEN Yearly ELSE Gone]
          /\ payer = [p \in DebitPlot |-> c1] /\ \A b \in Bill : bill[b].state = "none"
PartNext ==
    /\ UNCHANGED part
    /\ \/ part # "debit" /\ Next /\ (Office \/ Rush) /\ UNCHANGED debitVars
       \/ part = "debit" /\ Debit!Next /\ FewBills' /\ OneChange /\ UNCHANGED vars
PartSpec == PartInit /\ [][PartNext]_<<part, vars, debitVars>>
=============================================================================
