------------------------------- MODULE MCPlots -------------------------------
(* The inventory, and the collective burials of plots on tables of their own: a
   behaviour is one of the two. *)
EXTENDS MCInventory, Burials

CONSTANTS g1, x1

VARIABLE part

burialVars == <<plot, row, timing, today, creation, run>>

ASSUME BurialsAssumption == Graves!CollectiveAssumption

Buried(date, final) == [date |-> date, final |-> final]
Rosters == {<<>>, <<Buried(1, FALSE), Buried(2, TRUE)>>}
TermsAsked == {[capacity |-> 2, years |-> 1]}
Notes ==
    {[vault |-> v, year |-> y, bodies |-> b, years |-> 1] :
       v \in {FALSE}, y \in {Null, 2}, b \in {Null, 2}}

NoEdit == [capacity |-> Unsent, years |-> Unsent, reached |-> Unsent, date |-> Unsent, status |-> Unsent]
Edits ==
    {[NoEdit EXCEPT !.years = 2], [NoEdit EXCEPT !.date = Null],
     [NoEdit EXCEPT !.date = 5, !.status = "pending"]}

\* Updates enlarge one of the two plots.  A row is created on the ordinary day, while no
\* run is under way; a paid row, which the code treats like a billed one, is not followed
\* any further; and the yearly day moves once, from October and before the late day.
FewRows ==
    /\ land[p2].area <= 2
    /\ \A p \in Plot :
         /\ row[p].status # "paid"
         /\ creation[p] # Null => run[x1] = Graves!Idle /\ today = 0
    /\ run[x1].kind \in {"store", "list"} =>
          run[x1].previous = "october" /\ run[x1].next = "obon" /\ today = 0

PartInit == part \in {"inventory", "burials"} /\ Init /\ Graves!Init
PartNext ==
    /\ UNCHANGED part
    /\ \/ part = "inventory" /\ Next /\ UNCHANGED burialVars
       \/ part = "burials" /\ Graves!Next /\ UNCHANGED vars
PartSpec == PartInit /\ [][PartNext]_<<part, vars, burialVars>>
=============================================================================
