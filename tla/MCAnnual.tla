------------------------------- MODULE MCAnnual -------------------------------
(* AnnualBilling on small instances. *)
EXTENDS AnnualBilling, TLC

CONSTANTS p1, p2, r1, r2

Yearly == [live |-> TRUE, active |-> TRUE, amount |-> TRUE, month |-> 3,
           prepaid |-> FALSE, payer |-> TRUE]
Gone == [Yearly EXCEPT !.live = FALSE]
Longer == [Yearly EXCEPT !.prepaid = TRUE]
Nobody == [Yearly EXCEPT !.payer = FALSE]
InApril == [Yearly EXCEPT !.month = 4]

TwoYears == 1 .. 2
OneSetting == {Yearly}
FewSettings == {Yearly, Longer, Nobody, InApril, Gone}
FewSpans == {<<1, 2>>, <<2, Unknown>>, <<Unknown, Unknown>>}
NoSpans == {}
Plots == Permutations(Plot)
=============================================================================
