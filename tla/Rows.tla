--------------------------------- MODULE Rows ---------------------------------
(* Some of the rows of a list, in the order of the list: what a query with a
   condition, or a filter, returns. *)
EXTENDS Integers, Sequences, FiniteSets

\* The rows at the indexes I.  The n-th of them is the one with n indexes of I up
\* to its own: without a recursion, so that facts about it can be proved.
Picked(rows, I) ==
    LET rank(i) == Cardinality({j \in I : j <= i})
        at(n) == CHOOSE i \in I : rank(i) = n
    IN  [n \in 1 .. Cardinality(I) |-> rows[at(n)]]
=============================================================================
