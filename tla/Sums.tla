--------------------------------- MODULE Sums ---------------------------------
(* The sum of the values of a function into the natural numbers. *)
EXTENDS Integers, FiniteSets

\* The sum is the number of the function's units: without a recursion, so that
\* facts about it can be proved.
Units(f) == UNION {{y} \X (1 .. f[y]) : y \in DOMAIN f}
SumOf(f) == Cardinality(Units(f))
=============================================================================
