-------------------------------- MODULE Counter --------------------------------
(***************************************************************************)
(* What the counter promises: an amount is collected against an invoice in *)
(* one indivisible step, never more than is left of it, and the cached     *)
(* total and the plot's uncollected amount move with it.                   *)
(***************************************************************************)
EXTENDS Sums

CONSTANTS BillingId, Amount

VARIABLES paid, received, due

Left(p) == SumOf([b \in BillingId |-> Amount[b] - p[b]])

Init ==
    /\ paid = [b \in BillingId |-> 0]
    /\ received = [b \in BillingId |-> 0]
    /\ due = Left(paid)

Collect(b, x) ==
    /\ x <= Amount[b] - received[b]
    /\ received' = [received EXCEPT ![b] = @ + x]
    /\ paid' = [paid EXCEPT ![b] = @ + x]
    /\ due' = Left(paid')

Next == \E b \in BillingId : \E x \in 1 .. Amount[b] : Collect(b, x)

Spec == Init /\ [][Next]_<<paid, received, due>>
=============================================================================
