-------------------------------- MODULE MCRace --------------------------------
(* LedgerRace on small instances. *)
EXTENDS LedgerRace, TLC

CONSTANTS r1, r2, r3, b1, b2, y1, y2, y3

TwoEach == [b \in BillingId |-> 2]
OneEach == [b \in BillingId |-> 1]
NoReceipts == [y \in {} |-> b1]
OneReceipt == y1 :> b1
Requests == Permutations(Request)
=============================================================================
