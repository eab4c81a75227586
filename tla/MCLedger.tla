------------------------------ MODULE MCLedger ------------------------------
(* The ledger twice, on different small tables: in "office" one plot with an invoice
   of the legacy system and all that the office sets by hand; in "links" two plots
   whose receipts move between their invoices and batches.  A behaviour is one of the
   two, and the rows of a table of "links" are interchangeable. *)
EXTENDS Ledger, TLC

CONSTANTS p1, p2, b1, b2, y1, y2, k1    \* the rows of "links"

TwoPlots == {p1, p2}
TwoBillings == {b1, b2}
TwoPayments == {y1, y2}
OneBatch == {k1}
OneCategory == {"management_fee"}
OneAmount == {1}
Unsent == {"pending"}
Nothing == {}

\* The sum without recursion is the fold over the function.
ASSUME SumIsTheFold ==
    \A D \in SUBSET {1, 2, 3} : \A f \in [D -> 0 .. 3] :
      SumOf(f) = FoldFunction(+, 0, f)

VARIABLES part, bill, total, receipt, contract, due

linksVars == <<bill, total, receipt, contract, due>>

Links == INSTANCE Ledger WITH
    billing <- bill, paid <- total, payment <- receipt, plot <- contract,
    uncollected <- due,
    PlotId <- TwoPlots, BillingId <- TwoBillings, PaymentId <- TwoPayments,
    BatchId <- OneBatch, Category <- OneCategory, Amount <- OneAmount,
    StatusInput <- Unsent, PlotStatusInput <- Nothing, Migrated <- Nothing

\* In "links" the office has one of its initial states, whichever.
PartInit ==
    /\ part \in {"links", "office"} /\ Init /\ Links!Init
    /\ part = "links" =>
         \A b \in Migrated : /\ paid[b] = 2 /\ billing[b].amount = 2
                             /\ billing[b].terminated
                             /\ billing[b].category = "usage_fee"
PartNext ==
    /\ UNCHANGED part
    /\ \/ part = "office" /\ Next /\ UNCHANGED linksVars
       \/ part = "links" /\ Links!Next /\ UNCHANGED vars
PartSpec == PartInit /\ [][PartNext]_<<part, vars, linksVars>>

\* The properties about receipts that move, in "links": only the cascades of a batch
\* or a plot put a total out of step with its receipts, no total understates them, and
\* a deleted plot owes nothing.
LinksHold ==
    /\ Links!OnlyCascadesDisagree
    /\ []Links!CachedTotalCovers
    /\ []Links!DeletedPlotOwesNothing

Alike == Permutations(TwoPlots) \cup Permutations(TwoPayments)
           \cup Permutations(TwoBillings)
=============================================================================
