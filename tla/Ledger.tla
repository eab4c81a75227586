------------------------------- MODULE Ledger -------------------------------
(***************************************************************************)
(* The receivables ledger: invoices (Billing), receipts (Payment) and the  *)
(* two values the contract plot caches about them, payment_status and      *)
(* uncollected_amount.  One action is one request handler, run to its      *)
(* commit before the next one starts; LedgerRace interleaves them.         *)
(*                                                                         *)
(* A handler is a sequence of statements in one transaction, so it is      *)
(* written as a chain of operators from database to database: `Tables' is  *)
(* what the transaction reads and `Commit(d)' what it leaves behind.       *)
(***************************************************************************)
EXTENDS Integers, FiniteSets, Functions, Sums

CONSTANTS
    PlotId, BillingId, PaymentId, \* the rows the tables can hold
    BatchId,                      \* prepaid_batch_id values
    Category,                     \* BillingCategory values in use
    Amount,                       \* the amounts a request can carry,
    Dated,                        \*   whether it sets billing_date,
    StatusInput,                  \*   the billing status and
    PlotStatusInput,              \*   the payment status it can ask for
    Migrated,                     \* billings loaded from the legacy system
    None                          \* SQL NULL

BillingStatus ==
    {"pending", "billed", "partial_paid", "paid", "overdue", "terminated",
     "written_off"}
ManualStatus == {"written_off", "overdue"}
PaymentStatus == {"unpaid", "partial_paid", "paid", "overdue", "refunded"}
RowState == {"none", "live", "deleted"}

ASSUME LedgerAssumption ==
    /\ Amount \subseteq Nat
    /\ Dated \subseteq BOOLEAN
    /\ Migrated \subseteq BillingId
    /\ "management_fee" \in Category
    /\ None \notin PlotId \cup BillingId \cup PaymentId \cup BatchId
    /\ IsFiniteSet(BillingId) /\ IsFiniteSet(PaymentId)
    /\ StatusInput \subseteq BillingStatus
    /\ PlotStatusInput \subseteq PaymentStatus

VARIABLES
    billing,      \* Billing rows, without the cached total
    paid,         \* Billing.paid_amount, the cached total of each billing
    payment,      \* Payment rows
    plot,         \* ContractPlot: does it exist, its payment_status
    uncollected   \* ContractPlot.uncollected_amount

vars == <<billing, paid, payment, plot, uncollected>>

BillingRow ==
    [state : RowState, plot : PlotId \cup {None}, category : Category,
     amount : Nat, dated : BOOLEAN, promised : BOOLEAN, terminated : BOOLEAN,
     status : BillingStatus, legacy : BOOLEAN, batch : BatchId \cup {None}]

PaymentRow ==
    [state : RowState, billing : BillingId \cup {None},
     plot : PlotId \cup {None}, amount : Nat, batch : BatchId \cup {None}]

PlotRow == [live : BOOLEAN, status : PaymentStatus]

Database ==
    [billing : [BillingId -> BillingRow], paid : [BillingId -> Nat],
     payment : [PaymentId -> PaymentRow], plot : [PlotId -> PlotRow],
     uncollected : [PlotId -> Nat]]

Tables ==
    [billing |-> billing, paid |-> paid, payment |-> payment,
     plot |-> plot, uncollected |-> uncollected]

Commit(d) ==
    /\ billing' = d.billing
    /\ paid' = d.paid
    /\ payment' = d.payment
    /\ plot' = d.plot
    /\ uncollected' = d.uncollected

-----------------------------------------------------------------------------
(* Totals and the values derived from them *)

PaymentsOf(d, b) ==
    {y \in PaymentId : d.payment[y].state = "live" /\ d.payment[y].billing = b}

Received(d, b) == SumOf([y \in PaymentsOf(d, b) |-> d.payment[y].amount])

FullyPaid(amount, total) == amount > 0 /\ total >= amount

\* Variant: payment decides before termination.
ComputeBillingStatusPaidFirst(r, total) ==
    IF r.status = "written_off" THEN "written_off"
    ELSE IF FullyPaid(r.amount, total) THEN "paid"
    ELSE IF r.terminated THEN "terminated"
    ELSE IF r.status = "overdue" THEN "overdue"
    ELSE IF total > 0 THEN "partial_paid"
    ELSE IF r.dated THEN "billed" ELSE "pending"

\* Variant: a part payment clears the overdue mark.
ComputeBillingStatusPartFirst(r, total) ==
    IF r.status = "written_off" THEN "written_off"
    ELSE IF r.terminated THEN "terminated"
    ELSE IF FullyPaid(r.amount, total) THEN "paid"
    ELSE IF total > 0 THEN "partial_paid"
    ELSE IF r.status = "overdue" THEN "overdue"
    ELSE IF r.dated THEN "billed" ELSE "pending"

ComputeBillingStatus(r, total) ==
    IF r.status = "written_off" THEN "written_off"
    ELSE IF r.terminated THEN "terminated"
    ELSE IF FullyPaid(r.amount, total) THEN "paid"
    ELSE IF r.status = "overdue" THEN "overdue"
    ELSE IF total > 0 THEN "partial_paid"
    ELSE IF r.dated THEN "billed" ELSE "pending"

PaymentStatusFromTotals(amount, total, current) ==
    IF current = "refunded" THEN "refunded"
    ELSE IF FullyPaid(amount, total) THEN "paid"
    ELSE IF total > 0 THEN "partial_paid"
    ELSE IF current = "overdue" THEN "overdue" ELSE "unpaid"

UncollectedFromTotals(amount, total, status) ==
    IF status = "refunded" \/ total >= amount THEN 0 ELSE amount - total

\* Billings of plot p whose debt still stands, in the given categories.
Active(d, p, cats) ==
    {b \in BillingId : /\ d.billing[b].state = "live"
                       /\ d.billing[b].plot = p
                       /\ ~d.billing[b].terminated
                       /\ d.billing[b].category \in cats}

Billed(d, p, cats) == SumOf([b \in Active(d, p, cats) |-> d.billing[b].amount])
Credited(d, p, cats) == SumOf([b \in Active(d, p, cats) |-> d.paid[b]])

DerivedStatus(d, p) ==
    PaymentStatusFromTotals(Billed(d, p, Category), Credited(d, p, Category),
                            d.plot[p].status)

DerivedUncollected(d, p, status) ==
    UncollectedFromTotals(Billed(d, p, {"management_fee"}),
                          Credited(d, p, {"management_fee"}), status)

\* The plots of S are refreshed one after the other; they do not depend on
\* each other, so the order does not matter.  A deleted plot is left alone.
RecalculatePlots(d, S) ==
    LET due == {p \in S : d.plot[p].live} IN
    [d EXCEPT
       !.plot = [p \in PlotId |->
           IF p \in due THEN [d.plot[p] EXCEPT !.status = DerivedStatus(d, p)]
           ELSE d.plot[p]],
       !.uncollected = [p \in PlotId |->
           IF p \in due THEN DerivedUncollected(d, p, DerivedStatus(d, p))
           ELSE d.uncollected[p]]]

\* Variant: the sum of the Payment rows always wins.
NeverKeepsTotal(d, b) == FALSE

\* A billing of the legacy system carries a total that no Payment row backs;
\* it is kept as long as the billing has no row at all.
KeepsMigratedTotal(d, b) ==
    PaymentsOf(d, b) = {} /\ d.billing[b].legacy /\ d.paid[b] > 0

\* Variant: the promise is left in place.
RecalculateKeepingPromise(d, b) ==
    IF d.billing[b].state # "live" THEN d
    ELSE LET r == d.billing[b]
             total == IF KeepsMigratedTotal(d, b) THEN d.paid[b]
                      ELSE Received(d, b)
             row == [r EXCEPT !.status = ComputeBillingStatus(r, total)]
         IN RecalculatePlots([d EXCEPT !.billing[b] = row, !.paid[b] = total],
                             {r.plot})

RecalculateBillingPayments(d, b) ==
    IF d.billing[b].state # "live" THEN d
    ELSE LET r == d.billing[b]
             total == IF KeepsMigratedTotal(d, b) THEN d.paid[b]
                      ELSE Received(d, b)
             row == [r EXCEPT !.status = ComputeBillingStatus(r, total),
                              !.promised = @ /\ ~FullyPaid(r.amount, total)]
         IN RecalculatePlots([d EXCEPT !.billing[b] = row, !.paid[b] = total],
                             {r.plot})

-----------------------------------------------------------------------------
(* Rows *)

NoBillingRow ==
    [state |-> "none", plot |-> None, category |-> "management_fee",
     amount |-> 0, dated |-> FALSE, promised |-> FALSE, terminated |-> FALSE,
     status |-> "pending", legacy |-> FALSE, batch |-> None]

NewBilling(p, c, x, dated, s, k) ==
    [NoBillingRow EXCEPT !.state = "live", !.plot = p, !.category = c,
                         !.amount = x, !.dated = dated, !.status = s,
                         !.batch = k]

NoPaymentRow ==
    [state |-> "none", billing |-> None, plot |-> None, amount |-> 0,
     batch |-> None]

NewPayment(b, p, x, k) ==
    [state |-> "live", billing |-> b, plot |-> p, amount |-> x, batch |-> k]

FreshBillings == {b \in BillingId : billing[b].state = "none"}
FreshPayments == {y \in PaymentId : payment[y].state = "none"}
LiveBillings == {b \in BillingId : billing[b].state = "live"}
LivePayments == {y \in PaymentId : payment[y].state = "live"}
LivePlots == {p \in PlotId : plot[p].live}

Remaining(b) == billing[b].amount - paid[b]

CollectibleUnpaid(b) ==
    /\ Remaining(b) >= 1
    /\ billing[b].status \notin {"paid", "terminated", "written_off"}

-----------------------------------------------------------------------------
(* Invoices *)

\* The status of a new billing is stored as the request gives it.
CreateBilling(b, p, c, x, dated, s) ==
    /\ b \in FreshBillings
    /\ p \in LivePlots
    /\ Commit(RecalculatePlots(
                [Tables EXCEPT !.billing[b] = NewBilling(p, c, x, dated, s, None)],
                {p}))

\* The totals are refreshed only when a field they depend on really changed; that one date
\* gives way to another shows in none of the others.
PaymentRelevant(b, x, dated, s, term) ==
    \/ x # billing[b].amount
    \/ dated # billing[b].dated
    \/ s # billing[b].status
    \/ term # billing[b].terminated

OtherDate(b, dated) == dated /\ billing[b].dated

UpdateBilling(b, c, x, dated, s, term) ==
    /\ b \in LiveBillings
    /\ s # billing[b].status => ManualStatus \cap {s, billing[b].status} # {}
    /\ LET d == [Tables EXCEPT !.billing[b] =
                   [@ EXCEPT !.category = c, !.amount = x, !.dated = dated,
                             !.status = s, !.terminated = term]]
       IN \/ Commit(IF PaymentRelevant(b, x, dated, s, term)
                    THEN RecalculateBillingPayments(d, b) ELSE d)
          \/ /\ ~PaymentRelevant(b, x, dated, s, term) /\ OtherDate(b, dated)
             /\ Commit(RecalculateBillingPayments(d, b))

\* Variant: the plot is not refreshed.
DeleteBillingOnly(b) ==
    /\ b \in LiveBillings
    /\ Commit([Tables EXCEPT
                 !.payment = [y \in PaymentId |->
                     IF y \in PaymentsOf(Tables, b)
                     THEN [payment[y] EXCEPT !.billing = None]
                     ELSE payment[y]],
                 !.billing[b].state = "deleted"])

\* Receipts of a deleted billing become orphans.
DeleteBilling(b) ==
    /\ b \in LiveBillings
    /\ Commit(RecalculatePlots(
                [Tables EXCEPT
                   !.payment = [y \in PaymentId |->
                       IF y \in PaymentsOf(Tables, b)
                       THEN [payment[y] EXCEPT !.billing = None]
                       ELSE payment[y]],
                   !.billing[b].state = "deleted"],
                {billing[b].plot}))

-----------------------------------------------------------------------------
(* Receipts *)

\* One more receipt of x for billing b, then the totals of b.
Receive(d, y, b, x) ==
    RecalculateBillingPayments(
        [d EXCEPT !.payment[y] = NewPayment(b, d.billing[b].plot, x, None)], b)

\* A request that names another plot than the billing's is refused; the plot
\* stored is the billing's.
CreateBilledPayment(y, b, x) ==
    /\ y \in FreshPayments
    /\ b \in LiveBillings
    /\ Commit(Receive(Tables, y, b, x))

CreateOrphanPayment(y, p, x) ==
    /\ y \in FreshPayments
    /\ p \in LivePlots \cup {None}
    /\ Commit([Tables EXCEPT !.payment[y] = NewPayment(None, p, x, None)])

\* Variants: only one of the two billings is refreshed.
RecalculateFormer(d, before, after) ==
    IF before = None THEN d ELSE RecalculateBillingPayments(d, before)

RecalculateLatter(d, before, after) ==
    IF after = None THEN d ELSE RecalculateBillingPayments(d, after)

\* The billing the receipt had before the update is refreshed first, then the
\* one it has after it.
RecalculateBoth(d, before, after) ==
    LET d1 == IF before = None THEN d
              ELSE RecalculateBillingPayments(d, before)
    IN IF after \in {None, before} THEN d1
       ELSE RecalculateBillingPayments(d1, after)

\* The request names billing b: it must exist, and its plot becomes the
\* receipt's (a request that names another plot is refused).
RelinkPayment(y, b, x) ==
    /\ y \in LivePayments
    /\ b \in LiveBillings
    /\ Commit(RecalculateBoth(
                [Tables EXCEPT !.payment[y].billing = b,
                               !.payment[y].plot = billing[b].plot,
                               !.payment[y].amount = x],
                payment[y].billing, b))

\* The request names no billing, or clears it: plot and amount are written
\* as given.
EditPayment(y, b, p, x) ==
    /\ y \in LivePayments
    /\ b \in {payment[y].billing, None}
    /\ p \in PlotId \cup {None}
    /\ Commit(RecalculateBoth(
                [Tables EXCEPT !.payment[y].billing = b,
                               !.payment[y].plot = p,
                               !.payment[y].amount = x],
                payment[y].billing, b))

DeletePayment(y) ==
    /\ y \in LivePayments
    /\ Commit(RecalculateBoth([Tables EXCEPT !.payment[y].state = "deleted"],
                              payment[y].billing, None))

\* The counter collects x of what is left of billing b; for the management fee
\* it may collect less than all, or nothing, against a promised date.
SettleRemaining(b, y, x, promise) ==
    LET management == billing[b].category = "management_fee"
        d == IF x = 0 THEN Tables ELSE Receive(Tables, y, b, x)
    IN /\ b \in LiveBillings
       /\ CollectibleUnpaid(b)
       /\ x <= Remaining(b)
       /\ x >= 1 => y \in FreshPayments
       /\ ~management => x >= 1 /\ ~promise
       /\ management /\ x < Remaining(b) => promise
       /\ Commit(IF promise /\ Remaining(b) - x >= 1
                 THEN [d EXCEPT !.billing[b].promised = TRUE] ELSE d)

\* A transfer of x the bank reports as done, matched to billing b.
ApplyYuchoResult(b, y, x) ==
    /\ b \in LiveBillings
    /\ y \in FreshPayments
    /\ billing[b].category = "management_fee" /\ ~billing[b].terminated
    /\ CollectibleUnpaid(b)
    /\ x <= Remaining(b)
    /\ Commit(Receive(Tables, y, b, x))

-----------------------------------------------------------------------------
(* Batches *)

\* The management fee of a year, for the plots the run found not covered yet:
\* home gives each new billing its plot.
GenerateManagementFees(home, x) ==
    Commit(RecalculatePlots(
        [Tables EXCEPT !.billing = [b \in BillingId |->
            IF b \in DOMAIN home
            THEN NewBilling(home[b], "management_fee", x, TRUE, "billed", None)
            ELSE billing[b]]],
        {home[b] : b \in DOMAIN home}))

\* x divided among the years; the first takes what the division leaves over.
Allocate(x, first, years) ==
    LET base == x \div Cardinality(years) IN
    [b \in years |-> IF b = first THEN x - base * (Cardinality(years) - 1)
                     ELSE base]

\* x received in advance: one billing a year, each with its receipt.
CreatePrepaidBilling(k, p, year, first, x) ==
    LET years == {year[y] : y \in DOMAIN year}
        share == Allocate(x, first, years)
    IN /\ p \in LivePlots
       /\ \A b \in BillingId : billing[b].batch # k
       /\ Commit(RecalculatePlots(
            [Tables EXCEPT
               !.billing = [b \in BillingId |->
                   IF b \in years
                   THEN NewBilling(p, "management_fee", share[b], TRUE, "paid", k)
                   ELSE billing[b]],
               !.paid = [b \in BillingId |->
                   IF b \in years THEN share[b] ELSE paid[b]],
               !.payment = [y \in PaymentId |->
                   IF y \in DOMAIN year
                   THEN NewPayment(year[y], p, share[year[y]], k)
                   ELSE payment[y]]],
            {p}))

\* Everything that carries the batch is deleted; only the plots of the deleted
\* billings are refreshed.
DeletePrepaidBilling(k) ==
    LET bs == {b \in LiveBillings : billing[b].batch = k}
        ys == {y \in LivePayments : payment[y].batch = k}
    IN /\ bs # {}
       /\ Commit(RecalculatePlots(
            [Tables EXCEPT
               !.payment = [y \in PaymentId |->
                   IF y \in ys THEN [payment[y] EXCEPT !.state = "deleted"]
                   ELSE payment[y]],
               !.billing = [b \in BillingId |->
                   IF b \in bs THEN [billing[b] EXCEPT !.state = "deleted"]
                   ELSE billing[b]]],
            {billing[b].plot : b \in bs}))

-----------------------------------------------------------------------------
(* What the plot handlers do to the ledger *)

\* The plot form writes payment_status as given, and nothing else of the ledger.
EditPlotStatus(p, s) ==
    /\ p \in LivePlots
    /\ Commit([Tables EXCEPT !.plot[p].status = s])

\* Variant: the cascade forgets the billings.
DeletePlotKeepingBillings(p) ==
    /\ p \in LivePlots
    /\ Commit([Tables EXCEPT
         !.plot[p].live = FALSE,
         !.payment = [y \in PaymentId |->
             IF y \in LivePayments /\ payment[y].plot = p
             THEN [payment[y] EXCEPT !.state = "deleted"] ELSE payment[y]]])

DeletePlot(p) ==
    /\ p \in LivePlots
    /\ Commit([Tables EXCEPT
         !.plot[p].live = FALSE,
         !.billing = [b \in BillingId |->
             IF b \in LiveBillings /\ billing[b].plot = p
             THEN [billing[b] EXCEPT !.state = "deleted"] ELSE billing[b]],
         !.payment = [y \in PaymentId |->
             IF y \in LivePayments /\ payment[y].plot = p
             THEN [payment[y] EXCEPT !.state = "deleted"] ELSE payment[y]]])

-----------------------------------------------------------------------------
\* The migration loads a billing with the total and the flag of the legacy
\* system, and derives its status from them.
MigratedStatus(gone, amount, total) ==
    IF gone THEN "terminated"
    ELSE IF total = 0 THEN IF amount > 0 THEN "billed" ELSE "pending"
    ELSE IF total >= amount THEN "paid" ELSE "partial_paid"

MigratedRow(p, c, x, total, gone) ==
    [NewBilling(p, c, x, TRUE, MigratedStatus(gone, x, total), None) EXCEPT
        !.legacy = TRUE, !.terminated = gone]

\* The tables after the migration: its last step derives the values of the
\* plots.  Only billings that no Payment row backs are kept apart as migrated.
Init ==
    \E home \in [Migrated -> PlotId], c \in [Migrated -> Category],
       x \in [Migrated -> Amount], total \in [Migrated -> Amount],
       gone \in [Migrated -> BOOLEAN] :
      LET loaded ==
            [billing |-> [b \in BillingId |->
                 IF b \in Migrated
                 THEN MigratedRow(home[b], c[b], x[b], total[b], gone[b])
                 ELSE NoBillingRow],
             paid |-> [b \in BillingId |-> IF b \in Migrated THEN total[b] ELSE 0],
             payment |-> [y \in PaymentId |-> NoPaymentRow],
             plot |-> [p \in PlotId |-> [live |-> TRUE, status |-> "unpaid"]],
             uncollected |-> [p \in PlotId |-> 0]]
          d == RecalculatePlots(loaded, PlotId)
      IN /\ billing = d.billing
         /\ paid = d.paid
         /\ payment = d.payment
         /\ plot = d.plot
         /\ uncollected = d.uncollected

InvoiceStep ==
    \E b \in BillingId, c \in Category, x \in Amount, dated \in Dated :
      \/ \E p \in PlotId, s \in StatusInput : CreateBilling(b, p, c, x, dated, s)
      \/ \E s \in StatusInput \cup {billing[b].status}, term \in BOOLEAN :
           UpdateBilling(b, c, x, dated, s, term)
      \/ DeleteBilling(b)

ReceiptStep ==
    \E y \in PaymentId, x \in Amount :
      \/ \E p \in PlotId \cup {None} :
           \/ CreateOrphanPayment(y, p, x)
           \/ \E b \in BillingId \cup {None} : EditPayment(y, b, p, x)
      \/ DeletePayment(y)
      \/ \E b \in BillingId :
           \/ CreateBilledPayment(y, b, x)
           \/ RelinkPayment(y, b, x)
           \/ \E promise \in BOOLEAN : SettleRemaining(b, y, x, promise)
           \/ ApplyYuchoResult(b, y, x)

BatchStep ==
    \E x \in Amount :
      \/ \E B \in SUBSET FreshBillings \ {{}} :
           \E home \in Injection(B, LivePlots) : GenerateManagementFees(home, x)
      \/ \E k \in BatchId, p \in PlotId, Y \in SUBSET FreshPayments \ {{}} :
           \E year \in Injection(Y, FreshBillings) : \E y \in Y :
             CreatePrepaidBilling(k, p, year, year[y], x)
      \/ \E k \in BatchId : DeletePrepaidBilling(k)

PlotStep ==
    \E p \in PlotId :
      \/ \E s \in PlotStatusInput : EditPlotStatus(p, s)
      \/ DeletePlot(p)

Next == InvoiceStep \/ ReceiptStep \/ BatchStep \/ PlotStep

Spec == Init /\ [][Next]_vars
-----------------------------------------------------------------------------
(* Properties *)

\* Every row has the shape its table gives it, and the cached values are
\* whole, non-negative amounts.
TypeOK == Tables \in Database

\* The cached total of a billing never understates what was received for it:
\* every handler that adds a receipt refreshes the total before it commits,
\* so the counter is never told that more is owed than is.
CachedTotalCovers ==
    \A b \in LiveBillings : paid[b] >= Received(Tables, b)

\* A promise of a next payment (next_payment_date) does not outlive the debt:
\* whoever pays the rest, the promise is cleared with it.
PromiseOnlyWhileOwed ==
    \A b \in LiveBillings :
      billing[b].promised /\ billing[b].amount > 0 => paid[b] < billing[b].amount

\* deletePlot leaves no live billing behind, and no handler adds one later.
DeletedPlotOwesNothing ==
    \A b \in LiveBillings : billing[b].plot \in LivePlots

\* Whatever is later written or received, a billing flagged as terminated shows
\* as terminated, or as written off.
TerminatedShown ==
    \A b \in LiveBillings :
      billing[b].terminated => billing[b].status \in {"terminated", "written_off"}

\* The cached total of b is the sum of its receipts.
Agrees(b) == paid[b] = Received(Tables, b)

\* The total of a billing that is not migrated goes out of step with its
\* receipts only when a cascade deletes a receipt by a batch or a plot that is
\* not the billing's: deletePrepaidBilling and deletePlot do not refresh the
\* billings the deleted receipts were moved to.  Every other handler refreshes
\* each billing whose receipts it touched.
OnlyCascadesDisagree ==
    [][\A b \in BillingId :
         /\ billing[b].state # "deleted" /\ billing'[b].state = "live"
         /\ ~billing[b].legacy
         /\ Agrees(b) /\ ~Agrees(b)'
         => \E y \in LivePayments :
              /\ payment[y].billing = b /\ payment'[y].state = "deleted"
              /\ \/ payment[y].batch # billing[b].batch
                 \/ payment[y].plot # billing[b].plot]_vars

\* Money moving in or out never undoes a decision of the office: a billing
\* written off stays so, and one marked overdue leaves that status only when
\* it is fully paid (#302).
ManualStatusStands ==
    [][\A b \in LiveBillings :
         /\ billing'[b].state = "live" /\ payment' # payment
         /\ billing[b].status \in ManualStatus
         /\ billing'[b].status # billing[b].status
         => /\ billing[b].status = "overdue"
            /\ FullyPaid(billing[b].amount, paid'[b])]_vars

\* The total migrated with a billing of the legacy system, which no Payment row
\* backs, stays what it was through every edit, as long as the billing has no
\* receipt of its own (#264).
MigratedTotalStands ==
    [][\A b \in LiveBillings :
         /\ billing[b].legacy /\ billing'[b].state = "live"
         /\ PaymentsOf(Tables, b) = {} /\ PaymentsOf(Tables, b)' = {}
         => paid'[b] = paid[b]]_vars

\* What the plot shows is what its billings say (#170).
PlotCurrent(p) ==
    /\ plot[p].status = DerivedStatus(Tables, p)
    /\ uncollected[p] = DerivedUncollected(Tables, p, plot[p].status)

\* The values of a plot stop being current only by an edit of the plot's own
\* status or by an edit of the category of one of its billings; no invoice,
\* receipt, batch or deletion leaves a plot behind.
OnlyEditsLeavePlotStale ==
    [][\A p \in LivePlots :
         plot'[p].live /\ PlotCurrent(p) /\ ~PlotCurrent(p)'
         => \/ \E b \in LiveBillings : /\ billing[b].plot = p
                                       /\ billing'[b].category # billing[b].category
            \/ /\ plot'[p].status # plot[p].status
               /\ UNCHANGED <<billing, paid, payment>>]_vars
=============================================================================
