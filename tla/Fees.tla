---------------------------------- MODULE Fees ----------------------------------
(* The two ways the yearly fees are collected: AnnualBilling, which years have an
   invoice, and YuchoImport, the debit of one year's invoices.  They are modelled
   on tables of their own; this module holds them side by side. *)
EXTENDS AnnualBilling

\* The direct debit: what YuchoImport declares.  Its plots and its requests are others.
CONSTANTS DebitPlot, Customer, Null, Account, Fee, Bill, BillPlot, BillAmount, Applier,
          APPLY_CHUNK_SIZE, MaxApplies
VARIABLES payer, active, bill, file, answered, run, applies, credited, debited,
          changed, overlapped, raced

Debit == INSTANCE YuchoImport WITH Plot <- DebitPlot, Request <- Applier

\* The debit: however often a file is applied, it takes no invoice beyond its amount;
NeverBeyond == Debit!NeverBeyond
\* a line with a code goes to the plot it was sent for;
OwnPlot == Debit!OwnPlot
\* but a line may be recorded twice.
RecordedOnce == Debit!RecordedOnce
=============================================================================
