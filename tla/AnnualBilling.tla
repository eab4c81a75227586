---------------------------- MODULE AnnualBilling ----------------------------
(***************************************************************************)
(* Which years of a plot's management fee have an invoice.  Two handlers   *)
(* write such invoices: the yearly generation, for every plot at once and  *)
(* in chunks, and the prepaid batch, several years of one plot.  Both read *)
(* the existing invoices first and insert later, in a transaction that     *)
(* does not read them again; a request is therefore a job with a state,    *)
(* and anything may happen while it is open.                               *)
(*                                                                         *)
(* Amounts and receipts are in Ledger.  Only live rows are kept: every     *)
(* query filters deleted ones out.                                         *)
(***************************************************************************)
EXTENDS Integers, FiniteSets, FiniteSetsExt

CONSTANTS
    Plot, Request,
    Year,          \* years in use
    Unknown,       \* a NULL year, of invoices migrated or typed in
    Setting,       \* the fee settings and statuses a plot may be given
    HandSpan,      \* <<from, to>> of invoices entered by hand or migrated
    MaxRows,       \* bound on live invoices
    MaxSpan,       \* bound on the years of a prepaid batch
    ChunkSize      \* plots per transaction of the generation

Month == 1 .. 12

\* status active, a readable amount, billing_month, billing_years > 1, and a
\* contractor or an applicant to bill
PlotRow == [live : BOOLEAN, active : BOOLEAN, amount : BOOLEAN, month : Month,
            prepaid : BOOLEAN, payer : BOOLEAN]

ASSUME AnnualAssumption ==
    /\ IsFiniteSet(Plot) /\ Year \subseteq Nat /\ IsFiniteSet(Year)
    /\ Unknown \notin Int
    /\ HandSpan \subseteq (Year \cup {Unknown}) \X (Year \cup {Unknown})
    /\ MaxRows \in Nat /\ MaxSpan \in Nat \ {0} /\ ChunkSize \in Nat \ {0}
    /\ Setting \subseteq PlotRow

VARIABLES
    plot,      \* settings of each contract plot
    rows,      \* live management_fee invoices
    job,       \* what each request has read and not yet written
    meanwhile  \* history: what others have done since an open request has read

vars == <<plot, rows, job, meanwhile>>

BillingRow == [copy : Nat, plot : Plot, from : Year \cup {Unknown},
               to : Year \cup {Unknown}, batch : Nat]

Idle == [kind |-> "idle"]
Job ==  {Idle}
   \cup [kind : {"generate"}, year : Year, month : Month \cup {Unknown},
         longer : BOOLEAN, pending : SUBSET Plot]
   \cup [kind : {"prepaid"}, plot : Plot, year : Year, years : 1 .. MaxSpan]

\* The invoices that came in, and the plots whose settings changed or that lost one.
NoNews == [came |-> {}, lost |-> {}]
News == [came : SUBSET BillingRow, lost : SUBSET Plot]

TypeOK ==
    /\ plot \in [Plot -> PlotRow]
    /\ rows \in SUBSET BillingRow
    /\ job \in [Request -> Job]
    /\ meanwhile \in [Request -> News]

-----------------------------------------------------------------------------
(* The pure functions on years *)

Of(p) == {b \in rows : b.plot = p}

\* An invoice without a last year is for its first year alone.
LastYear(b) == IF b.to = Unknown THEN b.from ELSE b.to

\* Coverage before #391: the same first year only.
CoversFirst(b, year) == b.from = year

Covers(b, year) ==
    b.from # Unknown /\ (b.from = year \/ (b.from <= year /\ year <= LastYear(b)))

existingBillingCoverage(B, year) ==
    IF \E b \in B : Covers(b, year) THEN "covered"
    ELSE IF \E b \in B : b.from = Unknown THEN "needs_review" ELSE "none"

BatchYears(year, years) == year .. year + years - 1

\* A prepaid batch that checks its first year only.
DuplicatedFirst(B, year, years) ==
    {y \in {year} : existingBillingCoverage(B, y) = "covered"}

findDuplicatedYears(B, year, years) ==
    {y \in BatchYears(year, years) : existingBillingCoverage(B, y) = "covered"}

-----------------------------------------------------------------------------
\* A new row; copy tells it from a live row with the same plot and years.
NewRow(p, from, to, batch) ==
    LET Copy(i) == [copy |-> i, plot |-> p, from |-> from, to |-> to, batch |-> batch]
    IN  Copy(Min({i \in 1 .. MaxRows + 1 : Copy(i) \notin rows}))

FreeBatch == Min((1 .. MaxRows + 1) \ {b.batch : b \in rows})

Init ==
    /\ plot \in [Plot -> Setting]
    /\ rows = {}
    /\ job = [r \in Request |-> Idle]
    /\ meanwhile = [r \in Request |-> NoNews]

(* The yearly generation *)

\* The plots it scans, by month if one is asked for, up to the coverage check.
Scanned(month) ==
    {p \in Plot : /\ plot[p].live /\ plot[p].active /\ plot[p].amount
                  /\ month \in {Unknown, plot[p].month}}

ToBill(year, month, longer) ==
    {p \in Scanned(month) :
        /\ existingBillingCoverage(Of(p), year) = "none"
        /\ ~plot[p].prepaid \/ longer
        /\ plot[p].payer}

\* The endpoint gives a month and never includes prepaid plots; the script may
\* leave the month out and may include them.  A dry run reads only.
StartGenerate(r, year, month, longer) ==
    /\ job[r] = Idle
    /\ job' = [job EXCEPT ![r] =
                 [kind |-> "generate", year |-> year, month |-> month,
                  longer |-> longer, pending |-> ToBill(year, month, longer)]]
    /\ UNCHANGED <<plot, rows>>

Chunk(pending) ==
    {C \in SUBSET pending : Cardinality(C) = Min({ChunkSize, Cardinality(pending)})}

\* A loop that stops after its first chunk.
PendingOnlyFirst(r, chunk) == {}

Pending(r, chunk) == job[r].pending \ chunk

\* One transaction: createMany for a chunk, in the order the plots were found,
\* and the refresh of each plot (Ledger!GenerateManagementFees).
SaveChunk(r) ==
    /\ job[r].kind = "generate" /\ job[r].pending # {}
    /\ \E chunk \in Chunk(job[r].pending) :
         /\ Cardinality(rows) + Cardinality(chunk) <= MaxRows
         /\ rows' = rows \cup {NewRow(p, job[r].year, job[r].year, 0) : p \in chunk}
         /\ job' = [job EXCEPT ![r].pending = Pending(r, chunk)]
    /\ UNCHANGED plot

Respond(r) ==
    /\ job[r].kind = "generate" /\ job[r].pending = {}
    /\ job' = [job EXCEPT ![r] = Idle]
    /\ UNCHANGED <<plot, rows>>

(* A prepaid batch *)

StartPrepaid(r, p, year, years) ==
    /\ job[r] = Idle
    /\ plot[p].live /\ plot[p].payer
    /\ findDuplicatedYears(Of(p), year, years) = {}
    /\ job' = [job EXCEPT ![r] =
                 [kind |-> "prepaid", plot |-> p, year |-> year, years |-> years]]
    /\ UNCHANGED <<plot, rows>>

CommitPrepaid(r) ==
    /\ job[r].kind = "prepaid"
    /\ Cardinality(rows) + job[r].years <= MaxRows
    /\ BatchYears(job[r].year, job[r].years) \subseteq Year
    /\ rows' = rows \cup {NewRow(job[r].plot, y, y, FreeBatch) :
                             y \in BatchYears(job[r].year, job[r].years)}
    /\ job' = [job EXCEPT ![r] = Idle]
    /\ UNCHANGED plot

\* The transaction in progress fails or the process dies: what it would have
\* written is lost, the chunks before it stay.
Fail(r) ==
    /\ job[r] # Idle
    /\ job' = [job EXCEPT ![r] = Idle]
    /\ UNCHANGED <<plot, rows>>

DeletePrepaid(batch) ==
    /\ batch # 0 /\ \E b \in rows : b.batch = batch
    /\ rows' = {b \in rows : b.batch # batch}
    /\ UNCHANGED <<plot, job>>

(* Invoices entered, corrected and deleted by hand.  A row of a batch can be
   deleted too, once its receipt is. *)

CreateBilling(p, span) ==
    /\ plot[p].live
    /\ Cardinality(rows) < MaxRows
    /\ rows' = rows \cup {NewRow(p, span[1], span[2], 0)}
    /\ UNCHANGED <<plot, job>>

UpdateBilling(b, span) ==
    /\ span # <<b.from, b.to>>
    /\ rows' = (rows \ {b}) \cup {NewRow(b.plot, span[1], span[2], b.batch)}
    /\ UNCHANGED <<plot, job>>

DeleteBilling(b) ==
    /\ rows' = rows \ {b}
    /\ UNCHANGED <<plot, job>>

\* Settings, payers and status change.
updatePlot(p, setting) ==
    /\ plot[p].live /\ setting.live
    /\ plot' = [plot EXCEPT ![p] = setting]
    /\ UNCHANGED <<rows, job>>

\* The invoices of the plot go with it.
deletePlot(p) ==
    /\ plot[p].live
    /\ plot' = [plot EXCEPT ![p].live = FALSE]
    /\ rows' = rows \ Of(p)
    /\ UNCHANGED job

-----------------------------------------------------------------------------
(* What an open request cannot know; its own steps are no news to it. *)

Changed == {p \in Plot : plot'[p] # plot[p]} \cup {b.plot : b \in rows \ rows'}

\* The plots a job has yet to write an invoice for.
Ahead(j) == IF j.kind = "generate" THEN j.pending ELSE {j.plot}

Noted(r) ==
    IF job'[r] = Idle THEN NoNews
    ELSE IF job'[r] # job[r]
    THEN [meanwhile[r] EXCEPT !.came = {b \in @ : b.plot \in Ahead(job'[r])}]
    ELSE [came |-> {b \in rows' : /\ b.plot \in Ahead(job[r])
                                  /\ b \in meanwhile[r].came \/ b \notin rows},
          lost |-> IF job[r].kind = "generate" THEN meanwhile[r].lost \cup Changed ELSE {}]

Handlers ==
    \/ \E r \in Request :
         \/ \E y \in Year, m \in Month \cup {Unknown}, longer \in BOOLEAN :
               /\ \E p \in Plot : m \in {Unknown, plot[p].month}
               /\ StartGenerate(r, y, m, longer)
         \/ SaveChunk(r) \/ Respond(r)
         \/ \E p \in Plot, y \in Year, n \in 1 .. MaxSpan : StartPrepaid(r, p, y, n)
         \/ CommitPrepaid(r) \/ Fail(r)
    \/ \E batch \in 1 .. MaxRows : DeletePrepaid(batch)
    \/ \E p \in Plot, span \in HandSpan : CreateBilling(p, span)
    \/ \E b \in rows, span \in HandSpan : UpdateBilling(b, span)
    \/ \E b \in rows : DeleteBilling(b)
    \/ \E p \in Plot : deletePlot(p) \/ \E s \in Setting : updatePlot(p, s)

Next == Handlers /\ meanwhile' = [r \in Request |-> Noted(r)]

Spec == Init /\ [][Next]_vars

-----------------------------------------------------------------------------
(* Properties *)

\* The years an invoice is for: its first in any case, as nothing keeps a last year
\* that is entered by hand from being earlier.
YearsOf(b) == IF b.from = Unknown THEN {} ELSE {b.from} \cup (b.from .. LastYear(b))

\* What the jobs of this kind insert covers no year of the plot twice: no live invoice
\* covers it, and no two of the inserted ones do, except one that came in after the job
\* had read.
InsertsFreeYears(kind) ==
    \A r \in Request : (job[r].kind = kind /\ job'[r] # job[r]) =>
        \A b \in rows' \ rows :
            ~ \E a \in rows' \ (meanwhile[r].came \cup {b}) :
                 a.plot = b.plot /\ b.from \in YearsOf(a)

\* The generation is idempotent: however it is repeated, after a failure in the middle,
\* a prepaid batch or migrated invoices over several years, and whatever runs beside it,
\* it never bills a plot for a year that was billed when it read
\* (managementFeeBillingService.ts, the header and 150-161).  What comes in while it is
\* open it does not see: that gap is all there is.
GenerateBillsOnce == [][InsertsFreeYears("generate")]_vars

\* A prepaid batch never contains a year that was billed when it was checked
\* (prepaidBillingController.ts, 150-162), nor a year twice.
PrepaidBillsOnce == [][InsertsFreeYears("prepaid")]_vars

\* When a generation ends, every plot it is about is billed for its year: it forgets none
\* because of the chunks, of a plot before it, of invoices of other years, or of another
\* request that bills the same plots.  Only an invoice without a year holds it back, and
\* only a plot that somebody changed meanwhile, or took an invoice from, may be missing.
NobodyForgotten ==
    \A r \in Request : (job[r].kind = "generate" /\ job[r].pending = {}) =>
        \A p \in Scanned(job[r].month) \ meanwhile[r].lost :
            (plot[p].payer /\ (job[r].longer \/ ~plot[p].prepaid)) =>
                \E b \in Of(p) : b.from = Unknown \/ job[r].year \in YearsOf(b)

\* Where nothing is entered by hand, two prepaid batches of a plot have no year
\* in common ("1 年でも重なるなら作らずに返す", not created if even one year
\* overlaps: prepaidBillingController.ts, 150).
BatchesDisjoint ==
    \A a, b \in rows : (a.plot = b.plot /\ a.batch # 0 /\ b.batch # 0 /\ b.from \in YearsOf(a))
                            => a.batch = b.batch
=============================================================================
