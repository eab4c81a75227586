# Verification project of komine-crm-backend

The repository is the backend of a cemetery's customer system: an Express server over one PostgreSQL
database (through Prisma), the authentication service of Supabase, and a headless browser that draws PDFs.
It keeps the land and the contracts on it, the customers and their records, invoices and receipts, the annual
management fee and its direct debit, collective burials, documents, code tables and the staff. A script moves
the data of the former system in. This directory holds TLA+ models of it, TLC runs on small instances, and
theorems that TLAPS has checked.

Contents: 1 the system, 2 what is modelled where, 3 the runs, 4 the proofs, 5 where code and comments
disagree, 6 what is left out, 7 the plan.

## 1. The system

The server keeps almost no state between requests: the slots of the browser pool are the exception.
Everything that lasts is in the database, in the upload directory or at the authentication service, so the
"processes" of the system are requests, and what one request can do to another is decided by how its
statements are grouped into transactions. Six patterns occur:

| pattern | where | what it leaves open |
|---|---|---|
| one Serializable transaction | plots, contracts, customers, history, counter, masters, guarded staff writes | a refusal (409), after which the caller repeats; and what was read before the transaction (`deletePlot`) |
| check first, then a Read Committed transaction | invoices, receipts, prepaid batches | what others commit between check and write, and between two statements |
| scan first, then many transactions | annual generation, direct debit | the same, for minutes; a part of the work is done when it fails |
| statement by statement without a transaction | collective-burial settings and batches, documents, the migration | everything between two statements, and a stop there |
| calls to another service around a write | staff, uploads | no transaction spans the two; compensations that may fail |
| code between two awaits of the one JavaScript thread | the browser pool | only the order of continuations |

### Components

| component | state | operations | interacts with | what makes it correct |
|---|---|---|---|---|
| Invoices | `Billing`: amount, status, `paid_amount`, promise, termination | create, update, delete | receipts (total), plot (derived values) | totals agree with receipts; the office's decisions stand; promises end with the debt |
| Receipts | `Payment` | create, update (may move to another invoice), delete | refresh both invoices, then their plots | no receipt lost from or left in a total |
| Counter | none of its own | `settleRemaining` | a receipt, the invoice, the plot | never collects more than is owed, also at two desks |
| Derived plot state | `ContractPlot.payment_status`, `uncollected_amount` | refresh; the plot form edits the status | called by every handler above and below | says what the plot's invoices say |
| Annual fee | none of its own | preview, generate for a year (and month) | inserts invoices, refreshes plots | idempotent; forgets nobody |
| Prepaid batches | `prepaid_batch_id` on invoices and receipts | preview, create, delete | inserts and deletes both | no year billed twice |
| Direct debit | none of its own | file out, answer in, plan, apply in parts | receipts and invoices | a debit goes to its plot, and never beyond the invoice |
| Physical plots | `PhysicalPlot`: area, sales status | register one or a range, resize or restate by a plot update | contracts take area | status follows the area taken |
| Contracts | `ContractPlot`: area, contract status | sell, resize, delete, terminate, restore | land, invoices, customers | land is not sold twice; a restored contract still fits |
| Inventory reports | none | eight screens and forms | read land and contracts | they count the same plots; what is offered can be sold |
| Contractors | `SaleContractRole`, `Customer`, a kana snapshot on contracts | register, change of contractor, edits, deletion | customers are shared between contracts | the snapshot follows the contractor; nobody ended or deleted is party to a contract |
| Records below a plot, history | fees, gravestone, family, buried persons, construction; `History` | sections of the plot form, cascade of deletion | written in one transaction | the history told is what the rows were; nothing outlives its plot |
| Collective burials | `CollectiveBurial`, one setting | plot form, its own screen, recount, settings change, import, backfill, enrolment, release, invoice batch | buried persons, termination of contracts | dates set by hand or billed stand; recounts settle |
| Documents | rows, uploaded files, slots of the browser pool | create, update, delete, upload, issue | rendering | the file of a row is there; what was issued can be issued again; nobody waits for ever |
| Masters | code tables | create, update, delete, lists | every record that stores a code | no code in use loses its name |
| Staff | `Staff` row and an account | create, update, toggle, delete, resend, profile | authentication service | an administrator remains; rows and accounts belong together |
| Migration | maps of ids in the script's memory | fourteen steps, resumed or picked, with or without truncation | every table | a legacy row becomes one row; links are complete |

`PROJECT.json` lists all components with their sources, and under `hazards` every place where this code is
hard to test.

## 2. What is modelled where

| module | models | its state | one action is |
|---|---|---|---|
| `Ledger` | invoices, receipts, totals, derived plot values, batches, the plot deletion as far as money goes | the three tables and the cached columns | one handler up to its commit, with every refresh it makes |
| `LedgerRace` | the receipt handlers and the counter side by side | committed tables, and per request its local variables, its own writes and its snapshot | one SQL statement |
| `Counter` | what the counter promises | total, receipts and the plot's amount | one collection |
| `AnnualBilling` | years and invoices: generation, batches, entries by hand | settings, live invoices, and what each request has read | the scan, one chunk, the answer, a commit |
| `YuchoImport` | the debit of one year's invoices | payers, contracts, invoices, the file and its answers, running applications | the file, the answer, a plan, one row of a chunk, one commit |
| `PlotInventory` | land and contracts | the two tables | one Serializable transaction |
| `InventoryReports` | what the inventory screens count | that of `PlotInventory` | - (reads) |
| `Contractors` | customers, roles, the kana snapshot | the three tables; what a deletion has read | one transaction; `deletePlot`'s read is a step of its own |
| `ContractRecords` | records below a plot and their history | rows; what the history tells of each; what a deletion has read | the same |
| `CollectiveBurials` | the collective burial of a plot and the runs over many | contract, people, row, setting, date of the day, runs under way | one request of a screen; one row of a run |
| `PdfPool` | the browser slots | the counter, the queue, continuations due | the code between two awaits |
| `Documents` | rows, files, uploads and issues; uses `PdfPool` | rows, files, requests under way | the code between two awaits |
| `Masters` | one code table and who stores its codes | masters, references, the open form | one request |
| `StaffAdmin` | staff rows and accounts | both, and per request its local variables | one access to the database or to the service |
| `LegacyMigration` | the driver and its steps | the new database, maps of ids, what a step has left | one statement |
| `Sums`, `Rows` | sums over finite sets, and some of the rows of a list, without recursion | - | - |
| `Fees`, `Services`, `Burials` | components side by side: `AnnualBilling` with the debit; `Documents` with records, masters and migration; the collective burial with the names of its constants | theirs | theirs |
| `DataFacts`, `LedgerProofs`, `RaceProofs`, `PlotProofs`, `ContractorsProofs`, `FeesProofs`, `StaffProofs`, `ServicesProofs` | section 4 | - | - |

The `MC` modules give these constants. `MCLedger`, `MCReceipts`, `MCFees`, `MCPlots` and `MCServices` put
several instances in one run: parts that share no table, chosen by the variable `part` at the start and constant
where it is not theirs, so that a behaviour is a behaviour of one part. That is a way to run them, not a claim
about how they interact. `Fees`, `Services` and `Burials` declare the constants and variables of the components
they hold and instantiate them, once for both tools: TLC checks and TLAPS proves the same definitions.
Where components do interact, one module holds both sides: `Documents` instantiates
`PdfPool`, `LedgerRace` the counter with everything that writes receipts, `InventoryReports` extends
`PlotInventory`, `YuchoImport` has the counter and the changes of payers next to the applications,
`CollectiveBurials` has termination and deletion of its plots.

`Ledger` is the core. A handler is written as a function from database to database, in the order of the
code: the row it writes, `RecalculateBillingPayments` for each invoice it touches (`billingService.ts`,
57-111), `RecalculatePlots` for each plot (`paymentStatusService.ts`, 18-45), then `Commit`. Amounts are
whole numbers, as in the schema. Dates are reduced to whether one is set, which is all
`computeBillingStatus` asks; that one date gives way to another, which makes `updateBilling` refresh the totals
although nothing else changed, is an alternative of the edit (`OtherDate`). A row is `none`, `live` or `deleted`; ids are never used again. Rows of the
legacy system start with a total no receipt backs, as step 10 of the migration leaves them.

`LedgerRace` takes `recalculateBillingPayments` and `recalculateContractPlotPaymentStatus` apart into
their reads and writes. PostgreSQL is modelled by what the code relies on: a statement of a Read Committed
transaction sees what is committed when it starts, a Serializable transaction sees its snapshot and is
refused if it writes the total or the plot row that another committed since, a written row stays locked until
the end of the transaction, a cycle of waiting is broken by failing one request. That is what snapshot
isolation gives. PostgreSQL refuses more, on what a transaction only read; the model does not use that, so the
behaviours it has include those of the database, and what holds in it holds without. Statements of one
transaction run in the code's order; any request may die between two.

`AnnualBilling` keeps the years of invoices and forgets amounts. `Covers` and `findDuplicatedYears` are two
different functions of the code that must agree on what a covered year is. A generation reads every plot at
`StartGenerate` and inserts later, `ChunkSize` plots at a time, without looking again; any other request may
run in between. The history variable `meanwhile` keeps, for each open request, the invoices that came in since
it read and the plots that were changed or lost one: what the request cannot know, and so what the properties
except, invoice by invoice. `YuchoImport` follows a file from its lines (with a code, or found by
account and fee) through the answer to the plan and its chunks. A plot may have several invoices for the year,
which the code keeps in the order of their creation (`findYearBillings`) and of which a plan takes the first
that can still be collected (`Chosen`). Its history variables count what was recorded, for a line (`credited`) and
on an invoice (`debited`), and say what the properties must except: payers that changed after the file went
out, two applications at once, and a payment at the counter while a chunk was open.

`PlotInventory` has three definitions of which contracts take area, as the code does: `Active` in
`validateContractArea` and in the derived status, and all live contracts in `OtherContracts` of
`updatePlot`. An update compares with the plot as it was before the same request resized it. Areas are
whole units here; the code adds decimals as floating-point numbers (section 6). `InventoryReports` has one
operator per service, each with the grouping of its own: by period through the section masters, by section,
by period, area and kind, by row of the monthly form (names, or areas of one name), and the two lists of
vacant plots. A share of a plot is counted in `Parts`, so that the rounding is the code's.

`Contractors` keeps the roles of a plot in the order the code sorts them, because the first contractor is the
one whose kana is copied. `createPlotContract` does not check whether its customers may be party to a
contract; `unchecked` remembers its plots. `ContractRecords` stands for eight tables with five kinds: a plot
has at most one row of a `Single` kind (`fee` for usage and management fee, `gravestone`) and several of a
`Listed` kind, and the operators `AfterSingle`, `ToldSingle`, `AddedSingle` (and `...Listed`) each stand for
the same part of every like section of `updatePlot`. `told` is the history as one would read it back.

`CollectiveBurials` counts time in steps of three per year: an ordinary day and the two days on which
contracts can be released. Settings change, release and batch read a list and then go row by row; they may
stop anywhere.

`PdfPool` and `Documents`: the server has one thread, so a step is the code between two awaits, and the
continuation of a promise that was resolved runs before the next event is taken. Hence no request arrives
and no browser finishes while `woken` is not empty; that is what keeps a slot from being given twice.

`Masters` follows one type of code at a time: one stored as text and searched for, one stored as a number,
and one whose users are not searched for.

`StaffAdmin` gives each request its read, its checks, its call, its write and its compensation. A call may
fail without effect, a write may be refused or lost, a compensation may fail, a process may die between
any two. The history variables `slipped` (an unguarded write took an administrator away), `broken`
(accounts that a failed compensation, a dead process, a refused deletion or an overlapping invitation left
half changed) and `crossed` (members about whom two requests overlapped) are written by the steps that cause
them and no guard reads them.

`LegacyMigration` names a new row after its table and legacy key and the times the database was emptied
before, which makes "nothing twice" a statement about rows. A clerk has no legacy key: the code looks clerks
up by email, and two with one address share a row (`EmailOf`). Memory is lost when a run stops; a full run fills
the maps again, a run of picked steps reads them back. The state of payment is written plot by plot and the history row by
row, where the code sends chunks of up to 1000 in one statement: the model can stop in more places than the code.

Definitions under a comment "Variant" or "Mistake" are wrong versions of the definition they precede. No
action uses them; they record which error each property would reveal.

## 3. The runs

`EveryoneServed` is the one liveness property, and `Documents` the one module with fairness. It is justified
there: the event loop goes on, and every step of a browser has a time limit (`documentService.ts`), so a
drawing that has begun ends, with a result or an error. Elsewhere the system has no scheduler and no
background job in `src/`: a request that fails is not repeated unless somebody repeats it, so no liveness
could be justified. Deadlock is not checked because the tables are bounded: when every id has been used and
every row deleted, nothing can happen, which the real system does not meet. Blocking on row locks, which it
does meet, is in `LedgerRace` together with the way PostgreSQL ends it; waiting for a browser is what
`EveryoneServed` is about.

| run | bounds | checks |
|---|---|---|
| `ledger` | links: 2 plots, 2 invoices, 2 receipts, 1 batch, amount 1; office: 1 plot, a legacy invoice and an ordinary one, 1 receipt, 2 categories, amounts 1 and 2, statuses overdue, written off and refunded | in links and office: totals cover receipts, deleted plots owe nothing; in links only cascades part a total from its receipts; in the office termination shows, promises, manual statuses, legacy totals, staleness of the plot |
| `plots` | inventory: 2 plots, 4 contracts, areas 1 to 3, one migrated plot, 5 section names; burials: 1 plot, 2 people, 1 run, an ordinary and a late day, years 1 and 2 | the screens agree; what is vacant can be sold; area newly taken was free; the status follows; chosen dates stand; a second recount changes nothing |
| `receipts` | 3 requests at the counter, 2 invoices, amounts 1 and 2; 2 requests of any receipt handler, one receipt present | every interleaving implements `Counter`; what the counter commits fits in what is left |
| `staff_office` | 2 requests of any handler, 2 rows, 3 accounts, 2 emails | an administrator remains; no account without a row; between requests the emails agree in both systems |
| `fees` | office: 2 plots, 2 years, 2 invoices, one request at a time, chunks of one plot, batches of up to 2 years, spans by hand, 5 settings; rush: 1 plot, 3 invoices, 2 requests at once, and the plot deleted; debit: a file for 2 plots of one fee and 2 payers, 2 invoices, on one plot or on both, 2 applications | neither handler bills a year that was billed when it read; nobody forgotten; debits stay within an invoice and on their plots |
| `contractors` | 3 customers, one migrated, 2 plots, 2 names, 1 deletion under way | the snapshot is fresh; parties may be parties; no party is deleted |
| `services` | 2 plots, 3 records, 2 deletions; 1 document, 2 requests, 3 files, 1 browser; 3 masters of 3 types, 5 records; 2 plots, 2 customers and 2 clerks with one email of the former system, an invoice without a date, 3 runs, 1 truncation | 12 properties of `ContractRecords`, `Documents`, `Masters` and `LegacyMigration` |
| `race_lost_update` | 2 creations for one invoice | violated: the total is the sum of the receipts |
| `staff_last_admin` | 2 requests, 2 rows | violated: an administrator always remains |
| `annual_prepaid_twice` | 2 plots, no entries by hand, 2 requests at the same time | violated: batches share no year |
| `debit_recorded_twice` | as the debit of `fees` | violated: a line is recorded once |
| `periods_dropped` | as `plots`, a fifth period in a section master | violated: the lines by period add up to the summary |

A passing run takes between one and a little over three minutes with two workers.

Why the bounds are enough. The interesting cases of the ledger need two invoices between which a receipt
moves, two plots for a receipt whose plot is not its invoice's, and two receipts so that one stays when the
other goes; amount 1 suffices where only links matter, and the office part of `ledger` adds amounts for part payment,
full payment and overpayment. The lost update and every write skew of these handlers need two
transactions; the counter has a third so that a sum over two invoices meets two others. Staff needs two
administrators and two requests; three accounts leave one to be orphaned. A year is covered by an invoice
before, of or after it, so two years and spans of up to two show each case; chunks of one plot show two
chunks. Two requests can only miss each other's invoices on one plot, which is why the part of `fees` with two
at once has one plot that is billed. Two debit lines with one account and one fee are the case the import has to tell apart, and two
applications let one repeat or overtake the other. Three areas and four contracts allow sold, terminated,
resold and restored in one plot; size 3 and the statuses set by hand make rows that no sale leaves, and with
two plots every pair of periods, rows and sections of the reports occurs. Two plots with three customers let a
customer be shared, renamed through either plot and taken away by the deletion of one. Three records are two
at a time and one in the place of a deleted one. One document with two requests has each pair of requests on
a row; three keys let both of them replace a file. One browser and two requests make a queue; the proof of
section 4 is for any number. Two people fill a capacity of two, one of them buried last. The legacy tables
hold a plot with everything and one whose contract had ended, an applicant of another name, receipts with
and without an invoice; three runs are stopped, stopped again and whole. Rows are interchangeable where no
constant tells them apart; there the runs use symmetry, except `services`, whose liveness property forbids it.
State constraints: in the inventory of `plots` updates enlarge one of the two plots; in its burials a row is
created on the ordinary day and while no run is under way, a paid row is followed no further, and the yearly day
moves once, before the late day; in `services` the plots of `ContractRecords` are registered in one order.

What is excepted in the properties, and why: `PartiesAssignable` the plots of `createPlotContract`, which
looks at no customer; `HistoryTells` the records of the same handler, which writes no history, and the fields
of a buried person a form may leave out (section 5); `GenerateBillsOnce` and
`PrepaidBillsOnce` the invoices that came in after the request had read, `NobodyForgotten` the plots that were
changed or lost an invoice since; `OwnPlot` files whose payers changed on the way; `NeverBeyond` two
applications at once and, for what is paid in all, receipts written at the counter inside a chunk; `LinksComplete` databases to
which steps were applied in parts; `Finished`, for what is created after another row of the same legacy row,
runs that stopped; the second half of `VacantIsForSale` plots whose status was set by hand or whose size
changed. Each of these exceptions is a behaviour of the code and listed in section 5.

## 4. The proofs

TLAPS has checked every step of the following; each holds for any number of rows, requests and amounts,
under the named assumptions of the module, which TLC evaluates in the runs.

`LedgerProofs`. The invariant `Good(d, B)` is stated of a database `d`, so that a handler can be followed
statement by statement, and leaves out of two of its parts the invoices `B` whose refresh is still to come:
`Backed` (a live invoice is on a live plot), `Bare` (an id not yet used has neither receipts nor a total),
`Shown` (termination shows) and `Covered` (totals cover receipts). `Bare` is what makes it inductive: a new
invoice must not find receipts that wait for its id. A lemma says what a refresh of one invoice does to
`Good(d, B)`: it takes the invoice out of `B`. Each handler then goes from `Good(Tables, {})` through
`Good(d, B)` back to `Good(d, {})`. From it follow `TypeCorrect`, `TotalsCover`, `DeletedPlotsAreClear`,
`TerminationShows`. `CascadesOnly` is an action property: under the same invariant, every step but the two
cascades keeps the total of each ordinary invoice equal to the sum of its receipts.

The other action properties of the ledger say what a step leaves standing, and share one lemma per handler
(`StepKeeps`, for every invoice and every plot). Under `Good`, a refresh either leaves an invoice alone or
makes it anew (`Refreshed`, `Anew`): no promise that is kept, the status that follows from the row and the
total, a migrated total only without receipts. The values of a plot depend on its invoices and totals and on
nothing else (`SameFor`), and a refresh of plots makes them current whatever they were (`PlotsCurrent`, which
needs that deriving the status twice is deriving it once). `StatusByHandStands`, `MigratedTotals` and
`OnlyEditsStale` follow, the last with the two edits that a refresh does not come after. `PromisesEnd` is an
invariant of its own next to `Good` (`PromiseDue`): the counter makes a promise after it has refreshed, so it
needs `Covered` to know that what it has received leaves something.

`RaceProofs` is about statements that interleave. Its first invariant (`IInv`) holds next to any handler. It
says what a request of the counter relies on: a row of an invoice that it has written and that no other
request has committed since its snapshot (`Exclusive`), and the total and the receipts it is collecting by
(`CountersHold`). `NeverMoreThanIsLeft` follows. The second (`SInv`) is for the case that only the counter
collects, from no receipts on. There the committed tables are as collecting one after the other leaves them
(`Sound`), no two open requests have written the same row (`Apart`), and what a request that can still commit
has read is what is committed (`AllSerial`). Then a commit is one step of `Counter` and every other step, also
a crash, a refusal and the end of a deadlock, leaves what `Counter` sees as it is: the refinement
`CounterKeepsPromise`, of which `receipts` checks an instance with three requests. A sum over the receipts of
one invoice gains the receipt (`SumInsert` of `DataFacts`), the sum of the totals with it (`SumSplit`). `CounterKeepsTotals`
comes with it: at the counter the totals are those of the receipts, which `race_lost_update` shows to be
false of the other handlers.

`FeesProofs`, first about `AnnualBilling`, with any number of requests that interleave as they like. The
invariant `KnowsWhatItRead` says what an open request may still rely on: a year of a plot that a generation has
yet to bill, or of an open batch, is covered by no invoice but those that came in meanwhile (`FreeBut`), and every
other plot a generation is about is billed, unless it was changed or lost an invoice meanwhile. A step of the
request itself and a step of anybody else are two lemmas (`OthersKnow` is the frame). It gives
`GenerationBillsOnce`, `BatchBillsOnce` and `EveryDuePlotIsBilled`, the last for any size of chunk, without any
assumption about what overlaps: an invoice that came in after the read is the only one a request bills beside.
They hold for any entry by hand, also one whose last year is before its first, which the run does not enter.
That the batches of a plot share no year does not follow, and is false (`annual_prepaid_twice`).

Then about the debit of one year's invoices (`YuchoImport`), for any number of plots, customers, invoices of a plot
and requests to apply: screens, the counter and the requests interleave as they like. The invariant
`DebitInv` joins what is so of the file (each plot is on one line; while payers and contracts stand, its codes
tell the plots apart), of a request (it has a plot at most once among its rows and has written rows it has come
to), and two parts that carry the properties. `RoomHolds`: what is written and not yet committed still fits
the invoice, beside the debits recorded before it in any case, and beside all that is paid unless the counter took
money for that invoice meanwhile; it gives `DebitsNeverBeyond`. `PlansAgree`: while nothing changes, all plans give a
line the same plot, whichever of its invoices they take, which `DebitsOwnPlot` needs together with the codes.
`DebitAssumption` says that there are finitely many numbered plots with a fee each, and invoices with a plot and an
amount each. That a line is recorded once is false (`debit_recorded_twice`).

`PlotProofs`. `IInv` is types, `Placed` (a contract that was made is on a registered plot) and
`Unregistered` (a plot not registered has no area taken). One lemma per handler shows that its step is
safe for each plot: it grows within what was there, the status follows, and the area available is not
exceeded where the plot is not resized. `Growth` and `StatusFollows` are the action properties of the run.
`VacantPlotsCanBeSold` is about the reports. It needs `Measured` (a registered plot has an area: a plot of
none would be sold out and on no list), what the list, the plot's own screen and its status say of one plot,
and that the sum of areas splits into used and vacant.
`OversoldByResizeOnly` says how a plot comes to be sold beyond its area, with updates of every kind: plots start
unsold beyond it, and the one step that does it is an update that makes the physical plot itself smaller (section 5).

`ScreensCountTheSame` proves `ScreensAgree` for every inventory: all the screens that list plots count the same
plots, and what they report as used differs from the summary by no more than the rounding of their lines. Each
screen groups in its own way, so the proof has one lemma per screen that its groups are disjoint and together
hold the plots it counts (`PartsCount` and `PartsSum` of `DataFacts` turn that into numbers), and one about
rounding: a rounded part is within half a plot of the part (`SumsApart` adds that up over the lines).
`ReportsAssumption` says of the code's tables what this needs: the blocks of the monthly form share no row, and
a name or an area that has a row has it in a block.

The same module proves both properties of `CollectiveBurials` that its run checks. `RecountsSettle`: in every
state a row can get into, a second recount takes back nothing of the first. `OfficeDatesStand`: no screen of the
plot and no recount moves a date that was set by hand, and nothing that follows the burials moves the date of a billed row. Their
invariant (`GravesInv`) is little more than the shape of the rows, with one fact that matters: a plot that was
never created has no live row, no date of the office's and no row in the making (`Untouched`).

`ContractorsProofs`. As in the ledger, the invariant is stated of a database, so that a handler can be
followed through its sections: `Sound` joins types, names that are fresh but for the plots still to be
refreshed (`FreshBut`), parties that may be parties (`Clean`) and parties that exist (`Known`, which makes
it inductive: a customer that is created must not be party to anything yet). A lemma says what each refresh
of a name does; a deletion is followed from whatever it has read to whatever it commits on. They give
`NamesAreFresh`, `OnlyAssignableParties` and the action property `NoPartyIsDeleted`.

`StaffProofs`. `GuardKeepsAnAdmin` needs to know what a guarded transaction knows: while it is not
overtaken, the administrators of its snapshot are still there (`SnapshotHolds`), so those it leaves over
remain after it. `InPlace` says which handlers reach which step. `StaffTypes` comes with it.
`AccountsHaveARow` needs another invariant: whose account each request holds, and that what it read of its row
is what the row still says unless another request has replaced it. Its proof did not go through as the
property first stood: two resends of one invitation that overlap, with an update of the email between them,
leave an account that neither of them failed to delete. TLC finds that behaviour on three emails, more
than the run has. It is real (`staffController.ts`, 715-813) and now excepted (section 5).
`SystemsAgree` proves `EmailsAgree` while any number of requests interleave. The code does not keep the emails
of a member together when two requests about that member overlap (`staffController.ts`, 476), so such members
are excepted (`crossed`), and nothing else is but what a failure left behind: requests about other members,
which compete for the same addresses, may do as they like. `EInv` is the invariant: rows share no account
(`RowsApart`); the account of the row that a request read is that row's still, and that of an invitation
nobody else's (`Owns`); the row is as it was read (`RowAsRead`); before its write a request has given the
account the email it will write (`AccountReady`); a member agrees or has a request that has changed the account
and not yet the row (`Settled`). `EmailsStay` is the frame: what a step of one request leaves of all this to
the others. TLC checked `EInv` on the instance of the run first.

`ServicesProofs` is about the parts that share no table with the others, which it instantiates next to each
other. The pool of the documents comes first. `Slots` says that
no more requests are in a browser than the counter says, that the counter and the slot that is being passed on
stay within the limit together, and that at most one is being passed on; each of the pool's steps keeps it,
for any limit. It gives `NoMoreBrowsers`. For rows and files, `Sound`
joins the types, `Printable` (a row that was issued parses, and so does what a drawing under way will store)
and `Filed` (the key of a row is a file, keys that uploads hold are of no row, and no two uploads hold one).
`Filed` is the strengthening: that no request removes the file of a row rests on whose keys are whose. One
lemma per step of a request and one for the restart give `FilesAlwaysKept` and `AlwaysRegenerable`.
`DocumentsAssumption` (finitely many requests, a limit in the natural numbers) is the hypothesis of each
theorem; TLC evaluates it for `MCServices`.

Of the records below a plot, `HistoryAlwaysTells`, `NothingOutlivesItsPlot` and `OwnRecordsOnly` hold for any
number of plots, values, forms and overlapping deletions. The first two are inductive together with the types
and one fact about deletions: the fees a deletion has read are rows of its plot. The sections of `updatePlot`
are followed one after another: each adds records that are fresh and of its plot, or changes records of its
plot and tells so (`KeptBy`, `Tells`), and the lemmas for a `Single` and a `Listed` section serve all of them.

Of the masters, `NamesStay`: no maintenance of a table whose use is counted takes the name from a record that has
one. It needs that ids are given once (`MastersHold`), and `UsedByNobody`, that a count of zero means that no
record stores the code, also where codes are stored as numbers.

Of the migration, `TakenOverOnce` and `TerminatedGetNothing` hold for any former system (`MigrationAssumption`: legacy
keys are keys, a plot has each kind of part at most once, a contract has one applicant), any runs and a stop at
any statement. The last of these is the premise step 6 states for its own guard (`06-sale-contract-role.ts`, 165);
where two customers of one contract each have an applicant, the guard leaves the second out.
Nothing in the database forbids a second
row; that there is none follows from what each row was created after, which is the invariant. `Rooted` says it of
a row: parts follow a contract, a workplace its customer, a role the plot and the customer of one legacy row.
`OwedHolds` says of the rows that a statement still owes that nobody has their keys; a part is owed only when its
contract is new, so a part that existed would have had a contract. For roles, which are looked up by plot and
customer and not by key, `RoleOf` shows that the two lookups find the same. `MapsHold` (the ids in memory are those
of rows, and of no customer whose contract had ended) carries `TerminatedGetNothing` through runs of single
steps, which read their maps back.

`LinksStayComplete` and `EverythingTakenOver` are about runs of all the steps. Their invariant says how far such a
run has come: the steps that are left are `Rest(k)` for one k, and of every legacy row that an earlier step has read,
or this one has already come to, what is to become of it is there or owed (`Came`, `Progress`). A row is linked to
everything that is ever to be taken over (`Expected`), which is more than the property asks, and what makes it
inductive: a row made in a run that stopped cannot miss one that a later run makes. `OnPlot` says that an invoice
refers to its own plot. When the run ends, `Rest` is empty and `Progress` is what `Finished` asks of the rows. The
rest of `Finished` is `DoneInv`: from step 6 on the names are copied, in step 12 every plot that has invoices is
still to come or has the state its invoices give (no invoice and no contract is new by then, `Plenty`), and as long as
no run has stopped, what belongs to a contract or a customer is there or owed and a sold plot is marked or in `sold`. A run that
comes after a finished one takes nothing back (`FinishedStays`). TLC checked both invariants on the instance of
the run before they were proved. A crash makes an exception only of what follows another row, as in the
property.

`DataFacts` proves what the others need of sums and lists. Of sums: that they are natural numbers, monotony,
the sums of nothing and of one element, what inserting an element adds, that terms of zero may be left out,
that the sum of sums is the sum term by term, that a set counted or summed by disjoint parts is counted
completely, and how far two sums can be apart whose terms are each a little apart. `Sums` defines a sum without recursion, as the number of units of a function (pairs of an element
and a number up to its value), because nothing could be proved by induction about a recursive one; `MCLedger`
has TLC compare it with the fold of the community modules. Of lists: `Picked` of `Rows` keeps the rows at
given indexes in their order, each of them and nothing else (`PickedRows`); it stands for filters and ordered
queries, for the same reason without `SelectSeq`.

Only model-checked: of the properties of the runs, `EveryoneServed`, because the prover has no ENABLED and so no fairness; and what the runs
expect to be violated. The prover does no induction over data either, which is why sums are defined as they
are. The `TypeOK` of the modules whose proofs have types of their own is stated for readers; it holds in the instances of
the runs.

## 5. Where the code and its comments disagree

Five runs show a statement of a comment or a test violated by what the code does (`findings` in `PROJECT.json`
quotes them):

- two receipts for one invoice at the same time: the later total overwrites the earlier (`race_lost_update`);
- a staff write chosen unguarded on a row read too early takes the last administrator (`staff_last_admin`);
- two prepaid batches registered at the same time share a year (`annual_prepaid_twice`);
- a plot with two invoices for the year gets one line of the bank's answer recorded on both, when it is applied
  twice (`debit_recorded_twice`);
- a plot whose section master names a period the code does not list is in no line by period
  (`periods_dropped`).

The models reach more of the same kind. They are not runs of their own.

Invoices, receipts and fees:

- an invoice edited from one category to another moves in or out of the management-fee total, and
  `updateBilling` (`billingController.ts`, 377-388) does not refresh the plot for it; `OnlyEditsLeavePlotStale`
  names this exception;
- `updatePayment` with a plot and no invoice writes another plot into a receipt that stays linked
  (`paymentController.ts`, 334), against the invariant claimed at 281 (#213);
- `deletePrepaidBilling` deletes receipts that were moved to other invoices and refreshes only plots
  (`prepaidBillingController.ts`, 258); `OnlyCascadesDisagree` names it;
- on a legacy invoice the guard that preserves the migrated total cannot tell "no receipt yet" from "none any
  more" (`billingService.ts`, 77): the amount of a deleted last receipt stays in the total;
- two refreshes of one plot by different invoices overwrite each other (`paymentStatusService.ts`, 28);
- two generations at the same time bill a plot twice (`managementFeeBillingService.ts`, 151-245), which line 7
  calls idempotent: the second does not see what came in after it had read, which is all that
  `GenerateBillsOnce` excepts;
- termination leaves the invoices of the contract open (`terminateContract.ts` touches none);
- applications of a debit file that overlap credit a line twice, against the header of
  `yuchoResultImport.ts`; a debit of less than half an invoice is recorded again; a line without a code takes a
  paid plot of the same account, and after a change of payer the account may belong to another plot.

Land and its reports:

- `updatePlot` writes a new physical area without looking at the contracts on it (`updatePlot.ts`, 145), while
  sale and restoration do; the contracts then need not fit in the plot, and nothing else brings that about
  (`OversoldByResizeOnly`);
- a resized plot keeps its old status. The vacant list goes by areas, the purchase of several plots by the
  stored status (`createAdditionalPlots.ts`, 61), the summary by the status: after either edit they differ;
- `updatePlot` counts terminated contracts against a contract that grows (`updatePlot.ts`, 131-142); a sale
  does not (`utils.ts`, 65);
- lines and summary agree on plots, but each rounds what is used for itself, so that the used plots of the
  lines, also of the monthly report, need not add up to the summary's; `AddsUp` bounds the difference;
- pages of the section, area and vacant lists are cut from a fresh sort of an unordered query, so rows that
  compare equal may appear on two pages or on none.

Contracts and their records:

- `createPlotContract` checks no customer (128-139) and writes no history;
- `changeContractor` writes no history of the roles;
- the additional plots of a combined purchase go to the new customer also when the first plot's contractor is
  an existing one;
- `deletePlot` deletes the work information of a customer before it asks whether another contract needs him
  (118-135); fees created between its read and its transaction outlive the plot; two overlapping deletions
  write the history of fees and customers twice;
- saving buried persons writes a change into the history whatever changed (`updatePlot.ts`, 1357-1395, unlike
  1324-1343).

Collective burials:

- rows made by the endpoint or the import leave `contract_plots.burial_capacity` empty, and later burials
  through the plot form do not recount them; a row revived by the plot form keeps its old status, flags and
  count (`CountIsOfPeople`, `schema.prisma` 544);
- a change of years on its own screen ignores `starts_on_capacity` and sets a date before the plot is full
  (`WaitsUntilFull`, `schema.prisma` 553-555);
- a settings change that stops half-way and is repeated moves none of the remaining dates; dates are moved by
  their key from a list read before; the backfill fills dates of rows that wait for people or were cleared by
  hand; a batch that runs before the release makes rows the release then skips; the enrolment fails on a plot
  with a deleted row.

Documents and masters:

- `updateDocument` stores template data of any shape, also one that cannot be printed (#230); overlapping
  uploads leave the loser's file behind; the history of documents is written outside the row's transaction;
- saving a contract never reads the masters, so a form opened before a deletion stores a code without a name
  (#278); payment methods may have 10 characters where the column has 20 (#331).

Staff and migration:

- two resends of one invitation overlap, and an update of the email comes between their reads: each deletes
  the account it read, so the account of the other stays with no row (`staffController.ts`, 715-813);
- `deleteStaff` deletes the account before the transaction that may refuse (`staffController.ts`, 611-640);
- a migration that stops between a row and what belongs to it (fees, gravestone, workplace, sold-out marks)
  never makes it up, because the next run skips the row (`EvenAfterCrash`); between an applicant and his role,
  it creates him twice (`OneApplicant`; the idempotency test covers complete runs,
  `tests/scripts/legacy-migration/steps/idempotency.test.ts`, 4-7); `--only=payment` before all invoices are in
  leaves receipts without one; `--only=customer` leaves the clerk empty; `--truncate` keeps the history tables,
  whose rows then refer to ids that are gone (`HistoryOfRows`, `migrate-from-legacy.ts`, 25-26); after a
  deletion in the office a new run creates the row again; step 12 keeps a status that ought to return to unpaid.

## 6. What is not modelled

- Decimal areas. `3.6 - 2.7` is less than `0.9` in floating point, so an exact fit can be refused.
- Sign-in, tokens, refresh and password changes: calls to the authentication service, with no state of the
  program's own.
- Reports other than those of `InventoryReports`: sales by month, year and agent, searches, lists and their
  paging, summaries of invoices. They are reads.
- The plot map: one table replaced as a whole, documented as last writer wins.
- Permissions, validation, errors, headers: static tables and pure functions in front of the handlers. The
  inputs of the modules are what they let through.
- Rendering: layout of documents, of the bank's file format, of the printing of many invoices at once.
- The authentication service, PostgreSQL, Prisma and the browser, beyond what is said in section 2 and marked
  external in the map.
- Backfill scripts other than the one for collective burials (each changes one column), `verify-migration` and
  the query scripts (reads), `insert-test-data` and seeds (data).

## 7. The plan

Done: the modules of section 2, in the order money, staff, fees, land, parties, records, collective burials,
debit, documents, masters, migration, reports. To come:

1. Decimal areas as scaled integers with the rounding the code does, as operators checked over small inputs.
2. The session of the front end: refresh, logout and the cookies of `authController.ts`.
3. The sales ledger by month and agent next to `InventoryReports`.
