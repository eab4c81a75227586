------------------------------ MODULE YuchoImport ------------------------------
(***************************************************************************)
(* Direct debit through the postal bank: the file of one year and month goes  *)
(* out, the bank answers, and the answer is applied to the invoices, in parts *)
(* and as often as the office likes, while the office goes on working.       *)
(*                                                                         *)
(* Plan and application of a part are one request: the plan is read first,    *)
(* then chunks of rows are written, each chunk in a transaction (Read        *)
(* Committed) whose rows are read again one by one.                          *)
(***************************************************************************)
EXTENDS Rows

CONSTANTS
    Plot,            \* 1 to n in the order of the lists; each has a fee due that month
    Customer, Null,
    Account,         \* of a customer, or Null
    Fee,             \* of a plot
    Bill,            \* the invoices of the year, numbered in the order of their creation
    BillPlot, BillAmount,
    Request,
    APPLY_CHUNK_SIZE,
    MaxApplies       \* bound on the requests to apply

\* Amounts are whole yen, and Null is neither a plot nor a payer's code.
DebitAssumption ==
    /\ IsFiniteSet(Plot) /\ Plot = 1 .. Cardinality(Plot)
    /\ Null \notin Plot /\ \A c \in Customer, p \in Plot : Null # <<c, p>>
    /\ Fee \in [Plot -> Nat] /\ Bill \subseteq Nat /\ Null \notin Bill
    /\ BillPlot \in [Bill -> Plot] /\ BillAmount \in [Bill -> Nat]

VARIABLES
    payer, active,   \* of a plot
    bill,            \* whether an invoice exists and can be collected, and what is paid
    file,            \* the records that went out, then their answers
    answered,
    run,
    applies,         \* requests to apply so far
    credited,        \* history: what was recorded for a line of the file
    debited,         \* history: what was recorded on an invoice, in yen
    changed,         \* history: a payer or a contract changed after the file went out
    overlapped,      \* history: two requests to apply ran at the same time
    raced            \* history: invoices paid at the counter while a chunk was open for them

office == <<payer, active, bill>>
history == <<credited, debited, changed, overlapped, raced>>
vars == <<office, file, answered, run, applies, history>>

NoJob == [pc |-> "none"]
NoBill == [state |-> "none", paid |-> 0, noted |-> 0]
OpenBill == [NoBill EXCEPT !.state = "open"]
Line == Plot

\* The invoices of a plot are created one after the other.
InOrder ==
    \A b, c \in Bill : c < b /\ BillPlot[c] = BillPlot[b] /\ bill[b].state # "none"
                          => bill[c].state # "none"

Init ==
    /\ payer \in [Plot -> Customer] /\ active = [p \in Plot |-> TRUE]
    /\ bill \in [Bill -> {NoBill, OpenBill}] /\ InOrder
    /\ file = <<>> /\ answered = FALSE
    /\ run = [r \in Request |-> NoJob] /\ applies = 0
    /\ credited = [l \in Line |-> <<>>] /\ debited = [b \in Bill |-> 0]
    /\ changed = FALSE /\ overlapped = FALSE /\ raced = {}

-----------------------------------------------------------------------------
(* The file *)

Lowest(S) == IF S = {} THEN Null ELSE CHOOSE n \in S : \A m \in S : n <= m

remainingAmount(b) == BillAmount[b] - bill[b].paid

isCollectibleUnpaid(b) == bill[b].state = "open" /\ remainingAmount(b) >= 1

\* The invoices of a plot for the year, written off or not.
findYearBillings(p) ==
    {b \in Bill : BillPlot[b] = p /\ bill[b].state \in {"open", "written_off"}}

\* Plots with a contract, whether the year is paid or not.
Candidates == {p \in Plot : active[p]}

derivePayerCode(p) == <<payer[p], p>>

\* Branch and number of the payer's account.
resolveBranchAndAccount(p) == Account[payer[p]]

isYearFullyPaid(p) ==
    \E b \in findYearBillings(p) : BillAmount[b] > 0 /\ bill[b].paid >= BillAmount[b]

\* status all, or only those that are not paid.
isZenginExportable(p, status) ==
    /\ p \in Candidates /\ Fee[p] > 0 /\ resolveBranchAndAccount(p) # Null
    /\ status = "unbilled" => ~isYearFullyPaid(p)

buildZenginDataRow(p) ==
    [plot |-> p, code |-> derivePayerCode(p), account |-> resolveBranchAndAccount(p),
     amount |-> Fee[p], result |-> "0"]

\* The rows of the file, in the order of the plots.
fetchManagementBillingItems(status) ==
    Picked([n \in Line |-> n], {p \in Line : isZenginExportable(p, status)})

buildZenginFile(status) ==
    /\ file = <<>>
    /\ LET rows == fetchManagementBillingItems(status)
       IN  file' = [l \in DOMAIN rows |-> buildZenginDataRow(rows[l])]
    /\ UNCHANGED <<office, answered, run, applies, history>>

\* External: each account was debited or not; the bank may drop the payers' codes.
BankAnswers ==
    /\ file # <<>> /\ ~answered /\ answered' = TRUE
    /\ \E failed \in SUBSET DOMAIN file, coded \in BOOLEAN :
         file' = [l \in DOMAIN file |->
                    [file[l] EXCEPT !.result = IF l \in failed THEN "1" ELSE "0",
                                    !.code = IF coded THEN @ ELSE Null]]
    /\ UNCHANGED <<office, run, applies, history>>

-----------------------------------------------------------------------------
(* The plan *)

SameCode(row, used) ==
    {p \in Candidates \ used : derivePayerCode(p) = row.code}

SameAccount(row, used) ==
    {p \in Candidates \ used :
       resolveBranchAndAccount(p) = row.account /\ Fee[p] = row.amount}

\* Variant: the account is looked at first, and a plot may be used again.
AccountFirst(row, used) ==
    IF SameAccount(row, {}) # {} THEN SameAccount(row, {}) ELSE SameCode(row, used)

Matching(row, used) ==
    IF SameCode(row, used) # {} THEN SameCode(row, used) ELSE SameAccount(row, used)

\* The plot of each line, or Null: no plot is used for two lines.  The lines before a
\* line decide it, so that there is one such function.
matchCandidates ==
    {of \in [DOMAIN file -> Plot \cup {Null}] :
       \A l \in DOMAIN file :
         of[l] = Lowest(Matching(file[l], {of[k] : k \in 1 .. l - 1}))}

\* The first invoice that can be collected, or else the first.  A plan has a plot on one
\* line, so that no row before takes anything from what is left.
Chosen(p) ==
    LET collectible == {b \in findYearBillings(p) : isCollectibleUnpaid(b)}
    IN  Lowest(IF collectible = {} THEN findYearBillings(p) ELSE collectible)

Status(row, p) ==
    LET b == Chosen(p)
    IN  IF p = Null THEN "unmatched"
        ELSE IF row.result # "0" THEN "failed"
        ELSE IF b = Null THEN "no_billing"
        ELSE IF ~isCollectibleUnpaid(b) THEN "already_paid"
        ELSE IF row.amount > remainingAmount(b) THEN "amount_mismatch"
        ELSE "will_record"

PlanRow(of, l) ==
    [line |-> l, plot |-> of[l], status |-> Status(file[l], of[l]),
     bill |-> IF of[l] = Null THEN Null ELSE Chosen(of[l])]

Target(x) == x.status \in {"will_record", "failed"} /\ x.bill # Null

\* The rows an application has to write, of the lines asked for.
buildPlan(of, lineFrom, lineTo) ==
    Picked([l \in DOMAIN file |-> PlanRow(of, l)],
           {l \in lineFrom .. lineTo : Target(PlanRow(of, l))})

-----------------------------------------------------------------------------
(* Applying it *)

Running(r) == run[r].pc # "none"

applyYuchoResult(r, lineFrom, lineTo) ==
    /\ answered /\ ~Running(r) /\ applies < MaxApplies
    /\ lineFrom <= lineTo /\ lineTo <= Len(file)
    /\ applies' = applies + 1
    /\ \E of \in matchCandidates :
         run' = [run EXCEPT ![r] = [pc |-> "rows", targets |-> buildPlan(of, lineFrom, lineTo),
                                    start |-> 0, done |-> 0, written |-> <<>>]]
    /\ overlapped' = (overlapped \/ \E q \in Request \ {r} : Running(q))
    /\ UNCHANGED <<office, file, answered, credited, debited, changed, raced>>

\* Variant: what the plan found is written.
AsPlanned(row) == TRUE

\* The row still fits the invoice as it is read in the transaction.
StillFits(row) ==
    /\ isCollectibleUnpaid(row.bill)
    /\ file[row.line].amount <= remainingAmount(row.bill)

failedNoteLine(b) == IF b.noted > 0 THEN b ELSE [b EXCEPT !.noted = @ + 1]

\* The invoices a chunk has written and not committed.
Written(r) == {run[r].written[n].bill : n \in DOMAIN run[r].written}

ChunkRead(r) ==
    \/ run[r].done = Len(run[r].targets)
    \/ run[r].done = run[r].start + APPLY_CHUNK_SIZE

ApplyRow(r) ==
    /\ Running(r) /\ ~ChunkRead(r)
    /\ LET row == run[r].targets[run[r].done + 1]
           writes == row.status = "failed" \/ StillFits(row)
       IN  run' = [run EXCEPT ![r].done = @ + 1,
                              ![r].written = IF writes THEN Append(@, row) ELSE @]
    /\ UNCHANGED <<office, file, answered, applies, history>>

After(row, b) ==
    IF row.status = "failed" THEN failedNoteLine(b)
    ELSE [b EXCEPT !.paid = @ + file[row.line].amount]

CommitChunk(r) ==
    /\ Running(r) /\ ChunkRead(r)
    /\ LET rows == run[r].written
           of(b) == {n \in DOMAIN rows : rows[n].bill = b}
           to(l) == {n \in DOMAIN rows : rows[n].line = l /\ rows[n].status = "will_record"}
       IN  /\ bill' = [b \in Bill |-> IF of(b) = {} THEN bill[b]
                                      ELSE After(rows[CHOOSE n \in of(b) : TRUE], bill[b])]
           /\ credited' = [l \in Line |-> IF to(l) = {} THEN credited[l]
                                          ELSE Append(credited[l], rows[CHOOSE n \in to(l) : TRUE])]
    /\ debited' = [b \in Bill |-> debited[b] + bill'[b].paid - bill[b].paid]
    /\ run' = [run EXCEPT ![r] = IF run[r].done = Len(run[r].targets) THEN NoJob
                                 ELSE [@ EXCEPT !.start = run[r].done, !.written = <<>>]]
    /\ UNCHANGED <<payer, active, file, answered, applies, changed, overlapped, raced>>

\* The server stops, the connection is lost or the chunk takes too long: what is committed
\* stays.
Stop(r) ==
    /\ Running(r)
    /\ run' = [run EXCEPT ![r] = NoJob]
    /\ UNCHANGED <<office, file, answered, applies, history>>

-----------------------------------------------------------------------------
(* The office meanwhile *)

\* An invoice of the year, generated or entered; a plot may get a second one.
createBilling(b) ==
    /\ bill[b].state = "none"
    /\ bill' = [bill EXCEPT ![b].state = "open"] /\ InOrder'
    /\ UNCHANGED <<payer, active, file, answered, run, applies, history>>

\* A receipt for what is left; it does not see a chunk that is open.
CounterPayment(b) ==
    /\ isCollectibleUnpaid(b)
    /\ bill' = [bill EXCEPT ![b].paid = BillAmount[b]]
    /\ raced' = raced \cup ({b} \cap UNION {Written(r) : r \in {x \in Request : Running(x)}})
    /\ UNCHANGED <<payer, active, file, answered, run, applies, credited, debited, changed,
                   overlapped>>

changeContractor(p, c) ==
    /\ active[p] /\ payer[p] # c
    /\ payer' = [payer EXCEPT ![p] = c]
    /\ changed' = (changed \/ file # <<>>)
    /\ UNCHANGED <<active, bill, file, answered, run, applies, credited, debited, overlapped, raced>>

\* The contract ends; its invoices stay as they are.
terminateContract(p) ==
    /\ active[p]
    /\ active' = [active EXCEPT ![p] = FALSE]
    /\ changed' = (changed \/ file # <<>>)
    /\ UNCHANGED <<payer, bill, file, answered, run, applies, credited, debited, overlapped, raced>>

\* The office marks the invoice itself as terminated, which hides it from the plans, or
\* writes it off, which does not.
updateBilling(b, state) ==
    /\ bill[b].state = "open"
    /\ bill' = [bill EXCEPT ![b].state = state]
    /\ UNCHANGED <<payer, active, file, answered, run, applies, history>>

Next ==
    \/ \E status \in {"all", "unbilled"} : buildZenginFile(status)
    \/ BankAnswers
    \/ \E r \in Request :
         \/ \E lineFrom, lineTo \in Line : applyYuchoResult(r, lineFrom, lineTo)
         \/ ApplyRow(r) \/ CommitChunk(r) \/ Stop(r)
    \/ \E b \in Bill :
         \/ createBilling(b) \/ CounterPayment(b)
         \/ \E state \in {"terminated", "written_off"} : updateBilling(b, state)
    \/ \E p \in Plot : terminateContract(p) \/ \E c \in Customer : changeContractor(p, c)

Spec == Init /\ [][Next]_vars

-----------------------------------------------------------------------------
(* Properties *)

\* However often, in whatever parts and after whatever interruptions the file is applied,
\* its debits never add up to more than the amount of an invoice ("何度取り込んでも、払い済み
\* の請求には二重に付かない", however often it is imported, no invoice that is paid gets it
\* twice: yuchoResultImport.ts, 7), and with the receipts of the counter they only do when
\* one was written while the chunk was open.  Requests to apply that run at once are left
\* out: they do record a line twice.
NeverBeyond ==
    ~overlapped =>
      \A b \in Bill :
        /\ debited[b] <= BillAmount[b]
        /\ bill[b].paid > BillAmount[b] => b \in raced

\* A line of the file is recorded once.  Where a plot has two invoices for the year it is
\* not: what the first application has paid, the second one passes over, and it records
\* the same line on the other invoice.
RecordedOnce ==
    ~overlapped /\ ~changed => \A l \in DOMAIN file : Len(credited[l]) <= 1

\* While payers and contracts stand, a line that kept its code goes to the plot it was
\* sent for, though several plots share an account and a fee.
OwnPlot ==
    ~changed =>
      \A l \in DOMAIN file : file[l].code # Null =>
        \A n \in DOMAIN credited[l] : credited[l][n].plot = file[l].plot

=============================================================================
