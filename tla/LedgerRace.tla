------------------------------ MODULE LedgerRace ------------------------------
(***************************************************************************)
(* The receipt handlers at the grain of their SQL statements.  Each runs a *)
(* transaction of its own: the counter's (settleRemaining) is serializable,*)
(* the others are Read Committed, so every statement of theirs sees what   *)
(* is committed when it starts, and their own writes.                      *)
(*                                                                         *)
(* All invoices are of one plot and count for its uncollected amount.      *)
(***************************************************************************)
EXTENDS Sums, Rows

CONSTANTS
    Request,       \* requests in flight at the same time
    BillingId, PaymentId,
    Amount,        \* what each invoice asks for
    Received0,     \* receipts present at the start, each with its invoice
    Paying,        \* the amounts of a receipt
    Kind,          \* the handlers in use
    None,          \* no invoice
    Keep           \* an update that does not mention the invoice

Handler == {"create", "update", "delete", "settle"}

ASSUME RaceAssumption ==
    /\ IsFiniteSet(BillingId) /\ IsFiniteSet(PaymentId)
    /\ Amount \in [BillingId -> Nat]
    /\ Paying \subseteq Nat \ {0}
    /\ Kind \subseteq Handler
    /\ DOMAIN Received0 \subseteq PaymentId
    /\ \A y \in DOMAIN Received0 : Received0[y] \in BillingId
    /\ None \notin BillingId /\ None \notin Nat /\ None # Keep
    /\ Keep \notin BillingId

VARIABLES
    payment,    \* the committed Payment rows
    paid,       \* the committed Billing.paid_amount
    due,        \* the committed ContractPlot.uncollected_amount
    job         \* the handler each request is running

vars == <<payment, paid, due, job>>

PaymentRow ==
    [state : {"none", "live", "deleted"}, billing : BillingId \cup {None},
     amount : Nat]

NoPaymentRow == [state |-> "none", billing |-> None, amount |-> 0]

Tables == [payment |-> payment, paid |-> paid, due |-> due]

Snapshot ==
    [payment : [PaymentId -> PaymentRow], paid : [BillingId -> Nat], due : Nat]

Step == {"idle", "receipt", "sum", "total", "plot", "due", "commit"}

Job ==
    [at : Step, kind : Handler, y : PaymentId \cup {None},
     b : BillingId \cup {None, Keep}, x : Nat,
     seen : BillingId \cup {None},       \* the receipt's invoice, read before
     row : PaymentRow,                   \* its receipt row,
     mine : [BillingId -> Nat \cup {None}], \* the totals and
     myDue : Nat \cup {None},            \*   the plot's amount it has written
     todo : Seq(BillingId),              \* invoices it has still to refresh
     value : Nat,                        \* what it computed and will write
     snap : Snapshot,                    \* what a serializable one reads
     changed : SUBSET (BillingId \cup {None})] \* rows committed by others since

Idle ==
    [at |-> "idle", kind |-> "create", y |-> None, b |-> None, x |-> 0,
     seen |-> None, row |-> NoPaymentRow,
     mine |-> [b \in BillingId |-> None], myDue |-> None, todo |-> <<>>,
     value |-> 0, snap |-> [payment |-> [y \in PaymentId |-> NoPaymentRow],
                            paid |-> [b \in BillingId |-> 0], due |-> 0],
     changed |-> {}]

-----------------------------------------------------------------------------
(* What a statement of request j sees *)

Serializable(j) == job[j].kind = "settle"
Base(j) == IF Serializable(j) THEN job[j].snap ELSE Tables

SeenPayment(j) == [Base(j).payment EXCEPT ![job[j].y] = job[j].row]

SeenPaid(j) ==
    [b \in BillingId |-> IF job[j].mine[b] = None THEN Base(j).paid[b]
                         ELSE job[j].mine[b]]

ReceivedIn(rows, b) ==
    SumOf([y \in {z \in PaymentId : rows[z].state = "live" /\ rows[z].billing = b}
           |-> rows[y].amount])

\* uncollectedFromTotals over the plot's invoices.
DueIn(p) ==
    LET asked == SumOf(Amount)
        got == SumOf(p)
    IN IF got >= asked THEN 0 ELSE asked - got

\* The rows a transaction has written stay locked until it ends.
OtherHasReceipt(j) ==
    \E k \in Request \ {j} : /\ job[k].at \notin {"idle", "receipt"}
                             /\ job[k].y = job[j].y

OtherHasBilling(j, b) == \E k \in Request \ {j} : job[k].mine[b] # None
OtherHasPlot(j) == \E k \in Request \ {j} : job[k].myDue # None

-----------------------------------------------------------------------------
(* A request *)

End(j) == job' = [job EXCEPT ![j] = Idle]
Abort(j) == End(j) /\ UNCHANGED <<payment, paid, due>>

InUse(y) == \E k \in Request : job[k].at # "idle" /\ job[k].y = y
Fresh(y) == payment[y].state = "none" /\ ~InUse(y)

\* What a handler does before its transaction: it finds the invoice it was
\* given and, to update or delete a receipt, reads that receipt.
Start(j, kind, y, b, x) ==
    /\ job[j] = Idle
    /\ kind \in {"create", "settle"} => Fresh(y) /\ b \in BillingId
    /\ kind \in {"update", "delete"} => payment[y].state = "live"
    /\ kind = "delete" => b = Keep
    /\ job' = [job EXCEPT
                 ![j] = [Idle EXCEPT !.at = "receipt", !.kind = kind, !.y = y,
                                     !.b = b, !.x = x,
                                     !.seen = payment[y].billing]]
    /\ UNCHANGED <<payment, paid, due>>

\* The receipt as the handler writes it over the committed row.
Written(j) ==
    LET row == payment[job[j].y]
        b == job[j].b
    IN CASE job[j].kind \in {"create", "settle"} ->
              [state |-> "live", billing |-> b, amount |-> job[j].x]
         [] job[j].kind = "update" ->
              [row EXCEPT !.billing = IF b = Keep THEN @ ELSE b,
                          !.amount = job[j].x]
         [] job[j].kind = "delete" -> [row EXCEPT !.state = "deleted"]

\* The invoices among some, in their order.
Linked(s) == Picked(s, {i \in DOMAIN s : s[i] # None})

\* The invoices to refresh: the one the receipt had when it was read before the
\* transaction, then the one it has now.
Affected(j, row) ==
    Linked(CASE job[j].kind \in {"create", "settle"} -> <<row.billing>>
             [] job[j].kind = "delete" -> <<job[j].seen>>
             [] job[j].kind = "update" ->
                  IF row.billing = job[j].seen THEN <<row.billing>>
                  ELSE <<job[j].seen, row.billing>>)

\* The first write of the transaction.
WriteReceipt(j) ==
    /\ job[j].at = "receipt" /\ job[j].kind # "settle"
    /\ ~OtherHasReceipt(j)
    /\ LET row == Written(j)
           todo == Affected(j, row)
       IN job' = [job EXCEPT
                    ![j].row = row, ![j].todo = todo,
                    ![j].at = IF todo = <<>> THEN "commit" ELSE "sum"]
    /\ UNCHANGED <<payment, paid, due>>

\* The counter reads the invoice in its transaction, and is refused when less
\* is left than it wants to collect.
WriteCollected(j) ==
    LET b == job[j].b
        remaining == Amount[b] - paid[b]
    IN /\ job[j].at = "receipt" /\ job[j].kind = "settle"
       /\ IF job[j].x > remaining THEN End(j)
          ELSE job' = [job EXCEPT
                         ![j].row = Written(j), ![j].todo = <<b>>,
                         ![j].snap = Tables, ![j].at = "sum"]
       /\ UNCHANGED <<payment, paid, due>>

-----------------------------------------------------------------------------
(* recalculateBillingPayments, then recalculateContractPlotPaymentStatus *)

ReadReceipts(j) ==
    /\ job[j].at = "sum"
    /\ job' = [job EXCEPT
                 ![j].value = ReceivedIn(SeenPayment(j), Head(job[j].todo)),
                 ![j].at = "total"]
    /\ UNCHANGED <<payment, paid, due>>

\* Variant: the counter runs at the default isolation, and overwrites.
NeverConflicts(j, row) == FALSE

\* A serializable transaction may not overwrite a row that was committed after
\* its snapshot; the plot's row is called None.
Conflicts(j, row) == Serializable(j) /\ row \in job[j].changed

WriteTotal(j) ==
    LET b == Head(job[j].todo) IN
    /\ job[j].at = "total"
    /\ ~OtherHasBilling(j, b)
    /\ IF Conflicts(j, b) THEN End(j)
       ELSE job' = [job EXCEPT ![j].mine[b] = job[j].value, ![j].at = "plot"]
    /\ UNCHANGED <<payment, paid, due>>

ReadTotals(j) ==
    /\ job[j].at = "plot"
    /\ job' = [job EXCEPT ![j].value = DueIn(SeenPaid(j)), ![j].at = "due"]
    /\ UNCHANGED <<payment, paid, due>>

WritePlot(j) ==
    LET rest == Tail(job[j].todo) IN
    /\ job[j].at = "due"
    /\ ~OtherHasPlot(j)
    /\ IF Conflicts(j, None) THEN End(j)
       ELSE job' = [job EXCEPT
                      ![j].myDue = job[j].value, ![j].todo = rest,
                      ![j].at = IF rest = <<>> THEN "commit" ELSE "sum"]
    /\ UNCHANGED <<payment, paid, due>>

\* The rows the transaction has written.
Writes(j) ==
    {b \in BillingId : job[j].mine[b] # None}
      \cup (IF job[j].myDue = None THEN {} ELSE {None})

Commit(j) ==
    /\ job[j].at = "commit"
    /\ payment' = [payment EXCEPT ![job[j].y] = job[j].row]
    /\ paid' = [b \in BillingId |-> IF job[j].mine[b] = None THEN paid[b]
                                    ELSE job[j].mine[b]]
    /\ due' = IF job[j].myDue = None THEN due ELSE job[j].myDue
    /\ job' = [k \in Request |->
                 IF k = j THEN Idle
                 ELSE IF job[k].at \notin {"idle", "receipt"} /\ Serializable(k)
                 THEN [job[k] EXCEPT !.changed = @ \cup Writes(j)]
                 ELSE job[k]]

-----------------------------------------------------------------------------
(* Waiting for each other *)

WaitsFor(j) ==
    {k \in Request \ {j} :
       \/ /\ job[j].at = "receipt" /\ job[k].at \notin {"idle", "receipt"}
          /\ job[k].y = job[j].y
       \/ job[j].at = "total" /\ job[k].mine[Head(job[j].todo)] # None
       \/ job[j].at = "due" /\ job[k].myDue # None}

Deadlocked(j) ==
    \E S \in SUBSET Request :
      /\ j \in S
      /\ \A k \in S : WaitsFor(k) \cap S # {}

\* The database ends a deadlock by failing one of the transactions.
BreakDeadlock(j) == Deadlocked(j) /\ Abort(j)

\* A connection is lost, or the process dies: the transaction leaves nothing.
Die(j) == job[j].at # "idle" /\ Abort(j)

Init ==
    /\ payment = [y \in PaymentId |->
                    IF y \in DOMAIN Received0
                    THEN [state |-> "live", billing |-> Received0[y], amount |-> 1]
                    ELSE NoPaymentRow]
    /\ paid = [b \in BillingId |-> ReceivedIn(payment, b)]
    /\ due = DueIn(paid)
    /\ job = [j \in Request |-> Idle]

Next ==
    \E j \in Request :
      \/ \E kind \in Kind, y \in PaymentId, b \in BillingId \cup {None, Keep},
            x \in Paying : Start(j, kind, y, b, x)
      \/ WriteReceipt(j) \/ WriteCollected(j)
      \/ ReadReceipts(j) \/ WriteTotal(j) \/ ReadTotals(j) \/ WritePlot(j)
      \/ Commit(j)
      \/ BreakDeadlock(j) \/ Die(j)

Spec == Init /\ [][Next]_vars

-----------------------------------------------------------------------------
(* Properties *)

\* Rows, requests and their snapshots have their shapes.
TypeOK ==
    /\ payment \in [PaymentId -> PaymentRow]
    /\ paid \in [BillingId -> Nat]
    /\ due \in Nat
    /\ \A j \in Request :
         /\ job[j].row \in PaymentRow /\ job[j].value \in Nat
         /\ \A i \in DOMAIN job[j].todo : job[j].todo[i] \in BillingId

\* Requests at the counter, however they interleave, amount to collecting one
\* after the other: nobody collects more than is left, and the total and the
\* plot's amount are never seen apart from the receipts.
Promise ==
    INSTANCE Counter WITH
      received <- [b \in BillingId |-> ReceivedIn(payment, b)]

CounterPromise == Promise!Spec

\* Next to any other handler: what the counter collects still fits in what is
\* left when it commits, not only in what was left when it looked.
SettleFits ==
    [][\A j \in Request :
         job[j].at = "commit" /\ job[j].kind = "settle" /\ payment' # payment
         /\ job'[j] = Idle
         => job[j].x <= Amount[job[j].b] - paid[job[j].b]]_vars

-----------------------------------------------------------------------------
(* What comments of the code claim, and the code does not keep *)

\* "paid_amount: the sum of receipts, a cache computed from Payment":
\* schema.prisma, Billing.
PaidIsReceived == \A b \in BillingId : paid[b] = ReceivedIn(payment, b)
=============================================================================
