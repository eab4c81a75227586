------------------------------ MODULE RaceProofs ------------------------------
(***************************************************************************)
(* What the counter collects, for any invoices, receipts, amounts and          *)
(* requests in flight.  Next to any other handler: it never takes more than    *)
(* is left (SettleFits).  Where only the counter runs: its statements,         *)
(* however they interleave, amount to collecting one after the other, the      *)
(* abstract specification Counter (CounterPromise).                            *)
(*                                                                         *)
(* Both rest on what a serializable transaction still knows of the tables:    *)
(* a row that is not among those committed since its snapshot is as it was,    *)
(* and a row it has written nobody else can write until it ends.               *)
(***************************************************************************)
EXTENDS LedgerRace, DataFacts

Early == {"idle", "receipt"}
Refreshing == {"sum", "total", "plot", "due"}
Unwritten == [b \in BillingId |-> None]

\* The record of a request is one that its handler can be in.
WellFormed(r) ==
    /\ r \in Job
    /\ r.at # "idle" => r.y \in PaymentId /\ r.x > 0
    /\ r.at # "idle" /\ r.kind \in {"create", "settle"} => r.b \in BillingId
    /\ r.at \in Early => r.mine = Unwritten /\ r.myDue = None /\ r.changed = {}
    /\ r.at \in Refreshing => r.todo # <<>>

Typed ==
    /\ payment \in [PaymentId -> PaymentRow]
    /\ paid \in [BillingId -> Nat]
    /\ due \in Nat
    /\ job \in [Request -> Job]
    /\ \A j \in Request : WellFormed(job[j])

\* An invoice is written by one transaction at a time.
Exclusive ==
    \A j, k \in Request : \A b \in BillingId :
        j # k /\ job[j].mine[b] # None => job[k].mine[b] = None

\* A transaction of the counter that has read its invoice, when p is committed.
Collecting(r, p) ==
    /\ r.x <= Amount[r.b] - r.snap.paid[r.b]
    /\ r.at \in Refreshing => r.todo = <<r.b>>
    /\ r.at \in {"sum", "total"} =>
         r.mine = Unwritten /\ (r.b \in r.changed \/ p[r.b] = r.snap.paid[r.b])
    /\ r.at \in {"plot", "due", "commit"} =>
         r.mine[r.b] # None /\ p[r.b] = r.snap.paid[r.b]

CountersHold ==
    \A j \in Request : job[j].kind = "settle" /\ job[j].at \notin Early =>
        Collecting(job[j], paid)

IInv == Typed /\ Exclusive /\ CountersHold

-----------------------------------------------------------------------------
(* Amounts *)

Against(rows, b) == {z \in PaymentId : rows[z].state = "live" /\ rows[z].billing = b}

\* What is received is a natural number.
LEMMA ReceivedType ==
    ASSUME NEW rows \in [PaymentId -> PaymentRow], NEW b
    PROVE  ReceivedIn(rows, b) \in Nat
<1> DEFINE D == Against(rows, b)
           f == [y \in D |-> rows[y].amount]
<1>1. IsFiniteSet(D)
  BY RaceAssumption, FS_Subset DEF Against
<1>2. f \in [D -> Nat]
  BY DEF Against, PaymentRow
<1>3. ReceivedIn(rows, b) = SumOf(f)
  BY DEF ReceivedIn, Against
<1> HIDE DEF D, f
<1> QED BY <1>1, <1>2, <1>3, SumType

\* What is owed for the plot is a natural number.
LEMMA DueType ==
    ASSUME NEW p \in [BillingId -> Nat]
    PROVE  DueIn(p) \in Nat
<1>1. SumOf(Amount) \in Nat /\ SumOf(p) \in Nat
  BY RaceAssumption, SumType
<1> QED BY <1>1 DEF DueIn

-----------------------------------------------------------------------------
(* Shapes *)

\* What a statement sees are rows of the tables.
LEMMA SeenTyped ==
    ASSUME Typed, NEW j \in Request
    PROVE  /\ SeenPayment(j) \in [PaymentId -> PaymentRow]
           /\ SeenPaid(j) \in [BillingId -> Nat]
<1>1. /\ job[j].snap.payment \in [PaymentId -> PaymentRow]
      /\ job[j].snap.paid \in [BillingId -> Nat]
      /\ job[j].row \in PaymentRow /\ job[j].mine \in [BillingId -> Nat \cup {None}]
  BY DEF Typed, Job, Snapshot
<1>2. /\ Tables.payment \in [PaymentId -> PaymentRow] /\ Tables.paid \in [BillingId -> Nat]
  BY DEF Typed, Tables
<1>3. /\ Base(j).payment \in [PaymentId -> PaymentRow] /\ Base(j).paid \in [BillingId -> Nat]
  BY <1>1, <1>2 DEF Base
<1>4. SeenPayment(j) \in [PaymentId -> PaymentRow]
  BY <1>1, <1>3 DEF SeenPayment
<1>5. SeenPaid(j) \in [BillingId -> Nat]
  <2>1. \A b \in BillingId :
          (IF job[j].mine[b] = None THEN Base(j).paid[b] ELSE job[j].mine[b]) \in Nat
    BY <1>1, <1>3
  <2> QED BY <2>1 DEF SeenPaid
<1> QED BY <1>4, <1>5

\* The receipt that is written is a row of the table.
LEMMA WrittenTyped ==
    ASSUME Typed, NEW j \in Request, job[j].at # "idle"
    PROVE  Written(j) \in PaymentRow
<1>1. /\ job[j].y \in PaymentId /\ job[j].x \in Nat /\ job[j].kind \in Handler
      /\ job[j].b \in BillingId \cup {None, Keep}
      /\ job[j].kind \in {"create", "settle"} => job[j].b \in BillingId
  BY DEF Typed, WellFormed, Job
<1>2. payment[job[j].y] \in PaymentRow
  BY <1>1 DEF Typed
<1>3. CASE job[j].kind \in {"create", "settle"}
  BY <1>1, <1>3 DEF Written, PaymentRow
<1>4. CASE job[j].kind = "update"
  BY <1>1, <1>2, <1>4 DEF Written, PaymentRow
<1>5. CASE job[j].kind = "delete"
  BY <1>1, <1>2, <1>5 DEF Written, PaymentRow
<1> QED BY <1>1, <1>3, <1>4, <1>5 DEF Handler

\* The invoices to refresh are invoices.
LEMMA AffectedTyped ==
    ASSUME Typed, NEW j \in Request, job[j].at # "idle", NEW row \in PaymentRow
    PROVE  Affected(j, row) \in Seq(BillingId)
<1> DEFINE all == CASE job[j].kind \in {"create", "settle"} -> <<row.billing>>
                    [] job[j].kind = "delete" -> <<job[j].seen>>
                    [] job[j].kind = "update" ->
                         IF row.billing = job[j].seen THEN <<row.billing>>
                         ELSE <<job[j].seen, row.billing>>
           I == {i \in DOMAIN all : all[i] # None}
           S == BillingId \cup {None}
<1>1. job[j].seen \in S /\ job[j].kind \in Handler /\ row.billing \in S
  BY DEF Typed, Job, PaymentRow
<1>2. all \in Seq(S)
  <2>1. \A b, c \in S : <<b>> \in Seq(S) /\ <<b, c>> \in Seq(S)
    OBVIOUS
  <2> HIDE DEF S
  <2>2. CASE job[j].kind \in {"create", "settle"}
    BY <1>1, <2>1, <2>2
  <2>3. CASE job[j].kind = "delete"
    BY <1>1, <2>1, <2>3
  <2>4. CASE job[j].kind = "update"
    BY <1>1, <2>1, <2>4
  <2> QED BY <1>1, <2>2, <2>3, <2>4 DEF Handler
<1>3. Affected(j, row) = Picked(all, I)
  BY DEF Affected, Linked
<1> HIDE DEF all
<1>4. I \in SUBSET DOMAIN all
  OBVIOUS
<1>5. \A i \in I : all[i] \in BillingId
  <2>1. \A i \in DOMAIN all : all[i] \in S
    BY <1>2, ElementOfSeq, LenProperties
  <2> QED BY <2>1
<1> HIDE DEF I, S
<1>6. /\ Picked(all, I) \in Seq(S)
      /\ \A n \in DOMAIN Picked(all, I) : \E i \in I : Picked(all, I)[n] = all[i]
  BY <1>2, <1>4, PickedRows
<1>7. \A n \in DOMAIN Picked(all, I) : Picked(all, I)[n] \in BillingId
  BY <1>5, <1>6
<1>8. Picked(all, I) \in Seq(BillingId)
  <2> DEFINE P == Picked(all, I)
  <2> HIDE DEF P
  <2>1. P \in Seq(S) /\ \A n \in DOMAIN P : P[n] \in BillingId
    BY <1>6, <1>7 DEF P
  <2>2. P \in [1 .. Len(P) -> S] /\ Len(P) \in Nat /\ DOMAIN P = 1 .. Len(P)
    BY <2>1, LenProperties
  <2>3. P \in [1 .. Len(P) -> BillingId]
    BY <2>1, <2>2
  <2>4. P \in Seq(BillingId)
    BY <2>2, <2>3, SeqDef
  <2> QED BY <2>4 DEF P
<1> QED BY <1>3, <1>8

-----------------------------------------------------------------------------
(* Steps of one request *)

\* A request that moves from one record to another leaves the others as they are.
LEMMA OneRequest ==
    ASSUME IInv, NEW j \in Request, NEW r, WellFormed(r), job' = [job EXCEPT ![j] = r],
           UNCHANGED <<payment, paid, due>>,
           \A b \in BillingId : r.mine[b] # None =>
               \A k \in Request \ {j} : job[k].mine[b] = None,
           r.kind = "settle" /\ r.at \notin Early => Collecting(r, paid)
    PROVE  IInv'
<1>1. job \in [Request -> Job]
  BY DEF IInv, Typed
<1>2. job'[j] = r /\ \A k \in Request : k # j => job'[k] = job[k]
  BY <1>1
<1>3. Typed'
  <2>1. job' \in [Request -> Job]
    BY <1>1 DEF WellFormed
  <2>2. \A k \in Request : WellFormed(job'[k])
    BY <1>2 DEF IInv, Typed
  <2> QED BY <2>1, <2>2 DEF IInv, Typed, WellFormed
<1>4. Exclusive'
  BY <1>2 DEF IInv, Exclusive
<1>5. CountersHold'
  BY <1>2 DEF IInv, CountersHold, Collecting
<1> QED BY <1>3, <1>4, <1>5 DEF IInv

\* An idle request holds nothing.
LEMMA IdleWellFormed == WellFormed(Idle) /\ Idle.mine = Unwritten /\ Idle.kind = "create"
<1>1. NoPaymentRow \in PaymentRow
  BY DEF NoPaymentRow, PaymentRow
<1>2. Idle.snap \in Snapshot
  BY <1>1 DEF Idle, Snapshot
<1>3. Idle \in Job
  <2>1. <<>> \in Seq(BillingId)
    OBVIOUS
  <2> QED BY <1>1, <1>2, <2>1 DEF Idle, Job, Step, Handler
<1> QED BY <1>3 DEF WellFormed, Idle, Unwritten, Early, Refreshing

\* A request that ends, is refused or fails leaves nothing.
LEMMA EndHolds ==
    ASSUME IInv, NEW j \in Request, Abort(j)
    PROVE  IInv'
<1>1. job' = [job EXCEPT ![j] = Idle] /\ UNCHANGED <<payment, paid, due>>
  BY DEF Abort, End
<1>2. \A b \in BillingId : Idle.mine[b] = None
  BY IdleWellFormed DEF Unwritten
<1> QED BY <1>1, <1>2, IdleWellFormed, OneRequest

LEMMA StartHolds ==
    ASSUME IInv, NEW j \in Request, NEW kind \in Kind, NEW y \in PaymentId,
           NEW b \in BillingId \cup {None, Keep}, NEW x \in Paying,
           Start(j, kind, y, b, x)
    PROVE  IInv'
<1> DEFINE r == [Idle EXCEPT !.at = "receipt", !.kind = kind, !.y = y,
                             !.b = b, !.x = x, !.seen = payment[y].billing]
<1>1. job' = [job EXCEPT ![j] = r] /\ UNCHANGED <<payment, paid, due>>
  BY DEF Start
<1>2. kind \in Handler /\ x \in Nat /\ x > 0 /\ payment[y].billing \in BillingId \cup {None}
  BY RaceAssumption DEF IInv, Typed, PaymentRow
<1>3. kind \in {"create", "settle"} => b \in BillingId
  BY DEF Start
<1>4. r \in Job
  BY <1>2, IdleWellFormed DEF WellFormed, Job, Step
<1>5. /\ r.at = "receipt" /\ r.kind = kind /\ r.y = y /\ r.b = b /\ r.x = x
      /\ r.mine = Idle.mine /\ r.myDue = Idle.myDue /\ r.changed = Idle.changed
  BY DEF Idle
<1> HIDE DEF r
<1>6. WellFormed(r)
  BY <1>2, <1>3, <1>4, <1>5 DEF WellFormed, Idle, Unwritten, Early, Refreshing
<1>7. \A c \in BillingId : r.mine[c] = None
  BY <1>5 DEF Idle
<1>8. r.at \in Early
  BY <1>5 DEF Early
<1> QED BY <1>1, <1>6, <1>7, <1>8, OneRequest

\* What an open request has from its record.
LEMMA OpenRequest ==
    ASSUME IInv, NEW j \in Request
    PROVE  /\ job[j] \in Job /\ WellFormed(job[j])
           /\ job[j].at # "idle" => job[j].y \in PaymentId /\ job[j].x \in Nat \ {0}
           /\ job[j].kind = "settle" /\ job[j].at # "idle" => job[j].b \in BillingId
           /\ job[j].todo \in Seq(BillingId) /\ job[j].mine \in [BillingId -> Nat \cup {None}]
           /\ job[j].at \in Refreshing =>
                /\ Head(job[j].todo) \in BillingId /\ Tail(job[j].todo) \in Seq(BillingId)
<1>1. job[j] \in Job /\ WellFormed(job[j])
  BY DEF IInv, Typed
<1>2. job[j].x \in Nat /\ job[j].todo \in Seq(BillingId)
      /\ job[j].mine \in [BillingId -> Nat \cup {None}]
  BY <1>1 DEF Job
<1>3. job[j].at \in Refreshing =>
        Head(job[j].todo) \in BillingId /\ Tail(job[j].todo) \in Seq(BillingId)
  <2> SUFFICES ASSUME job[j].at \in Refreshing
               PROVE  Head(job[j].todo) \in BillingId /\ Tail(job[j].todo) \in Seq(BillingId)
    OBVIOUS
  <2>1. job[j].todo # <<>>
    BY <1>1 DEF WellFormed
  <2> QED BY <1>2, <2>1, HeadTailProperties
<1> QED BY <1>1, <1>2, <1>3 DEF WellFormed

LEMMA WriteReceiptHolds ==
    ASSUME IInv, NEW j \in Request, WriteReceipt(j)
    PROVE  IInv'
<1> DEFINE row == Written(j)
           todo == Affected(j, row)
           r == [job[j] EXCEPT !.row = row, !.todo = todo,
                               !.at = IF todo = <<>> THEN "commit" ELSE "sum"]
<1>1. /\ job[j].at = "receipt" /\ job[j].kind # "settle" /\ UNCHANGED <<payment, paid, due>>
      /\ job' = [job EXCEPT ![j].row = row, ![j].todo = todo,
                            ![j].at = IF todo = <<>> THEN "commit" ELSE "sum"]
  BY DEF WriteReceipt
<1>2. Typed /\ job[j] \in Job /\ WellFormed(job[j])
  BY DEF IInv, Typed
<1>3. row \in PaymentRow
  BY <1>1, <1>2, WrittenTyped
<1>4. todo \in Seq(BillingId)
  BY <1>1, <1>2, <1>3, AffectedTyped
<1> HIDE DEF row, todo
<1>5. job' = [job EXCEPT ![j] = r]
  BY <1>1
<1>6. /\ r \in Job /\ r.kind = job[j].kind /\ r.y = job[j].y /\ r.x = job[j].x
      /\ r.b = job[j].b /\ r.mine = job[j].mine /\ r.todo = todo
      /\ r.at = IF todo = <<>> THEN "commit" ELSE "sum"
  BY <1>2, <1>3, <1>4 DEF Job, Step
<1> HIDE DEF r
<1>7. WellFormed(r)
  BY <1>1, <1>2, <1>6 DEF WellFormed, Early, Refreshing
<1>8. \A b \in BillingId : r.mine[b] = None
  BY <1>1, <1>2, <1>6 DEF WellFormed, Early, Unwritten
<1> QED BY <1>1, <1>5, <1>6, <1>7, <1>8, OneRequest

\* The counter has compared what it collects with the total of its snapshot.
LEMMA WriteCollectedHolds ==
    ASSUME IInv, NEW j \in Request, WriteCollected(j)
    PROVE  IInv'
<1> DEFINE b == job[j].b
           row == Written(j)
           r == [job[j] EXCEPT !.row = row, !.todo = <<b>>, !.snap = Tables, !.at = "sum"]
<1>1. /\ job[j].at = "receipt" /\ job[j].kind = "settle" /\ UNCHANGED <<payment, paid, due>>
      /\ IF job[j].x > Amount[b] - paid[b] THEN End(j)
         ELSE job' = [job EXCEPT ![j].row = row, ![j].todo = <<b>>,
                                 ![j].snap = Tables, ![j].at = "sum"]
  BY DEF WriteCollected
<1>2. CASE job[j].x > Amount[b] - paid[b]
  BY <1>1, <1>2, EndHolds DEF Abort
<1>3. CASE ~(job[j].x > Amount[b] - paid[b])
  <2>1. /\ Typed /\ job[j] \in Job /\ WellFormed(job[j]) /\ b \in BillingId
        /\ job[j].x \in Nat
    BY <1>1, OpenRequest DEF IInv
  <2>2. row \in PaymentRow
    BY <1>1, <2>1, WrittenTyped
  <2>3. Tables \in Snapshot /\ Tables.paid = paid
    BY <2>1 DEF Typed, Tables, Snapshot
  <2>4. <<b>> \in Seq(BillingId) /\ <<b>> # <<>>
    BY <2>1
  <2> HIDE DEF row
  <2>5. job' = [job EXCEPT ![j] = r]
    BY <1>1, <1>3
  <2>6. /\ r \in Job /\ r.kind = job[j].kind /\ r.y = job[j].y /\ r.x = job[j].x
        /\ r.b = b /\ r.mine = job[j].mine /\ r.todo = <<b>> /\ r.at = "sum"
        /\ r.snap = Tables
    BY <2>1, <2>2, <2>3, <2>4 DEF Job, Step
  <2> HIDE DEF r, b
  <2>7. WellFormed(r)
    BY <1>1, <2>1, <2>4, <2>6 DEF WellFormed, Early, Refreshing
  <2>8. r.mine = Unwritten
    BY <1>1, <2>1, <2>6 DEF WellFormed, Early
  <2>9. r.x <= Amount[b] - r.snap.paid[b]
    <3>1. Amount[b] \in Nat /\ paid[b] \in Nat
      BY <2>1, RaceAssumption DEF Typed
    <3> QED BY <1>3, <2>1, <2>3, <2>6, <3>1
  <2>10. Collecting(r, paid)
    BY <2>3, <2>6, <2>8, <2>9 DEF Collecting
  <2> QED BY <1>1, <2>5, <2>7, <2>8, <2>10, OneRequest DEF Unwritten
<1> QED BY <1>2, <1>3

LEMMA ReadReceiptsHolds ==
    ASSUME IInv, NEW j \in Request, ReadReceipts(j)
    PROVE  IInv'
<1> DEFINE V == ReceivedIn(SeenPayment(j), Head(job[j].todo))
           r == [job[j] EXCEPT !.value = V, !.at = "total"]
<1>1. /\ job[j].at = "sum" /\ UNCHANGED <<payment, paid, due>>
      /\ job' = [job EXCEPT ![j].value = V, ![j].at = "total"]
  BY DEF ReadReceipts
<1>2. job[j] \in Job /\ WellFormed(job[j])
  BY OpenRequest
<1>3. V \in Nat
  BY SeenTyped, ReceivedType DEF IInv
<1> HIDE DEF V
<1>4. job' = [job EXCEPT ![j] = r]
  BY <1>1
<1>5. /\ r \in Job /\ r.kind = job[j].kind /\ r.y = job[j].y /\ r.x = job[j].x
      /\ r.b = job[j].b /\ r.mine = job[j].mine /\ r.todo = job[j].todo /\ r.at = "total"
      /\ r.snap = job[j].snap /\ r.changed = job[j].changed
  BY <1>2, <1>3 DEF Job, Step
<1> HIDE DEF r
<1>6. WellFormed(r)
  BY <1>1, <1>2, <1>5 DEF WellFormed, Early, Refreshing
<1>7. \A b \in BillingId : r.mine[b] # None =>
        \A k \in Request \ {j} : job[k].mine[b] = None
  BY <1>5 DEF IInv, Exclusive
<1>8. r.kind = "settle" => Collecting(r, paid)
  BY <1>1, <1>5 DEF IInv, CountersHold, Collecting, Early, Refreshing
<1> QED BY <1>1, <1>4, <1>6, <1>7, <1>8, OneRequest

\* A total is written by one transaction at a time, and by the counter only if nobody
\* has committed the invoice since its snapshot.
LEMMA WriteTotalHolds ==
    ASSUME IInv, NEW j \in Request, WriteTotal(j)
    PROVE  IInv'
<1> DEFINE b == Head(job[j].todo)
           r == [job[j] EXCEPT !.mine[b] = job[j].value, !.at = "plot"]
<1>1. /\ job[j].at = "total" /\ UNCHANGED <<payment, paid, due>> /\ ~OtherHasBilling(j, b)
      /\ IF Conflicts(j, b) THEN End(j)
         ELSE job' = [job EXCEPT ![j].mine[b] = job[j].value, ![j].at = "plot"]
  BY DEF WriteTotal
<1>2. CASE Conflicts(j, b)
  BY <1>1, <1>2, EndHolds DEF Abort
<1>3. CASE ~Conflicts(j, b)
  <2>1. /\ job[j] \in Job /\ WellFormed(job[j]) /\ b \in BillingId
        /\ job[j].mine \in [BillingId -> Nat \cup {None}]
    BY <1>1, OpenRequest DEF Refreshing
  <2>2. job[j].value \in Nat /\ job[j].value # None
    BY <2>1, RaceAssumption DEF Job
  <2>3. job[j].kind = "settle" => job[j].todo = <<job[j].b>> /\ Collecting(job[j], paid)
    BY <1>1 DEF IInv, CountersHold, Collecting, Early, Refreshing
  <2>4. job[j].kind = "settle" => b = job[j].b
    BY <2>3
  <2> HIDE DEF b
  <2>5. job' = [job EXCEPT ![j] = r]
    BY <1>1, <1>3
  <2>6. /\ r \in Job /\ r.kind = job[j].kind /\ r.y = job[j].y /\ r.x = job[j].x
        /\ r.b = job[j].b /\ r.mine = [job[j].mine EXCEPT ![b] = job[j].value]
        /\ r.todo = job[j].todo /\ r.at = "plot"
        /\ r.snap = job[j].snap /\ r.changed = job[j].changed
    BY <2>1, <2>2 DEF Job, Step
  <2> HIDE DEF r
  <2>7. WellFormed(r)
    BY <1>1, <2>1, <2>6 DEF WellFormed, Early, Refreshing
  <2>8. r.mine[b] = job[j].value /\ \A c \in BillingId : c # b => r.mine[c] = job[j].mine[c]
    BY <2>1, <2>6
  <2>9. \A c \in BillingId : r.mine[c] # None =>
          \A k \in Request \ {j} : job[k].mine[c] = None
    BY <1>1, <2>1, <2>8 DEF IInv, Exclusive, OtherHasBilling
  <2>10. r.kind = "settle" => Collecting(r, paid)
    <3>1. SUFFICES ASSUME r.kind = "settle" PROVE Collecting(r, paid)
      OBVIOUS
    <3>2. b \notin job[j].changed
      BY <1>3, <2>6, <3>1 DEF Conflicts, Serializable
    <3> QED BY <1>1, <2>2, <2>3, <2>4, <2>6, <2>8, <3>1, <3>2 DEF Collecting, Refreshing
  <2> QED BY <1>1, <2>5, <2>7, <2>9, <2>10, OneRequest
<1> QED BY <1>2, <1>3

LEMMA ReadTotalsHolds ==
    ASSUME IInv, NEW j \in Request, ReadTotals(j)
    PROVE  IInv'
<1> DEFINE V == DueIn(SeenPaid(j))
           r == [job[j] EXCEPT !.value = V, !.at = "due"]
<1>1. /\ job[j].at = "plot" /\ UNCHANGED <<payment, paid, due>>
      /\ job' = [job EXCEPT ![j].value = V, ![j].at = "due"]
  BY DEF ReadTotals
<1>2. job[j] \in Job /\ WellFormed(job[j])
  BY OpenRequest
<1>3. V \in Nat
  BY SeenTyped, DueType DEF IInv
<1> HIDE DEF V
<1>4. job' = [job EXCEPT ![j] = r]
  BY <1>1
<1>5. /\ r \in Job /\ r.kind = job[j].kind /\ r.y = job[j].y /\ r.x = job[j].x
      /\ r.b = job[j].b /\ r.mine = job[j].mine /\ r.todo = job[j].todo /\ r.at = "due"
      /\ r.snap = job[j].snap /\ r.changed = job[j].changed
  BY <1>2, <1>3 DEF Job, Step
<1> HIDE DEF r
<1>6. WellFormed(r)
  BY <1>1, <1>2, <1>5 DEF WellFormed, Early, Refreshing
<1>7. \A b \in BillingId : r.mine[b] # None =>
        \A k \in Request \ {j} : job[k].mine[b] = None
  BY <1>5 DEF IInv, Exclusive
<1>8. r.kind = "settle" => Collecting(r, paid)
  BY <1>1, <1>5 DEF IInv, CountersHold, Collecting, Early, Refreshing
<1> QED BY <1>1, <1>4, <1>6, <1>7, <1>8, OneRequest

\* The counter refreshes one invoice, and commits after its plot.
LEMMA WritePlotHolds ==
    ASSUME IInv, NEW j \in Request, WritePlot(j)
    PROVE  IInv'
<1> DEFINE rest == Tail(job[j].todo)
           at == IF rest = <<>> THEN "commit" ELSE "sum"
           r == [job[j] EXCEPT !.myDue = job[j].value, !.todo = rest, !.at = at]
<1>1. /\ job[j].at = "due" /\ UNCHANGED <<payment, paid, due>>
      /\ IF Conflicts(j, None) THEN End(j)
         ELSE job' = [job EXCEPT ![j].myDue = job[j].value, ![j].todo = rest, ![j].at = at]
  BY DEF WritePlot
<1>2. CASE Conflicts(j, None)
  BY <1>1, <1>2, EndHolds DEF Abort
<1>3. CASE ~Conflicts(j, None)
  <2>1. job[j] \in Job /\ WellFormed(job[j]) /\ rest \in Seq(BillingId)
    BY <1>1, OpenRequest DEF Refreshing
  <2>2. job[j].value \in Nat
    BY <2>1 DEF Job
  <2>3. job[j].kind = "settle" => job[j].todo = <<job[j].b>> /\ Collecting(job[j], paid)
    BY <1>1 DEF IInv, CountersHold, Collecting, Early, Refreshing
  <2>4. job[j].kind = "settle" => rest = <<>>
    <3>1. SUFFICES ASSUME job[j].kind = "settle" PROVE rest = <<>>
      OBVIOUS
    <3>2. job[j].b \in BillingId
      BY <1>1, <3>1, OpenRequest
    <3>3. rest \in Seq(BillingId) /\ Len(rest) = 0
      <4>1. /\ <<job[j].b>> \in Seq(BillingId) /\ <<job[j].b>> # <<>>
            /\ Len(<<job[j].b>>) = 1
        BY <3>2
      <4>2. Len(Tail(<<job[j].b>>)) = 0
        BY <4>1, HeadTailProperties
      <4> QED BY <2>1, <2>3, <3>1, <4>2 DEF rest
    <3> QED BY <3>3, EmptySeq
  <2> HIDE DEF rest
  <2>5. job' = [job EXCEPT ![j] = r]
    BY <1>1, <1>3
  <2>6. /\ r \in Job /\ r.kind = job[j].kind /\ r.y = job[j].y /\ r.x = job[j].x
        /\ r.b = job[j].b /\ r.mine = job[j].mine /\ r.todo = rest /\ r.at = at
        /\ r.snap = job[j].snap /\ r.changed = job[j].changed
    BY <2>1, <2>2 DEF Job, Step
  <2> HIDE DEF r
  <2>7. WellFormed(r)
    BY <1>1, <2>1, <2>6 DEF WellFormed, Early, Refreshing
  <2>8. \A c \in BillingId : r.mine[c] # None =>
          \A k \in Request \ {j} : job[k].mine[c] = None
    BY <2>6 DEF IInv, Exclusive
  <2>9. r.kind = "settle" => Collecting(r, paid)
    BY <1>1, <2>3, <2>4, <2>6 DEF Collecting, Refreshing
  <2> QED BY <1>1, <2>5, <2>7, <2>8, <2>9, OneRequest
<1> QED BY <1>2, <1>3

-----------------------------------------------------------------------------
(* The commit *)

\* What the others know of a commit.
LEMMA CommitSeen ==
    ASSUME IInv, NEW j \in Request, Commit(j), NEW k \in Request \ {j}
    PROVE  /\ \/ job'[k] = job[k]
              \/ /\ job[k].at \notin Early /\ job[k].kind = "settle"
                 /\ job'[k] = [job[k] EXCEPT !.changed = @ \cup Writes(j)]
           /\ job[k].at \notin Early /\ job[k].kind = "settle" =>
                job'[k] = [job[k] EXCEPT !.changed = @ \cup Writes(j)]
BY DEF Commit, Serializable, Early

\* A commit changes the totals the transaction has written, and the transactions of
\* the counter under way are told.
LEMMA CommitHolds ==
    ASSUME IInv, NEW j \in Request, Commit(j)
    PROVE  IInv'
<1>1. job[j].at = "commit" /\ job'[j] = Idle
  BY DEF Commit
<1>2. /\ Typed /\ job[j] \in Job /\ job[j].y \in PaymentId
      /\ job[j].mine \in [BillingId -> Nat \cup {None}]
  BY <1>1, OpenRequest DEF IInv
<1>3. /\ \A b \in BillingId : paid'[b] = IF job[j].mine[b] = None THEN paid[b] ELSE job[j].mine[b]
      /\ paid' \in [BillingId -> Nat]
  <2>1. paid' = [b \in BillingId |-> IF job[j].mine[b] = None THEN paid[b] ELSE job[j].mine[b]]
    BY DEF Commit
  <2> QED BY <1>2, <2>1 DEF Typed
<1>4. payment' \in [PaymentId -> PaymentRow] /\ due' \in Nat
  <2>1. job[j].row \in PaymentRow /\ job[j].myDue \in Nat \cup {None}
    BY <1>2 DEF Job
  <2> QED BY <1>2, <2>1 DEF Typed, Commit
<1>5. Writes(j) \in SUBSET (BillingId \cup {None})
  BY DEF Writes
<1>6. ASSUME NEW k \in Request \ {j}
      PROVE  /\ WellFormed(job'[k])
             /\ job'[k].mine = job[k].mine /\ job'[k].kind = job[k].kind
             /\ job'[k].at = job[k].at /\ job'[k].b = job[k].b /\ job'[k].x = job[k].x
             /\ job'[k].snap = job[k].snap /\ job'[k].todo = job[k].todo
             /\ job[k].kind = "settle" /\ job[k].at \notin Early =>
                  job'[k].changed = job[k].changed \cup Writes(j)
  <2> DEFINE r == [job[k] EXCEPT !.changed = @ \cup Writes(j)]
  <2>1. job[k] \in Job /\ WellFormed(job[k])
    BY OpenRequest
  <2>2. CASE job'[k] = job[k] /\ ~(job[k].kind = "settle" /\ job[k].at \notin Early)
    BY <2>1, <2>2
  <2>3. CASE job[k].at \notin Early /\ job'[k] = r
    <3>1. /\ r \in Job /\ r.kind = job[k].kind /\ r.y = job[k].y /\ r.x = job[k].x
          /\ r.b = job[k].b /\ r.mine = job[k].mine /\ r.todo = job[k].todo
          /\ r.at = job[k].at /\ r.snap = job[k].snap
          /\ r.changed = job[k].changed \cup Writes(j)
      BY <1>5, <2>1 DEF Job
    <3> HIDE DEF r
    <3>2. WellFormed(r)
      BY <2>1, <2>3, <3>1 DEF WellFormed
    <3> QED BY <2>3, <3>1, <3>2
  <2> QED BY <2>2, <2>3, CommitSeen
<1>7. Typed'
  <2>1. \A k \in Request : WellFormed(job'[k])
    BY <1>1, <1>6, IdleWellFormed
  <2>2. job' \in [Request -> Job]
    <3>1. \A k \in Request : job'[k] \in Job
      BY <2>1 DEF WellFormed
    <3>2. job' = [k \in Request |-> job'[k]]
      BY DEF Commit
    <3> QED BY <3>1, <3>2
  <2> QED BY <1>3, <1>4, <2>1, <2>2 DEF Typed
<1>8. Exclusive'
  <2>1. \A b \in BillingId : job'[j].mine[b] = None
    BY <1>1, IdleWellFormed DEF Unwritten
  <2> QED BY <1>6, <2>1 DEF IInv, Exclusive
<1>9. CountersHold'
  <2> SUFFICES ASSUME NEW k \in Request, job'[k].kind = "settle", job'[k].at \notin Early
               PROVE  Collecting(job'[k], paid')
    BY DEF CountersHold, Collecting
  <2>1. k # j
    BY <1>1, IdleWellFormed
  <2>2. job[k].kind = "settle" /\ job[k].at \notin Early /\ Collecting(job[k], paid)
    BY <1>6, <2>1 DEF IInv, CountersHold
  <2>3. job[k].b \in BillingId
    BY <2>2, OpenRequest DEF Early
  <2>4. paid'[job[k].b] = paid[job[k].b] \/ job[k].b \in Writes(j)
    BY <1>3, <2>3 DEF Writes
  <2>5. job[k].mine[job[k].b] # None => paid'[job[k].b] = paid[job[k].b]
    BY <1>3, <2>1, <2>3 DEF IInv, Exclusive
  <2> QED BY <1>6, <2>1, <2>2, <2>4, <2>5 DEF Collecting
<1> QED BY <1>7, <1>8, <1>9 DEF IInv

-----------------------------------------------------------------------------
(* The theorems about any handlers *)

\* The tables before the first request.
LEMMA InitTables ==
    ASSUME Init
    PROVE  /\ payment \in [PaymentId -> PaymentRow]
           /\ paid \in [BillingId -> Nat] /\ due \in Nat
<1>1. payment \in [PaymentId -> PaymentRow]
  <2>1. \A y \in PaymentId :
          (IF y \in DOMAIN Received0
           THEN [state |-> "live", billing |-> Received0[y], amount |-> 1]
           ELSE NoPaymentRow) \in PaymentRow
    BY RaceAssumption DEF PaymentRow, NoPaymentRow
  <2> QED BY <2>1 DEF Init
<1>2. paid \in [BillingId -> Nat]
  BY <1>1, ReceivedType DEF Init
<1>3. due \in Nat
  BY <1>2, DueType DEF Init
<1> QED BY <1>1, <1>2, <1>3

LEMMA InitHolds == Init => IInv
<1> SUFFICES ASSUME Init PROVE IInv
  OBVIOUS
<1>1. \A j \in Request : job[j] = Idle
  BY DEF Init
<1>2. job \in [Request -> Job]
  BY IdleWellFormed DEF Init, WellFormed
<1>3. Typed
  BY <1>1, <1>2, InitTables, IdleWellFormed DEF Typed
<1>4. Exclusive
  BY <1>1, IdleWellFormed DEF Exclusive, Unwritten
<1>5. CountersHold
  BY <1>1, IdleWellFormed DEF CountersHold
<1> QED BY <1>3, <1>4, <1>5 DEF IInv

LEMMA NextHolds ==
    ASSUME IInv, [Next]_vars
    PROVE  IInv'
<1>1. CASE UNCHANGED vars
  BY <1>1 DEF vars, IInv, Typed, Exclusive, CountersHold, Collecting
<1>2. ASSUME NEW j \in Request, NEW kind \in Kind, NEW y \in PaymentId,
             NEW b \in BillingId \cup {None, Keep}, NEW x \in Paying,
             Start(j, kind, y, b, x)
      PROVE  IInv'
  BY <1>2, StartHolds
<1>3. ASSUME NEW j \in Request,
             \/ WriteReceipt(j) \/ WriteCollected(j) \/ ReadReceipts(j)
             \/ WriteTotal(j) \/ ReadTotals(j) \/ WritePlot(j)
      PROVE  IInv'
  BY <1>3, WriteReceiptHolds, WriteCollectedHolds, ReadReceiptsHolds, WriteTotalHolds,
     ReadTotalsHolds, WritePlotHolds
<1>4. ASSUME NEW j \in Request, Commit(j) \/ BreakDeadlock(j) \/ Die(j)
      PROVE  IInv'
  BY <1>4, CommitHolds, EndHolds DEF BreakDeadlock, Die
<1> QED BY <1>1, <1>2, <1>3, <1>4 DEF Next

LEMMA Invariance == Spec => []IInv
BY InitHolds, NextHolds, PTL DEF Spec

\* Rows, requests and their snapshots keep their shapes.
THEOREM TypeCorrect == Spec => []TypeOK
<1>1. ASSUME IInv PROVE TypeOK
  <2>1. ASSUME NEW j \in Request
        PROVE  /\ job[j].row \in PaymentRow /\ job[j].value \in Nat
               /\ \A i \in DOMAIN job[j].todo : job[j].todo[i] \in BillingId
    <3>1. job[j] \in Job
      BY <1>1, OpenRequest
    <3>2. job[j].todo \in Seq(BillingId)
      BY <3>1 DEF Job
    <3> QED BY <3>1, <3>2, LenProperties, ElementOfSeq DEF Job
  <2> QED BY <1>1, <2>1 DEF IInv, Typed, TypeOK
<1> QED BY <1>1, Invariance, PTL

\* Next to any other handler, what the counter collects still fits in what is left when
\* it commits: the invoice it has written was not committed by anybody since it looked.
THEOREM NeverMoreThanIsLeft == Spec => SettleFits
<1>1. ASSUME IInv
      PROVE  \A j \in Request : job[j].at = "commit" /\ job[j].kind = "settle" =>
               job[j].x <= Amount[job[j].b] - paid[job[j].b]
  <2> SUFFICES ASSUME NEW j \in Request, job[j].at = "commit", job[j].kind = "settle"
               PROVE  job[j].x <= Amount[job[j].b] - paid[job[j].b]
    OBVIOUS
  <2>1. Collecting(job[j], paid)
    BY <1>1 DEF IInv, CountersHold, Early
  <2> QED BY <2>1 DEF Collecting
<1> DEFINE Fits == \A j \in Request :
        job[j].at = "commit" /\ job[j].kind = "settle" /\ payment' # payment
        /\ job'[j] = Idle
        => job[j].x <= Amount[job[j].b] - paid[job[j].b]
<1>2. IInv => Fits
  BY <1>1
<1>3. IInv /\ [Next]_vars => [Fits]_vars
  BY <1>2
<1> QED BY <1>3, Invariance, PTL DEF Spec, SettleFits

-----------------------------------------------------------------------------
(* Where only the counter runs *)

OnlyCounter == Kind \subseteq {"settle"} /\ DOMAIN Received0 = {}

\* The totals and the plot's amount are those of the receipts, none above its invoice.
Sound(t) ==
    /\ \A b \in BillingId : t.paid[b] = ReceivedIn(t.payment, b) /\ t.paid[b] <= Amount[b]
    /\ t.due = DueIn(t.paid)

\* Every open request has a receipt of its own, which is not there yet.
Apart ==
    \A j \in Request : job[j].at # "idle" =>
      /\ job[j].kind = "settle" /\ payment[job[j].y].state = "none"
      /\ \A k \in Request \ {j} : job[k].at # "idle" => job[k].y # job[j].y

\* The totals when its receipt is counted.
After(r) == [r.snap.paid EXCEPT ![r.b] = @ + r.x]

\* A transaction works on a sound snapshot.  When it commits, or while nobody has
\* committed, that is the tables.
Serial(r, t) ==
    /\ Sound(r.snap) /\ r.snap.payment[r.y].state = "none"
    /\ r.row = [state |-> "live", billing |-> r.b, amount |-> r.x]
    /\ None \in r.changed \/ r.snap = t
    /\ r.at = "total" => r.value = r.snap.paid[r.b] + r.x
    /\ r.at \in {"plot", "due", "commit"} =>
         r.mine = [Unwritten EXCEPT ![r.b] = r.snap.paid[r.b] + r.x]
    /\ r.at = "due" => r.value = DueIn(After(r))
    /\ r.at = "commit" => r.myDue = DueIn(After(r)) /\ r.snap = t
    /\ r.at # "commit" => r.myDue = None

AllSerial == \A j \in Request : job[j].at \notin Early => Serial(job[j], Tables)

\* One transaction at a time has written the plot.
Alone == \A j, k \in Request : job[j].at = "commit" /\ job[k].at = "commit" => j = k

SInv == Sound(Tables) /\ Apart /\ AllSerial /\ Alone

\* A receipt has been added.
Collected(rows, new, y, b, x) ==
    /\ y \in PaymentId /\ b \in BillingId /\ x \in Nat
    /\ rows \in [PaymentId -> PaymentRow] /\ rows[y].state # "live"
    /\ new = [rows EXCEPT ![y] = [state |-> "live", billing |-> b, amount |-> x]]

\* A receipt more is counted for its invoice and no other.
LEMMA OneMore ==
    ASSUME NEW rows, NEW new, NEW y, NEW b, NEW x, Collected(rows, new, y, b, x),
           NEW c \in BillingId
    PROVE  ReceivedIn(new, c)
             = IF c = b THEN ReceivedIn(rows, c) + x ELSE ReceivedIn(rows, c)
<1> DEFINE D == Against(rows, c)
           E == Against(new, c)
           f == [z \in E |-> new[z].amount]
           g == [z \in D |-> rows[z].amount]
<1>1. /\ new[y] = [state |-> "live", billing |-> b, amount |-> x]
      /\ \A z \in PaymentId : z # y => new[z] = rows[z]
      /\ new \in [PaymentId -> PaymentRow]
      /\ rows \in [PaymentId -> PaymentRow] /\ rows[y].state # "live"
      /\ y \in PaymentId /\ b \in BillingId /\ x \in Nat
  BY DEF PaymentRow, Collected
<1>2. ReceivedIn(new, c) = SumOf(f) /\ ReceivedIn(rows, c) = SumOf(g)
  BY DEF ReceivedIn, Against
<1>3. y \notin D
  BY <1>1 DEF Against
<1>4. CASE c = b
  <2>1. E = D \cup {y} /\ E \ {y} = D
    BY <1>1, <1>3, <1>4 DEF Against
  <2>2. IsFiniteSet(E)
    BY RaceAssumption, FS_Subset DEF Against
  <2>3. f \in [E -> Nat] /\ f[y] = x
    BY <1>1, <2>1 DEF Against, PaymentRow
  <2>4. [z \in E \ {y} |-> f[z]] = g
    <3>1. D \subseteq PaymentId /\ \A z \in D : f[z] = rows[z].amount
      BY <1>1, <1>3, <2>1 DEF Against
    <3> HIDE DEF D, E, f
    <3> QED BY <2>1, <3>1
  <2>5. y \in E
    BY <2>1
  <2> HIDE DEF E, D, f, g
  <2>6. SumOf(f) = SumOf(g) + x
    BY <2>2, <2>3, <2>4, <2>5, SumInsert
  <2> QED BY <1>2, <1>4, <2>6
<1>5. CASE c # b
  <2>1. E = D
    BY <1>1, <1>3, <1>5 DEF Against
  <2>2. f = g
    <3>1. \A z \in D : new[z] = rows[z]
      BY <1>1, <1>3 DEF Against
    <3> HIDE DEF D, E
    <3> QED BY <2>1, <3>1
  <2> QED BY <1>2, <1>5, <2>2
<1> QED BY <1>4, <1>5

\* A request that moves while the tables stay.
LEMMA OneSerial ==
    ASSUME IInv, SInv, NEW j \in Request, NEW r, job' = [job EXCEPT ![j] = r],
           UNCHANGED <<payment, paid, due>>,
           r.at # "idle" =>
             /\ r.kind = "settle" /\ payment[r.y].state = "none"
             /\ \A k \in Request \ {j} : job[k].at # "idle" => job[k].y # r.y,
           r.at \notin Early => Serial(r, Tables),
           r.at = "commit" => \A k \in Request \ {j} : job[k].at # "commit"
    PROVE  SInv'
<1>1. job'[j] = r /\ \A k \in Request : k # j => job'[k] = job[k]
  BY DEF IInv, Typed
<1>2. Tables' = Tables
  BY DEF Tables
<1>3. Sound(Tables)'
  BY <1>2 DEF SInv, Sound, ReceivedIn, DueIn
<1>4. Apart'
  BY <1>1 DEF SInv, Apart
<1>5. \A k \in Request : job'[k].at \notin Early => Serial(job'[k], Tables)
  BY <1>1 DEF SInv, AllSerial
<1>6. AllSerial'
  BY <1>2, <1>5 DEF AllSerial, Serial, Sound, ReceivedIn, DueIn, After
<1>7. Alone'
  BY <1>1 DEF SInv, Alone
<1> QED BY <1>3, <1>4, <1>6, <1>7 DEF SInv

LEMMA EndSerial ==
    ASSUME IInv, SInv, NEW j \in Request, Abort(j)
    PROVE  SInv'
<1>1. job' = [job EXCEPT ![j] = Idle] /\ UNCHANGED <<payment, paid, due>>
  BY DEF Abort, End
<1>2. Idle.at = "idle"
  BY DEF Idle
<1> QED BY <1>1, <1>2, OneSerial DEF Early

LEMMA StartSerial ==
    ASSUME OnlyCounter, IInv, SInv, NEW j \in Request, NEW kind \in Kind,
           NEW y \in PaymentId, NEW b \in BillingId \cup {None, Keep}, NEW x \in Paying,
           Start(j, kind, y, b, x)
    PROVE  SInv'
<1> DEFINE r == [Idle EXCEPT !.at = "receipt", !.kind = kind, !.y = y,
                             !.b = b, !.x = x, !.seen = payment[y].billing]
<1>1. job' = [job EXCEPT ![j] = r] /\ UNCHANGED <<payment, paid, due>>
  BY DEF Start
<1>2. r.at = "receipt" /\ r.kind = kind /\ r.y = y
  BY DEF Idle
<1>3. kind = "settle" /\ Fresh(y)
  BY DEF Start, OnlyCounter
<1> HIDE DEF r
<1> QED BY <1>1, <1>2, <1>3, OneSerial DEF Early, Fresh, InUse

\* What a transaction of the counter has from its record.
LEMMA OpenCounter ==
    ASSUME IInv, SInv, NEW j \in Request, job[j].at \notin Early
    PROVE  /\ job[j] \in Job /\ WellFormed(job[j])
           /\ job[j].kind = "settle" /\ job[j].b \in BillingId /\ job[j].y \in PaymentId
           /\ job[j].x \in Nat \ {0} /\ payment[job[j].y].state = "none"
           /\ job[j].snap.payment \in [PaymentId -> PaymentRow]
           /\ job[j].snap.paid \in [BillingId -> Nat]
           /\ Base(j) = job[j].snap
           /\ Collecting(job[j], paid) /\ Serial(job[j], Tables)
           /\ job[j].at \in Refreshing => Head(job[j].todo) = job[j].b
<1>1. job[j].at # "idle" /\ job[j].kind = "settle" /\ payment[job[j].y].state = "none"
  BY DEF SInv, Apart, Early
<1>2. /\ job[j] \in Job /\ WellFormed(job[j])
      /\ job[j].b \in BillingId /\ job[j].y \in PaymentId /\ job[j].x \in Nat \ {0}
  BY <1>1, OpenRequest
<1>3. Collecting(job[j], paid) /\ Serial(job[j], Tables)
  BY <1>1 DEF IInv, CountersHold, SInv, AllSerial
<1>4. job[j].at \in Refreshing => Head(job[j].todo) = job[j].b
  BY <1>3 DEF Collecting
<1>5. /\ job[j].snap.payment \in [PaymentId -> PaymentRow]
      /\ job[j].snap.paid \in [BillingId -> Nat]
  BY <1>2 DEF Job, Snapshot
<1> QED BY <1>1, <1>2, <1>3, <1>4, <1>5 DEF Base, Serializable

\* The requests that a step of one leaves apart.
LEMMA StaysApart ==
    ASSUME SInv, NEW j \in Request, job[j].at # "idle"
    PROVE  /\ job[j].kind = "settle" /\ payment[job[j].y].state = "none"
           /\ \A k \in Request \ {j} : job[k].at # "idle" => job[k].y # job[j].y
BY DEF SInv, Apart

\* A transaction that moves on with the receipt it has.
LEMMA MovesOn ==
    ASSUME IInv, SInv, NEW j \in Request, job[j].at # "idle",
           NEW r, r.kind = job[j].kind, r.y = job[j].y, job' = [job EXCEPT ![j] = r],
           UNCHANGED <<payment, paid, due>>, Serial(r, Tables),
           r.at = "commit" => \A k \in Request \ {j} : job[k].at # "commit"
    PROVE  SInv'
<1>1. r.kind = "settle" /\ payment[r.y].state = "none"
  BY StaysApart
<1>2. \A k \in Request \ {j} : job[k].at # "idle" => job[k].y # r.y
  BY StaysApart
<1> QED BY <1>1, <1>2, OneSerial

\* The snapshot is the tables.
LEMMA WriteCollectedSerial ==
    ASSUME IInv, SInv, NEW j \in Request, WriteCollected(j)
    PROVE  SInv'
<1> DEFINE b == job[j].b
           row == Written(j)
           r == [job[j] EXCEPT !.row = row, !.todo = <<b>>, !.snap = Tables, !.at = "sum"]
<1>1. /\ job[j].at = "receipt" /\ job[j].kind = "settle" /\ UNCHANGED <<payment, paid, due>>
      /\ IF job[j].x > Amount[b] - paid[b] THEN End(j)
         ELSE job' = [job EXCEPT ![j].row = row, ![j].todo = <<b>>,
                                 ![j].snap = Tables, ![j].at = "sum"]
  BY DEF WriteCollected
<1>2. CASE job[j].x > Amount[b] - paid[b]
  BY <1>1, <1>2, EndSerial DEF Abort
<1>3. CASE ~(job[j].x > Amount[b] - paid[b])
  <2>1. job[j] \in Job /\ WellFormed(job[j])
    BY OpenRequest
  <2>2. row = [state |-> "live", billing |-> b, amount |-> job[j].x]
    BY <1>1 DEF Written
  <2> HIDE DEF row
  <2>3. job' = [job EXCEPT ![j] = r]
    BY <1>1, <1>3
  <2>4. /\ r.kind = job[j].kind /\ r.y = job[j].y /\ r.x = job[j].x /\ r.b = b
        /\ r.row = row /\ r.at = "sum" /\ r.snap = Tables /\ r.myDue = job[j].myDue
    BY <2>1 DEF Job
  <2> HIDE DEF r, b
  <2>5. r.myDue = None
    BY <1>1, <2>1, <2>4 DEF WellFormed, Early
  <2>6. Tables.payment[r.y].state = "none"
    BY <1>1, <2>4, StaysApart DEF Tables
  <2>7. Serial(r, Tables)
    BY <2>2, <2>4, <2>5, <2>6 DEF Serial, SInv
  <2>8. job[j].at # "idle"
    BY <1>1
  <2> QED BY <1>1, <2>3, <2>4, <2>7, <2>8, MovesOn
<1> QED BY <1>2, <1>3

LEMMA ReadReceiptsSerial ==
    ASSUME IInv, SInv, NEW j \in Request, ReadReceipts(j)
    PROVE  SInv'
<1> DEFINE V == ReceivedIn(SeenPayment(j), Head(job[j].todo))
           r == [job[j] EXCEPT !.value = V, !.at = "total"]
<1>1. /\ job[j].at = "sum" /\ UNCHANGED <<payment, paid, due>>
      /\ job' = [job EXCEPT ![j].value = V, ![j].at = "total"]
  BY DEF ReadReceipts
<1>2. job[j].at \notin Early /\ job[j].at \in Refreshing /\ job[j].at # "idle"
  BY <1>1 DEF Early, Refreshing
<1>3. V = job[j].snap.paid[job[j].b] + job[j].x
  <2>1. Head(job[j].todo) = job[j].b
    BY <1>2, OpenCounter
  <2>2. SeenPayment(j) = [job[j].snap.payment EXCEPT ![job[j].y] =
                            [state |-> "live", billing |-> job[j].b, amount |-> job[j].x]]
    BY <1>2, OpenCounter DEF SeenPayment, Serial
  <2>3. /\ job[j].snap.payment[job[j].y].state # "live"
        /\ job[j].snap.paid[job[j].b] = ReceivedIn(job[j].snap.payment, job[j].b)
    BY <1>2, OpenCounter DEF Serial, Sound
  <2>4. ReceivedIn(SeenPayment(j), job[j].b)
          = ReceivedIn(job[j].snap.payment, job[j].b) + job[j].x
    <3>1. /\ job[j].snap.payment \in [PaymentId -> PaymentRow]
          /\ job[j].y \in PaymentId /\ job[j].b \in BillingId /\ job[j].x \in Nat
      BY <1>2, OpenCounter
    <3>2. Collected(job[j].snap.payment, SeenPayment(j), job[j].y, job[j].b, job[j].x)
      BY <2>2, <2>3, <3>1 DEF Collected
    <3> QED BY <3>1, <3>2, OneMore
  <2> QED BY <2>1, <2>3, <2>4
<1> HIDE DEF V
<1>4. job[j] \in Job
  BY OpenRequest
<1>5. job' = [job EXCEPT ![j] = r]
  BY <1>1
<1>6. /\ r.kind = job[j].kind /\ r.y = job[j].y /\ r.x = job[j].x /\ r.b = job[j].b
      /\ r.row = job[j].row /\ r.at = "total" /\ r.value = V /\ r.snap = job[j].snap
      /\ r.myDue = job[j].myDue /\ r.changed = job[j].changed
  BY <1>4 DEF Job
<1> HIDE DEF r
<1>7. Serial(r, Tables)
  BY <1>1, <1>2, <1>3, <1>6, OpenCounter DEF Serial
<1> QED BY <1>1, <1>2, <1>5, <1>6, <1>7, MovesOn

LEMMA WriteTotalSerial ==
    ASSUME IInv, SInv, NEW j \in Request, WriteTotal(j)
    PROVE  SInv'
<1> DEFINE b == Head(job[j].todo)
           r == [job[j] EXCEPT !.mine[b] = job[j].value, !.at = "plot"]
<1>1. /\ job[j].at = "total" /\ UNCHANGED <<payment, paid, due>>
      /\ IF Conflicts(j, b) THEN End(j)
         ELSE job' = [job EXCEPT ![j].mine[b] = job[j].value, ![j].at = "plot"]
  BY DEF WriteTotal
<1>2. CASE Conflicts(j, b)
  BY <1>1, <1>2, EndSerial DEF Abort
<1>3. CASE ~Conflicts(j, b)
  <2>1. job[j].at \notin Early /\ job[j].at \in Refreshing /\ job[j].at # "idle"
    BY <1>1 DEF Early, Refreshing
  <2>2. b = job[j].b
    BY <2>1, OpenCounter
  <2>3. job[j].value = job[j].snap.paid[job[j].b] + job[j].x
    BY <1>1, <2>1, OpenCounter DEF Serial
  <2>4. job[j].mine = Unwritten
    BY <1>1, <2>1, OpenCounter DEF Collecting
  <2>5. job[j] \in Job
    BY OpenRequest
  <2> HIDE DEF b
  <2>6. job' = [job EXCEPT ![j] = r]
    BY <1>1, <1>3
  <2>7. /\ r.kind = job[j].kind /\ r.y = job[j].y /\ r.x = job[j].x /\ r.b = job[j].b
        /\ r.row = job[j].row /\ r.at = "plot" /\ r.snap = job[j].snap
        /\ r.mine = [job[j].mine EXCEPT ![b] = job[j].value]
        /\ r.myDue = job[j].myDue /\ r.changed = job[j].changed
    BY <2>5 DEF Job
  <2> HIDE DEF r
  <2>8. Serial(r, Tables)
    BY <1>1, <2>1, <2>2, <2>3, <2>4, <2>7, OpenCounter DEF Serial
  <2> QED BY <1>1, <2>1, <2>6, <2>7, <2>8, MovesOn
<1> QED BY <1>2, <1>3

LEMMA ReadTotalsSerial ==
    ASSUME IInv, SInv, NEW j \in Request, ReadTotals(j)
    PROVE  SInv'
<1> DEFINE V == DueIn(SeenPaid(j))
           r == [job[j] EXCEPT !.value = V, !.at = "due"]
<1>1. /\ job[j].at = "plot" /\ UNCHANGED <<payment, paid, due>>
      /\ job' = [job EXCEPT ![j].value = V, ![j].at = "due"]
  BY DEF ReadTotals
<1>2. job[j].at \notin Early /\ job[j].at # "idle"
  BY <1>1 DEF Early
<1>3. SeenPaid(j) = After(job[j])
  <2> DEFINE u == job[j].snap.paid[job[j].b] + job[j].x
  <2>1. /\ job[j].mine = [Unwritten EXCEPT ![job[j].b] = u]
        /\ job[j].snap.paid \in [BillingId -> Nat] /\ job[j].b \in BillingId
        /\ u # None /\ Base(j) = job[j].snap
    <3>1. job[j].mine = [Unwritten EXCEPT ![job[j].b] = u]
      BY <1>1, <1>2, OpenCounter DEF Serial
    <3>2. u \in Nat
      BY <1>2, OpenCounter
    <3> QED BY <1>2, <3>1, <3>2, OpenCounter, RaceAssumption
  <2> HIDE DEF u
  <2>2. \A c \in BillingId :
          (IF job[j].mine[c] = None THEN Base(j).paid[c] ELSE job[j].mine[c])
            = IF c = job[j].b THEN u ELSE job[j].snap.paid[c]
    BY <2>1 DEF Unwritten
  <2>3. SeenPaid(j) = [c \in BillingId |-> IF c = job[j].b THEN u ELSE job[j].snap.paid[c]]
    BY <2>2 DEF SeenPaid
  <2>4. After(job[j]) = [c \in BillingId |-> IF c = job[j].b THEN u ELSE job[j].snap.paid[c]]
    BY <2>1 DEF After, u
  <2> QED BY <2>3, <2>4
<1> HIDE DEF V
<1>4. job[j] \in Job
  BY OpenRequest
<1>5. job' = [job EXCEPT ![j] = r]
  BY <1>1
<1>6. /\ r.kind = job[j].kind /\ r.y = job[j].y /\ r.x = job[j].x /\ r.b = job[j].b
      /\ r.row = job[j].row /\ r.at = "due" /\ r.value = V /\ r.snap = job[j].snap
      /\ r.mine = job[j].mine /\ r.myDue = job[j].myDue /\ r.changed = job[j].changed
  BY <1>4 DEF Job
<1> HIDE DEF r
<1>7. V = DueIn(After(r))
  BY <1>3, <1>6 DEF After, V
<1>8. Serial(r, Tables)
  BY <1>1, <1>2, <1>6, <1>7, OpenCounter DEF Serial
<1> QED BY <1>1, <1>2, <1>5, <1>6, <1>8, MovesOn

\* Nobody has committed since the snapshot, and nobody else has written the plot.
LEMMA WritePlotSerial ==
    ASSUME IInv, SInv, NEW j \in Request, WritePlot(j)
    PROVE  SInv'
<1> DEFINE rest == Tail(job[j].todo)
           r == [job[j] EXCEPT !.myDue = job[j].value, !.todo = rest,
                               !.at = IF rest = <<>> THEN "commit" ELSE "sum"]
<1>1. /\ job[j].at = "due" /\ UNCHANGED <<payment, paid, due>> /\ ~OtherHasPlot(j)
      /\ IF Conflicts(j, None) THEN End(j)
         ELSE job' = [job EXCEPT ![j].myDue = job[j].value, ![j].todo = rest,
                                 ![j].at = IF rest = <<>> THEN "commit" ELSE "sum"]
  BY DEF WritePlot
<1>2. CASE Conflicts(j, None)
  BY <1>1, <1>2, EndSerial DEF Abort
<1>3. CASE ~Conflicts(j, None)
  <2>1. job[j].at \notin Early /\ job[j].at \in Refreshing /\ job[j].at # "idle"
    BY <1>1 DEF Early, Refreshing
  <2>2. rest = <<>>
    <3>1. job[j].todo = <<job[j].b>> /\ job[j].b \in BillingId
      BY <2>1, OpenCounter DEF Collecting
    <3>2. <<job[j].b>> \in Seq(BillingId) /\ <<job[j].b>> # <<>> /\ Len(<<job[j].b>>) = 1
      BY <3>1
    <3>3. Len(Tail(<<job[j].b>>)) = 0 /\ Tail(<<job[j].b>>) \in Seq(BillingId)
      BY <3>2, HeadTailProperties
    <3> QED BY <3>1, <3>3, EmptySeq
  <2>3. job[j] \in Job
    BY OpenRequest
  <2>4. job[j].snap = Tables
    BY <1>3, <2>1, OpenCounter DEF Conflicts, Serializable, Serial
  <2>5. \A k \in Request \ {j} : job[k].at # "commit"
    <3> SUFFICES ASSUME NEW k \in Request \ {j}, job[k].at = "commit" PROVE FALSE
      OBVIOUS
    <3>1. job[k].at \notin Early
      BY DEF Early
    <3>2. job[k].myDue = DueIn(After(job[k]))
      BY <3>1, OpenCounter DEF Serial
    <3>3. After(job[k]) \in [BillingId -> Nat]
      BY <3>1, OpenCounter DEF After
    <3>4. job[k].myDue \in Nat
      BY <3>2, <3>3, DueType
    <3> QED BY <1>1, <3>4, RaceAssumption DEF OtherHasPlot
  <2> HIDE DEF rest
  <2>6. job' = [job EXCEPT ![j] = r]
    BY <1>1, <1>3
  <2>7. /\ r.kind = job[j].kind /\ r.y = job[j].y /\ r.x = job[j].x /\ r.b = job[j].b
        /\ r.row = job[j].row /\ r.at = "commit" /\ r.snap = job[j].snap
        /\ r.mine = job[j].mine /\ r.myDue = job[j].value
    BY <2>2, <2>3 DEF Job
  <2> HIDE DEF r
  <2>8. r.myDue = DueIn(After(r))
    BY <1>1, <2>1, <2>7, OpenCounter DEF Serial, After
  <2>9. Serial(r, Tables)
    BY <1>1, <2>1, <2>4, <2>7, <2>8, OpenCounter DEF Serial
  <2> QED BY <1>1, <2>1, <2>5, <2>6, <2>7, <2>9, MovesOn
<1> QED BY <1>2, <1>3

-----------------------------------------------------------------------------
(* The counter commits *)

\* A commit adds one receipt, to the receipts, to the total and to the plot's amount.
LEMMA CommitCollects ==
    ASSUME IInv, SInv, NEW j \in Request, Commit(j)
    PROVE  LET b == job[j].b
               x == job[j].x
           IN  /\ b \in BillingId /\ x \in Nat \ {0} /\ x <= Amount[b] - paid[b]
               /\ \A c \in BillingId :
                    ReceivedIn(payment', c) = IF c = b THEN ReceivedIn(payment, c) + x
                                              ELSE ReceivedIn(payment, c)
               /\ paid' = [paid EXCEPT ![b] = @ + x]
               /\ due' = DueIn(paid')
               /\ payment' = [payment EXCEPT ![job[j].y] =
                                [state |-> "live", billing |-> b, amount |-> x]]
               /\ None \in Writes(j)
<1> DEFINE b == job[j].b
           x == job[j].x
           u == paid[b] + x
<1>1. job[j].at = "commit" /\ job[j].at \notin Early
  BY DEF Commit, Early
<1>2. /\ b \in BillingId /\ x \in Nat \ {0} /\ job[j].y \in PaymentId
      /\ payment[job[j].y].state = "none" /\ job[j].snap = Tables
      /\ Collecting(job[j], paid) /\ Serial(job[j], Tables)
  BY <1>1, OpenCounter DEF Serial
<1>3. /\ payment \in [PaymentId -> PaymentRow] /\ paid \in [BillingId -> Nat]
      /\ job[j].snap.paid = paid /\ u \in Nat /\ u # None
  <2>1. payment \in [PaymentId -> PaymentRow] /\ paid \in [BillingId -> Nat]
    BY DEF IInv, Typed
  <2>2. job[j].snap.paid = paid
    BY <1>2 DEF Tables
  <2>3. u \in Nat
    BY <1>2, <2>1
  <2> QED BY <2>1, <2>2, <2>3, RaceAssumption
<1>4. /\ job[j].row = [state |-> "live", billing |-> b, amount |-> x]
      /\ job[j].mine = [Unwritten EXCEPT ![b] = u]
      /\ job[j].myDue = DueIn(After(job[j]))
  BY <1>1, <1>2, <1>3 DEF Serial
<1>5. After(job[j]) = [paid EXCEPT ![b] = @ + x]
  BY <1>3 DEF After
<1>6. x <= Amount[b] - paid[b]
  BY <1>2, <1>3 DEF Collecting
<1> HIDE DEF u
<1>7. paid' = [paid EXCEPT ![b] = @ + x]
  <2>1. paid' = [c \in BillingId |-> IF job[j].mine[c] = None THEN paid[c] ELSE job[j].mine[c]]
    BY DEF Commit
  <2>2. \A c \in BillingId : (IF job[j].mine[c] = None THEN paid[c] ELSE job[j].mine[c])
                               = IF c = b THEN u ELSE paid[c]
    BY <1>2, <1>3, <1>4 DEF Unwritten
  <2>3. paid' = [c \in BillingId |-> IF c = b THEN u ELSE paid[c]]
    BY <2>1, <2>2
  <2> QED BY <1>2, <1>3, <2>3 DEF u
<1>8. job[j].myDue = DueIn(paid') /\ job[j].myDue # None
  <2>1. paid' \in [BillingId -> Nat]
    BY <1>2, <1>3, <1>7
  <2>2. job[j].myDue = DueIn(paid')
    BY <1>4, <1>5, <1>7
  <2> QED BY <2>1, <2>2, DueType, RaceAssumption
<1>9. due' = DueIn(paid') /\ None \in Writes(j)
  BY <1>8 DEF Commit, Writes
<1>10. payment' = [payment EXCEPT ![job[j].y] =
                     [state |-> "live", billing |-> b, amount |-> x]]
  BY <1>4 DEF Commit
<1>11. \A c \in BillingId :
         ReceivedIn(payment', c) = IF c = b THEN ReceivedIn(payment, c) + x
                                   ELSE ReceivedIn(payment, c)
  <2> DEFINE y == job[j].y
  <2>1. /\ payment[y].state # "live" /\ x \in Nat /\ b \in BillingId /\ y \in PaymentId
        /\ payment \in [PaymentId -> PaymentRow]
    BY <1>2, <1>3
  <2>2. payment' = [payment EXCEPT ![y] = [state |-> "live", billing |-> b, amount |-> x]]
    BY <1>10
  <2> HIDE DEF x, b, y
  <2>3. ASSUME NEW c \in BillingId
        PROVE  ReceivedIn(payment', c)
                 = IF c = b THEN ReceivedIn(payment, c) + x ELSE ReceivedIn(payment, c)
    <3>1. Collected(payment, payment', y, b, x)
      BY <2>1, <2>2 DEF Collected
    <3> QED BY <3>1, OneMore
  <2> QED BY <2>3
<1> QED BY <1>2, <1>6, <1>7, <1>9, <1>10, <1>11

\* The others know that the tables have changed.
LEMMA CommitSerial ==
    ASSUME IInv, SInv, NEW j \in Request, Commit(j)
    PROVE  SInv'
<1> DEFINE b == job[j].b
           x == job[j].x
<1>1. /\ b \in BillingId /\ x \in Nat \ {0} /\ x <= Amount[b] - paid[b]
      /\ \A c \in BillingId :
           ReceivedIn(payment', c) = IF c = b THEN ReceivedIn(payment, c) + x
                                     ELSE ReceivedIn(payment, c)
      /\ paid' = [paid EXCEPT ![b] = @ + x]
      /\ due' = DueIn(paid')
      /\ payment' = [payment EXCEPT ![job[j].y] =
                       [state |-> "live", billing |-> b, amount |-> x]]
      /\ None \in Writes(j)
  BY CommitCollects
<1>2. job'[j] = Idle /\ job[j].at = "commit" /\ Idle.at = "idle"
  BY DEF Commit, Idle
<1>3. /\ payment \in [PaymentId -> PaymentRow] /\ paid \in [BillingId -> Nat]
      /\ Amount \in [BillingId -> Nat]
  BY RaceAssumption DEF IInv, Typed
<1>4. ASSUME NEW k \in Request \ {j}
      PROVE  /\ job'[k].at = job[k].at /\ job'[k].kind = job[k].kind
             /\ job'[k].y = job[k].y /\ job'[k].b = job[k].b /\ job'[k].x = job[k].x
             /\ job'[k].snap = job[k].snap /\ job'[k].row = job[k].row
             /\ job'[k].mine = job[k].mine /\ job'[k].myDue = job[k].myDue
             /\ job'[k].value = job[k].value
             /\ job[k].at \notin Early => None \in job'[k].changed
  <2>1. job[k] \in Job
    BY OpenRequest
  <2>2. job[k].at \notin Early => job[k].kind = "settle"
    BY OpenCounter
  <2>3. CASE job[k].at \in Early
    BY <2>3, CommitSeen
  <2>4. CASE job[k].at \notin Early
    <3>1. job'[k] = [job[k] EXCEPT !.changed = @ \cup Writes(j)]
      BY <2>2, <2>4, CommitSeen
    <3> QED BY <1>1, <2>1, <3>1 DEF Job
  <2> QED BY <2>3, <2>4
<1>5. Sound(Tables)'
  <2>1. \A c \in BillingId : /\ paid[c] = ReceivedIn(payment, c) /\ paid[c] <= Amount[c]
                             /\ paid[c] \in Nat /\ Amount[c] \in Nat
    BY <1>3 DEF SInv, Sound, Tables
  <2>2. \A c \in BillingId : paid'[c] = IF c = b THEN paid[c] + x ELSE paid[c]
    BY <1>1, <1>3
  <2> HIDE DEF x, b
  <2>3. \A c \in BillingId : paid'[c] = ReceivedIn(payment', c) /\ paid'[c] <= Amount[c]
    <3>1. ASSUME NEW c \in BillingId, c = b
          PROVE  paid'[c] = ReceivedIn(payment', c) /\ paid'[c] <= Amount[c]
      <4>1. paid'[c] = paid[c] + x /\ x <= Amount[c] - paid[c] /\ x \in Nat
        BY <1>1, <2>2, <3>1
      <4>2. ReceivedIn(payment', c) = ReceivedIn(payment, c) + x
        BY <1>1, <3>1
      <4> QED BY <2>1, <4>1, <4>2
    <3>2. ASSUME NEW c \in BillingId, c # b
          PROVE  paid'[c] = ReceivedIn(payment', c) /\ paid'[c] <= Amount[c]
      BY <1>1, <2>1, <2>2, <3>2
    <3> QED BY <3>1, <3>2
  <2>4. Tables' = [payment |-> payment', paid |-> paid', due |-> due']
    BY DEF Tables
  <2> QED BY <1>1, <2>3, <2>4 DEF Sound, ReceivedIn, DueIn
<1>6. \A k \in Request : job'[k].at # "idle" =>
        /\ k # j /\ job[k].at # "idle" /\ job'[k].kind = job[k].kind /\ job'[k].y = job[k].y
  BY <1>2, <1>4
<1>7. Apart'
  <2>1. ASSUME NEW k \in Request, job'[k].at # "idle"
        PROVE  /\ job'[k].kind = "settle" /\ payment'[job'[k].y].state = "none"
               /\ \A l \in Request \ {k} : job'[l].at # "idle" => job'[l].y # job'[k].y
    <3>1. /\ job[k].kind = "settle" /\ payment[job[k].y].state = "none"
          /\ \A l \in Request \ {k} : job[l].at # "idle" => job[l].y # job[k].y
      BY <1>6, <2>1, StaysApart
    <3>2. job[k].y # job[j].y /\ job[k].y \in PaymentId
      BY <1>2, <1>6, <2>1, <3>1, OpenRequest
    <3>3. payment'[job[k].y] = payment[job[k].y]
      BY <1>1, <1>3, <3>2
    <3> QED BY <1>6, <2>1, <3>1, <3>3
  <2> QED BY <2>1 DEF Apart
<1>8. AllSerial'
  <2>1. ASSUME NEW k \in Request, job'[k].at \notin Early
        PROVE  Serial(job'[k], Tables')
    <3>1. k # j
      BY <1>2, <2>1 DEF Early
    <3>2. job[k].at \notin Early /\ job[k].at # "commit"
      BY <1>2, <1>4, <2>1, <3>1 DEF SInv, Alone
    <3>3. Serial(job[k], Tables)
      BY <3>2, OpenCounter
    <3> QED BY <1>4, <3>1, <3>2, <3>3 DEF Serial, After
  <2> QED BY <2>1 DEF AllSerial, Serial, Sound, ReceivedIn, DueIn, After
<1>9. Alone'
  <2>1. \A k \in Request : job'[k].at = "commit" => k # j /\ job[k].at = "commit"
    BY <1>2, <1>4
  <2> QED BY <2>1 DEF SInv, Alone
<1> QED BY <1>5, <1>7, <1>8, <1>9 DEF SInv

-----------------------------------------------------------------------------
(* The counter implements its promise *)

\* What is left of the invoices is what is owed, as long as none is paid beyond its
\* amount.
LEMMA LeftIsDue ==
    ASSUME NEW p \in [BillingId -> Nat], \A b \in BillingId : p[b] <= Amount[b]
    PROVE  Promise!Left(p) = DueIn(p)
<1> DEFINE h == [b \in BillingId |-> Amount[b] - p[b]]
<1>1. Amount \in [BillingId -> Nat] /\ IsFiniteSet(BillingId)
  BY RaceAssumption
<1>2. h \in [BillingId -> Nat] /\ \A b \in BillingId : Amount[b] = p[b] + h[b]
  <2>1. \A b \in BillingId : Amount[b] - p[b] \in Nat /\ Amount[b] = p[b] + (Amount[b] - p[b])
    BY <1>1
  <2> QED BY <2>1
<1>3. Promise!Left(p) = SumOf(h)
  BY DEF Promise!Left, Promise!SumOf, Promise!Units, Promise!Cardinality, SumOf, Units,
         Cardinality
<1> HIDE DEF h
<1>4. SumOf(Amount) = SumOf(p) + SumOf(h)
  BY <1>1, <1>2, SumSplit
<1>5. SumOf(Amount) \in Nat /\ SumOf(p) \in Nat /\ SumOf(h) \in Nat
  BY <1>1, <1>2, SumType
<1> QED BY <1>3, <1>4, <1>5 DEF DueIn

\* With no receipts nothing is received.
LEMMA InitSerial ==
    ASSUME OnlyCounter, Init
    PROVE  SInv /\ Promise!Init
<1>1. \A y \in PaymentId : payment[y] = NoPaymentRow
  BY DEF Init, OnlyCounter
<1>2. \A b \in BillingId : ReceivedIn(payment, b) = 0
  <2> SUFFICES ASSUME NEW b \in BillingId PROVE ReceivedIn(payment, b) = 0
    OBVIOUS
  <2> DEFINE D == Against(payment, b)
             f == [y \in D |-> payment[y].amount]
  <2>1. D = {}
    BY <1>1 DEF Against, NoPaymentRow
  <2>2. DOMAIN f = {} /\ ReceivedIn(payment, b) = SumOf(f)
    BY <2>1 DEF ReceivedIn, Against
  <2> HIDE DEF f
  <2> QED BY <2>2, SumEmpty
<1>3. paid = [b \in BillingId |-> 0] /\ due = DueIn(paid)
  BY <1>2 DEF Init
<1>4. Amount \in [BillingId -> Nat]
  BY RaceAssumption
<1>5. \A b \in BillingId : paid[b] = 0 /\ paid[b] <= Amount[b]
  BY <1>3, <1>4
<1>6. paid \in [BillingId -> Nat]
  BY <1>3
<1>7. due = Promise!Left(paid)
  BY <1>3, <1>5, <1>6, LeftIsDue
<1>8. Promise!Init
  <2>1. [b \in BillingId |-> ReceivedIn(payment, b)] = [b \in BillingId |-> 0]
    BY <1>2
  <2> QED BY <1>3, <1>7, <2>1 DEF Promise!Init
<1>9. Sound(Tables)
  BY <1>2, <1>3, <1>5 DEF Sound, Tables
<1>10. \A j \in Request : job[j].at = "idle"
  BY DEF Init, Idle
<1> QED BY <1>8, <1>9, <1>10 DEF SInv, Apart, AllSerial, Alone, Early

\* What Counter calls received.
received == [b \in BillingId |-> ReceivedIn(payment, b)]

\* A commit collects what was asked.
LEMMA CommitRefines ==
    ASSUME IInv, SInv, NEW j \in Request, Commit(j)
    PROVE  Promise!Next
<1> DEFINE b == job[j].b
           x == job[j].x
<1>1. /\ b \in BillingId /\ x \in Nat \ {0} /\ x <= Amount[b] - paid[b]
      /\ \A c \in BillingId :
           ReceivedIn(payment', c) = IF c = b THEN ReceivedIn(payment, c) + x
                                     ELSE ReceivedIn(payment, c)
      /\ paid' = [paid EXCEPT ![b] = @ + x]
      /\ due' = DueIn(paid')
  BY CommitCollects
<1>2. SInv'
  BY CommitSerial
<1>3. /\ paid \in [BillingId -> Nat] /\ paid' \in [BillingId -> Nat]
      /\ Amount \in [BillingId -> Nat]
  <2>1. paid \in [BillingId -> Nat] /\ Amount \in [BillingId -> Nat]
    BY RaceAssumption DEF IInv, Typed
  <2>2. paid[b] + x \in Nat
    BY <1>1, <2>1
  <2> QED BY <1>1, <2>1, <2>2
<1>4. paid[b] = ReceivedIn(payment, b)
  BY <1>1 DEF SInv, Sound, Tables
<1>5. \A c \in BillingId : paid'[c] <= Amount[c]
  <2>1. Sound(Tables)'
    BY <1>2 DEF SInv
  <2> QED BY <2>1 DEF Sound, Tables
<1>6. due' = Promise!Left(paid')
  BY <1>1, <1>3, <1>5, LeftIsDue
<1>7. x \in 1 .. Amount[b] /\ x <= Amount[b] - received[b]
  <2>1. Amount[b] \in Nat /\ paid[b] \in Nat /\ received[b] = paid[b]
    BY <1>1, <1>3, <1>4 DEF received
  <2> QED BY <1>1, <2>1
<1> HIDE DEF b, x
<1>8. [c \in BillingId |-> ReceivedIn(payment', c)] = [received EXCEPT ![b] = @ + x]
  <2>1. [c \in BillingId |-> ReceivedIn(payment', c)]
          = [c \in BillingId |-> IF c = b THEN received[c] + x ELSE received[c]]
    BY <1>1 DEF received
  <2>2. received = [c \in BillingId |-> received[c]]
    BY DEF received
  <2> QED BY <1>1, <2>1, <2>2
<1>9. Promise!Collect(b, x)
  <2>1. [c \in BillingId |-> ReceivedIn(payment, c)]' = [c \in BillingId |-> ReceivedIn(payment', c)]
    BY DEF ReceivedIn
  <2> QED BY <1>1, <1>6, <1>7, <1>8, <2>1 DEF Promise!Collect, received, Promise!Left, Promise!SumOf, Promise!Units
<1> QED BY <1>1, <1>7, <1>9 DEF Promise!Next

LEMMA NextSerial ==
    ASSUME OnlyCounter, IInv, SInv, [Next]_vars
    PROVE  SInv' /\ (Promise!Next \/ UNCHANGED <<payment, paid, due>>)
<1>1. CASE UNCHANGED vars
  <2>1. Tables' = Tables /\ job' = job /\ payment' = payment
    BY <1>1 DEF vars, Tables
  <2>2. SInv'
    BY <2>1 DEF SInv, Sound, Apart, AllSerial, Alone, Serial, ReceivedIn, DueIn, After
  <2> QED BY <1>1, <2>2 DEF vars
<1>2. ASSUME NEW j \in Request, NEW kind \in Kind, NEW y \in PaymentId,
             NEW b \in BillingId \cup {None, Keep}, NEW x \in Paying,
             Start(j, kind, y, b, x)
      PROVE  SInv' /\ UNCHANGED <<payment, paid, due>>
  BY <1>2, StartSerial DEF Start
<1>3. ASSUME NEW j \in Request, WriteReceipt(j)
      PROVE  FALSE
  <2>1. job[j].at = "receipt" /\ job[j].kind # "settle"
    BY <1>3 DEF WriteReceipt
  <2> QED BY <2>1 DEF SInv, Apart
<1>4. ASSUME NEW j \in Request, WriteCollected(j) \/ ReadReceipts(j) \/ WriteTotal(j)
                                \/ ReadTotals(j) \/ WritePlot(j)
      PROVE  SInv' /\ UNCHANGED <<payment, paid, due>>
  <2>1. UNCHANGED <<payment, paid, due>>
    BY <1>4 DEF WriteCollected, ReadReceipts, WriteTotal, ReadTotals, WritePlot
  <2> QED BY <1>4, <2>1, WriteCollectedSerial, ReadReceiptsSerial, WriteTotalSerial,
             ReadTotalsSerial, WritePlotSerial
<1>5. ASSUME NEW j \in Request, BreakDeadlock(j) \/ Die(j)
      PROVE  SInv' /\ UNCHANGED <<payment, paid, due>>
  BY <1>5, EndSerial DEF BreakDeadlock, Die, Abort
<1>6. ASSUME NEW j \in Request, Commit(j)
      PROVE  SInv' /\ Promise!Next
  BY <1>6, CommitSerial, CommitRefines
<1> QED BY <1>1, <1>2, <1>3, <1>4, <1>5, <1>6 DEF Next

\* Where only the counter collects, from no receipts on, its requests amount to
\* collecting one after the other, however their statements interleave, conflict, fail
\* or deadlock: every commit is one step of Counter, every other step none.
THEOREM CounterKeepsPromise ==
    ASSUME OnlyCounter
    PROVE  Spec => CounterPromise
<1>1. Init => SInv /\ Promise!Init
  BY InitSerial
<1>2. ASSUME IInv, SInv, [Next]_vars
      PROVE  SInv' /\ [Promise!Next]_<<paid, received, due>>
  <2>1. SInv' /\ (Promise!Next \/ UNCHANGED <<payment, paid, due>>)
    BY <1>2, NextSerial
  <2>2. UNCHANGED <<payment, paid, due>> => UNCHANGED <<paid, received, due>>
    BY DEF received, ReceivedIn
  <2> QED BY <2>1, <2>2
<1>3. Spec => []IInv
  BY Invariance
<1>4. Spec => Promise!Init /\ [][Promise!Next]_<<paid, received, due>>
  BY <1>1, <1>2, <1>3, PTL DEF Spec
<1> QED BY <1>4, PTL DEF CounterPromise, Promise!Spec, received

\* There the cached totals are those of the receipts, as the schema says of them
\* (schema.prisma, Billing.paid_amount); next to other handlers they need not be, as the
\* run race_lost_update shows.
THEOREM CounterKeepsTotals ==
    ASSUME OnlyCounter
    PROVE  Spec => []PaidIsReceived
<1>1. Init => SInv
  BY InitSerial
<1>2. IInv /\ SInv /\ [Next]_vars => SInv'
  BY NextSerial
<1>3. SInv => PaidIsReceived
  BY DEF SInv, Sound, Tables, PaidIsReceived
<1> QED BY <1>1, <1>2, <1>3, Invariance, PTL DEF Spec
=============================================================================
