---------------------------- MODULE LedgerProofs ----------------------------
(***************************************************************************)
(* Proofs about Ledger.  The invariants are stated of a database d, so     *)
(* that a handler can be followed statement by statement: Good(d, B) is    *)
(* the inductive invariant with the billings of B left out of the two      *)
(* parts that a handler restores last, when it refreshes their totals.     *)
(***************************************************************************)
EXTENDS Ledger, DataFacts

Live(d, b) == d.billing[b].state = "live"

Backed(d) ==
    \A b \in BillingId : Live(d, b) =>
      d.billing[b].plot \in PlotId /\ d.plot[d.billing[b].plot].live

\* An id not used yet has neither receipts nor a total.
Bare(d) ==
    \A b \in BillingId : d.billing[b].state = "none" =>
      PaymentsOf(d, b) = {} /\ d.paid[b] = 0

Shown(d, B) ==
    \A b \in BillingId \ B : Live(d, b) /\ d.billing[b].terminated =>
      d.billing[b].status \in {"terminated", "written_off"}

Covered(d, B) ==
    \A b \in BillingId \ B : Live(d, b) => d.paid[b] >= Received(d, b)

Good(d, B) ==
    d \in Database /\ Backed(d) /\ Bare(d) /\ Shown(d, B) /\ Covered(d, B)

-----------------------------------------------------------------------------
(* Derived values *)

\* None is not the id of any row.
LEMMA NoneIsNoRow ==
    None \notin PlotId /\ None \notin BillingId /\ None \notin PaymentId
BY LedgerAssumption

\* What was received for a billing is a natural number.
LEMMA ReceivedType ==
    ASSUME NEW d \in Database, NEW b
    PROVE  Received(d, b) \in Nat
<1> DEFINE S == PaymentsOf(d, b)
           f == [y \in S |-> d.payment[y].amount]
<1>1. S \subseteq PaymentId /\ IsFiniteSet(S)
  BY LedgerAssumption, FS_Subset DEF PaymentsOf
<1>2. f \in [S -> Nat]
  BY <1>1 DEF Database, PaymentRow
<1> QED
  BY <1>1, <1>2, SumType DEF Received

\* The values derived for a plot are a payment status and an amount.
LEMMA DerivedType ==
    ASSUME NEW d \in Database, NEW p \in PlotId
    PROVE  /\ DerivedStatus(d, p) \in PaymentStatus
           /\ \A s : DerivedUncollected(d, p, s) \in Nat
<1>1. ASSUME NEW cats
      PROVE  Billed(d, p, cats) \in Nat /\ Credited(d, p, cats) \in Nat
  <2> DEFINE S == Active(d, p, cats)
             f == [b \in S |-> d.billing[b].amount]
             g == [b \in S |-> d.paid[b]]
  <2>1. S \subseteq BillingId /\ IsFiniteSet(S)
    BY LedgerAssumption, FS_Subset DEF Active
  <2>2. f \in [S -> Nat] /\ g \in [S -> Nat]
    BY <2>1 DEF Database, BillingRow
  <2> QED
    BY <2>1, <2>2, SumType DEF Billed, Credited
<1>2. DerivedStatus(d, p) \in PaymentStatus
  BY DEF DerivedStatus, PaymentStatusFromTotals, PaymentStatus
<1>3. ASSUME NEW s PROVE DerivedUncollected(d, p, s) \in Nat
  <2> DEFINE n == Billed(d, p, {"management_fee"})
             m == Credited(d, p, {"management_fee"})
  <2>1. n \in Nat /\ m \in Nat
    BY <1>1
  <2> HIDE DEF n, m
  <2>2. UncollectedFromTotals(n, m, s) \in Nat
    BY <2>1 DEF UncollectedFromTotals
  <2> QED
    BY <2>2 DEF DerivedUncollected, n, m
<1> QED
  BY <1>2, <1>3

\* The status computed for a billing is one of BillingStatus; a terminated
\* billing shows as such unless it is written off.
LEMMA ComputedStatus ==
    ASSUME NEW r, NEW total
    PROVE  /\ ComputeBillingStatus(r, total) \in BillingStatus
           /\ r.terminated =>
                ComputeBillingStatus(r, total) \in {"terminated", "written_off"}
BY DEF ComputeBillingStatus, BillingStatus

-----------------------------------------------------------------------------
(* What the two refreshes change, and what they leave alone *)

\* Refreshing plots touches their status and uncollected amount only.
LEMMA RecalculatePlotsFrame ==
    ASSUME NEW d \in Database, NEW S
    PROVE  LET e == RecalculatePlots(d, S) IN
           /\ e \in Database
           /\ e.billing = d.billing /\ e.paid = d.paid /\ e.payment = d.payment
           /\ \A p \in PlotId : e.plot[p].live = d.plot[p].live
<1> DEFINE e == RecalculatePlots(d, S)
           due == {p \in S : d.plot[p].live}
           row(p) == IF p \in due
                     THEN [d.plot[p] EXCEPT !.status = DerivedStatus(d, p)]
                     ELSE d.plot[p]
           owed(p) == IF p \in due
                      THEN DerivedUncollected(d, p, DerivedStatus(d, p))
                      ELSE d.uncollected[p]
           P == [p \in PlotId |-> row(p)]
           U == [p \in PlotId |-> owed(p)]
<1>1. e = [d EXCEPT !.plot = P, !.uncollected = U]
  BY DEF RecalculatePlots
<1>2. \A p \in PlotId : /\ row(p) \in PlotRow
                        /\ row(p).live = d.plot[p].live
                        /\ owed(p) \in Nat
  <2> SUFFICES ASSUME NEW p \in PlotId
               PROVE  /\ row(p) \in PlotRow
                      /\ row(p).live = d.plot[p].live
                      /\ owed(p) \in Nat
    OBVIOUS
  <2>1. DerivedStatus(d, p) \in PaymentStatus
        /\ DerivedUncollected(d, p, DerivedStatus(d, p)) \in Nat
    BY DerivedType
  <2>2. d.plot[p] \in PlotRow /\ d.uncollected[p] \in Nat
    BY DEF Database
  <2> QED
    BY <2>1, <2>2 DEF PlotRow
<1> HIDE DEF row, owed
<1>3. P \in [PlotId -> PlotRow] /\ U \in [PlotId -> Nat]
  BY <1>2
<1>4. \A p \in PlotId : P[p].live = d.plot[p].live
  BY <1>2
<1> HIDE DEF P, U, e
<1>5. /\ e \in Database
      /\ e.billing = d.billing /\ e.paid = d.paid /\ e.payment = d.payment
      /\ e.plot = P
  BY <1>1, <1>3 DEF Database
<1> QED
  BY <1>4, <1>5 DEF e

\* So it keeps the invariant.
LEMMA RecalculatePlotsGood ==
    ASSUME NEW d, NEW B, Good(d, B), NEW S
    PROVE  Good(RecalculatePlots(d, S), B)
<1> DEFINE e == RecalculatePlots(d, S)
<1>1. /\ d \in Database /\ e \in Database
      /\ e.billing = d.billing /\ e.paid = d.paid /\ e.payment = d.payment
      /\ \A p \in PlotId : e.plot[p].live = d.plot[p].live
  BY RecalculatePlotsFrame DEF Good
<1> HIDE DEF e
<1>2. \A b : PaymentsOf(e, b) = PaymentsOf(d, b) /\ Received(e, b) = Received(d, b)
  BY <1>1 DEF PaymentsOf, Received
<1>3. Backed(e) /\ Bare(e) /\ Shown(e, B) /\ Covered(e, B)
  BY <1>1, <1>2 DEF Good, Backed, Bare, Shown, Covered, Live
<1> QED
  BY <1>1, <1>3 DEF Good, e

\* Refreshing billing b touches its total, its status and its promise, and the
\* derived values of plots; a total that is not migrated becomes the sum of the
\* receipts.
LEMMA RecalculateBillingFrame ==
    ASSUME NEW d \in Database, NEW b \in BillingId
    PROVE  LET e == RecalculateBillingPayments(d, b) IN
           /\ e \in Database
           /\ e.payment = d.payment
           /\ \A p \in PlotId : e.plot[p].live = d.plot[p].live
           /\ \A c \in BillingId \ {b} :
                e.billing[c] = d.billing[c] /\ e.paid[c] = d.paid[c]
           /\ \A f \in {"state", "plot", "category", "amount", "dated",
                        "terminated", "legacy", "batch"} :
                e.billing[b][f] = d.billing[b][f]
           /\ ~Live(d, b) => e = d
           /\ Live(d, b) =>
                /\ e.billing[b].terminated =>
                     e.billing[b].status \in {"terminated", "written_off"}
                /\ e.paid[b] >= Received(d, b)
                /\ ~d.billing[b].legacy => e.paid[b] = Received(d, b)
<1>1. CASE ~Live(d, b)
  BY <1>1 DEF RecalculateBillingPayments, Live
<1>2. CASE Live(d, b)
  <2> DEFINE r == d.billing[b]
             total == IF KeepsMigratedTotal(d, b) THEN d.paid[b]
                      ELSE Received(d, b)
             row == [r EXCEPT !.status = ComputeBillingStatus(r, total),
                              !.promised = @ /\ ~FullyPaid(r.amount, total)]
             c == [d EXCEPT !.billing[b] = row, !.paid[b] = total]
             e == RecalculatePlots(c, {r.plot})
  <2>1. RecalculateBillingPayments(d, b) = e
    BY <1>2 DEF RecalculateBillingPayments, Live
  <2>2. r \in BillingRow /\ d.paid[b] \in Nat
    BY DEF Database
  <2>3. /\ total \in Nat /\ total >= Received(d, b)
        /\ ~r.legacy => total = Received(d, b)
    <3>1. Received(d, b) \in Nat
      BY ReceivedType
    <3>2. CASE KeepsMigratedTotal(d, b)
      <4>1. PaymentsOf(d, b) = {} /\ r.legacy
        BY <3>2 DEF KeepsMigratedTotal
      <4>2. Received(d, b) = 0
        BY <4>1, SumEmpty DEF Received
      <4> QED
        BY <2>2, <3>2, <4>1, <4>2
    <3>3. CASE ~KeepsMigratedTotal(d, b)
      BY <3>1, <3>3
    <3> QED
      BY <3>2, <3>3
  <2> HIDE DEF total
  <2>4. /\ row \in BillingRow
        /\ r.terminated => row.status \in {"terminated", "written_off"}
        /\ \A f \in {"state", "plot", "category", "amount", "dated",
                     "terminated", "legacy", "batch"} : row[f] = r[f]
    <3>1. ComputeBillingStatus(r, total) \in BillingStatus
          /\ (r.terminated =>
                ComputeBillingStatus(r, total) \in {"terminated", "written_off"})
      BY ComputedStatus
    <3>2. (r.promised /\ ~FullyPaid(r.amount, total)) \in BOOLEAN
      OBVIOUS
    <3> QED
      BY <2>2, <3>1, <3>2 DEF BillingRow
  <2> HIDE DEF row, r
  <2>5. c \in Database
    BY <2>3, <2>4 DEF Database
  <2>6. /\ c.payment = d.payment /\ c.plot = d.plot
        /\ c.billing[b] = row /\ c.paid[b] = total
        /\ \A k \in BillingId \ {b} :
             c.billing[k] = d.billing[k] /\ c.paid[k] = d.paid[k]
    BY DEF Database
  <2> HIDE DEF c
  <2>7. /\ e \in Database
        /\ e.billing = c.billing /\ e.paid = c.paid /\ e.payment = c.payment
        /\ \A p \in PlotId : e.plot[p].live = c.plot[p].live
    BY <2>5, RecalculatePlotsFrame
  <2>8. row.terminated = r.terminated
    BY <2>4
  <2> HIDE DEF e
  <2> QED
    BY <1>2, <2>1, <2>3, <2>4, <2>6, <2>7, <2>8 DEF r
<1> QED
  BY <1>1, <1>2

\* So it keeps the invariant, and restores it for b.
LEMMA RecalculateBillingGood ==
    ASSUME NEW d, NEW B, Good(d, B), NEW b \in BillingId
    PROVE  Good(RecalculateBillingPayments(d, b), B \ {b})
<1> DEFINE e == RecalculateBillingPayments(d, b)
<1>1. d \in Database
  BY DEF Good
<1>2. /\ e \in Database
      /\ e.payment = d.payment
      /\ \A p \in PlotId : e.plot[p].live = d.plot[p].live
      /\ \A c \in BillingId \ {b} :
           e.billing[c] = d.billing[c] /\ e.paid[c] = d.paid[c]
      /\ e.billing[b].state = d.billing[b].state
      /\ e.billing[b].plot = d.billing[b].plot
      /\ ~Live(d, b) => e = d
      /\ Live(d, b) =>
           /\ e.billing[b].terminated =>
                e.billing[b].status \in {"terminated", "written_off"}
           /\ e.paid[b] >= Received(d, b)
  BY <1>1, RecalculateBillingFrame
<1> HIDE DEF e
<1>3. \A c : PaymentsOf(e, c) = PaymentsOf(d, c) /\ Received(e, c) = Received(d, c)
  BY <1>2 DEF PaymentsOf, Received
<1>4. Live(e, b) <=> Live(d, b)
  BY <1>2 DEF Live
<1>5. Backed(e)
  BY <1>2 DEF Good, Backed, Live
<1>6. Bare(e)
  <2> SUFFICES ASSUME NEW c \in BillingId, e.billing[c].state = "none"
               PROVE  PaymentsOf(e, c) = {} /\ e.paid[c] = 0
    BY DEF Bare
  <2>1. e.paid[c] = d.paid[c] /\ d.billing[c].state = "none"
    BY <1>2 DEF Live
  <2> QED
    BY <1>3, <2>1 DEF Good, Bare
<1>7. Shown(e, B \ {b})
  BY <1>2, <1>4 DEF Good, Shown, Live
<1>8. Covered(e, B \ {b})
  <2> SUFFICES ASSUME NEW c \in BillingId \ (B \ {b}), Live(e, c)
               PROVE  e.paid[c] >= Received(e, c)
    BY DEF Covered
  <2>1. CASE c = b
    BY <1>2, <1>3, <1>4, <2>1
  <2>2. CASE c # b
    BY <1>2, <1>3, <2>2 DEF Good, Covered, Live
  <2> QED
    BY <2>1, <2>2
<1> QED
  BY <1>2, <1>5, <1>6, <1>7, <1>8 DEF Good, e

-----------------------------------------------------------------------------
(* Edits of one table *)

\* Rewriting receipts keeps the invariant, but for the totals of the billings
\* that gain a receipt or whose receipts change their amount.
LEMMA EditPayments ==
    ASSUME NEW d, NEW B, Good(d, B), NEW C,
           NEW q \in [PaymentId -> PaymentRow],
           \A y \in PaymentId, b \in BillingId :
             q[y].state = "live" /\ q[y].billing = b =>
               /\ d.billing[b].state # "none"
               /\ b \notin C => y \in PaymentsOf(d, b)
                                /\ q[y].amount = d.payment[y].amount
    PROVE  Good([d EXCEPT !.payment = q], B \cup C)
<1> DEFINE e == [d EXCEPT !.payment = q]
<1>1. d \in Database
  BY DEF Good
<1>2. /\ e \in Database /\ e.payment = q
      /\ e.billing = d.billing /\ e.paid = d.paid /\ e.plot = d.plot
  BY <1>1 DEF Database
<1> HIDE DEF e
<1>3. Backed(e) /\ Shown(e, B \cup C)
  BY <1>2 DEF Good, Backed, Shown, Live
<1>4. Bare(e)
  <2> SUFFICES ASSUME NEW b \in BillingId, e.billing[b].state = "none"
               PROVE  PaymentsOf(e, b) = {} /\ e.paid[b] = 0
    BY DEF Bare
  <2>1. PaymentsOf(e, b) = {}
    BY <1>2 DEF PaymentsOf
  <2> QED
    BY <1>2, <2>1 DEF Good, Bare
<1>5. Covered(e, B \cup C)
  <2> SUFFICES ASSUME NEW b \in BillingId \ (B \cup C), Live(e, b)
               PROVE  e.paid[b] >= Received(e, b)
    BY DEF Covered
  <2> DEFINE S == PaymentsOf(d, b)
             f == [y \in S |-> d.payment[y].amount]
             T == PaymentsOf(e, b)
             g == [y \in T |-> e.payment[y].amount]
  <2>1. IsFiniteSet(S) /\ S \subseteq PaymentId
    BY LedgerAssumption, FS_Subset DEF PaymentsOf
  <2>2. T \in SUBSET S /\ \A y \in T : e.payment[y].amount = d.payment[y].amount
    BY <1>2 DEF PaymentsOf
  <2>3. f \in [S -> Nat]
    BY <1>1, <2>1 DEF Database, PaymentRow
  <2> HIDE DEF S, T
  <2>4. g \in [T -> Nat] /\ \A y \in T : g[y] <= f[y]
    BY <2>2, <2>3
  <2> HIDE DEF f, g
  <2>5. SumOf(g) <= SumOf(f)
    BY <2>1, <2>2, <2>3, <2>4, SumMonotone
  <2>6. Received(e, b) <= Received(d, b)
    BY <2>5 DEF Received, S, T, f, g
  <2>7. Received(d, b) \in Nat /\ Received(e, b) \in Nat /\ e.paid[b] \in Nat
    BY <1>1, <1>2, ReceivedType DEF Database
  <2>8. d.paid[b] >= Received(d, b)
    BY <1>2 DEF Good, Covered, Live
  <2> QED
    BY <1>2, <2>6, <2>7, <2>8
<1> QED
  BY <1>2, <1>3, <1>4, <1>5 DEF Good, e

\* Rewriting billings keeps the invariant if a billing is left alone, deleted,
\* or is a live billing of a live plot, and shows its termination unless it is
\* in C.
LEMMA EditBillings ==
    ASSUME NEW d, NEW B, Good(d, B), NEW C,
           NEW rows \in [BillingId -> BillingRow],
           \A b \in BillingId :
             \/ rows[b] = d.billing[b]
             \/ rows[b].state = "deleted"
             \/ /\ rows[b].state = "live" /\ d.billing[b].state # "deleted"
                /\ rows[b].plot \in PlotId /\ d.plot[rows[b].plot].live
                /\ rows[b].terminated /\ b \notin B \cup C =>
                     rows[b].status \in {"terminated", "written_off"}
    PROVE  Good([d EXCEPT !.billing = rows], B \cup C)
<1> DEFINE e == [d EXCEPT !.billing = rows]
<1>1. d \in Database
  BY DEF Good
<1>2. /\ e \in Database /\ e.billing = rows
      /\ e.payment = d.payment /\ e.paid = d.paid /\ e.plot = d.plot
  BY <1>1 DEF Database
<1> HIDE DEF e
<1>3. \A b : PaymentsOf(e, b) = PaymentsOf(d, b) /\ Received(e, b) = Received(d, b)
  BY <1>2 DEF PaymentsOf, Received
<1>4. Backed(e) /\ Shown(e, B \cup C)
  BY <1>2 DEF Good, Backed, Shown, Live
<1>5. Bare(e)
  BY <1>2, <1>3 DEF Good, Bare
<1>6. Covered(e, B \cup C)
  <2> SUFFICES ASSUME NEW b \in BillingId \ (B \cup C), Live(e, b)
               PROVE  e.paid[b] >= Received(e, b)
    BY DEF Covered
  <2>1. CASE Live(d, b)
    BY <1>2, <1>3, <2>1 DEF Good, Covered
  <2>2. CASE d.billing[b].state = "none"
    <3>1. PaymentsOf(d, b) = {} /\ d.paid[b] = 0
      BY <2>2 DEF Good, Bare
    <3>2. Received(d, b) = 0
      BY <3>1, SumEmpty DEF Received
    <3> QED
      BY <1>2, <1>3, <3>1, <3>2
  <2>3. d.billing[b].state \in RowState
    BY <1>1 DEF Database, BillingRow
  <2>4. d.billing[b].state # "deleted"
    BY <1>2 DEF Live
  <2> QED
    BY <2>1, <2>2, <2>3, <2>4 DEF RowState, Live
<1> QED
  BY <1>2, <1>4, <1>5, <1>6 DEF Good, e

\* Rewriting plots keeps the invariant if no live billing loses its plot.
LEMMA EditPlots ==
    ASSUME NEW d, NEW B, Good(d, B), NEW rows \in [PlotId -> PlotRow],
           \A b \in BillingId : Live(d, b) => rows[d.billing[b].plot].live
    PROVE  Good([d EXCEPT !.plot = rows], B)
<1> DEFINE e == [d EXCEPT !.plot = rows]
<1>1. /\ e \in Database /\ e.plot = rows
      /\ e.payment = d.payment /\ e.paid = d.paid /\ e.billing = d.billing
  BY DEF Good, Database
<1> HIDE DEF e
<1>2. \A b : PaymentsOf(e, b) = PaymentsOf(d, b) /\ Received(e, b) = Received(d, b)
  BY <1>1 DEF PaymentsOf, Received
<1>3. Backed(e) /\ Shown(e, B) /\ Bare(e) /\ Covered(e, B)
  BY <1>1, <1>2 DEF Good, Backed, Shown, Bare, Covered, Live
<1> QED
  BY <1>1, <1>3 DEF Good, e

\* The state after a commit is the database committed.
LEMMA CommitTables ==
    ASSUME NEW d \in Database, Commit(d)
    PROVE  Tables' = d
BY DEF Commit, Tables, Database

\* A handler that commits a good database leaves a good one.
LEMMA CommitGood ==
    ASSUME NEW d, Good(d, {}), Commit(d)
    PROVE  Good(Tables, {})'
<1>1. Tables' = d
  BY CommitTables DEF Good
<1> QED
  BY <1>1 DEF Good, Backed, Bare, Shown, Covered, Live, PaymentsOf, Received

-----------------------------------------------------------------------------
(* Agreement of a total with the receipts *)

AgreesIn(d, b) == d.paid[b] = Received(d, b)

\* Agreement of a total with its receipts, read off the tables,
LEMMA AgreesBefore == ASSUME NEW b PROVE Agrees(b) <=> AgreesIn(Tables, b)
BY DEF Agrees, AgreesIn, Tables

\* and of the tables a handler commits.
LEMMA AgreesAfter ==
    ASSUME NEW d, NEW b, Tables' = d, AgreesIn(d, b)
    PROVE  Agrees(b)'
<1>1. /\ paid' = d.paid /\ payment' = d.payment
  BY DEF Tables
<1> QED
  BY <1>1 DEF Agrees, AgreesIn, Received, PaymentsOf, Tables

\* Agreement depends on the receipts of the billing and on its total alone.
LEMMA SameReceipts ==
    ASSUME NEW d, NEW e, NEW b, d.paid[b] = e.paid[b],
           PaymentsOf(d, b) = PaymentsOf(e, b),
           \A y \in PaymentsOf(d, b) : d.payment[y].amount = e.payment[y].amount
    PROVE  AgreesIn(d, b) <=> AgreesIn(e, b)
<1>1. [y \in PaymentsOf(d, b) |-> d.payment[y].amount]
        = [y \in PaymentsOf(e, b) |-> e.payment[y].amount]
  OBVIOUS
<1> QED
  BY <1>1 DEF AgreesIn, Received

\* The refresh of plots disturbs no total and no receipt.
LEMMA PlotsAgree ==
    ASSUME NEW d \in Database, NEW S, NEW b
    PROVE  AgreesIn(RecalculatePlots(d, S), b) <=> AgreesIn(d, b)
<1> DEFINE e == RecalculatePlots(d, S)
<1>1. e.paid = d.paid /\ e.payment = d.payment
  BY RecalculatePlotsFrame
<1> HIDE DEF e
<1>2. PaymentsOf(e, b) = PaymentsOf(d, b)
  BY <1>1 DEF PaymentsOf
<1>3. AgreesIn(e, b) <=> AgreesIn(d, b)
  BY <1>1, <1>2, SameReceipts
<1> QED
  BY <1>3 DEF e

\* Refreshing billing c makes it agree, and does not disturb the others.
LEMMA BillingAgrees ==
    ASSUME NEW d \in Database, NEW c \in BillingId, NEW b \in BillingId,
           ~d.billing[b].legacy,
           b # c \/ ~Live(d, c) => AgreesIn(d, b)
    PROVE  AgreesIn(RecalculateBillingPayments(d, c), b)
<1> DEFINE e == RecalculateBillingPayments(d, c)
<1>1. /\ e.payment = d.payment
      /\ \A k \in BillingId \ {c} : e.paid[k] = d.paid[k]
      /\ ~Live(d, c) => e = d
      /\ Live(d, c) /\ ~d.billing[c].legacy => e.paid[c] = Received(d, c)
  BY RecalculateBillingFrame
<1> HIDE DEF e
<1>2. PaymentsOf(e, b) = PaymentsOf(d, b) /\ Received(e, b) = Received(d, b)
  BY <1>1 DEF PaymentsOf, Received
<1>3. AgreesIn(e, b)
  BY <1>1, <1>2 DEF AgreesIn
<1> QED
  BY <1>3 DEF e

\* Refreshing the former and the latter invoice of a receipt makes both agree.
LEMMA BothAgree ==
    ASSUME NEW d \in Database, NEW before \in BillingId \cup {None},
           NEW after \in BillingId \cup {None}, NEW b \in BillingId,
           ~d.billing[b].legacy,
           b \in {before, after} => Live(d, b),
           b \notin {before, after} => AgreesIn(d, b)
    PROVE  AgreesIn(RecalculateBoth(d, before, after), b)
<1> DEFINE d1 == IF before = None THEN d
                 ELSE RecalculateBillingPayments(d, before)
<1>1. /\ d1 \in Database
      /\ d1.billing[b].legacy = d.billing[b].legacy
      /\ d1.billing[b].state = d.billing[b].state
      /\ b = before \/ b # after => AgreesIn(d1, b)
  <2>1. CASE before = None
    BY <2>1, NoneIsNoRow
  <2>2. CASE before # None
    <3>1. before \in BillingId /\ d1 = RecalculateBillingPayments(d, before)
      BY <2>2
    <3>2. /\ d1 \in Database
          /\ d1.billing[b].legacy = d.billing[b].legacy
          /\ d1.billing[b].state = d.billing[b].state
      BY <3>1, RecalculateBillingFrame
    <3>3. b = before \/ b # after => AgreesIn(RecalculateBillingPayments(d, before), b)
      <4> SUFFICES ASSUME b = before \/ b # after
                   PROVE  AgreesIn(RecalculateBillingPayments(d, before), b)
        OBVIOUS
      <4>1. b # before \/ ~Live(d, before) => AgreesIn(d, b)
        OBVIOUS
      <4> QED
        BY <3>1, <4>1, BillingAgrees
    <3> QED
      BY <3>1, <3>2, <3>3
  <2> QED
    BY <2>1, <2>2
<1> HIDE DEF d1
<1>2. CASE after \in {None, before}
  <2>1. RecalculateBoth(d, before, after) = d1
    BY <1>2 DEF RecalculateBoth, d1
  <2> QED
    BY <1>1, <1>2, <2>1, NoneIsNoRow
<1>3. CASE after \notin {None, before}
  <2>1. RecalculateBoth(d, before, after) = RecalculateBillingPayments(d1, after)
    BY <1>3 DEF RecalculateBoth, d1
  <2>2. b # after \/ ~Live(d1, after) => AgreesIn(d1, b)
    BY <1>1, <1>3 DEF Live
  <2>3. AgreesIn(RecalculateBillingPayments(d1, after), b)
    BY <1>1, <1>3, <2>2, BillingAgrees
  <2> QED
    BY <2>1, <2>3
<1> QED
  BY <1>2, <1>3

-----------------------------------------------------------------------------
(* The handlers, one by one *)

\* A row written for a new billing is well typed.
LEMMA NewBillingRow ==
    ASSUME NEW p \in PlotId, NEW c \in Category, NEW x \in Nat,
           NEW dated \in BOOLEAN, NEW s \in BillingStatus,
           NEW k \in BatchId \cup {None}
    PROVE  LET r == NewBilling(p, c, x, dated, s, k) IN
           /\ r \in BillingRow
           /\ r.state = "live" /\ r.plot = p /\ ~r.terminated
BY DEF NewBilling, NoBillingRow, BillingRow, RowState

\* createBilling starts with a total of zero and no receipts.
LEMMA CreateBillingGood ==
    ASSUME Good(Tables, {}), NEW b \in BillingId, NEW p \in PlotId,
           NEW c \in Category, NEW x \in Amount, NEW dated \in Dated,
           NEW s \in StatusInput, CreateBilling(b, p, c, x, dated, s)
    PROVE  Good(Tables, {})'
<1> DEFINE r == NewBilling(p, c, x, dated, s, None)
           rows == [billing EXCEPT ![b] = r]
           d == [Tables EXCEPT !.billing = rows]
<1>1. Tables \in Database /\ billing \in [BillingId -> BillingRow]
  BY DEF Good, Database, Tables
<1>2. x \in Nat /\ dated \in BOOLEAN /\ s \in BillingStatus
  BY LedgerAssumption
<1>3. r \in BillingRow /\ r.state = "live" /\ r.plot = p /\ ~r.terminated
  BY <1>2, NewBillingRow
<1>4. billing[b].state = "none" /\ plot[p].live
  BY DEF CreateBilling, FreshBillings, LivePlots
<1> HIDE DEF r
<1>5. rows \in [BillingId -> BillingRow]
  BY <1>1, <1>3
<1>6. Good(d, {} \cup {})
  <2>1. \A k \in BillingId :
          \/ rows[k] = Tables.billing[k]
          \/ rows[k].state = "deleted"
          \/ /\ rows[k].state = "live" /\ Tables.billing[k].state # "deleted"
             /\ rows[k].plot \in PlotId /\ Tables.plot[rows[k].plot].live
             /\ rows[k].terminated /\ k \notin {} \cup {} =>
                  rows[k].status \in {"terminated", "written_off"}
    BY <1>1, <1>3, <1>4 DEF Tables
  <2> QED
    BY <1>5, <2>1, EditBillings
<1>7. Commit(RecalculatePlots(d, {p}))
  <2>1. d = [Tables EXCEPT !.billing[b] = r]
    BY DEF Tables
  <2> QED
    BY <2>1 DEF CreateBilling, r
<1>8. Good(RecalculatePlots(d, {p}), {})
  BY <1>6, RecalculatePlotsGood
<1> QED
  BY <1>7, <1>8, CommitGood

\* updateBilling refreshes the total of the invoice it edits.
LEMMA UpdateBillingGood ==
    ASSUME Good(Tables, {}), NEW b \in BillingId, NEW c \in Category,
           NEW x \in Amount, NEW dated \in Dated,
           NEW s \in StatusInput \cup {billing[b].status},
           NEW term \in BOOLEAN, UpdateBilling(b, c, x, dated, s, term)
    PROVE  /\ Good(Tables, {})'
           /\ \A k \in BillingId : ~billing[k].legacy /\ Agrees(k) => Agrees(k)'
<1> DEFINE old == billing[b]
           r == [old EXCEPT !.category = c, !.amount = x, !.dated = dated,
                            !.status = s, !.terminated = term]
           rows == [billing EXCEPT ![b] = r]
           d == [Tables EXCEPT !.billing = rows]
           C == IF PaymentRelevant(b, x, dated, s, term) THEN {b} ELSE {}
<1>1. Tables \in Database /\ billing \in [BillingId -> BillingRow]
  BY DEF Good, Database, Tables
<1>2. x \in Nat /\ dated \in BOOLEAN /\ s \in BillingStatus
  BY <1>1, LedgerAssumption DEF BillingRow
<1>3. /\ r \in BillingRow /\ r.state = old.state /\ r.plot = old.plot
      /\ r.terminated = term /\ r.status = s
  BY <1>1, <1>2 DEF BillingRow
<1>4. old.state = "live" /\ old.plot \in PlotId /\ plot[old.plot].live
  BY DEF UpdateBilling, LiveBillings, Good, Backed, Live, Tables
<1>5. b \notin C => term = old.terminated /\ s = old.status
  BY DEF PaymentRelevant
<1>6. old.terminated => old.status \in {"terminated", "written_off"}
  BY <1>4 DEF Good, Shown, Live, Tables
<1> HIDE DEF r, C
<1>7. rows \in [BillingId -> BillingRow]
  BY <1>1, <1>3
<1>8. Good(d, {} \cup C)
  <2>1. \A k \in BillingId :
          \/ rows[k] = Tables.billing[k]
          \/ rows[k].state = "deleted"
          \/ /\ rows[k].state = "live" /\ Tables.billing[k].state # "deleted"
             /\ rows[k].plot \in PlotId /\ Tables.plot[rows[k].plot].live
             /\ rows[k].terminated /\ k \notin {} \cup C =>
                  rows[k].status \in {"terminated", "written_off"}
    BY <1>1, <1>3, <1>4, <1>5, <1>6 DEF Tables
  <2> QED
    BY <1>7, <2>1, EditBillings
<1>9. d = [Tables EXCEPT !.billing[b] =
             [@ EXCEPT !.category = c, !.amount = x, !.dated = dated,
                       !.status = s, !.terminated = term]]
  BY DEF Tables, r
<1>10. \A k \in BillingId : ~billing[k].legacy /\ Agrees(k) =>
                              ~d.billing[k].legacy /\ AgreesIn(d, k)
  <2> SUFFICES ASSUME NEW k \in BillingId, ~billing[k].legacy, Agrees(k)
               PROVE  ~d.billing[k].legacy /\ AgreesIn(d, k)
    OBVIOUS
  <2>1. d.billing = rows /\ d.paid = Tables.paid /\ d.payment = Tables.payment
    BY DEF Tables
  <2>2. ~d.billing[k].legacy
    BY <1>1, <2>1 DEF r, BillingRow
  <2>3. AgreesIn(Tables, k)
    BY AgreesBefore
  <2> HIDE DEF d
  <2>4. PaymentsOf(d, k) = PaymentsOf(Tables, k)
    BY <2>1 DEF PaymentsOf
  <2> QED
    BY <2>1, <2>2, <2>3, <2>4, SameReceipts
<1> HIDE DEF d
<1>11. CASE Commit(RecalculateBillingPayments(d, b))
  <2> DEFINE e == RecalculateBillingPayments(d, b)
  <2>1. Commit(e)
    BY <1>11
  <2>2. Good(e, ({} \cup C) \ {b})
    BY <1>8, RecalculateBillingGood
  <2>3. ({} \cup C) \ {b} = {}
    BY DEF C
  <2>4. \A k \in BillingId : ~billing[k].legacy /\ Agrees(k) => AgreesIn(e, k)
    BY <1>8, <1>10, BillingAgrees DEF Good
  <2> HIDE DEF e
  <2>5. Tables' = e
    BY <2>1, <2>2, CommitTables DEF Good
  <2> QED
    BY <2>1, <2>2, <2>3, <2>4, <2>5, CommitGood, AgreesAfter
<1>12. CASE ~PaymentRelevant(b, x, dated, s, term) /\ Commit(d)
  <2>1. Commit(d)
    BY <1>12
  <2>2. {} \cup C = {}
    BY <1>12 DEF C
  <2>3. Tables' = d
    BY <1>8, <2>1, CommitTables DEF Good
  <2> QED
    BY <1>8, <1>10, <2>1, <2>2, <2>3, CommitGood, AgreesAfter
<1> QED
  BY <1>9, <1>11, <1>12 DEF UpdateBilling

\* deleteBilling takes the receipts off the invoice it deletes.
LEMMA DeleteBillingGood ==
    ASSUME Good(Tables, {}), NEW b \in BillingId, DeleteBilling(b)
    PROVE  Good(Tables, {})'
<1> DEFINE q == [y \in PaymentId |->
                   IF y \in PaymentsOf(Tables, b)
                   THEN [payment[y] EXCEPT !.billing = None] ELSE payment[y]]
           rows == [billing EXCEPT ![b].state = "deleted"]
           d == [Tables EXCEPT !.payment = q]
           e == [d EXCEPT !.billing = rows]
           S == {billing[b].plot}
<1>1. /\ Tables \in Database /\ billing \in [BillingId -> BillingRow]
      /\ payment \in [PaymentId -> PaymentRow]
  BY DEF Good, Database, Tables
<1>2. q \in [PaymentId -> PaymentRow]
  BY <1>1 DEF PaymentRow
<1>3. Good(d, {} \cup {})
  <2>1. \A y \in PaymentId, k \in BillingId :
          q[y].state = "live" /\ q[y].billing = k =>
            /\ Tables.billing[k].state # "none"
            /\ k \notin {} => y \in PaymentsOf(Tables, k)
                              /\ q[y].amount = Tables.payment[y].amount
    <3> SUFFICES ASSUME NEW y \in PaymentId, NEW k \in BillingId,
                        q[y].state = "live", q[y].billing = k
                 PROVE  /\ Tables.billing[k].state # "none"
                        /\ y \in PaymentsOf(Tables, k)
                        /\ q[y].amount = Tables.payment[y].amount
      OBVIOUS
    <3>1. y \notin PaymentsOf(Tables, b)
      BY <1>1, NoneIsNoRow DEF PaymentRow
    <3>2. q[y] = payment[y]
      BY <3>1
    <3>3. y \in PaymentsOf(Tables, k)
      BY <3>2 DEF PaymentsOf, Tables
    <3> QED
      BY <3>2, <3>3 DEF Good, Bare, Tables
  <2> HIDE DEF q
  <2> QED
    BY <1>2, <2>1, EditPayments
<1>4. rows \in [BillingId -> BillingRow] /\ rows[b].state = "deleted"
      /\ \A k \in BillingId \ {b} : rows[k] = billing[k]
  BY <1>1 DEF BillingRow, RowState
<1>5. d.billing = billing
  BY DEF Tables
<1> HIDE DEF q, d, rows
<1>6. Good(e, {} \cup {})
  BY <1>3, <1>4, <1>5, EditBillings
<1>7. Commit(RecalculatePlots(e, S))
  <2>1. e = [Tables EXCEPT !.payment = q, !.billing[b].state = "deleted"]
    BY DEF d, rows, Tables
  <2> QED
    BY <2>1 DEF DeleteBilling, q
<1>8. Good(RecalculatePlots(e, S), {})
  BY <1>6, RecalculatePlotsGood
<1> QED
  BY <1>7, <1>8, CommitGood

\* One receipt rewritten: only the billing it is for needs a refresh.
LEMMA EditOnePayment ==
    ASSUME NEW d, NEW B, Good(d, B), NEW y \in PaymentId, NEW r \in PaymentRow,
           r.state = "live" /\ r.billing \in BillingId =>
             d.billing[r.billing].state # "none"
    PROVE  Good([d EXCEPT !.payment[y] = r],
                B \cup (IF r.state = "live" THEN {r.billing} ELSE {}))
<1> DEFINE q == [d.payment EXCEPT ![y] = r]
           C == IF r.state = "live" THEN {r.billing} ELSE {}
<1>1. d.payment \in [PaymentId -> PaymentRow]
  BY DEF Good, Database
<1>2. q \in [PaymentId -> PaymentRow]
  BY <1>1
<1>3. \A z \in PaymentId, b \in BillingId :
        q[z].state = "live" /\ q[z].billing = b =>
          /\ d.billing[b].state # "none"
          /\ b \notin C => z \in PaymentsOf(d, b)
                           /\ q[z].amount = d.payment[z].amount
  <2> SUFFICES ASSUME NEW z \in PaymentId, NEW b \in BillingId,
                      q[z].state = "live", q[z].billing = b
               PROVE  /\ d.billing[b].state # "none"
                      /\ b \notin C => z \in PaymentsOf(d, b)
                                       /\ q[z].amount = d.payment[z].amount
    OBVIOUS
  <2>1. CASE z = y
    BY <1>1, <2>1
  <2>2. CASE z # y
    <3>1. q[z] = d.payment[z]
      BY <1>1, <2>2
    <3>2. z \in PaymentsOf(d, b)
      BY <3>1 DEF PaymentsOf
    <3> QED
      BY <3>1, <3>2 DEF Good, Bare
  <2> QED
    BY <2>1, <2>2
<1>4. [d EXCEPT !.payment[y] = r] = [d EXCEPT !.payment = q]
  OBVIOUS
<1> HIDE DEF q, C
<1>5. Good([d EXCEPT !.payment = q], B \cup C)
  BY <1>2, <1>3, EditPayments
<1> QED
  BY <1>4, <1>5 DEF C

\* A receipt taken for a live billing, its total refreshed.
LEMMA ReceiveGood ==
    ASSUME Good(Tables, {}), NEW y \in PaymentId, NEW b \in LiveBillings,
           NEW x \in Amount
    PROVE  Good(Receive(Tables, y, b, x), {})
<1> DEFINE r == NewPayment(b, Tables.billing[b].plot, x, None)
           d == [Tables EXCEPT !.payment[y] = r]
<1>1. /\ b \in BillingId /\ Tables.billing[b].state = "live"
      /\ Tables.billing[b].plot \in PlotId \cup {None}
  BY DEF LiveBillings, Tables, Good, Database, BillingRow
<1>2. r \in PaymentRow /\ r.state = "live" /\ r.billing = b
  BY <1>1, LedgerAssumption DEF NewPayment, PaymentRow, RowState
<1> HIDE DEF r
<1>3. Good(d, {} \cup {b})
  BY <1>1, <1>2, EditOnePayment
<1>4. Good(RecalculateBillingPayments(d, b), ({} \cup {b}) \ {b})
  BY <1>1, <1>3, RecalculateBillingGood
<1>5. ({} \cup {b}) \ {b} = {}
  OBVIOUS
<1> QED
  BY <1>4, <1>5 DEF Receive, r

\* createPayment with an invoice is the receipt of an amount.
LEMMA CreateBilledPaymentGood ==
    ASSUME Good(Tables, {}), NEW y \in PaymentId, NEW b \in BillingId,
           NEW x \in Amount, CreateBilledPayment(y, b, x)
    PROVE  Good(Tables, {})'
BY ReceiveGood, CommitGood DEF CreateBilledPayment

\* A credited row of the direct debit is one too.
LEMMA ApplyYuchoResultGood ==
    ASSUME Good(Tables, {}), NEW y \in PaymentId, NEW b \in BillingId,
           NEW x \in Amount, ApplyYuchoResult(b, y, x)
    PROVE  Good(Tables, {})'
BY ReceiveGood, CommitGood DEF ApplyYuchoResult

\* createPayment without an invoice adds to no total.
LEMMA CreateOrphanPaymentGood ==
    ASSUME Good(Tables, {}), NEW y \in PaymentId, NEW p \in PlotId \cup {None},
           NEW x \in Amount, CreateOrphanPayment(y, p, x)
    PROVE  Good(Tables, {})'
<1> DEFINE r == NewPayment(None, p, x, None)
           d == [Tables EXCEPT !.payment[y] = r]
<1>1. r \in PaymentRow /\ r.state = "live" /\ r.billing = None
  BY LedgerAssumption DEF NewPayment, PaymentRow, RowState
<1> HIDE DEF r
<1>2. Good(d, {} \cup {None})
  BY <1>1, NoneIsNoRow, EditOnePayment
<1>3. Good(d, {})
  BY <1>2, NoneIsNoRow DEF Good, Shown, Covered
<1>4. Commit(d)
  BY DEF CreateOrphanPayment, r
<1> QED
  BY <1>3, <1>4, CommitGood

\* The two refreshes after an update of a receipt restore the invariant for the
\* billing the receipt was for and the one it is for now.
LEMMA RecalculateBothGood ==
    ASSUME NEW d, NEW before \in BillingId \cup {None},
           NEW after \in BillingId \cup {None}, Good(d, {after})
    PROVE  Good(RecalculateBoth(d, before, after), {})
<1> DEFINE d1 == IF before = None THEN d
                 ELSE RecalculateBillingPayments(d, before)
           B1 == IF before = None THEN {after} ELSE {after} \ {before}
<1>1. Good(d1, B1)
  <2>1. CASE before = None
    BY <2>1
  <2>2. CASE before # None
    BY <2>2, RecalculateBillingGood
  <2> QED
    BY <2>1, <2>2
<1> HIDE DEF d1
<1>2. CASE after \in {None, before}
  <2>1. RecalculateBoth(d, before, after) = d1
    BY <1>2 DEF RecalculateBoth, d1
  <2>2. \A b \in BillingId : b \notin B1
    BY <1>2, NoneIsNoRow
  <2>3. Good(d1, {})
    BY <1>1, <2>2 DEF Good, Shown, Covered
  <2> QED
    BY <2>1, <2>3
<1>3. CASE after \notin {None, before}
  <2>1. RecalculateBoth(d, before, after) = RecalculateBillingPayments(d1, after)
    BY <1>3 DEF RecalculateBoth, d1
  <2>2. Good(RecalculateBillingPayments(d1, after), B1 \ {after})
    BY <1>1, <1>3, RecalculateBillingGood
  <2>3. B1 \ {after} = {}
    OBVIOUS
  <2> QED
    BY <2>1, <2>2, <2>3
<1> QED
  BY <1>2, <1>3

\* Writing a new billing, plot and amount into a live receipt.
LEMMA RewriteReceipt ==
    ASSUME Good(Tables, {}), NEW y \in LivePayments,
           NEW b \in BillingId \cup {None}, NEW p \in PlotId \cup {None},
           NEW x \in Amount, b # None => billing[b].state # "none"
    PROVE  LET d == [Tables EXCEPT !.payment[y].billing = b,
                                   !.payment[y].plot = p,
                                   !.payment[y].amount = x]
           IN  /\ payment[y].billing \in BillingId \cup {None}
               /\ Good(RecalculateBoth(d, payment[y].billing, b), {})
<1> DEFINE r == [payment[y] EXCEPT !.billing = b, !.plot = p, !.amount = x]
           d == [Tables EXCEPT !.payment[y] = r]
<1>1. y \in PaymentId /\ payment[y] \in PaymentRow /\ payment[y].state = "live"
  BY DEF LivePayments, Good, Database, Tables
<1>2. r \in PaymentRow /\ r.state = "live" /\ r.billing = b
  BY <1>1, LedgerAssumption DEF PaymentRow
<1>3. payment \in [PaymentId -> PaymentRow]
  BY DEF Good, Database, Tables
<1>4. d = [Tables EXCEPT !.payment[y].billing = b, !.payment[y].plot = p,
                         !.payment[y].amount = x]
  BY <1>1, <1>3 DEF Tables, PaymentRow
<1> HIDE DEF r
<1>5. Good(d, {} \cup {b})
  <2>1. r.billing \in BillingId => Tables.billing[r.billing].state # "none"
    BY <1>2, NoneIsNoRow DEF Tables
  <2> QED
    BY <1>1, <1>2, <2>1, EditOnePayment
<1>6. payment[y].billing \in BillingId \cup {None}
  BY <1>1 DEF PaymentRow
<1>7. Good(d, {b})
  BY <1>5
<1> HIDE DEF d
<1>8. Good(RecalculateBoth(d, payment[y].billing, b), {})
  BY <1>6, <1>7, RecalculateBothGood
<1> QED
  BY <1>4, <1>6, <1>8

\* updatePayment that names an invoice refreshes that one and the former one.
LEMMA RelinkPaymentGood ==
    ASSUME Good(Tables, {}), NEW y \in PaymentId, NEW b \in BillingId,
           NEW x \in Amount, RelinkPayment(y, b, x)
    PROVE  Good(Tables, {})'
<1>1. y \in LivePayments /\ billing[b].state # "none"
      /\ billing[b].plot \in PlotId \cup {None}
  BY DEF RelinkPayment, LiveBillings, Good, Database, BillingRow, Tables
<1>2. Good(RecalculateBoth(
             [Tables EXCEPT !.payment[y].billing = b,
                            !.payment[y].plot = billing[b].plot,
                            !.payment[y].amount = x],
             payment[y].billing, b), {})
  BY <1>1, RewriteReceipt
<1> QED
  BY <1>2, CommitGood DEF RelinkPayment

\* updatePayment that names no invoice refreshes the one the receipt has.
LEMMA EditPaymentGood ==
    ASSUME Good(Tables, {}), NEW y \in PaymentId,
           NEW b \in BillingId \cup {None}, NEW p \in PlotId \cup {None},
           NEW x \in Amount, EditPayment(y, b, p, x)
    PROVE  Good(Tables, {})'
<1>1. y \in LivePayments /\ b \in {payment[y].billing, None}
  BY DEF EditPayment
<1>2. b # None => billing[b].state # "none"
  BY <1>1 DEF LivePayments, Good, Bare, PaymentsOf, Tables
<1>3. Good(RecalculateBoth(
             [Tables EXCEPT !.payment[y].billing = b,
                            !.payment[y].plot = p,
                            !.payment[y].amount = x],
             payment[y].billing, b), {})
  BY <1>1, <1>2, RewriteReceipt
<1> QED
  BY <1>3, CommitGood DEF EditPayment

\* deletePayment refreshes the invoice the receipt had.
LEMMA DeletePaymentGood ==
    ASSUME Good(Tables, {}), NEW y \in PaymentId, DeletePayment(y)
    PROVE  Good(Tables, {})'
<1> DEFINE r == [payment[y] EXCEPT !.state = "deleted"]
           d == [Tables EXCEPT !.payment[y] = r]
<1>1. payment \in [PaymentId -> PaymentRow]
  BY DEF Good, Database, Tables
<1>2. r \in PaymentRow /\ r.state = "deleted"
  BY <1>1 DEF PaymentRow, RowState
<1>3. payment[y].billing \in BillingId \cup {None}
  BY <1>1 DEF PaymentRow
<1>4. d = [Tables EXCEPT !.payment[y].state = "deleted"]
  BY DEF Tables
<1> HIDE DEF r
<1>5. Good(d, {} \cup {})
  BY <1>2, EditOnePayment
<1>6. Good(d, {None})
  BY <1>5 DEF Good, Shown, Covered
<1> HIDE DEF d
<1>7. Good(RecalculateBoth(d, payment[y].billing, None), {})
  BY <1>3, <1>6, RecalculateBothGood
<1> QED
  BY <1>4, <1>7, CommitGood DEF DeletePayment

\* The counter adds a receipt of what is left, and refreshes.
LEMMA SettleRemainingGood ==
    ASSUME Good(Tables, {}), NEW b \in BillingId, NEW y \in PaymentId,
           NEW x \in Amount, NEW promise \in BOOLEAN,
           SettleRemaining(b, y, x, promise)
    PROVE  Good(Tables, {})'
<1> DEFINE d == IF x = 0 THEN Tables ELSE Receive(Tables, y, b, x)
           e == [d EXCEPT !.billing[b].promised = TRUE]
<1>1. b \in LiveBillings
      /\ Commit(IF promise /\ Remaining(b) - x >= 1 THEN e ELSE d)
  BY DEF SettleRemaining
<1>2. Good(d, {})
  BY <1>1, ReceiveGood
<1>3. x # 0 => /\ d.billing[b].state = "live"
               /\ d.billing[b].plot = billing[b].plot
  <2> DEFINE c == [Tables EXCEPT !.payment[y] =
                     NewPayment(b, Tables.billing[b].plot, x, None)]
  <2>1. c \in Database /\ c.billing = billing
    <3>1. NewPayment(b, Tables.billing[b].plot, x, None) \in PaymentRow
      <4>1. Tables.billing[b].plot \in PlotId \cup {None}
        BY DEF Good, Database, BillingRow, Tables
      <4> QED
        BY <4>1, LedgerAssumption DEF NewPayment, PaymentRow, RowState
    <3> QED
      BY <3>1 DEF Good, Database, Tables
  <2> HIDE DEF c
  <2>2. RecalculateBillingPayments(c, b).billing[b].state = c.billing[b].state
        /\ RecalculateBillingPayments(c, b).billing[b].plot = c.billing[b].plot
    BY <2>1, RecalculateBillingFrame
  <2> QED
    BY <1>1, <2>1, <2>2 DEF Receive, LiveBillings, c
<1>4. d.billing[b].state = "live"
  BY <1>1, <1>3 DEF LiveBillings, Tables
<1> HIDE DEF d
<1>5. Good(e, {})
  <2> DEFINE r == [d.billing[b] EXCEPT !.promised = TRUE]
             rows == [d.billing EXCEPT ![b] = r]
  <2>1. d.billing \in [BillingId -> BillingRow]
    BY <1>2 DEF Good, Database
  <2>2. /\ r \in BillingRow /\ r.state = "live" /\ r.plot = d.billing[b].plot
        /\ r.terminated = d.billing[b].terminated
        /\ r.status = d.billing[b].status
    BY <1>4, <2>1 DEF BillingRow
  <2>3. d.billing[b].plot \in PlotId /\ d.plot[d.billing[b].plot].live
    BY <1>2, <1>4 DEF Good, Backed, Live
  <2>4. d.billing[b].terminated =>
          d.billing[b].status \in {"terminated", "written_off"}
    BY <1>2, <1>4 DEF Good, Shown, Live
  <2>5. e = [d EXCEPT !.billing = rows]
    OBVIOUS
  <2> HIDE DEF r
  <2>6. rows \in [BillingId -> BillingRow] /\ rows[b] = r
        /\ \A k \in BillingId \ {b} : rows[k] = d.billing[k]
    BY <2>1, <2>2
  <2> HIDE DEF rows
  <2>7. Good([d EXCEPT !.billing = rows], {} \cup {})
    BY <1>2, <1>4, <2>2, <2>3, <2>4, <2>6, EditBillings
  <2> QED
    BY <2>5, <2>7
<1> HIDE DEF e
<1> QED
  BY <1>1, <1>2, <1>5, CommitGood

\* The generation inserts invoices with a total of zero.
LEMMA GenerateManagementFeesGood ==
    ASSUME Good(Tables, {}), NEW B \in SUBSET FreshBillings,
           NEW home \in [B -> LivePlots], NEW x \in Amount,
           GenerateManagementFees(home, x)
    PROVE  Good(Tables, {})'
<1> DEFINE r(b) == NewBilling(home[b], "management_fee", x, TRUE, "billed", None)
           rows == [b \in BillingId |-> IF b \in DOMAIN home THEN r(b)
                                        ELSE billing[b]]
           d == [Tables EXCEPT !.billing = rows]
           S == {home[b] : b \in DOMAIN home}
<1>1. billing \in [BillingId -> BillingRow]
  BY DEF Good, Database, Tables
<1>2. \A b \in B : /\ home[b] \in PlotId /\ plot[home[b]].live
                   /\ b \in BillingId /\ billing[b].state = "none"
  BY DEF LivePlots, FreshBillings
<1>3. \A b \in B : /\ r(b) \in BillingRow /\ r(b).state = "live"
                   /\ r(b).plot = home[b] /\ ~r(b).terminated
  <2>1. x \in Nat /\ "management_fee" \in Category /\ "billed" \in BillingStatus
    BY LedgerAssumption DEF BillingStatus
  <2>2. ASSUME NEW b \in B
        PROVE  /\ r(b) \in BillingRow /\ r(b).state = "live"
               /\ r(b).plot = home[b] /\ ~r(b).terminated
    <3>1. home[b] \in PlotId
      BY <1>2
    <3> QED
      BY <2>1, <3>1 DEF NewBilling, NoBillingRow, BillingRow, RowState
  <2> QED
    BY <2>2
<1> HIDE DEF r
<1>4. rows \in [BillingId -> BillingRow]
  BY <1>1, <1>3
<1>5. \A b \in BillingId : \/ rows[b] = billing[b]
                           \/ /\ b \in B /\ rows[b] = r(b)
  OBVIOUS
<1> HIDE DEF rows
<1>6. Good(d, {} \cup {})
  <2>1. \A k \in BillingId :
          \/ rows[k] = Tables.billing[k]
          \/ rows[k].state = "deleted"
          \/ /\ rows[k].state = "live" /\ Tables.billing[k].state # "deleted"
             /\ rows[k].plot \in PlotId /\ Tables.plot[rows[k].plot].live
             /\ rows[k].terminated /\ k \notin {} \cup {} =>
                  rows[k].status \in {"terminated", "written_off"}
    BY <1>2, <1>3, <1>5 DEF Tables
  <2> QED
    BY <1>4, <2>1, EditBillings
<1>7. Commit(RecalculatePlots(d, S))
  BY DEF GenerateManagementFees, rows, r
<1> HIDE DEF d, S
<1>8. Good(RecalculatePlots(d, S), {})
  BY <1>6, RecalculatePlotsGood
<1> QED
  BY <1>7, <1>8, CommitGood

\* Dividing leaves a natural number for every year, the first included.
LEMMA DivisionShares ==
    ASSUME NEW x \in Nat, NEW n \in Nat, n > 0
    PROVE  x \div n \in Nat /\ x - (x \div n) * (n - 1) \in Nat
<1> DEFINE q == x \div n
<1>1. q \in Int /\ n * q <= x /\ x < n * (q + 1)
  BY SMT
<1> HIDE DEF q
<1>2. q >= 0
  BY <1>1, SMT
<1>3. q * (n - 1) \in Int /\ q * (n - 1) = n * q - q
  BY <1>1, SMT
<1> QED
  BY <1>1, <1>2, <1>3 DEF q

\* The shares of a batch are natural numbers.
LEMMA AllocateType ==
    ASSUME NEW x \in Nat, NEW first, NEW years, IsFiniteSet(years), years # {}
    PROVE  Allocate(x, first, years) \in [years -> Nat]
<1>1. Cardinality(years) \in Nat /\ Cardinality(years) > 0
  BY FS_CardinalityType, FS_EmptySet
<1>2. /\ x \div Cardinality(years) \in Nat
      /\ x - (x \div Cardinality(years)) * (Cardinality(years) - 1) \in Nat
  BY <1>1, DivisionShares
<1> QED
  BY <1>2, Zenon DEF Allocate

\* The rows of a prepaid batch: every new billing starts with its receipt and
\* with the total that receipt gives it.
LEMMA CreatePrepaidBillingGood ==
    ASSUME Good(Tables, {}), NEW k \in BatchId, NEW p \in PlotId,
           NEW Y \in SUBSET FreshPayments, NEW year \in Injection(Y, FreshBillings),
           NEW y0 \in Y, NEW x \in Amount,
           CreatePrepaidBilling(k, p, year, year[y0], x)
    PROVE  /\ Good(Tables, {})'
           /\ \A b \in BillingId : Agrees(b) => Agrees(b)'
<1> DEFINE years == {year[y] : y \in DOMAIN year}
           share == Allocate(x, year[y0], years)
           r(b) == NewBilling(p, "management_fee", share[b], TRUE, "paid", k)
           s(y) == NewPayment(year[y], p, share[year[y]], k)
           rows == [b \in BillingId |-> IF b \in years THEN r(b) ELSE billing[b]]
           totals == [b \in BillingId |-> IF b \in years THEN share[b] ELSE paid[b]]
           q == [y \in PaymentId |-> IF y \in DOMAIN year THEN s(y) ELSE payment[y]]
           d == [Tables EXCEPT !.billing = rows, !.paid = totals, !.payment = q]
<1>1. /\ billing \in [BillingId -> BillingRow]
      /\ payment \in [PaymentId -> PaymentRow]
      /\ paid \in [BillingId -> Nat]
      /\ plot \in [PlotId -> PlotRow]
      /\ uncollected \in [PlotId -> Nat]
  BY DEF Good, Database, Tables
<1>2. /\ year \in [Y -> FreshBillings] /\ DOMAIN year = Y
      /\ \A y, z \in Y : year[y] = year[z] => y = z
  BY DEF Injection, IsInjective
<1>3. /\ years \subseteq BillingId /\ years # {}
      /\ \A b \in years : billing[b].state = "none"
      /\ \A y \in Y : year[y] \in years
      /\ \A b \in years : \E y \in Y : b = year[y]
  BY <1>2 DEF FreshBillings
<1>4. Y \subseteq PaymentId /\ \A y \in Y : payment[y].state = "none"
  BY DEF FreshPayments
<1>5. plot[p].live
  BY DEF CreatePrepaidBilling, LivePlots
<1> HIDE DEF years
<1>6. share \in [years -> Nat]
  <2>1. IsFiniteSet(years)
    BY <1>3, LedgerAssumption, FS_Subset
  <2>2. x \in Nat
    BY LedgerAssumption
  <2> QED
    BY <1>3, <2>1, <2>2, AllocateType
<1>7. Commit(RecalculatePlots(d, {p}))
  BY DEF CreatePrepaidBilling, years
<1> HIDE DEF share
<1>8. \A b \in years : /\ r(b) \in BillingRow /\ r(b).state = "live"
                       /\ r(b).plot = p /\ ~r(b).terminated
  <2>1. "management_fee" \in Category /\ "paid" \in BillingStatus /\ TRUE \in BOOLEAN
    BY LedgerAssumption DEF BillingStatus
  <2>2. ASSUME NEW b \in years
        PROVE  /\ r(b) \in BillingRow /\ r(b).state = "live"
               /\ r(b).plot = p /\ ~r(b).terminated
    <3>1. share[b] \in Nat
      BY <1>6
    <3> QED
      BY <2>1, <3>1 DEF NewBilling, NoBillingRow, BillingRow, RowState
  <2> QED
    BY <2>2
<1>9. \A y \in Y : /\ s(y) \in PaymentRow /\ s(y).billing = year[y]
                   /\ s(y).amount = share[year[y]]
  <2> SUFFICES ASSUME NEW y \in Y
               PROVE  /\ s(y) \in PaymentRow /\ s(y).billing = year[y]
                      /\ s(y).amount = share[year[y]]
    OBVIOUS
  <2>1. year[y] \in BillingId /\ share[year[y]] \in Nat
    BY <1>3, <1>6
  <2> QED
    BY <2>1 DEF NewPayment, PaymentRow, RowState
<1> HIDE DEF r, s
<1>10. /\ rows \in [BillingId -> BillingRow]
       /\ totals \in [BillingId -> Nat]
       /\ q \in [PaymentId -> PaymentRow]
  BY <1>1, <1>2, <1>3, <1>4, <1>6, <1>8, <1>9
<1>11. /\ \A b \in BillingId :
            IF b \in years THEN rows[b] = r(b) /\ totals[b] = share[b]
            ELSE rows[b] = billing[b] /\ totals[b] = paid[b]
       /\ \A y \in PaymentId : q[y] = IF y \in Y THEN s(y) ELSE payment[y]
  BY <1>2
<1> HIDE DEF rows, totals, q
<1>12. /\ d \in Database /\ d.billing = rows /\ d.paid = totals
       /\ d.payment = q /\ d.plot = plot
  BY <1>1, <1>10 DEF Database, Tables
<1> HIDE DEF d
<1>13. \A b \in BillingId \ years : PaymentsOf(d, b) = PaymentsOf(Tables, b)
  <2> SUFFICES ASSUME NEW b \in BillingId \ years, NEW y \in PaymentId
               PROVE  d.payment[y].state = "live" /\ d.payment[y].billing = b
                        <=> payment[y].state = "live" /\ payment[y].billing = b
    BY DEF PaymentsOf, Tables
  <2>1. CASE y \in Y
    BY <1>3, <1>4, <1>9, <1>11, <1>12, <2>1
  <2>2. CASE y \notin Y
    BY <1>11, <1>12, <2>2
  <2> QED
    BY <2>1, <2>2
<1>14. \A b \in BillingId \ years : Received(d, b) = Received(Tables, b)
  <2> SUFFICES ASSUME NEW b \in BillingId \ years
               PROVE  Received(d, b) = Received(Tables, b)
    OBVIOUS
  <2>1. \A y \in PaymentsOf(Tables, b) : d.payment[y] = payment[y]
    BY <1>4, <1>11, <1>12 DEF PaymentsOf, Tables
  <2>2. [y \in PaymentsOf(d, b) |-> d.payment[y].amount]
          = [y \in PaymentsOf(Tables, b) |-> Tables.payment[y].amount]
    BY <1>13, <2>1 DEF Tables
  <2> QED
    BY <2>2 DEF Received
<1>15. \A b \in years : Received(d, b) = share[b]
  <2> SUFFICES ASSUME NEW b \in years PROVE Received(d, b) = share[b]
    OBVIOUS
  <2>1. PICK y \in Y : b = year[y]
    BY <1>3
  <2>2. PaymentsOf(Tables, b) = {}
    BY <1>3 DEF Good, Bare, Tables
  <2>3. s(y).state = "live"
    BY DEF s, NewPayment
  <2>4. PaymentsOf(d, b) = {y}
    <3>1. y \in PaymentsOf(d, b)
      BY <1>4, <1>9, <1>11, <1>12, <2>1, <2>3 DEF PaymentsOf
    <3>2. ASSUME NEW z \in PaymentsOf(d, b) PROVE z = y
      <4>1. z \in PaymentId /\ d.payment[z].state = "live"
            /\ d.payment[z].billing = b
        BY DEF PaymentsOf
      <4>2. z \in Y
        BY <1>11, <1>12, <2>2, <4>1 DEF PaymentsOf, Tables
      <4> QED
        BY <1>2, <1>9, <1>11, <1>12, <2>1, <4>1, <4>2
    <3> QED
      BY <3>1, <3>2
  <2>5. d.payment[y].amount = share[b]
    BY <1>4, <1>9, <1>11, <1>12, <2>1
  <2>6. [z \in PaymentsOf(d, b) |-> d.payment[z].amount] = [z \in {y} |-> share[b]]
    BY <2>4, <2>5
  <2>7. share[b] \in Nat
    BY <1>6
  <2> QED
    BY <2>6, <2>7, SumSingleton DEF Received
<1>16. Good(d, {})
  <2>1. Backed(d) /\ Shown(d, {})
    BY <1>5, <1>8, <1>11, <1>12 DEF Good, Backed, Shown, Live, Tables
  <2>2. Bare(d)
    BY <1>8, <1>11, <1>12, <1>13 DEF Good, Bare, Tables
  <2>3. Covered(d, {})
    <3> SUFFICES ASSUME NEW b \in BillingId, Live(d, b)
                 PROVE  d.paid[b] >= Received(d, b)
      BY DEF Covered
    <3>1. CASE b \in years
      BY <1>6, <1>11, <1>12, <1>15, <3>1
    <3>2. CASE b \notin years
      BY <1>11, <1>12, <1>14, <3>2 DEF Good, Covered, Live, Tables
    <3> QED
      BY <3>1, <3>2
  <2> QED
    BY <1>12, <2>1, <2>2, <2>3 DEF Good
<1>17. Good(RecalculatePlots(d, {p}), {})
  BY <1>16, RecalculatePlotsGood
<1>18. Tables' = RecalculatePlots(d, {p})
  BY <1>7, <1>17, CommitTables DEF Good
<1>19. ASSUME NEW b \in BillingId, Agrees(b) PROVE Agrees(b)'
  <2>1. AgreesIn(d, b)
    <3>1. CASE b \in years
      BY <1>11, <1>12, <1>15, <3>1 DEF AgreesIn
    <3>2. CASE b \notin years
      BY <1>11, <1>12, <1>14, <1>19, <3>2 DEF AgreesIn, Agrees
    <3> QED
      BY <3>1, <3>2
  <2>2. AgreesIn(RecalculatePlots(d, {p}), b)
    BY <1>12, <2>1, PlotsAgree
  <2> QED
    BY <1>18, <2>2, AgreesAfter
<1> QED
  BY <1>7, <1>17, <1>19, CommitGood

\* Deleting receipts and billings, whichever they are.
LEMMA DeleteRowsGood ==
    ASSUME Good(Tables, {}), NEW ys, NEW bs
    PROVE  Good([Tables EXCEPT
             !.payment = [y \in PaymentId |->
                 IF y \in ys THEN [payment[y] EXCEPT !.state = "deleted"]
                 ELSE payment[y]],
             !.billing = [b \in BillingId |->
                 IF b \in bs THEN [billing[b] EXCEPT !.state = "deleted"]
                 ELSE billing[b]]], {})
<1> DEFINE q == [y \in PaymentId |->
                   IF y \in ys THEN [payment[y] EXCEPT !.state = "deleted"]
                   ELSE payment[y]]
           rows == [b \in BillingId |->
                      IF b \in bs THEN [billing[b] EXCEPT !.state = "deleted"]
                      ELSE billing[b]]
           d == [Tables EXCEPT !.payment = q]
<1>1. /\ billing \in [BillingId -> BillingRow]
      /\ payment \in [PaymentId -> PaymentRow]
  BY DEF Good, Database, Tables
<1>2. /\ q \in [PaymentId -> PaymentRow] /\ rows \in [BillingId -> BillingRow]
      /\ \A y \in PaymentId : q[y] = payment[y] \/ q[y].state = "deleted"
      /\ \A b \in BillingId : rows[b] = billing[b] \/ rows[b].state = "deleted"
  BY <1>1 DEF PaymentRow, BillingRow, RowState
<1> HIDE DEF q, rows
<1>3. Good(d, {} \cup {})
  <2>1. \A y \in PaymentId, b \in BillingId :
          q[y].state = "live" /\ q[y].billing = b =>
            /\ Tables.billing[b].state # "none"
            /\ b \notin {} => y \in PaymentsOf(Tables, b)
                              /\ q[y].amount = Tables.payment[y].amount
    <3> SUFFICES ASSUME NEW y \in PaymentId, NEW b \in BillingId,
                        q[y].state = "live", q[y].billing = b
                 PROVE  /\ Tables.billing[b].state # "none"
                        /\ y \in PaymentsOf(Tables, b)
                        /\ q[y].amount = Tables.payment[y].amount
      OBVIOUS
    <3>1. q[y] = payment[y]
      BY <1>2
    <3>2. y \in PaymentsOf(Tables, b)
      BY <3>1 DEF PaymentsOf, Tables
    <3> QED
      BY <3>1, <3>2 DEF Good, Bare, Tables
  <2> QED
    BY <1>2, <2>1, EditPayments
<1>4. d.billing = billing
  BY DEF Tables
<1> HIDE DEF d
<1>5. Good([d EXCEPT !.billing = rows], {} \cup {})
  BY <1>2, <1>3, <1>4, EditBillings
<1> QED
  BY <1>5 DEF d, q, rows

\* deletePrepaidBilling deletes receipts, which lowers what totals must cover.
LEMMA DeletePrepaidBillingGood ==
    ASSUME Good(Tables, {}), NEW k \in BatchId, DeletePrepaidBilling(k)
    PROVE  Good(Tables, {})'
<1> DEFINE bs == {b \in LiveBillings : billing[b].batch = k}
           ys == {y \in LivePayments : payment[y].batch = k}
           d == [Tables EXCEPT
             !.payment = [y \in PaymentId |->
                 IF y \in ys THEN [payment[y] EXCEPT !.state = "deleted"]
                 ELSE payment[y]],
             !.billing = [b \in BillingId |->
                 IF b \in bs THEN [billing[b] EXCEPT !.state = "deleted"]
                 ELSE billing[b]]]
           S == {billing[b].plot : b \in bs}
<1>1. Commit(RecalculatePlots(d, S))
  BY DEF DeletePrepaidBilling
<1> HIDE DEF bs, ys
<1>2. Good(d, {})
  BY DeleteRowsGood
<1> HIDE DEF d, S
<1>3. Good(RecalculatePlots(d, S), {})
  BY <1>2, RecalculatePlotsGood
<1> QED
  BY <1>1, <1>3, CommitGood

\* The plot form touches no invoice.
LEMMA EditPlotStatusGood ==
    ASSUME Good(Tables, {}), NEW p \in PlotId, NEW s \in PlotStatusInput,
           EditPlotStatus(p, s)
    PROVE  Good(Tables, {})'
<1> DEFINE rows == [plot EXCEPT ![p].status = s]
           d == [Tables EXCEPT !.plot = rows]
<1>1. plot \in [PlotId -> PlotRow] /\ s \in PaymentStatus
  BY LedgerAssumption DEF Good, Database, Tables
<1>2. rows \in [PlotId -> PlotRow] /\ \A r \in PlotId : rows[r].live = plot[r].live
  BY <1>1 DEF PlotRow
<1>3. Commit(d)
  <2>1. d = [Tables EXCEPT !.plot[p].status = s]
    BY DEF Tables
  <2> QED
    BY <2>1 DEF EditPlotStatus
<1> HIDE DEF rows
<1>4. \A b \in BillingId : Live(Tables, b) => rows[Tables.billing[b].plot].live
  BY <1>2 DEF Good, Backed, Tables
<1>5. Good(d, {})
  BY <1>2, <1>4, EditPlots
<1> QED
  BY <1>3, <1>5, CommitGood

\* deletePlot deletes every invoice of the plot along with it.
LEMMA DeletePlotGood ==
    ASSUME Good(Tables, {}), NEW p \in PlotId, DeletePlot(p)
    PROVE  Good(Tables, {})'
<1> DEFINE bs == {b \in LiveBillings : billing[b].plot = p}
           ys == {y \in LivePayments : payment[y].plot = p}
           q == [y \in PaymentId |->
                   IF y \in ys THEN [payment[y] EXCEPT !.state = "deleted"]
                   ELSE payment[y]]
           kept == [b \in BillingId |->
                      IF b \in bs THEN [billing[b] EXCEPT !.state = "deleted"]
                      ELSE billing[b]]
           d == [Tables EXCEPT !.payment = q, !.billing = kept]
           rows == [plot EXCEPT ![p].live = FALSE]
           e == [d EXCEPT !.plot = rows]
<1>1. /\ billing \in [BillingId -> BillingRow] /\ plot \in [PlotId -> PlotRow]
      /\ payment \in [PaymentId -> PaymentRow]
  BY DEF Good, Database, Tables
<1>2. Good(d, {})
  <2> HIDE DEF bs, ys
  <2> QED
    BY DeleteRowsGood
<1>3. /\ rows \in [PlotId -> PlotRow]
      /\ \A r \in PlotId \ {p} : rows[r] = plot[r]
  BY <1>1 DEF PlotRow
<1>4. \A b \in BillingId : Live(d, b) => rows[d.billing[b].plot].live
  <2> SUFFICES ASSUME NEW b \in BillingId, Live(d, b)
               PROVE  rows[d.billing[b].plot].live
    OBVIOUS
  <2>1. d.billing = kept
    BY DEF Tables
  <2>2. b \notin bs
    BY <1>1, <2>1 DEF Live, BillingRow
  <2>3. d.billing[b] = billing[b] /\ billing[b].state = "live"
    BY <2>1, <2>2 DEF Live
  <2>4. billing[b].plot # p
    BY <2>2, <2>3 DEF LiveBillings
  <2>5. billing[b].plot \in PlotId /\ plot[billing[b].plot].live
    BY <2>3 DEF Good, Backed, Live, Tables
  <2> QED
    BY <1>3, <2>3, <2>4, <2>5
<1>5. Commit(e)
  <2>1. e = [Tables EXCEPT
         !.plot[p].live = FALSE,
         !.billing = [b \in BillingId |->
             IF b \in LiveBillings /\ billing[b].plot = p
             THEN [billing[b] EXCEPT !.state = "deleted"] ELSE billing[b]],
         !.payment = [y \in PaymentId |->
             IF y \in LivePayments /\ payment[y].plot = p
             THEN [payment[y] EXCEPT !.state = "deleted"] ELSE payment[y]]]
    <3>1. \A b \in BillingId : b \in bs <=> b \in LiveBillings /\ billing[b].plot = p
      OBVIOUS
    <3>2. \A y \in PaymentId : y \in ys <=> y \in LivePayments /\ payment[y].plot = p
      OBVIOUS
    <3> HIDE DEF bs, ys
    <3> QED
      BY <3>1, <3>2 DEF Tables
  <2> QED
    BY <2>1 DEF DeletePlot
<1> HIDE DEF d, rows
<1>6. Good(e, {})
  BY <1>2, <1>3, <1>4, EditPlots
<1> QED
  BY <1>5, <1>6, CommitGood

-----------------------------------------------------------------------------
(* The invariant *)

\* What the migration leaves is good.
LEMMA InitGood ==
    ASSUME Init
    PROVE  Good(Tables, {})
<1>1. PICK home \in [Migrated -> PlotId], c \in [Migrated -> Category],
           x \in [Migrated -> Amount], total \in [Migrated -> Amount],
           gone \in [Migrated -> BOOLEAN] :
        LET loaded ==
              [billing |-> [b \in BillingId |->
                   IF b \in Migrated
                   THEN MigratedRow(home[b], c[b], x[b], total[b], gone[b])
                   ELSE NoBillingRow],
               paid |-> [b \in BillingId |-> IF b \in Migrated THEN total[b] ELSE 0],
               payment |-> [y \in PaymentId |-> NoPaymentRow],
               plot |-> [p \in PlotId |-> [live |-> TRUE, status |-> "unpaid"]],
               uncollected |-> [p \in PlotId |-> 0]]
            d == RecalculatePlots(loaded, PlotId)
        IN /\ billing = d.billing
           /\ paid = d.paid
           /\ payment = d.payment
           /\ plot = d.plot
           /\ uncollected = d.uncollected
  BY DEF Init
<1> DEFINE rows == [b \in BillingId |->
                      IF b \in Migrated
                      THEN MigratedRow(home[b], c[b], x[b], total[b], gone[b])
                      ELSE NoBillingRow]
           totals == [b \in BillingId |-> IF b \in Migrated THEN total[b] ELSE 0]
           q == [y \in PaymentId |-> NoPaymentRow]
           plots == [p \in PlotId |-> [live |-> TRUE, status |-> "unpaid"]]
           none == [p \in PlotId |-> 0]
           loaded == [billing |-> rows, paid |-> totals, payment |-> q,
                      plot |-> plots, uncollected |-> none]
<1>2. \A b \in Migrated :
        LET r == MigratedRow(home[b], c[b], x[b], total[b], gone[b]) IN
        /\ r \in BillingRow /\ r.state = "live" /\ r.plot = home[b]
        /\ r.terminated => r.status = "terminated"
  <2> SUFFICES ASSUME NEW b \in Migrated
               PROVE  LET r == MigratedRow(home[b], c[b], x[b], total[b], gone[b])
                      IN  /\ r \in BillingRow /\ r.state = "live"
                          /\ r.plot = home[b]
                          /\ r.terminated => r.status = "terminated"
    OBVIOUS
  <2> DEFINE s == MigratedStatus(gone[b], x[b], total[b])
             n == NewBilling(home[b], c[b], x[b], TRUE, s, None)
  <2>1. x[b] \in Nat /\ home[b] \in PlotId /\ c[b] \in Category
        /\ gone[b] \in BOOLEAN
    BY LedgerAssumption
  <2>2. s \in BillingStatus /\ (gone[b] => s = "terminated")
    BY DEF MigratedStatus, BillingStatus
  <2> HIDE DEF s
  <2>3. n \in BillingRow /\ n.state = "live" /\ n.plot = home[b] /\ n.status = s
    BY <2>1, <2>2 DEF NewBilling, NoBillingRow, BillingRow, RowState
  <2> HIDE DEF n
  <2>4. MigratedRow(home[b], c[b], x[b], total[b], gone[b])
          = [n EXCEPT !.legacy = TRUE, !.terminated = gone[b]]
    BY DEF MigratedRow, n, s
  <2> QED
    BY <2>1, <2>2, <2>3, <2>4 DEF BillingRow
<1>3. NoBillingRow \in BillingRow /\ NoBillingRow.state = "none"
  BY LedgerAssumption DEF NoBillingRow, BillingRow, RowState, BillingStatus
<1>4. NoPaymentRow \in PaymentRow /\ NoPaymentRow.state = "none"
  BY DEF NoPaymentRow, PaymentRow, RowState
<1>5. loaded \in Database
  <2>1. \A b \in BillingId : rows[b] \in BillingRow /\ totals[b] \in Nat
    BY <1>2, <1>3, LedgerAssumption
  <2>2. q \in [PaymentId -> PaymentRow]
    BY <1>4
  <2>3. plots \in [PlotId -> PlotRow] /\ none \in [PlotId -> Nat]
    BY DEF PlotRow, PaymentStatus
  <2>4. rows \in [BillingId -> BillingRow] /\ totals \in [BillingId -> Nat]
    BY <2>1
  <2> QED
    BY <2>2, <2>3, <2>4 DEF Database
<1>6. \A b : PaymentsOf(loaded, b) = {}
  BY <1>4 DEF PaymentsOf
<1>7. \A b : Received(loaded, b) = 0
  BY <1>6, SumEmpty DEF Received
<1>8. Good(loaded, {})
  <2>1. \A b \in BillingId : Live(loaded, b) => b \in Migrated
    BY <1>3 DEF Live
  <2>2. \A b \in Migrated :
          /\ loaded.billing[b].state = "live"
          /\ loaded.billing[b].plot = home[b]
          /\ loaded.billing[b].terminated => loaded.billing[b].status = "terminated"
          /\ loaded.paid[b] \in Nat
    BY <1>2, LedgerAssumption
  <2>3. \A p \in PlotId : loaded.plot[p].live
    OBVIOUS
  <2>4. \A b \in BillingId : loaded.billing[b].state = "none" => loaded.paid[b] = 0
    BY <2>2
  <2> HIDE DEF loaded
  <2>5. Backed(loaded)
    BY <2>1, <2>2, <2>3 DEF Backed
  <2>6. Bare(loaded)
    BY <1>6, <2>4 DEF Bare
  <2>7. Shown(loaded, {}) /\ Covered(loaded, {})
    BY <1>7, <2>1, <2>2 DEF Shown, Covered
  <2> QED
    BY <1>5, <2>5, <2>6, <2>7 DEF Good
<1> DEFINE d == RecalculatePlots(loaded, PlotId)
<1>9. Good(d, {})
  BY <1>8, RecalculatePlotsGood
<1>10. /\ billing = d.billing /\ paid = d.paid /\ payment = d.payment
       /\ plot = d.plot /\ uncollected = d.uncollected
  BY <1>1
<1> HIDE DEF d
<1>11. Tables = d
  BY <1>9, <1>10 DEF Tables, Good, Database
<1> QED
  BY <1>9, <1>11

\* Every handler keeps the invariant.
LEMMA NextGood ==
    ASSUME Good(Tables, {}), [Next]_vars
    PROVE  Good(Tables, {})'
<1>1. CASE InvoiceStep
  BY <1>1, CreateBillingGood, UpdateBillingGood, DeleteBillingGood DEF InvoiceStep
<1>2. CASE ReceiptStep
  <2>1. PICK y \in PaymentId, x \in Amount :
          \/ \E p \in PlotId \cup {None} :
               \/ CreateOrphanPayment(y, p, x)
               \/ \E b \in BillingId \cup {None} : EditPayment(y, b, p, x)
          \/ DeletePayment(y)
          \/ \E b \in BillingId :
               \/ CreateBilledPayment(y, b, x)
               \/ RelinkPayment(y, b, x)
               \/ \E promise \in BOOLEAN : SettleRemaining(b, y, x, promise)
               \/ ApplyYuchoResult(b, y, x)
    BY <1>2 DEF ReceiptStep
  <2>2. CASE \E p \in PlotId \cup {None} :
               \/ CreateOrphanPayment(y, p, x)
               \/ \E b \in BillingId \cup {None} : EditPayment(y, b, p, x)
    BY <2>2, CreateOrphanPaymentGood, EditPaymentGood
  <2>3. CASE DeletePayment(y)
    BY <2>3, DeletePaymentGood
  <2>4. CASE \E b \in BillingId :
               \/ CreateBilledPayment(y, b, x)
               \/ RelinkPayment(y, b, x)
               \/ \E promise \in BOOLEAN : SettleRemaining(b, y, x, promise)
               \/ ApplyYuchoResult(b, y, x)
    BY <2>4, CreateBilledPaymentGood, RelinkPaymentGood, SettleRemainingGood,
       ApplyYuchoResultGood
  <2> QED
    BY <2>1, <2>2, <2>3, <2>4
<1>3. CASE BatchStep
  <2>1. PICK x \in Amount :
          \/ \E B \in SUBSET FreshBillings \ {{}} :
               \E home \in Injection(B, LivePlots) : GenerateManagementFees(home, x)
          \/ \E k \in BatchId, p \in PlotId, Y \in SUBSET FreshPayments \ {{}} :
               \E year \in Injection(Y, FreshBillings) : \E y \in Y :
                 CreatePrepaidBilling(k, p, year, year[y], x)
          \/ \E k \in BatchId : DeletePrepaidBilling(k)
    BY <1>3 DEF BatchStep
  <2>2. CASE \E B \in SUBSET FreshBillings \ {{}} :
               \E home \in Injection(B, LivePlots) : GenerateManagementFees(home, x)
    <3>1. PICK B \in SUBSET FreshBillings \ {{}} :
            \E home \in Injection(B, LivePlots) : GenerateManagementFees(home, x)
      BY <2>2
    <3>2. PICK home \in Injection(B, LivePlots) : GenerateManagementFees(home, x)
      BY <3>1
    <3>3. home \in [B -> LivePlots]
      BY <3>2 DEF Injection
    <3> QED
      BY <3>1, <3>2, <3>3, GenerateManagementFeesGood
  <2>3. CASE \E k \in BatchId, p \in PlotId, Y \in SUBSET FreshPayments \ {{}} :
               \E year \in Injection(Y, FreshBillings) : \E y \in Y :
                 CreatePrepaidBilling(k, p, year, year[y], x)
    BY <2>3, CreatePrepaidBillingGood
  <2>4. CASE \E k \in BatchId : DeletePrepaidBilling(k)
    BY <2>4, DeletePrepaidBillingGood
  <2> QED
    BY <2>1, <2>2, <2>3, <2>4
<1>4. CASE PlotStep
  BY <1>4, EditPlotStatusGood, DeletePlotGood DEF PlotStep
<1>5. CASE UNCHANGED vars
  BY <1>5 DEF vars, Tables, Good, Backed, Bare, Shown, Covered, Live,
              PaymentsOf, Received
<1> QED
  BY <1>1, <1>2, <1>3, <1>4, <1>5 DEF Next

\* The inductive invariant of the ledger holds in every reachable state.
THEOREM LedgerInvariant == Spec => []Good(Tables, {})
<1>1. Init => Good(Tables, {})
  BY InitGood
<1>2. Good(Tables, {}) /\ [Next]_vars => Good(Tables, {})'
  BY NextGood
<1> QED
  BY <1>1, <1>2, PTL DEF Spec

-----------------------------------------------------------------------------
(* The properties of the runs *)

\* Every row keeps its shape and every cached amount is a natural number.
THEOREM TypeCorrect == Spec => []TypeOK
<1>1. Good(Tables, {}) => TypeOK
  BY DEF Good, TypeOK
<1> QED
  BY <1>1, LedgerInvariant, PTL

\* No handler leaves a total below what was received for the invoice, so the
\* counter never asks for more than is owed.
THEOREM TotalsCover == Spec => []CachedTotalCovers
<1>1. Good(Tables, {}) => CachedTotalCovers
  BY DEF Good, Covered, CachedTotalCovers, LiveBillings, Live, Tables
<1> QED
  BY <1>1, LedgerInvariant, PTL

\* A deleted plot has no live invoice: deletePlot deletes them, and no handler
\* adds one to it or brings one back.
THEOREM DeletedPlotsAreClear == Spec => []DeletedPlotOwesNothing
<1>1. Good(Tables, {}) => DeletedPlotOwesNothing
  BY DEF Good, Backed, DeletedPlotOwesNothing, LiveBillings, LivePlots, Live, Tables
<1> QED
  BY <1>1, LedgerInvariant, PTL

\* An invoice flagged as terminated shows as terminated or written off, whatever
\* is received or edited afterwards.
THEOREM TerminationShows == Spec => []TerminatedShown
<1>1. Good(Tables, {}) => TerminatedShown
  BY DEF Good, Shown, TerminatedShown, LiveBillings, Live, Tables
<1> QED
  BY <1>1, LedgerInvariant, PTL

-----------------------------------------------------------------------------
(* Only cascades put a total out of step with its receipts *)

\* A receipt rewritten and both its billings refreshed.
LEMMA RewriteAgrees ==
    ASSUME Good(Tables, {}), NEW y \in LivePayments, NEW r \in PaymentRow,
           NEW after \in BillingId \cup {None},
           IF r.state = "live" THEN r.billing = after ELSE after = None,
           after \in {payment[y].billing, None} \/ Live(Tables, after),
           NEW b \in BillingId, ~billing[b].legacy, Agrees(b),
           billing[b].state # "deleted",
           NEW d, d = [Tables EXCEPT !.payment[y] = r],
           Commit(RecalculateBoth(d, payment[y].billing, after))
    PROVE  Agrees(b)'
<1> DEFINE before == payment[y].billing
           e == RecalculateBoth(d, before, after)
<1>1. /\ y \in PaymentId /\ payment[y].state = "live"
      /\ before \in BillingId \cup {None}
      /\ payment \in [PaymentId -> PaymentRow]
      /\ Tables \in Database
  BY DEF LivePayments, Good, Database, PaymentRow, Tables
<1>2. b \in {before, after} => Live(Tables, b)
  <2>1. CASE b = before
    <3>1. y \in PaymentsOf(Tables, b)
      BY <1>1, <2>1 DEF PaymentsOf, Tables
    <3>2. Tables.billing[b].state # "none"
      BY <3>1 DEF Good, Bare
    <3>3. Tables.billing[b].state \in RowState
      BY <1>1 DEF Database, BillingRow
    <3> QED
      BY <3>2, <3>3 DEF Live, RowState, Tables
  <2>2. CASE b = after /\ b # before
    BY <2>2, NoneIsNoRow
  <2> QED
    BY <2>1, <2>2
<1>3. /\ d \in Database /\ d.billing = Tables.billing /\ d.paid = Tables.paid
      /\ d.payment = [payment EXCEPT ![y] = r]
  BY <1>1 DEF Database, Tables
<1>4. b \notin {before, after} => AgreesIn(d, b)
  <2> SUFFICES ASSUME b \notin {before, after} PROVE AgreesIn(d, b)
    OBVIOUS
  <2>1. r.state = "live" => r.billing # b
    OBVIOUS
  <2>2. \A z \in PaymentId : z # y => d.payment[z] = Tables.payment[z]
    BY <1>1, <1>3 DEF Tables
  <2>3. y \notin PaymentsOf(d, b) /\ y \notin PaymentsOf(Tables, b)
    BY <1>1, <1>3, <2>1 DEF PaymentsOf, Tables
  <2>4. PaymentsOf(d, b) = PaymentsOf(Tables, b)
    BY <2>2, <2>3 DEF PaymentsOf
  <2>5. \A z \in PaymentsOf(d, b) : d.payment[z].amount = Tables.payment[z].amount
    BY <2>2, <2>3 DEF PaymentsOf
  <2>6. AgreesIn(Tables, b)
    BY AgreesBefore
  <2> QED
    BY <1>3, <2>4, <2>5, <2>6, SameReceipts
<1>5. ~d.billing[b].legacy /\ (b \in {before, after} => Live(d, b))
  BY <1>2, <1>3 DEF Live, Tables
<1>6. AgreesIn(e, b)
  BY <1>1, <1>3, <1>4, <1>5, BothAgree
<1>7. Good(e, {})
  <2>1. r.state = "live" /\ r.billing \in BillingId =>
          Tables.billing[r.billing].state # "none"
    <3> SUFFICES ASSUME r.state = "live", r.billing \in BillingId
                 PROVE  Tables.billing[r.billing].state # "none"
      OBVIOUS
    <3>1. CASE after = before
      <4>1. y \in PaymentsOf(Tables, after)
        BY <1>1, <3>1 DEF PaymentsOf, Tables
      <4> QED
        BY <4>1 DEF Good, Bare
    <3>2. CASE Live(Tables, after)
      BY <3>2 DEF Live
    <3> QED
      BY <3>1, <3>2, NoneIsNoRow
  <2>2. Good(d, {} \cup (IF r.state = "live" THEN {r.billing} ELSE {}))
    BY <1>1, <2>1, EditOnePayment
  <2>3. Good(d, {after})
    <3>1. {} \cup (IF r.state = "live" THEN {r.billing} ELSE {}) \subseteq {after}
      OBVIOUS
    <3> QED
      BY <2>2, <3>1 DEF Good, Shown, Covered
  <2> QED
    BY <1>1, <2>3, RecalculateBothGood
<1> HIDE DEF e
<1>8. Tables' = e
  BY <1>7, CommitTables DEF Good, e
<1> QED
  BY <1>6, <1>8, AgreesAfter

\* A new receipt and its billing refreshed.
LEMMA ReceiveAgrees ==
    ASSUME Good(Tables, {}), NEW y \in FreshPayments, NEW c \in LiveBillings,
           NEW x \in Amount, NEW b \in BillingId, ~billing[b].legacy, Agrees(b)
    PROVE  AgreesIn(Receive(Tables, y, c, x), b)
<1> DEFINE r == NewPayment(c, Tables.billing[c].plot, x, None)
           d == [Tables EXCEPT !.payment[y] = r]
<1>1. /\ c \in BillingId /\ billing[c].state = "live"
      /\ y \in PaymentId /\ payment[y].state = "none"
      /\ payment \in [PaymentId -> PaymentRow]
      /\ Tables.billing[c].plot \in PlotId \cup {None}
      /\ Tables \in Database
  BY DEF LiveBillings, FreshPayments, Tables, Good, Database, BillingRow
<1>2. r \in PaymentRow /\ r.billing = c
  BY <1>1, LedgerAssumption DEF NewPayment, PaymentRow, RowState
<1> HIDE DEF r
<1>3. /\ d \in Database /\ d.billing = billing /\ d.paid = paid
      /\ d.payment = [payment EXCEPT ![y] = r]
  BY <1>1, <1>2 DEF Database, Tables
<1> HIDE DEF d
<1>4. b # c => AgreesIn(d, b)
  <2> SUFFICES ASSUME b # c PROVE AgreesIn(d, b)
    OBVIOUS
  <2>1. \A z \in PaymentId : z # y => d.payment[z] = Tables.payment[z]
    BY <1>1, <1>3 DEF Tables
  <2>2. y \notin PaymentsOf(d, b) /\ y \notin PaymentsOf(Tables, b)
    BY <1>1, <1>2, <1>3 DEF PaymentsOf, Tables
  <2>3. PaymentsOf(d, b) = PaymentsOf(Tables, b)
    BY <2>1, <2>2 DEF PaymentsOf
  <2>4. \A z \in PaymentsOf(d, b) : d.payment[z].amount = Tables.payment[z].amount
    BY <2>1, <2>2 DEF PaymentsOf
  <2>5. AgreesIn(Tables, b) /\ d.paid[b] = Tables.paid[b]
    BY <1>3, AgreesBefore DEF Tables
  <2> QED
    BY <2>3, <2>4, <2>5, SameReceipts
<1>5. b # c \/ ~Live(d, c) => AgreesIn(d, b)
  BY <1>1, <1>3, <1>4 DEF Live
<1>6. AgreesIn(RecalculateBillingPayments(d, c), b)
  BY <1>1, <1>3, <1>5, BillingAgrees
<1> QED
  BY <1>6 DEF Receive, d, r

\* Whatever a step does elsewhere, a billing whose total and whose receipts it
\* leaves alone keeps agreeing.
LEMMA UntouchedAgrees ==
    ASSUME NEW b, Agrees(b), paid'[b] = paid[b],
           PaymentsOf(Tables, b)' = PaymentsOf(Tables, b),
           \A y \in PaymentsOf(Tables, b) : payment'[y].amount = payment[y].amount
    PROVE  Agrees(b)'
<1>1. [y \in PaymentsOf(Tables, b)' |-> payment'[y].amount]
        = [y \in PaymentsOf(Tables, b) |-> payment[y].amount]
  OBVIOUS
<1>2. Received(Tables, b)' = Received(Tables, b)
  BY <1>1 DEF Received, Tables
<1> QED
  BY <1>2 DEF Agrees

\* A handler that writes neither totals nor receipts leaves agreement alone.
LEMMA SameTablesAgree ==
    ASSUME NEW b, Agrees(b), paid' = paid, payment' = payment
    PROVE  Agrees(b)'
BY UntouchedAgrees DEF PaymentsOf, Tables

\* The steps that touch neither a total nor a receipt.
LEMMA CommitPlots ==
    ASSUME NEW rows, NEW S, NEW b, Agrees(b),
           Commit(RecalculatePlots([Tables EXCEPT !.billing = rows], S))
    PROVE  Agrees(b)'
<1>1. paid' = paid /\ payment' = payment
  BY DEF Commit, RecalculatePlots, Tables
<1> QED
  BY <1>1, SameTablesAgree

\* deleteBilling takes the receipts of its own invoice only.
LEMMA DeleteBillingAgrees ==
    ASSUME NEW c \in BillingId, DeleteBilling(c), NEW b \in BillingId, b # c,
           Agrees(b)
    PROVE  Agrees(b)'
<1>1. /\ paid' = paid
      /\ payment' = [y \in PaymentId |->
                       IF y \in PaymentsOf(Tables, c)
                       THEN [payment[y] EXCEPT !.billing = None] ELSE payment[y]]
  BY DEF DeleteBilling, Commit, RecalculatePlots, Tables
<1>2. ASSUME NEW y \in PaymentId
      PROVE  /\ y \in PaymentsOf(Tables, b)' <=> y \in PaymentsOf(Tables, b)
             /\ y \in PaymentsOf(Tables, b) => payment'[y].amount = payment[y].amount
  <2>1. CASE y \in PaymentsOf(Tables, c)
    <3>1. payment[y].billing = c /\ payment'[y] = [payment[y] EXCEPT !.billing = None]
      BY <1>1, <2>1 DEF PaymentsOf, Tables
    <3>2. payment'[y].billing # b
      BY <3>1, NoneIsNoRow
    <3> QED
      BY <3>1, <3>2 DEF PaymentsOf, Tables
  <2>2. CASE y \notin PaymentsOf(Tables, c)
    BY <1>1, <2>2 DEF PaymentsOf, Tables
  <2> QED
    BY <2>1, <2>2
<1>3. PaymentsOf(Tables, b)' = PaymentsOf(Tables, b)
  BY <1>2 DEF PaymentsOf
<1>4. \A y \in PaymentsOf(Tables, b) : payment'[y].amount = payment[y].amount
  BY <1>2 DEF PaymentsOf
<1> QED
  BY <1>1, <1>3, <1>4, UntouchedAgrees

\* Deleting receipts that are not receipts of b.
LEMMA DeletedElsewhere ==
    ASSUME NEW ys, NEW b \in BillingId, Agrees(b), paid' = paid,
           payment' = [y \in PaymentId |->
                         IF y \in ys THEN [payment[y] EXCEPT !.state = "deleted"]
                         ELSE payment[y]],
           \A y \in ys : y \notin PaymentsOf(Tables, b),
           payment \in [PaymentId -> PaymentRow]
    PROVE  Agrees(b)'
<1>1. ASSUME NEW y \in PaymentId
      PROVE  /\ y \in PaymentsOf(Tables, b)' <=> y \in PaymentsOf(Tables, b)
             /\ y \in PaymentsOf(Tables, b) => payment'[y].amount = payment[y].amount
  <2>1. CASE y \in ys
    <3>1. payment'[y].state = "deleted"
      BY <2>1 DEF PaymentRow
    <3> QED
      BY <2>1, <3>1 DEF PaymentsOf, Tables
  <2>2. CASE y \notin ys
    BY <2>2 DEF PaymentsOf, Tables
  <2> QED
    BY <2>1, <2>2
<1>2. PaymentsOf(Tables, b)' = PaymentsOf(Tables, b)
  BY <1>1 DEF PaymentsOf
<1>3. \A y \in PaymentsOf(Tables, b) : payment'[y].amount = payment[y].amount
  BY <1>1 DEF PaymentsOf
<1> QED
  BY <1>2, <1>3, UntouchedAgrees

\* A receipt of b deleted by a key that is not b's.
CascadeHits(b) ==
    \E y \in LivePayments :
      /\ payment[y].billing = b /\ payment'[y].state = "deleted"
      /\ \/ payment[y].batch # billing[b].batch
         \/ payment[y].plot # billing[b].plot

\* deletePrepaidBilling parts a total from its receipts only by deleting a
\* receipt of the batch that is on an invoice of another.
LEMMA DeletePrepaidBillingAgrees ==
    ASSUME Good(Tables, {}), NEW k \in BatchId, DeletePrepaidBilling(k),
           NEW b \in BillingId, billing[b].state # "deleted",
           billing'[b].state = "live", Agrees(b), ~CascadeHits(b)
    PROVE  Agrees(b)'
<1> DEFINE bs == {c \in LiveBillings : billing[c].batch = k}
           ys == {y \in LivePayments : payment[y].batch = k}
<1>1. /\ payment \in [PaymentId -> PaymentRow]
      /\ billing \in [BillingId -> BillingRow]
  BY DEF Good, Database, Tables
<1>2. /\ paid' = paid
      /\ payment' = [y \in PaymentId |->
                       IF y \in ys THEN [payment[y] EXCEPT !.state = "deleted"]
                       ELSE payment[y]]
      /\ billing' = [c \in BillingId |->
                       IF c \in bs THEN [billing[c] EXCEPT !.state = "deleted"]
                       ELSE billing[c]]
  BY DEF DeletePrepaidBilling, Commit, RecalculatePlots, Tables
<1>3. b \notin bs /\ billing[b].state = "live"
  BY <1>1, <1>2 DEF BillingRow
<1>4. ASSUME NEW y \in ys, y \in PaymentsOf(Tables, b) PROVE FALSE
  <2>1. /\ y \in PaymentId /\ y \in LivePayments
        /\ payment[y].billing = b /\ payment[y].batch = k
    BY <1>4 DEF PaymentsOf, LivePayments, Tables
  <2>2. payment'[y].state = "deleted"
    BY <1>1, <1>2, <2>1 DEF PaymentRow
  <2>3. billing[b].batch # k
    BY <1>3 DEF LiveBillings
  <2> QED
    BY <2>1, <2>2, <2>3 DEF CascadeHits
<1> HIDE DEF ys
<1> QED
  BY <1>1, <1>2, <1>4, DeletedElsewhere

\* deletePlot does so only by a receipt of its plot on an invoice of another.
LEMMA DeletePlotAgrees ==
    ASSUME Good(Tables, {}), NEW p \in PlotId, DeletePlot(p),
           NEW b \in BillingId, billing[b].state # "deleted",
           billing'[b].state = "live", Agrees(b), ~CascadeHits(b)
    PROVE  Agrees(b)'
<1> DEFINE bs == {c \in LiveBillings : billing[c].plot = p}
           ys == {y \in LivePayments : payment[y].plot = p}
<1>1. /\ payment \in [PaymentId -> PaymentRow]
      /\ billing \in [BillingId -> BillingRow]
  BY DEF Good, Database, Tables
<1>2. /\ paid' = paid
      /\ payment' = [y \in PaymentId |->
                       IF y \in ys THEN [payment[y] EXCEPT !.state = "deleted"]
                       ELSE payment[y]]
      /\ billing' = [c \in BillingId |->
                       IF c \in bs THEN [billing[c] EXCEPT !.state = "deleted"]
                       ELSE billing[c]]
  BY DEF DeletePlot, Commit, Tables
<1>3. b \notin bs /\ billing[b].state = "live"
  BY <1>1, <1>2 DEF BillingRow
<1>4. ASSUME NEW y \in ys, y \in PaymentsOf(Tables, b) PROVE FALSE
  <2>1. /\ y \in PaymentId /\ y \in LivePayments
        /\ payment[y].billing = b /\ payment[y].plot = p
    BY <1>4 DEF PaymentsOf, LivePayments, Tables
  <2>2. payment'[y].state = "deleted"
    BY <1>1, <1>2, <2>1 DEF PaymentRow
  <2>3. billing[b].plot # p
    BY <1>3 DEF LiveBillings
  <2> QED
    BY <2>1, <2>2, <2>3 DEF CascadeHits
<1> HIDE DEF ys
<1> QED
  BY <1>1, <1>2, <1>4, DeletedElsewhere

\* The invoice handlers keep totals and receipts in agreement.
LEMMA InvoiceAgrees ==
    ASSUME Good(Tables, {}), InvoiceStep, NEW b \in BillingId,
           billing'[b].state = "live", ~billing[b].legacy, Agrees(b)
    PROVE  Agrees(b)'
<1>1. PICK c \in BillingId, cat \in Category, x \in Amount, dated \in Dated :
        \/ \E p \in PlotId, s \in StatusInput : CreateBilling(c, p, cat, x, dated, s)
        \/ \E s \in StatusInput \cup {billing[c].status}, term \in BOOLEAN :
             UpdateBilling(c, cat, x, dated, s, term)
        \/ DeleteBilling(c)
  BY DEF InvoiceStep
<1>2. CASE \E p \in PlotId, s \in StatusInput : CreateBilling(c, p, cat, x, dated, s)
  <2>1. PICK p \in PlotId, s \in StatusInput : CreateBilling(c, p, cat, x, dated, s)
    BY <1>2
  <2>2. paid' = paid /\ payment' = payment
    BY <2>1 DEF CreateBilling, Commit, RecalculatePlots, Tables
  <2> QED
    BY <2>2, SameTablesAgree
<1>3. CASE \E s \in StatusInput \cup {billing[c].status}, term \in BOOLEAN :
             UpdateBilling(c, cat, x, dated, s, term)
  BY <1>3, UpdateBillingGood
<1>4. CASE DeleteBilling(c)
  <2>1. billing' = [billing EXCEPT ![c].state = "deleted"]
        /\ billing \in [BillingId -> BillingRow]
    BY <1>4 DEF DeleteBilling, Commit, RecalculatePlots, Tables, Good, Database
  <2>2. b # c
    BY <2>1 DEF BillingRow
  <2> QED
    BY <1>4, <2>2, DeleteBillingAgrees
<1> QED
  BY <1>1, <1>2, <1>3, <1>4

\* The receipt handlers do.
LEMMA ReceiptAgrees ==
    ASSUME Good(Tables, {}), ReceiptStep, NEW b \in BillingId,
           billing[b].state # "deleted", ~billing[b].legacy, Agrees(b)
    PROVE  Agrees(b)'
<1>1. PICK y \in PaymentId, x \in Amount :
        \/ \E p \in PlotId \cup {None} :
             \/ CreateOrphanPayment(y, p, x)
             \/ \E c \in BillingId \cup {None} : EditPayment(y, c, p, x)
        \/ DeletePayment(y)
        \/ \E c \in BillingId :
             \/ CreateBilledPayment(y, c, x)
             \/ RelinkPayment(y, c, x)
             \/ \E promise \in BOOLEAN : SettleRemaining(c, y, x, promise)
             \/ ApplyYuchoResult(c, y, x)
  BY DEF ReceiptStep
<1>2. payment \in [PaymentId -> PaymentRow] /\ x \in Nat
  BY LedgerAssumption DEF Good, Database, Tables
<1>3. ASSUME NEW p \in PlotId \cup {None}, CreateOrphanPayment(y, p, x)
      PROVE  Agrees(b)'
  <2>1. /\ paid' = paid /\ payment[y].state = "none"
        /\ payment' = [payment EXCEPT ![y] = NewPayment(None, p, x, None)]
    BY <1>3 DEF CreateOrphanPayment, Commit, Tables, FreshPayments
  <2>2. payment'[y].billing # b
    BY <1>2, <2>1, NoneIsNoRow DEF NewPayment
  <2>3. \A z \in PaymentId \ {y} : payment'[z] = payment[z]
    BY <2>1
  <2>4. PaymentsOf(Tables, b)' = PaymentsOf(Tables, b)
    BY <2>1, <2>2, <2>3 DEF PaymentsOf, Tables
  <2>5. \A z \in PaymentsOf(Tables, b) : payment'[z].amount = payment[z].amount
    BY <2>1, <2>3 DEF PaymentsOf, Tables
  <2> QED
    BY <2>1, <2>4, <2>5, UntouchedAgrees
<1>4. ASSUME NEW p \in PlotId \cup {None}, NEW c \in BillingId \cup {None},
             EditPayment(y, c, p, x)
      PROVE  Agrees(b)'
  <2> DEFINE r == [payment[y] EXCEPT !.billing = c, !.plot = p, !.amount = x]
             d == [Tables EXCEPT !.payment[y] = r]
  <2>1. y \in LivePayments /\ c \in {payment[y].billing, None}
    BY <1>4 DEF EditPayment
  <2>2. r \in PaymentRow /\ r.state = "live" /\ r.billing = c
    BY <1>2, <2>1 DEF PaymentRow, LivePayments
  <2>3. d = [Tables EXCEPT !.payment[y].billing = c, !.payment[y].plot = p,
                           !.payment[y].amount = x]
    BY <1>2 DEF Tables, PaymentRow
  <2> HIDE DEF r, d
  <2>4. Commit(RecalculateBoth(d, payment[y].billing, c))
    BY <1>4, <2>3 DEF EditPayment
  <2>5. d = [Tables EXCEPT !.payment[y] = r]
    BY DEF d
  <2> QED
    BY <2>1, <2>2, <2>4, <2>5, RewriteAgrees
<1>5. CASE DeletePayment(y)
  <2> DEFINE r == [payment[y] EXCEPT !.state = "deleted"]
             d == [Tables EXCEPT !.payment[y] = r]
  <2>1. y \in LivePayments
    BY <1>5 DEF DeletePayment
  <2>2. r \in PaymentRow /\ r.state = "deleted"
    BY <1>2 DEF PaymentRow, RowState
  <2>3. d = [Tables EXCEPT !.payment[y].state = "deleted"]
    BY DEF Tables
  <2> HIDE DEF r, d
  <2>4. Commit(RecalculateBoth(d, payment[y].billing, None))
    BY <1>5, <2>3 DEF DeletePayment
  <2>5. d = [Tables EXCEPT !.payment[y] = r]
    BY DEF d
  <2> QED
    BY <2>1, <2>2, <2>4, <2>5, RewriteAgrees
<1>6. ASSUME NEW c \in BillingId, CreateBilledPayment(y, c, x) \/ ApplyYuchoResult(c, y, x)
      PROVE  Agrees(b)'
  <2>1. /\ y \in FreshPayments /\ c \in LiveBillings
        /\ Commit(Receive(Tables, y, c, x))
    BY <1>6 DEF CreateBilledPayment, ApplyYuchoResult
  <2>2. AgreesIn(Receive(Tables, y, c, x), b)
    BY <2>1, ReceiveAgrees
  <2>3. Good(Receive(Tables, y, c, x), {})
    BY <2>1, ReceiveGood
  <2>4. Tables' = Receive(Tables, y, c, x)
    BY <2>1, <2>3, CommitTables DEF Good
  <2> QED
    BY <2>2, <2>4, AgreesAfter
<1>7. ASSUME NEW c \in BillingId, RelinkPayment(y, c, x)
      PROVE  Agrees(b)'
  <2> DEFINE r == [payment[y] EXCEPT !.billing = c, !.plot = billing[c].plot,
                                     !.amount = x]
             d == [Tables EXCEPT !.payment[y] = r]
  <2>1. y \in LivePayments /\ c \in LiveBillings
    BY <1>7 DEF RelinkPayment
  <2>2. r \in PaymentRow /\ r.state = "live" /\ r.billing = c
    <3>1. billing[c].plot \in PlotId \cup {None}
      BY DEF Good, Database, BillingRow, Tables
    <3> QED
      BY <1>2, <2>1, <3>1 DEF PaymentRow, LivePayments
  <2>3. d = [Tables EXCEPT !.payment[y].billing = c,
                           !.payment[y].plot = billing[c].plot,
                           !.payment[y].amount = x]
    BY <1>2 DEF Tables, PaymentRow
  <2> HIDE DEF r, d
  <2>4. Commit(RecalculateBoth(d, payment[y].billing, c))
    BY <1>7, <2>3 DEF RelinkPayment
  <2>5. d = [Tables EXCEPT !.payment[y] = r] /\ Live(Tables, c)
    BY <2>1 DEF d, Live, LiveBillings, Tables
  <2> QED
    BY <2>1, <2>2, <2>4, <2>5, RewriteAgrees
<1>8. ASSUME NEW c \in BillingId, NEW promise \in BOOLEAN,
             SettleRemaining(c, y, x, promise)
      PROVE  Agrees(b)'
  <2> DEFINE d == IF x = 0 THEN Tables ELSE Receive(Tables, y, c, x)
             e == [d EXCEPT !.billing[c].promised = TRUE]
  <2>1. /\ c \in LiveBillings
        /\ x >= 1 => y \in FreshPayments
        /\ Commit(IF promise /\ Remaining(c) - x >= 1 THEN e ELSE d)
    BY <1>8 DEF SettleRemaining
  <2>2. Good(d, {})
    BY <2>1, ReceiveGood
  <2>3. AgreesIn(d, b)
    <3>1. CASE x = 0
      BY <3>1, AgreesBefore
    <3>2. CASE x # 0
      <4>1. c \in LiveBillings /\ y \in FreshPayments
        BY <1>2, <2>1, <3>2
      <4> QED
        BY <3>2, <4>1, ReceiveAgrees
    <3> QED
      BY <3>1, <3>2
  <2> HIDE DEF d
  <2>4. paid' = d.paid /\ payment' = d.payment
    BY <2>1, <2>2 DEF Commit, Good, Database
  <2> QED
    BY <2>3, <2>4 DEF AgreesIn, Agrees, Received, PaymentsOf, Tables
<1> QED
  BY <1>1, <1>3, <1>4, <1>5, <1>6, <1>7, <1>8

\* The total of an invoice that is not migrated goes out of step with its
\* receipts only by the cascades of deletePrepaidBilling and deletePlot.
THEOREM CascadesOnly == Spec => OnlyCascadesDisagree
<1> DEFINE Step == \A b \in BillingId :
             /\ billing[b].state # "deleted" /\ billing'[b].state = "live"
             /\ ~billing[b].legacy
             /\ Agrees(b) /\ ~Agrees(b)'
             => \E y \in LivePayments :
                  /\ payment[y].billing = b /\ payment'[y].state = "deleted"
                  /\ \/ payment[y].batch # billing[b].batch
                     \/ payment[y].plot # billing[b].plot
<1>1. Good(Tables, {}) /\ [Next]_vars => [Step]_vars
  <2> SUFFICES ASSUME Good(Tables, {}), Next,
                      NEW b \in BillingId,
                      billing[b].state # "deleted", billing'[b].state = "live",
                      ~billing[b].legacy, Agrees(b), ~CascadeHits(b)
               PROVE  Agrees(b)'
    BY DEF CascadeHits
  <2>1. CASE InvoiceStep
    BY <2>1, InvoiceAgrees
  <2>2. CASE ReceiptStep
    BY <2>2, ReceiptAgrees
  <2>3. CASE BatchStep
    <3>1. PICK x \in Amount :
            \/ \E B \in SUBSET FreshBillings \ {{}} :
                 \E home \in Injection(B, LivePlots) :
                   GenerateManagementFees(home, x)
            \/ \E k \in BatchId, p \in PlotId, Y \in SUBSET FreshPayments \ {{}} :
                 \E year \in Injection(Y, FreshBillings) : \E y \in Y :
                   CreatePrepaidBilling(k, p, year, year[y], x)
            \/ \E k \in BatchId : DeletePrepaidBilling(k)
      BY <2>3 DEF BatchStep
    <3>2. ASSUME NEW home, GenerateManagementFees(home, x) PROVE Agrees(b)'
      <4>1. paid' = paid /\ payment' = payment
        BY <3>2 DEF GenerateManagementFees, Commit, RecalculatePlots, Tables
      <4> QED
        BY <4>1, SameTablesAgree
    <3>3. CASE \E k \in BatchId, p \in PlotId, Y \in SUBSET FreshPayments \ {{}} :
                 \E year \in Injection(Y, FreshBillings) : \E y \in Y :
                   CreatePrepaidBilling(k, p, year, year[y], x)
      BY <3>3, CreatePrepaidBillingGood
    <3>4. CASE \E k \in BatchId : DeletePrepaidBilling(k)
      BY <3>4, DeletePrepaidBillingAgrees
    <3> QED
      BY <3>1, <3>2, <3>3, <3>4
  <2>4. CASE PlotStep
    <3>1. PICK p \in PlotId : \/ \E s \in PlotStatusInput : EditPlotStatus(p, s)
                              \/ DeletePlot(p)
      BY <2>4 DEF PlotStep
    <3>2. ASSUME NEW s, EditPlotStatus(p, s) PROVE Agrees(b)'
      <4>1. paid' = paid /\ payment' = payment
        BY <3>2 DEF EditPlotStatus, Commit, Tables
      <4> QED
        BY <4>1, SameTablesAgree
    <3> QED
      BY <3>1, <3>2, DeletePlotAgrees
  <2> QED
    BY <2>1, <2>2, <2>3, <2>4 DEF Next
<1>2. OnlyCascadesDisagree <=> [][Step]_vars
  BY DEF OnlyCascadesDisagree
<1> QED
  BY <1>1, <1>2, LedgerInvariant, PTL DEF Spec

-----------------------------------------------------------------------------
(* Decisions of the office, and what plots show *)

\* The row and the total of invoice b as a refresh leaves them: no promise that is
\* kept, and a migrated total only without receipts.
Anew(d, b, row, total) ==
    /\ Live(d, b) /\ row.amount = d.billing[b].amount
    /\ row.status = ComputeBillingStatus(d.billing[b], total)
    /\ row.promised => ~FullyPaid(row.amount, total)
    /\ PaymentsOf(d, b) # {} => total = Received(d, b)
    /\ PaymentsOf(d, b) = {} /\ d.billing[b].legacy => total = d.paid[b]

\* Invoice b is as it was or refreshed, and receipts are as they were.
Refreshed(d, e, b) ==
    /\ e \in Database /\ e.payment = d.payment
    /\ \/ e.billing[b] = d.billing[b] /\ e.paid[b] = d.paid[b]
       \/ Anew(d, b, e.billing[b], e.paid[b])

CurrentIn(d, p) ==
    /\ d.plot[p].status = DerivedStatus(d, p)
    /\ d.uncollected[p] = DerivedUncollected(d, p, d.plot[p].status)

OnPlot(d, b, p) == Live(d, b) /\ d.billing[b].plot = p

\* All that the derived values of p depend on is the same.
SameFor(d, e, p) ==
    /\ e.plot[p] = d.plot[p] /\ e.uncollected[p] = d.uncollected[p]
    /\ \A b \in BillingId : OnPlot(d, b, p) <=> OnPlot(e, b, p)
    /\ \A b \in BillingId : OnPlot(d, b, p) =>
         /\ e.billing[b].terminated = d.billing[b].terminated
         /\ e.billing[b].category = d.billing[b].category
         /\ e.billing[b].amount = d.billing[b].amount
         /\ e.paid[b] = d.paid[b]

\* What the refresh of a live invoice leaves of it.
LEMMA AnewOne ==
    ASSUME NEW d \in Database, NEW c \in BillingId, Live(d, c)
    PROVE  LET e == RecalculateBillingPayments(d, c)
           IN  Anew(d, c, e.billing[c], e.paid[c])
<1> DEFINE r == d.billing[c]
           total == IF KeepsMigratedTotal(d, c) THEN d.paid[c] ELSE Received(d, c)
           row == [r EXCEPT !.status = ComputeBillingStatus(r, total),
                            !.promised = @ /\ ~FullyPaid(r.amount, total)]
           d1 == [d EXCEPT !.billing[c] = row, !.paid[c] = total]
           e == RecalculateBillingPayments(d, c)
<1>1. r \in BillingRow /\ d.paid[c] \in Nat /\ Received(d, c) \in Nat
  BY ReceivedType DEF Database
<1>2. /\ total \in Nat
      /\ PaymentsOf(d, c) # {} => total = Received(d, c)
      /\ PaymentsOf(d, c) = {} /\ r.legacy => total = d.paid[c]
  <2>1. PaymentsOf(d, c) = {} => Received(d, c) = 0
    BY SumEmpty DEF Received
  <2> QED BY <1>1, <2>1 DEF KeepsMigratedTotal
<1> HIDE DEF total
<1>3. /\ row \in BillingRow /\ row.amount = r.amount
      /\ row.status = ComputeBillingStatus(r, total)
      /\ row.promised => ~FullyPaid(r.amount, total)
  <2>1. ComputeBillingStatus(r, total) \in BillingStatus
    BY ComputedStatus
  <2>2. (r.promised /\ ~FullyPaid(r.amount, total)) \in BOOLEAN
    OBVIOUS
  <2> QED BY <1>1, <2>1, <2>2 DEF BillingRow
<1> HIDE DEF row
<1>4. d1 \in Database /\ d1.billing[c] = row /\ d1.paid[c] = total
  BY <1>2, <1>3 DEF Database
<1>5. e = RecalculatePlots(d1, {r.plot})
  BY DEF RecalculateBillingPayments, Live, total, row
<1> HIDE DEF d1, e
<1>6. e.billing[c] = row /\ e.paid[c] = total
  BY <1>4, <1>5, RecalculatePlotsFrame
<1>7. Anew(d, c, row, total)
  BY <1>2, <1>3 DEF Anew
<1> QED BY <1>6, <1>7 DEF e

\* The refresh of one invoice does that to it, and nothing to another.
LEMMA RefreshOne ==
    ASSUME NEW d \in Database, NEW c \in BillingId, NEW b \in BillingId
    PROVE  Refreshed(d, RecalculateBillingPayments(d, c), b)
<1> DEFINE e == RecalculateBillingPayments(d, c)
<1>1. /\ e \in Database /\ e.payment = d.payment
      /\ b # c \/ ~Live(d, c) => e.billing[b] = d.billing[b] /\ e.paid[b] = d.paid[b]
  BY RecalculateBillingFrame
<1>2. Live(d, c) => Anew(d, c, e.billing[c], e.paid[c])
  BY AnewOne
<1> QED BY <1>1, <1>2 DEF Refreshed

\* The refresh of two does no more to either.
LEMMA RefreshBoth ==
    ASSUME NEW d \in Database, NEW before \in BillingId \cup {None},
           NEW after \in BillingId \cup {None}, NEW b \in BillingId
    PROVE  Refreshed(d, RecalculateBoth(d, before, after), b)
<1> DEFINE d1 == IF before = None THEN d ELSE RecalculateBillingPayments(d, before)
<1>1. /\ d1 \in Database /\ d1.payment = d.payment /\ Refreshed(d, d1, b)
      /\ b # before => d1.billing[b] = d.billing[b] /\ d1.paid[b] = d.paid[b]
  <2>1. CASE before = None
    BY <2>1 DEF Refreshed
  <2>2. CASE before # None
    <3>1. before \in BillingId /\ d1 = RecalculateBillingPayments(d, before)
      BY <2>2
    <3> HIDE DEF d1
    <3>2. Refreshed(d, d1, b)
      BY <3>1, RefreshOne
    <3>3. b # before => d1.billing[b] = d.billing[b] /\ d1.paid[b] = d.paid[b]
      BY <3>1, RecalculateBillingFrame
    <3> QED BY <3>2, <3>3 DEF Refreshed
  <2> QED BY <2>1, <2>2
<1> HIDE DEF d1
<1>2. CASE after \in {None, before}
  <2>1. RecalculateBoth(d, before, after) = d1
    BY <1>2 DEF RecalculateBoth, d1
  <2> QED BY <1>1, <2>1
<1>3. CASE after \notin {None, before}
  <2> DEFINE e == RecalculateBillingPayments(d1, after)
  <2>1. RecalculateBoth(d, before, after) = e /\ after \in BillingId
    BY <1>3 DEF RecalculateBoth, d1
  <2>2. Refreshed(d1, e, b)
    BY <1>1, <2>1, RefreshOne
  <2>3. b # after => e.billing[b] = d1.billing[b] /\ e.paid[b] = d1.paid[b]
    BY <1>1, <2>1, RecalculateBillingFrame
  <2> HIDE DEF e
  <2>4. PaymentsOf(d1, b) = PaymentsOf(d, b) /\ Received(d1, b) = Received(d, b)
    BY <1>1 DEF PaymentsOf, Received
  <2>5. CASE b = after
    <3>1. d1.billing[b] = d.billing[b] /\ d1.paid[b] = d.paid[b]
      BY <1>1, <1>3, <2>5
    <3>2. Anew(d1, b, e.billing[b], e.paid[b]) => Anew(d, b, e.billing[b], e.paid[b])
      BY <2>4, <3>1 DEF Anew, Live
    <3> QED BY <1>1, <2>1, <2>2, <3>1, <3>2 DEF Refreshed
  <2>6. CASE b # after
    BY <1>1, <2>1, <2>2, <2>3, <2>6 DEF Refreshed
  <2> QED BY <2>1, <2>5, <2>6
<1> QED BY <1>2, <1>3

\* The derived values of a plot depend on nothing else.
LEMMA SameValues ==
    ASSUME NEW d, NEW e, NEW p \in PlotId, NEW cats,
           \A b \in BillingId : OnPlot(d, b, p) <=> OnPlot(e, b, p),
           \A b \in BillingId : OnPlot(d, b, p) =>
             /\ e.billing[b].terminated = d.billing[b].terminated
             /\ e.billing[b].category = d.billing[b].category
             /\ e.billing[b].amount = d.billing[b].amount
             /\ e.paid[b] = d.paid[b]
    PROVE  Billed(e, p, cats) = Billed(d, p, cats)
           /\ Credited(e, p, cats) = Credited(d, p, cats)
<1>1. \A b \in BillingId : b \in Active(e, p, cats) <=> b \in Active(d, p, cats)
  BY DEF Active, OnPlot, Live
<1>2. Active(e, p, cats) = Active(d, p, cats)
  BY <1>1 DEF Active
<1>3. \A b \in Active(d, p, cats) :
        e.billing[b].amount = d.billing[b].amount /\ e.paid[b] = d.paid[b]
  BY DEF Active, OnPlot, Live
<1>4. [b \in Active(e, p, cats) |-> e.billing[b].amount]
        = [b \in Active(d, p, cats) |-> d.billing[b].amount]
  BY <1>2, <1>3
<1>5. [b \in Active(e, p, cats) |-> e.paid[b]] = [b \in Active(d, p, cats) |-> d.paid[b]]
  BY <1>2, <1>3
<1> QED BY <1>4, <1>5 DEF Billed, Credited

\* A plot is current before and after what leaves its values alone.
LEMMA SameCurrent ==
    ASSUME NEW d, NEW e, NEW p \in PlotId, SameFor(d, e, p), CurrentIn(d, p)
    PROVE  CurrentIn(e, p)
<1>1. \A cats : Billed(e, p, cats) = Billed(d, p, cats)
                /\ Credited(e, p, cats) = Credited(d, p, cats)
  BY SameValues DEF SameFor
<1>2. DerivedStatus(e, p) = DerivedStatus(d, p)
  BY <1>1 DEF DerivedStatus, SameFor
<1>3. \A s : DerivedUncollected(e, p, s) = DerivedUncollected(d, p, s)
  BY <1>1 DEF DerivedUncollected
<1> QED BY <1>2, <1>3 DEF CurrentIn, SameFor

\* Refreshed plots are current, and the others stay so.
LEMMA PlotsCurrent ==
    ASSUME NEW d \in Database, NEW S, NEW p \in PlotId, d.plot[p].live,
           p \in S \/ CurrentIn(d, p)
    PROVE  CurrentIn(RecalculatePlots(d, S), p)
<1> DEFINE e == RecalculatePlots(d, S)
           s == DerivedStatus(d, p)
<1>1. e.billing = d.billing /\ e.paid = d.paid
  BY RecalculatePlotsFrame
<1>2. IF p \in S THEN /\ e.plot[p] = [d.plot[p] EXCEPT !.status = s]
                      /\ e.uncollected[p] = DerivedUncollected(d, p, s)
      ELSE e.plot[p] = d.plot[p] /\ e.uncollected[p] = d.uncollected[p]
  BY DEF RecalculatePlots, Database
<1>3. d.plot[p] \in PlotRow
  BY DEF Database
<1> HIDE DEF e
<1>4. CASE p \notin S
  BY <1>1, <1>2, <1>4, SameCurrent DEF SameFor, OnPlot, Live, e
<1>5. CASE p \in S
  <2>1. e.plot[p].status = s /\ e.uncollected[p] = DerivedUncollected(d, p, s)
    BY <1>2, <1>3, <1>5 DEF PlotRow
  <2>2. \A cats : Billed(e, p, cats) = Billed(d, p, cats)
                  /\ Credited(e, p, cats) = Credited(d, p, cats)
    <3>1. /\ \A b \in BillingId : OnPlot(d, b, p) <=> OnPlot(e, b, p)
          /\ \A b \in BillingId : OnPlot(d, b, p) =>
               /\ e.billing[b].terminated = d.billing[b].terminated
               /\ e.billing[b].category = d.billing[b].category
               /\ e.billing[b].amount = d.billing[b].amount
               /\ e.paid[b] = d.paid[b]
      BY <1>1 DEF OnPlot, Live
    <3> QED BY <3>1, SameValues
  <2>3. DerivedUncollected(e, p, s) = DerivedUncollected(d, p, s)
    BY <2>2 DEF DerivedUncollected
  <2>4. DerivedStatus(e, p) = PaymentStatusFromTotals(Billed(d, p, Category),
                                Credited(d, p, Category), s)
    BY <2>1, <2>2 DEF DerivedStatus
  <2>5. \A a, t, cur : PaymentStatusFromTotals(a, t, PaymentStatusFromTotals(a, t, cur))
                         = PaymentStatusFromTotals(a, t, cur)
    BY DEF PaymentStatusFromTotals
  <2>6. DerivedStatus(e, p) = s
    BY <2>4, <2>5 DEF DerivedStatus
  <2> QED BY <2>1, <2>3, <2>6 DEF CurrentIn, e
<1> QED BY <1>4, <1>5

\* The refresh of an invoice leaves its plot current, and no other stale.
LEMMA BillingCurrent ==
    ASSUME NEW d \in Database, NEW c \in BillingId, NEW p \in PlotId, d.plot[p].live,
           CurrentIn(d, p) \/ OnPlot(d, c, p)
    PROVE  CurrentIn(RecalculateBillingPayments(d, c), p)
<1> DEFINE r == d.billing[c]
           total == IF KeepsMigratedTotal(d, c) THEN d.paid[c] ELSE Received(d, c)
           row == [r EXCEPT !.status = ComputeBillingStatus(r, total),
                            !.promised = @ /\ ~FullyPaid(r.amount, total)]
           d1 == [d EXCEPT !.billing[c] = row, !.paid[c] = total]
<1>1. CASE ~Live(d, c)
  BY <1>1 DEF RecalculateBillingPayments, Live, OnPlot
<1>2. CASE Live(d, c)
  <2>1. r \in BillingRow /\ total \in Nat
    BY ReceivedType DEF Database
  <2> HIDE DEF total
  <2>2. row \in BillingRow /\ row.plot = r.plot
    <3>1. ComputeBillingStatus(r, total) \in BillingStatus
      BY ComputedStatus
    <3>2. (r.promised /\ ~FullyPaid(r.amount, total)) \in BOOLEAN
      OBVIOUS
    <3> QED BY <2>1, <3>1, <3>2 DEF BillingRow
  <2> HIDE DEF row
  <2>3. /\ d1 \in Database /\ d1.plot = d.plot /\ d1.uncollected = d.uncollected
        /\ d1.billing[c] = row
        /\ \A b \in BillingId \ {c} : d1.billing[b] = d.billing[b] /\ d1.paid[b] = d.paid[b]
    BY <2>1, <2>2 DEF Database
  <2>4. RecalculateBillingPayments(d, c) = RecalculatePlots(d1, {r.plot})
    BY <1>2 DEF RecalculateBillingPayments, Live, total, row
  <2> HIDE DEF d1
  <2>5. p # r.plot => CurrentIn(d1, p)
    <3> SUFFICES ASSUME p # r.plot PROVE CurrentIn(d1, p)
      OBVIOUS
    <3>1. ~OnPlot(d, c, p) /\ ~OnPlot(d1, c, p)
      BY <2>2, <2>3 DEF OnPlot
    <3>2. SameFor(d, d1, p)
      BY <2>3, <3>1 DEF SameFor, OnPlot, Live
    <3> QED BY <3>1, <3>2, SameCurrent
  <2> QED BY <2>3, <2>4, <2>5, PlotsCurrent
<1> QED BY <1>1, <1>2

\* The refresh of two invoices leaves no plot stale.
LEMMA BothCurrent ==
    ASSUME NEW d \in Database, NEW before \in BillingId \cup {None},
           NEW after \in BillingId \cup {None}, NEW p \in PlotId, d.plot[p].live,
           CurrentIn(d, p)
    PROVE  CurrentIn(RecalculateBoth(d, before, after), p)
<1> DEFINE d1 == IF before = None THEN d ELSE RecalculateBillingPayments(d, before)
<1>1. d1 \in Database /\ d1.plot[p].live /\ CurrentIn(d1, p)
  BY RecalculateBillingFrame, BillingCurrent
<1>2. RecalculateBoth(d, before, after)
        = IF after \in {None, before} THEN d1 ELSE RecalculateBillingPayments(d1, after)
  BY DEF RecalculateBoth
<1> HIDE DEF d1
<1> QED BY <1>1, <1>2, BillingCurrent

-----------------------------------------------------------------------------
(* What a step keeps *)

PromiseDue(b) ==
    billing[b].state = "live" /\ billing[b].promised /\ billing[b].amount > 0 =>
      paid[b] < billing[b].amount

\* The step keeps the promise on invoice b, its status by hand and its migrated total.
OfficeKept(b) ==
    /\ PromiseDue(b) => PromiseDue(b)'
    /\ billing[b].state = "live" /\ billing'[b].state = "live" =>
         /\ /\ payment' # payment /\ billing[b].status \in ManualStatus
            /\ billing'[b].status # billing[b].status
            => billing[b].status = "overdue" /\ FullyPaid(billing[b].amount, paid'[b])
         /\ /\ billing[b].legacy
            /\ PaymentsOf(Tables, b) = {} /\ PaymentsOf(Tables, b)' = {}
            => paid'[b] = paid[b]

\* An edit that may leave the derived values of plot p behind.
Edited(p) ==
    \/ \E b \in LiveBillings : /\ billing[b].plot = p
                              /\ billing'[b].category # billing[b].category
    \/ plot'[p].status # plot[p].status /\ UNCHANGED <<billing, paid, payment>>

StaysCurrent(p) ==
    plot[p].live /\ plot'[p].live /\ PlotCurrent(p) => PlotCurrent(p)' \/ Edited(p)

StepKeeps ==
    (\A b \in BillingId : OfficeKept(b)) /\ (\A p \in PlotId : StaysCurrent(p))

\* PlotCurrent is CurrentIn of the tables,
LEMMA CurrentBefore ==
    ASSUME NEW p PROVE PlotCurrent(p) <=> CurrentIn(Tables, p)
BY DEF PlotCurrent, CurrentIn, Tables

\* also after a step.
LEMMA CurrentAfter ==
    ASSUME NEW p, NEW e, Tables' = e, CurrentIn(e, p)
    PROVE  PlotCurrent(p)'
<1>1. /\ billing' = e.billing /\ paid' = e.paid /\ plot' = e.plot
      /\ uncollected' = e.uncollected
  BY DEF Tables
<1>2. \A cats : Billed(e, p, cats) = Billed(Tables, p, cats)'
                /\ Credited(e, p, cats) = Credited(Tables, p, cats)'
  BY <1>1 DEF Billed, Credited, Active, Tables
<1>3. DerivedStatus(e, p) = DerivedStatus(Tables, p)'
  BY <1>1, <1>2 DEF DerivedStatus, Tables
<1>4. \A s : DerivedUncollected(e, p, s) = DerivedUncollected(Tables, p, s)'
  BY <1>2 DEF DerivedUncollected
<1> QED BY <1>1, <1>3, <1>4 DEF PlotCurrent, CurrentIn, Tables

\* A row left alone, deleted or inserted without a promise keeps what it had.
LEMMA RowKept ==
    ASSUME NEW b, \/ billing'[b] = billing[b] /\ paid'[b] = paid[b]
                  \/ billing'[b].state # "live"
                  \/ billing[b].state = "none" /\ ~billing'[b].promised
    PROVE  OfficeKept(b)
BY DEF OfficeKept, PromiseDue

\* So does a refresh: it sets the totals from the receipts and clears a promise kept.
LEMMA RefreshKept ==
    ASSUME Good(Tables, {}), NEW d, NEW e, NEW b \in BillingId, Tables' = e,
           Refreshed(d, e, b), d.billing = billing, d.paid = paid
    PROVE  OfficeKept(b)
<1>1. /\ billing'[b] = e.billing[b] /\ paid'[b] = e.paid[b] /\ payment' = d.payment
      /\ e \in Database
  BY DEF Refreshed, Tables
<1>2. CASE e.billing[b] = d.billing[b] /\ e.paid[b] = d.paid[b]
  BY <1>1, <1>2, RowKept
<1>3. CASE Anew(d, b, e.billing[b], e.paid[b])
  <2>1. /\ billing[b].state = "live" /\ billing'[b].amount = billing[b].amount
        /\ billing'[b].status = ComputeBillingStatus(billing[b], paid'[b])
        /\ billing'[b].promised => ~FullyPaid(billing[b].amount, paid'[b])
        /\ PaymentsOf(d, b) = {} /\ billing[b].legacy => paid'[b] = paid[b]
    BY <1>1, <1>3 DEF Anew, Live
  <2>2. billing[b].terminated => billing[b].status \in {"terminated", "written_off"}
    BY <2>1 DEF Good, Shown, Live, Tables
  <2>3. paid'[b] \in Nat /\ billing[b].amount \in Nat
    BY <1>1 DEF Good, Database, BillingRow, Tables
  <2>4. PromiseDue(b)'
    BY <2>1, <2>3 DEF PromiseDue, FullyPaid
  <2>5. PaymentsOf(Tables, b)' = PaymentsOf(d, b)
    BY <1>1 DEF PaymentsOf, Tables
  <2>6. billing[b].status \in ManualStatus /\ billing'[b].status # billing[b].status
          => billing[b].status = "overdue" /\ FullyPaid(billing[b].amount, paid'[b])
    BY <2>1, <2>2 DEF ComputeBillingStatus, ManualStatus
  <2> QED BY <2>1, <2>4, <2>5, <2>6 DEF OfficeKept
<1> QED BY <1>2, <1>3 DEF Refreshed

\* A handler that writes receipts, and then refreshes.
LEMMA ReceiptsKeep ==
    ASSUME Good(Tables, {}), NEW d \in Database, NEW e, Tables' = e,
           d.billing = billing, d.paid = paid, d.plot = plot,
           d.uncollected = uncollected,
           \A b \in BillingId : Refreshed(d, e, b),
           \A p \in PlotId : d.plot[p].live /\ CurrentIn(d, p) => CurrentIn(e, p)
    PROVE  StepKeeps
<1>1. ASSUME NEW b \in BillingId PROVE OfficeKept(b)
  BY RefreshKept
<1>2. ASSUME NEW p \in PlotId, plot[p].live, PlotCurrent(p) PROVE PlotCurrent(p)'
  <2>1. CurrentIn(Tables, p)
    BY <1>2, CurrentBefore
  <2>2. SameFor(Tables, d, p)
    BY DEF SameFor, OnPlot, Live, Tables
  <2>3. CurrentIn(d, p)
    BY <2>1, <2>2, SameCurrent
  <2> QED BY <1>2, <2>3, CurrentAfter
<1> QED BY <1>1, <1>2 DEF StepKeeps, StaysCurrent

\* A handler that inserts invoices or deletes some, and then refreshes the plots of
\* all of them.
LEMMA RowsKeep ==
    ASSUME NEW d \in Database, NEW S, Commit(RecalculatePlots(d, S)),
           d.plot = plot, d.uncollected = uncollected,
           \A b \in BillingId :
             \/ d.billing[b] = billing[b] /\ d.paid[b] = paid[b]
             \/ /\ \/ d.billing[b].state # "live"
                   \/ billing[b].state = "none" /\ ~d.billing[b].promised
                /\ \A p \in PlotId : OnPlot(d, b, p) \/ OnPlot(Tables, b, p) => p \in S
    PROVE  StepKeeps
<1> DEFINE e == RecalculatePlots(d, S)
<1>1. e \in Database /\ e.billing = d.billing /\ e.paid = d.paid
  BY RecalculatePlotsFrame
<1>2. Tables' = e
  BY <1>1, CommitTables
<1>3. billing' = d.billing /\ paid' = d.paid
  BY <1>1, <1>2 DEF Tables
<1>4. ASSUME NEW b \in BillingId PROVE OfficeKept(b)
  BY <1>3, RowKept
<1>5. ASSUME NEW p \in PlotId, plot[p].live, PlotCurrent(p) PROVE PlotCurrent(p)'
  <2>1. p \in S \/ SameFor(Tables, d, p)
    <3> SUFFICES ASSUME p \notin S PROVE SameFor(Tables, d, p)
      OBVIOUS
    <3>1. \A b \in BillingId :
            \/ d.billing[b] = billing[b] /\ d.paid[b] = paid[b]
            \/ ~OnPlot(d, b, p) /\ ~OnPlot(Tables, b, p)
      OBVIOUS
    <3>2. Tables.billing = billing /\ Tables.paid = paid /\ Tables.plot = plot
          /\ Tables.uncollected = uncollected
      BY DEF Tables
    <3> QED BY <3>1, <3>2 DEF SameFor, OnPlot, Live
  <2>2. p \in S \/ CurrentIn(d, p)
    BY <1>5, <2>1, CurrentBefore, SameCurrent
  <2>3. CurrentIn(e, p)
    BY <1>5, <2>2, PlotsCurrent
  <2> HIDE DEF e
  <2> QED BY <1>2, <2>3, CurrentAfter
<1> QED BY <1>4, <1>5 DEF StepKeeps, StaysCurrent

\* The tables have their types.
LEMMA TablesTyped ==
    ASSUME Good(Tables, {})
    PROVE  /\ billing \in [BillingId -> BillingRow] /\ paid \in [BillingId -> Nat]
           /\ payment \in [PaymentId -> PaymentRow] /\ plot \in [PlotId -> PlotRow]
           /\ uncollected \in [PlotId -> Nat] /\ Tables \in Database
BY DEF Good, Database, Tables

\* Invoices entered are of their type, and promise nothing.
LEMMA NewBillingPromises ==
    ASSUME NEW p, NEW c, NEW x, NEW dated, NEW s, NEW k
    PROVE  LET r == NewBilling(p, c, x, dated, s, k)
           IN  ~r.promised /\ r.state = "live" /\ r.plot = p
BY DEF NewBilling, NoBillingRow

\* createBilling refreshes the plot of the new invoice.
LEMMA CreateBillingKeeps ==
    ASSUME Good(Tables, {}), NEW b \in BillingId, NEW p \in PlotId,
           NEW c \in Category, NEW x \in Amount, NEW dated \in Dated,
           NEW s \in StatusInput, CreateBilling(b, p, c, x, dated, s)
    PROVE  StepKeeps
<1> DEFINE r == NewBilling(p, c, x, dated, s, None)
           d == [Tables EXCEPT !.billing[b] = r]
<1>1. r \in BillingRow /\ r.state = "live" /\ r.plot = p /\ ~r.promised
  <2>1. x \in Nat /\ dated \in BOOLEAN /\ s \in BillingStatus /\ None \in BatchId \cup {None}
    BY LedgerAssumption
  <2> QED BY <2>1, NewBillingRow, NewBillingPromises
<1>2. billing[b].state = "none" /\ Commit(RecalculatePlots(d, {p}))
  BY DEF CreateBilling, FreshBillings
<1> HIDE DEF r
<1>3. /\ d \in Database /\ d.billing = [billing EXCEPT ![b] = r] /\ d.paid = paid
      /\ d.plot = plot /\ d.uncollected = uncollected
  BY <1>1, TablesTyped DEF Database, Tables
<1> HIDE DEF d
<1>4. \A k \in BillingId :
        \/ d.billing[k] = billing[k] /\ d.paid[k] = paid[k]
        \/ /\ \/ d.billing[k].state # "live"
              \/ billing[k].state = "none" /\ ~d.billing[k].promised
           /\ \A q \in PlotId : OnPlot(d, k, q) \/ OnPlot(Tables, k, q) => q \in {p}
  BY <1>1, <1>2, <1>3, TablesTyped DEF OnPlot, Live, Tables
<1> QED BY <1>2, <1>3, <1>4, RowsKeep

\* updateBilling refreshes unless only the category changed, the edit set apart.
LEMMA UpdateBillingKeeps ==
    ASSUME Good(Tables, {}), NEW b \in BillingId, NEW c \in Category,
           NEW x \in Amount, NEW dated \in Dated,
           NEW s \in StatusInput \cup {billing[b].status},
           NEW term \in BOOLEAN, UpdateBilling(b, c, x, dated, s, term)
    PROVE  StepKeeps
<1> DEFINE old == billing[b]
           r == [old EXCEPT !.category = c, !.amount = x, !.dated = dated,
                            !.status = s, !.terminated = term]
           d == [Tables EXCEPT !.billing[b] = r]
           refreshed == Commit(RecalculateBillingPayments(d, b))
           e == IF refreshed THEN RecalculateBillingPayments(d, b) ELSE d
<1>1. old \in BillingRow /\ old.state = "live"
  BY TablesTyped DEF UpdateBilling, LiveBillings
<1>2. /\ r \in BillingRow /\ r.state = "live" /\ r.plot = old.plot
      /\ r.promised = old.promised /\ r.legacy = old.legacy
      /\ r.category = c /\ r.amount = x /\ r.dated = dated /\ r.status = s
      /\ r.terminated = term
  <2>1. x \in Nat /\ dated \in BOOLEAN /\ s \in BillingStatus
    BY <1>1, LedgerAssumption DEF BillingRow
  <2> QED BY <1>1, <2>1 DEF BillingRow
<1>3. Commit(e) /\ (~refreshed => ~PaymentRelevant(b, x, dated, s, term))
  <2>1. d = [Tables EXCEPT !.billing[b] =
               [@ EXCEPT !.category = c, !.amount = x, !.dated = dated,
                         !.status = s, !.terminated = term]]
    BY DEF Tables
  <2> QED BY <2>1 DEF UpdateBilling
<1> HIDE DEF r
<1>4. /\ d \in Database /\ d.billing = [billing EXCEPT ![b] = r] /\ d.paid = paid
      /\ d.plot = plot /\ d.uncollected = uncollected /\ d.payment = payment
  BY <1>2, TablesTyped DEF Database, Tables
<1>5. d.billing[b] = r /\ \A k \in BillingId \ {b} : d.billing[k] = billing[k]
  BY <1>4, TablesTyped
<1> HIDE DEF d
<1>6. e \in Database /\ e.payment = payment /\ Refreshed(d, e, b)
      /\ \A k \in BillingId \ {b} : e.billing[k] = d.billing[k] /\ e.paid[k] = d.paid[k]
  <2>1. Refreshed(d, RecalculateBillingPayments(d, b), b)
    BY <1>4, RefreshOne
  <2>2. \A k \in BillingId \ {b} :
          /\ RecalculateBillingPayments(d, b).billing[k] = d.billing[k]
          /\ RecalculateBillingPayments(d, b).paid[k] = d.paid[k]
    BY <1>4, RecalculateBillingFrame
  <2> QED BY <1>4, <2>1, <2>2 DEF Refreshed
<1>7. ~refreshed => e = d /\ ~PaymentRelevant(b, x, dated, s, term)
  BY <1>3
<1>8. refreshed => e = RecalculateBillingPayments(d, b)
  OBVIOUS
<1> HIDE DEF e, refreshed
<1>9. /\ Tables' = e /\ billing' = e.billing /\ paid' = e.paid /\ payment' = payment
      /\ plot' = e.plot
  BY <1>3, <1>6, CommitTables DEF Commit
<1>10. ASSUME NEW k \in BillingId, k # b PROVE OfficeKept(k)
  BY <1>4, <1>5, <1>6, <1>9, <1>10, RowKept
<1>11. OfficeKept(b)
  <2>1. PaymentsOf(d, b) = PaymentsOf(Tables, b)
    BY <1>4 DEF PaymentsOf, Tables
  <2>2. CASE refreshed
    <3>1. Anew(d, b, billing'[b], paid'[b])
      BY <1>2, <1>4, <1>5, <1>8, <1>9, <2>2, AnewOne DEF Live
    <3>2. /\ billing'[b].promised => ~FullyPaid(billing'[b].amount, paid'[b])
          /\ PaymentsOf(Tables, b) = {} /\ billing[b].legacy => paid'[b] = paid[b]
      BY <1>2, <1>4, <1>5, <2>1, <3>1 DEF Anew
    <3>3. paid'[b] \in Nat /\ billing'[b].amount \in Nat
      BY <1>6, <1>9 DEF Database, BillingRow
    <3>4. PromiseDue(b)'
      BY <3>2, <3>3 DEF PromiseDue, FullyPaid
    <3> QED BY <1>9, <3>2, <3>4 DEF OfficeKept
  <2>3. CASE ~refreshed
    <3>1. billing'[b] = r /\ paid'[b] = paid[b] /\ r.amount = old.amount
      BY <1>2, <1>4, <1>5, <1>7, <1>9, <2>3 DEF PaymentRelevant
    <3> QED BY <1>1, <1>2, <1>9, <3>1 DEF OfficeKept, PromiseDue
  <2> QED BY <2>2, <2>3
<1>12. ASSUME NEW p \in PlotId, plot[p].live, PlotCurrent(p), ~Edited(p)
       PROVE  PlotCurrent(p)'
  <2>1. OnPlot(d, b, p) => OnPlot(Tables, b, p)
    BY <1>1, <1>2, <1>5 DEF OnPlot, Live, Tables
  <2>2. ~OnPlot(d, b, p) => CurrentIn(d, p)
    <3> SUFFICES ASSUME ~OnPlot(d, b, p) PROVE CurrentIn(d, p)
      OBVIOUS
    <3>1. ~OnPlot(Tables, b, p)
      BY <1>1, <1>2, <1>5 DEF OnPlot, Live, Tables
    <3>2. SameFor(Tables, d, p)
      BY <1>4, <1>5, <3>1 DEF SameFor, OnPlot, Live, Tables
    <3> QED BY <1>12, <3>2, SameCurrent, CurrentBefore
  <2>3. CASE refreshed
    <3>1. CurrentIn(e, p)
      BY <1>4, <1>8, <1>12, <2>2, <2>3, BillingCurrent
    <3> QED BY <1>9, <3>1, CurrentAfter
  <2>4. CASE ~refreshed
    <3>1. billing'[b] = r /\ r.amount = old.amount /\ r.terminated = old.terminated
      BY <1>2, <1>5, <1>7, <1>9, <2>4 DEF PaymentRelevant
    <3>2. OnPlot(Tables, b, p) => r.category = old.category
      BY <1>1, <1>12, <3>1 DEF Edited, OnPlot, LiveBillings, Tables
    <3>3. SameFor(Tables, d, p)
      BY <1>1, <1>2, <1>4, <1>5, <3>1, <3>2 DEF SameFor, OnPlot, Live, Tables
    <3> QED BY <1>7, <1>9, <1>12, <2>4, <3>3, SameCurrent, CurrentBefore, CurrentAfter
  <2> QED BY <2>3, <2>4
<1> QED BY <1>10, <1>11, <1>12 DEF StepKeeps, StaysCurrent

\* deleteBilling refreshes the invoice's plot.
LEMMA DeleteBillingKeeps ==
    ASSUME Good(Tables, {}), NEW b \in BillingId, DeleteBilling(b)
    PROVE  StepKeeps
<1> DEFINE q == [y \in PaymentId |->
                   IF y \in PaymentsOf(Tables, b)
                   THEN [payment[y] EXCEPT !.billing = None] ELSE payment[y]]
           r == [billing[b] EXCEPT !.state = "deleted"]
           d == [Tables EXCEPT !.payment = q, !.billing[b] = r]
           S == {billing[b].plot}
<1>1. q \in [PaymentId -> PaymentRow] /\ r \in BillingRow /\ r.state = "deleted"
  BY TablesTyped DEF PaymentRow, BillingRow, RowState
<1>2. Commit(RecalculatePlots(d, S))
  <2>1. d = [Tables EXCEPT !.payment = q, !.billing[b].state = "deleted"]
    BY DEF Tables
  <2> QED BY <2>1 DEF DeleteBilling
<1> HIDE DEF q, r
<1>3. /\ d \in Database /\ d.billing = [billing EXCEPT ![b] = r] /\ d.paid = paid
      /\ d.plot = plot /\ d.uncollected = uncollected
  BY <1>1, TablesTyped DEF Database, Tables
<1> HIDE DEF d
<1>4. \A k \in BillingId :
        \/ d.billing[k] = billing[k] /\ d.paid[k] = paid[k]
        \/ /\ \/ d.billing[k].state # "live"
              \/ billing[k].state = "none" /\ ~d.billing[k].promised
           /\ \A p \in PlotId : OnPlot(d, k, p) \/ OnPlot(Tables, k, p) => p \in S
  BY <1>1, <1>3, TablesTyped DEF OnPlot, Live, Tables
<1> HIDE DEF S
<1> QED BY <1>2, <1>3, <1>4, RowsKeep

\* A receipt written, and its former and latter invoice refreshed.
LEMMA RewriteKeeps ==
    ASSUME Good(Tables, {}), Tables' \in Database, NEW y \in PaymentId,
           NEW r \in PaymentRow, NEW before \in BillingId \cup {None},
           NEW after \in BillingId \cup {None},
           Commit(RecalculateBoth([Tables EXCEPT !.payment[y] = r], before, after))
    PROVE  StepKeeps
<1> DEFINE d == [Tables EXCEPT !.payment[y] = r]
           e == RecalculateBoth(d, before, after)
<1>1. /\ d \in Database /\ d.billing = billing /\ d.paid = paid
      /\ d.plot = plot /\ d.uncollected = uncollected
  BY TablesTyped DEF Database, Tables
<1> HIDE DEF d
<1>2. \A b \in BillingId : Refreshed(d, e, b)
  BY <1>1, RefreshBoth
<1>3. \A p \in PlotId : d.plot[p].live /\ CurrentIn(d, p) => CurrentIn(e, p)
  BY <1>1, BothCurrent
<1>4. e \in Database
  <2>1. \A c \in Database, b \in BillingId : RecalculateBillingPayments(c, b) \in Database
    BY RecalculateBillingFrame
  <2> QED BY <1>1, <2>1 DEF RecalculateBoth
<1> HIDE DEF e
<1>5. Commit(e)
  BY DEF e, d
<1>6. Tables' = e
  BY <1>4, <1>5, CommitTables
<1> QED BY <1>1, <1>2, <1>3, <1>6, ReceiptsKeep

\* A new receipt of an invoice.
LEMMA ReceiveKeeps ==
    ASSUME Good(Tables, {}), Tables' \in Database, NEW y \in PaymentId,
           NEW b \in BillingId, NEW x \in Amount, Commit(Receive(Tables, y, b, x))
    PROVE  StepKeeps
<1> DEFINE r == NewPayment(b, Tables.billing[b].plot, x, None)
           d == [Tables EXCEPT !.payment[y] = r]
<1>1. r \in PaymentRow
  <2>1. Tables.billing[b].plot \in PlotId \cup {None}
    BY TablesTyped DEF BillingRow, Tables
  <2> QED BY <2>1, LedgerAssumption DEF NewPayment, PaymentRow, RowState
<1> HIDE DEF r
<1>2. Receive(Tables, y, b, x) = RecalculateBoth(d, b, None)
  BY NoneIsNoRow DEF Receive, RecalculateBoth, r
<1> QED BY <1>1, <1>2, RewriteKeeps

\* A receipt without an invoice refreshes nothing, and need not.
LEMMA CreateOrphanPaymentKeeps ==
    ASSUME Good(Tables, {}), Tables' \in Database, NEW y \in PaymentId,
           NEW p \in PlotId \cup {None}, NEW x \in Amount, CreateOrphanPayment(y, p, x)
    PROVE  StepKeeps
<1> DEFINE r == NewPayment(None, p, x, None)
           d == [Tables EXCEPT !.payment[y] = r]
<1>1. r \in PaymentRow
  BY LedgerAssumption DEF NewPayment, PaymentRow, RowState
<1>2. Commit(d)
  BY DEF CreateOrphanPayment
<1> HIDE DEF r
<1>3. d = RecalculateBoth(d, None, None)
  BY DEF RecalculateBoth
<1> QED BY <1>1, <1>2, <1>3, RewriteKeeps

\* updatePayment, whichever invoice the request names.
LEMMA EditedReceiptKeeps ==
    ASSUME Good(Tables, {}), Tables' \in Database, NEW y \in PaymentId,
           NEW b \in BillingId \cup {None}, NEW p \in PlotId \cup {None},
           NEW x \in Amount,
           Commit(RecalculateBoth([Tables EXCEPT !.payment[y].billing = b,
                                                 !.payment[y].plot = p,
                                                 !.payment[y].amount = x],
                                  payment[y].billing, b))
    PROVE  StepKeeps
<1> DEFINE r == [payment[y] EXCEPT !.billing = b, !.plot = p, !.amount = x]
<1>1. payment[y] \in PaymentRow /\ x \in Nat
  BY TablesTyped, LedgerAssumption
<1>2. r \in PaymentRow /\ payment[y].billing \in BillingId \cup {None}
  BY <1>1 DEF PaymentRow
<1>3. [Tables EXCEPT !.payment[y] = r]
        = [Tables EXCEPT !.payment[y].billing = b, !.payment[y].plot = p,
                         !.payment[y].amount = x]
  BY <1>1, TablesTyped DEF Tables, PaymentRow
<1> HIDE DEF r
<1> QED BY <1>2, <1>3, RewriteKeeps

\* deletePayment refreshes the invoice the receipt had.
LEMMA DeletePaymentKeeps ==
    ASSUME Good(Tables, {}), Tables' \in Database, NEW y \in PaymentId, DeletePayment(y)
    PROVE  StepKeeps
<1> DEFINE r == [payment[y] EXCEPT !.state = "deleted"]
<1>1. payment[y] \in PaymentRow
  BY TablesTyped
<1>2. r \in PaymentRow /\ payment[y].billing \in BillingId \cup {None}
  BY <1>1 DEF PaymentRow, RowState
<1>3. [Tables EXCEPT !.payment[y] = r] = [Tables EXCEPT !.payment[y].state = "deleted"]
  BY DEF Tables
<1> HIDE DEF r
<1> QED BY <1>2, <1>3, RewriteKeeps DEF DeletePayment

\* A receipt more is counted for its invoice.
LEMMA OneMore ==
    ASSUME NEW d \in Database, NEW y \in PaymentId, d.payment[y].state # "live",
           NEW b \in BillingId, NEW p \in PlotId \cup {None}, NEW x \in Nat
    PROVE  LET c == [d EXCEPT !.payment[y] = NewPayment(b, p, x, None)]
           IN  y \in PaymentsOf(c, b) /\ Received(c, b) = Received(d, b) + x
<1> DEFINE r == NewPayment(b, p, x, None)
           c == [d EXCEPT !.payment[y] = r]
           D == PaymentsOf(d, b)
           E == PaymentsOf(c, b)
           f == [z \in E |-> c.payment[z].amount]
           g == [z \in D |-> d.payment[z].amount]
<1>1. r.state = "live" /\ r.billing = b /\ r.amount = x /\ r \in PaymentRow
  BY DEF NewPayment, PaymentRow, RowState
<1> HIDE DEF r
<1>2. /\ c.payment[y] = r
      /\ \A z \in PaymentId : z # y => c.payment[z] = d.payment[z]
      /\ c.payment \in [PaymentId -> PaymentRow]
  BY <1>1 DEF Database
<1>3. Received(c, b) = SumOf(f) /\ Received(d, b) = SumOf(g)
  BY DEF Received
<1> HIDE DEF c
<1>4. y \in E /\ E \ {y} = D
  BY <1>1, <1>2 DEF PaymentsOf
<1>5. E \subseteq PaymentId /\ IsFiniteSet(E)
  BY LedgerAssumption, FS_Subset DEF PaymentsOf
<1>6. \A z \in E \ {y} : f[z] = d.payment[z].amount
  BY <1>2, <1>5
<1> HIDE DEF D, E
<1>7. f \in [E -> Nat] /\ f[y] = x
  BY <1>1, <1>2, <1>4, <1>5 DEF PaymentRow
<1>8. [z \in E \ {y} |-> f[z]] = g
  BY <1>4, <1>6
<1> HIDE DEF f, g
<1>9. SumOf(f) = SumOf(g) + x
  BY <1>4, <1>5, <1>7, <1>8, SumInsert
<1> QED BY <1>3, <1>4, <1>9 DEF c, r, E

\* The receipt of a live invoice b: the row and total of b, and the rest.
LEMMA ReceiveDoes ==
    ASSUME Good(Tables, {}), NEW y \in PaymentId, payment[y].state # "live",
           NEW b \in BillingId, Live(Tables, b), NEW x \in Amount
    PROVE  LET d == Receive(Tables, y, b, x) IN
           /\ d \in Database /\ y \in PaymentsOf(d, b)
           /\ d.paid[b] = Received(Tables, b) + x
           /\ d.billing[b].state = "live" /\ d.billing[b].amount = billing[b].amount
           /\ d.billing[b].status = ComputeBillingStatus(billing[b], d.paid[b])
           /\ \A k \in BillingId \ {b} :
                d.billing[k] = billing[k] /\ d.paid[k] = paid[k]
           /\ \A p \in PlotId : plot[p].live /\ CurrentIn(Tables, p) => CurrentIn(d, p)
<1> DEFINE home == Tables.billing[b].plot
           c == [Tables EXCEPT !.payment[y] = NewPayment(b, home, x, None)]
           d == Receive(Tables, y, b, x)
<1>1. home \in PlotId \cup {None} /\ x \in Nat /\ Tables.payment[y].state # "live"
  BY TablesTyped, LedgerAssumption DEF BillingRow, Tables
<1>2. y \in PaymentsOf(c, b) /\ Received(c, b) = Received(Tables, b) + x
  BY <1>1, TablesTyped, OneMore
<1>3. NewPayment(b, home, x, None) \in PaymentRow
  BY <1>1 DEF NewPayment, PaymentRow, RowState
<1>4. /\ c \in Database /\ c.billing = billing /\ c.paid = paid /\ c.plot = plot
      /\ c.uncollected = uncollected
  BY <1>3, TablesTyped DEF Database, Tables
<1>5. d = RecalculateBillingPayments(c, b)
  BY DEF Receive
<1> HIDE DEF c, d
<1>6. Live(c, b)
  BY <1>4 DEF Live, Tables
<1>7. /\ d \in Database /\ d.payment = c.payment
      /\ d.billing[b].state = "live"
      /\ \A k \in BillingId \ {b} : d.billing[k] = c.billing[k] /\ d.paid[k] = c.paid[k]
  BY <1>4, <1>5, <1>6, RecalculateBillingFrame DEF Live
<1>8. Anew(c, b, d.billing[b], d.paid[b])
  BY <1>4, <1>5, <1>6, AnewOne
<1>9. /\ d.paid[b] = Received(Tables, b) + x
      /\ d.billing[b].amount = billing[b].amount
      /\ d.billing[b].status = ComputeBillingStatus(billing[b], d.paid[b])
  BY <1>2, <1>4, <1>8 DEF Anew
<1>10. y \in PaymentsOf(d, b)
  BY <1>2, <1>7 DEF PaymentsOf
<1>11. ASSUME NEW p \in PlotId, plot[p].live, CurrentIn(Tables, p) PROVE CurrentIn(d, p)
  <2>1. SameFor(Tables, c, p)
    BY <1>4 DEF SameFor, OnPlot, Live, Tables
  <2>2. CurrentIn(c, p)
    BY <1>11, <2>1, SameCurrent
  <2> QED BY <1>4, <1>5, <1>11, <2>2, BillingCurrent
<1> QED BY <1>4, <1>7, <1>9, <1>10, <1>11 DEF d

\* The counter's promise is made while something is left of the invoice.
LEMMA SettleRemainingKeeps ==
    ASSUME Good(Tables, {}), Tables' \in Database, NEW b \in BillingId,
           NEW y \in PaymentId, NEW x \in Amount, NEW promise \in BOOLEAN,
           SettleRemaining(b, y, x, promise)
    PROVE  StepKeeps
<1> DEFINE d == IF x = 0 THEN Tables ELSE Receive(Tables, y, b, x)
           e == [d EXCEPT !.billing[b].promised = TRUE]
<1>1. /\ billing[b].state = "live" /\ x \in Nat
      /\ x >= 1 => payment[y].state = "none"
      /\ Commit(IF promise /\ Remaining(b) - x >= 1 THEN e ELSE d)
  BY LedgerAssumption DEF SettleRemaining, LiveBillings, FreshPayments
<1>2. CASE ~(promise /\ Remaining(b) - x >= 1)
  <2>1. CASE x = 0
    <3>1. Tables' = Tables
      BY <1>1, <1>2, <2>1, CommitTables, TablesTyped
    <3>2. billing' = billing /\ paid' = paid /\ Tables' \in Database
      BY <3>1, TablesTyped DEF Tables
    <3>3. \A k \in BillingId : OfficeKept(k)
      BY <3>2, RowKept
    <3>4. \A p \in PlotId : StaysCurrent(p)
      BY <3>1, CurrentBefore, CurrentAfter DEF StaysCurrent
    <3> QED BY <3>3, <3>4 DEF StepKeeps
  <2>2. CASE x # 0
    BY <1>1, <1>2, <2>2, ReceiveKeeps
  <2> QED BY <2>1, <2>2
<1>3. CASE promise /\ Remaining(b) - x >= 1
  <2>1. /\ d \in Database /\ d.billing[b].state = "live"
        /\ d.billing[b].amount = billing[b].amount
        /\ \A k \in BillingId \ {b} : d.billing[k] = billing[k] /\ d.paid[k] = paid[k]
        /\ \A p \in PlotId : plot[p].live /\ CurrentIn(Tables, p) => CurrentIn(d, p)
        /\ \/ x = 0 /\ d = Tables
           \/ /\ y \in PaymentsOf(d, b) /\ d.paid[b] = Received(Tables, b) + x
              /\ d.billing[b].status = ComputeBillingStatus(billing[b], d.paid[b])
    <3>1. CASE x = 0
      BY <1>1, <3>1, TablesTyped DEF Tables
    <3>2. CASE x # 0
      BY <1>1, <3>2, ReceiveDoes DEF Live, Tables
    <3> QED BY <3>1, <3>2
  <2> HIDE DEF d
  <2> DEFINE r == [d.billing[b] EXCEPT !.promised = TRUE]
  <2>2. d.billing \in [BillingId -> BillingRow] /\ d.paid \in [BillingId -> Nat]
    BY <2>1 DEF Database
  <2>3. /\ r \in BillingRow /\ r.state = "live" /\ r.amount = billing[b].amount
        /\ r.plot = d.billing[b].plot /\ r.category = d.billing[b].category
        /\ r.terminated = d.billing[b].terminated /\ r.status = d.billing[b].status
    BY <2>1, <2>2 DEF BillingRow
  <2>4. e = [d EXCEPT !.billing[b] = r]
    OBVIOUS
  <2> HIDE DEF r
  <2>5. /\ e \in Database /\ e.paid = d.paid /\ e.payment = d.payment
        /\ e.plot = d.plot /\ e.uncollected = d.uncollected /\ e.billing[b] = r
        /\ \A k \in BillingId \ {b} : e.billing[k] = d.billing[k]
    BY <2>1, <2>3, <2>4 DEF Database
  <2>6. Commit(e)
    BY <1>1, <1>3
  <2> HIDE DEF e
  <2>7. /\ Tables' = e /\ billing' = e.billing /\ paid' = e.paid /\ payment' = e.payment
    BY <2>5, <2>6, CommitTables DEF Commit
  <2>8. ASSUME NEW k \in BillingId, k # b PROVE OfficeKept(k)
    BY <2>1, <2>5, <2>7, <2>8, RowKept
  <2>9. OfficeKept(b)
    <3>1. billing[b] \in BillingRow /\ paid[b] \in Nat /\ Received(Tables, b) \in Nat
          /\ paid[b] >= Received(Tables, b)
      BY <1>1, TablesTyped, ReceivedType DEF Good, Covered, Live, Tables
    <3>2. billing[b].amount \in Nat /\ billing[b].amount - paid[b] - x >= 1
      BY <1>3, <3>1 DEF Remaining, BillingRow
    <3>3. paid'[b] < billing'[b].amount
      <4>1. CASE d = Tables
        BY <1>1, <2>3, <2>5, <2>7, <3>1, <3>2, <4>1 DEF Tables
      <4>2. CASE d.paid[b] = Received(Tables, b) + x
        BY <1>1, <2>3, <2>5, <2>7, <3>1, <3>2, <4>2
      <4> QED BY <2>1, <4>1, <4>2
    <3>4. CASE x = 0 /\ d = Tables
      <4>1. billing'[b].status = billing[b].status /\ paid'[b] = paid[b]
        BY <2>3, <2>5, <2>7, <3>4 DEF Tables
      <4> QED BY <3>3, <4>1 DEF OfficeKept, PromiseDue
    <3>5. CASE y \in PaymentsOf(d, b)
               /\ d.billing[b].status = ComputeBillingStatus(billing[b], d.paid[b])
      <4>1. billing'[b].status = ComputeBillingStatus(billing[b], paid'[b])
        BY <2>3, <2>5, <2>7, <3>5
      <4>2. PaymentsOf(Tables, b)' # {}
        BY <2>5, <2>7, <3>5 DEF PaymentsOf
      <4>3. billing[b].terminated => billing[b].status \in {"terminated", "written_off"}
        BY <1>1 DEF Good, Shown, Live, Tables
      <4>4. billing[b].status \in ManualStatus /\ billing'[b].status # billing[b].status
            => billing[b].status = "overdue" /\ FullyPaid(billing[b].amount, paid'[b])
        BY <4>1, <4>3 DEF ComputeBillingStatus, ManualStatus
      <4> QED BY <3>3, <4>2, <4>4 DEF OfficeKept, PromiseDue
    <3> QED BY <2>1, <3>4, <3>5
  <2>10. ASSUME NEW p \in PlotId, plot[p].live, PlotCurrent(p) PROVE PlotCurrent(p)'
    <3>1. CurrentIn(d, p)
      BY <2>1, <2>10, CurrentBefore
    <3>2. SameFor(d, e, p)
      BY <2>1, <2>3, <2>5 DEF SameFor, OnPlot, Live
    <3> QED BY <2>7, <3>1, <3>2, SameCurrent, CurrentAfter
  <2> QED BY <2>8, <2>9, <2>10 DEF StepKeeps, StaysCurrent
<1> QED BY <1>2, <1>3

\* The generation refreshes the plot of every invoice it inserts.
LEMMA GenerateManagementFeesKeeps ==
    ASSUME Good(Tables, {}), NEW B \in SUBSET FreshBillings,
           NEW home \in [B -> LivePlots], NEW x \in Amount,
           GenerateManagementFees(home, x)
    PROVE  StepKeeps
<1> DEFINE r(b) == NewBilling(home[b], "management_fee", x, TRUE, "billed", None)
           rows == [b \in BillingId |-> IF b \in DOMAIN home THEN r(b)
                                        ELSE billing[b]]
           d == [Tables EXCEPT !.billing = rows]
           S == {home[b] : b \in DOMAIN home}
<1>1. Commit(RecalculatePlots(d, S))
  BY DEF GenerateManagementFees
<1>2. \A b \in B : /\ r(b) \in BillingRow /\ r(b).state = "live"
                   /\ r(b).plot = home[b] /\ ~r(b).promised
                   /\ billing[b].state = "none" /\ home[b] \in S
  <2> SUFFICES ASSUME NEW b \in B
               PROVE  /\ r(b) \in BillingRow /\ r(b).state = "live"
                      /\ r(b).plot = home[b] /\ ~r(b).promised
                      /\ billing[b].state = "none" /\ home[b] \in S
    OBVIOUS
  <2>1. x \in Nat /\ "management_fee" \in Category /\ "billed" \in BillingStatus
        /\ None \in BatchId \cup {None} /\ TRUE \in BOOLEAN
    BY LedgerAssumption DEF BillingStatus
  <2>2. home[b] \in PlotId
    BY DEF LivePlots
  <2>3. home[b] \in S
    OBVIOUS
  <2> HIDE DEF S
  <2> QED BY <2>1, <2>2, <2>3
          DEF NewBilling, NoBillingRow, BillingRow, RowState, FreshBillings
<1> HIDE DEF r, S
<1>3. rows \in [BillingId -> BillingRow]
  BY <1>2, TablesTyped
<1>4. \A b \in BillingId : rows[b] = IF b \in B THEN r(b) ELSE billing[b]
  OBVIOUS
<1> HIDE DEF rows
<1>5. /\ d \in Database /\ d.billing = rows /\ d.paid = paid /\ d.plot = plot
      /\ d.uncollected = uncollected
  BY <1>3, TablesTyped DEF Database, Tables
<1> HIDE DEF d
<1>6. \A b \in BillingId :
        \/ d.billing[b] = billing[b] /\ d.paid[b] = paid[b]
        \/ /\ \/ d.billing[b].state # "live"
              \/ billing[b].state = "none" /\ ~d.billing[b].promised
           /\ \A p \in PlotId : OnPlot(d, b, p) \/ OnPlot(Tables, b, p) => p \in S
  BY <1>2, <1>4, <1>5 DEF OnPlot, Live, Tables
<1> QED BY <1>1, <1>5, <1>6, RowsKeep

\* A prepaid batch inserts invoices of one plot, and refreshes it.
LEMMA CreatePrepaidBillingKeeps ==
    ASSUME Good(Tables, {}), NEW k \in BatchId, NEW p \in PlotId,
           NEW Y \in SUBSET FreshPayments, NEW year \in Injection(Y, FreshBillings),
           NEW y0 \in Y, NEW x \in Amount,
           CreatePrepaidBilling(k, p, year, year[y0], x)
    PROVE  StepKeeps
<1> DEFINE years == {year[y] : y \in DOMAIN year}
           share == Allocate(x, year[y0], years)
           r(b) == NewBilling(p, "management_fee", share[b], TRUE, "paid", k)
           s(y) == NewPayment(year[y], p, share[year[y]], k)
           rows == [b \in BillingId |-> IF b \in years THEN r(b) ELSE billing[b]]
           totals == [b \in BillingId |-> IF b \in years THEN share[b] ELSE paid[b]]
           q == [y \in PaymentId |-> IF y \in DOMAIN year THEN s(y) ELSE payment[y]]
           d == [Tables EXCEPT !.billing = rows, !.paid = totals, !.payment = q]
<1>1. year \in [Y -> FreshBillings] /\ DOMAIN year = Y
  BY DEF Injection
<1>2. /\ years \subseteq BillingId /\ years # {}
      /\ \A b \in years : billing[b].state = "none"
      /\ \A y \in Y : year[y] \in years
  BY <1>1 DEF FreshBillings
<1>3. Commit(RecalculatePlots(d, {p}))
  BY DEF CreatePrepaidBilling
<1> HIDE DEF years
<1>4. share \in [years -> Nat]
  <2>1. IsFiniteSet(years) /\ x \in Nat
    BY <1>2, LedgerAssumption, FS_Subset
  <2> QED BY <1>2, <2>1, AllocateType
<1> HIDE DEF share
<1>5. \A b \in years : /\ r(b) \in BillingRow /\ r(b).state = "live"
                       /\ r(b).plot = p /\ ~r(b).promised
  <2>1. "management_fee" \in Category /\ "paid" \in BillingStatus /\ TRUE \in BOOLEAN
        /\ k \in BatchId \cup {None} /\ \A b \in years : share[b] \in Nat
    BY <1>4, LedgerAssumption DEF BillingStatus
  <2> QED BY <2>1 DEF NewBilling, NoBillingRow, BillingRow, RowState
<1>6. \A y \in Y : s(y) \in PaymentRow
  <2> SUFFICES ASSUME NEW y \in Y PROVE s(y) \in PaymentRow
    OBVIOUS
  <2>1. year[y] \in BillingId /\ share[year[y]] \in Nat
    BY <1>2, <1>4
  <2> QED BY <2>1 DEF NewPayment, PaymentRow, RowState
<1> HIDE DEF r, s
<1>7. /\ rows \in [BillingId -> BillingRow] /\ totals \in [BillingId -> Nat]
      /\ q \in [PaymentId -> PaymentRow]
  BY <1>1, <1>2, <1>4, <1>5, <1>6, TablesTyped
<1>8. \A b \in BillingId :
        IF b \in years THEN rows[b] = r(b)
        ELSE rows[b] = billing[b] /\ totals[b] = paid[b]
  OBVIOUS
<1> HIDE DEF rows, totals, q
<1>9. /\ d \in Database /\ d.billing = rows /\ d.paid = totals /\ d.plot = plot
      /\ d.uncollected = uncollected
  BY <1>7, TablesTyped DEF Database, Tables
<1> HIDE DEF d
<1>10. \A b \in BillingId :
         \/ d.billing[b] = billing[b] /\ d.paid[b] = paid[b]
         \/ /\ \/ d.billing[b].state # "live"
               \/ billing[b].state = "none" /\ ~d.billing[b].promised
            /\ \A a \in PlotId : OnPlot(d, b, a) \/ OnPlot(Tables, b, a) => a \in {p}
  BY <1>2, <1>5, <1>8, <1>9 DEF OnPlot, Live, Tables
<1> QED BY <1>3, <1>9, <1>10, RowsKeep

\* deletePrepaidBilling refreshes the plots of the invoices it deletes.
LEMMA DeletePrepaidBillingKeeps ==
    ASSUME Good(Tables, {}), NEW k \in BatchId, DeletePrepaidBilling(k)
    PROVE  StepKeeps
<1> DEFINE bs == {b \in LiveBillings : billing[b].batch = k}
           ys == {y \in LivePayments : payment[y].batch = k}
           q == [y \in PaymentId |->
                   IF y \in ys THEN [payment[y] EXCEPT !.state = "deleted"]
                   ELSE payment[y]]
           rows == [b \in BillingId |->
                      IF b \in bs THEN [billing[b] EXCEPT !.state = "deleted"]
                      ELSE billing[b]]
           d == [Tables EXCEPT !.payment = q, !.billing = rows]
           S == {billing[b].plot : b \in bs}
<1>1. Commit(RecalculatePlots(d, S))
  BY DEF DeletePrepaidBilling
<1>2. \A b \in bs : billing[b].plot \in S
  OBVIOUS
<1> HIDE DEF bs, ys, S
<1>3. q \in [PaymentId -> PaymentRow] /\ rows \in [BillingId -> BillingRow]
  BY TablesTyped DEF PaymentRow, BillingRow, RowState
<1>4. \A b \in BillingId : \/ rows[b] = billing[b]
                           \/ b \in bs /\ rows[b].state = "deleted"
  BY TablesTyped DEF BillingRow
<1> HIDE DEF q, rows
<1>5. /\ d \in Database /\ d.billing = rows /\ d.paid = paid /\ d.plot = plot
      /\ d.uncollected = uncollected
  BY <1>3, TablesTyped DEF Database, Tables
<1> HIDE DEF d
<1>6. \A b \in BillingId :
        \/ d.billing[b] = billing[b] /\ d.paid[b] = paid[b]
        \/ /\ \/ d.billing[b].state # "live"
              \/ billing[b].state = "none" /\ ~d.billing[b].promised
           /\ \A p \in PlotId : OnPlot(d, b, p) \/ OnPlot(Tables, b, p) => p \in S
  BY <1>2, <1>4, <1>5 DEF OnPlot, Live, Tables
<1> QED BY <1>1, <1>5, <1>6, RowsKeep

\* The plot form may leave the plot behind: that is one of the two edits.
LEMMA EditPlotStatusKeeps ==
    ASSUME Good(Tables, {}), NEW p \in PlotId, NEW s \in PlotStatusInput,
           EditPlotStatus(p, s)
    PROVE  StepKeeps
<1>1. /\ billing' = billing /\ paid' = paid /\ payment' = payment
      /\ uncollected' = uncollected /\ plot' = [plot EXCEPT ![p].status = s]
  BY DEF EditPlotStatus, Commit, Tables
<1>2. \A b \in BillingId : OfficeKept(b)
  BY <1>1, RowKept
<1>3. ASSUME NEW q \in PlotId, PlotCurrent(q), ~Edited(q) PROVE PlotCurrent(q)'
  <2>1. plot[q] \in PlotRow /\ plot'[q] \in PlotRow /\ plot'[q].status = plot[q].status
        /\ plot'[q].live = plot[q].live
    <3>1. s \in PaymentStatus
      BY LedgerAssumption
    <3> QED BY <1>1, <1>3, <3>1, TablesTyped DEF Edited, PlotRow
  <2>2. plot'[q] = plot[q]
    BY <2>1 DEF PlotRow
  <2>3. SameFor(Tables, Tables', q)
    BY <1>1, <2>2 DEF SameFor, OnPlot, Live, Tables
  <2> QED BY <1>3, <2>3, SameCurrent, CurrentBefore, CurrentAfter
<1> QED BY <1>2, <1>3 DEF StepKeeps, StaysCurrent

\* deletePlot deletes invoices of that plot only.
LEMMA DeletePlotKeeps ==
    ASSUME Good(Tables, {}), NEW p \in PlotId, DeletePlot(p)
    PROVE  StepKeeps
<1>1. /\ paid' = paid /\ uncollected' = uncollected
      /\ plot' = [plot EXCEPT ![p].live = FALSE]
      /\ billing' = [b \in BillingId |->
                       IF b \in LiveBillings /\ billing[b].plot = p
                       THEN [billing[b] EXCEPT !.state = "deleted"] ELSE billing[b]]
  BY DEF DeletePlot, Commit, Tables
<1>2. \A b \in BillingId :
        \/ billing'[b] = billing[b]
        \/ billing[b].plot = p /\ billing'[b].state = "deleted"
                               /\ billing'[b].plot = p
  BY <1>1, TablesTyped DEF BillingRow
<1>3. \A b \in BillingId : OfficeKept(b)
  BY <1>1, <1>2, RowKept
<1>4. ASSUME NEW q \in PlotId, plot'[q].live, PlotCurrent(q) PROVE PlotCurrent(q)'
  <2>1. q # p /\ plot'[q] = plot[q]
    BY <1>1, <1>4, TablesTyped DEF PlotRow
  <2>2. SameFor(Tables, Tables', q)
    BY <1>1, <1>2, <2>1 DEF SameFor, OnPlot, Live, Tables
  <2> QED BY <1>4, <2>2, SameCurrent, CurrentBefore, CurrentAfter
<1> QED BY <1>3, <1>4 DEF StepKeeps, StaysCurrent

\* Every handler keeps them.
LEMMA NextKeeps ==
    ASSUME Good(Tables, {}), [Next]_vars
    PROVE  StepKeeps
<1>1. Tables' \in Database
  BY NextGood DEF Good
<1>2. CASE InvoiceStep
  BY <1>2, CreateBillingKeeps, UpdateBillingKeeps, DeleteBillingKeeps DEF InvoiceStep
<1>3. CASE ReceiptStep
  <2>1. PICK y \in PaymentId, x \in Amount :
          \/ \E p \in PlotId \cup {None} :
               \/ CreateOrphanPayment(y, p, x)
               \/ \E b \in BillingId \cup {None} : EditPayment(y, b, p, x)
          \/ DeletePayment(y)
          \/ \E b \in BillingId :
               \/ CreateBilledPayment(y, b, x)
               \/ RelinkPayment(y, b, x)
               \/ \E promise \in BOOLEAN : SettleRemaining(b, y, x, promise)
               \/ ApplyYuchoResult(b, y, x)
    BY <1>3 DEF ReceiptStep
  <2>2. CASE \E p \in PlotId \cup {None} : CreateOrphanPayment(y, p, x)
    BY <1>1, <2>2, CreateOrphanPaymentKeeps
  <2>3. ASSUME NEW p \in PlotId \cup {None}, NEW b \in BillingId \cup {None},
               EditPayment(y, b, p, x)
        PROVE  StepKeeps
    BY <1>1, <2>3, EditedReceiptKeeps DEF EditPayment
  <2>4. CASE DeletePayment(y)
    BY <1>1, <2>4, DeletePaymentKeeps
  <2>5. CASE \E b \in BillingId : CreateBilledPayment(y, b, x) \/ ApplyYuchoResult(b, y, x)
    BY <1>1, <2>5, ReceiveKeeps DEF CreateBilledPayment, ApplyYuchoResult
  <2>6. ASSUME NEW b \in BillingId, RelinkPayment(y, b, x) PROVE StepKeeps
    <3>1. billing[b].plot \in PlotId \cup {None} /\ b \in BillingId \cup {None}
      BY TablesTyped DEF BillingRow
    <3> QED BY <1>1, <2>6, <3>1, EditedReceiptKeeps DEF RelinkPayment
  <2>7. CASE \E b \in BillingId, promise \in BOOLEAN : SettleRemaining(b, y, x, promise)
    BY <1>1, <2>7, SettleRemainingKeeps
  <2> QED BY <2>1, <2>2, <2>3, <2>4, <2>5, <2>6, <2>7
<1>4. CASE BatchStep
  <2>1. PICK x \in Amount :
          \/ \E B \in SUBSET FreshBillings \ {{}} :
               \E home \in Injection(B, LivePlots) : GenerateManagementFees(home, x)
          \/ \E k \in BatchId, p \in PlotId, Y \in SUBSET FreshPayments \ {{}} :
               \E year \in Injection(Y, FreshBillings) : \E y \in Y :
                 CreatePrepaidBilling(k, p, year, year[y], x)
          \/ \E k \in BatchId : DeletePrepaidBilling(k)
    BY <1>4 DEF BatchStep
  <2>2. ASSUME NEW B \in SUBSET FreshBillings, NEW home \in Injection(B, LivePlots),
               GenerateManagementFees(home, x)
        PROVE  StepKeeps
    <3>1. home \in [B -> LivePlots]
      BY DEF Injection
    <3> QED BY <2>2, <3>1, GenerateManagementFeesKeeps
  <2>3. CASE \E k \in BatchId, p \in PlotId, Y \in SUBSET FreshPayments \ {{}} :
               \E year \in Injection(Y, FreshBillings) : \E y \in Y :
                 CreatePrepaidBilling(k, p, year, year[y], x)
    BY <2>3, CreatePrepaidBillingKeeps
  <2>4. CASE \E k \in BatchId : DeletePrepaidBilling(k)
    BY <2>4, DeletePrepaidBillingKeeps
  <2> QED BY <2>1, <2>2, <2>3, <2>4
<1>5. CASE PlotStep
  BY <1>5, EditPlotStatusKeeps, DeletePlotKeeps DEF PlotStep
<1>6. CASE UNCHANGED vars
  <2>1. Tables' = Tables /\ billing' = billing /\ paid' = paid
    BY <1>6 DEF vars, Tables
  <2>2. \A b \in BillingId : OfficeKept(b)
    BY <2>1, RowKept
  <2>3. \A p \in PlotId : StaysCurrent(p)
    BY <2>1, CurrentBefore, CurrentAfter DEF StaysCurrent
  <2> QED BY <2>2, <2>3 DEF StepKeeps
<1> QED BY <1>2, <1>3, <1>4, <1>5, <1>6 DEF Next

\* The migration loads no promise.
LEMMA InitPromises ==
    ASSUME Init PROVE \A b \in BillingId : PromiseDue(b)
<1>1. PICK home \in [Migrated -> PlotId], c \in [Migrated -> Category],
           x \in [Migrated -> Amount], total \in [Migrated -> Amount],
           gone \in [Migrated -> BOOLEAN] :
        LET loaded ==
              [billing |-> [b \in BillingId |->
                   IF b \in Migrated
                   THEN MigratedRow(home[b], c[b], x[b], total[b], gone[b])
                   ELSE NoBillingRow],
               paid |-> [b \in BillingId |-> IF b \in Migrated THEN total[b] ELSE 0],
               payment |-> [y \in PaymentId |-> NoPaymentRow],
               plot |-> [p \in PlotId |-> [live |-> TRUE, status |-> "unpaid"]],
               uncollected |-> [p \in PlotId |-> 0]]
            d == RecalculatePlots(loaded, PlotId)
        IN /\ billing = d.billing
           /\ paid = d.paid
           /\ payment = d.payment
           /\ plot = d.plot
           /\ uncollected = d.uncollected
  BY DEF Init
<1>2. ASSUME NEW b \in BillingId PROVE ~billing[b].promised
  <2>1. \A p, k, a, t, g : ~MigratedRow(p, k, a, t, g).promised
    BY DEF MigratedRow, NewBilling, NoBillingRow
  <2>2. billing[b] = IF b \in Migrated
                     THEN MigratedRow(home[b], c[b], x[b], total[b], gone[b])
                     ELSE NoBillingRow
    BY <1>1 DEF RecalculatePlots
  <2> QED BY <2>1, <2>2 DEF NoBillingRow
<1> QED BY <1>2 DEF PromiseDue

\* The steps that StepKeeps allows have the three action properties.
LEMMA KeptProperties ==
    ASSUME Good(Tables, {}), StepKeeps
    PROVE  /\ \A b \in LiveBillings :
                /\ billing'[b].state = "live" /\ payment' # payment
                /\ billing[b].status \in ManualStatus
                /\ billing'[b].status # billing[b].status
                => /\ billing[b].status = "overdue"
                   /\ FullyPaid(billing[b].amount, paid'[b])
           /\ \A b \in LiveBillings :
                /\ billing[b].legacy /\ billing'[b].state = "live"
                /\ PaymentsOf(Tables, b) = {} /\ PaymentsOf(Tables, b)' = {}
                => paid'[b] = paid[b]
           /\ \A p \in LivePlots :
                plot'[p].live /\ PlotCurrent(p) /\ ~PlotCurrent(p)'
                => \/ \E b \in LiveBillings :
                         /\ billing[b].plot = p
                         /\ billing'[b].category # billing[b].category
                   \/ /\ plot'[p].status # plot[p].status
                      /\ UNCHANGED <<billing, paid, payment>>
<1>1. /\ \A b \in LiveBillings : b \in BillingId /\ billing[b].state = "live"
      /\ \A p \in LivePlots : p \in PlotId /\ plot[p].live
  BY DEF LiveBillings, LivePlots
<1> QED BY <1>1 DEF StepKeeps, OfficeKept, StaysCurrent, Edited

\* No promise of a next payment outlives the debt: whoever pays the rest, and by
\* whichever handler, the refresh of the totals clears the promise, and the
\* counter makes one only while something is left.
THEOREM PromisesEnd == Spec => []PromiseOnlyWhileOwed
<1> DEFINE Due == \A b \in BillingId : PromiseDue(b)
<1>1. Init => Due
  BY InitPromises
<1>2. Good(Tables, {}) /\ Due /\ [Next]_vars => Due'
  BY NextKeeps DEF StepKeeps, OfficeKept
<1>3. Due => PromiseOnlyWhileOwed
  BY DEF PromiseDue, PromiseOnlyWhileOwed, LiveBillings
<1> QED BY <1>1, <1>2, <1>3, LedgerInvariant, PTL DEF Spec

\* A status set by hand stands whatever receipts do, except an overdue invoice
\* that becomes fully paid.
THEOREM StatusByHandStands == Spec => ManualStatusStands
<1> DEFINE Step == \A b \in LiveBillings :
             /\ billing'[b].state = "live" /\ payment' # payment
             /\ billing[b].status \in ManualStatus
             /\ billing'[b].status # billing[b].status
             => /\ billing[b].status = "overdue"
                /\ FullyPaid(billing[b].amount, paid'[b])
<1>1. Good(Tables, {}) /\ [Next]_vars => [Step]_vars
  BY NextKeeps, KeptProperties
<1>2. ManualStatusStands <=> [][Step]_vars
  BY DEF ManualStatusStands
<1> QED BY <1>1, <1>2, LedgerInvariant, PTL DEF Spec

\* A migrated total stays through every edit while the invoice has no receipt.
THEOREM MigratedTotals == Spec => MigratedTotalStands
<1> DEFINE Step == \A b \in LiveBillings :
             /\ billing[b].legacy /\ billing'[b].state = "live"
             /\ PaymentsOf(Tables, b) = {} /\ PaymentsOf(Tables, b)' = {}
             => paid'[b] = paid[b]
<1>1. Good(Tables, {}) /\ [Next]_vars => [Step]_vars
  BY NextKeeps, KeptProperties
<1>2. MigratedTotalStands <=> [][Step]_vars
  BY DEF MigratedTotalStands
<1> QED BY <1>1, <1>2, LedgerInvariant, PTL DEF Spec

\* Only two edits leave what a plot shows behind what its invoices say: of the
\* plot's own payment status, and of the category of one of its invoices.
THEOREM OnlyEditsStale == Spec => OnlyEditsLeavePlotStale
<1> DEFINE Step == \A p \in LivePlots :
             plot'[p].live /\ PlotCurrent(p) /\ ~PlotCurrent(p)'
             => \/ \E b \in LiveBillings :
                      /\ billing[b].plot = p
                      /\ billing'[b].category # billing[b].category
                \/ /\ plot'[p].status # plot[p].status
                   /\ UNCHANGED <<billing, paid, payment>>
<1>1. Good(Tables, {}) /\ [Next]_vars => [Step]_vars
  BY NextKeeps, KeptProperties
<1>2. OnlyEditsLeavePlotStale <=> [][Step]_vars
  BY DEF OnlyEditsLeavePlotStale
<1> QED BY <1>1, <1>2, LedgerInvariant, PTL DEF Spec
=============================================================================
