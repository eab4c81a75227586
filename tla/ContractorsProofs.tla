--------------------------- MODULE ContractorsProofs ---------------------------
(***************************************************************************)
(* A plot is sorted by the present name of its contractor, nobody who has   *)
(* ended or is deleted is party to a contract, and no party is deleted, for  *)
(* any customers, plots, requests and deletions under way.                  *)
(*                                                                         *)
(* The handlers build the next database in stages, so the invariant is      *)
(* stated of a database: what holds of all plots but some, X, whose copy of  *)
(* the name is still to be refreshed.                                        *)
(***************************************************************************)
EXTENDS Contractors, DataFacts

Database ==
    [cust : [Customer -> CustomerRow], plot : [Plot -> PlotRow],
     role : [Plot -> Seq(RoleRow(Customer))]]

\* A party is a customer that exists, or did.
Known(d) ==
    \A p \in Plot, c \in Customer : Party(d, p, c) => d.cust[c].state # "none"

FreshBut(d, X) ==
    \A p \in LivePlots(d) \ X : d.plot[p].snapshot = SnapshotOf(d, p)

MayHold(d, c) == d.cust[c].state = "live" /\ ~d.cust[c].ended

Clean(d, U) ==
    \A p \in Plot \ U, c \in Customer : Party(d, p, c) => MayHold(d, c)

Sound(d, U, X) == d \in Database /\ Known(d) /\ Clean(d, U) /\ FreshBut(d, X)

\* Nobody who exists changes his standing.
StatesStay(d, e) ==
    \A c \in Customer : d.cust[c].state # "none" =>
      e.cust[c].state = d.cust[c].state /\ e.cust[c].ended = d.cust[c].ended

\* The customers of these rows may be party to p; where nobody looks, they exist.
Named(d, U, p, rows) ==
    \A i \in DOMAIN rows :
      d.cust[rows[i].cust].state # "none" /\ (p \notin U => MayHold(d, rows[i].cust))

\* The rows that are left are all those of other kinds.
Keeps(rows, kind, left) ==
    \A i \in DOMAIN rows : rows[i].kind # kind =>
      \E n \in DOMAIN left : left[n] = rows[i]

\* The stages that several handlers share: the copies of the plots R are refreshed,
\* the roles of p are written.
Refreshed(d, R) ==
    [d EXCEPT !.plot = [p \in Plot |->
       IF p \in R THEN [d.plot[p] EXCEPT !.snapshot = SnapshotOf(d, p)] ELSE d.plot[p]]]
WithRows(d, p, rows) == [d EXCEPT !.role[p] = rows]
Extended(d, extra, shared) ==
    [d EXCEPT
       !.plot = [x \in Plot |-> IF x \in extra THEN NewPlot(d, x, shared).plot[x] ELSE @[x]],
       !.role = [x \in Plot |-> IF x \in extra THEN shared ELSE @[x]]]

OnlyRoles(d, e, p, rows) ==
    /\ e.cust = d.cust /\ e.plot = d.plot /\ e.role[p] = rows
    /\ \A x \in Plot \ {p} : e.role[x] = d.role[x]

JobType ==
    [plot : Plot \cup {Null}, parties : SUBSET Customer, works : SUBSET Customer,
     lost : BOOLEAN]

IInv ==
    /\ Sound(db, unchecked, {})
    /\ job \in [Deleter -> JobType]
    /\ unchecked \subseteq Plot

-----------------------------------------------------------------------------
\* The rows of a plot are counted from one.
LEMMA RoleRows ==
    ASSUME NEW d \in Database, NEW p \in Plot
    PROVE  /\ d.role[p] \in Seq(RoleRow(Customer))
           /\ DOMAIN d.role[p] \subseteq Nat
           /\ \A i \in DOMAIN d.role[p] : d.role[p][i] \in RoleRow(Customer)
<1>1. d.role[p] \in Seq(RoleRow(Customer))
  BY DEF Database
<1>2. /\ DOMAIN d.role[p] = 1 .. Len(d.role[p]) /\ Len(d.role[p]) \in Nat
      /\ d.role[p] \in [1 .. Len(d.role[p]) -> RoleRow(Customer)]
  BY <1>1, LenProperties
<1> QED BY <1>1, <1>2

\* The first contractor is one of the contractors.
LEMMA FirstContractor ==
    ASSUME NEW d \in Database, NEW p \in Plot,
           {i \in DOMAIN d.role[p] : d.role[p][i].kind = "contractor"} # {}
    PROVE  LET I == {i \in DOMAIN d.role[p] : d.role[p][i].kind = "contractor"}
               first == CHOOSE i \in I : \A j \in I : i <= j
           IN  /\ first \in I
               /\ d.role[p][first].cust \in Customer
               /\ Holds(d, p, d.role[p][first].cust, "contractor")
<1> DEFINE I == {i \in DOMAIN d.role[p] : d.role[p][i].kind = "contractor"}
           first == CHOOSE i \in I : \A j \in I : i <= j
<1>1. I \in SUBSET Nat /\ I # {}
  BY RoleRows
<1>2. \E i \in I : \A j \in I : i <= j
  BY <1>1, FirstIndex
<1>3. first \in I
  BY <1>2
<1>4. first \in DOMAIN d.role[p] /\ d.role[p][first].kind = "contractor"
  BY <1>3
<1> HIDE DEF first
<1>5. d.role[p][first] \in RoleRow(Customer)
  BY <1>4, RoleRows
<1>6. /\ d.role[p][first].cust \in Customer
      /\ d.role[p][first] = [cust |-> d.role[p][first].cust, kind |-> "contractor"]
  BY <1>4, <1>5 DEF RoleRow
<1>7. Holds(d, p, d.role[p][first].cust, "contractor")
  BY <1>4, <1>6 DEF Holds
<1> QED BY <1>3, <1>6, <1>7 DEF first

\* The name to sort by is decided by the roles and the names of the contractors.
LEMMA SnapshotSame ==
    ASSUME NEW d \in Database, NEW e, NEW p \in Plot, e.role[p] = d.role[p],
           \A c \in Customer : Holds(d, p, c, "contractor") => e.cust[c].kana = d.cust[c].kana
    PROVE  SnapshotOf(e, p) = SnapshotOf(d, p)
<1> DEFINE I == {i \in DOMAIN d.role[p] : d.role[p][i].kind = "contractor"}
           first == CHOOSE i \in I : \A j \in I : i <= j
<1>1. CASE I = {}
  <2>1. /\ SnapshotOf(d, p) = IF I = {} THEN Null ELSE d.cust[d.role[p][first].cust].kana
        /\ SnapshotOf(e, p) = IF I = {} THEN Null ELSE e.cust[d.role[p][first].cust].kana
    BY DEF SnapshotOf
  <2> HIDE DEF I
  <2> QED BY <1>1, <2>1
<1>2. CASE I # {}
  <2>1. e.cust[d.role[p][first].cust].kana = d.cust[d.role[p][first].cust].kana
    BY <1>2, FirstContractor
  <2>2. SnapshotOf(d, p) = d.cust[d.role[p][first].cust].kana
    BY <1>2 DEF SnapshotOf
  <2>3. SnapshotOf(e, p) = e.cust[d.role[p][first].cust].kana
    BY <1>2 DEF SnapshotOf
  <2> QED BY <2>1, <2>2, <2>3
<1> QED BY <1>1, <1>2

LEMMA SnapshotType ==
    ASSUME NEW d \in Database, NEW p \in Plot
    PROVE  SnapshotOf(d, p) \in Kana \cup {Null}
<1> DEFINE I == {i \in DOMAIN d.role[p] : d.role[p][i].kind = "contractor"}
           first == CHOOSE i \in I : \A j \in I : i <= j
<1>1. CASE I = {}
  BY <1>1 DEF SnapshotOf
<1>2. CASE I # {}
  <2>1. d.role[p][first].cust \in Customer
    BY <1>2, FirstContractor
  <2>2. d.cust[d.role[p][first].cust].kana \in Kana
    BY <2>1 DEF Database, CustomerRow
  <2> QED BY <1>2, <2>2 DEF SnapshotOf
<1> QED BY <1>1, <1>2
-----------------------------------------------------------------------------
(* The stages of a handler *)

\* Who is party to a plot is decided by its roles.
LEMMA PartySame ==
    ASSUME NEW d, NEW e, NEW p, e.role[p] = d.role[p]
    PROVE  /\ \A c : Party(e, p, c) <=> Party(d, p, c)
           /\ \A c, kind : Holds(e, p, c, kind) <=> Holds(d, p, c, kind)
BY DEF Party, Holds

\* Customers who are no party, or a change that leaves name and standing alone.
LEMMA CustomersChange ==
    ASSUME NEW d, NEW e, NEW U, NEW X, Sound(d, U, X), e \in Database,
           e.role = d.role, e.plot = d.plot,
           \A c \in Customer : d.cust[c].state # "none" =>
             /\ e.cust[c].state = d.cust[c].state /\ e.cust[c].ended = d.cust[c].ended
             /\ e.cust[c].kana = d.cust[c].kana
    PROVE  Sound(e, U, X)
<1>0. d \in Database /\ Known(d) /\ Clean(d, U) /\ FreshBut(d, X)
  BY DEF Sound
<1>1. \A p \in Plot, c \in Customer : Party(e, p, c) <=> Party(d, p, c)
  BY PartySame
<1>2. Known(e) /\ Clean(e, U)
  BY <1>0, <1>1 DEF Known, Clean, MayHold
<1>3. ASSUME NEW p \in LivePlots(e) \ X PROVE e.plot[p].snapshot = SnapshotOf(e, p)
  <2>1. p \in Plot /\ p \in LivePlots(d) \ X
    BY DEF LivePlots
  <2>2. \A c \in Customer : Holds(d, p, c, "contractor") => Party(d, p, c)
    BY DEF Party, Kind
  <2>3. SnapshotOf(e, p) = SnapshotOf(d, p)
    BY <1>0, <2>1, <2>2, SnapshotSame DEF Known
  <2> QED BY <1>0, <2>1, <2>3 DEF FreshBut
<1> QED BY <1>2, <1>3 DEF Sound, FreshBut

\* A customer is created: nobody was party under that id.
LEMMA NewCustomerSound ==
    ASSUME NEW d, NEW U, NEW X, Sound(d, U, X), NEW c \in Unused(d), NEW kana \in Kana,
           NEW work \in BOOLEAN
    PROVE  LET e == NewCustomer(d, c, kana, work)
           IN  /\ Sound(e, U, X) /\ StatesStay(d, e)
               /\ e.role = d.role /\ e.plot = d.plot
               /\ MayHold(e, c)
               /\ \A x \in Customer \ {c} : e.cust[x] = d.cust[x]
<1> DEFINE e == NewCustomer(d, c, kana, work)
           row == [state |-> "live", ended |-> FALSE, kana |-> kana,
                   work |-> IF work THEN "live" ELSE "none"]
<1>1. d \in Database
  BY DEF Sound
<1>2. c \in Customer /\ d.cust[c].state = "none"
  BY DEF Unused
<1>3. row \in CustomerRow
  BY DEF CustomerRow, RowState
<1>4. e = [d EXCEPT !.cust = [d.cust EXCEPT ![c] = row]]
  BY <1>1 DEF NewCustomer, Database
<1>5. row.state = "live" /\ row.ended = FALSE
  OBVIOUS
<1> HIDE DEF row, e
<1>6. e \in Database /\ e.role = d.role /\ e.plot = d.plot /\ e.cust = [d.cust EXCEPT ![c] = row]
  BY <1>1, <1>2, <1>3, <1>4 DEF Database
<1>7. e.cust[c] = row /\ \A x \in Customer \ {c} : e.cust[x] = d.cust[x]
  BY <1>1, <1>2, <1>6 DEF Database
<1>8. Sound(e, U, X)
  BY <1>2, <1>6, <1>7, CustomersChange
<1>9. StatesStay(d, e)
  BY <1>2, <1>7 DEF StatesStay
<1> QED BY <1>5, <1>6, <1>7, <1>8, <1>9 DEF e, MayHold

\* Work information is no part of it.
LEMMA WorkSound ==
    ASSUME NEW d, NEW U, NEW X, Sound(d, U, X), NEW c \in Customer, NEW work \in RowState
    PROVE  LET e == [d EXCEPT !.cust[c].work = work]
           IN  /\ Sound(e, U, X) /\ StatesStay(d, e) /\ e.role = d.role
               /\ \A x \in Customer : e.cust[x].state = d.cust[x].state
<1> DEFINE row == [d.cust[c] EXCEPT !.work = work]
           e == [d EXCEPT !.cust = [d.cust EXCEPT ![c] = row]]
<1>1. d \in Database /\ d.cust[c] \in CustomerRow
  BY DEF Sound, Database
<1>2. /\ row \in CustomerRow /\ row.state = d.cust[c].state /\ row.ended = d.cust[c].ended
      /\ row.kana = d.cust[c].kana
  BY <1>1 DEF CustomerRow
<1>3. [d EXCEPT !.cust[c].work = work] = e
  BY <1>1 DEF Database
<1> HIDE DEF row
<1>4. /\ e \in Database /\ e.role = d.role /\ e.plot = d.plot
      /\ e.cust = [d.cust EXCEPT ![c] = row]
  BY <1>1, <1>2 DEF Database
<1> HIDE DEF e
<1>5. \A x \in Customer : e.cust[x] = IF x = c THEN row ELSE d.cust[x]
  BY <1>1, <1>4 DEF Database
<1>6. Sound(e, U, X)
  BY <1>2, <1>4, <1>5, CustomersChange
<1> QED BY <1>2, <1>3, <1>4, <1>5, <1>6 DEF StatesStay

\* The roles of one plot are written, for customers who may have them, or that at
\* least exist where nobody looks; its copy of the name is to be refreshed.
LEMMA RolesSound ==
    ASSUME NEW d, NEW U, NEW X, Sound(d, U, X), NEW p \in Plot,
           NEW rows \in Seq(RoleRow(Customer)),
           Named(d, U, p, rows)
    PROVE  LET e == WithRows(d, p, rows)
           IN  Sound(e, U, X \cup {p}) /\ StatesStay(d, e) /\ OnlyRoles(d, e, p, rows)
<1> DEFINE e == WithRows(d, p, rows)
<1>1. d \in Database /\ Known(d) /\ Clean(d, U) /\ FreshBut(d, X)
  BY DEF Sound
<1>2. /\ e \in Database /\ e.cust = d.cust /\ e.plot = d.plot
      /\ e.role[p] = rows /\ \A x \in Plot \ {p} : e.role[x] = d.role[x]
  BY <1>1 DEF Database, WithRows
<1> HIDE DEF e
<1>3. ASSUME NEW c \in Customer, Party(e, p, c)
      PROVE  d.cust[c].state # "none" /\ (p \notin U => MayHold(d, c))
  BY <1>2, <1>3 DEF Party, Holds, Named
<1>4. ASSUME NEW x \in Plot \ {p} PROVE \A c \in Customer : Party(e, x, c) <=> Party(d, x, c)
  BY <1>2, PartySame
<1>5. Known(e) /\ Clean(e, U)
  BY <1>1, <1>2, <1>3, <1>4 DEF Known, Clean, MayHold
<1>6. ASSUME NEW x \in LivePlots(e) \ (X \cup {p}) PROVE e.plot[x].snapshot = SnapshotOf(e, x)
  <2>1. x \in Plot \ {p} /\ x \in LivePlots(d) \ X
    BY <1>2 DEF LivePlots
  <2>2. SnapshotOf(e, x) = SnapshotOf(d, x)
    BY <1>1, <1>2, <2>1, SnapshotSame
  <2> QED BY <1>1, <1>2, <2>1, <2>2 DEF FreshBut
<1>7. StatesStay(d, e)
  BY <1>2 DEF StatesStay
<1> QED BY <1>2, <1>5, <1>6, <1>7 DEF Sound, FreshBut, OnlyRoles, e

\* The copies of some plots are refreshed: these are fresh now.
LEMMA RefreshSound ==
    ASSUME NEW d, NEW U, NEW X, Sound(d, U, X), NEW R \in SUBSET Plot
    PROVE  LET e == Refreshed(d, R)
           IN  /\ Sound(e, U, X \ R) /\ StatesStay(d, e)
               /\ e.cust = d.cust /\ e.role = d.role
               /\ \A p \in Plot : e.plot[p].state = d.plot[p].state
<1> DEFINE e == Refreshed(d, R)
<1>0. e = [d EXCEPT !.plot = [p \in Plot |->
             IF p \in R THEN [d.plot[p] EXCEPT !.snapshot = SnapshotOf(d, p)]
             ELSE d.plot[p]]]
  BY DEF Refreshed
<1> HIDE DEF e
<1>1. d \in Database /\ Known(d) /\ Clean(d, U) /\ FreshBut(d, X)
  BY DEF Sound
<1>2. e.cust = d.cust /\ e.role = d.role
  BY <1>0, <1>1 DEF Database
<1>3. ASSUME NEW p \in Plot
      PROVE  /\ e.plot[p] \in PlotRow /\ e.plot[p].state = d.plot[p].state
             /\ e.plot[p].snapshot = IF p \in R THEN SnapshotOf(d, p) ELSE d.plot[p].snapshot
  <2>1. d.plot[p] \in PlotRow /\ SnapshotOf(d, p) \in Kana \cup {Null}
    BY <1>1, SnapshotType DEF Database
  <2>2. e.plot[p] = IF p \in R THEN [d.plot[p] EXCEPT !.snapshot = SnapshotOf(d, p)]
                    ELSE d.plot[p]
    BY <1>0, <1>1 DEF Database
  <2> QED BY <2>1, <2>2 DEF PlotRow
<1>4. e \in Database
  <2> DEFINE plots == [p \in Plot |->
                  IF p \in R THEN [d.plot[p] EXCEPT !.snapshot = SnapshotOf(d, p)]
                  ELSE d.plot[p]]
  <2>1. e.plot = plots /\ e = [d EXCEPT !.plot = plots]
    BY <1>0, <1>1 DEF Database
  <2>2. plots \in [Plot -> PlotRow]
    BY <1>3, <2>1
  <2> HIDE DEF plots
  <2> QED BY <1>1, <2>1, <2>2 DEF Database
<1>5. \A p \in Plot, c \in Customer : Party(e, p, c) <=> Party(d, p, c)
  BY <1>2, PartySame
<1>6. Known(e) /\ Clean(e, U)
  BY <1>1, <1>2, <1>5 DEF Known, Clean, MayHold
<1>7. ASSUME NEW p \in LivePlots(e) \ (X \ R) PROVE e.plot[p].snapshot = SnapshotOf(e, p)
  <2>1. p \in Plot /\ p \in LivePlots(d)
    BY <1>3 DEF LivePlots
  <2>2. SnapshotOf(e, p) = SnapshotOf(d, p)
    BY <1>1, <1>2, <2>1, SnapshotSame
  <2> QED BY <1>1, <1>3, <2>1, <2>2 DEF FreshBut
<1> QED BY <1>2, <1>3, <1>4, <1>6, <1>7 DEF Sound, FreshBut, StatesStay, e

\* The handler of one plot refreshes its copy last.
LEMMA SyncSound ==
    ASSUME NEW d, NEW U, NEW X, Sound(d, U, X), NEW p \in Plot
    PROVE  LET e == syncPrimaryContractorNameKana(d, p)
           IN  /\ Sound(e, U, X \ {p}) /\ StatesStay(d, e)
               /\ e.cust = d.cust /\ e.role = d.role
               /\ \A x \in Plot : e.plot[x].state = d.plot[x].state
<1> DEFINE e == Refreshed(d, {p})
<1>1. d \in Database
  BY DEF Sound
<1>2. syncPrimaryContractorNameKana(d, p) = e
  <2> DEFINE plots == [d.plot EXCEPT ![p] = [d.plot[p] EXCEPT !.snapshot = SnapshotOf(d, p)]]
  <2>1. plots = [x \in Plot |->
                  IF x \in {p} THEN [d.plot[x] EXCEPT !.snapshot = SnapshotOf(d, x)]
                  ELSE d.plot[x]]
    BY <1>1 DEF Database
  <2>2. syncPrimaryContractorNameKana(d, p) = [d EXCEPT !.plot = plots]
    BY <1>1 DEF syncPrimaryContractorNameKana, Database
  <2> QED BY <2>1, <2>2 DEF Refreshed
<1>3. {p} \in SUBSET Plot
  OBVIOUS
<1>4. /\ Sound(e, U, X \ {p}) /\ StatesStay(d, e) /\ e.cust = d.cust /\ e.role = d.role
      /\ \A x \in Plot : e.plot[x].state = d.plot[x].state
  BY <1>3, RefreshSound
<1> HIDE DEF e
<1> QED BY <1>2, <1>4

\* A customer is renamed, and with him every plot he is a contractor of.
LEMMA RenamedSound ==
    ASSUME NEW d, NEW U, NEW X, Sound(d, U, X), NEW c \in Customer,
           NEW kana \in Kana \cup {Null}
    PROVE  LET e == Renamed(d, c, kana)
           IN  /\ Sound(e, U, X) /\ StatesStay(d, e) /\ e.role = d.role
               /\ \A x \in Customer : e.cust[x].state = d.cust[x].state
               /\ \A x \in Plot : e.plot[x].state = d.plot[x].state
<1>1. CASE kana = Null
  BY <1>1 DEF Renamed, StatesStay
<1>2. CASE kana # Null
  <2> DEFINE row == [d.cust[c] EXCEPT !.kana = kana]
             d1 == [d EXCEPT !.cust = [d.cust EXCEPT ![c] = row]]
             R == {p \in Plot : Holds(d1, p, c, "contractor")}
             e == Refreshed(d1, R)
  <2>1. /\ d \in Database /\ Known(d) /\ Clean(d, U) /\ FreshBut(d, X)
        /\ d.cust[c] \in CustomerRow
    BY DEF Sound, Database
  <2>2. /\ row \in CustomerRow /\ row.state = d.cust[c].state
        /\ row.ended = d.cust[c].ended
    BY <1>2, <2>1 DEF CustomerRow
  <2>3. [d EXCEPT !.cust[c].kana = kana] = d1
    BY <2>1 DEF Database
  <2> HIDE DEF row
  <2>4. /\ d1 \in Database /\ d1.role = d.role /\ d1.plot = d.plot
        /\ d1.cust = [d.cust EXCEPT ![c] = row]
    BY <2>1, <2>2 DEF Database
  <2> HIDE DEF d1
  <2>5. \A x \in Customer : d1.cust[x] = IF x = c THEN row ELSE d.cust[x]
    BY <2>1, <2>4 DEF Database
  <2>6. \A p \in Plot, x \in Customer : Party(d1, p, x) <=> Party(d, p, x)
    BY <2>4, PartySame
  <2>7. Known(d1) /\ Clean(d1, U)
    BY <2>1, <2>2, <2>5, <2>6 DEF Known, Clean, MayHold
  <2>8. ASSUME NEW p \in LivePlots(d1) \ (X \cup R)
        PROVE  d1.plot[p].snapshot = SnapshotOf(d1, p)
    <3>1. p \in Plot /\ p \in LivePlots(d) \ X /\ ~Holds(d1, p, c, "contractor")
      BY <2>4 DEF LivePlots
    <3>2. \A x \in Customer : Holds(d, p, x, "contractor") => x # c
      BY <2>4, <3>1, PartySame
    <3>3. SnapshotOf(d1, p) = SnapshotOf(d, p)
      <4>1. d \in Database /\ p \in Plot /\ d1.role[p] = d.role[p]
        BY <2>1, <2>4, <3>1
      <4>2. \A x \in Customer : Holds(d, p, x, "contractor") => d1.cust[x].kana = d.cust[x].kana
        BY <2>5, <3>2
      <4> QED BY ONLY <4>1, <4>2, SnapshotSame
    <3> QED BY <2>1, <2>4, <3>1, <3>3 DEF FreshBut
  <2>9. Sound(d1, U, X \cup R) /\ StatesStay(d, d1)
    BY <2>2, <2>4, <2>5, <2>7, <2>8 DEF Sound, FreshBut, StatesStay
  <2>10. R \in SUBSET Plot
    OBVIOUS
  <2>11. Renamed(d, c, kana) = e
    <3>1. [p \in Plot |-> IF p \in R THEN [d1.plot[p] EXCEPT !.snapshot = SnapshotOf(d1, p)]
                          ELSE d1.plot[p]]
          = [p \in Plot |-> IF Holds(d1, p, c, "contractor")
                            THEN [d1.plot[p] EXCEPT !.snapshot = SnapshotOf(d1, p)]
                            ELSE d1.plot[p]]
      OBVIOUS
    <3> QED BY <1>2, <2>3, <3>1 DEF Renamed, syncContractorNameKanaForCustomer, Refreshed
  <2> HIDE DEF R
  <2>12. /\ Sound(e, U, (X \cup R) \ R) /\ e.cust = d1.cust /\ e.role = d1.role
         /\ \A x \in Plot : e.plot[x].state = d1.plot[x].state
    BY <2>9, <2>10, RefreshSound
  <2> HIDE DEF e
  <2>13. Sound(e, U, X)
    BY <2>12 DEF Sound, FreshBut
  <2> QED BY <2>2, <2>4, <2>5, <2>9, <2>11, <2>12, <2>13 DEF StatesStay
<1> QED BY <1>1, <1>2

\* A plot is registered with its roles.
LEMMA NewPlotSound ==
    ASSUME NEW d, NEW U, Sound(d, U, {}), NEW p \in Plot,
           NEW rows \in Seq(RoleRow(Customer)),
           Named(d, U, p, rows)
    PROVE  LET e == NewPlot(d, p, rows)
           IN  /\ Sound(e, U, {}) /\ e.cust = d.cust /\ e.role[p] = rows
               /\ \A x \in Plot \ {p} : e.role[x] = d.role[x] /\ e.plot[x] = d.plot[x]
               /\ e.plot[p] = [state |-> "live", snapshot |-> SnapshotOf(e, p)]
<1> DEFINE d1 == WithRows(d, p, rows)
           fresh == [state |-> "live", snapshot |-> Null]
           d2 == [d1 EXCEPT !.plot = [d1.plot EXCEPT ![p] = fresh]]
           e == syncPrimaryContractorNameKana(d2, p)
<1>1. d \in Database
  BY DEF Sound
<1>2. /\ Sound(d1, U, {p}) /\ d1.cust = d.cust /\ d1.plot = d.plot /\ d1.role[p] = rows
      /\ \A x \in Plot \ {p} : d1.role[x] = d.role[x]
  <2>1. Sound(d1, U, {} \cup {p}) /\ OnlyRoles(d, d1, p, rows)
    BY RolesSound, Zenon
  <2>2. {} \cup {p} = {p}
    OBVIOUS
  <2> HIDE DEF d1
  <2> QED BY <2>1, <2>2 DEF OnlyRoles
<1>3. NewPlot(d, p, rows) = e
  <2>1. [d EXCEPT !.plot[p] = fresh, !.role[p] = rows] = d2
    BY <1>1 DEF Database, WithRows
  <2> QED BY <2>1 DEF NewPlot
<1> HIDE DEF d1
<1>4. d1 \in Database /\ Known(d1) /\ Clean(d1, U) /\ FreshBut(d1, {p})
  BY <1>2 DEF Sound
<1>5. fresh \in PlotRow
  BY DEF PlotRow, RowState
<1>6. /\ d2 \in Database /\ d2.cust = d1.cust /\ d2.role = d1.role
      /\ d2.plot = [d1.plot EXCEPT ![p] = fresh]
  BY <1>4, <1>5 DEF Database
<1> HIDE DEF d2
<1>7. \A x \in Plot : d2.plot[x] = IF x = p THEN fresh ELSE d.plot[x]
  BY <1>2, <1>4, <1>6 DEF Database
<1>8. \A x \in Plot, c \in Customer : Party(d2, x, c) <=> Party(d1, x, c)
  BY <1>6, PartySame
<1>9. Known(d2) /\ Clean(d2, U)
  BY <1>4, <1>6, <1>8 DEF Known, Clean, MayHold
<1>10. FreshBut(d2, {p})
  <2> SUFFICES ASSUME NEW x \in LivePlots(d2) \ {p}
               PROVE  d2.plot[x].snapshot = SnapshotOf(d2, x)
    BY DEF FreshBut
  <2>1. x \in Plot /\ x \in LivePlots(d1) \ {p}
    BY <1>2, <1>7 DEF LivePlots
  <2>2. SnapshotOf(d2, x) = SnapshotOf(d1, x)
    BY <1>4, <1>6, <2>1, SnapshotSame
  <2> QED BY <1>2, <1>4, <1>7, <2>1, <2>2 DEF FreshBut
<1>11. Sound(d2, U, {p})
  BY <1>6, <1>9, <1>10 DEF Sound
<1>12. /\ Sound(e, U, {p} \ {p}) /\ e.cust = d2.cust /\ e.role = d2.role
  BY <1>11, SyncSound
<1>13. {p} \ {p} = {}
  OBVIOUS
<1>14. \A x \in Plot : e.plot[x] = IF x = p THEN [fresh EXCEPT !.snapshot = SnapshotOf(d2, p)]
                                   ELSE d2.plot[x]
  BY <1>6, <1>7 DEF syncPrimaryContractorNameKana, Database
<1>15. SnapshotOf(e, p) = SnapshotOf(d2, p)
  BY <1>6, <1>12, SnapshotSame
<1>16. e.plot[p] = [state |-> "live", snapshot |-> SnapshotOf(e, p)]
  BY <1>14, <1>15
<1> HIDE DEF e
<1>17. \A x \in Plot \ {p} : e.role[x] = d.role[x] /\ e.plot[x] = d.plot[x]
  BY <1>2, <1>6, <1>7, <1>12, <1>14
<1> QED BY <1>2, <1>3, <1>6, <1>12, <1>13, <1>16, <1>17
-----------------------------------------------------------------------------
(* The rows a request asks for *)

\* A customer that passes the check may hold a role.
LEMMA AssignableMayHold ==
    ASSUME NEW d, NEW c \in Customer, assertAssignableCustomer(d, c), d \in Database
    PROVE  MayHold(d, c) /\ d.cust[c].state # "none"
<1>1. d.cust[c] \in CustomerRow
  BY DEF Database
<1> QED BY <1>1 DEF assertAssignableCustomer, getTerminatedCustomers, MayHold, CustomerRow

\* One row makes a list.
LEMMA SingleRow ==
    ASSUME NEW r \in RoleRow(Customer), NEW d, NEW U, NEW p,
           d.cust[r.cust].state # "none", p \notin U => MayHold(d, r.cust)
    PROVE  <<r>> \in Seq(RoleRow(Customer)) /\ Named(d, U, p, <<r>>)
<1>1. <<r>> \in Seq(RoleRow(Customer))
  OBVIOUS
<1>2. DOMAIN <<r>> = {1} /\ <<r>>[1] = r
  OBVIOUS
<1>3. ASSUME NEW i \in DOMAIN <<r>> PROVE <<r>>[i] = r
  BY <1>2
<1> QED BY <1>1, <1>3 DEF Named

\* No rows ask for nobody.
LEMMA NoRows ==
    ASSUME NEW d, NEW U, NEW p
    PROVE  <<>> \in Seq(RoleRow(Customer)) /\ Named(d, U, p, <<>>)
<1>1. DOMAIN <<>> = {}
  OBVIOUS
<1> QED BY <1>1 DEF Named

LEMMA ConcatNamed ==
    ASSUME NEW d, NEW U, NEW p, NEW s \in Seq(RoleRow(Customer)),
           NEW t \in Seq(RoleRow(Customer)), Named(d, U, p, s), Named(d, U, p, t)
    PROVE  s \o t \in Seq(RoleRow(Customer)) /\ Named(d, U, p, s \o t)
<1>1. /\ s \o t \in Seq(RoleRow(Customer)) /\ Len(s \o t) = Len(s) + Len(t)
      /\ \A i \in 1 .. Len(s) + Len(t) :
           (s \o t)[i] = IF i <= Len(s) THEN s[i] ELSE t[i - Len(s)]
  BY ConcatProperties
<1>2. /\ Len(s) \in Nat /\ Len(t) \in Nat /\ DOMAIN s = 1 .. Len(s)
      /\ DOMAIN t = 1 .. Len(t) /\ DOMAIN (s \o t) = 1 .. Len(s) + Len(t)
  BY <1>1, LenProperties
<1>3. ASSUME NEW i \in DOMAIN (s \o t)
      PROVE  \/ \E k \in DOMAIN s : (s \o t)[i] = s[k]
             \/ \E k \in DOMAIN t : (s \o t)[i] = t[k]
  <2>1. i \in 1 .. Len(s) + Len(t)
    BY <1>2
  <2>2. CASE i <= Len(s)
    <3>1. i \in DOMAIN s
      BY <1>2, <2>1, <2>2
    <3> QED BY <1>1, <2>1, <2>2, <3>1
  <2>3. CASE ~(i <= Len(s))
    <3>1. i - Len(s) \in DOMAIN t
      BY <1>2, <2>1, <2>3
    <3> QED BY <1>1, <2>1, <2>3, <3>1
  <2> QED BY <2>2, <2>3
<1>4. ASSUME NEW i \in DOMAIN (s \o t)
      PROVE  /\ d.cust[(s \o t)[i].cust].state # "none"
             /\ p \notin U => MayHold(d, (s \o t)[i].cust)
  BY <1>3 DEF Named
<1> QED BY <1>1, <1>4 DEF Named

\* The rows of a request, with the new customer filled in.
LEMMA RolesForNamed ==
    ASSUME NEW d, NEW U, NEW p, NEW c \in Customer,
           NEW rows \in Seq(RoleRow(Customer \cup {New})),
           d.cust[c].state # "none", MayHold(d, c),
           \A i \in DOMAIN rows : rows[i].cust # New =>
             /\ d.cust[rows[i].cust].state # "none"
             /\ p \notin U => MayHold(d, rows[i].cust)
    PROVE  /\ RolesFor(rows, c) \in Seq(RoleRow(Customer))
           /\ Named(d, U, p, RolesFor(rows, c))
<1>1. CASE rows = <<>>
  <2> DEFINE r == [cust |-> c, kind |-> "contractor"]
  <2>1. r \in RoleRow(Customer) /\ r.cust = c
    BY DEF RoleRow, Kind
  <2> HIDE DEF r
  <2>2. <<r>> \in Seq(RoleRow(Customer)) /\ Named(d, U, p, <<r>>)
    BY <2>1, SingleRow
  <2> QED BY <1>1, <2>2 DEF RolesFor, r
<1>2. CASE rows # <<>>
  <2> DEFINE filled(i) == [rows[i] EXCEPT !.cust = IF @ = New THEN c ELSE @]
             r == [i \in DOMAIN rows |-> filled(i)]
  <2>1. DOMAIN rows = 1 .. Len(rows) /\ Len(rows) \in Nat
    BY LenProperties
  <2>2. ASSUME NEW i \in DOMAIN rows
        PROVE  /\ filled(i) \in RoleRow(Customer)
               /\ filled(i).cust = IF rows[i].cust = New THEN c ELSE rows[i].cust
    <3>1. rows[i] \in RoleRow(Customer \cup {New})
      BY <2>1, ElementOfSeq
    <3> QED BY <3>1 DEF RoleRow
  <2>3. r \in [1 .. Len(rows) -> RoleRow(Customer)]
    BY <2>1, <2>2
  <2>4. r \in Seq(RoleRow(Customer))
    BY <2>1, <2>3, SeqDef
  <2>5. ASSUME NEW i \in DOMAIN r
        PROVE  /\ d.cust[r[i].cust].state # "none"
               /\ p \notin U => MayHold(d, r[i].cust)
    <3>1. i \in DOMAIN rows /\ r[i] = filled(i)
      OBVIOUS
    <3>2. r[i].cust = IF rows[i].cust = New THEN c ELSE rows[i].cust
      BY <2>2, <3>1
    <3> QED BY <3>1, <3>2
  <2>6. RolesFor(rows, c) = r
    BY <1>2 DEF RolesFor
  <2> HIDE DEF r
  <2> QED BY <2>4, <2>5, <2>6 DEF Named
<1> QED BY <1>1, <1>2

\* Who could be named before can be named after.
LEMMA NamedStays ==
    ASSUME NEW d, NEW e, NEW U, NEW p, NEW rows \in Seq(RoleRow(Customer)),
           Named(d, U, p, rows), StatesStay(d, e)
    PROVE  Named(e, U, p, rows)
<1> SUFFICES ASSUME NEW i \in DOMAIN rows
             PROVE  /\ e.cust[rows[i].cust].state # "none"
                    /\ p \notin U => MayHold(e, rows[i].cust)
  BY DEF Named
<1>1. rows[i].cust \in Customer
  <2>1. rows[i] \in RoleRow(Customer)
    BY LenProperties, ElementOfSeq
  <2> QED BY <2>1 DEF RoleRow
<1> QED BY <1>1 DEF Named, StatesStay, MayHold

\* The rows of a plot are for customers who may hold them.
LEMMA RoleNamed ==
    ASSUME NEW d, NEW U, NEW X, Sound(d, U, X), NEW p \in Plot
    PROVE  d.role[p] \in Seq(RoleRow(Customer)) /\ Named(d, U, p, d.role[p])
<1>1. d \in Database /\ Known(d) /\ Clean(d, U)
  BY DEF Sound
<1>2. d.role[p] \in Seq(RoleRow(Customer))
  BY <1>1, RoleRows
<1>3. ASSUME NEW i \in DOMAIN d.role[p]
      PROVE  d.role[p][i].cust \in Customer /\ Party(d, p, d.role[p][i].cust)
  <2>1. d.role[p][i] \in RoleRow(Customer)
    BY <1>1, RoleRows
  <2>2. /\ d.role[p][i].cust \in Customer /\ d.role[p][i].kind \in Kind
        /\ d.role[p][i] = [cust |-> d.role[p][i].cust, kind |-> d.role[p][i].kind]
    BY <2>1 DEF RoleRow
  <2> QED BY <2>2 DEF Party, Holds
<1> QED BY <1>1, <1>2, <1>3 DEF Named, Known, Clean

\* Rows that are left of a list, or between two indexes of it, are rows of the list.
LEMMA WithoutNamed ==
    ASSUME NEW d, NEW U, NEW p, NEW rows \in Seq(RoleRow(Customer)),
           Named(d, U, p, rows), NEW kind
    PROVE  /\ Without(rows, kind) \in Seq(RoleRow(Customer))
           /\ Named(d, U, p, Without(rows, kind))
           /\ Keeps(rows, kind, Without(rows, kind))
<1> DEFINE I == {i \in DOMAIN rows : rows[i].kind # kind}
           left == Picked(rows, I)
<1>1. I \in SUBSET DOMAIN rows /\ Without(rows, kind) = left
  BY DEF Without
<1> HIDE DEF left
<1>2. /\ left \in Seq(RoleRow(Customer))
      /\ \A n \in DOMAIN left : \E i \in I : left[n] = rows[i]
      /\ \A i \in I : \E n \in DOMAIN left : left[n] = rows[i]
  BY <1>1, PickedRows DEF left
<1>3. Named(d, U, p, left)
  BY <1>1, <1>2 DEF Named
<1> QED BY <1>1, <1>2, <1>3 DEF Keeps
-----------------------------------------------------------------------------
(* The handlers *)

LEMMA StatesChain ==
    ASSUME NEW d, NEW e, NEW f, StatesStay(d, e), StatesStay(e, f)
    PROVE  StatesStay(d, f)
BY DEF StatesStay

\* Where more plots are not looked at, less is asked.
LEMMA MoreUnchecked ==
    ASSUME NEW d, NEW U, NEW X, Sound(d, U, X), NEW V, U \subseteq V
    PROVE  Sound(d, V, X)
BY DEF Sound, Clean

\* At the start there are no roles.
LEMMA InitSound == Init => IInv
<1> SUFFICES ASSUME Init PROVE IInv
  OBVIOUS
<1>1. PICK ended \in SUBSET Migrated, kana \in Kana :
        db = [cust |-> [c \in Customer |->
                [state |-> IF c \in Migrated THEN "live" ELSE "none",
                 ended |-> c \in ended, kana |-> kana, work |-> "none"]],
              plot |-> [p \in Plot |-> [state |-> "none", snapshot |-> Null]],
              role |-> [p \in Plot |-> <<>>]]
  BY DEF Init
<1>2. /\ db.cust \in [Customer -> CustomerRow]
      /\ db.plot = [p \in Plot |-> [state |-> "none", snapshot |-> Null]]
      /\ db.role = [p \in Plot |-> <<>>]
  BY <1>1 DEF CustomerRow, RowState
<1>3. [state |-> "none", snapshot |-> Null] \in PlotRow
  BY DEF PlotRow, RowState
<1>4. <<>> \in Seq(RoleRow(Customer))
  BY EmptySeq
<1>5. db \in Database
  <2>1. db = [cust |-> db.cust, plot |-> db.plot, role |-> db.role]
    BY <1>1
  <2>2. db.plot \in [Plot -> PlotRow] /\ db.role \in [Plot -> Seq(RoleRow(Customer))]
    BY <1>2, <1>3, <1>4
  <2> QED BY <1>2, <2>1, <2>2 DEF Database
<1>6. \A p \in Plot : DOMAIN db.role[p] = {} /\ db.plot[p].state = "none"
  BY <1>2
<1>7. Known(db) /\ Clean(db, {}) /\ FreshBut(db, {})
  BY <1>6 DEF Known, Clean, FreshBut, LivePlots, Party, Holds
<1>8. job \in [Deleter -> JobType]
  BY DEF Init, JobType, Idle
<1> QED BY <1>5, <1>7, <1>8 DEF IInv, Sound, Init

\* What a registration creates first: its customer, perhaps an applicant.
LEMMA CustomersCreated ==
    ASSUME IInv, NEW c \in Unused(db), NEW a, NEW q \in CreationRequest,
           q.applicant => a \in Unused(db) \ {c}
    PROVE  LET second == IF q.applicant THEN <<ApplicantRow(a)>> ELSE <<>>
               d1 == NewCustomer(db, c, q.kana, q.work)
               d2 == IF q.applicant THEN NewCustomer(d1, a, q.kana, FALSE) ELSE d1
           IN  /\ Sound(d2, unchecked, {}) /\ StatesStay(db, d2) /\ MayHold(d2, c)
               /\ second \in Seq(RoleRow(Customer))
               /\ \A x \in Plot : Named(d2, unchecked, x, second)
<1> DEFINE second == IF q.applicant THEN <<ApplicantRow(a)>> ELSE <<>>
           d1 == NewCustomer(db, c, q.kana, q.work)
           d2 == NewCustomer(d1, a, q.kana, FALSE)
<1>1. /\ q.kana \in Kana /\ q.work \in BOOLEAN /\ q.applicant \in BOOLEAN
      /\ FALSE \in BOOLEAN
  BY DEF CreationRequest
<1>2. /\ Sound(d1, unchecked, {}) /\ StatesStay(db, d1) /\ MayHold(d1, c)
      /\ \A x \in Customer \ {c} : d1.cust[x] = db.cust[x]
  BY <1>1, NewCustomerSound DEF IInv
<1> HIDE DEF d1
<1>3. CASE ~q.applicant
  <2>1. \A x \in Plot : Named(d1, unchecked, x, <<>>)
    BY NoRows
  <2> QED BY <1>2, <1>3, <2>1, NoRows DEF d1
<1>4. CASE q.applicant
  <2>1. a \in Customer /\ a # c /\ db.cust[a].state = "none"
    BY <1>4 DEF Unused
  <2>2. a \in Unused(d1)
    BY <1>2, <2>1 DEF Unused
  <2>3. /\ Sound(d2, unchecked, {}) /\ StatesStay(d1, d2) /\ MayHold(d2, a)
    BY <1>1, <1>2, <2>2, NewCustomerSound
  <2> HIDE DEF d2
  <2>4. StatesStay(db, d2)
    BY <1>2, <2>3, StatesChain
  <2>5. c \in Customer /\ MayHold(d2, c)
    BY <1>2, <2>3 DEF Unused, MayHold, StatesStay
  <2>6. ApplicantRow(a) \in RoleRow(Customer) /\ ApplicantRow(a).cust = a
    BY <2>1 DEF ApplicantRow, RoleRow, Kind
  <2>7. d2.cust[a].state # "none"
    BY <2>3 DEF MayHold
  <2>8. /\ <<ApplicantRow(a)>> \in Seq(RoleRow(Customer))
        /\ \A x \in Plot : Named(d2, unchecked, x, <<ApplicantRow(a)>>)
    BY <2>3, <2>6, <2>7, SingleRow
  <2> QED BY <1>4, <2>3, <2>4, <2>5, <2>8 DEF d2, d1
<1> QED BY <1>1, <1>3, <1>4

\* Every further plot of a combined purchase is registered alike.
LEMMA ExtraSound ==
    ASSUME NEW d, NEW U, Sound(d, U, {}), NEW extra \in SUBSET Plot,
           NEW shared \in Seq(RoleRow(Customer)), \A x \in Plot : Named(d, U, x, shared),
           NEW e, e = Extended(d, extra, shared)
    PROVE  Sound(e, U, {}) /\ e.cust = d.cust
<1>1. d \in Database /\ Known(d) /\ Clean(d, U) /\ FreshBut(d, {})
  BY DEF Sound
<1> DEFINE plots == [x \in Plot |-> IF x \in extra THEN NewPlot(d, x, shared).plot[x]
                                   ELSE d.plot[x]]
           roles == [x \in Plot |-> IF x \in extra THEN shared ELSE d.role[x]]
<1>2. e = [cust |-> d.cust, plot |-> plots, role |-> roles]
  BY <1>1 DEF Database, Extended
<1>3. ASSUME NEW x \in Plot
      PROVE  LET f == NewPlot(d, x, shared)
             IN  /\ f \in Database /\ f.cust = d.cust /\ f.role[x] = shared
                 /\ f.plot[x] = [state |-> "live", snapshot |-> SnapshotOf(f, x)]
  <2> DEFINE f == NewPlot(d, x, shared)
  <2>1. /\ Sound(f, U, {}) /\ f.cust = d.cust /\ f.role[x] = shared
        /\ f.plot[x] = [state |-> "live", snapshot |-> SnapshotOf(f, x)]
    BY NewPlotSound
  <2> QED BY <2>1 DEF Sound
<1>4. ASSUME NEW x \in extra PROVE NewPlot(d, x, shared).plot[x] \in PlotRow
  BY <1>3 DEF Database
<1>5. plots \in [Plot -> PlotRow] /\ roles \in [Plot -> Seq(RoleRow(Customer))]
  <2>1. d.plot \in [Plot -> PlotRow] /\ d.role \in [Plot -> Seq(RoleRow(Customer))]
    BY <1>1 DEF Database
  <2> QED BY <1>4, <2>1
<1>6. /\ \A x \in extra : plots[x] = NewPlot(d, x, shared).plot[x] /\ roles[x] = shared
      /\ \A x \in Plot \ extra : plots[x] = d.plot[x] /\ roles[x] = d.role[x]
  OBVIOUS
<1> HIDE DEF plots, roles
<1>7. e \in Database /\ e.cust = d.cust /\ e.plot = plots /\ e.role = roles
  BY <1>1, <1>2, <1>5 DEF Database
<1>8. ASSUME NEW x \in extra, NEW c \in Customer, Party(e, x, c)
      PROVE  d.cust[c].state # "none" /\ (x \notin U => MayHold(d, c))
  <2>1. e.role[x] = shared /\ x \in Plot
    BY <1>6, <1>7
  <2> QED BY <1>8, <2>1 DEF Party, Holds, Named
<1>9. ASSUME NEW x \in Plot \ extra
      PROVE  \A c \in Customer : Party(e, x, c) <=> Party(d, x, c)
  BY <1>6, <1>7, PartySame
<1>10. Known(e) /\ Clean(e, U)
  BY <1>1, <1>7, <1>8, <1>9 DEF Known, Clean, MayHold
<1>11. ASSUME NEW x \in LivePlots(e) PROVE e.plot[x].snapshot = SnapshotOf(e, x)
  <2>1. CASE x \in extra
    <3> DEFINE f == NewPlot(d, x, shared)
    <3>1. /\ x \in Plot /\ f \in Database /\ f.cust = d.cust /\ f.role[x] = shared
          /\ f.plot[x] = [state |-> "live", snapshot |-> SnapshotOf(f, x)]
      BY <1>3, <2>1
    <3>2. e.plot[x] = f.plot[x] /\ e.role[x] = f.role[x]
      BY <1>6, <1>7, <2>1, <3>1
    <3> HIDE DEF f
    <3>3. SnapshotOf(e, x) = SnapshotOf(f, x)
      BY <1>7, <3>1, <3>2, SnapshotSame
    <3> QED BY <3>1, <3>2, <3>3
  <2>2. CASE x \notin extra
    <3>1. x \in Plot /\ e.plot[x] = d.plot[x] /\ e.role[x] = d.role[x]
      BY <1>6, <1>7, <2>2 DEF LivePlots
    <3>2. x \in LivePlots(d)
      BY <3>1 DEF LivePlots
    <3>3. SnapshotOf(e, x) = SnapshotOf(d, x)
      BY <1>1, <1>7, <3>1, SnapshotSame
    <3> QED BY <1>1, <3>1, <3>2, <3>3 DEF FreshBut
  <2> QED BY <2>1, <2>2
<1> QED BY <1>7, <1>10, <1>11 DEF Sound, FreshBut

\* Of the customers that exist none is deleted by the step.
NobodyDeleted ==
    \A c \in Customer : db.cust[c].state = "live" => db'.cust[c].state # "deleted"

LEMMA CreatePlotHolds ==
    ASSUME IInv, NEW p \in Plot, NEW c \in Customer, NEW a \in Customer, NEW q \in Creation,
           CreatePlot(p, c, a, q)
    PROVE  IInv' /\ NobodyDeleted
<1> DEFINE second == IF q.applicant THEN <<ApplicantRow(a)>> ELSE <<>>
           d1 == NewCustomer(db, c, q.kana, q.work)
           d2 == IF q.applicant THEN NewCustomer(d1, a, q.kana, FALSE) ELSE d1
           rows == RolesFor(q.roles, c)
           d3 == NewPlot(d2, p, rows \o second)
           row == [cust |-> c, kind |-> "contractor"]
           shared == <<row>> \o second
<1>1. /\ q \in CreationRequest /\ c \in Unused(db)
      /\ q.applicant => a \in Unused(db) \ {c}
      /\ AllAssignable(db, q.roles)
      /\ UNCHANGED <<job, unchecked>>
  BY ContractorsAssumption DEF CreatePlot
<1>2. /\ Sound(d2, unchecked, {}) /\ StatesStay(db, d2) /\ MayHold(d2, c)
      /\ second \in Seq(RoleRow(Customer))
      /\ \A x \in Plot : Named(d2, unchecked, x, second)
  BY <1>1, CustomersCreated
<1>3. db' = Extended(d3, q.extra, shared)
  <2>1. [x \in Plot |-> IF x \in q.extra
                       THEN [y \in q.extra |-> NewPlot(d3, y, shared)][x].plot[x]
                       ELSE d3.plot[x]]
        = [x \in Plot |-> IF x \in q.extra THEN NewPlot(d3, x, shared).plot[x] ELSE d3.plot[x]]
    OBVIOUS
  <2> QED BY <2>1 DEF CreatePlot, Extended
<1> HIDE DEF d2, second
<1>4. /\ q.roles \in Seq(RoleRow(Customer \cup {New})) /\ q.extra \in SUBSET Plot
  BY <1>1 DEF CreationRequest
<1>5. ASSUME NEW i \in DOMAIN q.roles, q.roles[i].cust # New
      PROVE  d2.cust[q.roles[i].cust].state # "none" /\ MayHold(d2, q.roles[i].cust)
  <2>1. q.roles[i] \in RoleRow(Customer \cup {New})
    BY <1>4, LenProperties, ElementOfSeq
  <2>2. q.roles[i].cust \in Customer
    BY <1>5, <2>1 DEF RoleRow
  <2>3. assertAssignableCustomer(db, q.roles[i].cust)
    BY <1>1, <1>5 DEF AllAssignable
  <2>4. MayHold(db, q.roles[i].cust) /\ db.cust[q.roles[i].cust].state # "none"
    BY <2>2, <2>3, AssignableMayHold DEF IInv, Sound
  <2> QED BY <1>2, <2>2, <2>4 DEF StatesStay, MayHold
<1>6. d2.cust[c].state # "none"
  BY <1>2 DEF MayHold
<1>7. rows \in Seq(RoleRow(Customer)) /\ Named(d2, unchecked, p, rows)
  BY <1>2, <1>4, <1>5, <1>6, RolesForNamed
<1> HIDE DEF rows
<1>8. /\ rows \o second \in Seq(RoleRow(Customer))
      /\ Named(d2, unchecked, p, rows \o second)
  BY <1>2, <1>7, ConcatNamed
<1>9. Sound(d3, unchecked, {}) /\ d3.cust = d2.cust
  BY <1>2, <1>8, NewPlotSound
<1> HIDE DEF d3
<1>10. row \in RoleRow(Customer) /\ row.cust = c
  BY DEF RoleRow, Kind
<1> HIDE DEF row
<1>11. ASSUME NEW x \in Plot
       PROVE  shared \in Seq(RoleRow(Customer)) /\ Named(d3, unchecked, x, shared)
  <2>1. d3.cust[c].state # "none" /\ MayHold(d3, c)
    BY <1>2, <1>6, <1>9 DEF MayHold
  <2>2. <<row>> \in Seq(RoleRow(Customer)) /\ Named(d3, unchecked, x, <<row>>)
    BY <1>10, <2>1, SingleRow
  <2>3. Named(d3, unchecked, x, second)
    BY <1>2, <1>9 DEF Named, MayHold
  <2> QED BY <1>2, <2>2, <2>3, ConcatNamed
<1>12. shared \in Seq(RoleRow(Customer)) /\ \A x \in Plot : Named(d3, unchecked, x, shared)
  BY <1>11
<1> HIDE DEF shared
<1>13. Sound(db', unchecked, {}) /\ db'.cust = d3.cust
  BY <1>3, <1>4, <1>9, <1>12, ExtraSound
<1>14. NobodyDeleted
  BY <1>2, <1>9, <1>13 DEF NobodyDeleted, StatesStay
<1> QED BY <1>1, <1>13, <1>14 DEF IInv

\* createPlotContract does not look at the customers it is given, and says so.
LEMMA CreatePlotContractHolds ==
    ASSUME IInv, NEW p \in Plot, NEW c \in Customer, NEW q \in Creation,
           CreatePlotContract(p, c, q)
    PROVE  IInv' /\ NobodyDeleted
<1> DEFINE U == unchecked \cup {p}
           d1 == NewCustomer(db, c, q.kana, q.work)
           rows == RolesFor(q.roles, c)
           e == NewPlot(d1, p, rows)
<1>1. /\ q \in CreationRequest /\ c \in Unused(db)
      /\ \A i \in DOMAIN q.roles :
           q.roles[i].cust # New => db.cust[q.roles[i].cust].state # "none"
      /\ db' = e /\ unchecked' = U /\ job' = job
  BY ContractorsAssumption DEF CreatePlotContract
<1>2. /\ q.kana \in Kana /\ q.work \in BOOLEAN
      /\ q.roles \in Seq(RoleRow(Customer \cup {New}))
  BY <1>1 DEF CreationRequest
<1>3. Sound(db, U, {})
  BY MoreUnchecked DEF IInv
<1> HIDE DEF U
<1>4. Sound(d1, U, {}) /\ StatesStay(db, d1) /\ MayHold(d1, c)
  BY <1>1, <1>2, <1>3, NewCustomerSound
<1> HIDE DEF d1
<1>5. p \in U
  BY DEF U
<1>6. ASSUME NEW i \in DOMAIN q.roles, q.roles[i].cust # New
      PROVE  d1.cust[q.roles[i].cust].state # "none"
  <2>1. q.roles[i] \in RoleRow(Customer \cup {New})
    BY <1>2, LenProperties, ElementOfSeq
  <2>2. q.roles[i].cust \in Customer
    BY <1>6, <2>1 DEF RoleRow
  <2> QED BY <1>1, <1>4, <1>6, <2>2 DEF StatesStay
<1>7. d1.cust[c].state # "none"
  BY <1>4 DEF MayHold
<1>8. rows \in Seq(RoleRow(Customer)) /\ Named(d1, U, p, rows)
  BY <1>2, <1>4, <1>5, <1>6, <1>7, RolesForNamed
<1> HIDE DEF rows
<1>9. Sound(e, U, {}) /\ e.cust = d1.cust
  BY <1>4, <1>8, NewPlotSound
<1> HIDE DEF e
<1>10. NobodyDeleted
  BY <1>1, <1>4, <1>9 DEF NobodyDeleted, StatesStay
<1> QED BY <1>1, <1>9, <1>10 DEF IInv, U

\* The contract goes to a customer who was looked at, or to a new one.
LEMMA ChangeContractorHolds ==
    ASSUME IInv, NEW p \in Plot, NEW c \in Customer, NEW kana \in Kana \cup {Null},
           ChangeContractor(p, c, kana)
    PROVE  IInv' /\ NobodyDeleted
<1> DEFINE d1 == IF kana = Null THEN db ELSE NewCustomer(db, c, kana, FALSE)
           row == [cust |-> c, kind |-> "contractor"]
           kept == Without(d1.role[p], "contractor")
           rows == Append(kept, row)
           d2 == WithRows(d1, p, rows)
           e == syncPrimaryContractorNameKana(d2, p)
<1>0. Sound(db, unchecked, {}) /\ db \in Database
  BY DEF IInv, Sound
<1>1. Sound(d1, unchecked, {}) /\ StatesStay(db, d1) /\ MayHold(d1, c)
  <2>1. CASE kana = Null
    BY <1>0, <2>1, AssignableMayHold DEF ChangeContractor, StatesStay
  <2>2. CASE kana # Null
    <3>1. c \in Unused(db) /\ kana \in Kana /\ FALSE \in BOOLEAN
      BY <2>2 DEF ChangeContractor
    <3>2. /\ Sound(NewCustomer(db, c, kana, FALSE), unchecked, {})
          /\ StatesStay(db, NewCustomer(db, c, kana, FALSE))
          /\ MayHold(NewCustomer(db, c, kana, FALSE), c)
      BY <1>0, <3>1, NewCustomerSound
    <3> QED BY <2>2, <3>2
  <2> QED BY <2>1, <2>2
<1>2. db' = e /\ UNCHANGED <<job, unchecked>>
  <2> HIDE DEF d1
  <2>1. [d1 EXCEPT !.role[p] = Append(Without(@, "contractor"), row)] = d2
    BY <1>1 DEF WithRows, Sound, Database
  <2> QED BY <2>1 DEF ChangeContractor, d1
<1> HIDE DEF d1
<1>3. d1.role[p] \in Seq(RoleRow(Customer)) /\ Named(d1, unchecked, p, d1.role[p])
  BY <1>1, RoleNamed
<1>4. kept \in Seq(RoleRow(Customer)) /\ Named(d1, unchecked, p, kept)
  BY <1>3, WithoutNamed
<1> HIDE DEF kept
<1>5. row \in RoleRow(Customer) /\ row.cust = c
  BY DEF RoleRow, Kind
<1> HIDE DEF row
<1>6. <<row>> \in Seq(RoleRow(Customer)) /\ Named(d1, unchecked, p, <<row>>)
  <2>1. d1.cust[row.cust].state # "none" /\ MayHold(d1, row.cust)
    BY <1>1, <1>5 DEF MayHold
  <2> QED BY <1>5, <2>1, SingleRow
<1>7. rows = kept \o <<row>>
  BY <1>4, <1>5, AppendIsConcat
<1> HIDE DEF rows
<1>8. rows \in Seq(RoleRow(Customer)) /\ Named(d1, unchecked, p, rows)
  <2> DEFINE one == <<row>>
  <2>1. one \in Seq(RoleRow(Customer)) /\ Named(d1, unchecked, p, one)
    BY <1>6
  <2>2. rows = kept \o one
    BY <1>7
  <2> HIDE DEF one
  <2> QED BY <1>4, <2>1, <2>2, ConcatNamed
<1>9. Sound(d2, unchecked, {} \cup {p}) /\ StatesStay(d1, d2)
  BY <1>1, <1>8, RolesSound, Zenon
<1>10. {} \cup {p} = {p} /\ {p} \ {p} = {}
  OBVIOUS
<1> HIDE DEF d2
<1>11. Sound(e, unchecked, {p} \ {p}) /\ StatesStay(d2, e)
  BY <1>9, <1>10, SyncSound
<1> HIDE DEF e
<1>12. StatesStay(db, e)
  BY <1>1, <1>9, <1>11, StatesChain
<1>13. NobodyDeleted
  BY <1>2, <1>12 DEF NobodyDeleted, StatesStay
<1> QED BY <1>2, <1>10, <1>11, <1>13 DEF IInv
-----------------------------------------------------------------------------
(* updatePlot *)

\* Section 3 writes rows for customers who may hold them, and leaves an applicant
\* alone when the request names none.
LEMMA WithRolesSound ==
    ASSUME NEW d, NEW U, Sound(d, U, {}), NEW p \in Plot,
           NEW rows \in Seq(RoleRow(Customer)) \cup {Null},
           rows # Null => Named(d, U, p, rows)
    PROVE  LET e == WithRoles(d, p, rows)
           IN  /\ Sound(e, U, {p}) /\ e.cust = d.cust
               /\ \A a : /\ Holds(d, p, a, "applicant")
                         /\ rows = Null \/ HoldersOf(rows, "applicant") = {}
                         => Holds(e, p, a, "applicant")
<1>0. Sound(d, U, {p}) /\ d \in Database
  BY DEF Sound, FreshBut
<1>1. CASE rows = Null
  BY <1>0, <1>1 DEF WithRoles
<1>2. ASSUME rows # Null, NEW written \in Seq(RoleRow(Customer)), Named(d, U, p, written)
      PROVE  /\ Sound(WithRows(d, p, written), U, {p})
             /\ WithRows(d, p, written).cust = d.cust
             /\ WithRows(d, p, written).role[p] = written
  <2> DEFINE e == WithRows(d, p, written)
  <2>1. Sound(e, U, {} \cup {p}) /\ OnlyRoles(d, e, p, written)
    BY <1>2, RolesSound, Zenon
  <2>2. {} \cup {p} = {p}
    OBVIOUS
  <2> HIDE DEF e
  <2>3. Sound(e, U, {p}) /\ e.cust = d.cust /\ e.role[p] = written
    BY <2>1, <2>2 DEF OnlyRoles
  <2> QED BY <2>3 DEF e
<1>3. CASE rows # Null /\ HoldersOf(rows, "applicant") # {}
  <2>1. WithRoles(d, p, rows) = WithRows(d, p, rows)
    BY <1>3 DEF WithRoles, WithRows
  <2>2. rows \in Seq(RoleRow(Customer)) /\ Named(d, U, p, rows)
    BY <1>3
  <2> QED BY <1>2, <1>3, <2>1, <2>2
<1>4. CASE rows # Null /\ HoldersOf(rows, "applicant") = {}
  <2> DEFINE kept == Without(d.role[p], "contractor")
             written == kept \o rows
  <2>1. d.role[p] \in Seq(RoleRow(Customer)) /\ Named(d, U, p, d.role[p])
    BY RoleNamed
  <2>2. /\ kept \in Seq(RoleRow(Customer)) /\ Named(d, U, p, kept)
        /\ Keeps(d.role[p], "contractor", kept)
    BY <2>1, WithoutNamed
  <2>3. WithRoles(d, p, rows) = WithRows(d, p, written)
    BY <1>0, <1>4 DEF WithRoles, WithRows, Database
  <2> HIDE DEF kept
  <2>4. rows \in Seq(RoleRow(Customer)) /\ Named(d, U, p, rows)
    BY <1>4
  <2>5. written \in Seq(RoleRow(Customer)) /\ Named(d, U, p, written)
    BY <2>2, <2>4, ConcatNamed
  <2>6. /\ Sound(WithRows(d, p, written), U, {p}) /\ WithRows(d, p, written).cust = d.cust
        /\ WithRows(d, p, written).role[p] = written
    BY <1>2, <1>4, <2>5
  <2>7. ASSUME NEW a, Holds(d, p, a, "applicant")
        PROVE  \E n \in DOMAIN written : written[n] = ApplicantRow(a)
    <3>1. PICK i \in DOMAIN d.role[p] : d.role[p][i] = ApplicantRow(a)
      BY <2>7 DEF Holds, ApplicantRow
    <3>2. d.role[p][i].kind # "contractor"
      BY <3>1 DEF ApplicantRow
    <3>3. PICK n \in DOMAIN kept : kept[n] = ApplicantRow(a)
      BY <2>2, <3>1, <3>2 DEF Keeps
    <3>4. /\ Len(kept) \in Nat /\ Len(rows) \in Nat /\ DOMAIN kept = 1 .. Len(kept)
          /\ Len(written) = Len(kept) + Len(rows) /\ DOMAIN written = 1 .. Len(written)
          /\ \A k \in 1 .. Len(kept) + Len(rows) :
               written[k] = IF k <= Len(kept) THEN kept[k] ELSE rows[k - Len(kept)]
      BY <2>2, <2>4, <2>5, ConcatProperties, LenProperties
    <3> QED BY <3>3, <3>4
  <2> HIDE DEF written
  <2>8. \A a : Holds(d, p, a, "applicant") => Holds(WithRows(d, p, written), p, a, "applicant")
    BY <2>6, <2>7 DEF Holds, ApplicantRow
  <2> QED BY <2>3, <2>6, <2>8
<1> QED BY <1>1, <1>3, <1>4

\* Sections 4 and 5 change no roles and nobody's standing.
LEMMA WithCustomerSound ==
    ASSUME NEW d, NEW U, NEW X, Sound(d, U, X), NEW c \in Customer, NEW e \in EditRequest
    PROVE  LET f == WithCustomer(d, c, e)
           IN  /\ Sound(f, U, X) /\ StatesStay(d, f) /\ f.role = d.role
               /\ \A x \in Customer : f.cust[x].state = d.cust[x].state
<1> DEFINE d1 == Renamed(d, c, e.kana)
<1>1. e.kana \in Kana \cup {Null} /\ e.work \in {Null, "remove", "write"}
  BY DEF EditRequest
<1>2. /\ Sound(d1, U, X) /\ StatesStay(d, d1) /\ d1.role = d.role
      /\ \A x \in Customer : d1.cust[x].state = d.cust[x].state
  BY <1>1, RenamedSound
<1>3. WithCustomer(d, c, e) = CASE e.work = Null -> d1
        [] e.work = "remove" -> [d1 EXCEPT !.cust[c].work = "none"]
        [] e.work = "write" -> [d1 EXCEPT !.cust[c].work = IF @ = "none" THEN "live" ELSE @]
  BY DEF WithCustomer
<1> HIDE DEF d1
<1>4. ASSUME NEW work \in RowState
      PROVE  LET f == [d1 EXCEPT !.cust[c].work = work]
             IN  /\ Sound(f, U, X) /\ StatesStay(d, f) /\ f.role = d.role
                 /\ \A x \in Customer : f.cust[x].state = d.cust[x].state
  <2> DEFINE f == [d1 EXCEPT !.cust[c].work = work]
  <2>1. /\ Sound(f, U, X) /\ StatesStay(d1, f) /\ f.role = d1.role
        /\ \A x \in Customer : f.cust[x].state = d1.cust[x].state
    BY <1>2, WorkSound
  <2> HIDE DEF f
  <2>2. StatesStay(d, f)
    BY <1>2, <2>1, StatesChain
  <2>3. /\ Sound(f, U, X) /\ StatesStay(d, f) /\ f.role = d.role
        /\ \A x \in Customer : f.cust[x].state = d.cust[x].state
    BY <1>2, <2>1, <2>2
  <2> QED BY <2>3 DEF f
<1>5. CASE e.work = Null
  <2>1. WithCustomer(d, c, e) = d1
    BY <1>3, <1>5, ContractorsAssumption
  <2> QED BY <1>2, <2>1
<1>6. CASE e.work # Null /\ e.work = "remove"
  <2>1. "none" \in RowState
    BY DEF RowState
  <2>2. WithCustomer(d, c, e) = [d1 EXCEPT !.cust[c].work = "none"]
    BY <1>3, <1>6, ContractorsAssumption
  <2> QED BY <1>4, <2>1, <2>2
<1>7. CASE e.work # Null /\ e.work = "write"
  <2> DEFINE work == IF d1.cust[c].work = "none" THEN "live" ELSE d1.cust[c].work
  <2>1. d1.cust[c] \in CustomerRow
    BY <1>2 DEF Sound, Database
  <2>2. work \in RowState
    BY <2>1 DEF CustomerRow, RowState
  <2>3. WithCustomer(d, c, e) = [d1 EXCEPT !.cust[c].work = IF @ = "none" THEN "live" ELSE @]
    BY <1>3, <1>7, ContractorsAssumption
  <2>4. WithCustomer(d, c, e) = [d1 EXCEPT !.cust[c].work = work]
    BY <2>3
  <2> HIDE DEF work
  <2> QED BY <1>4, <2>2, <2>4
<1> QED BY <1>1, <1>5, <1>6, <1>7

\* A row less.
LEMMA RowRemoved ==
    ASSUME NEW d, NEW U, NEW p, NEW rows \in Seq(RoleRow(Customer)),
           Named(d, U, p, rows), NEW i \in DOMAIN rows
    PROVE  LET left == SubSeq(rows, 1, i - 1) \o SubSeq(rows, i + 1, Len(rows))
           IN  left \in Seq(RoleRow(Customer)) /\ Named(d, U, p, left)
<1>1. DOMAIN rows = 1 .. Len(rows) /\ Len(rows) \in Nat
  BY LenProperties
<1>2. ASSUME NEW m \in 1 .. Len(rows) + 1, NEW n \in 0 .. Len(rows)
      PROVE  /\ SubSeq(rows, m, n) \in Seq(RoleRow(Customer))
             /\ Named(d, U, p, SubSeq(rows, m, n))
  <2> DEFINE sub == SubSeq(rows, m, n)
  <2>1. /\ m \in Int /\ n \in Int
        /\ \A k \in m .. n : rows[k] \in RoleRow(Customer)
    <3>1. \A k \in m .. n : k \in 1 .. Len(rows)
      BY <1>1
    <3> QED BY <1>1, <3>1, ElementOfSeq
  <2>2. /\ sub \in Seq(RoleRow(Customer))
        /\ \A k \in 1 .. Len(sub) : sub[k] = rows[m + k - 1]
        /\ Len(sub) = IF m <= n THEN n - m + 1 ELSE 0
    <3>1. /\ SubSeq(rows, m, n) \in Seq(RoleRow(Customer))
          /\ Len(SubSeq(rows, m, n)) = IF m <= n THEN n - m + 1 ELSE 0
          /\ \A k \in 1 .. n - m + 1 : SubSeq(rows, m, n)[k] = rows[m + k - 1]
      BY <1>1, <2>1, SubSeqProperties
    <3> QED BY <1>1, <2>1, <3>1
  <2> HIDE DEF sub
  <2>3. DOMAIN sub = 1 .. Len(sub) /\ Len(sub) \in Nat
    BY <2>2, LenProperties
  <2>4. ASSUME NEW k \in DOMAIN sub PROVE m + k - 1 \in DOMAIN rows /\ sub[k] = rows[m + k - 1]
    <3>1. k \in 1 .. Len(sub) /\ sub[k] = rows[m + k - 1]
      BY <2>2, <2>3
    <3>2. m + k - 1 \in 1 .. Len(rows)
      BY <1>1, <2>2, <3>1
    <3> QED BY <1>1, <3>1, <3>2
  <2>5. Named(d, U, p, sub)
    BY <2>4 DEF Named
  <2> QED BY <2>2, <2>5 DEF sub
<1>3. /\ 1 \in 1 .. Len(rows) + 1 /\ i - 1 \in 0 .. Len(rows)
      /\ i + 1 \in 1 .. Len(rows) + 1 /\ Len(rows) \in 0 .. Len(rows)
  BY <1>1
<1>4. /\ SubSeq(rows, 1, i - 1) \in Seq(RoleRow(Customer))
      /\ Named(d, U, p, SubSeq(rows, 1, i - 1))
      /\ SubSeq(rows, i + 1, Len(rows)) \in Seq(RoleRow(Customer))
      /\ Named(d, U, p, SubSeq(rows, i + 1, Len(rows)))
  BY <1>2, <1>3
<1> QED BY <1>4, ConcatNamed

\* Section 6.5 removes the row of the applicant, or renames him.
LEMMA WithFormerApplicantSound ==
    ASSUME NEW d, NEW U, NEW p \in Plot, Sound(d, U, {p}), NEW a \in Customer,
           NEW e \in EditRequest,
           e.roles = Null \/ HoldersOf(e.roles, "applicant") = {} => Holds(d, p, a, "applicant")
    PROVE  LET f == WithFormerApplicant(d, p, a, e)
           IN  Sound(f, U, {p}) /\ StatesStay(d, f)
<1> DEFINE kept == e.roles = Null \/ HoldersOf(e.roles, "applicant") = {}
           rows == d.role[p]
           at == {i \in DOMAIN rows : rows[i] = ApplicantRow(a)}
           i == CHOOSE i \in at : TRUE
           left == SubSeq(rows, 1, i - 1) \o SubSeq(rows, i + 1, Len(rows))
<1>0. e.applicant \in {Null, "remove"} \cup Kana /\ d \in Database
  BY DEF EditRequest, Sound
<1>1. CASE e.applicant = Null
  <2>1. WithFormerApplicant(d, p, a, e) = d
    BY <1>1, ContractorsAssumption DEF WithFormerApplicant
  <2> QED BY <2>1 DEF StatesStay
<1>2. CASE e.applicant = "remove" /\ kept
  <2>1. i \in DOMAIN rows
    <3>1. at # {}
      BY <1>2 DEF Holds, ApplicantRow
    <3> QED BY <3>1
  <2>2. WithFormerApplicant(d, p, a, e) = WithRows(d, p, left)
    BY <1>0, <1>2, ContractorsAssumption DEF WithFormerApplicant, WithRows, Database
  <2> HIDE DEF i
  <2>3. rows \in Seq(RoleRow(Customer)) /\ Named(d, U, p, rows)
    BY RoleNamed
  <2> HIDE DEF rows
  <2>4. left \in Seq(RoleRow(Customer)) /\ Named(d, U, p, left)
    BY <2>1, <2>3, RowRemoved
  <2> HIDE DEF left
  <2>5. Sound(WithRows(d, p, left), U, {p} \cup {p}) /\ StatesStay(d, WithRows(d, p, left))
    BY <2>4, RolesSound, Zenon
  <2>6. {p} \cup {p} = {p}
    OBVIOUS
  <2> QED BY <2>2, <2>5, <2>6
<1>3. CASE e.applicant = "remove" /\ ~kept
  <2>1. WithFormerApplicant(d, p, a, e) = d
    BY <1>3, ContractorsAssumption DEF WithFormerApplicant
  <2> QED BY <2>1 DEF StatesStay
<1>4. CASE e.applicant \in Kana
  <2>1. WithFormerApplicant(d, p, a, e) = Renamed(d, a, e.applicant)
    BY <1>4, ContractorsAssumption DEF WithFormerApplicant
  <2>2. e.applicant \in Kana \cup {Null}
    BY <1>4
  <2> QED BY <2>1, <2>2, RenamedSound
<1> QED BY <1>0, <1>1, <1>2, <1>3, <1>4

\* A new applicant is a new customer.
LEMMA WithNewApplicantSound ==
    ASSUME NEW d, NEW U, NEW p \in Plot, Sound(d, U, {p}), NEW a, NEW e \in EditRequest,
           e.applicant \in Kana => a \in Unused(d)
    PROVE  LET f == WithNewApplicant(d, p, a, e)
           IN  Sound(f, U, {p}) /\ StatesStay(d, f)
<1>1. CASE e.applicant \notin Kana
  BY <1>1 DEF WithNewApplicant, StatesStay
<1>2. CASE e.applicant \in Kana
  <2> DEFINE d1 == NewCustomer(d, a, e.applicant, FALSE)
             row == ApplicantRow(a)
             one == <<row>>
             rows == d1.role[p] \o one
  <2>1. a \in Customer /\ FALSE \in BOOLEAN
    BY <1>2 DEF Unused
  <2>2. Sound(d1, U, {p}) /\ StatesStay(d, d1) /\ MayHold(d1, a)
    BY <1>2, <2>1, NewCustomerSound
  <2>3. d1.role[p] \in Seq(RoleRow(Customer)) /\ Named(d1, U, p, d1.role[p])
    BY <2>2, RoleNamed
  <2>4. row \in RoleRow(Customer) /\ row.cust = a
    BY <2>1 DEF ApplicantRow, RoleRow, Kind
  <2>5. WithNewApplicant(d, p, a, e) = WithRows(d1, p, rows)
    <3>1. Append(d1.role[p], row) = rows
      BY <2>3, <2>4, AppendIsConcat
    <3>2. d1 \in Database
      BY <2>2 DEF Sound
    <3> HIDE DEF d1, rows
    <3>3. [d1 EXCEPT !.role[p] = Append(@, row)] = WithRows(d1, p, rows)
      BY <3>1, <3>2 DEF Database, WithRows
    <3> QED BY <1>2, <3>3 DEF WithNewApplicant, d1
  <2> HIDE DEF d1, row
  <2>6. one \in Seq(RoleRow(Customer)) /\ Named(d1, U, p, one)
    <3>1. d1.cust[row.cust].state # "none" /\ MayHold(d1, row.cust)
      BY <2>2, <2>4 DEF MayHold
    <3> QED BY <2>4, <3>1, SingleRow
  <2> HIDE DEF one
  <2>7. rows \in Seq(RoleRow(Customer)) /\ Named(d1, U, p, rows)
    BY <2>3, <2>6, ConcatNamed
  <2> HIDE DEF rows
  <2>8. Sound(WithRows(d1, p, rows), U, {p} \cup {p}) /\ StatesStay(d1, WithRows(d1, p, rows))
    BY <2>2, <2>7, RolesSound, Zenon
  <2>9. {p} \cup {p} = {p}
    OBVIOUS
  <2> QED BY <2>2, <2>5, <2>8, <2>9, StatesChain
<1> QED BY <1>1, <1>2

LEMMA UpdatePlotHolds ==
    ASSUME IInv, NEW p \in Plot, NEW c \in Customer \cup {Null},
           NEW a \in Customer \cup {Null}, NEW e \in Edit, UpdatePlot(p, c, a, e)
    PROVE  IInv' /\ NobodyDeleted
<1> DEFINE d1 == WithRoles(db, p, e.roles)
           d2 == IF c = Null THEN d1 ELSE WithCustomer(d1, c, e)
           d3 == IF Holds(db, p, a, "applicant") THEN WithFormerApplicant(d2, p, a, e)
                 ELSE WithNewApplicant(d2, p, a, e)
           d4 == syncPrimaryContractorNameKana(d3, p)
<1>1. /\ e \in EditRequest /\ db' = d4 /\ job' = Missed(c, e) /\ unchecked' = unchecked
      /\ e.roles # Null => AllAssignable(db, e.roles)
  BY ContractorsAssumption DEF UpdatePlot, Updated
<1>2. a \in IF HoldersOf(db.role[p], "applicant") # {} THEN HoldersOf(db.role[p], "applicant")
            ELSE IF e.applicant \in Kana THEN Unused(db) ELSE {Null}
  BY DEF UpdatePlot
<1>3. Sound(db, unchecked, {}) /\ db \in Database
  BY DEF IInv, Sound
<1>4. e.roles \in Seq(RoleRow(Customer)) \cup {Null}
  BY <1>1 DEF EditRequest
<1>5. e.roles # Null => Named(db, unchecked, p, e.roles)
  <2> SUFFICES ASSUME e.roles # Null, NEW i \in DOMAIN e.roles
               PROVE  /\ db.cust[e.roles[i].cust].state # "none"
                      /\ MayHold(db, e.roles[i].cust)
    BY DEF Named
  <2>1. e.roles[i] \in RoleRow(Customer)
    BY <1>4, LenProperties, ElementOfSeq
  <2>2. e.roles[i].cust \in Customer /\ e.roles[i].cust # New
    BY <2>1, ContractorsAssumption DEF RoleRow
  <2>3. assertAssignableCustomer(db, e.roles[i].cust)
    BY <1>1, <2>2 DEF AllAssignable
  <2> QED BY <1>3, <2>2, <2>3, AssignableMayHold
<1>6. /\ Sound(d1, unchecked, {p}) /\ d1.cust = db.cust
      /\ \A x : /\ Holds(db, p, x, "applicant")
                /\ e.roles = Null \/ HoldersOf(e.roles, "applicant") = {}
                => Holds(d1, p, x, "applicant")
  BY <1>3, <1>4, <1>5, WithRolesSound
<1> HIDE DEF d1
<1>7. /\ Sound(d2, unchecked, {p}) /\ StatesStay(db, d2) /\ d2.role = d1.role
      /\ \A x \in Customer : d2.cust[x].state = db.cust[x].state
  <2>1. CASE c = Null
    BY <1>6, <2>1 DEF StatesStay
  <2>2. CASE c # Null
    <3> DEFINE f == WithCustomer(d1, c, e)
    <3>1. /\ Sound(f, unchecked, {p}) /\ StatesStay(d1, f) /\ f.role = d1.role
          /\ \A x \in Customer : f.cust[x].state = d1.cust[x].state
      BY <1>1, <1>6, <2>2, WithCustomerSound
    <3>2. d2 = f
      BY <2>2
    <3> HIDE DEF f, d2
    <3> QED BY <1>6, <3>1, <3>2 DEF StatesStay
  <2> QED BY <2>1, <2>2
<1> HIDE DEF d2
<1>8. Sound(d3, unchecked, {p}) /\ StatesStay(d2, d3)
  <2>1. CASE Holds(db, p, a, "applicant")
    <3>1. a \in Customer
      <4>1. PICK i \in DOMAIN db.role[p] : db.role[p][i] = [cust |-> a, kind |-> "applicant"]
        BY <2>1 DEF Holds
      <4>2. db.role[p][i] \in RoleRow(Customer)
        BY <1>3, RoleRows
      <4> QED BY <4>1, <4>2 DEF RoleRow
    <3>2. e.roles = Null \/ HoldersOf(e.roles, "applicant") = {} => Holds(d2, p, a, "applicant")
      BY <1>6, <1>7, <2>1, PartySame
    <3>3. /\ Sound(WithFormerApplicant(d2, p, a, e), unchecked, {p})
          /\ StatesStay(d2, WithFormerApplicant(d2, p, a, e))
      BY <1>1, <1>7, <3>1, <3>2, WithFormerApplicantSound
    <3> QED BY <2>1, <3>3
  <2>2. CASE ~Holds(db, p, a, "applicant")
    <3>1. a \notin HoldersOf(db.role[p], "applicant")
      <4> SUFFICES ASSUME a \in HoldersOf(db.role[p], "applicant") PROVE FALSE
        OBVIOUS
      <4>1. PICK i \in DOMAIN db.role[p] : /\ db.role[p][i].cust = a
                                          /\ db.role[p][i].kind = "applicant"
        BY DEF HoldersOf
      <4>2. db.role[p][i] \in RoleRow(Customer)
        BY <1>3, RoleRows
      <4>3. db.role[p][i] = [cust |-> a, kind |-> "applicant"]
        BY <4>1, <4>2 DEF RoleRow
      <4> QED BY <2>2, <4>3 DEF Holds
    <3>2. e.applicant \in Kana => a \in Unused(d2)
      BY <1>2, <1>7, <3>1 DEF Unused
    <3>3. /\ Sound(WithNewApplicant(d2, p, a, e), unchecked, {p})
          /\ StatesStay(d2, WithNewApplicant(d2, p, a, e))
      BY <1>1, <1>7, <3>2, WithNewApplicantSound
    <3> QED BY <2>2, <3>3
  <2> QED BY <2>1, <2>2
<1> HIDE DEF d3
<1>9. {p} \ {p} = {}
  OBVIOUS
<1>10. Sound(d4, unchecked, {p} \ {p}) /\ StatesStay(d3, d4)
  BY <1>8, SyncSound
<1> HIDE DEF d4
<1>11. StatesStay(db, d4)
  BY <1>7, <1>8, <1>10, StatesChain
<1>12. NobodyDeleted
  BY <1>1, <1>11 DEF NobodyDeleted, StatesStay
<1>13. job' \in [Deleter -> JobType]
  <2>1. \A x \in Deleter : [job[x] EXCEPT !.lost = TRUE] \in JobType
    BY DEF IInv, JobType
  <2> QED BY <1>1, <2>1 DEF Missed, IInv
<1> QED BY <1>1, <1>9, <1>10, <1>12, <1>13 DEF IInv
-----------------------------------------------------------------------------
(* deletePlot *)

\* The deletion commits: the plot has no roles left, and of the customers it read
\* only those go that no other plot names.
LEMMA CommitDeleteHolds ==
    ASSUME IInv, NEW x \in Deleter, CommitDelete(x)
    PROVE  /\ IInv'
           /\ \A c \in Customer :
                db.cust[c].state = "live" /\ db'.cust[c].state = "deleted"
                => \A p \in Plot : ~Party(db', p, c)
<1> DEFINE p == job[x].plot
           goes(c) == c \in job[x].parties /\ ~NeededElsewhere(x, c)
           custs == [c \in Customer |-> AfterDelete(x, c)]
<1>0. /\ db \in Database /\ Known(db) /\ Clean(db, unchecked) /\ FreshBut(db, {})
      /\ job \in [Deleter -> JobType]
  BY DEF IInv, Sound
<1>1. p \in Plot
  BY <1>0 DEF CommitDelete, JobType
<1>2. /\ db' = [db EXCEPT !.plot[p].state = "deleted", !.role[p] = <<>>, !.cust = custs]
      /\ job' = [job EXCEPT ![x] = Idle] /\ unchecked' = unchecked
  BY DEF CommitDelete, RolesLeft
<1>3. ASSUME NEW c \in Customer
      PROVE  /\ AfterDelete(x, c) \in CustomerRow
             /\ AfterDelete(x, c).ended = db.cust[c].ended
             /\ AfterDelete(x, c).kana = db.cust[c].kana
             /\ AfterDelete(x, c).state = IF goes(c) THEN "deleted" ELSE db.cust[c].state
  <2>1. db.cust[c] \in CustomerRow
    BY <1>0 DEF Database
  <2> QED BY <2>1 DEF CustomerRow, RowState, AfterDelete
<1>4. custs \in [Customer -> CustomerRow] /\ \A c \in Customer : custs[c] = AfterDelete(x, c)
  BY <1>3
<1> HIDE DEF custs
<1>5. /\ db' \in Database /\ db'.cust = custs
      /\ db'.plot = [db.plot EXCEPT ![p] = [db.plot[p] EXCEPT !.state = "deleted"]]
      /\ db'.role = [db.role EXCEPT ![p] = <<>>]
  <2>1. [db.plot[p] EXCEPT !.state = "deleted"] \in PlotRow /\ <<>> \in Seq(RoleRow(Customer))
    BY <1>0, <1>1, EmptySeq DEF Database, PlotRow, RowState
  <2>2. db' = [db EXCEPT !.plot = [db.plot EXCEPT ![p] = [db.plot[p] EXCEPT !.state = "deleted"]],
                         !.role = [db.role EXCEPT ![p] = <<>>], !.cust = custs]
    BY <1>0, <1>2 DEF Database
  <2> QED BY <1>0, <1>1, <1>4, <2>1, <2>2 DEF Database
<1>6. ASSUME NEW c \in Customer PROVE ~Party(db', p, c)
  <2>1. db'.role[p] = <<>>
    BY <1>0, <1>1, <1>5 DEF Database
  <2> QED BY <2>1 DEF Party, Holds
<1>7. ASSUME NEW y \in Plot \ {p}
      PROVE  /\ db'.role[y] = db.role[y] /\ db'.plot[y] = db.plot[y]
             /\ \A c \in Customer : Party(db', y, c) <=> Party(db, y, c)
  <2>1. db'.role[y] = db.role[y] /\ db'.plot[y] = db.plot[y]
    BY <1>0, <1>5 DEF Database
  <2>2. \A c \in Customer : Party(db', y, c) <=> Party(db, y, c)
    BY <2>1 DEF Party, Holds
  <2> QED BY <2>1, <2>2
<1>8. ASSUME NEW c \in Customer, NEW y \in Plot, Party(db', y, c)
      PROVE  y # p /\ Party(db, y, c) /\ ~goes(c)
  BY <1>6, <1>7, <1>8 DEF NeededElsewhere
<1>9. ASSUME NEW c \in Customer, NEW y \in Plot, Party(db', y, c)
      PROVE  /\ db'.cust[c].state = db.cust[c].state /\ db'.cust[c].ended = db.cust[c].ended
             /\ Party(db, y, c)
  BY <1>3, <1>4, <1>5, <1>8, <1>9
<1>10. Known(db') /\ Clean(db', unchecked)
  BY <1>0, <1>9 DEF Known, Clean, MayHold
<1>11. ASSUME NEW y \in LivePlots(db') PROVE db'.plot[y].snapshot = SnapshotOf(db', y)
  <2>1. y \in Plot \ {p}
    BY <1>0, <1>1, <1>5 DEF LivePlots, Database, PlotRow
  <2>2. y \in LivePlots(db) \ {}
    BY <1>7, <2>1 DEF LivePlots
  <2>3. \A c \in Customer : db'.cust[c].kana = db.cust[c].kana
    BY <1>3, <1>4, <1>5
  <2>4. db'.role[y] = db.role[y] /\ db'.plot[y] = db.plot[y]
    BY <1>7, <2>1
  <2>5. SnapshotOf(db', y) = SnapshotOf(db, y)
    <3>1. \A e : /\ e.role[y] = db.role[y]
                 /\ \A c \in Customer : e.cust[c].kana = db.cust[c].kana
                 => SnapshotOf(e, y) = SnapshotOf(db, y)
      BY <1>0, <2>1, SnapshotSame
    <3> QED BY <2>3, <2>4, <3>1
  <2> QED BY <1>0, <2>2, <2>4, <2>5 DEF FreshBut
<1>12. ASSUME NEW c \in Customer, db.cust[c].state = "live", db'.cust[c].state = "deleted",
              NEW y \in Plot
       PROVE  ~Party(db', y, c)
  BY <1>9, <1>12
<1>13. job' \in [Deleter -> JobType]
  BY <1>0, <1>2 DEF JobType, Idle
<1>14. Sound(db', unchecked, {})
  BY <1>5, <1>10, <1>11 DEF Sound, FreshBut
<1> QED BY <1>2, <1>12, <1>13, <1>14 DEF IInv
-----------------------------------------------------------------------------
(* The theorems *)

\* Deletions read, and fail, without a change of the database.
LEMMA ReadHolds ==
    ASSUME IInv, NEW x \in Deleter, NEW p \in Plot, Read(x, p)
    PROVE  IInv' /\ db' = db
<1>1. job' \in [Deleter -> JobType]
  BY DEF IInv, Read, JobType
<1> QED BY <1>1 DEF IInv, Read

LEMMA FailDeleteHolds ==
    ASSUME IInv, NEW x \in Deleter, FailDelete(x)
    PROVE  IInv' /\ db' = db
BY DEF IInv, FailDelete, JobType, Idle

\* What any step does: the invariant stands, and who is deleted is no party.
LEMMA StepHolds ==
    ASSUME IInv, [Next]_vars
    PROVE  /\ IInv'
           /\ \A c \in Customer :
                db.cust[c].state = "live" /\ db'.cust[c].state = "deleted"
                => \A p \in Plot : ~Party(db', p, c)
<1>1. ASSUME NEW p \in Plot, NEW c \in Customer, NEW a \in Customer, NEW q \in Creation,
             CreatePlot(p, c, a, q)
      PROVE  IInv' /\ NobodyDeleted
  BY <1>1, CreatePlotHolds
<1>2. ASSUME NEW p \in Plot, NEW c \in Customer, NEW q \in Creation, CreatePlotContract(p, c, q)
      PROVE  IInv' /\ NobodyDeleted
  BY <1>2, CreatePlotContractHolds
<1>3. ASSUME NEW p \in Plot, NEW c \in Customer \cup {Null}, NEW a \in Customer \cup {Null},
             NEW e \in Edit, UpdatePlot(p, c, a, e)
      PROVE  IInv' /\ NobodyDeleted
  BY <1>3, UpdatePlotHolds
<1>4. ASSUME NEW p \in Plot, NEW c \in Customer, NEW kana \in Kana \cup {Null},
             ChangeContractor(p, c, kana)
      PROVE  IInv' /\ NobodyDeleted
  BY <1>4, ChangeContractorHolds
<1>5. ASSUME NEW x \in Deleter, NEW p \in Plot, Read(x, p)
      PROVE  IInv' /\ NobodyDeleted
  BY <1>5, ReadHolds DEF NobodyDeleted
<1>6. ASSUME NEW x \in Deleter, FailDelete(x)
      PROVE  IInv' /\ NobodyDeleted
  BY <1>6, FailDeleteHolds DEF NobodyDeleted
<1>7. CASE UNCHANGED vars
  <2>1. db' = db /\ job' = job /\ unchecked' = unchecked
    BY <1>7 DEF vars
  <2> QED BY <2>1 DEF IInv
<1>8. CASE \E x \in Deleter : CommitDelete(x)
  BY <1>8, CommitDeleteHolds
<1>9. NobodyDeleted => \A c \in Customer :
        db.cust[c].state = "live" /\ db'.cust[c].state = "deleted"
        => \A p \in Plot : ~Party(db', p, c)
  BY DEF NobodyDeleted
<1> QED BY <1>1, <1>2, <1>3, <1>4, <1>5, <1>6, <1>7, <1>8, <1>9 DEF Next

\* The inductive invariant: in every plot's copy of the name nothing is outdated,
\* nobody is party who may not be, and every party is a customer that was created.
THEOREM Invariance == Spec => []IInv
<1>1. Init => IInv
  BY InitSound
<1>2. IInv /\ [Next]_vars => IInv'
  BY StepHolds
<1> QED BY <1>1, <1>2, PTL DEF Spec

\* The tables and the deletions under way have their shapes.
THEOREM TypeCorrect == Spec => []TypeOK
<1>1. IInv => TypeOK
  BY DEF IInv, Sound, Database, JobType, TypeOK
<1> QED BY <1>1, Invariance, PTL

\* Every live plot is sorted by the present name of its first contractor, whichever
\* handler renamed or replaced him (contractorNameKana.ts, and its callers).
THEOREM NamesAreFresh == Spec => []SnapshotFresh
<1>1. IInv => SnapshotFresh
  BY DEF IInv, Sound, FreshBut, SnapshotFresh
<1> QED BY <1>1, Invariance, PTL

\* Nobody who has ended with the cemetery, or is deleted, is party to a contract
\* that any handler but createPlotContract has written (assertAssignableCustomer).
THEOREM OnlyAssignableParties == Spec => []PartiesAssignable
<1>1. IInv => PartiesAssignable
  BY DEF IInv, Sound, Clean, MayHold, PartiesAssignable
<1> QED BY <1>1, Invariance, PTL

\* A deletion takes no customer with it that another contract names by the time it
\* commits, however long ago it read the parties of its plot (deletePlot).
THEOREM NoPartyIsDeleted == Spec => NoPartyDeleted
<1>1. IInv /\ [Next]_vars =>
        [\A c \in Customer :
           db.cust[c].state = "live" /\ db'.cust[c].state = "deleted"
           => \A p \in Plot : ~Party(db', p, c)]_vars
  BY StepHolds
<1> QED BY <1>1, Invariance, PTL DEF Spec, NoPartyDeleted
=============================================================================
