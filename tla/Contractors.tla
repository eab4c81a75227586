------------------------------ MODULE Contractors ------------------------------
(***************************************************************************)
(* The parties of a contract: customers, the roles they hold on contract    *)
(* plots, and the copy of the contractor's name that each plot keeps for     *)
(* sorting lists.                                                           *)
(*                                                                         *)
(* A handler is one serializable transaction, so one step here, except that  *)
(* deletePlot reads the plot and its parties before its transaction.         *)
(* A database d is a record [cust, plot, role]; role[p] are the live role    *)
(* rows of p by (created_at, id).  Customers are shared between plots.       *)
(* Whether a contract is in force is left to PlotInventory: it decides only   *)
(* whether its contractor may be changed, and here he always may.            *)
(***************************************************************************)
EXTENDS Integers, Sequences, FiniteSets, Rows

CONSTANTS
    Customer, Plot,
    Migrated,     \* customers that come from the old system, some ended there
    Kana,         \* names a customer can be sorted by
    Null,         \* a null column, or a section that a request leaves out
    New,          \* in a role of a request: the customer the request creates
    Creation,     \* what requests that register a contract ask for
    Edit,         \* what a PUT of a plot asks for
    Deleter       \* deletions that can be under way at the same time

Kind == {"applicant", "contractor"}
RowState == {"none", "live", "deleted"}
RoleRow(C) == [cust : C, kind : Kind]

CreationRequest ==
    [kana : Kana, roles : Seq(RoleRow(Customer \cup {New})), applicant : BOOLEAN,
     work : BOOLEAN, extra : SUBSET Plot]
EditRequest ==
    [roles : Seq(RoleRow(Customer)) \cup {Null}, kana : Kana \cup {Null},
     work : {Null, "remove", "write"}, applicant : {Null, "remove"} \cup Kana]

ASSUME ContractorsAssumption ==
    /\ Null \notin Kana \cup Customer \cup {"remove", "write"}
    /\ New \notin Customer \cup {Null}
    /\ Null \notin Seq(RoleRow(Customer))
    /\ "remove" \notin Kana
    /\ Migrated \subseteq Customer
    /\ Creation \subseteq CreationRequest /\ Edit \subseteq EditRequest

VARIABLES
    db,
    job,       \* what a deletion has read: its plot, the parties, their work rows
    unchecked  \* history: plots that createPlotContract has registered

vars == <<db, job, unchecked>>

CustomerRow ==
    [state : RowState, ended : BOOLEAN, kana : Kana,
     work : RowState]    \* the work information of the customer
PlotRow == [state : RowState, snapshot : Kana \cup {Null}]
Idle == [plot |-> Null, parties |-> {}, works |-> {}, lost |-> FALSE]

LivePlots(d) == {p \in Plot : d.plot[p].state = "live"}
Holds(d, p, c, kind) ==
    \E i \in DOMAIN d.role[p] : d.role[p][i] = [cust |-> c, kind |-> kind]
Party(d, p, c) == \E kind \in Kind : Holds(d, p, c, kind)
Without(rows, kind) == Picked(rows, {i \in DOMAIN rows : rows[i].kind # kind})
HoldersOf(rows, kind) == {r.cust : r \in {rows[i] : i \in {j \in DOMAIN rows : rows[j].kind = kind}}}

-----------------------------------------------------------------------------
(* The copy of the contractor's name *)

\* The name of the first live contractor, or null.
SnapshotOf(d, p) ==
    LET I == {i \in DOMAIN d.role[p] : d.role[p][i].kind = "contractor"}
        first == CHOOSE i \in I : \A j \in I : i <= j
    IN IF I = {} THEN Null ELSE d.cust[d.role[p][first].cust].kana

syncPrimaryContractorNameKana(d, p) ==
    [d EXCEPT !.plot[p].snapshot = SnapshotOf(d, p)]

\* Variant: only the plots that are edited are refreshed, by their handlers.
SyncNothing(d, c) == d

\* Every plot the customer is a contractor of, deleted ones included.
syncContractorNameKanaForCustomer(d, c) ==
    [d EXCEPT !.plot =
       [p \in Plot |-> IF Holds(d, p, c, "contractor")
                       THEN [d.plot[p] EXCEPT !.snapshot = SnapshotOf(d, p)]
                       ELSE d.plot[p]]]

Renamed(d, c, kana) ==
    IF kana = Null THEN d
    ELSE syncContractorNameKanaForCustomer([d EXCEPT !.cust[c].kana = kana], c)

-----------------------------------------------------------------------------
(* Who may be given a role *)

\* Customers that a contract in the old system ended with: listed on their own.
getTerminatedCustomers(d) ==
    {c \in Customer : d.cust[c].state = "live" /\ d.cust[c].ended}

\* Variant: only its existence is checked.
AssertExists(d, c) == d.cust[c].state # "none"

assertAssignableCustomer(d, c) ==
    d.cust[c].state = "live" /\ c \notin getTerminatedCustomers(d)

AllAssignable(d, rows) ==
    \A i \in DOMAIN rows : rows[i].cust # New => assertAssignableCustomer(d, rows[i].cust)

Unused(d) == {c \in Customer : d.cust[c].state = "none"}

NewCustomer(d, c, kana, work) ==
    [d EXCEPT !.cust[c] =
       [state |-> "live", ended |-> FALSE, kana |-> kana,
        work |-> IF work THEN "live" ELSE "none"]]

-----------------------------------------------------------------------------
(* Registration of contracts *)

NewPlot(d, p, rows) ==
    syncPrimaryContractorNameKana(
        [d EXCEPT !.plot[p] = [state |-> "live", snapshot |-> Null],
                  !.role[p] = rows],
        p)

\* Roles of the request with the new customer filled in; without any, the new
\* customer is the contractor.  A request with one such role stands for customerRole too.
RolesFor(rows, c) ==
    IF rows = <<>> THEN <<[cust |-> c, kind |-> "contractor"]>>
    ELSE [i \in DOMAIN rows |->
            [rows[i] EXCEPT !.cust = IF @ = New THEN c ELSE @]]

ApplicantRow(a) == [cust |-> a, kind |-> "applicant"]

\* createPlot: a customer, perhaps an applicant, the plot, and the further plots
\* of a combined purchase, which all go to the new customer.
CreatePlot(p, c, a, q) ==
    /\ p \in Plot \ LivePlots(db) /\ db.plot[p].state = "none"
    /\ c \in Unused(db)
    /\ q.applicant => a \in Unused(db) \ {c}
    /\ AllAssignable(db, q.roles)
    /\ p \notin q.extra /\ \A x \in q.extra : db.plot[x].state = "none"
    /\ LET second == IF q.applicant THEN <<ApplicantRow(a)>> ELSE <<>>
           d1 == NewCustomer(db, c, q.kana, q.work)
           d2 == IF q.applicant THEN NewCustomer(d1, a, q.kana, FALSE) ELSE d1
           d3 == NewPlot(d2, p, RolesFor(q.roles, c) \o second)
           shared == <<[cust |-> c, kind |-> "contractor"]>> \o second
           each == [x \in q.extra |-> NewPlot(d3, x, shared)]
       IN db' = [d3 EXCEPT
                   !.plot = [x \in Plot |-> IF x \in q.extra THEN each[x].plot[x] ELSE @[x]],
                   !.role = [x \in Plot |-> IF x \in q.extra THEN shared ELSE @[x]]]
    /\ UNCHANGED <<job, unchecked>>

\* createPlotContract, on land that has a contract: like createPlot, but the
\* customers that the request names are not looked at.
CreatePlotContract(p, c, q) ==
    /\ db.plot[p].state = "none"
    /\ c \in Unused(db)
    /\ \A i \in DOMAIN q.roles : q.roles[i].cust # New => db.cust[q.roles[i].cust].state # "none"
    /\ ~q.applicant /\ q.extra = {}
    /\ db' = NewPlot(NewCustomer(db, c, q.kana, q.work), p, RolesFor(q.roles, c))
    /\ unchecked' = unchecked \cup {p}
    /\ UNCHANGED job

-----------------------------------------------------------------------------
(* updatePlot *)

\* Section 3: the role rows are replaced; rows of applicants are left alone
\* unless the request has one (#201).
WithRoles(d, p, rows) ==
    IF rows = Null THEN d
    ELSE IF HoldersOf(rows, "applicant") # {} THEN [d EXCEPT !.role[p] = rows]
    ELSE [d EXCEPT !.role[p] = Without(@, "contractor") \o rows]

\* Sections 4 and 5: the name of a contractor that was read before section 3, and
\* his work information.  A soft-deleted work row is found and stays deleted.
WithCustomer(d, c, e) ==
    LET d1 == Renamed(d, c, e.kana) IN
    CASE e.work = Null -> d1
      [] e.work = "remove" -> [d1 EXCEPT !.cust[c].work = "none"]
      [] e.work = "write" -> [d1 EXCEPT !.cust[c].work = IF @ = "none" THEN "live" ELSE @]

\* Section 6.5 with an applicant row that was read before section 3: the row is
\* deleted, also when section 3 has done so already, or its customer is renamed.
WithFormerApplicant(d, p, a, e) ==
    LET kept == e.roles = Null \/ HoldersOf(e.roles, "applicant") = {}
        rows == d.role[p]
        at == {i \in DOMAIN rows : rows[i] = ApplicantRow(a)}
        i == CHOOSE i \in at : TRUE
    IN CASE e.applicant = Null -> d
         [] e.applicant = "remove" ->
              IF kept THEN [d EXCEPT !.role[p] = SubSeq(@, 1, i - 1) \o SubSeq(@, i + 1, Len(@))]
              ELSE d
         [] OTHER -> Renamed(d, a, e.applicant)

\* Without such a row, a new customer becomes the applicant.
WithNewApplicant(d, p, a, e) ==
    IF e.applicant \in Kana
    THEN [NewCustomer(d, a, e.applicant, FALSE) EXCEPT
            !.role[p] = Append(@, ApplicantRow(a))]
    ELSE d

\* The contractor and the applicant that the request edits, c and a, are among
\* those that were read first, in no particular order.
Updated(d, p, c, a, e) ==
    LET d1 == WithRoles(d, p, e.roles)
        d2 == IF c = Null THEN d1 ELSE WithCustomer(d1, c, e)
        d3 == IF Holds(d, p, a, "applicant") THEN WithFormerApplicant(d2, p, a, e)
              ELSE WithNewApplicant(d2, p, a, e)
    IN syncPrimaryContractorNameKana(d3, p)

\* A hard-deleted work row is missed by the deletions that have read it.
Missed(c, e) ==
    [x \in Deleter |->
       IF c \in job[x].works /\ e.work = "remove"
       THEN [job[x] EXCEPT !.lost = TRUE] ELSE job[x]]

OneOf(S) == IF S = {} THEN {Null} ELSE S

UpdatePlot(p, c, a, e) ==
    LET contractors == HoldersOf(db.role[p], "contractor")
        applicants == HoldersOf(db.role[p], "applicant")
    IN /\ p \in LivePlots(db)
       /\ e.roles # Null => AllAssignable(db, e.roles)
       /\ c \in OneOf(contractors)
       /\ a \in IF applicants # {} THEN applicants
                ELSE IF e.applicant \in Kana THEN Unused(db) ELSE {Null}
       /\ db' = Updated(db, p, c, a, e)
       /\ job' = Missed(c, e)
       /\ UNCHANGED unchecked

-----------------------------------------------------------------------------
(* Change of the contractor *)

\* An existing customer, or a new one under a name, takes the contract over.
ChangeContractor(p, c, kana) ==
    LET d1 == IF kana = Null THEN db ELSE NewCustomer(db, c, kana, FALSE)
        row == [cust |-> c, kind |-> "contractor"]
    IN /\ p \in LivePlots(db)
       /\ HoldersOf(db.role[p], "contractor") # {}
       /\ IF kana = Null
          THEN assertAssignableCustomer(db, c) /\ ~Holds(db, p, c, "contractor")
          ELSE c \in Unused(db)
       /\ db' = syncPrimaryContractorNameKana(
                  [d1 EXCEPT !.role[p] = Append(Without(@, "contractor"), row)], p)
       /\ UNCHANGED <<job, unchecked>>

-----------------------------------------------------------------------------
(* deletePlot *)

Read(x, p) ==
    /\ job[x] = Idle
    /\ p \in LivePlots(db)
    /\ LET parties == {c \in Customer : Party(db, p, c)}
       IN job' = [job EXCEPT ![x] =
                    [plot |-> p, parties |-> parties, lost |-> FALSE,
                     works |-> {c \in parties : db.cust[c].work # "none"}]]
    /\ UNCHANGED <<db, unchecked>>

\* Variant: the roles stay with the deleted plot.
RolesKept(x) == db.role[job[x].plot]

\* Read in the transaction: does another contract name the customer?
NeededElsewhere(x, c) == \E p \in Plot \ {job[x].plot} : Party(db, p, c)

\* The cascade deletes every role row of the plot that is live now.
RolesLeft(x) == <<>>

\* A customer once the deletion has committed.
AfterDelete(x, c) ==
    [db.cust[c] EXCEPT
       !.work = IF c \in job[x].works THEN "deleted" ELSE @,
       !.state = IF c \in job[x].parties /\ ~NeededElsewhere(x, c) THEN "deleted" ELSE @]

CommitDelete(x) ==
    LET p == job[x].plot IN
    /\ p # Null /\ ~job[x].lost
    /\ db' = [db EXCEPT
                !.plot[p].state = "deleted",
                !.role[p] = RolesLeft(x),
                !.cust = [c \in Customer |-> AfterDelete(x, c)]]
    /\ job' = [job EXCEPT ![x] = Idle]
    /\ UNCHANGED unchecked

\* A row it has read is gone, or the connection.
FailDelete(x) ==
    /\ job[x] # Idle
    /\ job' = [job EXCEPT ![x] = Idle]
    /\ UNCHANGED <<db, unchecked>>

-----------------------------------------------------------------------------
\* At the start there are customers, perhaps ended ones, and no contracts.
Init ==
    /\ \E ended \in SUBSET Migrated, kana \in Kana :
         db = [cust |-> [c \in Customer |->
                 [state |-> IF c \in Migrated THEN "live" ELSE "none",
                  ended |-> c \in ended, kana |-> kana, work |-> "none"]],
               plot |-> [p \in Plot |->
                 [state |-> "none", snapshot |-> Null]],
               role |-> [p \in Plot |-> <<>>]]
    /\ job = [x \in Deleter |-> Idle]
    /\ unchecked = {}

Next ==
    \/ \E p \in Plot, c, a \in Customer, q \in Creation : CreatePlot(p, c, a, q)
    \/ \E p \in Plot, c \in Customer, q \in Creation : CreatePlotContract(p, c, q)
    \/ \E p \in Plot, c, a \in Customer \cup {Null}, e \in Edit : UpdatePlot(p, c, a, e)
    \/ \E p \in Plot, c \in Customer, kana \in Kana \cup {Null} : ChangeContractor(p, c, kana)
    \/ \E x \in Deleter, p \in Plot : Read(x, p)
    \/ \E x \in Deleter : CommitDelete(x) \/ FailDelete(x)

Spec == Init /\ [][Next]_vars
-----------------------------------------------------------------------------
(* Properties *)

\* The tables and the deletions under way have their shapes.
TypeOK ==
    /\ db \in [cust : [Customer -> CustomerRow], plot : [Plot -> PlotRow],
               role : [Plot -> Seq(RoleRow(Customer))]]
    /\ job \in [Deleter -> [plot : Plot \cup {Null}, parties : SUBSET Customer,
                            works : SUBSET Customer, lost : BOOLEAN]]
    /\ unchecked \subseteq Plot

\* A plot is sorted by the present name of its present first contractor, whoever
\* renamed him and through which of his plots (#282, #301).
SnapshotFresh ==
    \A p \in LivePlots(db) : db.plot[p].snapshot = SnapshotOf(db, p)

\* Nobody whose contract ended or who is deleted is party to a contract (#394),
\* unless createPlotContract let him in, which does not look.
PartiesAssignable ==
    \A p \in Plot \ unchecked, c \in Customer :
      Party(db, p, c) => db.cust[c].state = "live" /\ ~db.cust[c].ended

\* A deletion that works from parties it read earlier takes no customer away that
\* another request has meanwhile made party to a contract.
NoPartyDeleted ==
    [][\A c \in Customer :
         db.cust[c].state = "live" /\ db'.cust[c].state = "deleted"
         => \A p \in Plot : ~Party(db', p, c)]_vars
=============================================================================
