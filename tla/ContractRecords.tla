---------------------------- MODULE ContractRecords ----------------------------
(***************************************************************************)
(* The records below a contract plot - fees, gravestone, family contacts,    *)
(* buried persons, construction work - and the history that is written with  *)
(* every change of them, in the same transaction.  Nothing else tells the    *)
(* office what a record was before, so the history read back must be what    *)
(* the tables say.                                                          *)
(*                                                                         *)
(* A record has a field of the form and another one that the form need not   *)
(* send.  A handler is one serializable transaction and one step, except     *)
(* that deletePlot reads the plot and its fees before.                      *)
(***************************************************************************)
EXTENDS Rows

CONSTANTS
    Plot, Val,
    Null,        \* a null field, or a section that a request leaves out
    Unsent,      \* a field that a request leaves out
    Blank,       \* the name on an empty line of a form
    Remove,      \* a section sent as null
    Registration, Edit,    \* requests to register a contract and to edit one
    Deleter,     \* deletions under way at the same time
    MaxRow       \* bound on the records ever created

Single == {"fee", "gravestone"}    \* at most one per plot; "fee" stands for both fees
Listed == {"family", "buried", "construction"}
Kind == Single \cup Listed
Cascade == Kind \ {"fee"}          \* what deletePlot looks up in its transaction
PlotState == {"none", "live", "deleted"}
RowState == {"live", "soft", "hard"}

Item == [form : Val \cup {Unsent, Blank}, other : Val \cup {Unsent}]
Line == [id : 0 .. MaxRow, item : Item]     \* 0: a line without an id
Empty == [form |-> Unsent, other |-> Unsent]
Section(k) == {Null} \cup IF k \in Single THEN {Remove} \cup Item ELSE Seq(Line)

RecordsAssumption ==
    /\ MaxRow \in Nat
    /\ \A e \in Registration \cup Edit : \A k \in Kind : e[k] \in Section(k)

VARIABLES
    plot,    \* state of each plot
    rows,    \* the records, by id
    told,    \* what the history, read from its start, says of each of them
    job      \* the fees a deletion has read

vars == <<plot, rows, told, job>>

Row == [plot : Plot, kind : Kind, state : RowState, form : Val \cup {Null},
        other : Val \cup {Null}, logged : BOOLEAN]
Told == [state : {"none", "live", "gone"}, form : Val \cup {Null},
         other : Val \cup {Null}]
Idle == [plot |-> Null, fees |-> {}]

Own(p, k) ==
    {i \in DOMAIN rows : rows[i].plot = p /\ rows[i].kind = k /\ rows[i].state = "live"}

Sent(x, otherwise) == IF x = Unsent THEN otherwise ELSE x

-----------------------------------------------------------------------------
(* History *)

\* createHistory, recordHistoryBatch: an update is told if something differs,
\* and then it tells the values that are handed in.
ToldUpdate(i, before, after) ==
    IF before = after THEN told[i]
    ELSE [state |-> "live", form |-> after.form, other |-> after.other]

ToldCreate(row) ==
    [state |-> IF row.logged THEN "live" ELSE "none",
     form |-> IF row.logged THEN row.form ELSE Null,
     other |-> IF row.logged THEN row.other ELSE Null]

ToldDelete(i) == [told[i] EXCEPT !.state = "gone"]

-----------------------------------------------------------------------------
(* One record and one line of a form *)

\* The fields of a single record are changed one by one.  A line of a list is
\* written as a whole, but for the fields of a buried person that the form does
\* not know (#383).
Merged(row, item) ==
    [row EXCEPT !.form = Sent(item.form, IF row.kind \in Single THEN @ ELSE Null),
                !.other = Sent(item.other,
                               IF row.kind \in Single \cup {"buried"} THEN @ ELSE Null)]

\* Variant: always the data written.
HandedInAsSent(row, item) == [form |-> item.form, other |-> Sent(item.other, Null)]

\* What is handed to the history after an update: the row read back, for single
\* records; the data written, for lists, where a field not written is missing.
HandedIn(row, item) ==
    [form |-> Merged(row, item).form,
     other |-> IF row.kind = "buried" THEN Sent(item.other, Null) ELSE Merged(row, item).other]

NewRow(p, k, item, logged) ==
    [plot |-> p, kind |-> k, state |-> "live", form |-> Sent(item.form, Null),
     other |-> Sent(item.other, Null), logged |-> logged]

-----------------------------------------------------------------------------
(* Registration *)

\* createPlot skips the blank lines of both lists it knows; there is no section
\* for construction work.
RowsOf(p, k, e, logged) ==
    LET filled == Picked(e[k], {j \in DOMAIN e[k] : e[k][j].item.form # Blank})
    IN IF e[k] \in {Null, Remove} THEN <<>>
       ELSE IF k \in Single
       THEN IF k = "gravestone" /\ e[k] = Empty THEN <<>>
            ELSE <<NewRow(p, k, e[k], logged)>>
       ELSE [j \in DOMAIN filled |-> NewRow(p, k, filled[j].item, logged)]

Insert(new) ==
    /\ Len(rows) + Len(new) <= MaxRow
    /\ rows' = rows \o new
    /\ told' = told \o [j \in DOMAIN new |-> ToldCreate(new[j])]

CreatePlot(p, e) ==
    /\ plot[p] = "none"
    /\ e["construction"] = Null
    /\ Insert(RowsOf(p, "fee", e, TRUE) \o RowsOf(p, "gravestone", e, TRUE)
                \o RowsOf(p, "family", e, TRUE) \o RowsOf(p, "buried", e, TRUE))
    /\ plot' = [plot EXCEPT ![p] = "live"]
    /\ UNCHANGED <<job>>

\* A further plot of a combined purchase gets fees only.
CreateAdditionalPlot(p, e) ==
    /\ plot[p] = "none"
    /\ \E q \in Plot : plot[q] = "live"
    /\ Insert(RowsOf(p, "fee", e, TRUE))
    /\ plot' = [plot EXCEPT ![p] = "live"]
    /\ UNCHANGED <<job>>

\* createPlotContract writes fees and the gravestone, and no history.
CreatePlotContract(p, e) ==
    /\ plot[p] = "none"
    /\ Insert(RowsOf(p, "fee", e, FALSE) \o RowsOf(p, "gravestone", e, FALSE))
    /\ plot' = [plot EXCEPT ![p] = "live"]
    /\ UNCHANGED <<job>>

-----------------------------------------------------------------------------
(* updatePlot *)

\* Variant: a line is matched with whatever record has its id.
MatchedAnywhere(p, k) == {i \in DOMAIN rows : rows[i].kind = k /\ rows[i].state = "live"}

\* The records that a section is compared with.
Existing(p, k) == Own(p, k)

Named(section) == {section[j].id : j \in DOMAIN section}

\* The last line that names record i.
LineOf(section, i) ==
    section[CHOOSE j \in DOMAIN section :
              /\ section[j].id = i
              /\ \A h \in DOMAIN section : section[h].id = i => h <= j].item

Skipped(k, item) == k = "family" /\ item.form = Blank

\* What the request makes of a record that exists: a single one is deleted for
\* good when its section is null,
AfterSingle(row, s) ==
    IF s = Remove THEN [row EXCEPT !.state = "hard"] ELSE Merged(row, s)

\* one of a list is deleted softly when no line has its id.
AfterListed(row, i, s) ==
    IF i \notin Named(s) THEN [row EXCEPT !.state = "soft"]
    ELSE IF Skipped(row.kind, LineOf(s, i)) THEN row
    ELSE Merged(row, LineOf(s, i))

Touched(p, e, i) == i \in Existing(p, rows[i].kind) /\ e[rows[i].kind] # Null

Changed(p, e, i) ==
    LET row == rows[i] IN
    IF ~Touched(p, e, i) THEN row
    ELSE IF row.kind \in Single THEN AfterSingle(row, e[row.kind])
    ELSE AfterListed(row, i, e[row.kind])

\* What it tells of such a record.
ToldSingle(row, i, s) ==
    IF s = Remove THEN ToldDelete(i)
    ELSE ToldUpdate(i, [form |-> row.form, other |-> row.other], HandedIn(row, s))

ToldListed(row, i, s) ==
    IF i \notin Named(s) THEN ToldDelete(i)
    ELSE IF Skipped(row.kind, LineOf(s, i)) THEN told[i]
    ELSE ToldUpdate(i, [form |-> row.form, other |-> row.other],
                    HandedIn(row, LineOf(s, i)))

ToldChanged(p, e, i) ==
    LET row == rows[i] IN
    IF ~Touched(p, e, i) THEN told[i]
    ELSE IF row.kind \in Single THEN ToldSingle(row, i, e[row.kind])
    ELSE ToldListed(row, i, e[row.kind])

\* A single section that has a field makes a record when there is none;
AddedSingle(p, k, s) ==
    IF s \in {Null, Remove, Empty} \/ Existing(p, k) # {} THEN <<>>
    ELSE <<NewRow(p, k, s, TRUE)>>

\* so does a line without the id of a record of this plot.
AddedListed(p, k, s) ==
    LET new == Picked(s, {j \in DOMAIN s : /\ s[j].id \notin Existing(p, k)
                                           /\ ~Skipped(k, s[j].item)})
    IN IF s = Null THEN <<>>
       ELSE [j \in DOMAIN new |-> NewRow(p, k, new[j].item, TRUE)]

UpdatePlot(p, e) ==
    LET new == AddedSingle(p, "fee", e["fee"])
                 \o AddedSingle(p, "gravestone", e["gravestone"])
                 \o AddedListed(p, "family", e["family"])
                 \o AddedListed(p, "buried", e["buried"])
                 \o AddedListed(p, "construction", e["construction"])
    IN /\ plot[p] = "live"
       /\ Len(rows) + Len(new) <= MaxRow
       /\ rows' = [i \in DOMAIN rows |-> Changed(p, e, i)] \o new
       /\ told' = [i \in DOMAIN rows |-> ToldChanged(p, e, i)]
                    \o [j \in DOMAIN new |-> ToldCreate(new[j])]
       /\ UNCHANGED <<plot, job>>

-----------------------------------------------------------------------------
(* deletePlot *)

Read(x, p) ==
    /\ job[x] = Idle
    /\ plot[p] = "live"
    /\ job' = [job EXCEPT ![x] = [plot |-> p, fees |-> Own(p, "fee")]]
    /\ UNCHANGED <<plot, rows, told>>

\* Variant: without the family contacts.
FoundWithoutFamily(p) == UNION {Own(p, k) : k \in Cascade \ {"family"}}

\* The records that the cascade finds.
Found(p) == UNION {Own(p, k) : k \in Cascade}

\* Fees are deleted as read, even when another deletion has deleted them; if one
\* is no longer in its table the transaction fails.
CommitDelete(x) ==
    LET p == job[x].plot
        gone == job[x].fees \cup Found(p)
    IN /\ job[x] # Idle
       /\ \A i \in job[x].fees : rows[i].state # "hard"
       /\ plot' = [plot EXCEPT ![p] = "deleted"]
       /\ rows' = [i \in DOMAIN rows |->
                     IF i \in gone THEN [rows[i] EXCEPT !.state = "soft"] ELSE rows[i]]
       /\ told' = [i \in DOMAIN rows |-> IF i \in gone THEN ToldDelete(i) ELSE told[i]]
       /\ job' = [job EXCEPT ![x] = Idle]

FailDelete(x) ==
    /\ job[x] # Idle
    /\ job' = [job EXCEPT ![x] = Idle]
    /\ UNCHANGED <<plot, rows, told>>

-----------------------------------------------------------------------------
Init ==
    /\ plot = [p \in Plot |-> "none"]
    /\ rows = <<>> /\ told = <<>>
    /\ job = [x \in Deleter |-> Idle]

Next ==
    \/ \E p \in Plot, e \in Registration :
         CreatePlot(p, e) \/ CreateAdditionalPlot(p, e) \/ CreatePlotContract(p, e)
    \/ \E p \in Plot, e \in Edit : UpdatePlot(p, e)
    \/ \E x \in Deleter : \/ \E p \in Plot : Read(x, p)
                          \/ CommitDelete(x) \/ FailDelete(x)

Spec == Init /\ [][Next]_vars
-----------------------------------------------------------------------------
(* Properties *)

\* Every record has its shape, and the history of it one of its own.
TypeOK ==
    /\ plot \in [Plot -> PlotState]
    /\ rows \in Seq(Row) /\ told \in Seq(Told) /\ Len(told) = Len(rows)
    /\ job \in [Deleter -> [plot : Plot \cup {Null}, fees : SUBSET (1 .. MaxRow)]]

\* Read from its start, the history gives what the tables hold: which records
\* there are, and their fields, except the fields of a buried person that a form
\* may leave out - and except what createPlotContract has registered, whose
\* beginning nobody told.
HistoryTells ==
    \A i \in DOMAIN rows :
      rows[i].logged =>
        /\ told[i].state = (IF rows[i].state = "live" THEN "live" ELSE "gone")
        /\ told[i].form = rows[i].form
        /\ rows[i].kind # "buried" => told[i].other = rows[i].other

\* Nothing of what the cascade looks up outlives its plot (#358), whatever was
\* written between the first read of the deletion and its transaction.
NothingSurvives ==
    \A i \in DOMAIN rows :
      plot[rows[i].plot] = "deleted" /\ rows[i].kind \in Cascade
      => rows[i].state # "live"

\* A request for one plot leaves the records of the others alone, also when it
\* names their ids.
OnlyOwnRecords ==
    [][\A i, j \in DOMAIN rows :
         rows'[i] # rows[i] /\ rows'[j] # rows[j] => rows[i].plot = rows[j].plot]_vars
=============================================================================
