--------------------------- MODULE CollectiveBurials ---------------------------
(***************************************************************************)
(* Collective burials: the day on which the remains of a plot move to the    *)
(* common grave, what that day is derived from, and the three runs that      *)
(* go over many plots: the change of the yearly day, the release of the       *)
(* contracts that are due, and the invoice batch.                            *)
(*                                                                         *)
(* A handler that edits one plot is one step, except that the endpoint that   *)
(* creates a row has no transaction: it reads, then writes.  The three runs   *)
(* read a list and then treat its rows one by one; they may stop anywhere.     *)
(* A date is 3 * year + point of the year: 0 an ordinary day, 1 and 2 the two  *)
(* days on which contracts are released.                                     *)
(***************************************************************************)
EXTENDS Integers, Sequences, FiniteSets, SequencesExt

CONSTANTS
    Plot,
    Null,          \* a null column
    Unsent,          \* a field that a request leaves out
    Run,           \* settings changes, releases and batches under way
    ContractDate,  \* contract dates that requests name
    Roster,        \* the people buried in a plot that requests name
    Terms,         \* capacity and years of a collective burial
    Noted,         \* what the notes of a plot say of its collective burial
    RowEdits,      \* what the screen of collective burials asks to change
    Clock          \* the days on which something happens

Timing == {"obon", "october"}
Status == {"pending", "billed", "paid"}
Day == [obon |-> 1, october |-> 2]

Year(d) == d \div 3
addYearsUtc(d, n) == d + 3 * n
releaseDateInYear(y, timing) == 3 * y + Day[timing]
isReleaseDayReached(today, timing) == today >= releaseDateInYear(Year(today), timing)

Person == [date : Nat \cup {Null}, final : BOOLEAN]
Term == [capacity : Nat \ {0}, years : Nat \ {0}]
Row == [state : {"none", "live", "deleted"}, capacity : Nat, count : Nat,
        reached : Nat \cup {Null}, years : Nat, date : Nat \cup {Null},
        manual : BOOLEAN, onCapacity : BOOLEAN, status : Status]
RowEdit ==
    [capacity : {Unsent} \cup (Nat \ {0}), years : {Unsent} \cup (Nat \ {0}),
     reached : {Unsent, Null} \cup Nat, date : {Unsent, Null} \cup Nat, status : {Unsent} \cup Status]

\* Of an area of vaults, or of trees, where the year noted and the number of people
\* noted may each be missing; years is what the date of the contract amounts to.
Note == [vault : BOOLEAN, year : Nat \cup {Null}, bodies : (Nat \ {0}) \cup {Null},
         years : Nat \ {0}]

CollectiveAssumption ==
    /\ Null \notin Nat /\ Unsent \notin Nat \cup {Null}
    /\ ContractDate \subseteq Nat /\ Clock \subseteq Nat /\ 0 \in Clock
    /\ Terms \subseteq Term /\ Roster \subseteq Seq(Person)
    /\ Noted \subseteq Note /\ RowEdits \subseteq RowEdit

VARIABLES
    plot,     \* its contract and its people
    row,      \* its collective burial, at most one even when deleted
    timing,   \* the yearly day contracts are released on
    today,
    creation, \* what the creating endpoint has read
    run

vars == <<plot, row, timing, today, creation, run>>

NoRow == [state |-> "none", capacity |-> 0, count |-> 0, reached |-> Null, years |-> 0,
          date |-> Null, manual |-> FALSE, onCapacity |-> FALSE, status |-> "pending"]
NoPlot == [state |-> "none", contract |-> Null, capacity |-> Null, people |-> <<>>]
Idle == [kind |-> "idle"]

Live(p) == plot[p].state \in {"active", "terminated"}

-----------------------------------------------------------------------------
(* The day of the collective burial *)

Dated(people) == SelectSeq(people, LAMBDA x : x.date # Null)
FinalDates(people) == {x.date : x \in {y \in ToSet(Dated(people)) : y.final}}

findFinalBurialDate(people) ==
    IF FinalDates(people) = {} THEN Null
    ELSE CHOOSE d \in FinalDates(people) : \A e \in FinalDates(people) : e <= d

findNthBurialDate(people, n) ==
    LET dates == SortSeq([i \in DOMAIN Dated(people) |-> Dated(people)[i].date],
                         LAMBDA a, b : a < b)
    IN IF n \in DOMAIN dates THEN dates[n] ELSE Null

resolveBillingScheduledDate(contract, years, final) ==
    CASE final # Null -> addYearsUtc(final, years)
      [] final = Null /\ contract # Null -> addYearsUtc(contract, years)
      [] OTHER -> Null

\* The release day in the year in which the last of the noted people has been
\* buried for long enough; none before the plot is full.
DateOnCapacity(pl, r, full) ==
    LET nth == findNthBurialDate(pl.people, r.capacity)
    IN IF full /\ nth # Null
       THEN releaseDateInYear(Year(addYearsUtc(nth, r.years)), timing) ELSE Null

RuleDate(pl, r) ==
    resolveBillingScheduledDate(pl.contract, r.years, findFinalBurialDate(pl.people))

\* Variants: the rule is applied to rows that are billed as well; a recount that finds
\* the plot still full resets the day on which it became full.
ReachedAfterToggle(r, full) == IF r.reached # Null THEN Null ELSE IF full THEN today ELSE Null

Follows(r) == ~r.manual /\ r.status = "pending"

Reached(r, full) ==
    CASE full /\ r.reached = Null -> today
      [] ~full -> Null
      [] OTHER -> r.reached

\* Of a live row r; other rows are left alone.
updateCollectiveBurialCount(pl, r) ==
    LET n == Len(pl.people)
        full == n >= r.capacity
    IN IF r.state # "live" THEN r
       ELSE [r EXCEPT !.count = n, !.reached = Reached(r, full),
                      !.date = IF ~Follows(r) THEN r.date
                               ELSE IF r.onCapacity THEN DateOnCapacity(pl, r, full)
                               ELSE RuleDate(pl, r)]

-----------------------------------------------------------------------------
(* The plot screen *)

Init ==
    /\ plot = [p \in Plot |-> NoPlot]
    /\ row = [p \in Plot |-> NoRow]
    /\ timing = "october" /\ today = 0
    /\ creation = [p \in Plot |-> Null]
    /\ run = [x \in Run |-> Idle]

Put(p, pl, r) ==
    /\ plot' = [plot EXCEPT ![p] = pl]
    /\ row' = [row EXCEPT ![p] = r]

CreatePlot(p, contract, term, people) ==
    /\ plot[p].state = "none"
    /\ LET pl == [state |-> "active", contract |-> contract, people |-> people,
                  capacity |-> IF term = Null THEN Null ELSE term.capacity]
           r == [NoRow EXCEPT !.state = "live", !.capacity = term.capacity, !.years = term.years,
                              !.date = resolveBillingScheduledDate(contract, term.years, Null)]
       IN Put(p, pl, IF term = Null THEN NoRow
                     ELSE IF people = <<>> THEN r ELSE updateCollectiveBurialCount(pl, r))
    /\ UNCHANGED <<timing, today, creation, run>>

\* The section on the collective burial: taken away, edited, or created, where a
\* deleted row comes back with its flags, its count and its status.
SavedRow(r, term) ==
    IF term = Null THEN IF r.state = "live" THEN [r EXCEPT !.state = "deleted"] ELSE r
    ELSE [r EXCEPT !.state = "live", !.capacity = term.capacity, !.years = term.years]

\* Variant: a date chosen by hand is derived again as well.
RescheduledAlways(pl, r) == IF r.state = "live" THEN [r EXCEPT !.date = RuleDate(pl, r)] ELSE r

\* Derived again with the people before this request, whatever the status is.
Rescheduled(pl, r) ==
    IF r.state = "live" /\ ~r.manual THEN [r EXCEPT !.date = RuleDate(pl, r)] ELSE r

ScheduleMoves(p, e) ==
    \/ e.contract \notin {Unsent, plot[p].contract}
    \/ /\ e.term \notin {Unsent, Null}
       /\ row[p].state # "live" \/ e.term.years # row[p].years

UpdatePlot(p, e) ==
    /\ Live(p)
    /\ LET before == [plot[p] EXCEPT
               !.contract = IF e.contract = Unsent THEN @ ELSE e.contract,
               !.capacity = CASE e.term = Unsent -> @ [] e.term = Null -> Null
                              [] OTHER -> e.term.capacity]
           saved == IF e.term = Unsent THEN row[p] ELSE SavedRow(row[p], e.term)
           scheduled == IF ScheduleMoves(p, e) THEN Rescheduled(before, saved) ELSE saved
           after == [before EXCEPT !.people = IF e.people = Unsent THEN @ ELSE e.people]
       IN Put(p, after, IF e.people # Unsent /\ after.capacity # Null
                        THEN updateCollectiveBurialCount(after, scheduled) ELSE scheduled)
    /\ UNCHANGED <<timing, today, creation, run>>

deletePlot(p) ==
    /\ Live(p)
    /\ Put(p, [plot[p] EXCEPT !.state = "deleted", !.people = <<>>],
              IF row[p].state = "live" THEN [row[p] EXCEPT !.state = "deleted"] ELSE row[p])
    /\ UNCHANGED <<timing, today, creation, run>>

\* The plot is contracted again, by the office.
restoreContractPlot(p) ==
    /\ plot[p].state = "terminated"
    /\ plot' = [plot EXCEPT ![p].state = "active"]
    /\ UNCHANGED <<row, timing, today, creation, run>>

-----------------------------------------------------------------------------
(* The screen of collective burials *)

\* A row that is deleted is written over; what the columns not named hold is kept.
Restarted(r, term, contract) ==
    [r EXCEPT !.state = "live", !.capacity = term.capacity, !.years = term.years,
              !.count = 0, !.reached = Null, !.status = "pending",
              !.date = resolveBillingScheduledDate(contract, term.years, Null)]

ReadForCreate(p, term) ==
    /\ creation[p] = Null /\ Live(p) /\ row[p].state # "live"
    /\ creation' = [creation EXCEPT ![p] =
           [term |-> term, contract |-> plot[p].contract, row |-> row[p].state]]
    /\ UNCHANGED <<plot, row, timing, today, run>>

\* A row that was missing and is there by now: the unique key refuses the insertion.
createCollectiveBurial(p) ==
    /\ creation[p] # Null
    /\ creation' = [creation EXCEPT ![p] = Null]
    /\ row' = IF creation[p].row = "none" /\ row[p].state # "none" THEN row
              ELSE [row EXCEPT ![p] = updateCollectiveBurialCount(
                        plot[p], Restarted(@, creation[p].term, creation[p].contract))]
    /\ UNCHANGED <<plot, timing, today, run>>

updateCollectiveBurial(p, e) ==
    /\ row[p].state = "live"
    /\ LET years == IF e.years = Unsent THEN row[p].years ELSE e.years
           r == [row[p] EXCEPT
                   !.capacity = IF e.capacity = Unsent THEN @ ELSE e.capacity,
                   !.years = years,
                   !.reached = IF e.reached = Unsent THEN @ ELSE e.reached,
                   !.status = IF e.status = Unsent THEN @ ELSE e.status,
                   !.manual = IF e.date = Unsent THEN @ ELSE e.date # Null]
       IN row' = [row EXCEPT ![p] = [r EXCEPT !.date =
               CASE e.date # Unsent -> e.date
                 [] e.date = Unsent /\ years # row[p].years /\ ~row[p].manual -> RuleDate(plot[p], r)
                 [] OTHER -> row[p].date]]
    /\ UNCHANGED <<plot, timing, today, creation, run>>

updateBillingStatus(p, s) ==
    /\ row[p].state = "live"
    /\ row' = [row EXCEPT ![p].status = s]
    /\ UNCHANGED <<plot, timing, today, creation, run>>

deleteCollectiveBurial(p) ==
    /\ row[p].state = "live"
    /\ row' = [row EXCEPT ![p].state = "deleted"]
    /\ UNCHANGED <<plot, timing, today, creation, run>>

syncBurialCount(p) ==
    /\ row[p].state = "live"
    /\ row' = [row EXCEPT ![p] = updateCollectiveBurialCount(plot[p], @)]
    /\ UNCHANGED <<plot, timing, today, creation, run>>

-----------------------------------------------------------------------------
(* Scripts *)

importCollectiveBurials(p, term, overwrite) ==
    /\ plot[p].state = "active"
    /\ row[p].state = "live" => overwrite
    /\ row' = [row EXCEPT ![p] = updateCollectiveBurialCount(
                   plot[p], Restarted(@, term, plot[p].contract))]
    /\ UNCHANGED <<plot, timing, today, creation, run>>

backfillCollectiveBurialSchedule(p) ==
    /\ Live(p) /\ row[p].state = "live" /\ row[p].date = Null
    /\ row' = [row EXCEPT ![p].date =
                   resolveBillingScheduledDate(plot[p].contract, row[p].years, Null)]
    /\ UNCHANGED <<plot, timing, today, creation, run>>

\* The year the notes of a plot of trees amount to by the latest burial.
CalculatedYear(p, n) ==
    LET dates == {x.date : x \in ToSet(Dated(plot[p].people))}
    IN IF dates = {} \/ plot[p].contract = Null THEN Null
       ELSE Year(addYearsUtc(CHOOSE d \in dates : \A e \in dates : e <= d, n.years))

AtLeastOne(people) == IF people = <<>> THEN 1 ELSE Len(people)

\* Written in October, whatever the setting is.  A year that contradicts the notes
\* is left open and waits for the office.
Enrolled(p, n) ==
    LET people == plot[p].people
        capacity == IF n.vault \/ n.bodies = Null THEN AtLeastOne(people) ELSE n.bodies
        mismatch == ~n.vault /\ n.year # Null /\ CalculatedYear(p, n) \notin {Null, n.year}
        nth == IF n.year = Null THEN findNthBurialDate(people, n.bodies) ELSE Null
    IN [NoRow EXCEPT
          !.state = "live", !.capacity = capacity, !.count = Len(people), !.years = n.years,
          !.reached = nth, !.manual = n.year # Null, !.onCapacity = n.year = Null,
          !.date = IF mismatch THEN Null
                   ELSE IF n.year # Null THEN releaseDateInYear(n.year, "october")
                   ELSE IF nth # Null
                   THEN releaseDateInYear(Year(addYearsUtc(nth, n.years)), "october")
                   ELSE Null]

enroll(p, n) ==
    /\ plot[p].state = "active" /\ row[p].state = "none"
    /\ n.year = Null => ~n.vault /\ n.bodies # Null
    /\ Put(p, [plot[p] EXCEPT !.capacity = Enrolled(p, n).capacity], Enrolled(p, n))
    /\ UNCHANGED <<timing, today, creation, run>>

-----------------------------------------------------------------------------
(* Runs over all the plots *)

Becomes(x, r) == run' = [run EXCEPT ![x] = r]
Remaining(x, p) ==
    Becomes(x, IF run[x].todo = {p} THEN Idle ELSE [run[x] EXCEPT !.todo = @ \ {p}])
Listed(x, r) == Becomes(x, IF r.todo = {} THEN Idle ELSE r)

ReadSettings(x, next) ==
    /\ run[x] = Idle
    /\ Becomes(x, [kind |-> "store", previous |-> timing, next |-> next])
    /\ UNCHANGED <<plot, row, timing, today, creation>>

updateCollectiveBurialSettings(x) ==
    /\ run[x].kind = "store"
    /\ timing' = run[x].next
    /\ Becomes(x, IF run[x].previous = run[x].next THEN Idle
                  ELSE [run[x] EXCEPT !.kind = "list"])
    /\ UNCHANGED <<plot, row, today, creation>>

\* Pending rows on the former day, with the dates they have now.
ListPending(x) ==
    /\ run[x].kind = "list"
    /\ LET due == {p \in Plot :
                /\ row[p].state = "live" /\ row[p].status = "pending" /\ row[p].date # Null
                /\ row[p].date = releaseDateInYear(Year(row[p].date), run[x].previous)}
       IN Listed(x, [kind |-> "shift", next |-> run[x].next, todo |-> due,
                     date |-> [p \in due |-> row[p].date]])
    /\ UNCHANGED <<plot, row, timing, today, creation>>

\* Written by key: the row may be billed or deleted by now.
shiftPendingReleaseDates(x, p) ==
    /\ run[x].kind = "shift" /\ p \in run[x].todo
    /\ row' = [row EXCEPT ![p].date = releaseDateInYear(Year(run[x].date[p]), run[x].next)]
    /\ Remaining(x, p)
    /\ UNCHANGED <<plot, timing, today, creation>>

Pending(p) == row[p].state = "live" /\ row[p].status = "pending" /\ row[p].date # Null

ListDue(x) ==
    /\ run[x] = Idle /\ isReleaseDayReached(today, timing)
    /\ Listed(x, [kind |-> "release", todo |->
           {p \in Plot : /\ Pending(p) /\ plot[p].state = "active"
                         /\ row[p].date <= today /\ Year(row[p].date) = Year(today)}])
    /\ UNCHANGED <<plot, row, timing, today, creation>>

Releasable(p) == plot[p].state = "active"

releaseDueCollectiveBurials(x, p) ==
    /\ run[x].kind = "release" /\ p \in run[x].todo
    /\ plot' = IF Releasable(p) THEN [plot EXCEPT ![p].state = "terminated"] ELSE plot
    /\ Remaining(x, p)
    /\ UNCHANGED <<row, timing, today, creation>>

getBillingTargets(x) ==
    /\ run[x] = Idle
    /\ Listed(x, [kind |-> "bill", todo |->
           {p \in Plot : Pending(p) /\ Live(p) /\ row[p].date <= today}])
    /\ UNCHANGED <<plot, row, timing, today, creation>>

\* Written by key as well.
processBilling(x, p) ==
    /\ run[x].kind = "bill" /\ p \in run[x].todo
    /\ row' = [row EXCEPT ![p].status = "billed"]
    /\ Remaining(x, p)
    /\ UNCHANGED <<plot, timing, today, creation>>

\* The server or the script stops in the middle of a run.
Stop(x) ==
    /\ run[x] # Idle
    /\ Becomes(x, Idle)
    /\ UNCHANGED <<plot, row, timing, today, creation>>

Tick ==
    /\ \E d \in Clock : d > today /\ today' = d
    /\ UNCHANGED <<plot, row, timing, creation, run>>

-----------------------------------------------------------------------------
PlotEdit == [contract : {Unsent, Null} \cup ContractDate, term : {Unsent, Null} \cup Terms,
             people : {Unsent} \cup Roster]
\* A request that edits one plot without saying anything of its date or its status.
Follow(p) ==
    \/ \E people \in Roster : UpdatePlot(p, [contract |-> Unsent, term |-> Unsent, people |-> people])
    \/ syncBurialCount(p)

PlotScreen(p) ==
    \/ \E contract \in {Null} \cup ContractDate, term \in {Null} \cup Terms, people \in Roster :
           CreatePlot(p, contract, term, people)
    \/ \E e \in PlotEdit : UpdatePlot(p, e)
    \/ deletePlot(p)
    \/ restoreContractPlot(p)

CollectiveScreen(p) ==
    \/ \E term \in Terms : ReadForCreate(p, term)
    \/ createCollectiveBurial(p)
    \/ \E e \in RowEdits : updateCollectiveBurial(p, e)
    \/ \E s \in Status : updateBillingStatus(p, s)
    \/ deleteCollectiveBurial(p)
    \/ syncBurialCount(p)

Scripts(p) ==
    \/ \E term \in Terms, overwrite \in BOOLEAN : importCollectiveBurials(p, term, overwrite)
    \/ backfillCollectiveBurialSchedule(p)
    \/ \E n \in Noted : enroll(p, n)

Runs(x) ==
    \/ \E next \in Timing : ReadSettings(x, next)
    \/ updateCollectiveBurialSettings(x)
    \/ ListPending(x)
    \/ \E p \in Plot : shiftPendingReleaseDates(x, p)
    \/ ListDue(x)
    \/ \E p \in Plot : releaseDueCollectiveBurials(x, p)
    \/ getBillingTargets(x)
    \/ \E p \in Plot : processBilling(x, p)
    \/ Stop(x)

Next ==
    \/ \E p \in Plot : PlotScreen(p) \/ CollectiveScreen(p) \/ Scripts(p)
    \/ \E x \in Run : Runs(x)
    \/ Tick

Spec == Init /\ [][Next]_vars

-----------------------------------------------------------------------------
(* Properties *)

RunState ==
    {Idle} \cup [kind : {"store", "list"}, previous : Timing, next : Timing]
      \cup [kind : {"release", "bill"}, todo : SUBSET Plot]

\* Rows and plots stay records of the schema, a live row has a capacity and a number of
\* years whoever wrote it, and a run knows what it has left to do.
TypeOK ==
    /\ plot \in [Plot -> [state : {"none", "active", "terminated", "deleted"},
                          contract : Nat \cup {Null}, capacity : Nat \cup {Null},
                          people : Roster \cup {<<>>}]]
    /\ row \in [Plot -> Row]
    /\ \A p \in Plot : row[p].state = "live" => row[p].capacity >= 1 /\ row[p].years >= 1
    /\ timing \in Timing /\ today \in Clock
    /\ \A x \in Run : run[x] \in RunState \/ run[x].kind = "shift"

\* A date the office has chosen by hand outlives every request about the plot and every
\* recount, also when the row is taken away and comes back; only the screen of collective
\* burials, an import, a change of the yearly day and the backfill of missing dates move
\* it.  Once a row is billed, neither burials nor recounts move the date its invoice
\* rests on, whatever has happened to the row before.
ChosenDatesStand ==
    [][\A p \in Plot : row'[p].date # row[p].date =>
         /\ row[p].manual => ~(PlotScreen(p) \/ syncBurialCount(p))
         /\ row[p].status # "pending" => ~Follow(p)]_vars

\* A recount made twice is a recount made once: in no state the rows can get into does
\* a second recount take back what the first has found.
SyncSettles ==
    \A p \in Plot :
      LET once == updateCollectiveBurialCount(plot[p], row[p])
      IN updateCollectiveBurialCount(plot[p], once) = once

\* What the schema says of the number of people, "counted from the buried persons".
CountIsOfPeople ==
    \A p \in Plot : Live(p) /\ row[p].state = "live" => row[p].count = Len(plot[p].people)

\* What the schema says of the rows that wait for a number of people: until it is reached
\* there is no date, and it does not go back to the contract's.
WaitsUntilFull ==
    \A p \in Plot :
      row[p].state = "live" /\ row[p].onCapacity /\ ~row[p].manual
        /\ row[p].count < row[p].capacity => row[p].date = Null
=============================================================================
