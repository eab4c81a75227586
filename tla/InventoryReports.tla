--------------------------- MODULE InventoryReports ---------------------------
(***************************************************************************)
(* What the inventory screens, the monthly report and the lists of vacant   *)
(* plots say of the rows of PlotInventory.  Each service reads the plots    *)
(* and counts them its own way: by period, by section, by area, by row of   *)
(* the form the tax adviser gets.                                           *)
(*                                                                         *)
(* A plot sold in part counts as used for the share of its area: Parts      *)
(* parts make a whole plot.  Searching, sorting and paging are left out.    *)
(***************************************************************************)
EXTENDS PlotInventory

CONSTANTS
    PERIODS,        \* the periods the code knows
    Other,          \* the bucket of sections without a period
    SectionMaster,  \* the active section masters: the period of a name, free text
    TypeOf,         \* the kind of plot a section name stands for
    Block,          \* blocks of the monthly report, each a set of rows
    ByAreaName,     \* the row of a section name
    BySqm,          \* for the names split by area, the row of each area
    Naming,         \* section names the plots may have
    Parts           \* a multiple of every area

\* A row of the form is in one block of it.
ASSUME ReportsAssumption ==
    /\ IsFiniteSet(Physical) /\ IsFiniteSet(PERIODS) /\ IsFiniteSet(Block)
    /\ \A b \in Block : Other \notin b /\ \A r \in b, c \in Block : r \in c => b = c
    /\ \A n \in DOMAIN ByAreaName : \E b \in Block : ByAreaName[n] \in b
    /\ \A n \in DOMAIN BySqm : \A a \in DOMAIN BySqm[n] : \E b \in Block : BySqm[n][a] \in b
    /\ Parts \in Nat \ {0}
    /\ \A a \in Area \cup (Resize \ {Keep}) \cup {Legacy[p].area : p \in DOMAIN Legacy} :
         Parts % a = 0

Registered == {p \in Physical : land[p].exists}

resolvePeriod(name) ==
    IF name \in PERIODS THEN name
    ELSE IF name \in DOMAIN SectionMaster THEN SectionMaster[name] ELSE Other

-----------------------------------------------------------------------------
(* How much of a plot is used *)

\* Mistake, repaired by #205: more than a whole plot may be used.
UnclampedPortion(contracted, area) == (contracted * Parts) \div area

\* At most the whole plot, where migrated or resized rows have more on it.
clampedUsedPortion(contracted, area) ==
    IF contracted >= area THEN Parts ELSE contracted * (Parts \div area)

usedPortion(p) ==
    CASE land[p].status = "sold_out" -> Parts
      [] land[p].status = "partially_sold" ->
           clampedUsedPortion(Contracted(contract, p), land[p].area)
      [] land[p].status = "available" -> 0

UsedArea(p) ==
    CASE land[p].status = "sold_out" -> land[p].area
      [] land[p].status = "partially_sold" ->
           (IF Contracted(contract, p) < land[p].area THEN Contracted(contract, p)
                                                      ELSE land[p].area)
      [] land[p].status = "available" -> 0

Less(a, b) == IF a >= b THEN a - b ELSE 0

Round(parts) == (2 * parts + Parts) \div (2 * Parts)

\* A line of a screen for the plots S: what is left is what the rounded use leaves.
finalizeRow(S) ==
    LET used == Round(SumOf([p \in S |-> usedPortion(p)]))
    IN  [total |-> Cardinality(S), used |-> used, remaining |-> Less(Cardinality(S), used)]

RemainingArea(S) ==
    Less(SumOf([p \in S |-> land[p].area]), SumOf([p \in S |-> UsedArea(p)]))

-----------------------------------------------------------------------------
(* The screens, for plots of the given section names *)

getOverallSummary ==
    [row |-> finalizeRow(Registered), area |-> RemainingArea(Registered)]

\* Every known period has a line, the others share one if there are any.
getPeriodSummaries(name) ==
    LET plots(d) == {p \in Registered : resolvePeriod(name[p]) = d}
    IN  [d \in PERIODS \cup {x \in {Other} : plots(x) # {}} |-> finalizeRow(plots(d))]

getSectionInventory(name) ==
    [s \in {name[p] : p \in Registered} |->
       finalizeRow({p \in Registered : name[p] = s})]

getAreaInventory(name) ==
    LET key(p) == <<resolvePeriod(name[p]), land[p].area, TypeOf[name[p]]>>
        plots(k) == {p \in Registered : key(p) = k}
    IN  [k \in {key(p) : p \in Registered} |->
           [row |-> finalizeRow(plots(k)), area |-> RemainingArea(plots(k))]]

\* A name that is split by area has no row for the other areas.
findRow(name, area) ==
    IF name \in DOMAIN BySqm
    THEN (IF area \in DOMAIN BySqm[name] THEN BySqm[name][area] ELSE Other)
    ELSE IF name \in DOMAIN ByAreaName THEN ByAreaName[name] ELSE Other

\* The form, with the block for the plots without a row: the totals of the blocks.
getMonthlyReport(name) ==
    LET inRow(r) == {p \in Registered : findRow(name[p], land[p].area) = r}
        inBlock(b) == UNION {inRow(r) : r \in b}
    IN  [b \in Block \cup {x \in {{Other}} : inRow(Other) # {}} |-> finalizeRow(inBlock(b))]

\* The contracts the lists of vacant plots look for.
\* Mistake, repaired by #209: those that stand for empty plots, and ended ones.
AllocatedByAnyone(p) ==
    {c \in ContractId : contract[c].state = "live" /\ contract[c].on = p}

Allocated(p) ==
    {c \in ContractId : /\ contract[c].state = "live" /\ contract[c].on = p
                        /\ contract[c].status = "active"}

VacantArea(p) == Less(land[p].area, AreaOf(contract, Allocated(p)))

getVacantPlots ==
    LET S == {p \in Registered : VacantArea(p) > 0} IN [p \in S |-> VacantArea(p)]

\* The same plots by period, whatever period their section is given.
groupVacantLedger(name) ==
    LET S == DOMAIN getVacantPlots
    IN  [d \in PERIODS \cup {resolvePeriod(name[p]) : p \in S} |->
           {p \in S : resolvePeriod(name[p]) = d}]

getPlotInventory(p) ==
    LET allocated == Contracted(contract, p)
    IN  IF allocated = 0 THEN "available"
        ELSE IF land[p].area > allocated THEN "partially_sold" ELSE "sold_out"

-----------------------------------------------------------------------------
(* Properties *)

Column(f, field) == SumOf([x \in DOMAIN f |-> f[x][field]])

\* A screen's lines cover every plot once; no line has more used than it has plots;
\* and what they count as used differs from the summary by their rounding only.
AddsUp(lines) ==
    LET all == getOverallSummary.row
        apart == 2 * Column(lines, "used") - 2 * all.used
    IN  /\ Column(lines, "total") = all.total
        /\ \A x \in DOMAIN lines : lines[x].used + lines[x].remaining = lines[x].total
        /\ -(Cardinality(DOMAIN lines) + 1) <= apart
        /\ apart <= Cardinality(DOMAIN lines) + 1

KnownPeriods == \A n \in DOMAIN SectionMaster : SectionMaster[n] \in PERIODS \cup {Other}

\* Whatever was sold, ended, resized or restated by hand, every screen counts the
\* same plots, and the same use of them (monthlyReportService.ts, 103-109).
ScreensAgree ==
    \A name \in Naming :
      LET areas == getAreaInventory(name)
          ledger == groupVacantLedger(name)
      IN  /\ KnownPeriods => AddsUp(getPeriodSummaries(name))
          /\ AddsUp(getSectionInventory(name))
          /\ AddsUp([k \in DOMAIN areas |-> areas[k].row])
          /\ AddsUp(getMonthlyReport(name))
          /\ Column(areas, "area") = getOverallSummary.area
          /\ UNION {ledger[d] : d \in DOMAIN ledger} = DOMAIN getVacantPlots

Current(p) == land[p].status = StatusFor(land, contract, p)

\* A plot on the list of vacant plots can be sold to the area listed, and nothing
\* else can be sold; where its sales status was not set by hand and its size not
\* changed, the status, the plot's own screen and the summary say the same
\* (vacantPlotService.ts, 7-10).
VacantIsForSale ==
    /\ \A p \in Registered :
         /\ VacantArea(p) > 0 => validateContractArea(land, contract, p, VacantArea(p))
         /\ ~validateContractArea(land, contract, p, VacantArea(p) + 1)
         /\ getPlotInventory(p) = StatusFor(land, contract, p)
         /\ Current(p) => (p \in DOMAIN getVacantPlots <=> land[p].status # "sold_out")
    /\ (\A p \in Registered : Current(p)) =>
         SumOf(getVacantPlots) = getOverallSummary.area

\* The lines by period add up to the summary (inventoryService.ts, 18 and 228).
PeriodsAddUp ==
    \A name \in Naming :
      Column(getPeriodSummaries(name), "total") = getOverallSummary.row.total
=============================================================================
