---------------------------- MODULE PlotInventory ----------------------------
(***************************************************************************)
(* The land: physical plots, the contracts that take their area, and the   *)
(* sales status derived from them.  Every handler that changes a contract  *)
(* runs in one Serializable transaction, which a retry or a 409 follows;   *)
(* one action is one such transaction.  deletePlot and createPlotContract  *)
(* look their row up before it, and act the same whatever has changed      *)
(* since: rows are never removed, and deleting twice deletes once.         *)
(*                                                                         *)
(* Areas are whole units; the rounding of decimals is left out.  Who holds *)
(* a contract, its fees and its invoices are in the other modules.         *)
(***************************************************************************)
EXTENDS Sums

CONSTANTS
    Physical,      \* plot numbers
    ContractId,    \* bound on the contracts ever made
    Area,          \* areas in requests
    Legacy,        \* migrated plots, with their area and contract status
    Resize,        \* areas updatePlot is asked to give a physical plot
    Restate,       \* sales statuses updatePlot is asked to give it
    Keep           \* an update that does not mention a field

Status == {"available", "partially_sold", "sold_out"}
ContractStatus == {"vacant", "active", "terminated"}

ASSUME InventoryAssumption ==
    /\ IsFiniteSet(ContractId)
    /\ Area \subseteq Nat \ {0}
    /\ Keep \notin Nat /\ Keep \notin Status
    /\ Resize \subseteq (Nat \ {0}) \cup {Keep}
    /\ Restate \subseteq Status \cup {Keep}
    /\ DOMAIN Legacy \subseteq Physical
    /\ \A p \in DOMAIN Legacy :
         /\ Legacy[p].contract \in ContractId /\ Legacy[p].area \in Nat \ {0}
         /\ Legacy[p].status \in ContractStatus
    /\ \A p, q \in DOMAIN Legacy : Legacy[p].contract = Legacy[q].contract => p = q

VARIABLES
    land,      \* the PhysicalPlot rows, by plot number
    contract   \* the ContractPlot rows

vars == <<land, contract>>

LandRow == [exists : BOOLEAN, area : Nat, status : Status]
ContractRow == [state : {"none", "live", "deleted"}, on : Physical \cup {Keep},
                area : Nat, status : ContractStatus]

NoContract == [state |-> "none", on |-> Keep, area |-> 0, status |-> "vacant"]
NoLand == [exists |-> FALSE, area |-> 0, status |-> "available"]

TypeOK ==
    /\ land \in [Physical -> LandRow]
    /\ contract \in [ContractId -> ContractRow]

-----------------------------------------------------------------------------
(* Areas and the derived status, on given contract rows *)

AreaOf(C, S) == SumOf([c \in S |-> C[c].area])

\* Terminated contracts and the vacant ones that stand for empty plots take
\* no area.
Active(C, p) ==
    {c \in ContractId : C[c].state = "live" /\ C[c].on = p /\ C[c].status = "active"}

Contracted(C, p) == AreaOf(C, Active(C, p))

calculateAvailableArea(L, C, p) ==
    IF Contracted(C, p) <= L[p].area THEN L[p].area - Contracted(C, p) ELSE 0

StatusFor(L, C, p) ==
    LET available == calculateAvailableArea(L, C, p)
    IN  IF available = L[p].area THEN "available"
        ELSE IF available > 0 THEN "partially_sold" ELSE "sold_out"

validateContractArea(L, C, p, requested) ==
    0 < requested /\ requested + Contracted(C, p) <= L[p].area

updatePhysicalPlotStatus(L, C, S) ==
    [p \in Physical |-> IF p \in S THEN [L[p] EXCEPT !.status = StatusFor(L, C, p)]
                                   ELSE L[p]]

-----------------------------------------------------------------------------
\* Migration gives each plot one contract over its whole area, and marks the
\* plot sold where the contract is active.
Init ==
    /\ land = [p \in Physical |->
         IF p \in DOMAIN Legacy
         THEN [exists |-> TRUE, area |-> Legacy[p].area,
               status |-> IF Legacy[p].status = "active" THEN "sold_out" ELSE "available"]
         ELSE NoLand]
    /\ contract = [c \in ContractId |->
         IF \E p \in DOMAIN Legacy : Legacy[p].contract = c
         THEN LET p == CHOOSE p \in DOMAIN Legacy : Legacy[p].contract = c
              IN  [state |-> "live", on |-> p, area |-> Legacy[p].area,
                   status |-> Legacy[p].status]
         ELSE NoContract]

NewLand(area) == [exists |-> TRUE, area |-> area, status |-> "available"]

CreatePhysicalPlot(p, area) ==
    /\ ~land[p].exists
    /\ land' = [land EXCEPT ![p] = NewLand(area)]
    /\ UNCHANGED contract

\* The numbers of a range that are registered already are skipped.
CreatePhysicalPlotsBulk(S, area) ==
    /\ land' = [p \in Physical |-> IF p \in S /\ ~land[p].exists
                                   THEN NewLand(area) ELSE land[p]]
    /\ UNCHANGED contract

NewContract(p, area) ==
    [state |-> "live", on |-> p, area |-> area, status |-> "active"]

\* Sell area sale[p] of each plot p, which exists in L: check each plot, insert
\* its contract, refresh its status.  The plots differ, so the order is free.
Sell(L, sale) ==
    LET S == DOMAIN sale
    IN  /\ \A p \in S : L[p].exists /\ validateContractArea(L, contract, p, sale[p])
        /\ \E id \in [S -> {c \in ContractId : contract[c].state = "none"}] :
             /\ \A p, q \in S : id[p] = id[q] => p = q
             /\ LET C == [c \in ContractId |->
                            IF \E p \in S : id[p] = c
                            THEN LET p == CHOOSE p \in S : id[p] = c
                                 IN  NewContract(p, sale[p])
                            ELSE contract[c]]
                IN  /\ contract' = C
                    /\ land' = updatePhysicalPlotStatus(L, C, S)

\* The first plot p exists or is made on the way, with an area of its own; the
\* others of the purchase exist and must not be marked sold out.
CreatePlot(p, area, sale) ==
    /\ p \in DOMAIN sale
    /\ (area # Keep) => ~land[p].exists
    /\ \A q \in DOMAIN sale \ {p} : land[q].status # "sold_out"
    /\ Sell(IF area = Keep THEN land ELSE [land EXCEPT ![p] = NewLand(area)], sale)

CreatePlotContract(p, area) == Sell(land, [q \in {p} |-> area])

\* The check of updatePlot: all live contracts of the plot count, whatever
\* their status, against the area the plot had before this update.
OtherContracts(c) ==
    {d \in ContractId : d # c /\ contract[d].state = "live" /\ contract[d].on = contract[c].on}

UpdateFits(c, area) ==
    AreaOf(contract, OtherContracts(c)) + area <= land[contract[c].on].area

Resized(p, size, status) ==
    [land EXCEPT ![p].area = IF size = Keep THEN @ ELSE size,
                 ![p].status = IF status = Keep THEN @ ELSE status]

\* Mistake: a refresh on growth only.
RefreshedOnGrowth(c, area) ==
    IF area # Keep /\ area > contract[c].area THEN {contract[c].on} ELSE {}

\* The refreshed plots: the contract's, where its area has changed.
Refreshed(c, area) ==
    IF area # Keep /\ area # contract[c].area THEN {contract[c].on} ELSE {}

UpdatePlot(c, size, status, area) ==
    /\ contract[c].state = "live"
    /\ area # Keep => UpdateFits(c, area)
    /\ contract' = [contract EXCEPT ![c].area = IF area = Keep THEN @ ELSE area]
    /\ land' = updatePhysicalPlotStatus(Resized(contract[c].on, size, status),
                                        contract', Refreshed(c, area))

DeletePlot(c) ==
    /\ contract[c].state = "live"
    /\ contract' = [contract EXCEPT ![c].state = "deleted"]
    /\ land' = updatePhysicalPlotStatus(land, contract', {contract[c].on})

TerminateContract(c) ==
    /\ contract[c].state = "live" /\ contract[c].status = "active"
    /\ contract' = [contract EXCEPT ![c].status = "terminated"]
    /\ land' = updatePhysicalPlotStatus(land, contract', {contract[c].on})

\* All active contracts of one contractor; any active ones may be one's.
TerminateAllByContractor(S) ==
    /\ S # {}
    /\ \A c \in S : contract[c].state = "live" /\ contract[c].status = "active"
    /\ contract' = [c \in ContractId |->
                      IF c \in S THEN [contract[c] EXCEPT !.status = "terminated"]
                                 ELSE contract[c]]
    /\ land' = updatePhysicalPlotStatus(land, contract', {contract[c].on : c \in S})

\* Mistake, repaired by #270: the area is not checked again.
RestoreUnchecked(c) ==
    /\ contract[c].state = "live" /\ contract[c].status = "terminated"
    /\ contract' = [contract EXCEPT ![c].status = "active"]
    /\ land' = updatePhysicalPlotStatus(land, contract', {contract[c].on})

\* The contract's own area does not count: it is not active.
RestoreContract(c) ==
    /\ contract[c].state = "live" /\ contract[c].status = "terminated"
    /\ validateContractArea(land, contract, contract[c].on, contract[c].area)
    /\ contract' = [contract EXCEPT ![c].status = "active"]
    /\ land' = updatePhysicalPlotStatus(land, contract', {contract[c].on})

Next ==
    \/ \E p \in Physical, a \in Area : CreatePhysicalPlot(p, a)
    \/ \E S \in SUBSET Physical, a \in Area : CreatePhysicalPlotsBulk(S, a)
    \/ \E p \in Physical, a \in Area \cup {Keep}, S \in SUBSET Physical :
         \E sale \in [S -> Area] : CreatePlot(p, a, sale)
    \/ \E p \in Physical, a \in Area : CreatePlotContract(p, a)
    \/ \E c \in ContractId, size \in Resize, status \in Restate, a \in Area \cup {Keep} :
         UpdatePlot(c, size, status, a)
    \/ \E c \in ContractId : DeletePlot(c) \/ TerminateContract(c) \/ RestoreContract(c)
    \/ \E S \in SUBSET ContractId : TerminateAllByContractor(S)

Spec == Init /\ [][Next]_vars

-----------------------------------------------------------------------------
(* Properties *)

\* The active contracts of a plot fit in it.
Fits(p) == Contracted(contract, p) <= land[p].area

\* Whatever updatePlot does to physical plots, a step that gives a plot's
\* contracts more area leaves them within the plot's area as it was before, or
\* as it was made in that step.
GrowthFits ==
    [][\A p \in Physical : Contracted(contract', p) > Contracted(contract, p) =>
          Contracted(contract', p) <= (IF land[p].exists THEN land[p] ELSE land'[p]).area]_vars

\* A step that changes the area taken from a plot leaves its sales status
\* derived from it, however stale it was (utils.ts, 168-207).
ChangeSetsStatus ==
    [][\A p \in Physical : Contracted(contract', p) # Contracted(contract, p) =>
          land'[p].status = StatusFor(land', contract', p)]_vars
=============================================================================
