------------------------------ MODULE PlotProofs ------------------------------
(***************************************************************************)
(* What PlotInventory keeps, for any number of plots and contracts and any *)
(* areas: its types, that new area taken from a plot was free before, that *)
(* the sales status follows the area, that a plot on the vacant list can   *)
(* be sold, and that a plot is oversold only once it has been made         *)
(* smaller.  Of InventoryReports, that all screens count the same plots;   *)
(* of CollectiveBurials, that recounts settle and that dates chosen by     *)
(* hand stand.                                                             *)
(***************************************************************************)
EXTENDS InventoryReports, Burials, DataFacts

Rows == [ContractId -> ContractRow]
Lands == [Physical -> LandRow]

-----------------------------------------------------------------------------
(* Areas *)

\* Areas of finitely many contracts sum to a natural number.
LEMMA AreaType ==
    ASSUME NEW C \in Rows, NEW S \in SUBSET ContractId
    PROVE  AreaOf(C, S) \in Nat
<1>1. IsFiniteSet(S)
  BY InventoryAssumption, FS_Subset
<1>2. [c \in S |-> C[c].area] \in [S -> Nat]
  BY DEF Rows, ContractRow
<1> QED
  BY <1>1, <1>2, SumType DEF AreaOf

\* More contracts take more area.
LEMMA AreaMonotone ==
    ASSUME NEW C \in Rows, NEW T \in SUBSET ContractId, NEW S \in SUBSET T
    PROVE  AreaOf(C, S) <= AreaOf(C, T)
<1> DEFINE f == [c \in T |-> C[c].area]
           g == [c \in S |-> C[c].area]
<1>1. IsFiniteSet(T)
  BY InventoryAssumption, FS_Subset
<1>2. f \in [T -> Nat] /\ g \in [S -> Nat]
  BY DEF Rows, ContractRow
<1>3. \A c \in S : g[c] <= f[c]
  BY <1>2
<1>4. SumOf(g) <= SumOf(f)
  <2> HIDE DEF f, g
  <2> QED
    BY <1>1, <1>2, <1>3, SumMonotone
<1> QED
  BY <1>4 DEF AreaOf

\* The area of a set with one contract more.
LEMMA AreaInsert ==
    ASSUME NEW C \in Rows, NEW S \in SUBSET ContractId, NEW c \in S
    PROVE  AreaOf(C, S) = AreaOf(C, S \ {c}) + C[c].area
<1> DEFINE f == [d \in S |-> C[d].area]
<1>1. IsFiniteSet(S)
  BY InventoryAssumption, FS_Subset
<1>2. f \in [S -> Nat]
  BY DEF Rows, ContractRow
<1>3. SumOf(f) = SumOf([d \in S \ {c} |-> f[d]]) + f[c]
  <2> HIDE DEF f
  <2> QED
    BY <1>1, <1>2, SumInsert
<1>4. [d \in S \ {c} |-> f[d]] = [d \in S \ {c} |-> C[d].area]
  OBVIOUS
<1> QED
  BY <1>3, <1>4 DEF AreaOf

\* Contracts whose areas are the same take the same area.
LEMMA AreaSame ==
    ASSUME NEW C, NEW D, NEW S, \A c \in S : C[c].area = D[c].area
    PROVE  AreaOf(C, S) = AreaOf(D, S)
BY DEF AreaOf

\* The area taken from a plot is one,
LEMMA ContractedType ==
    ASSUME NEW C \in Rows, NEW p
    PROVE  Contracted(C, p) \in Nat
BY AreaType DEF Contracted, Active

\* the derived status is a status,
LEMMA StatusType ==
    ASSUME NEW L, NEW C, NEW p
    PROVE  StatusFor(L, C, p) \in Status
BY DEF StatusFor, Status

\* and a refresh of statuses keeps the rows of the land.
LEMMA RefreshType ==
    ASSUME NEW L \in Lands, NEW C, NEW S
    PROVE  /\ updatePhysicalPlotStatus(L, C, S) \in Lands
           /\ \A p \in Physical :
                /\ updatePhysicalPlotStatus(L, C, S)[p].area = L[p].area
                /\ updatePhysicalPlotStatus(L, C, S)[p].exists = L[p].exists
BY StatusType DEF updatePhysicalPlotStatus, Lands, LandRow

\* A refreshed plot has the status derived from its contracts.
LEMMA RefreshSets ==
    ASSUME NEW L \in Lands, NEW C, NEW S, NEW p \in S, p \in Physical
    PROVE  LET M == updatePhysicalPlotStatus(L, C, S)
           IN  M[p].status = StatusFor(M, C, p)
<1> DEFINE M == updatePhysicalPlotStatus(L, C, S)
<1>1. M[p].status = StatusFor(L, C, p)
  BY DEF updatePhysicalPlotStatus, Lands, LandRow
<1>2. M[p].area = L[p].area
  BY RefreshType
<1>3. StatusFor(M, C, p) = StatusFor(L, C, p)
  BY <1>2 DEF StatusFor, calculateAvailableArea
<1> QED
  BY <1>1, <1>3
-----------------------------------------------------------------------------
(* The invariant, and what a step keeps *)

\* A live contract is on a registered plot.
Placed ==
    \A c \in ContractId : contract[c].state = "live" =>
        contract[c].on \in Physical /\ land[contract[c].on].exists

\* A number that is not registered has no area.
Unregistered == \A p \in Physical : ~land[p].exists => land[p].area = 0

IInv == TypeOK /\ Placed /\ Unregistered

Grows(p) ==
    Contracted(contract', p) > Contracted(contract, p) =>
        Contracted(contract', p) <= (IF land[p].exists THEN land[p] ELSE land'[p]).area

Follows(p) ==
    Contracted(contract', p) # Contracted(contract, p) =>
        land'[p].status = StatusFor(land', contract', p)

StepIsSafe ==
    /\ IInv'
    /\ \A p \in Physical : Grows(p) /\ Follows(p)

\* A plot of whose active contracts none changes keeps its contracted area.
LEMMA SameActive ==
    ASSUME NEW C, NEW D, NEW p,
           \A c \in ContractId :
             /\ (c \in Active(C, p) <=> c \in Active(D, p))
             /\ (c \in Active(C, p) => C[c].area = D[c].area)
    PROVE  Contracted(C, p) = Contracted(D, p)
<1>1. Active(C, p) = Active(D, p)
  BY DEF Active
<1>2. \A c \in Active(C, p) : C[c].area = D[c].area
  BY DEF Active
<1> QED
  BY <1>1, <1>2, AreaSame DEF Contracted

\* A step that leaves the contracts alone.
LEMMA SameContracts ==
    ASSUME IInv, UNCHANGED contract, land' \in Lands,
           \A p \in Physical : /\ land[p].exists => land'[p].exists
                               /\ ~land'[p].exists => land'[p].area = 0
    PROVE  StepIsSafe
<1>1. TypeOK'
  BY DEF IInv, TypeOK, Lands
<1>2. Placed' /\ Unregistered'
  BY DEF IInv, Placed, Unregistered
<1>3. \A p \in Physical : Contracted(contract', p) = Contracted(contract, p)
  OBVIOUS
<1>4. \A p \in Physical : Contracted(contract, p) \in Nat
  BY ContractedType DEF IInv, TypeOK, Rows
<1>5. \A p \in Physical : Grows(p) /\ Follows(p)
  BY <1>3, <1>4 DEF Grows, Follows
<1> QED
  BY <1>1, <1>2, <1>5 DEF StepIsSafe, IInv

\* Registering plots takes no area.
LEMMA CreatePhysicalSafe ==
    ASSUME IInv, NEW S \in SUBSET Physical, NEW a \in Area,
           CreatePhysicalPlotsBulk(S, a)
    PROVE  StepIsSafe
<1>1. a \in Nat
  BY InventoryAssumption
<1>2. land' \in Lands
  BY <1>1 DEF CreatePhysicalPlotsBulk, IInv, TypeOK, Lands, LandRow, NewLand, Status
<1>3. \A p \in Physical : /\ land[p].exists => land'[p].exists
                          /\ ~land'[p].exists => land'[p].area = 0
  BY <1>1 DEF CreatePhysicalPlotsBulk, IInv, TypeOK, LandRow, NewLand, Unregistered
<1> QED
  BY <1>2, <1>3, SameContracts DEF CreatePhysicalPlotsBulk

\* Registering one plot is the same.
LEMMA CreateOnePhysicalSafe ==
    ASSUME IInv, NEW p \in Physical, NEW a \in Area, CreatePhysicalPlot(p, a)
    PROVE  StepIsSafe
<1>1. CreatePhysicalPlotsBulk({p}, a)
  BY DEF CreatePhysicalPlot, CreatePhysicalPlotsBulk, IInv, TypeOK
<1> QED
  BY <1>1, CreatePhysicalSafe

-----------------------------------------------------------------------------
(* One contract changes *)

\* The other plots of a contract that changes in place.
LEMMA OtherPlots ==
    ASSUME IInv, NEW c \in ContractId, NEW r \in ContractRow,
           contract[c].state = "live", r.on = contract[c].on,
           contract' = [contract EXCEPT ![c] = r]
    PROVE  /\ contract' \in Rows /\ contract \in Rows
           /\ \A p \in Physical \ {contract[c].on} :
                Contracted(contract', p) = Contracted(contract, p)
<1>1. contract' \in Rows /\ contract \in Rows
  BY DEF IInv, TypeOK, Rows
<1>2. ASSUME NEW p \in Physical \ {contract[c].on}
      PROVE  Contracted(contract', p) = Contracted(contract, p)
  <2>1. \A d \in ContractId :
          /\ (d \in Active(contract', p) <=> d \in Active(contract, p))
          /\ (d \in Active(contract', p) => contract'[d].area = contract[d].area)
    BY <1>1 DEF Active, Rows
  <2>2. \A C, D :
          (\A d \in ContractId :
             /\ (d \in Active(C, p) <=> d \in Active(D, p))
             /\ (d \in Active(C, p) => C[d].area = D[d].area))
          => Contracted(C, p) = Contracted(D, p)
    BY SameActive
  <2> QED
    BY <2>1, <2>2
<1> QED
  BY <1>1, <1>2

\* Refreshing plots of land with the areas it has.
LEMMA RefreshedLand ==
    ASSUME IInv, contract' \in Rows, NEW S,
           land' = updatePhysicalPlotStatus(land, contract', S),
           \A c \in ContractId : contract'[c].state = "live" =>
               contract'[c].on \in Physical /\ land[contract'[c].on].exists
    PROVE  /\ IInv'
           /\ \A p \in Physical \cap S : Follows(p)
<1>1. land \in Lands
  BY DEF IInv, TypeOK, Lands
<1>2. /\ land' \in Lands
      /\ \A p \in Physical : land'[p].area = land[p].area /\ land'[p].exists = land[p].exists
  BY <1>1, RefreshType
<1>3. IInv'
  BY <1>2 DEF IInv, TypeOK, Placed, Unregistered, Rows, Lands
<1>4. \A p \in Physical \cap S : Follows(p)
  BY <1>1, RefreshSets DEF Follows
<1> QED
  BY <1>3, <1>4

\* Contracts only end, and the plots of those that do are refreshed.
LEMMA EndingSafe ==
    ASSUME IInv, contract' \in Rows, NEW S,
           land' = updatePhysicalPlotStatus(land, contract', S),
           \A c \in ContractId :
             /\ contract'[c].on = contract[c].on
             /\ contract'[c].area = contract[c].area
             /\ contract'[c].state = "live" => contract[c].state = "live"
             /\ \A p : c \in Active(contract', p) => c \in Active(contract, p)
             /\ contract'[c] # contract[c] => contract[c].on \in S
    PROVE  StepIsSafe
<1>1. contract \in Rows
  BY DEF IInv, TypeOK, Rows
<1>2. /\ IInv'
      /\ \A p \in Physical \cap S : Follows(p)
  BY RefreshedLand DEF IInv, Placed
<1>3. ASSUME NEW p \in Physical PROVE Grows(p)
  <2>1. Active(contract', p) \subseteq Active(contract, p)
    BY DEF Active
  <2>2. Active(contract, p) \subseteq ContractId
    BY DEF Active
  <2>3. AreaOf(contract', Active(contract', p)) = AreaOf(contract, Active(contract', p))
    BY <2>1, <2>2, AreaSame
  <2>4. AreaOf(contract, Active(contract', p)) <= AreaOf(contract, Active(contract, p))
    BY <1>1, <2>1, <2>2, AreaMonotone
  <2>5. Contracted(contract', p) \in Nat /\ Contracted(contract, p) \in Nat
    BY <1>1, ContractedType
  <2> QED
    BY <2>3, <2>4, <2>5 DEF Grows, Contracted
<1>4. ASSUME NEW p \in Physical, p \notin S PROVE Follows(p)
  <2>1. \A c \in ContractId : contract'[c] # contract[c] => contract[c].on # p
    BY <1>4
  <2>2. \A c \in ContractId :
          /\ (c \in Active(contract', p) <=> c \in Active(contract, p))
          /\ (c \in Active(contract', p) => contract'[c].area = contract[c].area)
    BY <2>1 DEF Active
  <2>3. Contracted(contract', p) = Contracted(contract, p)
    BY <2>2, SameActive
  <2> QED
    BY <2>3 DEF Follows
<1> QED
  BY <1>2, <1>3, <1>4 DEF StepIsSafe

\* A deleted contract frees its area.
LEMMA DeletePlotSafe ==
    ASSUME IInv, NEW c \in ContractId, DeletePlot(c)
    PROVE  StepIsSafe
<1>1. contract' \in Rows
  BY DEF DeletePlot, IInv, TypeOK, Rows, ContractRow
<1>2. \A d \in ContractId :
        /\ contract'[d].on = contract[d].on
        /\ contract'[d].area = contract[d].area
        /\ contract'[d].state = "live" => contract[d].state = "live"
        /\ \A p : d \in Active(contract', p) => d \in Active(contract, p)
        /\ contract'[d] # contract[d] => contract[d].on \in {contract[c].on}
  BY DEF DeletePlot, IInv, TypeOK, ContractRow, Active
<1> QED
  BY <1>1, <1>2, EndingSafe DEF DeletePlot

\* Terminated contracts free theirs,
LEMMA TerminateAllSafe ==
    ASSUME IInv, NEW S \in SUBSET ContractId, TerminateAllByContractor(S)
    PROVE  StepIsSafe
<1>1. contract' \in Rows
  BY DEF TerminateAllByContractor, IInv, TypeOK, Rows, ContractRow, ContractStatus
<1>2. \A d \in ContractId :
        /\ contract'[d].on = contract[d].on
        /\ contract'[d].area = contract[d].area
        /\ contract'[d].state = "live" => contract[d].state = "live"
        /\ \A p : d \in Active(contract', p) => d \in Active(contract, p)
        /\ contract'[d] # contract[d] => contract[d].on \in {contract[c].on : c \in S}
  BY DEF TerminateAllByContractor, IInv, TypeOK, ContractRow, Active
<1> QED
  BY <1>1, <1>2, EndingSafe DEF TerminateAllByContractor

\* and a single one does.
LEMMA TerminateSafe ==
    ASSUME IInv, NEW c \in ContractId, TerminateContract(c)
    PROVE  StepIsSafe
<1>1. contract' \in Rows
  BY DEF TerminateContract, IInv, TypeOK, Rows, ContractRow, ContractStatus
<1>2. \A d \in ContractId :
        /\ contract'[d].on = contract[d].on
        /\ contract'[d].area = contract[d].area
        /\ contract'[d].state = "live" => contract[d].state = "live"
        /\ \A p : d \in Active(contract', p) => d \in Active(contract, p)
        /\ contract'[d] # contract[d] => contract[d].on \in {contract[c].on}
  BY DEF TerminateContract, IInv, TypeOK, ContractRow, Active
<1> QED
  BY <1>1, <1>2, EndingSafe DEF TerminateContract

\* A restored contract fits in what is free.
LEMMA RestoreSafe ==
    ASSUME IInv, NEW c \in ContractId, RestoreContract(c)
    PROVE  StepIsSafe
<1> DEFINE p == contract[c].on
           r == [contract[c] EXCEPT !.status = "active"]
<1>1. r \in ContractRow /\ r.on = p /\ contract' = [contract EXCEPT ![c] = r]
  BY DEF RestoreContract, IInv, TypeOK, ContractRow, ContractStatus
<1>2. contract[c].state = "live" /\ p \in Physical /\ land[p].exists
  BY DEF RestoreContract, IInv, Placed
<1>3. /\ contract' \in Rows /\ contract \in Rows
      /\ \A q \in Physical \ {p} : Contracted(contract', q) = Contracted(contract, q)
  BY <1>1, <1>2, OtherPlots
<1>4. /\ IInv'
      /\ \A q \in Physical \cap {p} : Follows(q)
  <2>1. \A d \in ContractId : contract'[d].state = "live" =>
               contract'[d].on \in Physical /\ land[contract'[d].on].exists
    BY <1>1 DEF IInv, TypeOK, Placed
  <2> QED
    BY <1>3, <2>1, RefreshedLand DEF RestoreContract
<1>5. Active(contract', p) \ {c} = Active(contract, p) /\ c \in Active(contract', p)
  BY <1>1, <1>2 DEF Active, RestoreContract, IInv, TypeOK
<1>6. Contracted(contract', p) = AreaOf(contract', Active(contract', p) \ {c}) + contract'[c].area
  BY <1>3, <1>5, AreaInsert DEF Contracted, Active
<1>7. AreaOf(contract', Active(contract', p) \ {c}) = Contracted(contract, p)
  <2>1. \A d \in Active(contract, p) : contract'[d].area = contract[d].area
    BY <1>1 DEF Active, IInv, TypeOK
  <2> QED
    BY <1>5, <2>1, AreaSame DEF Contracted
<1>8. contract'[c].area = contract[c].area
  BY <1>1 DEF IInv, TypeOK
<1>9. contract[c].area + Contracted(contract, p) <= land[p].area
  BY DEF RestoreContract, validateContractArea
<1>10. Contracted(contract, p) \in Nat /\ contract[c].area \in Nat
  BY <1>3, ContractedType DEF Rows, ContractRow
<1>11. Grows(p)
  BY <1>2, <1>6, <1>7, <1>8, <1>9, <1>10 DEF Grows
<1>12. \A q \in Physical \ {p} : Grows(q) /\ Follows(q)
  <2>1. \A q \in Physical : Contracted(contract, q) \in Nat
    BY <1>3, ContractedType
  <2> QED
    BY <1>3, <2>1 DEF Grows, Follows
<1> QED
  BY <1>4, <1>11, <1>12 DEF StepIsSafe

\* A resized plot is a plot.
LEMMA ResizedType ==
    ASSUME IInv, NEW p \in Physical, land[p].exists,
           NEW size \in Resize, NEW status \in Restate
    PROVE  /\ Resized(p, size, status) \in Lands
           /\ \A q \in Physical :
                /\ Resized(p, size, status)[q].exists = land[q].exists
                /\ q # p => Resized(p, size, status)[q] = land[q]
<1>1. land \in Lands
  BY DEF IInv, TypeOK, Lands
<1>2. size \in Nat \cup {Keep} /\ status \in Status \cup {Keep}
  BY InventoryAssumption
<1>3. DOMAIN land[p] = {"exists", "area", "status"}
  BY <1>1 DEF Lands, LandRow
<1>4. Resized(p, size, status)[p] =
        [exists |-> land[p].exists,
         area |-> IF size = Keep THEN land[p].area ELSE size,
         status |-> IF status = Keep THEN land[p].status ELSE status]
  BY <1>1, <1>3 DEF Resized, Lands, LandRow
<1>5. \A q \in Physical \ {p} : Resized(p, size, status)[q] = land[q]
  BY <1>1 DEF Resized, Lands
<1>6. Resized(p, size, status)[p] \in LandRow
  BY <1>1, <1>2, <1>4 DEF Lands, LandRow
<1>7. Resized(p, size, status) \in Lands
  BY <1>1, <1>5, <1>6 DEF Resized, Lands
<1>8. Resized(p, size, status)[p].exists = land[p].exists
  BY <1>4
<1> QED
  BY <1>5, <1>7, <1>8

\* A new contract area fits in the plot as it was.
LEMMA UpdatePlotSafe ==
    ASSUME IInv, NEW c \in ContractId, NEW size \in Resize, NEW status \in Restate,
           NEW area \in Area \cup {Keep}, UpdatePlot(c, size, status, area)
    PROVE  StepIsSafe
<1> DEFINE p == contract[c].on
           L == Resized(p, size, status)
           r == [contract[c] EXCEPT !.area = IF area = Keep THEN @ ELSE area]
<1>1. contract[c].state = "live" /\ p \in Physical /\ land[p].exists
  BY DEF UpdatePlot, IInv, Placed
<1>2. area \in Nat \cup {Keep} /\ Keep \notin Nat
  BY InventoryAssumption
<1>3. r \in ContractRow /\ r.on = p /\ contract' = [contract EXCEPT ![c] = r]
  BY <1>2 DEF UpdatePlot, IInv, TypeOK, ContractRow
<1>4. /\ contract' \in Rows /\ contract \in Rows
      /\ \A q \in Physical \ {p} : Contracted(contract', q) = Contracted(contract, q)
  BY <1>1, <1>3, OtherPlots
<1>5. /\ L \in Lands
      /\ \A q \in Physical : /\ L[q].exists = land[q].exists
                             /\ q # p => L[q] = land[q]
  BY <1>1, ResizedType
<1>6. land' = updatePhysicalPlotStatus(L, contract', Refreshed(c, area))
  BY DEF UpdatePlot
<1>7. /\ land' \in Lands
      /\ \A q \in Physical : land'[q].area = L[q].area /\ land'[q].exists = L[q].exists
  BY <1>5, <1>6, RefreshType
<1>8. \A d \in ContractId : /\ contract'[d].state = contract[d].state
                            /\ contract'[d].on = contract[d].on
                            /\ contract'[d].status = contract[d].status
                            /\ d # c => contract'[d] = contract[d]
  BY <1>3 DEF IInv, TypeOK
<1>9. IInv'
  <2>1. TypeOK'
    BY <1>4, <1>7 DEF TypeOK, Rows, Lands
  <2>2. Placed'
    BY <1>5, <1>7, <1>8 DEF IInv, Placed
  <2>3. Unregistered'
    BY <1>1, <1>5, <1>7 DEF IInv, Unregistered
  <2> QED
    BY <2>1, <2>2, <2>3 DEF IInv
<1>10. \A q \in Physical : Contracted(contract, q) \in Nat
  BY <1>4, ContractedType
<1>11. \A q \in Physical \ {p} : Grows(q) /\ Follows(q)
  BY <1>4, <1>10 DEF Grows, Follows
<1>12. CASE area = Keep \/ area = contract[c].area
  <2>1. contract' = contract
    BY <1>12 DEF UpdatePlot, IInv, TypeOK, ContractRow
  <2>2. Grows(p) /\ Follows(p)
    BY <1>1, <1>10, <2>1 DEF Grows, Follows
  <2> QED
    BY <1>9, <1>11, <2>2 DEF StepIsSafe
<1>13. CASE area # Keep /\ area # contract[c].area
  <2>1. p \in Refreshed(c, area)
    BY <1>13 DEF Refreshed
  <2>2. Follows(p)
    BY <1>1, <1>5, <1>6, <2>1, RefreshSets DEF Follows
  <2> DEFINE T == OtherContracts(c) \cup {c}
  <2>3. T \subseteq ContractId /\ Active(contract', p) \subseteq T
    BY <1>8 DEF OtherContracts, Active
  <2>4. T \ {c} = OtherContracts(c) /\ c \in T
    BY DEF OtherContracts
  <2>5. AreaOf(contract', T) = AreaOf(contract', OtherContracts(c)) + contract'[c].area
    BY <1>4, <2>3, <2>4, AreaInsert
  <2>6. AreaOf(contract', OtherContracts(c)) = AreaOf(contract, OtherContracts(c))
    <3>1. \A d \in OtherContracts(c) : contract'[d].area = contract[d].area
      BY <1>8 DEF OtherContracts
    <3> QED
      BY <3>1, AreaSame
  <2>7. contract'[c].area = area
    BY <1>3, <1>13 DEF IInv, TypeOK, ContractRow
  <2>8. AreaOf(contract', T) <= land[p].area
    BY <1>13, <2>5, <2>6, <2>7 DEF UpdatePlot, UpdateFits
  <2>9. Contracted(contract', p) <= AreaOf(contract', T)
    BY <1>4, <2>3, AreaMonotone DEF Contracted
  <2>10. /\ Contracted(contract', p) \in Nat
         /\ AreaOf(contract', T) \in Nat
         /\ land[p].area \in Nat
    BY <1>1, <1>4, <2>3, AreaType, ContractedType DEF IInv, TypeOK, LandRow
  <2>11. Grows(p)
    BY <1>1, <2>8, <2>9, <2>10 DEF Grows
  <2> QED
    BY <1>9, <1>11, <2>2, <2>11 DEF StepIsSafe
<1> QED
  BY <1>12, <1>13

-----------------------------------------------------------------------------
(* Sales *)

\* What a sale on land L does, with the contracts of the sale in one function.
LEMMA SellFacts ==
    ASSUME IInv, NEW L \in Lands, NEW S \in SUBSET Physical, NEW sale \in [S -> Area],
           Sell(L, sale),
           \A p \in Physical : land[p].exists => L[p].exists
    PROVE  /\ contract' \in Rows
           /\ land' = updatePhysicalPlotStatus(L, contract', S)
           /\ \A c \in ContractId : contract'[c].state = "live" =>
                contract'[c].on \in Physical /\ L[contract'[c].on].exists
           /\ \A p \in S : /\ L[p].exists
                           /\ Contracted(contract', p) <= L[p].area
           /\ \A p \in Physical \ S : Contracted(contract', p) = Contracted(contract, p)
<1> DEFINE Free == {c \in ContractId : contract[c].state = "none"}
<1>1. DOMAIN sale = S
  OBVIOUS
<1>2. \A p \in S : /\ L[p].exists /\ sale[p] + Contracted(contract, p) <= L[p].area
  BY <1>1 DEF Sell, validateContractArea
<1>3. PICK id \in [S -> Free] :
        /\ \A p, q \in S : id[p] = id[q] => p = q
        /\ contract' = [c \in ContractId |->
                          IF \E p \in S : id[p] = c
                          THEN LET p == CHOOSE p \in S : id[p] = c
                               IN  NewContract(p, sale[p])
                          ELSE contract[c]]
        /\ land' = updatePhysicalPlotStatus(L, contract', S)
  BY <1>1 DEF Sell
<1>4. ASSUME NEW p \in S
      PROVE  /\ id[p] \in ContractId
             /\ contract[id[p]].state = "none"
             /\ contract'[id[p]] = NewContract(p, sale[p])
             /\ contract'[id[p]].state = "live"
             /\ contract'[id[p]].on = p
             /\ contract'[id[p]].area = sale[p]
             /\ contract'[id[p]].status = "active"
  <2>1. id[p] \in ContractId /\ contract[id[p]].state = "none"
    BY <1>3
  <2>2. (CHOOSE q \in S : id[q] = id[p]) = p
    BY <1>3
  <2>3. contract'[id[p]] = NewContract(p, sale[p])
    BY <1>3, <2>1, <2>2
  <2> QED
    BY <2>1, <2>3 DEF NewContract
<1>5. ASSUME NEW c \in ContractId, \A p \in S : id[p] # c
      PROVE  contract'[c] = contract[c]
  BY <1>3, <1>5
<1>6. \A p \in S : sale[p] \in Nat /\ NewContract(p, sale[p]) \in ContractRow
  BY InventoryAssumption DEF NewContract, ContractRow, ContractStatus
<1>7. contract \in Rows
  BY DEF IInv, TypeOK, Rows
<1>8. contract' \in Rows
  <2>1. \A c \in ContractId : contract'[c] \in ContractRow
    BY <1>4, <1>5, <1>6, <1>7 DEF Rows
  <2> QED
    BY <1>3, <2>1 DEF Rows
<1>9. ASSUME NEW c \in ContractId, contract'[c].state = "live"
      PROVE  contract'[c].on \in Physical /\ L[contract'[c].on].exists
  <2>1. CASE \E p \in S : id[p] = c
    BY <1>2, <1>4, <2>1
  <2>2. CASE \A p \in S : id[p] # c
    BY <1>5, <1>9, <2>2 DEF IInv, Placed
  <2> QED
    BY <2>1, <2>2
<1>10. ASSUME NEW p \in S PROVE Contracted(contract', p) <= L[p].area
  <2>1. id[p] \in Active(contract', p)
    BY <1>4 DEF Active
  <2>2. Active(contract', p) \ {id[p]} = Active(contract, p)
    <3>1. ASSUME NEW c \in Active(contract', p), c # id[p]
          PROVE  c \in Active(contract, p)
      <4>1. \A q \in S : id[q] # c
        BY <1>4, <3>1 DEF Active
      <4> QED
        BY <1>5, <3>1, <4>1 DEF Active
    <3>2. ASSUME NEW c \in Active(contract, p)
          PROVE  c \in Active(contract', p) /\ c # id[p]
      <4>1. \A q \in S : id[q] # c
        BY <1>4 DEF Active
      <4> QED
        BY <1>5, <4>1 DEF Active
    <3> QED
      BY <3>1, <3>2
  <2>3. Contracted(contract', p) =
          AreaOf(contract', Active(contract, p)) + contract'[id[p]].area
    BY <1>8, <2>1, <2>2, AreaInsert DEF Contracted, Active
  <2>4. AreaOf(contract', Active(contract, p)) = Contracted(contract, p)
    <3>1. \A c \in Active(contract, p) : contract'[c].area = contract[c].area
      <4>1. \A c \in Active(contract, p) : c \in ContractId /\ \A q \in S : id[q] # c
        BY <1>4 DEF Active
      <4> QED
        BY <1>5, <4>1
    <3> QED
      BY <3>1, AreaSame DEF Contracted
  <2>5. contract'[id[p]].area = sale[p]
    BY <1>4
  <2>6. Contracted(contract, p) \in Nat /\ sale[p] \in Nat
    BY <1>6, <1>7, ContractedType
  <2> QED
    BY <1>2, <2>3, <2>4, <2>5, <2>6
<1>11. ASSUME NEW p \in Physical \ S
       PROVE  Contracted(contract', p) = Contracted(contract, p)
  <2>1. ASSUME NEW c \in ContractId
        PROVE  /\ (c \in Active(contract', p) <=> c \in Active(contract, p))
               /\ (c \in Active(contract', p) => contract'[c].area = contract[c].area)
    <3>1. CASE \E q \in S : id[q] = c
      BY <1>4, <3>1 DEF Active
    <3>2. CASE \A q \in S : id[q] # c
      BY <1>5, <3>2 DEF Active
    <3> QED
      BY <3>1, <3>2
  <2> QED
    BY <2>1, SameActive
<1> QED
  BY <1>2, <1>3, <1>8, <1>9, <1>10, <1>11

\* A sale takes from each of its plots what was free there.
LEMMA SellSafe ==
    ASSUME IInv, NEW L \in Lands, NEW S \in SUBSET Physical, NEW sale \in [S -> Area],
           Sell(L, sale),
           \A p \in Physical : /\ land[p].exists => L[p] = land[p]
                               /\ ~L[p].exists => L[p].area = 0
    PROVE  StepIsSafe
<1>1. /\ contract' \in Rows
      /\ land' = updatePhysicalPlotStatus(L, contract', S)
      /\ \A c \in ContractId : contract'[c].state = "live" =>
           contract'[c].on \in Physical /\ L[contract'[c].on].exists
      /\ \A p \in S : L[p].exists /\ Contracted(contract', p) <= L[p].area
      /\ \A p \in Physical \ S : Contracted(contract', p) = Contracted(contract, p)
  BY SellFacts
<1>2. /\ land' \in Lands
      /\ \A p \in Physical : land'[p].area = L[p].area /\ land'[p].exists = L[p].exists
  BY <1>1, RefreshType
<1>3. IInv'
  BY <1>1, <1>2 DEF IInv, TypeOK, Placed, Unregistered, Rows, Lands
<1>4. \A p \in S : Grows(p) /\ Follows(p)
  BY <1>1, <1>2, RefreshSets DEF Grows, Follows
<1>5. \A p \in Physical : Contracted(contract, p) \in Nat
  BY ContractedType DEF IInv, TypeOK, Rows
<1>6. \A p \in Physical \ S : Grows(p) /\ Follows(p)
  BY <1>1, <1>5 DEF Grows, Follows
<1> QED
  BY <1>3, <1>4, <1>6 DEF StepIsSafe

\* createPlot sells plots, one of which it may register first.
LEMMA CreatePlotSafe ==
    ASSUME IInv, NEW p \in Physical, NEW area \in Area \cup {Keep},
           NEW S \in SUBSET Physical, NEW sale \in [S -> Area], CreatePlot(p, area, sale)
    PROVE  StepIsSafe
<1>1. land \in Lands
  BY DEF IInv, TypeOK, Lands
<1>2. CASE area = Keep
  BY <1>1, <1>2, SellSafe DEF CreatePlot, IInv, Unregistered
<1>3. CASE area # Keep
  <2> DEFINE L == [land EXCEPT ![p] = NewLand(area)]
  <2>1. area \in Nat /\ ~land[p].exists
    BY <1>3, InventoryAssumption DEF CreatePlot
  <2>2. L \in Lands
    BY <1>1, <2>1 DEF NewLand, Lands, LandRow, Status
  <2>3. \A q \in Physical : /\ land[q].exists => L[q] = land[q]
                            /\ ~L[q].exists => L[q].area = 0
    BY <1>1, <2>1 DEF NewLand, Lands, IInv, Unregistered
  <2>4. Sell(L, sale)
    BY <1>3 DEF CreatePlot
  <2> QED
    BY <2>2, <2>3, <2>4, SellSafe
<1> QED
  BY <1>2, <1>3

\* createPlotContract sells one plot.
LEMMA CreateContractSafe ==
    ASSUME IInv, NEW p \in Physical, NEW area \in Area, CreatePlotContract(p, area)
    PROVE  StepIsSafe
<1>1. land \in Lands
  BY DEF IInv, TypeOK, Lands
<1>2. [q \in {p} |-> area] \in [{p} -> Area] /\ {p} \in SUBSET Physical
  OBVIOUS
<1>3. \A q \in Physical : ~land[q].exists => land[q].area = 0
  BY DEF IInv, Unregistered
<1>4. Sell(land, [q \in {p} |-> area])
  BY DEF CreatePlotContract
<1> QED
  BY <1>1, <1>2, <1>3, <1>4, SellSafe

-----------------------------------------------------------------------------
(* Every step, and the beginning *)

\* Migration leaves each plot with at most one contract, no larger than it.
LEMMA InitSafe ==
    ASSUME Init
    PROVE  IInv /\ \A p \in Physical : Fits(p)
<1> DEFINE from(c, p) ==
             /\ Legacy[p].contract = c
             /\ contract[c] = [state |-> "live", on |-> p, area |-> Legacy[p].area,
                               status |-> Legacy[p].status]
<1>1. land \in Lands
  <2>1. ASSUME NEW p \in Physical PROVE land[p] \in LandRow
    <3>1. CASE p \in DOMAIN Legacy
      BY <3>1, InventoryAssumption DEF Init, LandRow, Status
    <3>2. CASE p \notin DOMAIN Legacy
      BY <3>2 DEF Init, LandRow, Status, NoLand
    <3> QED
      BY <3>1, <3>2
  <2>2. land = [p \in Physical |-> land[p]]
    BY DEF Init
  <2> QED
    BY <2>1, <2>2 DEF Lands
<1>2. ASSUME NEW c \in ContractId
      PROVE  contract[c] = NoContract \/ \E p \in DOMAIN Legacy : from(c, p)
  <2>1. CASE \A p \in DOMAIN Legacy : Legacy[p].contract # c
    BY <2>1 DEF Init
  <2>2. CASE \E p \in DOMAIN Legacy : Legacy[p].contract = c
    <3> DEFINE q == CHOOSE p \in DOMAIN Legacy : Legacy[p].contract = c
    <3>1. q \in DOMAIN Legacy /\ Legacy[q].contract = c
      BY <2>2
    <3>2. contract[c] = [state |-> "live", on |-> q, area |-> Legacy[q].area,
                         status |-> Legacy[q].status]
      BY <2>2 DEF Init
    <3> HIDE DEF q
    <3> QED
      BY <3>1, <3>2
  <2> QED
    BY <2>1, <2>2
<1>3. NoContract \in ContractRow /\ NoContract.state # "live"
  BY DEF NoContract, ContractRow, ContractStatus
<1>4. ASSUME NEW c \in ContractId, NEW p \in DOMAIN Legacy, from(c, p)
      PROVE  contract[c] \in ContractRow
  BY <1>4, InventoryAssumption DEF ContractRow
<1>5. contract \in Rows
  <2>1. contract = [c \in ContractId |-> contract[c]]
    BY DEF Init
  <2>2. \A c \in ContractId : contract[c] \in ContractRow
    BY <1>2, <1>3, <1>4
  <2> QED
    BY <2>1, <2>2 DEF Rows
<1>6. \A p \in DOMAIN Legacy : land[p].exists /\ land[p].area = Legacy[p].area
  BY InventoryAssumption DEF Init
<1>7. Placed
  <2>1. ASSUME NEW c \in ContractId, contract[c].state = "live"
        PROVE  contract[c].on \in Physical /\ land[contract[c].on].exists
    <3>1. PICK p \in DOMAIN Legacy : from(c, p)
      BY <1>2, <1>3, <2>1
    <3>2. contract[c].on = p
      BY <3>1
    <3> QED
      BY <1>6, <3>2, InventoryAssumption
  <2> QED
    BY <2>1 DEF Placed
<1>8. Unregistered
  BY DEF Init, Unregistered, NoLand
<1>9. ASSUME NEW p \in Physical PROVE Contracted(contract, p) <= land[p].area
  <2>1. ASSUME NEW c \in Active(contract, p)
        PROVE  p \in DOMAIN Legacy /\ c = Legacy[p].contract /\ contract[c].area = Legacy[p].area
    <3>1. c \in ContractId /\ contract[c].state = "live" /\ contract[c].on = p
      BY DEF Active
    <3>2. PICK q \in DOMAIN Legacy : from(c, q)
      BY <1>2, <1>3, <3>1
    <3>3. contract[c].on = q /\ contract[c].area = Legacy[q].area /\ Legacy[q].contract = c
      BY <3>2
    <3> QED
      BY <3>1, <3>3
  <2>2. land[p].area \in Nat
    BY <1>1 DEF Lands, LandRow
  <2>3. CASE Active(contract, p) = {}
    BY <2>2, <2>3, SumEmpty DEF Contracted, AreaOf
  <2>4. CASE Active(contract, p) # {}
    <3>1. PICK c : c \in Active(contract, p)
      BY <2>4
    <3>2. Active(contract, p) \ {c} = {}
      BY <2>1, <3>1
    <3>3. AreaOf(contract, Active(contract, p) \ {c}) = 0
      BY <3>2, SumEmpty DEF AreaOf
    <3>4. Contracted(contract, p) = 0 + contract[c].area
      BY <1>5, <3>1, <3>3, AreaInsert DEF Contracted, Active
    <3>5. contract[c].area = land[p].area
      BY <1>6, <2>1, <3>1
    <3> QED
      BY <2>2, <3>4, <3>5
  <2> QED
    BY <2>3, <2>4
<1> QED
  BY <1>1, <1>5, <1>7, <1>8, <1>9 DEF IInv, TypeOK, Rows, Lands, Fits

\* A step that changes nothing is safe.
LEMMA StutterSafe ==
    ASSUME IInv, UNCHANGED vars
    PROVE  StepIsSafe
BY SameContracts DEF IInv, TypeOK, Lands, LandRow, Unregistered, vars

\* Every step is safe.
LEMMA NextSafe ==
    ASSUME IInv, [Next]_vars
    PROVE  StepIsSafe
<1>1. CASE \E p \in Physical, a \in Area : CreatePhysicalPlot(p, a)
  BY <1>1, CreateOnePhysicalSafe
<1>2. CASE \E S \in SUBSET Physical, a \in Area : CreatePhysicalPlotsBulk(S, a)
  BY <1>2, CreatePhysicalSafe
<1>3. CASE \E p \in Physical, a \in Area \cup {Keep}, S \in SUBSET Physical :
             \E sale \in [S -> Area] : CreatePlot(p, a, sale)
  BY <1>3, CreatePlotSafe
<1>4. CASE \E p \in Physical, a \in Area : CreatePlotContract(p, a)
  BY <1>4, CreateContractSafe
<1>5. CASE \E c \in ContractId, size \in Resize, status \in Restate, a \in Area \cup {Keep} :
             UpdatePlot(c, size, status, a)
  BY <1>5, UpdatePlotSafe
<1>6. CASE \E c \in ContractId : DeletePlot(c) \/ TerminateContract(c) \/ RestoreContract(c)
  BY <1>6, DeletePlotSafe, TerminateSafe, RestoreSafe
<1>7. CASE \E S \in SUBSET ContractId : TerminateAllByContractor(S)
  BY <1>7, TerminateAllSafe
<1>8. CASE UNCHANGED vars
  BY <1>8, StutterSafe
<1> QED
  BY <1>1, <1>2, <1>3, <1>4, <1>5, <1>6, <1>7, <1>8 DEF Next

\* A plot whose contracts fit stops being one only where it is made smaller.
LEMMA FitsKept ==
    ASSUME IInv, [Next]_vars, NEW p \in Physical, Fits(p), land'[p].area >= land[p].area
    PROVE  Fits(p)'
<1>1. Grows(p) /\ IInv'
  BY NextSafe DEF StepIsSafe
<1>2. /\ Contracted(contract, p) \in Nat /\ Contracted(contract', p) \in Nat
      /\ land[p].area \in Nat /\ land'[p].area \in Nat
  BY <1>1, ContractedType DEF IInv, TypeOK, Rows, LandRow
<1>3. CASE Contracted(contract', p) > Contracted(contract, p)
  BY <1>1, <1>2, <1>3 DEF Grows, Fits
<1>4. CASE ~(Contracted(contract', p) > Contracted(contract, p))
  BY <1>2, <1>4 DEF Fits
<1> QED
  BY <1>3, <1>4

-----------------------------------------------------------------------------
(* Theorems *)

\* Every reachable state has the types and keeps contracts on registered plots.
LEMMA Invariance == Spec => []IInv
<1>1. Init => IInv
  BY InitSafe
<1>2. IInv /\ [Next]_vars => IInv'
  BY NextSafe DEF StepIsSafe
<1> QED
  BY <1>1, <1>2, PTL DEF Spec

\* The rows of physical plots and of contracts keep their types through every
\* handler.
THEOREM PlotTypes == Spec => []TypeOK
<1>1. IInv => TypeOK
  BY DEF IInv
<1> QED
  BY <1>1, Invariance, PTL

\* Area newly taken from a plot by a sale, a restoration or an enlargement is
\* within the area the plot had, even while updates resize physical plots.
THEOREM Growth == Spec => GrowthFits
<1> DEFINE A == \A p \in Physical : Grows(p)
<1>1. IInv /\ [Next]_vars => [A]_vars
  BY NextSafe DEF StepIsSafe
<1>2. [A]_vars <=> [\A p \in Physical : Contracted(contract', p) > Contracted(contract, p) =>
          Contracted(contract', p) <= (IF land[p].exists THEN land[p] ELSE land'[p]).area]_vars
  BY DEF Grows
<1>3. Spec => [][A]_vars
  <2> HIDE DEF A
  <2> QED
    BY <1>1, Invariance, PTL DEF Spec
<1> QED
  BY <1>2, <1>3, PTL DEF GrowthFits

\* Every step that changes the area taken from a plot leaves its sales status
\* derived from that area.
THEOREM StatusFollows == Spec => ChangeSetsStatus
<1> DEFINE A == \A p \in Physical : Follows(p)
<1>1. IInv /\ [Next]_vars => [A]_vars
  BY NextSafe DEF StepIsSafe
<1>2. [A]_vars <=> [\A p \in Physical : Contracted(contract', p) # Contracted(contract, p) =>
          land'[p].status = StatusFor(land', contract', p)]_vars
  BY DEF Follows
<1>3. Spec => [][A]_vars
  <2> HIDE DEF A
  <2> QED
    BY <1>1, Invariance, PTL DEF Spec
<1> QED
  BY <1>2, <1>3, PTL DEF ChangeSetsStatus

\* Migration sells no plot twice over, and afterwards a plot whose contracts fit in it goes
\* on holding them through sales of one plot or of several, terminations, sales of what they
\* free, restorations and enlargements, until a request makes that very plot smaller
\* (utils.ts, 105-165; restoreContract.ts, 55-73).
THEOREM OversoldByResizeOnly ==
    Spec => /\ \A p \in Physical : Fits(p)
            /\ [][\A p \in Physical :
                     Fits(p) /\ ~Fits(p)' => land'[p].area < land[p].area]_vars
<1> DEFINE A == \A p \in Physical : Fits(p) /\ ~Fits(p)' => land'[p].area < land[p].area
<1>1. Init => \A p \in Physical : Fits(p)
  BY InitSafe
<1>2. IInv /\ [Next]_vars => A
  <2> SUFFICES ASSUME IInv, [Next]_vars, NEW p \in Physical, Fits(p), ~Fits(p)'
               PROVE  land'[p].area < land[p].area
    OBVIOUS
  <2>1. land[p].area \in Nat /\ land'[p].area \in Nat
    BY NextSafe DEF StepIsSafe, IInv, TypeOK, LandRow
  <2>2. ~(land'[p].area >= land[p].area)
    BY FitsKept
  <2> QED
    BY <2>1, <2>2
<1>3. IInv /\ [Next]_vars => [A]_vars
  BY <1>2
<1> QED
  BY <1>1, <1>3, Invariance, PTL DEF Spec
-----------------------------------------------------------------------------
(* What is on the list of vacant plots *)

\* A registered plot has an area.
Measured == \A p \in Physical : land[p].exists => land[p].area # 0

LEMMA NextMeasured ==
    ASSUME IInv, Measured, [Next]_vars
    PROVE  Measured'
<1>0. land \in Lands /\ \A a \in Area : a \in Nat /\ a # 0
  BY InventoryAssumption DEF IInv, TypeOK, Lands
<1>1. ASSUME NEW L \in Lands, NEW C, NEW S, land' = updatePhysicalPlotStatus(L, C, S),
             \A p \in Physical : L[p].exists => L[p].area # 0
      PROVE  Measured'
  BY <1>1, RefreshType DEF Measured
<1>2. ASSUME NEW p \in Physical, NEW a \in Area, CreatePhysicalPlot(p, a) PROVE Measured'
  BY <1>0, <1>2 DEF CreatePhysicalPlot, NewLand, Lands, Measured
<1>3. ASSUME NEW S \in SUBSET Physical, NEW a \in Area, CreatePhysicalPlotsBulk(S, a)
      PROVE  Measured'
  BY <1>0, <1>3 DEF CreatePhysicalPlotsBulk, NewLand, Lands, Measured
<1>4. ASSUME NEW L \in Lands, NEW sale, Sell(L, sale),
             \A p \in Physical : L[p].exists => L[p].area # 0
      PROVE  Measured'
  BY <1>1, <1>4 DEF Sell
<1>5. ASSUME NEW p \in Physical, NEW a \in Area \cup {Keep}, NEW sale, CreatePlot(p, a, sale)
      PROVE  Measured'
  <2> DEFINE L == IF a = Keep THEN land ELSE [land EXCEPT ![p] = NewLand(a)]
  <2>1. L \in Lands /\ \A q \in Physical : L[q].exists => L[q].area # 0
    BY <1>0 DEF Measured, NewLand, Lands, LandRow, Status
  <2>2. Sell(L, sale)
    BY <1>5 DEF CreatePlot
  <2> HIDE DEF L
  <2> QED BY <1>4, <2>1, <2>2
<1>6. ASSUME NEW p \in Physical, NEW a \in Area, CreatePlotContract(p, a) PROVE Measured'
  BY <1>0, <1>4, <1>6 DEF CreatePlotContract, Measured
<1>7. ASSUME NEW c \in ContractId, NEW size \in Resize, NEW status \in Restate,
             NEW a \in Area \cup {Keep}, UpdatePlot(c, size, status, a)
      PROVE  Measured'
  <2> DEFINE L == Resized(contract[c].on, size, status)
  <2>1. contract[c].on \in Physical
    BY <1>7 DEF UpdatePlot, IInv, Placed
  <2>2. size = Keep \/ size \in Nat \ {0}
    BY InventoryAssumption
  <2>3. status = Keep \/ status \in Status
    BY InventoryAssumption
  <2>4. L \in Lands /\ \A q \in Physical : L[q].exists => L[q].area # 0
    BY <1>0, <2>1, <2>2, <2>3 DEF Resized, Lands, LandRow, Measured
  <2> HIDE DEF L
  <2>5. land' = updatePhysicalPlotStatus(L, contract', Refreshed(c, a))
    BY <1>7 DEF UpdatePlot, L
  <2> QED BY <1>1, <2>4, <2>5
<1>8. ASSUME NEW c \in ContractId, DeletePlot(c) \/ TerminateContract(c) \/ RestoreContract(c)
      PROVE  Measured'
  BY <1>0, <1>1, <1>8 DEF DeletePlot, TerminateContract, RestoreContract, Measured
<1>9. ASSUME NEW S, TerminateAllByContractor(S) PROVE Measured'
  BY <1>0, <1>1, <1>9 DEF TerminateAllByContractor, Measured
<1>10. CASE UNCHANGED vars
  BY <1>10 DEF vars, Measured
<1> QED
  BY <1>2, <1>3, <1>5, <1>6, <1>7, <1>8, <1>9, <1>10 DEF Next

\* A plot's line on the list, on its own screen and in the summary.
LEMMA VacantLine ==
    ASSUME IInv, Measured, NEW p \in Registered
    PROVE  /\ VacantArea(p) \in Nat /\ land[p].area \in Nat
           /\ VacantArea(p) > 0 => validateContractArea(land, contract, p, VacantArea(p))
           /\ ~validateContractArea(land, contract, p, VacantArea(p) + 1)
           /\ getPlotInventory(p) = StatusFor(land, contract, p)
           /\ Current(p) =>
                /\ VacantArea(p) > 0 <=> land[p].status # "sold_out"
                /\ UsedArea(p) \in Nat
                /\ land[p].area = UsedArea(p) + VacantArea(p)
<1> DEFINE taken == Contracted(contract, p)
           area == land[p].area
<1>1. p \in Physical /\ area \in Nat /\ area # 0 /\ land[p].status \in Status
  BY DEF IInv, TypeOK, LandRow, Registered, Measured
<1>2. taken \in Nat
  BY ContractedType DEF IInv, TypeOK, Rows
<1>3. VacantArea(p) = Less(area, taken)
  <2>1. Allocated(p) = Active(contract, p)
    BY DEF Allocated, Active
  <2> QED BY <2>1 DEF VacantArea, Contracted
<1>4. /\ getPlotInventory(p) = IF taken = 0 THEN "available"
                              ELSE IF area > taken THEN "partially_sold" ELSE "sold_out"
      /\ StatusFor(land, contract, p) =
           LET available == IF taken <= area THEN area - taken ELSE 0
           IN  IF available = area THEN "available"
               ELSE IF available > 0 THEN "partially_sold" ELSE "sold_out"
      /\ \A n : validateContractArea(land, contract, p, n) <=> 0 < n /\ n + taken <= area
  BY DEF getPlotInventory, StatusFor, calculateAvailableArea, validateContractArea
<1>5. UsedArea(p) =
        CASE land[p].status = "sold_out" -> area
          [] land[p].status = "partially_sold" -> IF taken < area THEN taken ELSE area
          [] land[p].status = "available" -> 0
  BY DEF UsedArea
<1>6. Current(p) <=> land[p].status = StatusFor(land, contract, p)
  BY DEF Current
<1> HIDE DEF taken, area
<1>7. VacantArea(p) = IF area >= taken THEN area - taken ELSE 0
  BY <1>3 DEF Less
<1>8. StatusFor(land, contract, p) = IF taken = 0 THEN "available"
                              ELSE IF area > taken THEN "partially_sold" ELSE "sold_out"
  BY <1>1, <1>2, <1>4
<1>9. CASE taken = 0
  <2>1. Current(p) => UsedArea(p) = 0
    BY <1>5, <1>6, <1>8, <1>9
  <2> QED BY <1>1, <1>2, <1>4, <1>6, <1>7, <1>8, <1>9, <2>1 DEF area
<1>10. CASE taken # 0 /\ area > taken
  <2>1. Current(p) => UsedArea(p) = taken
    BY <1>1, <1>2, <1>5, <1>6, <1>8, <1>10
  <2> QED BY <1>1, <1>2, <1>4, <1>6, <1>7, <1>8, <1>10, <2>1 DEF area
<1>11. CASE taken # 0 /\ ~(area > taken)
  <2>1. Current(p) => UsedArea(p) = area
    BY <1>1, <1>2, <1>5, <1>6, <1>8, <1>11
  <2> QED BY <1>1, <1>2, <1>4, <1>6, <1>7, <1>8, <1>11, <2>1 DEF area
<1> QED BY <1>9, <1>10, <1>11

\* The list adds up to what the summary leaves, where no status is out of date.
LEMMA VacantSum ==
    ASSUME IInv, Measured, \A p \in Registered : Current(p)
    PROVE  SumOf(getVacantPlots) = getOverallSummary.area
<1> DEFINE R == Registered
           areas == [p \in R |-> land[p].area]
           used == [p \in R |-> UsedArea(p)]
           vacant == [p \in R |-> VacantArea(p)]
           S == {p \in R : VacantArea(p) > 0}
<1>1. IsFiniteSet(R)
  BY ReportsAssumption, FS_Subset DEF Registered
<1>2. areas \in [R -> Nat] /\ used \in [R -> Nat] /\ vacant \in [R -> Nat]
  BY VacantLine
<1>3. \A p \in R : areas[p] = used[p] + vacant[p]
  BY VacantLine
<1>4. /\ S \in SUBSET R /\ \A p \in R \ S : vacant[p] = 0
      /\ getVacantPlots = [p \in S |-> vacant[p]]
  <2>1. \A p \in R \ S : VacantArea(p) \in Nat /\ ~(VacantArea(p) > 0)
    BY VacantLine
  <2>2. \A p \in R \ S : vacant[p] = 0
    BY <2>1
  <2> QED BY <2>2 DEF getVacantPlots
<1>5. getOverallSummary.area = Less(SumOf(areas), SumOf(used))
  BY DEF getOverallSummary, RemainingArea
<1> HIDE DEF R, S, areas, used, vacant
<1>6. SumOf(areas) = SumOf(used) + SumOf(vacant)
  BY <1>1, <1>2, <1>3, SumSplit
<1>7. SumOf(areas) \in Nat /\ SumOf(used) \in Nat /\ SumOf(vacant) \in Nat
  BY <1>1, <1>2, SumType
<1>8. SumOf(getVacantPlots) = SumOf(vacant)
  BY <1>2, <1>4, SumWithoutZeros
<1> QED BY <1>5, <1>6, <1>7, <1>8 DEF Less

\* Whatever was sold, ended, restored or resized: a plot on the list of vacant plots
\* can be sold to the area listed and no further, and the plot's own screen shows the
\* derived status; where no status was set by hand the list, the statuses and the
\* summary agree (vacantPlotService.ts, inventoryService.ts).
THEOREM VacantPlotsCanBeSold == Spec => []VacantIsForSale
<1>1. Init => Measured
  BY InventoryAssumption DEF Init, Measured, NoLand
<1>2. IInv /\ Measured /\ [Next]_vars => Measured'
  BY NextMeasured
<1>3. IInv /\ Measured => VacantIsForSale
  <2> SUFFICES ASSUME IInv, Measured PROVE VacantIsForSale
    OBVIOUS
  <2>1. ASSUME NEW p \in Registered
        PROVE  p \in DOMAIN getVacantPlots <=> VacantArea(p) > 0
    BY DEF getVacantPlots
  <2> QED BY <2>1, VacantLine, VacantSum DEF VacantIsForSale
<1> QED
  BY <1>1, <1>2, <1>3, Invariance, PTL DEF Spec
-----------------------------------------------------------------------------
(* Collective burials *)

\* A row is a record of the table, whatever its columns hold; and the row of a plot that
\* was never created is not live, holds no date of the office's, and is not being made.
Shaped(r) ==
    r = [state |-> r.state, capacity |-> r.capacity, count |-> r.count,
         reached |-> r.reached, years |-> r.years, date |-> r.date,
         manual |-> r.manual, onCapacity |-> r.onCapacity, status |-> r.status]

ShapedPlot(pl) ==
    pl = [state |-> pl.state, contract |-> pl.contract, capacity |-> pl.capacity,
          people |-> pl.people]

Untouched(p) ==
    plot[p].state = "none" => row[p].state # "live" /\ ~row[p].manual /\ creation[p] = Null

GravesInv ==
    /\ row = [p \in Plot |-> row[p]]
    /\ plot = [p \in Plot |-> plot[p]]
    /\ creation = [p \in Plot |-> creation[p]]
    /\ today \in Clock
    /\ \A p \in Plot : Shaped(row[p]) /\ ShapedPlot(plot[p]) /\ Untouched(p)

LEMMA Recounted ==
    ASSUME NEW pl, NEW r, Shaped(r)
    PROVE  LET new == Graves!updateCollectiveBurialCount(pl, r)
           IN  /\ Shaped(new) /\ new.state = r.state /\ new.manual = r.manual
               /\ new.status = r.status /\ new.years = r.years
               /\ new.capacity = r.capacity /\ new.onCapacity = r.onCapacity
               /\ r.manual \/ r.status # "pending" => new.date = r.date
<1> DEFINE full == Len(pl.people) >= r.capacity
           reached == Graves!Reached(r, full)
           date == IF ~Graves!Follows(r) THEN r.date
                   ELSE IF r.onCapacity THEN Graves!DateOnCapacity(pl, r, full)
                   ELSE Graves!RuleDate(pl, r)
           new == Graves!updateCollectiveBurialCount(pl, r)
<1>1. r.manual \/ r.status # "pending" => date = r.date
  BY DEF Graves!Follows
<1>2. CASE r.state # "live"
  BY <1>2 DEF Graves!updateCollectiveBurialCount
<1>3. CASE r.state = "live"
  <2>1. new = [r EXCEPT !.count = Len(pl.people), !.reached = reached, !.date = date]
    BY <1>3 DEF Graves!updateCollectiveBurialCount
  <2> HIDE DEF new, date, reached
  <2> QED BY <1>1, <2>1 DEF Shaped, new
<1> QED BY <1>2, <1>3

\* The same row, counted again.
LEMMA RecountedTwice ==
    ASSUME Graves!CollectiveAssumption, today \in Clock, NEW pl, NEW r, Shaped(r)
    PROVE  LET once == Graves!updateCollectiveBurialCount(pl, r)
           IN  Graves!updateCollectiveBurialCount(pl, once) = once
<1> DEFINE full == Len(pl.people) >= r.capacity
           once == Graves!updateCollectiveBurialCount(pl, r)
           twice == Graves!updateCollectiveBurialCount(pl, once)
           date(x) == IF ~Graves!Follows(x) THEN x.date
                      ELSE IF x.onCapacity THEN Graves!DateOnCapacity(pl, x, full)
                      ELSE Graves!RuleDate(pl, x)
<1>1. today # Null
  BY DEF Graves!CollectiveAssumption
<1>2. /\ Shaped(once) /\ once.state = r.state /\ once.manual = r.manual
      /\ once.status = r.status /\ once.years = r.years /\ once.capacity = r.capacity
      /\ once.onCapacity = r.onCapacity
  BY Recounted
<1>3. CASE r.state # "live"
  BY <1>2, <1>3 DEF Graves!updateCollectiveBurialCount
<1>4. CASE r.state = "live"
  <2>1. once = [r EXCEPT !.count = Len(pl.people), !.reached = Graves!Reached(r, full),
                         !.date = date(r)]
    BY <1>4 DEF Graves!updateCollectiveBurialCount
  <2>2. /\ once.count = Len(pl.people) /\ once.reached = Graves!Reached(r, full)
        /\ once.date = date(r)
    <3> HIDE DEF once, date, full
    <3> QED BY <2>1 DEF Shaped
  <2>3. twice = [once EXCEPT !.count = Len(pl.people), !.reached = Graves!Reached(once, full),
                             !.date = date(once)]
    BY <1>2, <1>4 DEF Graves!updateCollectiveBurialCount
  <2>4. Graves!Reached(once, full) = once.reached
    <3> HIDE DEF once, full
    <3> QED BY <1>1, <2>2 DEF Graves!Reached
  <2>5. date(once) = once.date
    <3>1. Graves!Follows(once) <=> Graves!Follows(r)
      BY <1>2 DEF Graves!Follows
    <3>2. Graves!DateOnCapacity(pl, once, full) = Graves!DateOnCapacity(pl, r, full)
      BY <1>2 DEF Graves!DateOnCapacity
    <3>3. Graves!RuleDate(pl, once) = Graves!RuleDate(pl, r)
      BY <1>2 DEF Graves!RuleDate
    <3> QED BY <1>2, <2>2, <3>1, <3>2, <3>3
  <2> HIDE DEF once, twice, date, full
  <2> QED BY <1>2, <2>2, <2>3, <2>4, <2>5 DEF Shaped, once, twice
<1> QED BY <1>3, <1>4

\* A row that is written to a plot there is, or leaves the row of none as idle as it was,
LEMMA RowWritten ==
    ASSUME GravesInv, NEW p \in Plot, NEW r, Shaped(r),
           plot[p].state # "none" \/ (r.state # "live" /\ ~r.manual),
           row' = [row EXCEPT ![p] = r], UNCHANGED <<plot, today, creation>>
    PROVE  GravesInv'
<1>1. row' = [q \in Plot |-> IF q = p THEN r ELSE row[q]]
  BY DEF GravesInv
<1>2. row' = [q \in Plot |-> row'[q]]
  BY <1>1
<1>3. ASSUME NEW q \in Plot
      PROVE  Shaped(row'[q]) /\ ShapedPlot(plot'[q]) /\ Untouched(q)'
  <2>1. CASE q = p
    BY <1>1, <2>1 DEF GravesInv, Untouched
  <2>2. CASE q # p
    <3>1. row'[q] = row[q]
      BY <1>1, <2>2
    <3> QED BY <3>1 DEF GravesInv, Untouched
  <2> QED BY <2>1, <2>2
<1> QED BY <1>2, <1>3 DEF GravesInv

\* a plot that is written with its row,
LEMMA BothWritten ==
    ASSUME GravesInv, NEW p \in Plot, NEW pl, NEW r, ShapedPlot(pl), Shaped(r),
           pl.state # "none", Graves!Put(p, pl, r), UNCHANGED <<today, creation>>
    PROVE  GravesInv'
<1>1. /\ row' = [q \in Plot |-> IF q = p THEN r ELSE row[q]]
      /\ plot' = [q \in Plot |-> IF q = p THEN pl ELSE plot[q]]
  BY DEF GravesInv, Graves!Put
<1>2. row' = [q \in Plot |-> row'[q]] /\ plot' = [q \in Plot |-> plot'[q]]
  BY <1>1
<1>3. ASSUME NEW q \in Plot
      PROVE  Shaped(row'[q]) /\ ShapedPlot(plot'[q]) /\ Untouched(q)'
  <2>1. CASE q = p
    BY <1>1, <2>1 DEF GravesInv, Untouched
  <2>2. CASE q # p
    <3>1. row'[q] = row[q] /\ plot'[q] = plot[q]
      BY <1>1, <2>2
    <3> QED BY <3>1 DEF GravesInv, Untouched
  <2> QED BY <2>1, <2>2
<1> QED BY <1>2, <1>3 DEF GravesInv

\* and a plot whose row stays.
LEMMA PlotWritten ==
    ASSUME GravesInv, NEW p \in Plot, NEW s, s # "none",
           plot' = [plot EXCEPT ![p].state = s], UNCHANGED <<row, today, creation>>
    PROVE  GravesInv'
<1> DEFINE pl == [plot[p] EXCEPT !.state = s]
<1>1. ShapedPlot(plot[p]) /\ Shaped(row[p])
  BY DEF GravesInv
<1>2. ShapedPlot(pl) /\ pl.state = s
  BY <1>1 DEF ShapedPlot
<1>3. plot' = [plot EXCEPT ![p] = pl] /\ row' = [row EXCEPT ![p] = row[p]]
  BY DEF GravesInv
<1> HIDE DEF pl
<1> QED BY <1>1, <1>2, <1>3, BothWritten DEF Graves!Put

\* Every recount leaves a row of the table.
LEMMA Recount ==
    ASSUME GravesInv, NEW p \in Plot, NEW pl,
           plot[p].state # "none", NEW r, Shaped(r),
           row' = [row EXCEPT ![p] = Graves!updateCollectiveBurialCount(pl, r)],
           UNCHANGED <<plot, today, creation>>
    PROVE  GravesInv'
<1>1. Shaped(Graves!updateCollectiveBurialCount(pl, r))
  BY Recounted
<1> QED BY <1>1, RowWritten

-----------------------------------------------------------------------------
(* The screens and the scripts *)

LEMMA ShapedEdit ==
    ASSUME NEW pl, ShapedPlot(pl), NEW c, NEW k
    PROVE  LET new == [pl EXCEPT !.contract = c, !.capacity = k]
           IN  ShapedPlot(new) /\ new.state = pl.state
<1> DEFINE new == [pl EXCEPT !.contract = c, !.capacity = k]
<1>1. new = [pl EXCEPT !.contract = c, !.capacity = k]
  OBVIOUS
<1> HIDE DEF new
<1>2. ShapedPlot(new) /\ new.state = pl.state
  BY <1>1 DEF ShapedPlot
<1> QED BY <1>2 DEF new

LEMMA NewRowShaped ==
    ASSUME NEW capacity, NEW years, NEW date
    PROVE  Shaped([Graves!NoRow EXCEPT !.state = "live", !.capacity = capacity,
                                       !.years = years, !.date = date])
<1> DEFINE blank == Graves!NoRow
           r == [blank EXCEPT !.state = "live", !.capacity = capacity, !.years = years,
                              !.date = date]
<1>1. Shaped(blank)
  BY DEF Shaped, Graves!NoRow
<1>2. r = [blank EXCEPT !.state = "live", !.capacity = capacity, !.years = years,
                        !.date = date]
  OBVIOUS
<1> HIDE DEF blank, r
<1>3. Shaped(r)
  BY <1>1, <1>2 DEF Shaped
<1> QED BY <1>3 DEF blank, r

LEMMA GravesCreatePlot ==
    ASSUME GravesInv, NEW p \in Plot, NEW contract0, NEW term, NEW people,
           Graves!CreatePlot(p, contract0, term, people)
    PROVE  GravesInv'
<1> DEFINE pl == [state |-> "active", contract |-> contract0, people |-> people,
                  capacity |-> IF term = Null THEN Null ELSE term.capacity]
           date == Graves!resolveBillingScheduledDate(contract0, term.years, Null)
           r == [Graves!NoRow EXCEPT !.state = "live", !.capacity = term.capacity,
                                     !.years = term.years, !.date = date]
           new == IF term = Null THEN Graves!NoRow
                  ELSE IF people = <<>> THEN r ELSE Graves!updateCollectiveBurialCount(pl, r)
<1>1. Graves!Put(p, pl, new) /\ UNCHANGED <<today, creation>>
  BY DEF Graves!CreatePlot
<1>2. ShapedPlot(pl) /\ pl.state # "none"
  BY DEF ShapedPlot
<1>3. Shaped(r) /\ Shaped(Graves!NoRow)
  <2> HIDE DEF date
  <2>1. Shaped(r)
    BY NewRowShaped
  <2> QED BY <2>1 DEF Shaped, Graves!NoRow
<1> HIDE DEF r, pl
<1>4. Shaped(new)
  BY <1>3, Recounted
<1> QED BY <1>1, <1>2, <1>4, BothWritten

LEMMA Saved ==
    ASSUME NEW r, Shaped(r), NEW term
    PROVE  LET new == Graves!SavedRow(r, term)
           IN  Shaped(new) /\ new.manual = r.manual /\ new.date = r.date
               /\ new.status = r.status
BY DEF Graves!SavedRow, Shaped

LEMMA Moved ==
    ASSUME NEW pl, NEW r, Shaped(r)
    PROVE  LET new == Graves!Rescheduled(pl, r)
           IN  Shaped(new) /\ new.manual = r.manual /\ new.status = r.status
               /\ (r.manual => new.date = r.date)
BY DEF Graves!Rescheduled, Shaped

\* An edit of the plot: a date of the office's stands, and that of a billed row does
\* where the request says nothing of it.
LEMMA Edited ==
    ASSUME GravesInv, NEW p \in Plot, NEW e, Graves!UpdatePlot(p, e)
    PROVE  /\ GravesInv'
           /\ row[p].manual => row'[p].date = row[p].date
           /\ e.contract = Unsent /\ e.term = Unsent /\ row[p].status # "pending"
              => row'[p].date = row[p].date
<1> DEFINE capacity == CASE e.term = Unsent -> plot[p].capacity [] e.term = Null -> Null
                         [] OTHER -> e.term.capacity
           before == [plot[p] EXCEPT
               !.contract = IF e.contract = Unsent THEN @ ELSE e.contract,
               !.capacity = capacity]
           saved == IF e.term = Unsent THEN row[p] ELSE Graves!SavedRow(row[p], e.term)
           scheduled == IF Graves!ScheduleMoves(p, e) THEN Graves!Rescheduled(before, saved)
                        ELSE saved
           after == [before EXCEPT !.people = IF e.people = Unsent THEN @ ELSE e.people]
           new == IF e.people # Unsent /\ after.capacity # Null
                  THEN Graves!updateCollectiveBurialCount(after, scheduled) ELSE scheduled
<1>1. /\ Graves!Live(p) /\ Graves!Put(p, after, new) /\ UNCHANGED <<today, creation>>
  BY DEF Graves!UpdatePlot
<1>2. Shaped(row[p]) /\ ShapedPlot(plot[p])
  BY DEF GravesInv
<1>3. ShapedPlot(before) /\ before.state = plot[p].state
  <2> DEFINE contract0 == IF e.contract = Unsent THEN plot[p].contract ELSE e.contract
  <2>1. before = [plot[p] EXCEPT !.contract = contract0, !.capacity = capacity]
    OBVIOUS
  <2> HIDE DEF before, contract0, capacity
  <2> QED BY <1>2, <2>1, ShapedEdit
<1> HIDE DEF before
<1>4. ShapedPlot(after) /\ after.state = plot[p].state
  BY <1>3 DEF ShapedPlot
<1> HIDE DEF after
<1>5. /\ Shaped(saved) /\ saved.manual = row[p].manual /\ saved.date = row[p].date
      /\ saved.status = row[p].status
  BY <1>2, Saved
<1>6. /\ Shaped(scheduled) /\ scheduled.manual = row[p].manual
      /\ scheduled.status = row[p].status
      /\ row[p].manual => scheduled.date = row[p].date
      /\ ~Graves!ScheduleMoves(p, e) => scheduled.date = row[p].date
  <2> HIDE DEF saved
  <2> QED BY <1>5, Moved
<1>7. /\ Shaped(new)
      /\ row[p].manual => new.date = row[p].date
      /\ ~Graves!ScheduleMoves(p, e) /\ row[p].status # "pending" => new.date = row[p].date
  <2> HIDE DEF scheduled
  <2> QED BY <1>6, Recounted
<1> HIDE DEF new
<1>8. GravesInv'
  BY <1>1, <1>4, <1>7, BothWritten DEF Graves!Live
<1>9. row'[p] = new
  BY <1>1 DEF Graves!Put, GravesInv
<1>10. e.contract = Unsent /\ e.term = Unsent => ~Graves!ScheduleMoves(p, e)
  BY DEF Graves!ScheduleMoves
<1> QED BY <1>7, <1>8, <1>9, <1>10

LEMMA GravesPlotScreen ==
    ASSUME GravesInv, NEW p \in Plot, Graves!PlotScreen(p)
    PROVE  GravesInv'
<1>1. CASE \E c \in {Null} \cup ContractDate, term \in {Null} \cup Terms, people \in Roster :
               Graves!CreatePlot(p, c, term, people)
  BY <1>1, GravesCreatePlot
<1>2. CASE \E e \in Graves!PlotEdit : Graves!UpdatePlot(p, e)
  BY <1>2, Edited
<1>3. CASE Graves!deletePlot(p)
  <2> DEFINE pl == [plot[p] EXCEPT !.state = "deleted", !.people = <<>>]
             r == IF row[p].state = "live" THEN [row[p] EXCEPT !.state = "deleted"] ELSE row[p]
  <2>1. Graves!Put(p, pl, r) /\ UNCHANGED <<today, creation>>
    BY <1>3 DEF Graves!deletePlot
  <2>2. ShapedPlot(plot[p]) /\ Shaped(row[p])
    BY DEF GravesInv
  <2>3. pl = [plot[p] EXCEPT !.state = "deleted", !.people = <<>>]
    OBVIOUS
  <2>4. r = IF row[p].state = "live" THEN [row[p] EXCEPT !.state = "deleted"] ELSE row[p]
    OBVIOUS
  <2> HIDE DEF pl, r
  <2>5. ShapedPlot(pl) /\ pl.state # "none"
    BY <2>2, <2>3 DEF ShapedPlot
  <2>6. Shaped(r)
    BY <2>2, <2>4 DEF Shaped
  <2> QED BY <2>1, <2>5, <2>6, BothWritten
<1>4. CASE Graves!restoreContractPlot(p)
  BY <1>4, PlotWritten DEF Graves!restoreContractPlot
<1> QED BY <1>1, <1>2, <1>3, <1>4 DEF Graves!PlotScreen

\* One column of a row is written.
LEMMA FieldWritten ==
    ASSUME GravesInv, NEW p \in Plot, NEW v, UNCHANGED <<plot, today, creation>>,
           \/ row' = [row EXCEPT ![p].status = v]
           \/ row' = [row EXCEPT ![p].date = v]
           \/ row[p].state = "live" /\ row' = [row EXCEPT ![p].state = v]
    PROVE  GravesInv'
<1>1. Shaped(row[p]) /\ Untouched(p)
  BY DEF GravesInv
<1>2. PICK a, b, c : /\ a = [row[p] EXCEPT !.status = v] /\ b = [row[p] EXCEPT !.date = v]
                     /\ c = [row[p] EXCEPT !.state = v]
  OBVIOUS
<1>3. /\ Shaped(a) /\ a.manual = row[p].manual /\ a.state = row[p].state
      /\ Shaped(b) /\ b.manual = row[p].manual /\ b.state = row[p].state /\ Shaped(c)
  BY <1>1, <1>2 DEF Shaped
<1>4. \/ row' = [row EXCEPT ![p] = a]
      \/ row' = [row EXCEPT ![p] = b]
      \/ row[p].state = "live" /\ row' = [row EXCEPT ![p] = c]
  BY <1>2
<1>5. CASE row' = [row EXCEPT ![p] = a]
  BY <1>1, <1>3, <1>5, RowWritten DEF Untouched
<1>6. CASE row' = [row EXCEPT ![p] = b]
  BY <1>1, <1>3, <1>6, RowWritten DEF Untouched
<1>7. CASE row[p].state = "live" /\ row' = [row EXCEPT ![p] = c]
  BY <1>1, <1>3, <1>7, RowWritten DEF Untouched
<1> QED BY <1>4, <1>5, <1>6, <1>7

LEMMA OtherRestarted ==
    ASSUME NEW r, Shaped(r), NEW term, NEW c
    PROVE  Shaped(Graves!Restarted(r, term, c))
<1> DEFINE date == Graves!resolveBillingScheduledDate(c, term.years, Null)
           new == Graves!Restarted(r, term, c)
<1>1. new = [r EXCEPT !.state = "live", !.capacity = term.capacity, !.years = term.years,
                      !.count = 0, !.reached = Null, !.status = "pending", !.date = date]
  BY DEF Graves!Restarted
<1> HIDE DEF new, date
<1> QED BY <1>1 DEF Shaped, new

LEMMA GravesUpdate ==
    ASSUME GravesInv, NEW p \in Plot, NEW e, Graves!updateCollectiveBurial(p, e)
    PROVE  GravesInv'
<1> DEFINE years == IF e.years = Unsent THEN row[p].years ELSE e.years
           capacity == IF e.capacity = Unsent THEN row[p].capacity ELSE e.capacity
           reached == IF e.reached = Unsent THEN row[p].reached ELSE e.reached
           status == IF e.status = Unsent THEN row[p].status ELSE e.status
           manual == IF e.date = Unsent THEN row[p].manual ELSE e.date # Null
           r == [row[p] EXCEPT !.capacity = capacity, !.years = years, !.reached = reached,
                               !.status = status, !.manual = manual]
           date == CASE e.date # Unsent -> e.date
                     [] e.date = Unsent /\ years # row[p].years /\ ~row[p].manual
                        -> Graves!RuleDate(plot[p], r)
                     [] OTHER -> row[p].date
           new == [r EXCEPT !.date = date]
<1>1. /\ row[p].state = "live" /\ row' = [row EXCEPT ![p] = new]
      /\ UNCHANGED <<plot, today, creation>>
  BY DEF Graves!updateCollectiveBurial
<1>2. Shaped(row[p]) /\ plot[p].state # "none"
  BY <1>1 DEF GravesInv, Untouched
<1>3. r = [row[p] EXCEPT !.capacity = capacity, !.years = years, !.reached = reached,
                         !.status = status, !.manual = manual]
  OBVIOUS
<1>4. new = [r EXCEPT !.date = date]
  OBVIOUS
<1> HIDE DEF years, capacity, reached, status, manual, date, new, r
<1>5. Shaped(r)
  BY <1>2, <1>3 DEF Shaped
<1>6. Shaped(new)
  BY <1>4, <1>5 DEF Shaped
<1> QED BY <1>1, <1>2, <1>6, RowWritten

LEMMA GravesCollectiveScreen ==
    ASSUME GravesInv, NEW p \in Plot, Graves!CollectiveScreen(p)
    PROVE  GravesInv'
<1>0. Shaped(row[p]) /\ Untouched(p)
  BY DEF GravesInv
<1>1. CASE \E term \in Terms : Graves!ReadForCreate(p, term)
  <2>1. PICK term \in Terms : Graves!ReadForCreate(p, term)
    BY <1>1
  <2>2. PICK c : creation' = [creation EXCEPT ![p] = c]
    BY <2>1 DEF Graves!ReadForCreate
  <2>3. creation' = [q \in Plot |-> IF q = p THEN c ELSE creation[q]]
    BY <2>2 DEF GravesInv
  <2>4. creation' = [q \in Plot |-> creation'[q]]
    BY <2>3
  <2>5. \A q \in Plot : Untouched(q)'
    BY <2>1, <2>3 DEF Graves!ReadForCreate, Graves!Live, GravesInv, Untouched
  <2> QED BY <2>1, <2>4, <2>5 DEF Graves!ReadForCreate, GravesInv
<1>2. CASE Graves!createCollectiveBurial(p)
  <2> DEFINE r == Graves!Restarted(row[p], creation[p].term, creation[p].contract)
             new == Graves!updateCollectiveBurialCount(plot[p], r)
             written == IF creation[p].row = "none" /\ row[p].state # "none" THEN row[p] ELSE new
  <2>1. /\ creation' = [q \in Plot |-> IF q = p THEN Null ELSE creation[q]]
        /\ creation[p] # Null /\ UNCHANGED <<plot, today>>
    BY <1>2 DEF Graves!createCollectiveBurial, GravesInv
  <2>2. row' = [q \in Plot |-> IF q = p THEN written ELSE row[q]]
    <3>1. row' = IF creation[p].row = "none" /\ row[p].state # "none" THEN row
                 ELSE [row EXCEPT ![p] = new]
      BY <1>2 DEF Graves!createCollectiveBurial
    <3> HIDE DEF new
    <3> QED BY <3>1 DEF GravesInv
  <2>3. Shaped(written)
    <3>1. Shaped(r)
      BY <1>0, OtherRestarted
    <3> HIDE DEF r
    <3> QED BY <1>0, <3>1, Recounted
  <2>4. plot[p].state # "none"
    BY <1>0, <2>1 DEF Untouched
  <2> HIDE DEF written
  <2>5. creation' = [q \in Plot |-> creation'[q]] /\ row' = [q \in Plot |-> row'[q]]
    BY <2>1, <2>2
  <2>6. \A q \in Plot : Shaped(row'[q]) /\ Untouched(q)'
    BY <2>1, <2>2, <2>3, <2>4 DEF GravesInv, Untouched
  <2> QED BY <2>1, <2>5, <2>6 DEF GravesInv
<1>3. CASE \E e \in RowEdits : Graves!updateCollectiveBurial(p, e)
  BY <1>3, GravesUpdate
<1>4. CASE \E s \in Graves!Status : Graves!updateBillingStatus(p, s)
  BY <1>4, FieldWritten DEF Graves!updateBillingStatus
<1>5. CASE Graves!deleteCollectiveBurial(p)
  BY <1>5, FieldWritten DEF Graves!deleteCollectiveBurial
<1>6. CASE Graves!syncBurialCount(p)
  BY <1>0, <1>6, Recount DEF Graves!syncBurialCount, Untouched
<1> QED BY <1>1, <1>2, <1>3, <1>4, <1>5, <1>6 DEF Graves!CollectiveScreen

LEMMA EnrolledShaped ==
    ASSUME NEW c, NEW m, NEW y, NEW h, NEW b, NEW o, NEW d
    PROVE  Shaped([Graves!NoRow EXCEPT !.state = "live", !.capacity = c, !.count = m,
                     !.years = y, !.reached = h, !.manual = b, !.onCapacity = o, !.date = d])
<1>1. PICK blank : blank = Graves!NoRow
  OBVIOUS
<1>2. PICK r : r = [blank EXCEPT !.state = "live", !.capacity = c, !.count = m,
                      !.years = y, !.reached = h, !.manual = b, !.onCapacity = o, !.date = d]
  OBVIOUS
<1>3. Shaped(blank)
  BY <1>1 DEF Shaped, Graves!NoRow
<1>4. Shaped(r)
  BY <1>2, <1>3 DEF Shaped
<1> QED BY <1>1, <1>2, <1>4

LEMMA GravesScripts ==
    ASSUME GravesInv, NEW p \in Plot, Graves!Scripts(p)
    PROVE  GravesInv'
<1>0. Shaped(row[p]) /\ Untouched(p) /\ ShapedPlot(plot[p])
  BY DEF GravesInv
<1>1. CASE \E term \in Terms, overwrite \in BOOLEAN :
               Graves!importCollectiveBurials(p, term, overwrite)
  <2>1. PICK term \in Terms, overwrite \in BOOLEAN :
               Graves!importCollectiveBurials(p, term, overwrite)
    BY <1>1
  <2> DEFINE r == Graves!Restarted(row[p], term, plot[p].contract)
  <2>2. /\ row' = [row EXCEPT ![p] = Graves!updateCollectiveBurialCount(plot[p], r)]
        /\ plot[p].state # "none" /\ UNCHANGED <<plot, today, creation>>
    BY <2>1 DEF Graves!importCollectiveBurials
  <2>3. Shaped(r)
    BY <1>0, OtherRestarted
  <2> HIDE DEF r
  <2> QED BY <2>2, <2>3, Recount
<1>2. CASE Graves!backfillCollectiveBurialSchedule(p)
  BY <1>2, FieldWritten DEF Graves!backfillCollectiveBurialSchedule
<1>3. CASE \E n \in Noted : Graves!enroll(p, n)
  <2>1. PICK n \in Noted : Graves!enroll(p, n)
    BY <1>3
  <2> DEFINE r == Graves!Enrolled(p, n)
             pl == [plot[p] EXCEPT !.capacity = r.capacity]
  <2>2. /\ Graves!Put(p, pl, r) /\ plot[p].state = "active" /\ UNCHANGED <<today, creation>>
    BY <2>1 DEF Graves!enroll
  <2>3. Shaped(r)
    <3> DEFINE people == plot[p].people
               capacity == IF n.vault \/ n.bodies = Null THEN Graves!AtLeastOne(people)
                           ELSE n.bodies
               mismatch == ~n.vault /\ n.year # Null
                           /\ Graves!CalculatedYear(p, n) \notin {Null, n.year}
               nth == IF n.year = Null THEN Graves!findNthBurialDate(people, n.bodies) ELSE Null
               count == Len(people)
               manual == n.year # Null
               onCapacity == n.year = Null
               date == IF mismatch THEN Null
                       ELSE IF n.year # Null THEN Graves!releaseDateInYear(n.year, "october")
                       ELSE IF nth # Null
                       THEN Graves!releaseDateInYear(Graves!Year(Graves!addYearsUtc(nth, n.years)),
                                                     "october")
                       ELSE Null
               years == n.years
    <3>1. r = [Graves!NoRow EXCEPT !.state = "live", !.capacity = capacity, !.count = count,
                 !.years = years, !.reached = nth, !.manual = manual,
                 !.onCapacity = onCapacity, !.date = date]
      BY Zenon DEF Graves!Enrolled
    <3> HIDE DEF r, capacity, count, years, nth, manual, onCapacity, date
    <3> QED BY <3>1, EnrolledShaped
  <2>4. pl = [plot[p] EXCEPT !.capacity = r.capacity]
    OBVIOUS
  <2> HIDE DEF pl, r
  <2>5. ShapedPlot(pl) /\ pl.state = plot[p].state
    BY <1>0, <2>4 DEF ShapedPlot
  <2> QED BY <2>2, <2>3, <2>5, BothWritten
<1> QED BY <1>1, <1>2, <1>3 DEF Graves!Scripts

LEMMA GravesRuns ==
    ASSUME GravesInv, NEW x \in Run, Graves!Runs(x)
    PROVE  GravesInv'
<1>1. CASE UNCHANGED <<plot, row, today, creation>>
  BY <1>1 DEF GravesInv, Untouched
<1>2. CASE \E p \in Plot : Graves!shiftPendingReleaseDates(x, p)
  BY <1>2, FieldWritten DEF Graves!shiftPendingReleaseDates
<1>3. CASE \E p \in Plot : Graves!releaseDueCollectiveBurials(x, p)
  <2>1. PICK p \in Plot : Graves!releaseDueCollectiveBurials(x, p)
    BY <1>3
  <2>2. CASE Graves!Releasable(p)
    BY <2>1, <2>2, PlotWritten DEF Graves!releaseDueCollectiveBurials
  <2>3. CASE ~Graves!Releasable(p)
    BY <1>1, <2>1, <2>3 DEF Graves!releaseDueCollectiveBurials
  <2> QED BY <2>2, <2>3
<1>4. CASE \E p \in Plot : Graves!processBilling(x, p)
  BY <1>4, FieldWritten DEF Graves!processBilling
<1> QED BY <1>1, <1>2, <1>3, <1>4 DEF Graves!Runs, Graves!ReadSettings,
        Graves!updateCollectiveBurialSettings, Graves!ListPending, Graves!ListDue,
        Graves!getBillingTargets, Graves!Stop

LEMMA GravesStep == ASSUME GravesInv, [Graves!Next]_(Graves!vars) PROVE GravesInv'
<1>1. CASE \E p \in Plot :
               Graves!PlotScreen(p) \/ Graves!CollectiveScreen(p) \/ Graves!Scripts(p)
  BY <1>1, GravesPlotScreen, GravesCollectiveScreen, GravesScripts
<1>2. CASE \E x \in Run : Graves!Runs(x)
  BY <1>2, GravesRuns
<1>3. CASE Graves!Tick
  BY <1>3 DEF Graves!Tick, GravesInv, Untouched
<1>4. CASE UNCHANGED Graves!vars
  BY <1>4 DEF Graves!vars, GravesInv, Untouched
<1> QED BY <1>1, <1>2, <1>3, <1>4 DEF Graves!Next

LEMMA GravesStart == ASSUME Graves!CollectiveAssumption, Graves!Init PROVE GravesInv
<1>1. Shaped(Graves!NoRow) /\ ShapedPlot(Graves!NoPlot)
  BY DEF Shaped, ShapedPlot, Graves!NoRow, Graves!NoPlot
<1> QED BY <1>1 DEF GravesInv, Untouched, Graves!Init, Graves!CollectiveAssumption,
                    Graves!NoRow, Graves!NoPlot

LEMMA GravesInvariant ==
    ASSUME Graves!CollectiveAssumption PROVE Graves!Spec => []GravesInv
BY GravesStart, GravesStep, PTL DEF Graves!Spec

\* In no state a row can get into, for any plots, dates, terms and requests, does a second
\* recount of the buried people (updateCollectiveBurialCount) take back what the first found.
THEOREM RecountsSettle ==
    ASSUME Graves!CollectiveAssumption PROVE Graves!Spec => []SyncSettles
<1>1. GravesInv => SyncSettles
  BY RecountedTwice DEF GravesInv, SyncSettles, Graves!SyncSettles
<1> QED BY <1>1, GravesInvariant, PTL

\* A date set by hand outlives every request about the plot and every recount, and the date
\* of a billed row outlives those that follow the burials, whatever happened to the row.
LEMMA DatesKept ==
    ASSUME GravesInv, NEW p \in Plot
    PROVE  /\ Graves!PlotScreen(p) \/ Graves!syncBurialCount(p)
              => (row[p].manual => row'[p].date = row[p].date)
           /\ Graves!Follow(p) => (row[p].status # "pending" => row'[p].date = row[p].date)
<1>0. Shaped(row[p]) /\ Untouched(p)
  BY DEF GravesInv
<1>1. ASSUME Graves!syncBurialCount(p), row[p].manual \/ row[p].status # "pending"
      PROVE  row'[p].date = row[p].date
  <2>1. row'[p] = Graves!updateCollectiveBurialCount(plot[p], row[p])
    BY <1>1 DEF Graves!syncBurialCount, GravesInv
  <2> QED BY <1>0, <1>1, <2>1, Recounted
<1>2. ASSUME Graves!PlotScreen(p), row[p].manual PROVE row'[p].date = row[p].date
  <2>1. CASE \E c \in {Null} \cup ContractDate, term \in {Null} \cup Terms, people \in Roster :
                 Graves!CreatePlot(p, c, term, people)
    BY <1>0, <1>2, <2>1 DEF Untouched, Graves!CreatePlot
  <2>2. CASE \E e \in Graves!PlotEdit : Graves!UpdatePlot(p, e)
    BY <1>2, <2>2, Edited
  <2>3. CASE Graves!deletePlot(p)
    <3>1. row'[p] = IF row[p].state = "live" THEN [row[p] EXCEPT !.state = "deleted"] ELSE row[p]
      BY <2>3 DEF Graves!deletePlot, Graves!Put, GravesInv
    <3> QED BY <1>0, <3>1 DEF Shaped
  <2>4. CASE Graves!restoreContractPlot(p)
    BY <2>4 DEF Graves!restoreContractPlot
  <2> QED BY <1>2, <2>1, <2>2, <2>3, <2>4 DEF Graves!PlotScreen
<1>3. ASSUME Graves!Follow(p), row[p].status # "pending" PROVE row'[p].date = row[p].date
  <2>1. CASE \E people \in Roster :
                 Graves!UpdatePlot(p, [contract |-> Unsent, term |-> Unsent, people |-> people])
    <3>1. PICK people \in Roster :
                 Graves!UpdatePlot(p, [contract |-> Unsent, term |-> Unsent, people |-> people])
      BY <2>1
    <3> DEFINE e == [contract |-> Unsent, term |-> Unsent, people |-> people]
    <3>2. e.contract = Unsent /\ e.term = Unsent /\ Graves!UpdatePlot(p, e)
      BY <3>1
    <3> HIDE DEF e
    <3> QED BY <1>3, <3>2, Edited
  <2> QED BY <1>1, <1>3, <2>1 DEF Graves!Follow
<1> QED BY <1>1, <1>2, <1>3

\* A date the office chose stays where no screen of the plot and no recount may move it, and
\* the date of a billed row where nothing that follows the burials may (collectiveBurialUtils,
\* updateCollectiveBurialCount).
THEOREM OfficeDatesStand ==
    ASSUME Graves!CollectiveAssumption PROVE Graves!Spec => ChosenDatesStand
<1>1. GravesInv /\ [Graves!Next]_(Graves!vars)
      => [\A p \in Plot : row'[p].date # row[p].date =>
            /\ row[p].manual => ~(Graves!PlotScreen(p) \/ Graves!syncBurialCount(p))
            /\ row[p].status # "pending" => ~Graves!Follow(p)]_(Graves!vars)
  BY DatesKept
<1> QED BY <1>1, GravesInvariant, PTL DEF Graves!Spec, ChosenDatesStand, Graves!ChosenDatesStand
-----------------------------------------------------------------------------
(* The screens count the same *)

\* Rounding to the nearest is off by half a plot at most.
LEMMA Rounded ==
    ASSUME NEW u \in Nat, Parts \in Nat \ {0}
    PROVE  /\ Round(u) \in Nat
           /\ 2 * (Round(u) * Parts) <= 2 * u + Parts
           /\ 2 * u <= 2 * (Round(u) * Parts) + Parts
<1> DEFINE n == 2 * u + Parts
           m == 2 * Parts
           r == n \div m
<1>1. n \in Nat /\ m \in Nat \ {0}
  OBVIOUS
<1>2. Round(u) = r
  BY DEF Round
<1>3. r \in Nat /\ m * r <= n /\ n < m * r + m
  <2> HIDE DEF n, m
  <2>1. r \in Int /\ n = m * r + (n % m) /\ n % m \in 0 .. m - 1
    BY <1>1
  <2>2. m * r \in Int /\ m * r <= n /\ n < m * r + m
    BY <1>1, <2>1
  <2>3. r >= 0
    BY <1>1, <2>1, <2>2
  <2> QED BY <2>1, <2>2, <2>3
<1>4. m * r = 2 * (r * Parts)
  BY <1>3
<1> HIDE DEF r
<1> QED BY <1>2, <1>3, <1>4

\* A factor that is not zero may be left out.
LEMMA Cancelled ==
    ASSUME NEW a \in Int, NEW b \in Int, NEW k \in Nat \ {0}, a * k <= b * k
    PROVE  a <= b
<1>1. SUFFICES ASSUME a >= b + 1 PROVE FALSE
  OBVIOUS
<1>2. (a - b - 1) * k >= 0
  BY <1>1
<1>3. a * k = b * k + k + (a - b - 1) * k
  OBVIOUS
<1> QED BY <1>2, <1>3

LEMMA ProductMonotone ==
    ASSUME NEW a \in Nat, NEW b \in Nat, NEW q \in Nat, a <= b
    PROVE  a * q <= b * q
<1>1. (b - a) * q >= 0
  OBVIOUS
<1>2. b * q = a * q + (b - a) * q
  OBVIOUS
<1> QED BY <1>1, <1>2

\* At most the whole of a plot is used.
LEMMA UsedPart ==
    ASSUME IInv, Measured, NEW p \in Registered
    PROVE  usedPortion(p) \in 0 .. Parts
<1> DEFINE taken == Contracted(contract, p)
           area == land[p].area
           q == Parts \div area
<1>1. p \in Physical /\ area \in Nat /\ area # 0 /\ land[p].status \in Status
  BY DEF IInv, TypeOK, LandRow, Registered, Measured
<1>2. taken \in Nat
  BY ContractedType DEF IInv, TypeOK, Rows
<1>3. Parts \in Nat \ {0}
  BY ReportsAssumption
<1>4. q \in Nat /\ area * q <= Parts
  <2> HIDE DEF area
  <2>1. q \in Int /\ Parts = area * q + (Parts % area) /\ Parts % area \in 0 .. area - 1
    BY <1>1, <1>3
  <2>2. area * q \in Int /\ area * q <= Parts /\ area * q > -area
    BY <1>1, <1>3, <2>1
  <2>3. q >= 0
    BY <1>1, <2>1, <2>2
  <2> QED BY <2>1, <2>2, <2>3
<1>5. usedPortion(p) =
        CASE land[p].status = "sold_out" -> Parts
          [] land[p].status = "partially_sold" -> IF taken >= area THEN Parts ELSE taken * q
          [] land[p].status = "available" -> 0
  BY DEF usedPortion, clampedUsedPortion
<1> HIDE DEF taken, area, q
<1>6. ASSUME taken < area PROVE taken * q \in Nat /\ taken * q <= Parts
  <2>1. taken * q <= area * q
    BY <1>1, <1>2, <1>4, <1>6, ProductMonotone
  <2>2. taken * q \in Nat /\ area * q \in Nat
    BY <1>1, <1>2, <1>4
  <2> QED BY <1>3, <1>4, <2>1, <2>2
<1> QED BY <1>1, <1>2, <1>3, <1>5, <1>6 DEF Status

\* A line: what is used and what is left make up its plots, and what is used is what its
\* plots are used for, rounded.
LEMMA OneLine ==
    ASSUME IInv, Measured, NEW S \in SUBSET Registered
    PROVE  LET line == finalizeRow(S)
               u == SumOf([p \in S |-> usedPortion(p)])
           IN  /\ IsFiniteSet(S) /\ u \in Nat /\ line.total = Cardinality(S)
               /\ line.total \in Nat /\ line.used = Round(u)
               /\ line.used + line.remaining = line.total
<1> DEFINE parts == [p \in S |-> usedPortion(p)]
           u == SumOf(parts)
           most == [p \in S |-> Parts]
           n == Cardinality(S)
<1>1. IsFiniteSet(S) /\ n \in Nat
  BY ReportsAssumption, FS_Subset, FS_CardinalityType DEF Registered
<1>2. Parts \in Nat \ {0}
  BY ReportsAssumption
<1>3. parts \in [S -> Nat] /\ most \in [S -> Nat] /\ \A p \in S : parts[p] <= most[p]
  BY <1>2, UsedPart
<1>4. finalizeRow(S) = [total |-> n, used |-> Round(u), remaining |-> Less(n, Round(u))]
  BY DEF finalizeRow
<1>5. SumOf(most) = n * Parts
  BY <1>1, <1>2, SumConstant
<1> HIDE DEF parts, most
<1>6. u \in Nat /\ u <= n * Parts
  BY <1>1, <1>3, <1>5, SumType, SumMonotone
<1> HIDE DEF u, n
<1>7. Round(u) \in Nat /\ Round(u) <= n
  <2>1. Round(u) \in Nat /\ 2 * (Round(u) * Parts) <= 2 * u + Parts
    BY <1>2, <1>6, Rounded
  <2>2. (2 * Round(u)) * Parts <= (2 * n + 1) * Parts
    BY <1>1, <1>2, <1>6, <2>1
  <2>3. 2 * Round(u) <= 2 * n + 1
    BY <1>1, <1>2, <2>1, <2>2, Cancelled
  <2> QED BY <1>1, <2>1, <2>3
<1>8. Less(n, Round(u)) = n - Round(u)
  BY <1>1, <1>7 DEF Less
<1> QED BY <1>1, <1>4, <1>6, <1>7, <1>8 DEF u, n, parts

\* The lines of a screen that shows every plot once.
LEMMA LinesAddUp ==
    ASSUME IInv, Measured, NEW D, IsFiniteSet(D), NEW P \in [D -> SUBSET Registered],
           \A p \in Registered : \E d \in D : p \in P[d],
           \A d, e \in D : \A p \in P[d] : p \in P[e] => d = e,
           NEW lines, lines = [d \in D |-> finalizeRow(P[d])]
    PROVE  AddsUp(lines)
<1> DEFINE R == Registered
           parts == [p \in R |-> usedPortion(p)]
           U == SumOf(parts)
           u == [d \in D |-> SumOf([p \in P[d] |-> usedPortion(p)])]
           used == [d \in D |-> Round(u[d])]
           total == [d \in D |-> Cardinality(P[d])]
           n == Cardinality(D)
<1>1. IsFiniteSet(R) /\ Parts \in Nat \ {0} /\ n \in Nat
  BY ReportsAssumption, FS_Subset, FS_CardinalityType DEF Registered
<1>2. ASSUME NEW d \in D
      PROVE  /\ lines[d].total = total[d] /\ total[d] \in Nat
             /\ lines[d].used = used[d] /\ u[d] \in Nat /\ used[d] \in Nat
             /\ 2 * (used[d] * Parts) <= 2 * u[d] + Parts
             /\ 2 * u[d] <= 2 * (used[d] * Parts) + Parts
             /\ lines[d].used + lines[d].remaining = lines[d].total
  <2>1. lines[d] = finalizeRow(P[d])
    OBVIOUS
  <2>2. /\ u[d] \in Nat /\ lines[d].total = total[d] /\ total[d] \in Nat
        /\ lines[d].used = Round(u[d])
        /\ lines[d].used + lines[d].remaining = lines[d].total
    BY <2>1, OneLine
  <2>3. used[d] = Round(u[d])
    OBVIOUS
  <2> HIDE DEF u, used, total
  <2> QED BY <1>1, <2>2, <2>3, Rounded
<1>3. getOverallSummary.row.total = Cardinality(R) /\ getOverallSummary.row.used = Round(U)
      /\ U \in Nat
  BY OneLine DEF getOverallSummary
<1>4. SumOf(total) = Cardinality(R)
  <2>1. total \in [D -> Nat] /\ \A d \in D : total[d] = Cardinality(P[d])
    BY <1>2
  <2> HIDE DEF total
  <2> QED BY <1>1, <2>1, PartsCount
<1>5. SumOf(u) = U
  <2>1. u \in [D -> Nat]
    BY <1>2
  <2>2. parts \in [R -> Nat]
    BY <1>1, UsedPart
  <2>3. ASSUME NEW d \in D PROVE u[d] = SumOf([p \in P[d] |-> parts[p]])
    <3>1. [p \in P[d] |-> parts[p]] = [p \in P[d] |-> usedPortion(p)]
      OBVIOUS
    <3> QED BY <3>1
  <2> HIDE DEF u, parts
  <2> QED BY <1>1, <2>1, <2>2, <2>3, PartsSum
<1>6. DOMAIN lines = D /\ Column(lines, "total") = SumOf(total) /\ Column(lines, "used") = SumOf(used)
  <2>1. DOMAIN lines = D
    OBVIOUS
  <2>2. [x \in D |-> lines[x]["total"]] = total /\ [x \in D |-> lines[x]["used"]] = used
    BY <1>2
  <2> QED BY <2>1, <2>2 DEF Column
<1>7. /\ u \in [D -> Nat] /\ used \in [D -> Nat]
  BY <1>2
<1>8. \A d \in D : 2 * (used[d] * Parts) <= 2 * u[d] + Parts
                   /\ 2 * u[d] <= 2 * (used[d] * Parts) + Parts
  BY <1>2
<1> HIDE DEF u, used, n, U, R, parts, total
<1>9. SumOf(used) \in Nat /\ SumOf(u) \in Nat
  BY <1>7, SumType
<1>10. /\ 2 * (SumOf(used) * Parts) <= 2 * SumOf(u) + n * Parts
       /\ 2 * SumOf(u) <= 2 * (SumOf(used) * Parts) + n * Parts
  BY <1>1, <1>7, <1>8, SumsApart DEF n
<1> DEFINE V == SumOf(used)
           W == Round(U)
<1>11. V \in Nat /\ W \in Nat /\ 2 * (W * Parts) <= 2 * U + Parts /\ 2 * U <= 2 * (W * Parts) + Parts
  BY <1>1, <1>3, <1>9, Rounded
<1>12. 2 * (V * Parts) <= 2 * U + n * Parts /\ 2 * U <= 2 * (V * Parts) + n * Parts
  BY <1>5, <1>10
<1> HIDE DEF V, W
<1>13. /\ (2 * V - 2 * W) * Parts <= (n + 1) * Parts
       /\ (2 * W - 2 * V) * Parts <= (n + 1) * Parts
  <2>1. V * Parts \in Int /\ W * Parts \in Int /\ n * Parts \in Int
    BY <1>1, <1>11
  <2>2. /\ (2 * V - 2 * W) * Parts = 2 * (V * Parts) - 2 * (W * Parts)
        /\ (2 * W - 2 * V) * Parts = 2 * (W * Parts) - 2 * (V * Parts)
        /\ (n + 1) * Parts = n * Parts + Parts
    BY <1>1, <1>11
  <2> QED BY <1>1, <1>3, <1>11, <1>12, <2>1, <2>2
<1>14. 2 * V - 2 * W <= n + 1 /\ 2 * W - 2 * V <= n + 1
  <2>1. 2 * V - 2 * W \in Int /\ 2 * W - 2 * V \in Int /\ n + 1 \in Int
    BY <1>1, <1>11
  <2> QED BY <1>1, <1>13, <2>1, Cancelled
<1>15. -(n + 1) <= 2 * V - 2 * W /\ 2 * V - 2 * W <= n + 1
  BY <1>1, <1>11, <1>14
<1>16. \A d \in D : lines[d].used + lines[d].remaining = lines[d].total
  BY <1>2
<1> QED BY <1>3, <1>4, <1>6, <1>15, <1>16 DEF AddsUp, n, V, W, R

\* What the lines of an area leave is what its plots leave, one by one.
LEMMA UsedAreaType ==
    ASSUME IInv, Measured, NEW p \in Registered
    PROVE  land[p].area \in Nat /\ UsedArea(p) \in Nat /\ UsedArea(p) <= land[p].area
<1>1. p \in Physical /\ land[p].area \in Nat /\ land[p].status \in Status
  BY DEF IInv, TypeOK, LandRow, Registered
<1>2. Contracted(contract, p) \in Nat
  BY ContractedType DEF IInv, TypeOK, Rows
<1> QED BY <1>1, <1>2 DEF UsedArea, Status

LEMMA AreaLeft ==
    ASSUME IInv, Measured, NEW S \in SUBSET Registered
    PROVE  /\ RemainingArea(S) \in Nat
           /\ RemainingArea(S) = SumOf([p \in S |-> land[p].area - UsedArea(p)])
<1> DEFINE areas == [p \in S |-> land[p].area]
           used == [p \in S |-> UsedArea(p)]
           left == [p \in S |-> land[p].area - UsedArea(p)]
<1>1. IsFiniteSet(S)
  BY ReportsAssumption, FS_Subset DEF Registered
<1>2. areas \in [S -> Nat] /\ used \in [S -> Nat] /\ left \in [S -> Nat]
  BY UsedAreaType
<1>3. \A p \in S : areas[p] = used[p] + left[p]
  BY UsedAreaType
<1>4. RemainingArea(S) = Less(SumOf(areas), SumOf(used))
  BY DEF RemainingArea
<1> HIDE DEF areas, used, left
<1>5. SumOf(areas) = SumOf(used) + SumOf(left)
  BY <1>1, <1>2, <1>3, SumSplit
<1>6. SumOf(areas) \in Nat /\ SumOf(used) \in Nat /\ SumOf(left) \in Nat
  BY <1>1, <1>2, SumType
<1> QED BY <1>4, <1>5, <1>6 DEF Less, left

LEMMA AreasAddUp ==
    ASSUME IInv, Measured, NEW D, IsFiniteSet(D), NEW P \in [D -> SUBSET Registered],
           \A p \in Registered : \E d \in D : p \in P[d],
           \A d, e \in D : \A p \in P[d] : p \in P[e] => d = e
    PROVE  SumOf([d \in D |-> RemainingArea(P[d])]) = RemainingArea(Registered)
<1> DEFINE R == Registered
           left == [p \in R |-> land[p].area - UsedArea(p)]
           lines == [d \in D |-> RemainingArea(P[d])]
<1>1. IsFiniteSet(R)
  BY ReportsAssumption, FS_Subset DEF Registered
<1>2. left \in [R -> Nat]
  BY UsedAreaType
<1>3. lines \in [D -> Nat]
  BY AreaLeft
<1>4. ASSUME NEW d \in D PROVE lines[d] = SumOf([p \in P[d] |-> left[p]])
  <2>1. [p \in P[d] |-> left[p]] = [p \in P[d] |-> land[p].area - UsedArea(p)]
    OBVIOUS
  <2>2. lines[d] = SumOf([p \in P[d] |-> land[p].area - UsedArea(p)])
    BY AreaLeft
  <2> QED BY <2>1, <2>2
<1>5. RemainingArea(R) = SumOf(left)
  BY AreaLeft
<1> HIDE DEF R, left, lines
<1>6. SumOf(lines) = SumOf(left)
  BY <1>1, <1>2, <1>3, <1>4, PartsSum DEF R
<1> QED BY <1>5, <1>6 DEF lines, R

-----------------------------------------------------------------------------
(* The screens one by one *)

LEMMA KeysFinite ==
    ASSUME NEW g
    PROVE  IsFiniteSet({g[p] : p \in Registered})
<1> DEFINE K == {g[p] : p \in Registered}
           f == [p \in Registered |-> g[p]]
<1>1. IsFiniteSet(Registered)
  BY ReportsAssumption, FS_Subset DEF Registered
<1>2. f \in Surjection(Registered, K)
  BY DEF Surjection
<1> QED BY <1>1, <1>2, FS_Surjection

\* Plots grouped by a key are each in one group.
LEMMA Grouped ==
    ASSUME NEW g, NEW D, \A p \in Registered : g[p] \in D
    PROVE  LET P == [d \in D |-> {p \in Registered : g[p] = d}]
           IN  /\ P \in [D -> SUBSET Registered]
               /\ \A p \in Registered : \E d \in D : p \in P[d]
               /\ \A d, e \in D : \A p \in P[d] : p \in P[e] => d = e
OBVIOUS

LEMMA PeriodsAgree ==
    ASSUME IInv, Measured, KnownPeriods, NEW name
    PROVE  AddsUp(getPeriodSummaries(name))
<1> DEFINE g == [p \in Registered |-> resolvePeriod(name[p])]
           plots(d) == {p \in Registered : resolvePeriod(name[p]) = d}
           D == PERIODS \cup {x \in {Other} : plots(x) # {}}
           P == [d \in D |-> {p \in Registered : g[p] = d}]
<1>1. \A p \in Registered : g[p] \in D
  BY DEF resolvePeriod, KnownPeriods
<1>2. IsFiniteSet(D)
  <2>1. IsFiniteSet({Other})
    BY FS_Singleton
  <2>2. IsFiniteSet({x \in {Other} : plots(x) # {}})
    BY <2>1, FS_Subset
  <2> QED BY <2>2, ReportsAssumption, FS_Union
<1>3. \A d \in D : P[d] = plots(d)
  OBVIOUS
<1>4. getPeriodSummaries(name) = [d \in D |-> finalizeRow(P[d])]
  <2>1. getPeriodSummaries(name) = [d \in D |-> finalizeRow(plots(d))]
    BY DEF getPeriodSummaries
  <2> QED BY <1>3, <2>1
<1> HIDE DEF D, plots, g
<1>5. /\ P \in [D -> SUBSET Registered]
      /\ \A p \in Registered : \E d \in D : p \in P[d]
      /\ \A d, e \in D : \A p \in P[d] : p \in P[e] => d = e
  BY <1>1, Grouped
<1> HIDE DEF P
<1> QED BY <1>2, <1>4, <1>5, LinesAddUp

LEMMA SectionsAgree ==
    ASSUME IInv, Measured, NEW name
    PROVE  AddsUp(getSectionInventory(name))
<1> DEFINE D == {name[p] : p \in Registered}
           P == [d \in D |-> {p \in Registered : name[p] = d}]
<1>1. \A p \in Registered : name[p] \in D
  OBVIOUS
<1>2. IsFiniteSet(D)
  BY KeysFinite
<1>3. getSectionInventory(name) = [d \in D |-> finalizeRow(P[d])]
  BY DEF getSectionInventory
<1> HIDE DEF D
<1>4. /\ P \in [D -> SUBSET Registered]
      /\ \A p \in Registered : \E d \in D : p \in P[d]
      /\ \A d, e \in D : \A p \in P[d] : p \in P[e] => d = e
  BY <1>1, Grouped
<1> HIDE DEF P
<1> QED BY <1>2, <1>3, <1>4, LinesAddUp

LEMMA AreasAgree ==
    ASSUME IInv, Measured, NEW name
    PROVE  LET areas == getAreaInventory(name)
           IN  /\ AddsUp([k \in DOMAIN areas |-> areas[k].row])
               /\ Column(areas, "area") = getOverallSummary.area
<1> DEFINE key(p) == <<resolvePeriod(name[p]), land[p].area, TypeOf[name[p]]>>
           g == [p \in Registered |-> key(p)]
           areas == getAreaInventory(name)
           plots(k) == {p \in Registered : key(p) = k}
           D == {key(p) : p \in Registered}
           P == [d \in D |-> {p \in Registered : g[p] = d}]
<1>1. \A p \in Registered : g[p] \in D
  OBVIOUS
<1>2. IsFiniteSet(D)
  <2>1. D = {g[p] : p \in Registered}
    <3>1. \A p \in Registered : g[p] = key(p)
      OBVIOUS
    <3> HIDE DEF g, key
    <3> QED BY <3>1
  <2> HIDE DEF g, key
  <2> QED BY <2>1, KeysFinite
<1>3. \A d \in D : P[d] = plots(d)
  OBVIOUS
<1>4. areas = [k \in D |-> [row |-> finalizeRow(plots(k)), area |-> RemainingArea(plots(k))]]
  BY DEF getAreaInventory
<1> HIDE DEF D, plots, g, key
<1>5. /\ P \in [D -> SUBSET Registered]
      /\ \A p \in Registered : \E d \in D : p \in P[d]
      /\ \A d, e \in D : \A p \in P[d] : p \in P[e] => d = e
  BY <1>1, Grouped
<1> HIDE DEF P, areas
<1>6. DOMAIN areas = D /\ \A k \in D : areas[k].row = finalizeRow(P[k])
                                       /\ areas[k].area = RemainingArea(P[k])
  BY <1>3, <1>4
<1>7. [k \in DOMAIN areas |-> areas[k].row] = [d \in D |-> finalizeRow(P[d])]
  BY <1>6
<1>8. AddsUp([k \in DOMAIN areas |-> areas[k].row])
  BY <1>2, <1>5, <1>7, LinesAddUp
<1>9. [x \in DOMAIN areas |-> areas[x]["area"]] = [d \in D |-> RemainingArea(P[d])]
  BY <1>6
<1>10. Column(areas, "area") = SumOf([d \in D |-> RemainingArea(P[d])])
  BY <1>9 DEF Column
<1>11. SumOf([d \in D |-> RemainingArea(P[d])]) = RemainingArea(Registered)
  BY <1>2, <1>5, AreasAddUp
<1>12. getOverallSummary.area = RemainingArea(Registered)
  BY DEF getOverallSummary
<1> QED BY <1>8, <1>10, <1>11, <1>12 DEF areas

\* A plot is in the one block of its row, or in the last one.
LEMMA MonthlyAgrees ==
    ASSUME IInv, Measured, NEW name
    PROVE  AddsUp(getMonthlyReport(name))
<1> DEFINE rowOf(p) == findRow(name[p], land[p].area)
           inRow(r) == {p \in Registered : rowOf(p) = r}
           inBlock(b) == UNION {inRow(r) : r \in b}
           D == Block \cup {x \in {{Other}} : inRow(Other) # {}}
           P == [b \in D |-> inBlock(b)]
<1>1. ASSUME NEW p \in Registered PROVE rowOf(p) = Other \/ \E b \in Block : rowOf(p) \in b
  BY ReportsAssumption DEF findRow
<1>2. IsFiniteSet(D)
  <2>1. IsFiniteSet({{Other}})
    BY FS_Singleton
  <2>2. IsFiniteSet({x \in {{Other}} : inRow(Other) # {}})
    BY <2>1, FS_Subset
  <2> QED BY <2>2, ReportsAssumption, FS_Union
<1>3. getMonthlyReport(name) = [b \in D |-> finalizeRow(P[b])]
  BY DEF getMonthlyReport
<1>4. ASSUME NEW b, NEW p PROVE p \in inBlock(b) <=> p \in Registered /\ rowOf(p) \in b
  OBVIOUS
<1>5. \A p \in Registered : p \in inRow(Other) <=> rowOf(p) = Other
  OBVIOUS
<1>6. ASSUME NEW p \in Registered PROVE \E b \in D : rowOf(p) \in b
  BY <1>1, <1>5
<1>7. ASSUME NEW b \in D, NEW c \in D, NEW r, r \in b, r \in c PROVE b = c
  <2>1. b \in Block \/ b = {Other}
    OBVIOUS
  <2>2. c \in Block \/ c = {Other}
    OBVIOUS
  <2>3. /\ \A s \in Block : Other \notin s
        /\ \A s \in Block : \A q \in s, t \in Block : q \in t => s = t
    BY ReportsAssumption
  <2> HIDE DEF D
  <2> QED BY <1>7, <2>1, <2>2, <2>3
<1> HIDE DEF rowOf, inBlock, D
<1>8. P \in [D -> SUBSET Registered]
  BY <1>4
<1>9. \A p \in Registered : \E d \in D : p \in P[d]
  BY <1>4, <1>6
<1>10. \A d, e \in D : \A p \in P[d] : p \in P[e] => d = e
  BY <1>4, <1>7
<1> HIDE DEF P
<1> QED BY <1>2, <1>3, <1>8, <1>9, <1>10, LinesAddUp

LEMMA LedgerCoversVacant ==
    ASSUME NEW name
    PROVE  LET ledger == groupVacantLedger(name)
           IN  UNION {ledger[d] : d \in DOMAIN ledger} = DOMAIN getVacantPlots
<1> DEFINE S == DOMAIN getVacantPlots
           D == PERIODS \cup {resolvePeriod(name[p]) : p \in S}
           ledger == groupVacantLedger(name)
<1>1. ledger = [d \in D |-> {p \in S : resolvePeriod(name[p]) = d}]
  BY DEF groupVacantLedger
<1>2. \A p \in S : resolvePeriod(name[p]) \in D
  OBVIOUS
<1> HIDE DEF S, D, ledger
<1>3. UNION {ledger[d] : d \in DOMAIN ledger} = S
  BY <1>1, <1>2
<1> QED BY <1>3 DEF S, ledger

\* Whatever was sold, ended, restored, resized or restated by hand, and whatever sections
\* the plots have: the screens by period, section, area and row of the monthly form show
\* every plot once, differ from the summary by their rounding only, and leave the area the
\* summary leaves (inventoryService.ts, monthlyReportService.ts, vacantPlotService.ts).
THEOREM ScreensCountTheSame == Spec => []ScreensAgree
<1>1. Init => Measured
  BY InventoryAssumption DEF Init, Measured, NoLand
<1>2. IInv /\ Measured /\ [Next]_vars => Measured'
  BY NextMeasured
<1>3. IInv /\ Measured => ScreensAgree
  BY PeriodsAgree, SectionsAgree, AreasAgree, MonthlyAgrees, LedgerCoversVacant
     DEF ScreensAgree
<1> QED BY <1>1, <1>2, <1>3, Invariance, PTL DEF Spec
=============================================================================
