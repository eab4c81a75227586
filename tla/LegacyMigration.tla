------------------------- MODULE LegacyMigration -------------------------
(* The script that moves the former system's tables into the new database,
   scripts/migrate-from-legacy.ts and its steps.

   The steps run one after another, each row by row, and no transaction spans
   two statements: a row is looked up by its legacy key, created when it is
   missing, and the rows that belong to it are created after it.  What a step
   needs of an earlier one is in idMaps, which live in the script's memory: they
   are gone when the process stops, filled again by the earlier steps of a full
   run, and read back from the database by a run of picked steps (--only).
   A run may stop anywhere and may be started again, with or without --truncate.

   A legacy table is a set of records with its key in the field cd; the rows the
   queries leave out (del_flg = 1) are not in it.  A new row is its id, which
   tells its table and its legacy key apart from rows of another era, and the
   ids it refers to.  Dry runs, which write nothing, are left out. *)
EXTENDS Naturals, Sequences, SequencesExt, FiniteSets

CONSTANTS sykbnn, matant, m_bochi, t_danka, t_family, t_maisou, t_foundlog,
          t_seikyu, t_nyukin, t_dankalog, t_famlog,
          Picks,      \* the sets of steps --only may name
          MaxRuns,    \* bound on the number of runs
          MaxEra      \* bound on the number of truncations

PartTables == {"usageFee", "managementFee", "gravestoneInfo"}

\* Legacy keys are keys; what belongs to a plot is created once for each of its tables;
\* and a contract has one applicant (the premise step 6 rests its guard on).
MigrationAssumption ==
  /\ IsFiniteSet(t_foundlog)
  /\ \A table \in {t_danka, t_family, t_seikyu, t_nyukin} :
       \A k, l \in table : k.cd = l.cd => k = l
  /\ \A b, c \in m_bochi : b.cd = c.cd => b = c
  /\ \A l \in t_danka : l.request \in {"none", "same", "other"}
  /\ \A k, l \in {d \in t_danka : d.del_flg # 2 /\ d.request # "none"} :
       k.grave_cd = l.grave_cd => k = l
  /\ \A b \in m_bochi : /\ b.parts \in Seq(PartTables)
                        /\ \A i, j \in DOMAIN b.parts : b.parts[i] = b.parts[j] => i = j
  /\ \A l \in t_dankalog : l.table = "t_dankalog"
  /\ \A l \in t_famlog : l.table = "t_famlog"

VARIABLES data,       \* the rows of the new database
          marks,      \* columns of a row that a later statement sets
          idMaps,     \* legacy code to new id, in the memory of the run
          steps,      \* the steps that are left, the first one is running
          entered,    \* whether the first one has read its source
          todo,       \* the legacy rows the step has not come to
          owed,       \* rows of the same legacy row that follow
          sold,       \* the physical plots that step 5 will mark
          era,        \* how often the new database was emptied
          runs,
          whole,      \* whether this run takes every step
          picked, crashed, finished   \* what runs there were, for the properties

memory == <<idMaps, steps, entered, todo, owed, sold>>
history == <<runs, whole, picked, crashed, finished>>
vars == <<data, marks, memory, era, history>>

ALL_STEPS == <<"masters", "staff", "physicalPlot", "customer", "contractPlot",
               "saleContractRole", "familyContact", "buriedPerson",
               "constructionInfo", "billing", "payment", "paymentStatus",
               "history", "summary">>

Live(danka) == {d \in danka : d.del_flg # 2}
Terminated == {d.cd : d \in t_danka \ Live(t_danka)}

-----------------------------------------------------------------------------
(* idMaps *)

Maps == {"staff", "customer", "physicalPlot", "contractPlot", "billing"}

Get(key, cd) == {id \in idMaps[key] : id.cd = cd}
Put(key, cd, ids) == [idMaps EXCEPT ![key] = (@ \ Get(key, cd)) \cup ids]

(* Not the code: every customer is read back. *)
rebuildAll(key) ==
  IF idMaps[key] # {} THEN idMaps[key]
  ELSE {r.id : r \in {x \in data : x.id.table = key}}

(* A map is read back only while it is empty, and without the customers whose
   contract ended in the former system. *)
rebuildIdMap(key) ==
  IF idMaps[key] # {} THEN idMaps[key]
  ELSE {r.id : r \in {x \in data : /\ x.id.table = key
                                   /\ key = "customer" => x.id.cd \notin Terminated}}

Needs(step) ==
  CASE step = "contractPlot" -> {"physicalPlot"}
    [] step \in {"saleContractRole", "familyContact", "billing"} -> {"customer", "contractPlot"}
    [] step \in {"buriedPerson", "constructionInfo"} -> {"contractPlot"}
    [] step = "payment" -> {"customer", "contractPlot", "billing"}
    [] step = "history" -> {"customer", "contractPlot", "physicalPlot"}
    [] OTHER -> {}

-----------------------------------------------------------------------------
(* Rows *)

Existing(table, cd) == {r.id : r \in {x \in data : x.id.table = table /\ x.id.cd = cd}}

New(table, cd, of) ==
  [id |-> [table |-> table, cd |-> cd, era |-> era, n |-> Cardinality(Existing(table, cd))],
   of |-> of]

Running(step) == steps # <<>> /\ entered /\ Head(steps) = step /\ owed = <<>>
Take(l) == /\ todo' = todo \ {l}
           /\ UNCHANGED <<steps, entered, era, history>>

(* Not the code: the check by the legacy key is forgotten. *)
EnsureAgain(table, cd, of, parts) ==
  /\ data' = data \cup {New(table, cd, of)}
  /\ owed' = [i \in 1 .. Len(parts) |-> New(parts[i], cd, {New(table, cd, of).id})]

(* The row of legacy code cd: left as it is when it exists, otherwise created,
   and after it the rows of `parts`. *)
Ensure(table, cd, of, parts) ==
  IF Existing(table, cd) # {}
  THEN UNCHANGED <<data, owed>>
  ELSE /\ data' = data \cup {New(table, cd, of)}
       /\ owed' = [i \in 1 .. Len(parts) |-> New(parts[i], cd, {New(table, cd, of).id})]

(* Not the code: rows that are found are not put into the map. *)
KeptIfNew(table, cd) == IF Existing(table, cd) # {} THEN {} ELSE {New(table, cd, {}).id}

(* The id that Ensure leaves there, for the map. *)
Kept(table, cd) == IF Existing(table, cd) # {} THEN Existing(table, cd)
                   ELSE {New(table, cd, {}).id}

Pass(l) == Take(l) /\ UNCHANGED <<data, marks, idMaps, owed, sold>>

-----------------------------------------------------------------------------
(* The steps, one row of the former system at a time *)

stepMasters(l) ==
  /\ Running("masters") /\ Take(l)
  /\ Ensure("relationshipMaster", l.cd, {}, <<>>)
  /\ UNCHANGED <<marks, idMaps, sold>>

(* Staff rows keep no legacy code: a clerk is found by email, and clerks of one
   address are one. *)
stepStaff(l) ==
  /\ Running("staff") /\ Take(l)
  /\ Ensure("staff", l.email, {}, <<>>)
  /\ idMaps' = Put("staff", l.email, Kept("staff", l.email))
  /\ UNCHANGED <<marks, sold>>

stepPhysicalPlot(l) ==
  /\ Running("physicalPlot") /\ Take(l)
  /\ Ensure("physicalPlot", l.cd, {}, <<>>)
  /\ idMaps' = Put("physicalPlot", l.cd, Kept("physicalPlot", l.cd))
  /\ UNCHANGED <<marks, sold>>

EmailOf(tancd) == {l.email : l \in {m \in matant : m.cd = tancd}}
InCharge(tancd) == UNION {Get("staff", email) : email \in EmailOf(tancd)}

(* A customer whose contract ended is taken over, but not into the map. *)
Imported(d) == d.complete \/ d.del_flg = 2
stepCustomer(l) ==
  /\ Running("customer")
  /\ IF Imported(l)
     THEN /\ Take(l)
          /\ Ensure("customer", l.cd, InCharge(l.tancd),
                    IF l.job THEN <<"workInfo">> ELSE <<>>)
          /\ idMaps' = IF l.del_flg = 2 THEN idMaps
                       ELSE Put("customer", l.cd, Kept("customer", l.cd))
          /\ UNCHANGED <<marks, sold>>
     ELSE Pass(l)

Contracted(b) == b.status \in {0, 1}
stepContractPlot(l) ==
  /\ Running("contractPlot")
  /\ LET physical == Get("physicalPlot", l.cd)
     IN IF Contracted(l) /\ physical # {}
        THEN /\ Take(l)
             /\ Ensure("contractPlot", l.cd, physical, l.parts)
             /\ idMaps' = Put("contractPlot", l.cd, Kept("contractPlot", l.cd))
             /\ sold' = IF Existing("contractPlot", l.cd) = {} /\ l.status = 1
                        THEN sold \cup physical ELSE sold
             /\ UNCHANGED marks
        ELSE Pass(l)

(* At the end of the step: PhysicalPlot.status becomes sold_out, plot by plot. *)
markSoldOut ==
  /\ Running("contractPlot") /\ todo = {}
  /\ \E id \in sold : /\ marks' = marks \cup {[on |-> id, what |-> "sold_out"]}
                      /\ sold' = sold \ {id}
  /\ UNCHANGED <<data, idMaps, steps, entered, todo, owed, era, history>>

Roles(kind, plot) == {r \in data : r.id.table = kind /\ plot \in r.of}

(* Not the code: the customer is looked for instead of the role. *)
applicantOnce(l, plot, customer) ==
  LET role(c) == New("applicant", l.cd, {plot, c})
      person == New("applicantCustomer", l.cd, {})
  IN IF l.request = "none" \/ Existing("applicantCustomer", l.cd) # {} THEN <<>>
     ELSE IF l.request = "same" THEN <<role(customer)>> ELSE <<person, role(person.id)>>

(* What follows the contractor's role: the applicant, as the same customer or as
   a customer of its own, who is created before the role. *)
applicantOf(l, plot, customer) ==
  LET role(c) == New("applicant", l.cd, {plot, c})
      person == New("applicantCustomer", l.cd, {})
  IN CASE l.request = "same" /\ \A r \in Roles("applicant", plot) : customer \notin r.of
            -> <<role(customer)>>
       [] l.request = "other" /\ Roles("applicant", plot) = {}
            -> <<person, role(person.id)>>
       [] OTHER -> <<>>

stepSaleContractRole(l) ==
  /\ Running("saleContractRole")
  /\ IF Get("customer", l.cd) # {} /\ Get("contractPlot", l.grave_cd) # {}
     THEN \E customer \in Get("customer", l.cd), plot \in Get("contractPlot", l.grave_cd) :
            /\ Take(l)
            /\ data' = IF \E r \in Roles("contractor", plot) : customer \in r.of THEN data
                       ELSE data \cup {New("contractor", l.cd, {plot, customer})}
            /\ owed' = applicantOf(l, plot, customer)
            /\ UNCHANGED <<marks, idMaps, sold>>
     ELSE Pass(l)

(* A family member belongs to the plot and the customer of its danka_cd, or, when
   the contract ended, to the customer alone. *)
Relation(zokugara) == Existing("relationshipMaster", zokugara)
stepFamilyContact(l) ==
  /\ Running("familyContact")
  /\ LET plot == UNION {Get("contractPlot", d.grave_cd) :
                          d \in {x \in Live(t_danka) : x.cd = l.danka_cd}}
         gone == IF l.danka_cd \in Terminated THEN Existing("customer", l.danka_cd) ELSE {}
     IN IF l.named /\ (plot # {} \/ gone # {})
        THEN /\ Take(l)
             /\ Ensure("familyContact", l.cd,
                       Relation(l.zokugara) \cup
                       (IF plot # {} THEN plot \cup Get("customer", l.danka_cd) ELSE gone),
                       <<>>)
             /\ UNCHANGED <<marks, idMaps, sold>>
        ELSE Pass(l)

stepBuriedPerson(l) ==
  /\ Running("buriedPerson")
  /\ IF l.named /\ Get("contractPlot", l.grave_cd) # {}
     THEN /\ Take(l)
          /\ Ensure("buriedPerson", l.cd,
                    Get("contractPlot", l.grave_cd) \cup Relation(l.zokugara), <<>>)
          /\ UNCHANGED <<marks, idMaps, sold>>
     ELSE Pass(l)

stepConstructionInfo(l) ==
  /\ Running("constructionInfo")
  /\ IF Get("contractPlot", l.grave_cd) # {}
     THEN /\ Take(l)
          /\ Ensure("constructionInfo", l.cd, Get("contractPlot", l.grave_cd), <<>>)
          /\ UNCHANGED <<marks, idMaps, sold>>
     ELSE Pass(l)

(* Left out are invoices from before the cemetery; one without a date (0) is not. *)
Plausible(l) == l.year = 0 \/ l.year >= 1940
stepBilling(l) ==
  /\ Running("billing")
  /\ LET customer == Get("customer", l.danka_cd)
         plot == Get("contractPlot", l.grave_cd)
     IN IF Plausible(l) /\ customer # {} /\ plot # {}
        THEN /\ Take(l)
             /\ Ensure("billing", l.cd, customer \cup plot, <<>>)
             /\ idMaps' = Put("billing", l.cd, Kept("billing", l.cd))
             /\ UNCHANGED <<marks, sold>>
        ELSE Pass(l)

(* A payment keeps every link that can be resolved and needs one of them; one of
   a customer whose contract ended is not taken over. *)
stepPayment(l) ==
  /\ Running("payment")
  /\ LET links == Get("billing", l.seikyu_cd) \cup Get("customer", l.danka_cd)
                    \cup Get("contractPlot", l.grave_cd)
     IN IF l.danka_cd \notin Terminated /\ links # {}
        THEN /\ Take(l)
             /\ Ensure("payment", l.cd, links, <<>>)
             /\ UNCHANGED <<marks, idMaps, sold>>
        ELSE Pass(l)

(* The invoices of a plot that were not terminated decide its payment state.  All   *)
(* are for management fees, so a plot that owes always gets its state written: the  *)
(* code skips only what comes out unpaid with nothing due.                         *)
Counted(plot) == {l \in t_seikyu : /\ l.terminate_flg # 1
                                   /\ \E r \in data : /\ r.id.table = "billing"
                                                      /\ r.id.cd = l.cd /\ plot \in r.of}
DerivedState(plot) == IF \A l \in Counted(plot) : l.paid THEN "paid" ELSE "owing"
Billed == {id \in {r.id : r \in data} : id.table = "contractPlot" /\ Counted(id) # {}}
stepPaymentStatus(plot) ==
  /\ Running("paymentStatus") /\ Take(plot)
  /\ marks' = {m \in marks : m.on # plot \/ m.what \notin {"paid", "owing"}}
                \cup {[on |-> plot, what |-> DerivedState(plot)]}
  /\ UNCHANGED <<data, idMaps, owed, sold>>

(* An entry of the former log belongs to the customer or the family member it
   was written for; one that changes nothing against the entry before it is left out.
   Its key keeps it from being taken over twice.  The code inserts a thousand entries
   at a time, here they come singly: a stop may fall between any two. *)
Entity(l) == IF l.table = "t_dankalog" THEN Get("customer", l.of)
             ELSE Existing("familyContact", l.of)
stepHistory(l) ==
  /\ Running("history")
  /\ IF l.changes /\ Entity(l) # {}
     THEN /\ Take(l)
          /\ Ensure(l.table, l.cd, Entity(l), <<>>)
          /\ UNCHANGED <<marks, idMaps, sold>>
     ELSE Pass(l)

-----------------------------------------------------------------------------
(* A run *)

Source(step) ==
  CASE step = "masters" -> sykbnn
    [] step = "staff" -> matant
    [] step \in {"physicalPlot", "contractPlot"} -> m_bochi
    [] step = "customer" -> t_danka
    [] step = "saleContractRole" -> Live(t_danka)
    [] step = "familyContact" -> t_family
    [] step = "buriedPerson" -> t_maisou
    [] step = "constructionInfo" -> t_foundlog
    [] step = "billing" -> t_seikyu
    [] step = "payment" -> t_nyukin
    [] step = "paymentStatus" -> Billed
    [] step = "history" -> t_dankalog \cup t_famlog
    [] OTHER -> {}

NoMaps == [key \in Maps |-> {}]

(* --truncate: the migrated rows go, not the builders' names, not the history. *)
Survives(r) == r.id.table \in {"contractorMaster", "t_dankalog", "t_famlog"}
truncateNewDb ==
  /\ era < MaxEra
  /\ data' = {r \in data : Survives(r)}
  /\ marks' = {}
  /\ era' = era + 1
  /\ finished' = FALSE

main(only) ==
  /\ steps = <<>> /\ runs < MaxRuns
  /\ whole' = (ToSet(ALL_STEPS) \subseteq only)
  /\ steps' = IF whole' THEN ALL_STEPS ELSE SelectSeq(ALL_STEPS, LAMBDA s : s \in only)
  /\ runs' = runs + 1
  /\ picked' = (picked \/ ~whole')
  /\ \/ UNCHANGED <<data, marks, era, finished>>
     \/ truncateNewDb
  /\ UNCHANGED <<crashed, idMaps, entered, todo, owed, sold>>

Stop == /\ idMaps' = NoMaps /\ steps' = <<>> /\ entered' = FALSE
        /\ todo' = {} /\ owed' = <<>> /\ sold' = {}

Orphaned == {r \in data : r.id.table = "payment" /\ r.of = {}}

(* A step reads back the maps it needs, gives up when one of them is empty, and
   reads its source; step 9 first creates the builders it will name. *)
beginStep ==
  /\ steps # <<>> /\ ~entered
  /\ LET step == Head(steps)
         maps == [key \in Maps |-> IF key \in Needs(step) THEN rebuildIdMap(key)
                                   ELSE idMaps[key]]
         builders == {l.gyousha_cd : l \in {x \in t_foundlog : x.gyousha_cd # 0}}
     IN IF \E key \in Needs(step) : maps[key] = {}
        THEN /\ Stop
             /\ UNCHANGED <<data, marks, era, history>>
        ELSE /\ idMaps' = maps
             /\ entered' = TRUE
             /\ todo' = Source(step)
             /\ owed' = IF step # "constructionInfo" THEN <<>>
                        ELSE SetToSeq({New("contractorMaster", cd, {}) :
                               cd \in {b \in builders : Existing("contractorMaster", b) = {}}})
             /\ UNCHANGED <<data, marks, steps, sold, era, history>>

createNext ==
  /\ owed # <<>>
  /\ data' = data \cup {Head(owed)}
  /\ owed' = Tail(owed)
  /\ UNCHANGED <<marks, idMaps, steps, entered, todo, sold, era, history>>

(* A step ends; step 6 has copied the contractors' names onto their plots, and
   step 11 has looked for a payment without any link. *)
endStep ==
  /\ steps # <<>> /\ Running(Head(steps)) /\ todo = {} /\ sold = {}
  /\ marks' = IF Head(steps) # "saleContractRole" THEN marks
              ELSE marks \cup {[on |-> id, what |-> "kana"] :
                     id \in {i \in UNION {r.of : r \in {x \in data : x.id.table = "contractor"}} :
                               i.table = "contractPlot"}}
  /\ IF Head(steps) = "payment" /\ Orphaned # {}
     THEN Stop /\ UNCHANGED <<finished>>
     ELSE IF Tail(steps) = <<>>
     THEN Stop /\ finished' = (finished \/ whole)
     ELSE /\ steps' = Tail(steps)
          /\ entered' = FALSE
          /\ UNCHANGED <<idMaps, todo, owed, sold, finished>>
  /\ UNCHANGED <<data, era, runs, whole, picked, crashed>>

(* The process stops, at any statement. *)
Crash ==
  /\ steps # <<>>
  /\ Stop /\ crashed' = TRUE
  /\ UNCHANGED <<data, marks, era, runs, whole, picked, finished>>

Init ==
  /\ data = {} /\ marks = {} /\ era = 0
  /\ idMaps = NoMaps /\ steps = <<>> /\ entered = FALSE
  /\ todo = {} /\ owed = <<>> /\ sold = {}
  /\ runs = 0 /\ whole = FALSE /\ picked = FALSE /\ crashed = FALSE /\ finished = FALSE

stepRow ==
  \E l \in todo :
     \/ stepMasters(l) \/ stepStaff(l) \/ stepPhysicalPlot(l) \/ stepCustomer(l)
     \/ stepContractPlot(l) \/ stepSaleContractRole(l) \/ stepFamilyContact(l)
     \/ stepBuriedPerson(l) \/ stepConstructionInfo(l) \/ stepBilling(l)
     \/ stepPayment(l) \/ stepPaymentStatus(l) \/ stepHistory(l)

Next ==
  \/ \E only \in Picks \cup {ToSet(ALL_STEPS)} : main(only)
  \/ beginStep \/ stepRow \/ createNext \/ markSoldOut \/ endStep
  \/ Crash

Spec == Init /\ [][Next]_vars

-----------------------------------------------------------------------------
(* Properties *)

Ids == {r.id : r \in data}

(* However often the script is stopped, run again or run in parts, a legacy row
   becomes one row: nothing is taken over twice.  (The customer created for an
   applicant is the exception, see OneApplicant.) *)
NothingTwice ==
  \A r, s \in data :
     r.id.table = s.id.table /\ r.id.cd = s.id.cd /\ r.id.table # "applicantCustomer"
       => r = s

(* Step 6 looks for the role before it creates the applicant, so that a run that
   is started again does not create the same applicant a second time. *)
OneApplicant ==
  \A r, s \in data :
     r.id.table = "applicantCustomer" /\ s.id.table = "applicantCustomer"
       /\ r.id.cd = s.id.cd => r = s

(* A customer whose contract had ended gets no contract, role, invoice or payment
   in the new database, in whatever parts the steps are run (#129, Q19). *)
TerminatedStayOut ==
  \A r \in data :
     r.id.table \in {"contractor", "applicant", "billing", "payment"} =>
       \A id \in r.of : id.table = "customer" => id.cd \notin Terminated

Code(table, cd) == [table |-> table, cd |-> cd]
Wanted(table, l) ==
  CASE table = "customer" -> {Code("staff", email) : email \in EmailOf(l.tancd)}
    [] table = "billing" -> {Code("customer", l.danka_cd), Code("contractPlot", l.grave_cd)}
    [] table = "payment" -> {Code("billing", l.seikyu_cd), Code("customer", l.danka_cd),
                             Code("contractPlot", l.grave_cd)}
    [] table = "familyContact" -> {Code("customer", l.danka_cd),
                                   Code("relationshipMaster", l.zokugara)}
    [] OTHER -> {}
Linked(table, source) ==
  \A r \in data : \A l \in source :
     r.id.table = table /\ r.id.cd = l.cd =>
       \A c \in Wanted(table, l) :
          (\E id \in Ids : id.table = c.table /\ id.cd = c.cd) =>
             \E id \in r.of : id.table = c.table /\ id.cd = c.cd /\ id \in Ids

(* As long as the steps were never run in parts, a migrated row refers to every
   migrated row it belonged to, also when a run stopped and was started again:
   a payment is never cut off from its invoice (it would stay so, because later
   runs leave it as it is), a customer from the clerk in charge. *)
LinksComplete ==
  ~picked => /\ Linked("customer", t_danka)
             /\ Linked("billing", t_seikyu)
             /\ Linked("payment", t_nyukin)
             /\ Linked("familyContact", t_family)

(* The rows a full run owes for the legacy tables. *)
Has(table, cd) == \E id \in Ids : id.table = table /\ id.cd = cd
PlotTaken(grave_cd) == \E b \in m_bochi : b.cd = grave_cd /\ Contracted(b)
CustomerTaken(danka_cd) == \E d \in Live(t_danka) : d.cd = danka_cd /\ d.complete
TakenOver ==
  /\ \A b \in m_bochi : Has("physicalPlot", b.cd) /\ (Contracted(b) => Has("contractPlot", b.cd))
  /\ \A d \in t_danka : Imported(d) => Has("customer", d.cd)
  /\ \A d \in Live(t_danka) : CustomerTaken(d.cd) /\ PlotTaken(d.grave_cd) =>
       /\ Has("contractor", d.cd)
       /\ d.request # "none" => Has("applicant", d.cd)
       /\ \E m \in marks : m.what = "kana" /\ m.on.cd = d.grave_cd
  /\ \A l \in t_maisou : l.named /\ PlotTaken(l.grave_cd) => Has("buriedPerson", l.cd)
  /\ \A l \in t_seikyu :
       Plausible(l) /\ CustomerTaken(l.danka_cd) /\ PlotTaken(l.grave_cd) =>
         /\ Has("billing", l.cd)
         /\ l.terminate_flg # 1 =>
              \E m \in marks : m.what = (IF \E k \in t_seikyu :
                                              /\ k.grave_cd = l.grave_cd /\ ~k.paid
                                              /\ k.terminate_flg # 1 /\ Has("billing", k.cd)
                                         THEN "owing" ELSE "paid")
                               /\ m.on.table = "contractPlot" /\ m.on.cd = l.grave_cd
  /\ \A l \in t_nyukin :
       l.danka_cd \notin Terminated /\ Has("billing", l.seikyu_cd) => Has("payment", l.cd)
  /\ \A l \in t_family :
       l.named /\ l.danka_cd \in Terminated => Has("familyContact", l.cd)
(* What is created after another row, and is found by no later run. *)
PartsTakenOver ==
  /\ \A b \in m_bochi : Contracted(b) =>
       /\ \A i \in 1 .. Len(b.parts) : Has(b.parts[i], b.cd)
       /\ b.status = 1 => \E m \in marks : m.what = "sold_out" /\ m.on.cd = b.cd
  /\ \A d \in t_danka : Imported(d) /\ d.job => Has("workInfo", d.cd)

(* When a full run has come to its end, everything the former system had is in
   the new one, wherever earlier runs had stopped; with the fees, the gravestone,
   the workplace and the sold_out status when none had stopped. *)
Finished == finished => TakenOver /\ (~crashed => PartsTakenOver)
EvenAfterCrash == finished => PartsTakenOver

(* What the history tells is about a row that exists. *)
HistoryOfRows ==
  finished => \A r \in data : r.id.table \in {"t_dankalog", "t_famlog"} => r.of \subseteq Ids
=============================================================================
