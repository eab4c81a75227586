-------------------------------- MODULE Masters --------------------------------
(***************************************************************************)
(* Master tables: the codes and names that rows of contracts refer to by      *)
(* text, or by number, with no foreign key.                                  *)
(*                                                                         *)
(* A type of master is a table of its own and no request touches two, so one  *)
(* type is followed at a time.  What a request does is one serialisable       *)
(* transaction or one statement.                                            *)
(***************************************************************************)
EXTENDS Naturals, FiniteSets

CONSTANTS
    Type,        \* of master; the kind followed is chosen at the start
    Searched,    \* types whose use is looked for; of the others nobody knows who refers to them
    Numbered,    \* types whose rows hold an integer instead of the code
    MasterCode,
    NumberOf,    \* the integer a code reads as, or Null
    Record,      \* records of contracts
    Table,       \* the table a record is in
    Column,      \* the tables with a column for the type
    Null,
    MaxId        \* bound on the masters ever created

\* Rows can be counted, and Null is no row of a master table.
MastersAssumption ==
    /\ IsFiniteSet(Record) /\ MaxId \in Nat
    /\ Null \notin [code : MasterCode, active : BOOLEAN]

VARIABLES
    type,
    master,      \* by id: code and is_active, or Null
    nextId,
    ref,         \* what a live record stores in the column of the type
    form         \* the codes an open form offers

vars == <<type, master, nextId, ref, form>>

Init ==
    /\ type \in Type
    /\ master = [i \in 1 .. MaxId |-> Null] /\ nextId = 1
    /\ ref = [x \in Record |-> Null]
    /\ form = {}

Exists(i) == master[i] # Null
Ids == {i \in 1 .. MaxId : Exists(i)}
Coded(c) == {i \in Ids : master[i].code = c}

\* What a record stores for a code.
Stored(c) == IF type \in Numbered THEN NumberOf[c] ELSE c

Resolves(v) == \E i \in Ids : Stored(master[i].code) = v

-----------------------------------------------------------------------------
(* Forms of the office *)

buildMasterWhere(inactive) == {i \in Ids : inactive \/ master[i].active}

Listed(inactive) == {master[i].code : i \in buildMasterWhere(inactive)}

\* Every table in one answer.
getAllMasters(inactive) == [t \in {type} |-> Listed(inactive)]

\* The list of the type, or the answer with all of them.
OpenForm(inactive) ==
    /\ form' \in {Listed(inactive), getAllMasters(inactive)[type]}
    /\ UNCHANGED <<type, master, nextId, ref>>

\* A contract is saved without asking whether the master is still there.
SaveRecord(x, c) ==
    /\ Table[x] \in Column[type] /\ c \in form
    /\ ref' = [ref EXCEPT ![x] = Stored(c)]
    /\ UNCHANGED <<type, master, nextId, form>>

\* The record is deleted with its plot, or its column emptied.
DropRecord(x) ==
    /\ ref[x] # Null
    /\ ref' = [ref EXCEPT ![x] = Null]
    /\ UNCHANGED <<type, master, nextId, form>>

-----------------------------------------------------------------------------
(* Maintenance *)

\* Variant: the references by number are taken for references by id.
CountById(i) ==
    Cardinality({x \in Record : ref[x] # Null
                   /\ ref[x] = IF type \in Numbered THEN i ELSE master[i].code})

\* A code that reads as no integer is used by nobody.
countMasterCodeUsage(i) ==
    IF type \in Searched
    THEN Cardinality({x \in Record : ref[x] # Null /\ ref[x] = Stored(master[i].code)})
    ELSE 0

\* A code in use is refused by the unique index.
createMaster(c, active) ==
    /\ Coded(c) = {} /\ nextId <= MaxId
    /\ master' = [master EXCEPT ![nextId] = [code |-> c, active |-> active]]
    /\ nextId' = nextId + 1
    /\ UNCHANGED <<type, ref, form>>

\* The usage is counted when another code is sent.
updateMaster(i, c, active) ==
    /\ Exists(i) /\ Coded(c) \subseteq {i}
    /\ c # master[i].code => countMasterCodeUsage(i) = 0
    /\ master' = [master EXCEPT ![i] = [code |-> c, active |-> active]]
    /\ UNCHANGED <<type, nextId, ref, form>>

deleteMaster(i) ==
    /\ Exists(i) /\ countMasterCodeUsage(i) = 0
    /\ master' = [master EXCEPT ![i] = Null]
    /\ UNCHANGED <<type, nextId, ref, form>>

Next ==
    \/ \E b \in BOOLEAN : OpenForm(b)
    \/ \E x \in Record, c \in MasterCode : SaveRecord(x, c)
    \/ \E x \in Record : DropRecord(x)
    \/ \E c \in MasterCode, b \in BOOLEAN : createMaster(c, b)
    \/ \E i \in 1 .. MaxId, c \in MasterCode, b \in BOOLEAN : updateMaster(i, c, b)
    \/ \E i \in 1 .. MaxId : deleteMaster(i)

Spec == Init /\ [][Next]_vars

-----------------------------------------------------------------------------
(* Properties *)

\* No maintenance of a master takes the name away from a record that has one: neither a
\* deletion nor another code, while codes, ids and numbers drift apart.
NothingOrphaned ==
    [][\A x \in Record :
         type \in Searched /\ ref[x] # Null /\ ref'[x] = ref[x] /\ Resolves(ref[x])
           => Resolves(ref[x])']_vars
=============================================================================
