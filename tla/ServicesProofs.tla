---------------------------- MODULE ServicesProofs ----------------------------
(***************************************************************************)
(* The documents, the master tables, the records below a plot and the script *)
(* that moves the former system: four parts that share no table, each for any *)
(* number of whatever it holds.                                             *)
(*                                                                         *)
(* Of the documents: the browsers never exceed the limit (Slots), the file a  *)
(* row names is there (Filed), and what was issued last can be issued again   *)
(* (Printable).  Of the masters: none loses its name (MastersHold).  Of the   *)
(* records: the history tells what the tables say, and nothing outlives its   *)
(* plot (RecordsInv).  Of the script: a row is taken over once (MoveInv), with *)
(* its links (LinkInv), and all of them when a run is complete (DoneInv).     *)
(***************************************************************************)
EXTENDS Services, DataFacts

-----------------------------------------------------------------------------
(* The pool *)

\* A slot is taken by a running browser, given to a request that is woken, or free.
Slots ==
    /\ pc \in [Request -> {"away", "waiting", "browser"}]
    /\ activeChromiumCount \in Nat
    /\ chromiumWaitQueue \in Seq(Request) /\ woken \in Seq(Request)
    /\ Len(woken) <= 1
    /\ activeChromiumCount + Len(woken) <= MAX_CONCURRENT_CHROMIUM
    /\ Cardinality(Pool!Running) <= activeChromiumCount

LEMMA RunningFinite ==
    ASSUME DocumentsAssumption
    PROVE  IsFiniteSet(Pool!Running) /\ Cardinality(Pool!Running) \in Nat
<1>1. Pool!Running \subseteq Request
  BY DEF Pool!Running
<1> QED BY <1>1, FS_Subset, FS_CardinalityType DEF DocumentsAssumption

LEMMA OneMore ==
    ASSUME NEW S, IsFiniteSet(S), NEW x
    PROVE  Cardinality(S \cup {x}) \in Nat /\ Cardinality(S \cup {x}) <= Cardinality(S) + 1
<1>1. Cardinality(S) \in Nat
  BY FS_CardinalityType
<1>2. Cardinality(S \cup {x}) = IF x \in S THEN Cardinality(S) ELSE Cardinality(S) + 1
  BY FS_AddElement
<1> QED BY <1>1, <1>2

LEMMA SlotsInit == ASSUME DocumentsAssumption, Pool!Init PROVE Slots
<1>1. Pool!Running = {}
  BY DEF Pool!Running, Pool!Init
<1> QED BY <1>1, FS_EmptySet DEF Slots, Pool!Init, DocumentsAssumption

\* A request takes a free slot or joins the queue.
LEMMA SlotsArrive ==
    ASSUME DocumentsAssumption, Slots, NEW r \in Request, Pool!Arrive(r)
    PROVE  Slots'
<1>1. CASE activeChromiumCount < MAX_CONCURRENT_CHROMIUM
  <2>1. /\ activeChromiumCount' = activeChromiumCount + 1
        /\ pc' = [pc EXCEPT ![r] = "browser"]
        /\ UNCHANGED <<chromiumWaitQueue, woken>> /\ woken = <<>>
    BY <1>1 DEF Pool!Arrive, Pool!acquireChromiumSlot
  <2>2. (Pool!Running)' = Pool!Running \cup {r}
    BY <2>1 DEF Pool!Running, Slots
  <2>3. /\ Cardinality((Pool!Running)') \in Nat
        /\ Cardinality((Pool!Running)') <= Cardinality(Pool!Running) + 1
    BY <2>2, RunningFinite, OneMore
  <2>4. Cardinality((Pool!Running)') <= activeChromiumCount'
    BY <2>1, <2>3, RunningFinite DEF Slots
  <2>5. pc' \in [Request -> {"away", "waiting", "browser"}]
    BY <2>1 DEF Slots
  <2>6. activeChromiumCount' \in Nat /\ activeChromiumCount' + Len(woken') <= MAX_CONCURRENT_CHROMIUM
    BY <1>1, <2>1 DEF Slots, DocumentsAssumption
  <2> QED BY <2>1, <2>4, <2>5, <2>6 DEF Slots
<1>2. CASE ~(activeChromiumCount < MAX_CONCURRENT_CHROMIUM)
  <2>1. /\ chromiumWaitQueue' = Append(chromiumWaitQueue, r)
        /\ pc' = [pc EXCEPT ![r] = "waiting"] /\ pc[r] = "away"
        /\ UNCHANGED <<activeChromiumCount, woken>>
    BY <1>2 DEF Pool!Arrive, Pool!acquireChromiumSlot
  <2>2. (Pool!Running)' = Pool!Running
    BY <2>1 DEF Pool!Running, Slots
  <2>3. chromiumWaitQueue' \in Seq(Request)
    BY <2>1 DEF Slots
  <2> QED BY <2>1, <2>2, <2>3 DEF Slots
<1> QED BY <1>1, <1>2

\* A woken request counts itself.
LEMMA SlotsResume == ASSUME DocumentsAssumption, Slots, Pool!Resume PROVE Slots'
<1>1. Head(woken) \in Request /\ woken' = <<>> /\ Len(woken) = 1
  <2>1. woken # <<>> /\ woken' = Tail(woken) /\ woken \in Seq(Request) /\ Len(woken) <= 1
    BY DEF Pool!Resume, Slots
  <2>2. Len(woken) = 1 /\ Head(woken) \in Request
    <3>1. Len(woken) \in Nat
      BY <2>1, LenProperties
    <3>2. Len(woken) # 0
      BY <2>1, EmptySeq
    <3>3. Len(woken) = 1
      <4>1. \A n \in Nat : n <= 1 /\ n # 0 => n = 1
        OBVIOUS
      <4> QED BY <2>1, <3>1, <3>2, <4>1, Zenon
    <3>4. Head(woken) \in Request
      BY <2>1, HeadTailProperties
    <3> QED BY <3>3, <3>4
  <2>3. Tail(woken) \in Seq(Request) /\ Len(Tail(woken)) = 0
    BY <2>1, <2>2, HeadTailProperties
  <2>4. Tail(woken) = <<>>
    BY <2>3, EmptySeq
  <2> QED BY <2>1, <2>2, <2>4
<1>2. (Pool!Running)' = Pool!Running \cup {Head(woken)}
  BY <1>1 DEF Pool!Running, Slots, Pool!Resume
<1>3. /\ Cardinality((Pool!Running)') \in Nat
      /\ Cardinality((Pool!Running)') <= Cardinality(Pool!Running) + 1
  BY <1>2, RunningFinite, OneMore
<1>4. activeChromiumCount' = activeChromiumCount + 1 /\ UNCHANGED chromiumWaitQueue
  BY DEF Pool!Resume
<1>5. Cardinality((Pool!Running)') <= activeChromiumCount'
  BY <1>3, <1>4, RunningFinite DEF Slots
<1>6. /\ activeChromiumCount' \in Nat /\ woken' \in Seq(Request) /\ Len(woken') <= 1
      /\ activeChromiumCount' + Len(woken') <= MAX_CONCURRENT_CHROMIUM
  BY <1>1, <1>4 DEF Slots, DocumentsAssumption
<1>7. pc' \in [Request -> {"away", "waiting", "browser"}]
  BY <1>1 DEF Slots, Pool!Resume
<1> QED BY <1>4, <1>5, <1>6, <1>7 DEF Slots

\* A slot is given back, and the first in the queue woken.
LEMMA SlotsRelease ==
    ASSUME DocumentsAssumption, Slots, NEW r \in Request, Pool!generatePdfFromHtml(r)
    PROVE  Slots'
<1>1. /\ woken = <<>> /\ pc[r] = "browser" /\ pc' = [pc EXCEPT ![r] = "away"]
      /\ activeChromiumCount' = activeChromiumCount - 1
  BY DEF Pool!generatePdfFromHtml, Pool!releaseChromiumSlot
<1>2. (Pool!Running)' = Pool!Running \ {r} /\ r \in Pool!Running
  BY <1>1 DEF Pool!Running, Slots
<1>3. Cardinality((Pool!Running)') = Cardinality(Pool!Running) - 1
  BY <1>2, RunningFinite, FS_RemoveElement
<1>4. Cardinality(Pool!Running) # 0
  BY <1>2, RunningFinite, FS_EmptySet
<1>5. /\ activeChromiumCount' \in Nat /\ Cardinality((Pool!Running)') <= activeChromiumCount'
      /\ activeChromiumCount' + 1 <= MAX_CONCURRENT_CHROMIUM
  BY <1>1, <1>3, <1>4, RunningFinite DEF Slots, DocumentsAssumption
<1>6. /\ woken' \in Seq(Request) /\ Len(woken') <= 1 /\ chromiumWaitQueue' \in Seq(Request)
  <2>1. CASE chromiumWaitQueue = <<>>
    BY <1>1, <2>1 DEF Pool!generatePdfFromHtml, Pool!releaseChromiumSlot, Slots
  <2>2. CASE chromiumWaitQueue # <<>>
    <3>1. Head(chromiumWaitQueue) \in Request /\ Tail(chromiumWaitQueue) \in Seq(Request)
      BY <2>2 DEF Slots
    <3>2. /\ woken' = Append(<<>>, Head(chromiumWaitQueue))
          /\ chromiumWaitQueue' = Tail(chromiumWaitQueue)
      BY <1>1, <2>2 DEF Pool!generatePdfFromHtml, Pool!releaseChromiumSlot
    <3> QED BY <3>1, <3>2
  <2> QED BY <2>1, <2>2
<1> QED BY <1>1, <1>5, <1>6 DEF Slots, DocumentsAssumption

LEMMA SlotsSame == ASSUME Slots, UNCHANGED pool PROVE Slots'
BY DEF Slots, pool, Pool!Running

LEMMA SlotsStep == ASSUME DocumentsAssumption, Slots, [Next]_vars PROVE Slots'
<1>1. CASE UNCHANGED vars
  BY <1>1, SlotsSame DEF vars
<1>2. CASE Rows
  BY <1>2, SlotsSame DEF Rows, createDocument, updateDocument, deleteDocument
<1>3. ASSUME NEW r \in Request, Uploads(r) \/ Fails(r) PROVE Slots'
  BY <1>3, SlotsSame DEF Uploads, Fails, uploadDocumentFile, saveDocumentFile, NameFile,
     deleteDocumentFile
<1>4. ASSUME NEW r \in Request, Prints(r) PROVE Slots'
  <2>1. ASSUME NEW j, Draws(r, j) PROVE Slots'
    BY <2>1, SlotsSame, SlotsArrive DEF Draws
  <2>2. CASE Drawn(r)
    BY <2>2, SlotsRelease DEF Drawn
  <2>3. CASE LookUp(r) \/ IssueRow(r) \/ IssueAgain(r) \/ \E d \in Document : IssueNew(r, d)
    BY <2>3, SlotsSame DEF LookUp, IssueRow, IssueAgain, IssueNew
  <2> QED BY <1>4, <2>1, <2>2, <2>3 DEF Prints, generatePdf, regeneratePdf
<1>5. CASE Resume
  BY <1>5, SlotsResume DEF Resume
<1>6. CASE Restart
  <2>1. (Pool!Running)' = {}
    BY <1>6 DEF Restart, Pool!Running
  <2> QED BY <1>6, <2>1, FS_EmptySet DEF Restart, Slots, DocumentsAssumption
<1> QED BY <1>1, <1>2, <1>3, <1>4, <1>5, <1>6 DEF Next

\* Never more browsers than the pool allows, for any limit and any number of requests.
THEOREM NoMoreBrowsers == ASSUME DocumentsAssumption PROVE Spec => []AtMostTwo
<1>1. Init => Slots
  BY SlotsInit DEF Init
<1>2. Slots /\ [Next]_vars => Slots'
  BY SlotsStep
<1>3. Slots => AtMostTwo
  <2>1. SUFFICES ASSUME Slots PROVE AtMostTwo
    OBVIOUS
  <2>2. Len(woken) \in Nat
    BY <2>1, LenProperties DEF Slots
  <2>3. Cardinality(Pool!Running) <= MAX_CONCURRENT_CHROMIUM
    BY <2>1, <2>2, RunningFinite DEF Slots, DocumentsAssumption
  <2> QED BY <2>3 DEF AtMostTwo
<1> QED BY <1>1, <1>2, <1>3, PTL DEF Spec

-----------------------------------------------------------------------------
(* Rows, files and requests *)

Job == [pc : {"none", "upload", "saved", "named", "browser", "drawn", "issue"},
        doc : Document \cup {Null}, previous : Key \cup {Null}, key : Key \cup {Null},
        template : Template \cup {Null}, again : BOOLEAN]
DocRow == [state : {"none", "live", "deleted"}, template : Template \cup {Null},
           data : Template \cup {Null}, key : Key \cup {Null}, issued : BOOLEAN]

Types ==
    /\ doc \in [Document -> DocRow] /\ req \in [Request -> Job]
    /\ file \subseteq Key /\ edited \subseteq Document

LEMMA NoJobIsJob == NoJob \in Job
BY DEF NoJob, Job

LEMMA TypesInit == Init => Types
BY NoJobIsJob DEF Init, Types, NoDoc, DocRow

\* Moving one request keeps the requests typed.
LEMMA GoesTyped ==
    ASSUME Types, NEW r \in Request, NEW j \in Job, Goes(r, j)
    PROVE  req' \in [Request -> Job]
BY DEF Types, Goes

LEMMA TypesStep == ASSUME Types, [Next]_vars PROVE Types'
<1>1. CASE UNCHANGED vars
  BY <1>1 DEF vars, Types
<1>2. CASE Rows
  <2>1. PICK d \in Document, x \in DocRow : doc' = [doc EXCEPT ![d] = x]
    <3>1. ASSUME NEW d \in Document, NEW t \in Template \cup {Null},
                 NEW content \in Template \cup {Null}, createDocument(d, t, content)
          PROVE  \E x \in DocRow : doc' = [doc EXCEPT ![d] = x]
      <4>1. [NoDoc EXCEPT !.state = "live", !.template = t, !.data = content] \in DocRow
        BY DEF NoDoc, DocRow
      <4> QED BY <3>1, <4>1 DEF createDocument
    <3>2. ASSUME NEW d \in Document, NEW content \in Template \cup {Null}, updateDocument(d, content)
          PROVE  \E x \in DocRow : doc' = [doc EXCEPT ![d] = x]
      <4>1. [doc[d] EXCEPT !.data = content] \in DocRow
        BY DEF Types, DocRow
      <4> QED BY <3>2, <4>1 DEF updateDocument
    <3>3. ASSUME NEW d \in Document, deleteDocument(d)
          PROVE  \E x \in DocRow : doc' = [doc EXCEPT ![d] = x]
      <4>1. [doc[d] EXCEPT !.state = "deleted"] \in DocRow
        BY DEF Types, DocRow
      <4> QED BY <3>3, <4>1 DEF deleteDocument
    <3> QED BY <1>2, <3>1, <3>2, <3>3 DEF Rows
  <2>2. doc' \in [Document -> DocRow]
    BY <2>1 DEF Types
  <2>3. UNCHANGED <<file, req>> /\ edited' \subseteq Document
    BY <1>2 DEF Rows, createDocument, updateDocument, deleteDocument, Types
  <2> QED BY <2>2, <2>3 DEF Types
<1>3. ASSUME NEW r \in Request, Uploads(r) \/ Fails(r) PROVE Types'
  <2>1. ASSUME NEW d \in Document, uploadDocumentFile(r, d) PROVE Types'
    <3> DEFINE j == [NoJob EXCEPT !.pc = "upload", !.doc = d, !.previous = doc[d].key]
    <3>1. doc[d].key \in Key \cup {Null}
      BY DEF Types, DocRow
    <3>2. j \in Job
      BY <3>1, NoJobIsJob DEF Job, NoJob
    <3>3. Goes(r, j) /\ UNCHANGED <<doc, file, edited>>
      BY <2>1 DEF uploadDocumentFile
    <3>4. req' \in [Request -> Job]
      BY <3>2, <3>3, GoesTyped
    <3> QED BY <3>3, <3>4 DEF Types
  <2>2. ASSUME NEW k \in Key, saveDocumentFile(r, k) PROVE Types'
    <3>1. [req[r] EXCEPT !.pc = "saved", !.key = k] \in Job
      BY DEF Types, Job
    <3>2. req' \in [Request -> Job]
      BY <2>2, <3>1, GoesTyped DEF saveDocumentFile
    <3> QED BY <2>2, <3>2 DEF Types, saveDocumentFile
  <2>3. CASE NameFile(r)
    <3>1. [req[r] EXCEPT !.pc = "named"] \in Job /\ req[r].key \in Key \cup {Null}
      BY DEF Types, Job
    <3>2. req' \in [Request -> Job]
      BY <2>3, <3>1, GoesTyped DEF NameFile
    <3>3. doc' \in [Document -> DocRow]
      BY <2>3, <3>1 DEF NameFile, Types, DocRow
    <3> QED BY <2>3, <3>2, <3>3 DEF Types, NameFile
  <2>4. CASE deleteDocumentFile(r) \/ Fails(r)
    <3>1. req' \in [Request -> Job]
      BY <2>4, NoJobIsJob, GoesTyped DEF deleteDocumentFile, Fails, Ends
    <3> QED BY <2>4, <3>1 DEF deleteDocumentFile, Fails, Types
  <2> QED BY <1>3, <2>1, <2>2, <2>3, <2>4 DEF Uploads
<1>4. ASSUME NEW r \in Request, Prints(r) PROVE Types'
  <2>1. ASSUME NEW j \in Job, Draws(r, j), UNCHANGED <<doc, file, edited>> PROVE Types'
    <3>1. [j EXCEPT !.pc = IF j.template \in Form THEN "drawn" ELSE "browser"] \in Job
      BY DEF Job
    <3>2. req' \in [Request -> Job]
      BY <2>1, <3>1, GoesTyped DEF Draws
    <3> QED BY <2>1, <3>2 DEF Types
  <2>2. ASSUME NEW t \in Template, NEW d \in Document \cup {Null}, generatePdf(r, t, d)
        PROVE  Types'
    <3>1. [NoJob EXCEPT !.template = t, !.doc = d] \in Job
      BY DEF Job, NoJob
    <3> QED BY <2>1, <2>2, <3>1 DEF generatePdf
  <2>3. ASSUME NEW d \in Document, regeneratePdf(r, d) PROVE Types'
    <3>1. doc[d].template \in Template \cup {Null}
      BY DEF Types, DocRow
    <3>2. [NoJob EXCEPT !.template = doc[d].template, !.doc = d, !.again = TRUE] \in Job
      BY <3>1 DEF Job, NoJob
    <3> QED BY <2>1, <2>3, <3>2 DEF regeneratePdf
  <2>4. CASE Drawn(r) \/ LookUp(r)
    <3>1. \A x \in {"drawn", "issue"} : [req[r] EXCEPT !.pc = x] \in Job
      BY DEF Types, Job
    <3>2. req' \in [Request -> Job]
      BY <2>4, <3>1, NoJobIsJob, GoesTyped DEF Drawn, LookUp, Ends
    <3> QED BY <2>4, <3>2 DEF Drawn, LookUp, Types
  <2>5. CASE IssueRow(r) \/ IssueAgain(r) \/ \E d \in Document : IssueNew(r, d)
    <3>1. req' \in [Request -> Job]
      BY <2>5, NoJobIsJob, GoesTyped DEF IssueRow, IssueAgain, IssueNew, Ends
    <3>2. req[r].template \in Template \cup {Null}
      BY DEF Types, Job
    <3>3. \A x \in DocRow : Issued(x, req[r].template) \in DocRow
      BY <3>2 DEF Issued, DocRow
    <3>4. [NoDoc EXCEPT !.state = "live"] \in DocRow
      BY DEF NoDoc, DocRow
    <3>5. CASE IssueRow(r)
      BY <3>1, <3>3, <3>5 DEF IssueRow, Types
    <3>6. CASE IssueAgain(r)
      <4>1. \A x \in DocRow : [x EXCEPT !.issued = TRUE] \in DocRow
        BY DEF DocRow
      <4> QED BY <3>1, <3>6, <4>1 DEF IssueAgain, Types
    <3>7. CASE \E d \in Document : IssueNew(r, d)
      BY <3>1, <3>3, <3>4, <3>7 DEF IssueNew, Types
    <3> QED BY <2>5, <3>5, <3>6, <3>7
  <2> QED BY <1>4, <2>2, <2>3, <2>4, <2>5 DEF Prints
<1>5. CASE Resume
  BY <1>5 DEF Resume, Types
<1>6. CASE Restart
  BY <1>6, NoJobIsJob DEF Restart, Types
<1> QED BY <1>1, <1>2, <1>3, <1>4, <1>5, <1>6 DEF Next

-----------------------------------------------------------------------------
(* Issues *)

Good(d) == Parses(doc[d]) \/ d \in edited

\* A PDF drawn again is of a row whose content was accepted and may only have been replaced by
\* the office or by another issue since; any other has a template.
Printable ==
    /\ Regenerable
    /\ \A r \in Request : req[r].again => req[r].doc \in Document /\ Good(req[r].doc)
    /\ \A r \in Request :
          req[r].pc \in {"browser", "drawn", "issue"} => req[r].again \/ req[r].template \in Template
    /\ \A r \in Request : req[r].pc = "issue" => ~req[r].again

LEMMA PrintableInit == Init => Printable
BY DEF Init, NoDoc, NoJob, Printable, Regenerable

\* A row with the same template and content is as good as before.
LEMMA ParsesAlike ==
    ASSUME NEW x, NEW y, x.template = y.template, x.data = y.data, Parses(x)
    PROVE  Parses(y)
BY DEF Parses

LEMMA IssuedParses ==
    ASSUME DocumentsAssumption, NEW x \in DocRow, NEW t \in Template
    PROVE  Parses(Issued(x, t))
<1>1. Issued(x, t).template = t /\ Issued(x, t).data = t /\ t # Null
  BY DEF Issued, DocRow, DocumentsAssumption
<1> QED BY <1>1 DEF Parses

\* One row is written, and it is edited, or has what it had, or has what was drawn.  It names
\* the file it named, or none.
Writes(e, x) ==
    /\ doc' = [doc EXCEPT ![e] = x] /\ x.key \in {doc[e].key, Null}
    /\ \/ edited' = edited \cup {e}
       \/ Parses(x) /\ edited' \in {edited, edited \ {e}}
       \/ /\ edited' = edited /\ x.template = doc[e].template /\ x.data = doc[e].data
          /\ x.issued => doc[e].issued \/ Good(e)

\* Such a write leaves every row that was good good, and issues no other row.
LEMMA WritesGood ==
    ASSUME Types, Regenerable, NEW e \in Document, NEW x \in DocRow, Writes(e, x)
    PROVE  Regenerable' /\ \A d \in Document : Good(d) => Good(d)'
<1>1. doc'[e] = x /\ \A d \in Document \ {e} : doc'[d] = doc[d]
  BY DEF Writes, Types
<1>2. \A d \in Document \ {e} : (d \in edited') <=> (d \in edited)
  BY DEF Writes
<1>3. CASE edited' = edited \cup {e}
  BY <1>1, <1>2, <1>3 DEF Regenerable, Good
<1>4. CASE Parses(x) /\ edited' \in {edited, edited \ {e}}
  BY <1>1, <1>2, <1>4 DEF Regenerable, Good
<1>5. CASE /\ edited' = edited /\ x.template = doc[e].template /\ x.data = doc[e].data
           /\ x.issued => doc[e].issued \/ Good(e)
  <2>1. Parses(x) <=> Parses(doc[e])
    BY <1>5, ParsesAlike
  <2> QED BY <1>1, <1>2, <1>5, <2>1 DEF Regenerable, Good
<1> QED BY <1>3, <1>4, <1>5 DEF Writes


\* Every step that writes template or content is such a write.
LEMMA RowsWrite ==
    ASSUME DocumentsAssumption, Types, Printable,
           \/ Rows
           \/ \E r \in Request :
                IssueRow(r) \/ IssueAgain(r) \/ \E d \in Document : IssueNew(r, d)
    PROVE  \/ doc' = doc /\ edited' = edited
           \/ \E e \in Document, x \in DocRow : Writes(e, x)
<1>1. ASSUME NEW d \in Document, NEW t \in Template \cup {Null},
             NEW content \in Template \cup {Null}, createDocument(d, t, content)
      PROVE  \E e \in Document, x \in DocRow : Writes(e, x)
  <2> DEFINE x == [NoDoc EXCEPT !.state = "live", !.template = t, !.data = content]
  <2>1. x \in DocRow /\ x.key = Null
    BY DEF NoDoc, DocRow
  <2>2. doc' = [doc EXCEPT ![d] = x] /\ edited' = edited \cup {d}
    BY <1>1 DEF createDocument
  <2> HIDE DEF x
  <2> QED BY <2>1, <2>2 DEF Writes
<1>2. ASSUME NEW d \in Document, NEW content \in Template \cup {Null}, updateDocument(d, content)
      PROVE  \E e \in Document, x \in DocRow : Writes(e, x)
  <2> DEFINE x == [doc[d] EXCEPT !.data = content]
  <2>1. x \in DocRow /\ x.key = doc[d].key
    BY DEF Types, DocRow
  <2>2. doc' = [doc EXCEPT ![d] = x] /\ edited' = edited \cup {d}
    BY <1>2 DEF updateDocument
  <2> HIDE DEF x
  <2> QED BY <2>1, <2>2 DEF Writes
<1>3. ASSUME NEW d \in Document, deleteDocument(d)
      PROVE  \E e \in Document, x \in DocRow : Writes(e, x)
  <2> DEFINE x == [doc[d] EXCEPT !.state = "deleted"]
  <2>1. /\ x \in DocRow /\ x.template = doc[d].template /\ x.data = doc[d].data
        /\ x.issued = doc[d].issued /\ x.key = doc[d].key
    BY DEF Types, DocRow
  <2>2. doc' = [doc EXCEPT ![d] = x] /\ edited' = edited
    BY <1>3 DEF deleteDocument
  <2> HIDE DEF x
  <2> QED BY <2>1, <2>2 DEF Writes
<1>4. ASSUME NEW r \in Request, IssueRow(r)
      PROVE  \/ doc' = doc /\ edited' = edited
             \/ \E e \in Document, x \in DocRow : Writes(e, x)
  <2> DEFINE e == req[r].doc
             x == Issued(doc[e], req[r].template)
  <2>1. doc' = [doc EXCEPT ![e] = x] /\ edited' = edited \ {e}
    BY <1>4 DEF IssueRow
  <2>2. CASE e \in Document
    <3>1. req[r].template \in Template /\ doc[e] \in DocRow
      BY <1>4, <2>2 DEF IssueRow, Printable, Types
    <3>2. x \in DocRow /\ x.key = doc[e].key
      BY <3>1 DEF Issued, DocRow
    <3>3. Parses(x)
      BY <3>1, IssuedParses
    <3> HIDE DEF x
    <3> QED BY <2>1, <2>2, <3>2, <3>3 DEF Writes
  <2>3. CASE e \notin Document
    BY <2>1, <2>3 DEF Types
  <2> QED BY <2>2, <2>3
<1>5. ASSUME NEW r \in Request, IssueAgain(r)
      PROVE  \E e \in Document, x \in DocRow : Writes(e, x)
  <2> DEFINE e == req[r].doc
             x == [doc[e] EXCEPT !.issued = TRUE]
  <2>1. doc' = [doc EXCEPT ![e] = x] /\ edited' = edited /\ e \in Document /\ Good(e)
    BY <1>5 DEF IssueAgain, Printable
  <2>2. \A y \in DocRow :
          LET z == [y EXCEPT !.issued = TRUE]
          IN  z \in DocRow /\ z.template = y.template /\ z.data = y.data /\ z.key = y.key
    BY DEF DocRow
  <2>3. /\ x \in DocRow /\ x.template = doc[e].template /\ x.data = doc[e].data
        /\ x.key = doc[e].key
    BY <2>1, <2>2 DEF Types
  <2> HIDE DEF x
  <2> QED BY <2>1, <2>3 DEF Writes
<1>6. ASSUME NEW r \in Request, NEW d \in Document, IssueNew(r, d)
      PROVE  \/ doc' = doc /\ edited' = edited
             \/ \E e \in Document, x \in DocRow : Writes(e, x)
  <2> DEFINE x == Issued([NoDoc EXCEPT !.state = "live"], req[r].template)
  <2>1. doc' = [doc EXCEPT ![d] = x] /\ edited' = edited
    BY <1>6 DEF IssueNew
  <2>2. ~req[r].again
    BY <1>6 DEF IssueNew, Printable, DocumentsAssumption
  <2>3. req[r].template \in Template
    BY <1>6, <2>2 DEF IssueNew, Printable
  <2>4. [NoDoc EXCEPT !.state = "live"] \in DocRow /\ [NoDoc EXCEPT !.state = "live"].key = Null
    BY DEF NoDoc, DocRow
  <2>5. x \in DocRow /\ x.key = Null
    BY <2>3, <2>4 DEF Issued, DocRow
  <2>6. Parses(x)
    BY <2>3, <2>4, IssuedParses
  <2> HIDE DEF x
  <2> QED BY <2>1, <2>5, <2>6 DEF Writes
<1> QED BY <1>1, <1>2, <1>3, <1>4, <1>5, <1>6 DEF Rows

Printing == {"browser", "drawn", "issue"}

\* A request goes on with what it has, or starts afresh.
Moves(i, j) ==
    \/ /\ j.again = i.again /\ j.doc = i.doc /\ j.template = i.template
       /\ j.pc \in Printing => i.pc \in Printing
       /\ j.pc = "issue" => i.pc = "issue" \/ ~i.again
    \/ ~j.again /\ (j.pc \in Printing => j.template \in Template)
    \/ j.again /\ j.pc # "issue" /\ j.doc \in Document /\ Good(j.doc)

LEMMA PrintableMoves ==
    ASSUME Printable, Regenerable', \A d \in Document : Good(d) => Good(d)',
           \A r \in Request : Moves(req[r], req'[r])
    PROVE  Printable'
<1>1. \A r \in Request : (req[r].again => req[r].doc \in Document /\ Good(req[r].doc))'
  BY DEF Printable, Good, Moves
<1>2. \A r \in Request :
        req'[r].pc \in {"browser", "drawn", "issue"}
        => req'[r].again \/ req'[r].template \in Template
  BY DEF Printable, Moves, Printing
<1>3. \A r \in Request : req'[r].pc = "issue" => ~req'[r].again
  BY DEF Printable, Moves
<1> QED BY <1>1, <1>2, <1>3 DEF Printable

LEMMA PrintableGoes ==
    ASSUME Types, Printable, Regenerable', \A d \in Document : Good(d) => Good(d)',
           NEW r \in Request, NEW j, Goes(r, j), Moves(req[r], j)
    PROVE  Printable'
<1>1. \A s \in Request : req'[s] = IF s = r THEN j ELSE req[s]
  BY DEF Goes, Types
<1>2. \A s \in Request : Moves(req[s], req'[s])
  BY <1>1 DEF Moves
<1> QED BY <1>2, PrintableMoves

LEMMA PrintableStep ==
    ASSUME DocumentsAssumption, Types, Printable, [Next]_vars
    PROVE  Printable'
<1>0. \A i : Moves(i, i) /\ Moves(i, NoJob)
  BY DEF NoJob, Moves, Printing
<1>1. ASSUME doc' = doc, edited' = edited
      PROVE  Regenerable' /\ \A d \in Document : Good(d) => Good(d)'
  BY <1>1 DEF Printable, Regenerable, Good
<1>2. ASSUME \/ Rows
             \/ \E r \in Request :
                  IssueRow(r) \/ IssueAgain(r) \/ \E d \in Document : IssueNew(r, d)
      PROVE  Regenerable' /\ \A d \in Document : Good(d) => Good(d)'
  <2>1. CASE doc' = doc /\ edited' = edited
    BY <1>1, <2>1
  <2>2. ASSUME NEW e \in Document, NEW x \in DocRow, Writes(e, x)
        PROVE  Regenerable' /\ \A d \in Document : Good(d) => Good(d)'
    BY <2>2, WritesGood DEF Printable
  <2> QED BY <1>2, <2>1, <2>2, RowsWrite
<1>3. CASE UNCHANGED vars
  <2>1. doc' = doc /\ edited' = edited /\ req' = req
    BY <1>3 DEF vars
  <2> QED BY <1>0, <1>1, <2>1, PrintableMoves
<1>4. CASE Rows
  <2>1. req' = req
    BY <1>4 DEF Rows, createDocument, updateDocument, deleteDocument
  <2>2. Regenerable' /\ \A d \in Document : Good(d) => Good(d)'
    BY <1>2, <1>4
  <2> QED BY <1>0, <2>1, <2>2, PrintableMoves
<1>5. ASSUME NEW r \in Request, Uploads(r) \/ Fails(r) PROVE Printable'
  <2>1. ASSUME NEW d \in Document, uploadDocumentFile(r, d) PROVE Printable'
    <3> DEFINE j == [NoJob EXCEPT !.pc = "upload", !.doc = d, !.previous = doc[d].key]
    <3>1. j.again = FALSE /\ j.pc = "upload"
      BY DEF NoJob
    <3> HIDE DEF j
    <3>2. Moves(req[r], j)
      BY <3>1 DEF Moves, Printing
    <3>3. Goes(r, j) /\ doc' = doc /\ edited' = edited
      BY <2>1 DEF uploadDocumentFile, j
    <3> QED BY <1>1, <3>2, <3>3, PrintableGoes
  <2>2. ASSUME NEW k \in Key, saveDocumentFile(r, k) PROVE Printable'
    <3> DEFINE j == [req[r] EXCEPT !.pc = "saved", !.key = k]
    <3>1. /\ j.again = req[r].again /\ j.doc = req[r].doc /\ j.template = req[r].template
          /\ j.pc = "saved"
      BY DEF Types, Job
    <3> HIDE DEF j
    <3>2. Moves(req[r], j)
      BY <3>1 DEF Moves, Printing
    <3>3. Goes(r, j) /\ doc' = doc /\ edited' = edited
      BY <2>2 DEF saveDocumentFile, j
    <3> QED BY <1>1, <3>2, <3>3, PrintableGoes
  <2>3. CASE NameFile(r)
    <3> DEFINE j == [req[r] EXCEPT !.pc = "named"]
    <3>1. /\ j.again = req[r].again /\ j.doc = req[r].doc /\ j.template = req[r].template
          /\ j.pc = "named"
      BY DEF Types, Job
    <3> HIDE DEF j
    <3>2. Moves(req[r], j)
      BY <3>1 DEF Moves, Printing
    <3>3. Goes(r, j) /\ edited' = edited /\ doc' = [doc EXCEPT ![req[r].doc].key = req[r].key]
      BY <2>3 DEF NameFile, j
    <3>4. \A d \in Document :
            /\ doc'[d].template = doc[d].template /\ doc'[d].data = doc[d].data
            /\ doc'[d].issued = doc[d].issued
      BY <3>3 DEF Types, DocRow
    <3>5. \A d \in Document : Parses(doc'[d]) <=> Parses(doc[d])
      BY <3>4, ParsesAlike
    <3>6. Regenerable' /\ \A d \in Document : Good(d) => Good(d)'
      BY <3>3, <3>4, <3>5 DEF Printable, Regenerable, Good
    <3> QED BY <3>2, <3>3, <3>6, PrintableGoes
  <2>4. CASE deleteDocumentFile(r) \/ Fails(r)
    <3>1. Goes(r, NoJob) /\ doc' = doc /\ edited' = edited
      BY <2>4 DEF deleteDocumentFile, Fails, Ends
    <3> QED BY <1>0, <1>1, <3>1, PrintableGoes
  <2> QED BY <1>5, <2>1, <2>2, <2>3, <2>4 DEF Uploads
<1>6. ASSUME NEW r \in Request, Prints(r) PROVE Printable'
  <2>1. ASSUME NEW j \in Job, Draws(r, j), doc' = doc, edited' = edited,
               IF j.again THEN j.doc \in Document /\ Good(j.doc) ELSE j.template \in Template
        PROVE  Printable'
    <3> DEFINE i == [j EXCEPT !.pc = IF j.template \in Form THEN "drawn" ELSE "browser"]
    <3>1. i.again = j.again /\ i.doc = j.doc /\ i.template = j.template /\ i.pc # "issue"
      BY DEF Job
    <3>2. Goes(r, i)
      BY <2>1 DEF Draws
    <3> HIDE DEF i
    <3>3. Moves(req[r], i)
      BY <2>1, <3>1 DEF Moves
    <3> QED BY <1>1, <2>1, <3>2, <3>3, PrintableGoes
  <2>2. ASSUME NEW t \in Template, NEW d \in Document \cup {Null}, generatePdf(r, t, d)
        PROVE  Printable'
    <3> DEFINE j == [NoJob EXCEPT !.template = t, !.doc = d]
    <3>1. j \in Job /\ j.again = FALSE /\ j.template = t
      BY DEF Job, NoJob
    <3>2. Draws(r, j) /\ doc' = doc /\ edited' = edited
      BY <2>2 DEF generatePdf
    <3> HIDE DEF j
    <3> QED BY <2>1, <3>1, <3>2
  <2>3. ASSUME NEW d \in Document, regeneratePdf(r, d) PROVE Printable'
    <3> DEFINE j == [NoJob EXCEPT !.template = doc[d].template, !.doc = d, !.again = TRUE]
    <3>1. doc[d].template \in Template \cup {Null}
      BY DEF Types, DocRow
    <3>2. j \in Job /\ j.again = TRUE /\ j.doc = d
      BY <3>1 DEF Job, NoJob
    <3>3. Draws(r, j) /\ doc' = doc /\ edited' = edited /\ Good(d)
      BY <2>3 DEF regeneratePdf, Good
    <3> HIDE DEF j
    <3> QED BY <2>1, <3>2, <3>3
  <2>4. CASE Drawn(r) \/ LookUp(r)
    <3>1. doc' = doc /\ edited' = edited
      BY <2>4 DEF Drawn, LookUp
    <3>2. CASE Goes(r, NoJob)
      BY <1>0, <1>1, <3>1, <3>2, PrintableGoes
    <3>3. ASSUME NEW x \in {"drawn", "issue"}, Goes(r, [req[r] EXCEPT !.pc = x]),
                 req[r].pc \in Printing, x = "issue" => ~req[r].again
          PROVE  Printable'
      <4> DEFINE j == [req[r] EXCEPT !.pc = x]
      <4>1. /\ j.again = req[r].again /\ j.doc = req[r].doc /\ j.template = req[r].template
            /\ j.pc = x
        BY DEF Types, Job
      <4>2. Goes(r, j)
        BY <3>3
      <4> HIDE DEF j
      <4>3. Moves(req[r], j)
        BY <3>3, <4>1 DEF Moves
      <4> QED BY <1>1, <3>1, <4>2, <4>3, PrintableGoes
    <3> QED BY <2>4, <3>2, <3>3 DEF Drawn, LookUp, Ends, Printing
  <2>5. CASE IssueRow(r) \/ IssueAgain(r) \/ \E d \in Document : IssueNew(r, d)
    <3>1. Goes(r, NoJob)
      BY <2>5 DEF IssueRow, IssueAgain, IssueNew, Ends
    <3> QED BY <1>0, <1>2, <2>5, <3>1, PrintableGoes
  <2> QED BY <1>6, <2>2, <2>3, <2>4, <2>5 DEF Prints
<1>7. CASE Resume
  <2>1. doc' = doc /\ edited' = edited /\ req' = req
    BY <1>7 DEF Resume
  <2> QED BY <1>0, <1>1, <2>1, PrintableMoves
<1>8. CASE Restart
  <2>1. doc' = doc /\ edited' = edited /\ \A r \in Request : req'[r] = NoJob
    BY <1>8 DEF Restart
  <2> QED BY <1>0, <1>1, <2>1, PrintableMoves
<1> QED BY <1>3, <1>4, <1>5, <1>6, <1>7, <1>8 DEF Next

-----------------------------------------------------------------------------
(* Files *)

Uploading(r) == req[r].pc \in {"upload", "saved", "named"}

\* Each file is named by one row, is saved for one upload that has yet to name it, or is
\* nobody's any more.  An upload deletes a key that only its own row can have had.
Filed ==
    /\ FilesKept
    /\ \A d, e \in Document : d # e /\ doc[d].key # Null => doc[e].key # doc[d].key
    /\ \A r \in Request : req[r].pc = "saved" => req[r].key \in file
    /\ \A r \in Request, d \in Document : req[r].pc = "saved" => doc[d].key # req[r].key
    /\ \A r, s \in Request : req[r].pc = "saved" => req[s].previous # req[r].key
    /\ \A r, s \in Request :
          r # s /\ req[r].pc = "saved" /\ req[s].pc = "saved" => req[s].key # req[r].key
    /\ \A r \in Request, d \in Document :
          /\ Uploading(r) /\ req[r].previous # Null
          /\ d # req[r].doc \/ req[r].pc = "named"
          => doc[d].key # req[r].previous

LEMMA FiledInit == ASSUME DocumentsAssumption, Init PROVE Filed
BY DEF Init, NoDoc, NoJob, Filed, FilesKept, Uploading

\* Steps that neither save, name nor delete a file.
LEMMA FilesStill ==
    ASSUME Types, Types', Filed, file' = file,
           \A d \in Document : doc'[d].key \in {doc[d].key, Null},
           \A r \in Request :
              \/ req'[r] = req[r]
              \/ /\ req'[r].pc \notin {"upload", "saved", "named"}
                 /\ req'[r].previous \in {req[r].previous, Null},
           DocumentsAssumption
    PROVE  Filed'
<1>1. \A r \in Request : req'[r].pc = "saved" => req'[r] = req[r]
  OBVIOUS
<1>2. \A r \in Request : req'[r].pc = "saved" => req'[r].key # Null
  BY <1>1 DEF Filed, Types, DocumentsAssumption
<1>3. \A r \in Request : Uploading(r)' => req'[r] = req[r]
  BY DEF Uploading
<1>4. FilesKept'
  BY DEF Filed, FilesKept
<1>5. \A d, e \in Document : d # e /\ doc'[d].key # Null => doc'[e].key # doc'[d].key
  BY DEF Filed
<1>6. \A r \in Request : req'[r].pc = "saved" => req'[r].key \in file'
  BY <1>1 DEF Filed
<1>7. \A r \in Request, d \in Document : req'[r].pc = "saved" => doc'[d].key # req'[r].key
  BY <1>1, <1>2 DEF Filed
<1>8. \A r, s \in Request : req'[r].pc = "saved" => req'[s].previous # req'[r].key
  BY <1>1, <1>2 DEF Filed
<1>9. \A r, s \in Request :
        r # s /\ req'[r].pc = "saved" /\ req'[s].pc = "saved" => req'[s].key # req'[r].key
  BY <1>1 DEF Filed
<1>10. \A r \in Request, d \in Document :
          /\ Uploading(r)' /\ req'[r].previous # Null
          /\ d # req'[r].doc \/ req'[r].pc = "named"
          => doc'[d].key # req'[r].previous
  BY <1>3 DEF Filed, Uploading
<1> QED BY <1>4, <1>5, <1>6, <1>7, <1>8, <1>9, <1>10 DEF Filed

\* Ending a request, or moving a PDF on, is such a step.
LEMMA FilesStillGoes ==
    ASSUME Types, Types', Filed, DocumentsAssumption, file' = file,
           \A d \in Document : doc'[d].key \in {doc[d].key, Null},
           NEW r \in Request, NEW j \in Job, Goes(r, j),
           j.pc \notin {"upload", "saved", "named"},
           j.previous \in {req[r].previous, Null}
    PROVE  Filed'
<1>1. \A s \in Request :
        \/ req'[s] = req[s]
        \/ /\ req'[s].pc \notin {"upload", "saved", "named"}
           /\ req'[s].previous \in {req[s].previous, Null}
  BY DEF Goes, Types
<1> QED BY <1>1, FilesStill

LEMMA FiledUpload ==
    ASSUME Types, Types', Filed, DocumentsAssumption, NEW r \in Request,
           NEW d \in Document, uploadDocumentFile(r, d)
    PROVE  Filed'
<1> DEFINE j == [NoJob EXCEPT !.pc = "upload", !.doc = d, !.previous = doc[d].key]
<1>1. /\ j.pc = "upload" /\ j.doc = d /\ j.previous = doc[d].key
  BY DEF NoJob
<1> HIDE DEF j
<1>2. req' = [req EXCEPT ![r] = j] /\ UNCHANGED <<doc, file>>
  BY DEF uploadDocumentFile, Goes, j
<1>3. req'[r] = j /\ \A s \in Request \ {r} : req'[s] = req[s]
  BY <1>2 DEF Types
<1>4. \A s, t \in Request : req'[s].pc = "saved" => req'[t].previous # req'[s].key
  BY <1>1, <1>2, <1>3 DEF Filed
<1>5. \A s \in Request, e \in Document :
        /\ Uploading(s)' /\ req'[s].previous # Null
        /\ e # req'[s].doc \/ req'[s].pc = "named"
        => doc'[e].key # req'[s].previous
  BY <1>1, <1>2, <1>3 DEF Filed, Uploading
<1> QED BY <1>1, <1>2, <1>3, <1>4, <1>5 DEF Filed, FilesKept

LEMMA FiledSave ==
    ASSUME Types, Types', Filed, DocumentsAssumption, NEW r \in Request,
           NEW k \in Key, saveDocumentFile(r, k)
    PROVE  Filed'
<1> DEFINE j == [req[r] EXCEPT !.pc = "saved", !.key = k]
<1>1. /\ j.pc = "saved" /\ j.key = k /\ j.doc = req[r].doc
      /\ j.previous = req[r].previous
  BY DEF Types, Job
<1> HIDE DEF j
<1>2. /\ req' = [req EXCEPT ![r] = j] /\ doc' = doc /\ file' = file \cup {k}
      /\ req[r].pc = "upload"
  BY DEF saveDocumentFile, Goes, j
<1>3. req'[r] = j /\ \A s \in Request \ {r} : req'[s] = req[s]
  BY <1>2 DEF Types
<1>4. /\ k \notin file /\ \A d \in Document : doc[d].key # k
      /\ \A s \in Request : req[s].previous # k
  BY DEF saveDocumentFile, buildDocumentFileKey
<1>5. \A s, t \in Request : req'[s].pc = "saved" => req'[t].previous # req'[s].key
  BY <1>1, <1>2, <1>3, <1>4 DEF Filed
<1>6. \A s, t \in Request :
        s # t /\ req'[s].pc = "saved" /\ req'[t].pc = "saved" => req'[t].key # req'[s].key
  BY <1>1, <1>2, <1>3, <1>4 DEF Filed
<1>7. \A s \in Request, e \in Document :
        /\ Uploading(s)' /\ req'[s].previous # Null
        /\ e # req'[s].doc \/ req'[s].pc = "named"
        => doc'[e].key # req'[s].previous
  BY <1>1, <1>2, <1>3 DEF Filed, Uploading
<1> QED BY <1>1, <1>2, <1>3, <1>4, <1>5, <1>6, <1>7 DEF Filed, FilesKept

LEMMA FiledName ==
    ASSUME Types, Types', Filed, DocumentsAssumption, NEW r \in Request, NameFile(r)
    PROVE  Filed'
<1> DEFINE j == [req[r] EXCEPT !.pc = "named"]
           k == req[r].key
<1>1. /\ j.pc = "named" /\ j.key = k /\ j.doc = req[r].doc
      /\ j.previous = req[r].previous
  BY DEF Types, Job
<1> HIDE DEF j
<1>2. /\ req' = [req EXCEPT ![r] = j] /\ file' = file /\ req[r].pc = "saved"
      /\ doc' = [doc EXCEPT ![req[r].doc].key = k]
  BY DEF NameFile, Goes, j
<1>3. req'[r] = j /\ \A s \in Request \ {r} : req'[s] = req[s]
  BY <1>2 DEF Types
<1>4. \A d \in Document : doc'[d].key = IF d = req[r].doc THEN k ELSE doc[d].key
  BY <1>2 DEF Types, DocRow
<1>5. k \in file /\ \A d \in Document : doc[d].key # k
  BY <1>2 DEF Filed
<1>6. \A s \in Request : req[s].previous # k
  BY <1>2 DEF Filed
<1>7. \A s \in Request \ {r} : req[s].pc = "saved" => req[s].key # k
  BY <1>2 DEF Filed
<1> HIDE DEF k
<1>8. FilesKept'
  BY <1>2, <1>4, <1>5 DEF Filed, FilesKept
<1>9. \A d, e \in Document : d # e /\ doc'[d].key # Null => doc'[e].key # doc'[d].key
  BY <1>4, <1>5 DEF Filed
<1>10. \A s \in Request, d \in Document : req'[s].pc = "saved" => doc'[d].key # req'[s].key
  BY <1>1, <1>3, <1>4, <1>7 DEF Filed
<1>11. \A s, t \in Request : req'[s].pc = "saved" => req'[t].previous # req'[s].key
  BY <1>1, <1>3 DEF Filed
<1>12. \A s \in Request, e \in Document :
        /\ Uploading(s)' /\ req'[s].previous # Null
        /\ e # req'[s].doc \/ req'[s].pc = "named"
        => doc'[e].key # req'[s].previous
  <2> SUFFICES ASSUME NEW s \in Request, NEW e \in Document,
                      Uploading(s)', req'[s].previous # Null,
                      e # req'[s].doc \/ req'[s].pc = "named"
               PROVE  doc'[e].key # req'[s].previous
    OBVIOUS
  <2>1. req'[s].previous = req[s].previous /\ req'[s].doc = req[s].doc
    BY <1>1, <1>3
  <2>2. CASE e = req[r].doc
    BY <2>1, <2>2, <1>4, <1>6
  <2>3. CASE e # req[r].doc
    BY <2>1, <2>3, <1>1, <1>2, <1>3, <1>4 DEF Filed, Uploading
  <2> QED BY <2>2, <2>3
<1>13. \A s \in Request : req'[s].pc = "saved" => req'[s].key \in file'
  BY <1>1, <1>2, <1>3 DEF Filed
<1>14. \A s, t \in Request :
        s # t /\ req'[s].pc = "saved" /\ req'[t].pc = "saved" => req'[t].key # req'[s].key
  BY <1>1, <1>3 DEF Filed
<1> QED BY <1>8, <1>9, <1>10, <1>11, <1>12, <1>13, <1>14 DEF Filed

LEMMA FiledDelete ==
    ASSUME Types, Types', Filed, DocumentsAssumption, NEW r \in Request,
           deleteDocumentFile(r)
    PROVE  Filed'
<1>1. /\ NoJob.pc = "none" /\ NoJob.previous = Null
  BY DEF NoJob
<1>2. /\ req' = [req EXCEPT ![r] = NoJob] /\ doc' = doc /\ req[r].pc = "named"
      /\ file' \in {file, file \ Superseded(r)}
  BY DEF deleteDocumentFile, Ends, Goes
<1>3. req'[r] = NoJob /\ \A s \in Request \ {r} : req'[s] = req[s]
  BY <1>2 DEF Types
<1>4. \A k : k \in file /\ k \notin file' => k = req[r].previous /\ k # Null
  BY <1>2 DEF Superseded
<1>5. FilesKept'
  BY <1>2, <1>4 DEF Filed, FilesKept, Uploading
<1>6. \A s \in Request : req'[s].pc = "saved" => req'[s].key \in file'
  BY <1>1, <1>3, <1>4 DEF Filed
<1>7. \A s, t \in Request : req'[s].pc = "saved" => req'[t].previous # req'[s].key
  <2> SUFFICES ASSUME NEW s \in Request, NEW t \in Request, req'[s].pc = "saved"
               PROVE  req'[t].previous # req'[s].key
    OBVIOUS
  <2>1. s # r /\ req'[s] = req[s]
    BY <1>1, <1>3
  <2>2. req[s].key # Null
    BY <2>1 DEF Filed, Types, DocumentsAssumption
  <2>3. req'[t].previous \in {req[t].previous, Null}
    BY <1>1, <1>3
  <2> QED BY <2>1, <2>2, <2>3 DEF Filed
<1>8. \A s \in Request, e \in Document :
        /\ Uploading(s)' /\ req'[s].previous # Null
        /\ e # req'[s].doc \/ req'[s].pc = "named"
        => doc'[e].key # req'[s].previous
  BY <1>1, <1>2, <1>3 DEF Filed, Uploading
<1>9. \A s \in Request, d \in Document : req'[s].pc = "saved" => doc'[d].key # req'[s].key
  BY <1>1, <1>2, <1>3 DEF Filed
<1>10. \A s, t \in Request :
        s # t /\ req'[s].pc = "saved" /\ req'[t].pc = "saved" => req'[t].key # req'[s].key
  BY <1>1, <1>3 DEF Filed
<1> QED BY <1>2, <1>5, <1>6, <1>7, <1>8, <1>9, <1>10 DEF Filed

\* What issuing or editing a row writes never names a file.
LEMMA KeysOfRows ==
    ASSUME DocumentsAssumption, Types, Printable,
           \/ Rows
           \/ \E r \in Request :
                IssueRow(r) \/ IssueAgain(r) \/ \E d \in Document : IssueNew(r, d)
    PROVE  \A d \in Document : doc'[d].key \in {doc[d].key, Null}
<1>1. ASSUME NEW e \in Document, NEW x \in DocRow, Writes(e, x)
      PROVE  \A d \in Document : doc'[d].key \in {doc[d].key, Null}
  BY <1>1 DEF Writes, Types
<1> QED BY <1>1, RowsWrite

LEMMA FiledStep ==
    ASSUME DocumentsAssumption, Types, Types', Printable, Filed, [Next]_vars
    PROVE  Filed'
<1>0. /\ NoJob \in Job /\ NoJob.pc \notin {"upload", "saved", "named"}
      /\ NoJob.previous = Null
  BY NoJobIsJob DEF NoJob
<1>1. CASE UNCHANGED vars
  BY <1>1, FilesStill DEF vars
<1>2. CASE Rows
  <2>1. file' = file /\ req' = req
    BY <1>2 DEF Rows, createDocument, updateDocument, deleteDocument
  <2> QED BY <1>2, <2>1, KeysOfRows, FilesStill
<1>3. ASSUME NEW r \in Request, Uploads(r) PROVE Filed'
  BY <1>3, FiledUpload, FiledSave, FiledName, FiledDelete DEF Uploads
<1>4. ASSUME NEW r \in Request, Fails(r) PROVE Filed'
  BY <1>0, <1>4, FilesStillGoes DEF Fails, Ends
<1>5. ASSUME NEW r \in Request, Prints(r) PROVE Filed'
  <2>1. ASSUME NEW j \in Job, j.previous = Null, Draws(r, j), UNCHANGED <<doc, file>>
        PROVE  Filed'
    <3> DEFINE i == [j EXCEPT !.pc = IF j.template \in Form THEN "drawn" ELSE "browser"]
    <3>1. i \in Job /\ i.pc \notin {"upload", "saved", "named"} /\ i.previous = Null
      BY <2>1 DEF Job
    <3>2. Goes(r, i) /\ file' = file /\ doc' = doc
      BY <2>1 DEF Draws
    <3> HIDE DEF i
    <3> QED BY <3>1, <3>2, FilesStillGoes
  <2>2. ASSUME NEW t \in Template, NEW d \in Document \cup {Null}, generatePdf(r, t, d)
        PROVE  Filed'
    <3>1. /\ [NoJob EXCEPT !.template = t, !.doc = d] \in Job
          /\ [NoJob EXCEPT !.template = t, !.doc = d].previous = Null
      BY DEF Job, NoJob
    <3> QED BY <2>1, <2>2, <3>1 DEF generatePdf
  <2>3. ASSUME NEW d \in Document, regeneratePdf(r, d) PROVE Filed'
    <3> DEFINE j == [NoJob EXCEPT !.template = doc[d].template, !.doc = d, !.again = TRUE]
    <3>1. doc[d].template \in Template \cup {Null}
      BY DEF Types, DocRow
    <3>2. j \in Job /\ j.previous = Null
      BY <3>1 DEF Job, NoJob
    <3> QED BY <2>1, <2>3, <3>2 DEF regeneratePdf
  <2>4. CASE Drawn(r) \/ LookUp(r)
    <3>1. \A x \in {"drawn", "issue"} :
            /\ [req[r] EXCEPT !.pc = x] \in Job
            /\ [req[r] EXCEPT !.pc = x].pc = x
            /\ [req[r] EXCEPT !.pc = x].previous = req[r].previous
      BY DEF Types, Job
    <3>2. file' = file /\ doc' = doc
      BY <2>4 DEF Drawn, LookUp
    <3>3. CASE Goes(r, NoJob)
      BY <1>0, <3>2, <3>3, FilesStillGoes
    <3>4. ASSUME NEW x \in {"drawn", "issue"}, Goes(r, [req[r] EXCEPT !.pc = x]) PROVE Filed'
      BY <3>1, <3>2, <3>4, FilesStillGoes
    <3> QED BY <2>4, <3>3, <3>4 DEF Drawn, LookUp, Ends
  <2>5. CASE IssueRow(r) \/ IssueAgain(r) \/ \E d \in Document : IssueNew(r, d)
    <3>1. Goes(r, NoJob) /\ file' = file
      BY <2>5 DEF IssueRow, IssueAgain, IssueNew, Ends
    <3>2. \A d \in Document : doc'[d].key \in {doc[d].key, Null}
      BY <2>5, KeysOfRows
    <3> QED BY <1>0, <3>1, <3>2, FilesStillGoes
  <2> QED BY <1>5, <2>2, <2>3, <2>4, <2>5 DEF Prints
<1>6. CASE Resume
  BY <1>6, FilesStill DEF Resume
<1>7. CASE Restart
  <2>1. file' = file /\ doc' = doc /\ \A r \in Request : req'[r] = NoJob
    BY <1>7 DEF Restart
  <2> QED BY <1>0, <2>1, FilesStill
<1> QED BY <1>1, <1>2, <1>3, <1>4, <1>5, <1>6, <1>7 DEF Next

-----------------------------------------------------------------------------
(* Both together, for any number of rows, uploads and PDFs *)

Sound == Types /\ Printable /\ Filed

LEMMA SoundAlways == ASSUME DocumentsAssumption PROVE Spec => []Sound
<1>1. Init => Sound
  BY TypesInit, PrintableInit, FiledInit DEF Sound
<1>2. Sound /\ [Next]_vars => Sound'
  BY TypesStep, PrintableStep, FiledStep DEF Sound
<1> QED BY <1>1, <1>2, PTL DEF Spec

\* The file a row names is there, however the uploads for it interleave, fail or are cut off
\* by a restart.
THEOREM FilesAlwaysKept == ASSUME DocumentsAssumption PROVE Spec => []FilesKept
<1>1. Sound => FilesKept
  BY DEF Sound, Filed
<1> QED BY <1>1, SoundAlways, PTL

\* What was issued last can be issued again unless the office has written other data since.
THEOREM AlwaysRegenerable == ASSUME DocumentsAssumption PROVE Spec => []Regenerable
<1>1. Sound => Regenerable
  BY DEF Sound, Printable
<1> QED BY <1>1, SoundAlways, PTL

-----------------------------------------------------------------------------
(* The master tables *)

MasterRow == [code : MasterCode, active : BOOLEAN]

\* Ids are given once.
MastersHold ==
    /\ master \in [1 .. MaxId -> MasterRow \cup {Null}]
    /\ nextId \in Nat /\ \A i \in 1 .. MaxId : i >= nextId => master[i] = Null

LEMMA MasterInit == ASSUME Names!Init PROVE MastersHold
BY DEF Names!Init, MastersHold

LEMMA MasterStep ==
    ASSUME MastersHold, [Names!Next]_(Names!vars) PROVE MastersHold'
<1> USE DEF MastersHold
<1>1. CASE UNCHANGED <<master, nextId>>
  BY <1>1
<1>2. ASSUME NEW c \in MasterCode, NEW b \in BOOLEAN, Names!createMaster(c, b) PROVE MastersHold'
  <2>1. /\ nextId <= MaxId /\ nextId' = nextId + 1
        /\ master' = [master EXCEPT ![nextId] = [code |-> c, active |-> b]]
    BY <1>2 DEF Names!createMaster
  <2>2. [code |-> c, active |-> b] \in MasterRow
    BY DEF MasterRow
  <2>3. master' \in [1 .. MaxId -> MasterRow \cup {Null}]
    BY <2>1, <2>2
  <2>4. ASSUME NEW i \in 1 .. MaxId, i >= nextId' PROVE master'[i] = Null
    <3>1. i # nextId /\ i >= nextId
      BY <2>1, <2>4
    <3>2. master'[i] = master[i]
      BY <2>1, <3>1
    <3> QED BY <3>1, <3>2
  <2> QED BY <2>1, <2>3, <2>4
<1>3. ASSUME NEW i \in 1 .. MaxId, NEW c \in MasterCode, NEW b \in BOOLEAN, Names!updateMaster(i, c, b)
      PROVE  MastersHold'
  <2>1. /\ master[i] # Null /\ nextId' = nextId
        /\ master' = [master EXCEPT ![i] = [code |-> c, active |-> b]]
    BY <1>3 DEF Names!updateMaster, Names!Exists
  <2>2. [code |-> c, active |-> b] \in MasterRow
    BY DEF MasterRow
  <2> QED BY <2>1, <2>2
<1>4. ASSUME NEW i \in 1 .. MaxId, Names!deleteMaster(i) PROVE MastersHold'
  BY <1>4 DEF Names!deleteMaster
<1> QED BY <1>1, <1>2, <1>3, <1>4
        DEF Names!Next, Names!vars, Names!OpenForm, Names!SaveRecord, Names!DropRecord

\* A master is used by nobody only if no record stores its code.
LEMMA UsedByNobody ==
    ASSUME Names!MastersAssumption, type \in Searched, NEW i, Names!countMasterCodeUsage(i) = 0,
           NEW x \in Record, ref[x] # Null
    PROVE  ref[x] # Names!Stored(master[i].code)
<1> DEFINE users == {y \in Record : ref[y] # Null /\ ref[y] = Names!Stored(master[i].code)}
<1>1. Names!Cardinality(users) = 0
  BY DEF Names!countMasterCodeUsage
<1>2. /\ \A S : Names!Cardinality(S) = Cardinality(S)
      /\ \A S : Names!IsFiniteSet(S) <=> IsFiniteSet(S)
  BY Zenon DEF Names!Cardinality, Cardinality, Names!IsFiniteSet, IsFiniteSet
<1>3. IsFiniteSet(users) /\ Cardinality(users) = 0
  <2>1. IsFiniteSet(Record) /\ users \subseteq Record
    BY <1>2 DEF Names!MastersAssumption
  <2> HIDE DEF users
  <2> QED BY <1>1, <1>2, <2>1, FS_Subset
<1>4. users = {}
  BY <1>3, FS_EmptySet
<1> QED BY <1>4

LEMMA StillNamed ==
    ASSUME Names!MastersAssumption, MastersHold, [Names!Next]_(Names!vars), type \in Searched,
           NEW x \in Record, ref[x] # Null, ref'[x] = ref[x], Names!Resolves(ref[x])
    PROVE  Names!Resolves(ref[x])'
<1>1. PICK j \in 1 .. MaxId : master[j] # Null /\ Names!Stored(master[j].code) = ref[x]
  BY DEF Names!Resolves, Names!Ids, Names!Exists
<1>2. type' = type
  BY DEF Names!Next, Names!vars, Names!OpenForm, Names!SaveRecord, Names!DropRecord,
         Names!createMaster, Names!updateMaster, Names!deleteMaster
<1>3. ASSUME NEW k \in 1 .. MaxId, master'[k] # Null, master'[k].code = master[j].code
      PROVE  Names!Resolves(ref[x])'
  BY <1>1, <1>2, <1>3 DEF Names!Resolves, Names!Ids, Names!Exists, Names!Stored
<1>4. CASE UNCHANGED master
  BY <1>1, <1>3, <1>4
<1>5. ASSUME NEW c \in MasterCode, NEW b \in BOOLEAN, Names!createMaster(c, b)
      PROVE  Names!Resolves(ref[x])'
  <2>1. nextId <= MaxId /\ master' = [master EXCEPT ![nextId] = [code |-> c, active |-> b]]
    BY <1>5 DEF Names!createMaster
  <2>2. j # nextId
    BY <1>1 DEF MastersHold
  <2>3. master'[j] = master[j]
    BY <2>1, <2>2 DEF MastersHold
  <2> QED BY <1>1, <1>3, <2>3
<1>6. ASSUME NEW i \in 1 .. MaxId, NEW c \in MasterCode, NEW b \in BOOLEAN, Names!updateMaster(i, c, b)
      PROVE  Names!Resolves(ref[x])'
  <2>1. /\ master' = [master EXCEPT ![i] = [code |-> c, active |-> b]]
        /\ c # master[i].code => Names!countMasterCodeUsage(i) = 0
    BY <1>6 DEF Names!updateMaster
  <2>2. CASE j # i
    <3>1. master'[j] = master[j]
      BY <2>1, <2>2 DEF MastersHold
    <3> QED BY <1>1, <1>3, <3>1
  <2>3. CASE j = i
    <3>1. c = master[i].code
      BY <1>1, <2>1, <2>3, UsedByNobody
    <3>2. master'[i] = [code |-> c, active |-> b] /\ master'[i] # Null
      BY <2>1 DEF MastersHold, Names!MastersAssumption, MasterRow
    <3> QED BY <1>3, <2>3, <3>1, <3>2
  <2> QED BY <2>2, <2>3
<1>7. ASSUME NEW i \in 1 .. MaxId, Names!deleteMaster(i) PROVE Names!Resolves(ref[x])'
  <2>1. master' = [master EXCEPT ![i] = Null] /\ Names!countMasterCodeUsage(i) = 0
    BY <1>7 DEF Names!deleteMaster
  <2>2. j # i
    BY <1>1, <2>1, UsedByNobody
  <2>3. master'[j] = master[j]
    BY <2>1, <2>2 DEF MastersHold
  <2> QED BY <1>1, <1>3, <2>3
<1> QED BY <1>4, <1>5, <1>6, <1>7
        DEF Names!Next, Names!vars, Names!OpenForm, Names!SaveRecord, Names!DropRecord

\* Neither a deletion of a master nor another code for it takes the name away from a record
\* that has one, whatever codes, numbers and tables there are.
THEOREM NamesStay == ASSUME Names!MastersAssumption PROVE Names!Spec => NothingOrphaned
<1>1. Names!Init => MastersHold
  BY MasterInit
<1>2. MastersHold /\ [Names!Next]_(Names!vars) => MastersHold'
  BY MasterStep
<1>3. MastersHold /\ [Names!Next]_(Names!vars) =>
        [\A x \in Record :
           type \in Searched /\ ref[x] # Null /\ ref'[x] = ref[x] /\ Names!Resolves(ref[x])
             => Names!Resolves(ref[x])']_(Names!vars)
  BY StillNamed
<1> QED BY <1>1, <1>2, <1>3, PTL DEF Names!Spec, NothingOrphaned, Names!NothingOrphaned

-----------------------------------------------------------------------------
(* The records below a plot *)

Field == Val \cup {Null, Unsent, Blank}
RecordRow == [plot : Plot, kind : Recs!Kind, state : Recs!RowState, form : Field,
              other : Field, logged : BOOLEAN]
ToldRow == [state : {"none", "live", "gone"}, form : Field, other : Field]

\* A record that was made for plot p a moment ago.
Fresh(p, logged) == {x \in RecordRow : x.plot = p /\ x.state = "live" /\ x.logged = logged}

RecordTypes ==
    /\ plot \in [Plot -> Recs!PlotState]
    /\ rows \in Seq(RecordRow) /\ told \in Seq(ToldRow) /\ Len(told) = Len(rows)
    /\ \A x \in Deleter : \A i \in job[x].fees :
         i \in DOMAIN rows /\ rows[i].plot = job[x].plot
    /\ job \in [Deleter -> [plot : Plot \cup {Null}, fees : SUBSET Nat]]

RecordsInv == RecordTypes /\ Recs!NothingSurvives /\ Recs!HistoryTells

LEMMA PickedAlike == \A s, I : Recs!Picked(s, I) = Picked(s, I)
BY Zenon DEF Recs!Picked, Picked, Recs!Cardinality, Cardinality

LEMMA RecordAt ==
    ASSUME RecordTypes, NEW i \in DOMAIN rows
    PROVE  /\ rows[i] \in RecordRow /\ told[i] \in ToldRow
           /\ i \in DOMAIN told /\ i \in Nat
<1>1. DOMAIN rows = 1 .. Len(rows) /\ DOMAIN told = 1 .. Len(rows) /\ Len(rows) \in Nat
  BY LenProperties DEF RecordTypes
<1> QED BY <1>1, ElementOfSeq DEF RecordTypes

\* A line of a form gives fields.
LEMMA ItemFields ==
    ASSUME NEW item \in Recs!Item, NEW f \in Field
    PROVE  Recs!Sent(item.form, f) \in Field /\ Recs!Sent(item.other, f) \in Field
BY DEF Recs!Item, Recs!Sent, Field

LEMMA NewRowFresh ==
    ASSUME NEW p \in Plot, NEW k \in Recs!Kind, NEW item \in Recs!Item, NEW b \in BOOLEAN
    PROVE  Recs!NewRow(p, k, item, b) \in Fresh(p, b)
<1>1. Null \in Field
  BY DEF Field
<1>2. Recs!Sent(item.form, Null) \in Field /\ Recs!Sent(item.other, Null) \in Field
  BY <1>1, ItemFields
<1> QED BY <1>2 DEF Recs!NewRow, Fresh, RecordRow, Recs!RowState

\* The lines that are picked of a list make new records.
LEMMA LinesFresh ==
    ASSUME NEW p \in Plot, NEW k \in Recs!Kind, NEW b \in BOOLEAN, NEW s \in Seq(Recs!Line),
           NEW I \in SUBSET DOMAIN s
    PROVE  [j \in DOMAIN Recs!Picked(s, I) |-> Recs!NewRow(p, k, Recs!Picked(s, I)[j].item, b)]
             \in Seq(Fresh(p, b))
<1> DEFINE new == Recs!Picked(s, I)
           F == [j \in DOMAIN new |-> Recs!NewRow(p, k, new[j].item, b)]
<1>1. new \in Seq(Recs!Line)
  BY PickedAlike, PickedRows
<1> HIDE DEF new
<1>2. DOMAIN new = 1 .. Len(new) /\ Len(new) \in Nat /\ \A j \in DOMAIN new : new[j] \in Recs!Line
  BY <1>1, LenProperties, ElementOfSeq
<1>3. \A j \in DOMAIN new : new[j].item \in Recs!Item
  BY <1>2 DEF Recs!Line
<1>4. \A j \in 1 .. Len(new) : Recs!NewRow(p, k, new[j].item, b) \in Fresh(p, b)
  BY <1>2, <1>3, NewRowFresh
<1>5. F \in [1 .. Len(new) -> Fresh(p, b)]
  BY <1>2, <1>4
<1>6. F \in Seq(Fresh(p, b))
  BY <1>2, <1>5, SeqDef
<1> QED BY <1>6 DEF new

LEMMA Joined ==
    ASSUME NEW S, NEW s \in Seq(S), NEW t \in Seq(S) PROVE s \o t \in Seq(S)
BY ConcatProperties

LEMMA OneRow == ASSUME NEW S, NEW x \in S PROVE <<x>> \in Seq(S)
OBVIOUS

\* A registration makes records of its plot, and so does an edit.
LEMMA RegisteredFresh ==
    ASSUME Recs!RecordsAssumption, NEW p \in Plot, NEW k \in Recs!Kind, NEW e \in Registration,
           NEW b \in BOOLEAN
    PROVE  Recs!RowsOf(p, k, e, b) \in Seq(Fresh(p, b))
<1>1. e[k] \in Recs!Section(k)
  BY DEF Recs!RecordsAssumption
<1>2. CASE e[k] \in {Null, Remove}
  BY <1>2, EmptySeq DEF Recs!RowsOf
<1>3. CASE e[k] \notin {Null, Remove} /\ k \in Recs!Single
  <2>1. e[k] \in Recs!Item
    BY <1>1, <1>3 DEF Recs!Section
  <2>2. Recs!RowsOf(p, k, e, b) \in {<<>>, <<Recs!NewRow(p, k, e[k], b)>>}
    BY <1>3 DEF Recs!RowsOf
  <2> QED BY <2>1, <2>2, NewRowFresh, EmptySeq, OneRow
<1>4. CASE e[k] \notin {Null, Remove} /\ k \notin Recs!Single
  <2> DEFINE I == {j \in DOMAIN e[k] : e[k][j].item.form # Blank}
  <2>1. e[k] \in Seq(Recs!Line)
    BY <1>1, <1>4 DEF Recs!Section
  <2>2. Recs!RowsOf(p, k, e, b)
          = [j \in DOMAIN Recs!Picked(e[k], I) |->
               Recs!NewRow(p, k, Recs!Picked(e[k], I)[j].item, b)]
    BY <1>4 DEF Recs!RowsOf
  <2>3. I \in SUBSET DOMAIN e[k]
    OBVIOUS
  <2> HIDE DEF I
  <2> QED BY <2>1, <2>2, <2>3, LinesFresh
<1> QED BY <1>2, <1>3, <1>4

LEMMA EditedFresh ==
    ASSUME Recs!RecordsAssumption, NEW p \in Plot, NEW e \in Edit
    PROVE  /\ \A k \in Recs!Single : Recs!AddedSingle(p, k, e[k]) \in Seq(Fresh(p, TRUE))
           /\ \A k \in Recs!Listed : Recs!AddedListed(p, k, e[k]) \in Seq(Fresh(p, TRUE))
<1>1. \A k \in Recs!Kind : e[k] \in Recs!Section(k)
  BY DEF Recs!RecordsAssumption
<1>2. ASSUME NEW k \in Recs!Single PROVE Recs!AddedSingle(p, k, e[k]) \in Seq(Fresh(p, TRUE))
  <2>1. k \in Recs!Kind /\ (e[k] \notin {Null, Remove} => e[k] \in Recs!Item)
    BY <1>1 DEF Recs!Section, Recs!Kind
  <2>2. CASE e[k] \in {Null, Remove}
    BY <2>2, EmptySeq DEF Recs!AddedSingle
  <2>3. CASE e[k] \notin {Null, Remove}
    <3>1. Recs!AddedSingle(p, k, e[k]) \in {<<>>, <<Recs!NewRow(p, k, e[k], TRUE)>>}
      BY DEF Recs!AddedSingle
    <3> QED BY <2>1, <2>3, <3>1, NewRowFresh, EmptySeq, OneRow
  <2> QED BY <2>2, <2>3
<1>3. ASSUME NEW k \in Recs!Listed PROVE Recs!AddedListed(p, k, e[k]) \in Seq(Fresh(p, TRUE))
  <2> DEFINE s == e[k]
             I == {j \in DOMAIN s : /\ s[j].id \notin Recs!Existing(p, k)
                                    /\ ~Recs!Skipped(k, s[j].item)}
  <2>1. k \in Recs!Kind /\ (s # Null => s \in Seq(Recs!Line))
    BY <1>1 DEF Recs!Section, Recs!Kind, Recs!Single, Recs!Listed
  <2>2. CASE s = Null
    BY <2>2, EmptySeq DEF Recs!AddedListed
  <2>3. CASE s # Null
    <3>1. Recs!AddedListed(p, k, s)
            = [j \in DOMAIN Recs!Picked(s, I) |->
                 Recs!NewRow(p, k, Recs!Picked(s, I)[j].item, TRUE)]
      BY <2>3 DEF Recs!AddedListed
    <3>2. I \in SUBSET DOMAIN s
      OBVIOUS
    <3> HIDE DEF I, s
    <3>3. Recs!AddedListed(p, k, s) \in Seq(Fresh(p, TRUE))
      BY <2>1, <2>3, <3>1, <3>2, LinesFresh
    <3> QED BY <3>3 DEF s
  <2> QED BY <2>2, <2>3
<1> QED BY <1>2, <1>3

LEMMA CreatedTold ==
    ASSUME NEW p, NEW b \in BOOLEAN, NEW x \in Fresh(p, b) PROVE Recs!ToldCreate(x) \in ToldRow
BY DEF Fresh, RecordRow, ToldRow, Recs!ToldCreate, Field

\* New rows are put after the old ones.
Appended(p, b, new, n, F, G, H, R, T) ==
    /\ p \in Plot /\ b \in BOOLEAN /\ new \in Seq(Fresh(p, b)) /\ n \in Nat
    /\ F \in [1 .. n -> RecordRow] /\ G \in [1 .. n -> ToldRow] /\ H \in [DOMAIN new -> ToldRow]
    /\ \A j \in DOMAIN new : H[j] = Recs!ToldCreate(new[j])
    /\ R = F \o new /\ T = G \o H

\* What the two lists become.
LEMMA Grown ==
    ASSUME NEW p, NEW b, NEW new, NEW n, NEW F, NEW G, NEW H, NEW R, NEW T,
           Appended(p, b, new, n, F, G, H, R, T)
    PROVE  /\ R \in Seq(RecordRow) /\ T \in Seq(ToldRow) /\ Len(R) = Len(T)
           /\ 1 .. n \subseteq DOMAIN R
           /\ \A i \in 1 .. n : R[i] = F[i] /\ T[i] = G[i]
           /\ \A i \in DOMAIN R : i \notin 1 .. n =>
                R[i] \in Fresh(p, b) /\ T[i] = Recs!ToldCreate(R[i])
<1>0. /\ p \in Plot /\ b \in BOOLEAN /\ new \in Seq(Fresh(p, b)) /\ n \in Nat
      /\ F \in [1 .. n -> RecordRow] /\ G \in [1 .. n -> ToldRow] /\ H \in [DOMAIN new -> ToldRow]
      /\ \A j \in DOMAIN new : H[j] = Recs!ToldCreate(new[j])
  BY DEF Appended
<1>1. /\ DOMAIN new = 1 .. Len(new) /\ Len(new) \in Nat
      /\ \A j \in DOMAIN new : new[j] \in Fresh(p, b)
  BY ONLY <1>0, LenProperties, ElementOfSeq
<1>2. new \in Seq(RecordRow)
  <2>1. new \in [1 .. Len(new) -> RecordRow]
    <3>1. new \in [1 .. Len(new) -> Fresh(p, b)]
      BY ONLY <1>0, <1>1, SeqDef
    <3> QED BY ONLY <1>1, <3>1 DEF Fresh
  <2> QED BY ONLY <1>1, <2>1, SeqDef
<1>3. H \in Seq(ToldRow) /\ Len(H) = Len(new) /\ \A j \in DOMAIN new : H[j] = Recs!ToldCreate(new[j])
  <2>2. H \in [1 .. Len(new) -> ToldRow]
    BY ONLY <1>0, <1>1
  <2>3. H \in Seq(ToldRow)
    BY ONLY <1>1, <2>2, SeqDef
  <2>4. DOMAIN H = 1 .. Len(H) /\ Len(H) \in Nat
    BY ONLY <2>3, LenProperties
  <2> QED BY ONLY <1>0, <1>1, <2>2, <2>3, <2>4
<1>4. F \in Seq(RecordRow) /\ G \in Seq(ToldRow) /\ Len(F) = n /\ Len(G) = n
  <2>1. F \in Seq(RecordRow) /\ G \in Seq(ToldRow)
    BY ONLY <1>0, SeqDef
  <2>2. DOMAIN F = 1 .. Len(F) /\ Len(F) \in Nat /\ DOMAIN G = 1 .. Len(G) /\ Len(G) \in Nat
    BY ONLY <2>1, LenProperties
  <2> QED BY ONLY <1>0, <2>1, <2>2
<1>5. /\ R \in Seq(RecordRow) /\ Len(R) = n + Len(new)
      /\ \A i \in 1 .. n + Len(new) : R[i] = IF i <= n THEN F[i] ELSE new[i - n]
  <2>1. /\ F \o new \in Seq(RecordRow) /\ Len(F \o new) = Len(F) + Len(new)
        /\ \A i \in 1 .. Len(F) + Len(new) :
             (F \o new)[i] = IF i <= Len(F) THEN F[i] ELSE new[i - Len(F)]
    <3>1. F \in Seq(RecordRow) /\ new \in Seq(RecordRow)
      BY ONLY <1>2, <1>4
    <3> QED BY ONLY <3>1, ConcatProperties
  <2>2. R = F \o new
    BY DEF Appended
  <2> QED BY ONLY <1>4, <2>1, <2>2
<1>6. /\ T \in Seq(ToldRow) /\ Len(T) = n + Len(new)
      /\ \A i \in 1 .. n + Len(new) : T[i] = IF i <= n THEN G[i] ELSE H[i - n]
  <2>1. /\ G \o H \in Seq(ToldRow) /\ Len(G \o H) = Len(G) + Len(H)
        /\ \A i \in 1 .. Len(G) + Len(H) :
             (G \o H)[i] = IF i <= Len(G) THEN G[i] ELSE H[i - Len(G)]
    <3>1. G \in Seq(ToldRow) /\ H \in Seq(ToldRow)
      BY ONLY <1>3, <1>4
    <3> QED BY ONLY <3>1, ConcatProperties
  <2>2. T = G \o H
    BY DEF Appended
  <2> QED BY ONLY <1>3, <1>4, <2>1, <2>2
<1>7. DOMAIN R = 1 .. n + Len(new)
  BY ONLY <1>5, LenProperties
<1>8. \A i \in 1 .. n : i \in 1 .. n + Len(new) /\ i <= n
  BY ONLY <1>0, <1>1
<1>9. \A i \in DOMAIN R : i \notin 1 .. n => ~(i <= n) /\ i - n \in DOMAIN new
  BY ONLY <1>0, <1>1, <1>7
<1>10. \A i \in 1 .. n : R[i] = F[i] /\ T[i] = G[i]
  BY ONLY <1>5, <1>6, <1>8
<1>11. \A i \in DOMAIN R : i \notin 1 .. n =>
         R[i] \in Fresh(p, b) /\ T[i] = Recs!ToldCreate(R[i])
  BY ONLY <1>1, <1>3, <1>5, <1>6, <1>7, <1>9
<1> QED BY ONLY <1>5, <1>6, <1>7, <1>8, <1>10, <1>11

\* The history of a record says what the record holds.
Tells(row, t) ==
    /\ t.state = (IF row.state = "live" THEN "live" ELSE "gone")
    /\ t.form = row.form
    /\ row.kind # "buried" => t.other = row.other

LEMMA FreshTold ==
    ASSUME NEW p, NEW x \in Fresh(p, TRUE) PROVE Tells(x, Recs!ToldCreate(x))
BY DEF Fresh, RecordRow, Tells, Recs!ToldCreate

\* The records grow by some of plot p, which stays or becomes live, while the old ones keep
\* what the invariant says of them.
LEMMA RecordsGrow ==
    ASSUME RecordsInv, NEW p \in Plot, NEW b \in BOOLEAN, NEW new \in Seq(Fresh(p, b)),
           NEW F \in [DOMAIN rows -> RecordRow], NEW G \in [DOMAIN rows -> ToldRow],
           \A i \in DOMAIN rows :
             /\ F[i].plot = rows[i].plot /\ F[i].kind = rows[i].kind
             /\ F[i].logged = rows[i].logged
             /\ F[i].state = "live" => rows[i].state = "live"
             /\ F[i].logged => Tells(F[i], G[i]),
           rows' = F \o new,
           told' = G \o [j \in DOMAIN new |-> Recs!ToldCreate(new[j])],
           plot' \in [Plot -> Recs!PlotState], plot'[p] = "live",
           \A q \in Plot : plot'[q] = "deleted" => plot[q] = "deleted",
           job' = job \/ \E x \in Deleter : job' = [job EXCEPT ![x] = Recs!Idle]
    PROVE  RecordsInv'
<1>0. DOMAIN rows = 1 .. Len(rows) /\ Len(rows) \in Nat
  BY LenProperties DEF RecordsInv, RecordTypes
<1>1. /\ rows' \in Seq(RecordRow) /\ told' \in Seq(ToldRow) /\ Len(rows') = Len(told')
      /\ DOMAIN rows \subseteq DOMAIN rows'
      /\ \A i \in DOMAIN rows : rows'[i] = F[i] /\ told'[i] = G[i]
      /\ \A i \in DOMAIN rows' : i \notin DOMAIN rows =>
           rows'[i] \in Fresh(p, b) /\ told'[i] = Recs!ToldCreate(rows'[i])
  <2>1. F \in [1 .. Len(rows) -> RecordRow] /\ G \in [1 .. Len(rows) -> ToldRow]
        /\ Len(rows) \in Nat /\ p \in Plot /\ b \in BOOLEAN /\ new \in Seq(Fresh(p, b))
    BY <1>0
  <2> DEFINE H == [j \in DOMAIN new |-> Recs!ToldCreate(new[j])]
             R == F \o new
             T == G \o H
  <2>0. H \in [DOMAIN new -> ToldRow] /\ \A j \in DOMAIN new : H[j] = Recs!ToldCreate(new[j])
    <3>1. \A j \in DOMAIN new : new[j] \in Fresh(p, b)
      BY LenProperties, ElementOfSeq
    <3> QED BY <3>1, CreatedTold
  <2> HIDE DEF H
  <2>2. /\ R \in Seq(RecordRow) /\ T \in Seq(ToldRow) /\ Len(R) = Len(T)
        /\ 1 .. Len(rows) \subseteq DOMAIN R
        /\ \A i \in 1 .. Len(rows) : R[i] = F[i] /\ T[i] = G[i]
        /\ \A i \in DOMAIN R : i \notin 1 .. Len(rows) =>
             R[i] \in Fresh(p, b) /\ T[i] = Recs!ToldCreate(R[i])
    <3>1. Appended(p, b, new, Len(rows), F, G, H, R, T)
      BY <2>0, <2>1 DEF Appended
    <3> HIDE DEF R, T
    <3> QED BY ONLY <3>1, Grown, SMTT(20)
  <2>3. rows' = R /\ told' = T
    BY DEF H
  <2> HIDE DEF R, T
  <2> QED BY <1>0, <2>2, <2>3
<1>2. RecordTypes'
  <2>1. job' \in [Deleter -> [plot : Plot \cup {Null}, fees : SUBSET Nat]]
    <3>1. job \in [Deleter -> [plot : Plot \cup {Null}, fees : SUBSET Nat]]
      BY DEF RecordsInv, RecordTypes
    <3>2. Recs!Idle \in [plot : Plot \cup {Null}, fees : SUBSET Nat]
      BY DEF Recs!Idle
    <3> QED BY <3>1, <3>2
  <2>2. ASSUME NEW x \in Deleter, NEW i \in job'[x].fees
        PROVE  i \in DOMAIN rows' /\ rows'[i].plot = job'[x].plot
    <3>1. job'[x] = job[x]
      BY <2>2 DEF RecordsInv, RecordTypes, Recs!Idle
    <3>2. i \in DOMAIN rows /\ rows[i].plot = job[x].plot
      BY <2>2, <3>1 DEF RecordsInv, RecordTypes
    <3> QED BY <1>1, <3>1, <3>2
  <2> QED BY <1>1, <2>1, <2>2 DEF RecordTypes
<1>3. \A i \in DOMAIN rows : rows[i].plot \in Plot
  BY RecordAt DEF RecordsInv, RecordRow
<1>4. Recs!NothingSurvives'
  <2> SUFFICES ASSUME NEW i \in DOMAIN rows', plot'[rows'[i].plot] = "deleted",
                      rows'[i].kind \in Recs!Cascade
               PROVE  rows'[i].state # "live"
    BY DEF Recs!NothingSurvives
  <2>1. CASE i \in DOMAIN rows
    <3>1. /\ rows'[i] = F[i] /\ F[i].plot = rows[i].plot /\ F[i].kind = rows[i].kind
          /\ F[i].state = "live" => rows[i].state = "live"
      BY <1>1, <2>1
    <3>2. plot[rows[i].plot] = "deleted"
      BY <1>3, <2>1, <3>1
    <3> QED BY <2>1, <3>1, <3>2 DEF RecordsInv, Recs!NothingSurvives
  <2>2. CASE i \notin DOMAIN rows
    BY <1>1, <2>2 DEF Fresh
  <2> QED BY <2>1, <2>2
<1>5. Recs!HistoryTells'
  <2> SUFFICES ASSUME NEW i \in DOMAIN rows', rows'[i].logged PROVE Tells(rows'[i], told'[i])
    BY DEF Recs!HistoryTells, Tells
  <2>1. CASE i \in DOMAIN rows
    BY <1>1, <2>1
  <2>2. CASE i \notin DOMAIN rows
    <3>1. rows'[i] \in Fresh(p, TRUE) /\ told'[i] = Recs!ToldCreate(rows'[i])
      BY <1>1, <2>2 DEF Fresh
    <3> QED BY <3>1, FreshTold
  <2> QED BY <2>1, <2>2
<1> QED BY <1>2, <1>4, <1>5 DEF RecordsInv

LEMMA RecordsInit == ASSUME Recs!Init PROVE RecordsInv
<1> USE DEF Recs!Init
<1>1. rows \in Seq(RecordRow) /\ told \in Seq(ToldRow) /\ Len(told) = Len(rows) /\ DOMAIN rows = {}
  BY EmptySeq
<1>2. plot \in [Plot -> Recs!PlotState]
  BY DEF Recs!PlotState
<1>3. /\ job \in [Deleter -> [plot : Plot \cup {Null}, fees : SUBSET Nat]]
      /\ \A x \in Deleter : job[x].fees = {}
  BY DEF Recs!Idle
<1>4. RecordTypes
  BY <1>1, <1>2, <1>3 DEF RecordTypes
<1>5. Recs!NothingSurvives /\ Recs!HistoryTells
  BY <1>1 DEF Recs!NothingSurvives, Recs!HistoryTells
<1> QED BY <1>4, <1>5 DEF RecordsInv

\* The handlers that register a contract add its records.
LEMMA RecordsInsert ==
    ASSUME RecordsInv, NEW p \in Plot, NEW b \in BOOLEAN, NEW new \in Seq(Fresh(p, b)),
           Recs!Insert(new), plot' = [plot EXCEPT ![p] = "live"], UNCHANGED job
    PROVE  RecordsInv'
<1>1. rows' = rows \o new /\ told' = told \o [j \in DOMAIN new |-> Recs!ToldCreate(new[j])]
  BY DEF Recs!Insert
<1>2. /\ rows \in [DOMAIN rows -> RecordRow] /\ told \in [DOMAIN rows -> ToldRow]
  <2>1. DOMAIN rows = 1 .. Len(rows) /\ DOMAIN told = 1 .. Len(rows)
    BY LenProperties DEF RecordsInv, RecordTypes
  <2>2. rows \in [1 .. Len(rows) -> RecordRow] /\ told \in [1 .. Len(told) -> ToldRow]
    BY SeqDef DEF RecordsInv, RecordTypes
  <2> QED BY <2>1, <2>2 DEF RecordsInv, RecordTypes
<1>3. \A i \in DOMAIN rows : rows[i].logged => Tells(rows[i], told[i])
  BY DEF RecordsInv, Recs!HistoryTells, Tells
<1>4. /\ plot' \in [Plot -> Recs!PlotState] /\ plot'[p] = "live"
      /\ \A q \in Plot : plot'[q] = "deleted" => plot[q] = "deleted"
  BY DEF RecordsInv, RecordTypes, Recs!PlotState
<1> QED BY <1>1, <1>2, <1>3, <1>4, RecordsGrow

LEMMA RecordsCreate ==
    ASSUME Recs!RecordsAssumption, RecordsInv, NEW p \in Plot, NEW e \in Registration,
           \/ Recs!CreatePlot(p, e) \/ Recs!CreateAdditionalPlot(p, e)
           \/ Recs!CreatePlotContract(p, e)
    PROVE  RecordsInv'
<1>1. \A k \in Recs!Kind, b \in BOOLEAN : Recs!RowsOf(p, k, e, b) \in Seq(Fresh(p, b))
  BY RegisteredFresh
<1>2. {"fee", "gravestone", "family", "buried"} \subseteq Recs!Kind
  BY DEF Recs!Kind, Recs!Single, Recs!Listed
<1>3. CASE Recs!CreatePlot(p, e)
  <2> DEFINE new == Recs!RowsOf(p, "fee", e, TRUE) \o Recs!RowsOf(p, "gravestone", e, TRUE)
                      \o Recs!RowsOf(p, "family", e, TRUE) \o Recs!RowsOf(p, "buried", e, TRUE)
  <2>1. new \in Seq(Fresh(p, TRUE))
    BY <1>1, <1>2, Joined
  <2>2. Recs!Insert(new) /\ plot' = [plot EXCEPT ![p] = "live"] /\ UNCHANGED job
    BY <1>3 DEF Recs!CreatePlot
  <2> HIDE DEF new
  <2> QED BY <2>1, <2>2, RecordsInsert
<1>4. CASE Recs!CreateAdditionalPlot(p, e)
  <2>1. /\ Recs!Insert(Recs!RowsOf(p, "fee", e, TRUE))
        /\ plot' = [plot EXCEPT ![p] = "live"] /\ UNCHANGED job
    BY <1>4 DEF Recs!CreateAdditionalPlot
  <2> QED BY <1>1, <1>2, <2>1, RecordsInsert
<1>5. CASE Recs!CreatePlotContract(p, e)
  <2> DEFINE new == Recs!RowsOf(p, "fee", e, FALSE) \o Recs!RowsOf(p, "gravestone", e, FALSE)
  <2>1. new \in Seq(Fresh(p, FALSE))
    BY <1>1, <1>2, Joined
  <2>2. Recs!Insert(new) /\ plot' = [plot EXCEPT ![p] = "live"] /\ UNCHANGED job
    BY <1>5 DEF Recs!CreatePlotContract
  <2> HIDE DEF new
  <2> QED BY <2>1, <2>2, RecordsInsert
<1> QED BY <1>3, <1>4, <1>5

\* The last line with an id is a line.
LEMMA LastLine ==
    ASSUME NEW s \in Seq(Recs!Line), NEW i \in Recs!Named(s)
    PROVE  Recs!LineOf(s, i) \in Recs!Item
<1> DEFINE n == Len(s)
           D == {j \in DOMAIN s : s[j].id = i}
           B == {m \in Nat : \E j \in D : m = n - j}
           IsLast(j) == s[j].id = i /\ \A h \in DOMAIN s : s[h].id = i => h <= j
<1>1. DOMAIN s = 1 .. n /\ n \in Nat /\ \A j \in DOMAIN s : s[j] \in Recs!Line
  BY LenProperties, ElementOfSeq
<1> HIDE DEF n
<1>2. PICK j \in DOMAIN s : s[j].id = i
  BY DEF Recs!Named
<1>3. B # {} /\ B \in SUBSET Nat
  <2>1. n - j \in B
    BY <1>1, <1>2
  <2> QED BY <2>1
<1> HIDE DEF B
<1>4. PICK m \in B : \A k \in B : m <= k
  BY <1>3, FirstIndex
<1>5. PICK h \in D : m = n - h
  BY <1>4 DEF B
<1>6. IsLast(h)
  <2> SUFFICES ASSUME NEW k \in DOMAIN s, s[k].id = i PROVE k <= h
    BY <1>5
  <2>1. n - k \in B
    BY <1>1 DEF B
  <2> QED BY <1>1, <1>4, <1>5, <2>1
<1>7. h \in DOMAIN s
  BY <1>5
<1> DEFINE c == CHOOSE k \in DOMAIN s : IsLast(k)
<1>8. c \in DOMAIN s
  BY <1>6, <1>7
<1>9. Recs!LineOf(s, i) = s[c].item
  BY DEF Recs!LineOf
<1> HIDE DEF c
<1> QED BY <1>1, <1>8, <1>9 DEF Recs!Line

\* What the request makes of a record, and tells of it, fit together: the record stays in its
\* plot, does not come back, and is changed only below the plot of the request.
LEMMA MergedTells ==
    ASSUME NEW row \in RecordRow, row.state = "live", NEW t \in ToldRow, Tells(row, t),
           NEW item \in Recs!Item
    PROVE  LET new == Recs!Merged(row, item)
               before == [form |-> row.form, other |-> row.other]
               after == Recs!HandedIn(row, item)
               told2 == IF before = after THEN t
                        ELSE [state |-> "live", form |-> after.form, other |-> after.other]
           IN  /\ new \in RecordRow /\ new.plot = row.plot /\ new.kind = row.kind
               /\ new.logged = row.logged /\ new.state = row.state
               /\ told2 \in ToldRow /\ Tells(new, told2)
<1> DEFINE new == Recs!Merged(row, item)
           before == [form |-> row.form, other |-> row.other]
           after == Recs!HandedIn(row, item)
           told2 == IF before = after THEN t
                    ELSE [state |-> "live", form |-> after.form, other |-> after.other]
<1>1. Null \in Field /\ row.form \in Field /\ row.other \in Field
  BY DEF Field, RecordRow
<1>2. \A f \in Field : Recs!Sent(item.form, f) \in Field /\ Recs!Sent(item.other, f) \in Field
  BY ItemFields
<1>3. /\ new \in RecordRow /\ new.plot = row.plot /\ new.kind = row.kind
      /\ new.logged = row.logged /\ new.state = row.state
      /\ new.form \in Field /\ new.other \in Field
  BY <1>1, <1>2 DEF Recs!Merged, RecordRow
<1>4. /\ after.form = new.form /\ after.other \in Field
      /\ row.kind # "buried" => after.other = new.other
  BY <1>1, <1>2, <1>3 DEF Recs!HandedIn
<1>5. after = [form |-> after.form, other |-> after.other]
  BY DEF Recs!HandedIn
<1> HIDE DEF new, after
<1>6. before = after => row.form = after.form /\ row.other = after.other
  BY <1>5
<1>7. CASE before = after
  <2>1. told2 = t
    BY <1>7
  <2>2. row.form = after.form /\ row.other = after.other
    BY <1>6, <1>7
  <2> HIDE DEF told2, before
  <2>3. Tells(new, t)
    BY <1>3, <1>4, <2>2 DEF Tells
  <2> QED BY <1>3, <2>1, <2>3 DEF told2, before, new, after
<1>8. CASE before # after
  <2>1. told2 = [state |-> "live", form |-> after.form, other |-> after.other]
    BY <1>8
  <2> HIDE DEF told2, before
  <2>2. told2 \in ToldRow
    BY <1>3, <1>4, <2>1 DEF ToldRow
  <2>3. Tells(new, told2)
    BY <1>3, <1>4, <2>1 DEF Tells
  <2> QED BY <1>3, <2>2, <2>3 DEF told2, before, new, after
<1> QED BY <1>7, <1>8 DEF new, after

\* The same without the history, for a record whose beginning nobody told.
LEMMA MergedShape ==
    ASSUME NEW row \in RecordRow, NEW item \in Recs!Item, NEW i, told[i] \in ToldRow
    PROVE  /\ Recs!Merged(row, item) \in RecordRow
           /\ Recs!Merged(row, item).plot = row.plot /\ Recs!Merged(row, item).kind = row.kind
           /\ Recs!Merged(row, item).logged = row.logged
           /\ Recs!Merged(row, item).state = row.state
           /\ Recs!ToldUpdate(i, [form |-> row.form, other |-> row.other],
                              Recs!HandedIn(row, item)) \in ToldRow
<1>1. Null \in Field /\ row.form \in Field /\ row.other \in Field
  BY DEF Field, RecordRow
<1>2. \A f \in Field : Recs!Sent(item.form, f) \in Field /\ Recs!Sent(item.other, f) \in Field
  BY ItemFields
<1>3. /\ Recs!Merged(row, item) \in RecordRow
      /\ Recs!Merged(row, item).plot = row.plot /\ Recs!Merged(row, item).kind = row.kind
      /\ Recs!Merged(row, item).logged = row.logged
      /\ Recs!Merged(row, item).state = row.state
      /\ Recs!Merged(row, item).form \in Field /\ Recs!Merged(row, item).other \in Field
  BY <1>1, <1>2 DEF Recs!Merged, RecordRow
<1>4. /\ Recs!HandedIn(row, item).form \in Field
      /\ Recs!HandedIn(row, item).other \in Field
  BY <1>1, <1>2, <1>3 DEF Recs!HandedIn
<1>5. Recs!ToldUpdate(i, [form |-> row.form, other |-> row.other], Recs!HandedIn(row, item))
        \in ToldRow
  BY <1>4 DEF Recs!ToldUpdate, ToldRow
<1> QED BY <1>3, <1>5

\* A record that is gone is told to be gone.
LEMMA GoneTells ==
    ASSUME NEW row \in RecordRow, NEW i, told[i] \in ToldRow,
           NEW s \in {"soft", "hard"}
    PROVE  LET new == [row EXCEPT !.state = s]
           IN  /\ new \in RecordRow /\ new.plot = row.plot /\ new.kind = row.kind
               /\ new.logged = row.logged /\ new.state # "live"
               /\ Recs!ToldDelete(i) \in ToldRow
               /\ Tells(row, told[i]) => Tells(new, Recs!ToldDelete(i))
BY DEF RecordRow, ToldRow, Recs!RowState, Recs!ToldDelete, Tells

\* What an edit makes of a record: it stays in its plot, does not come back, is changed only
\* below the plot of the request, and the history goes with it.
KeptBy(p, i, row, t) ==
    /\ row \in RecordRow /\ t \in ToldRow
    /\ row.plot = rows[i].plot /\ row.kind = rows[i].kind /\ row.logged = rows[i].logged
    /\ row.state = "live" => rows[i].state = "live"
    /\ row # rows[i] => rows[i].plot = p
    /\ row.logged => Tells(row, t)

LEMMA EditKeeps ==
    ASSUME Recs!RecordsAssumption, RecordsInv, NEW p \in Plot, NEW e \in Edit,
           NEW i \in DOMAIN rows
    PROVE  KeptBy(p, i, Recs!Changed(p, e, i), Recs!ToldChanged(p, e, i))
<1> DEFINE row == rows[i]
           k == row.kind
           s == e[k]
           new == Recs!Changed(p, e, i)
           t == Recs!ToldChanged(p, e, i)
<1>1. row \in RecordRow /\ told[i] \in ToldRow /\ (row.logged => Tells(row, told[i]))
  BY RecordAt DEF RecordsInv, Recs!HistoryTells, Tells
<1>2. k \in Recs!Kind /\ s \in Recs!Section(k)
  BY <1>1 DEF RecordRow, Recs!RecordsAssumption
<1>3. CASE ~Recs!Touched(p, e, i)
  BY <1>1, <1>3 DEF Recs!Changed, Recs!ToldChanged, KeptBy
<1>4. CASE Recs!Touched(p, e, i)
  <2>1. row.state = "live" /\ row.plot = p /\ s # Null
    BY <1>4 DEF Recs!Touched, Recs!Existing, Recs!Own
  <2>2. ASSUME NEW item \in Recs!Item, new = Recs!Merged(row, item),
               t = Recs!ToldUpdate(i, [form |-> row.form, other |-> row.other],
                                   Recs!HandedIn(row, item))
        PROVE  KeptBy(p, i, new, t)
    <3> HIDE DEF new, t, row
    <3>1. /\ new \in RecordRow /\ new.plot = row.plot /\ new.kind = row.kind
          /\ new.logged = row.logged /\ new.state = row.state /\ t \in ToldRow
      BY <1>1, <2>2, MergedShape
    <3>2. row.logged => Tells(new, t)
      BY <1>1, <2>1, <2>2, MergedTells DEF Recs!ToldUpdate
    <3> QED BY <2>1, <3>1, <3>2 DEF KeptBy, row
  <2>3. ASSUME NEW d \in {"soft", "hard"}, new = [row EXCEPT !.state = d],
               t = Recs!ToldDelete(i)
        PROVE  KeptBy(p, i, new, t)
    <3> HIDE DEF new, t, row
    <3>1. /\ new \in RecordRow /\ new.plot = row.plot /\ new.kind = row.kind
          /\ new.logged = row.logged /\ new.state # "live" /\ t \in ToldRow
          /\ row.logged => Tells(new, t)
      BY <1>1, <2>3, GoneTells
    <3> QED BY <2>1, <3>1 DEF KeptBy, row
  <2>4. CASE k \in Recs!Single
    <3>1. new = Recs!AfterSingle(row, s) /\ t = Recs!ToldSingle(row, i, s)
      BY <1>4, <2>4 DEF Recs!Changed, Recs!ToldChanged
    <3>2. CASE s = Remove
      BY <2>3, <3>1, <3>2 DEF Recs!AfterSingle, Recs!ToldSingle
    <3>3. CASE s # Remove
      <4>1. s \in Recs!Item
        BY <1>2, <2>1, <2>4, <3>3 DEF Recs!Section
      <4> QED BY <2>2, <3>1, <3>3, <4>1 DEF Recs!AfterSingle, Recs!ToldSingle
    <3> QED BY <3>2, <3>3
  <2>5. CASE k \notin Recs!Single
    <3>1. /\ new = Recs!AfterListed(row, i, s) /\ t = Recs!ToldListed(row, i, s)
          /\ s \in Seq(Recs!Line)
      BY <1>2, <1>4, <2>1, <2>5 DEF Recs!Changed, Recs!ToldChanged, Recs!Section
    <3>2. CASE i \notin Recs!Named(s)
      BY <2>3, <3>1, <3>2 DEF Recs!AfterListed, Recs!ToldListed
    <3>3. CASE i \in Recs!Named(s) /\ Recs!Skipped(k, Recs!LineOf(s, i))
      BY <1>1, <2>1, <3>1, <3>3 DEF Recs!AfterListed, Recs!ToldListed, KeptBy
    <3>4. CASE i \in Recs!Named(s) /\ ~Recs!Skipped(k, Recs!LineOf(s, i))
      <4>1. Recs!LineOf(s, i) \in Recs!Item
        BY <3>1, <3>4, LastLine
      <4> QED BY <2>2, <3>1, <3>4, <4>1 DEF Recs!AfterListed, Recs!ToldListed
    <3> QED BY <3>2, <3>3, <3>4
  <2> QED BY <2>4, <2>5
<1> QED BY <1>3, <1>4

LEMMA RecordsUpdate ==
    ASSUME Recs!RecordsAssumption, RecordsInv, NEW p \in Plot, NEW e \in Edit,
           Recs!UpdatePlot(p, e)
    PROVE  /\ RecordsInv'
           /\ \A i \in DOMAIN rows : rows'[i] # rows[i] => rows[i].plot = p
<1> DEFINE new == Recs!AddedSingle(p, "fee", e["fee"])
                    \o Recs!AddedSingle(p, "gravestone", e["gravestone"])
                    \o Recs!AddedListed(p, "family", e["family"])
                    \o Recs!AddedListed(p, "buried", e["buried"])
                    \o Recs!AddedListed(p, "construction", e["construction"])
           F == [i \in DOMAIN rows |-> Recs!Changed(p, e, i)]
           G == [i \in DOMAIN rows |-> Recs!ToldChanged(p, e, i)]
<1>1. /\ plot[p] = "live" /\ rows' = F \o new
      /\ told' = G \o [j \in DOMAIN new |-> Recs!ToldCreate(new[j])]
      /\ UNCHANGED <<plot, job>>
  BY DEF Recs!UpdatePlot
<1>2. new \in Seq(Fresh(p, TRUE))
  <2>1. "fee" \in Recs!Single /\ "gravestone" \in Recs!Single
    BY DEF Recs!Single
  <2>2. {"family", "buried", "construction"} \subseteq Recs!Listed
    BY DEF Recs!Listed
  <2>3. /\ Recs!AddedSingle(p, "fee", e["fee"]) \in Seq(Fresh(p, TRUE))
        /\ Recs!AddedSingle(p, "gravestone", e["gravestone"]) \in Seq(Fresh(p, TRUE))
        /\ Recs!AddedListed(p, "family", e["family"]) \in Seq(Fresh(p, TRUE))
        /\ Recs!AddedListed(p, "buried", e["buried"]) \in Seq(Fresh(p, TRUE))
        /\ Recs!AddedListed(p, "construction", e["construction"]) \in Seq(Fresh(p, TRUE))
    BY <2>1, <2>2, EditedFresh
  <2> QED BY <2>3, Joined
<1>3. \A i \in DOMAIN rows : KeptBy(p, i, Recs!Changed(p, e, i), Recs!ToldChanged(p, e, i))
  BY EditKeeps
<1>4. \A i \in DOMAIN rows : F[i] = Recs!Changed(p, e, i) /\ G[i] = Recs!ToldChanged(p, e, i)
  OBVIOUS
<1>5. DOMAIN F = DOMAIN rows /\ DOMAIN G = DOMAIN rows
      /\ F = [i \in DOMAIN rows |-> F[i]] /\ G = [i \in DOMAIN rows |-> G[i]]
  OBVIOUS
<1> HIDE DEF new, F, G
<1>6. /\ F \in [DOMAIN rows -> RecordRow] /\ G \in [DOMAIN rows -> ToldRow]
      /\ \A i \in DOMAIN rows :
           /\ F[i].plot = rows[i].plot /\ F[i].kind = rows[i].kind
           /\ F[i].logged = rows[i].logged
           /\ F[i].state = "live" => rows[i].state = "live"
           /\ F[i].logged => Tells(F[i], G[i])
  BY <1>3, <1>4, <1>5 DEF KeptBy
<1>7. /\ plot' \in [Plot -> Recs!PlotState] /\ plot'[p] = "live"
      /\ \A q \in Plot : plot'[q] = "deleted" => plot[q] = "deleted"
  BY <1>1 DEF RecordsInv, RecordTypes
<1>8. RecordsInv'
  BY <1>1, <1>2, <1>6, <1>7, RecordsGrow
<1>9. \A i \in DOMAIN rows : rows'[i] = F[i]
  <2>1. DOMAIN rows = 1 .. Len(rows) /\ Len(rows) \in Nat
    BY LenProperties DEF RecordsInv, RecordTypes
  <2>2. F \in Seq(RecordRow) /\ Len(F) = Len(rows)
    <3>1. F \in Seq(RecordRow)
      BY <1>6, <2>1, SeqDef
    <3>2. DOMAIN F = 1 .. Len(F) /\ Len(F) \in Nat
      BY <3>1, LenProperties
    <3> QED BY <1>5, <2>1, <3>1, <3>2
  <2>3. new \in Seq(RecordRow)
    <3>1. DOMAIN new = 1 .. Len(new) /\ Len(new) \in Nat /\ new \in [1 .. Len(new) -> Fresh(p, TRUE)]
      BY <1>2, LenProperties, SeqDef
    <3>2. new \in [1 .. Len(new) -> RecordRow]
      BY <3>1 DEF Fresh
    <3> QED BY <3>1, <3>2, SeqDef
  <2>4. /\ Len(new) \in Nat
        /\ \A i \in 1 .. Len(F) + Len(new) :
             (F \o new)[i] = IF i <= Len(F) THEN F[i] ELSE new[i - Len(F)]
    BY <2>2, <2>3, ConcatProperties, LenProperties
  <2>5. \A i \in DOMAIN rows : i \in 1 .. Len(F) + Len(new) /\ i <= Len(F)
    BY <2>1, <2>2, <2>4
  <2> QED BY <1>1, <2>4, <2>5
<1> QED BY <1>3, <1>4, <1>8, <1>9 DEF KeptBy

\* A deletion that has read the fees of its plot.
LEMMA RecordsRead ==
    ASSUME RecordsInv, NEW x \in Deleter, NEW p \in Plot, Recs!Read(x, p)
    PROVE  RecordsInv' /\ UNCHANGED rows
<1>1. /\ job' = [job EXCEPT ![x] = [plot |-> p, fees |-> Recs!Own(p, "fee")]]
      /\ UNCHANGED <<plot, rows, told>>
  BY DEF Recs!Read
<1>2. \A i \in Recs!Own(p, "fee") : i \in DOMAIN rows /\ rows[i].plot = p
  BY DEF Recs!Own
<1>3. Recs!Own(p, "fee") \in SUBSET Nat
  BY <1>2, RecordAt DEF RecordsInv
<1> DEFINE fees == Recs!Own(p, "fee")
<1> HIDE DEF fees
<1>4. RecordTypes'
  <2>1. job' \in [Deleter -> [plot : Plot \cup {Null}, fees : SUBSET Nat]]
    BY <1>1, <1>3 DEF RecordsInv, RecordTypes
  <2>2. ASSUME NEW y \in Deleter, NEW i \in job'[y].fees
        PROVE  i \in DOMAIN rows /\ rows[i].plot = job'[y].plot
    <3>1. CASE y = x
      <4>1. job'[y] = [plot |-> p, fees |-> Recs!Own(p, "fee")]
        BY <1>1, <3>1 DEF RecordsInv, RecordTypes
      <4> QED BY <1>2, <2>2, <4>1
    <3>2. CASE y # x
      BY <1>1, <2>2, <3>2 DEF RecordsInv, RecordTypes
    <3> QED BY <3>1, <3>2
  <2> QED BY <1>1, <2>1, <2>2 DEF RecordsInv, RecordTypes
<1>5. Recs!NothingSurvives' /\ Recs!HistoryTells'
  BY <1>1 DEF RecordsInv, Recs!NothingSurvives, Recs!HistoryTells
<1> QED BY <1>1, <1>4, <1>5 DEF RecordsInv

LEMMA RecordsDelete ==
    ASSUME RecordsInv, NEW x \in Deleter, Recs!CommitDelete(x)
    PROVE  /\ RecordsInv'
           /\ \A i \in DOMAIN rows : rows'[i] # rows[i] => rows[i].plot = job[x].plot
<1> DEFINE p == job[x].plot
           gone == job[x].fees \cup Recs!Found(p)
<1>1. /\ plot' = [plot EXCEPT ![p] = "deleted"]
      /\ rows' = [i \in DOMAIN rows |->
                    IF i \in gone THEN [rows[i] EXCEPT !.state = "soft"] ELSE rows[i]]
      /\ told' = [i \in DOMAIN rows |-> IF i \in gone THEN Recs!ToldDelete(i) ELSE told[i]]
      /\ job' = [job EXCEPT ![x] = Recs!Idle]
  BY DEF Recs!CommitDelete
<1>2. \A i \in gone : i \in DOMAIN rows /\ rows[i].plot = p
  BY DEF RecordsInv, RecordTypes, Recs!Found, Recs!Own
<1>3. \A i \in DOMAIN rows : rows[i].plot = p /\ rows[i].kind \in Recs!Cascade
                             /\ rows[i].state = "live" => i \in gone
  BY DEF Recs!Found, Recs!Own
<1> HIDE DEF gone
<1>4. ASSUME NEW i \in DOMAIN rows
      PROVE  /\ rows'[i] \in RecordRow /\ told'[i] \in ToldRow
             /\ rows'[i].plot = rows[i].plot /\ rows'[i].kind = rows[i].kind
             /\ rows'[i].logged = rows[i].logged
             /\ rows'[i].state = "live" => rows[i].state = "live" /\ i \notin gone
             /\ rows'[i].logged => Tells(rows'[i], told'[i])
             /\ rows'[i] # rows[i] => i \in gone
  <2>1. rows[i] \in RecordRow /\ told[i] \in ToldRow /\ (rows[i].logged => Tells(rows[i], told[i]))
    BY RecordAt DEF RecordsInv, Recs!HistoryTells, Tells
  <2>2. CASE i \notin gone
    BY <1>1, <2>1, <2>2
  <2>3. CASE i \in gone
    <3>1. rows'[i] = [rows[i] EXCEPT !.state = "soft"] /\ told'[i] = Recs!ToldDelete(i)
      BY <1>1, <2>3
    <3>2. /\ [rows[i] EXCEPT !.state = "soft"] \in RecordRow
          /\ [rows[i] EXCEPT !.state = "soft"].plot = rows[i].plot
          /\ [rows[i] EXCEPT !.state = "soft"].kind = rows[i].kind
          /\ [rows[i] EXCEPT !.state = "soft"].logged = rows[i].logged
          /\ [rows[i] EXCEPT !.state = "soft"].state # "live"
          /\ Recs!ToldDelete(i) \in ToldRow
          /\ Tells(rows[i], told[i])
             => Tells([rows[i] EXCEPT !.state = "soft"], Recs!ToldDelete(i))
      BY <2>1, GoneTells
    <3> QED BY <2>1, <2>3, <3>1, <3>2
  <2> QED BY <2>2, <2>3
<1>5. DOMAIN rows = 1 .. Len(rows) /\ Len(rows) \in Nat /\ DOMAIN rows' = DOMAIN rows
      /\ DOMAIN told' = DOMAIN rows
  BY <1>1, LenProperties DEF RecordsInv, RecordTypes
<1>6. RecordTypes'
  <2>1. rows' \in [1 .. Len(rows) -> RecordRow] /\ told' \in [1 .. Len(rows) -> ToldRow]
    BY <1>1, <1>4, <1>5
  <2>2. rows' \in Seq(RecordRow) /\ told' \in Seq(ToldRow)
    BY <1>5, <2>1, SeqDef
  <2>3. Len(told') = Len(rows')
    BY <1>5, <2>2, LenProperties
  <2>4. plot' \in [Plot -> Recs!PlotState]
    BY <1>1 DEF RecordsInv, RecordTypes, Recs!PlotState
  <2>5. Recs!Idle \in [plot : Plot \cup {Null}, fees : SUBSET Nat] /\ Recs!Idle.fees = {}
    BY DEF Recs!Idle
  <2>6. job' \in [Deleter -> [plot : Plot \cup {Null}, fees : SUBSET Nat]]
    BY <1>1, <2>5 DEF RecordsInv, RecordTypes
  <2>7. ASSUME NEW y \in Deleter, NEW i \in job'[y].fees
        PROVE  i \in DOMAIN rows' /\ rows'[i].plot = job'[y].plot
    <3>1. job'[y] = job[y]
      BY <1>1, <2>5, <2>7 DEF RecordsInv, RecordTypes
    <3>2. i \in DOMAIN rows /\ rows[i].plot = job[y].plot
      BY <2>7, <3>1 DEF RecordsInv, RecordTypes
    <3> QED BY <1>4, <1>5, <3>1, <3>2
  <2> QED BY <2>2, <2>3, <2>4, <2>6, <2>7 DEF RecordTypes
<1>7. Recs!NothingSurvives'
  <2> SUFFICES ASSUME NEW i \in DOMAIN rows, plot'[rows'[i].plot] = "deleted",
                      rows'[i].kind \in Recs!Cascade, rows'[i].state = "live"
               PROVE  FALSE
    BY <1>5 DEF Recs!NothingSurvives
  <2>1. rows[i].plot \in Plot /\ rows[i].state = "live" /\ i \notin gone
        /\ rows'[i].plot = rows[i].plot /\ rows'[i].kind = rows[i].kind
    BY <1>4, RecordAt DEF RecordsInv, RecordRow
  <2>2. rows[i].plot # p
    BY <1>3, <2>1
  <2>3. plot[rows[i].plot] = "deleted"
    BY <1>1, <2>1, <2>2 DEF RecordsInv, RecordTypes
  <2> QED BY <2>1, <2>3 DEF RecordsInv, Recs!NothingSurvives
<1>8. Recs!HistoryTells'
  BY <1>4, <1>5 DEF Recs!HistoryTells, Tells
<1> QED BY <1>2, <1>4, <1>6, <1>7, <1>8 DEF RecordsInv

LEMMA RecordsFail ==
    ASSUME RecordsInv, NEW x \in Deleter, Recs!FailDelete(x)
    PROVE  RecordsInv' /\ UNCHANGED rows
<1>1. job' = [job EXCEPT ![x] = Recs!Idle] /\ UNCHANGED <<plot, rows, told>>
  BY DEF Recs!FailDelete
<1>2. Recs!Idle \in [plot : Plot \cup {Null}, fees : SUBSET Nat] /\ Recs!Idle.fees = {}
  BY DEF Recs!Idle
<1>3. RecordTypes'
  <2>1. job' \in [Deleter -> [plot : Plot \cup {Null}, fees : SUBSET Nat]]
    BY <1>1, <1>2 DEF RecordsInv, RecordTypes
  <2>2. ASSUME NEW y \in Deleter, NEW i \in job'[y].fees PROVE job'[y] = job[y]
    BY <1>1, <1>2, <2>2 DEF RecordsInv, RecordTypes
  <2> QED BY <1>1, <2>1, <2>2 DEF RecordsInv, RecordTypes
<1>4. Recs!NothingSurvives' /\ Recs!HistoryTells'
  BY <1>1 DEF RecordsInv, Recs!NothingSurvives, Recs!HistoryTells
<1> QED BY <1>1, <1>3, <1>4 DEF RecordsInv

\* Every step keeps the invariant and changes records of one plot only.
OneBelow ==
    \A i, j \in DOMAIN rows :
      rows'[i] # rows[i] /\ rows'[j] # rows[j] => rows[i].plot = rows[j].plot

LEMMA RecordsStep ==
    ASSUME Recs!RecordsAssumption, RecordsInv, [Recs!Next]_(Recs!vars)
    PROVE  RecordsInv' /\ OneBelow
<1>1. ASSUME NEW p \in Plot, NEW e \in Registration,
             \/ Recs!CreatePlot(p, e) \/ Recs!CreateAdditionalPlot(p, e)
             \/ Recs!CreatePlotContract(p, e)
      PROVE  RecordsInv' /\ OneBelow
  <2>1. RecordsInv'
    BY <1>1, RecordsCreate
  <2>2. \E new, b : new \in Seq(Fresh(p, b)) /\ rows' = rows \o new
    <3>1. \A k \in Recs!Kind, b \in BOOLEAN : Recs!RowsOf(p, k, e, b) \in Seq(Fresh(p, b))
      BY RegisteredFresh
    <3>2. {"fee", "gravestone", "family", "buried"} \subseteq Recs!Kind
      BY DEF Recs!Kind, Recs!Single, Recs!Listed
    <3> QED BY <1>1, <3>1, <3>2, Joined
            DEF Recs!CreatePlot, Recs!CreateAdditionalPlot, Recs!CreatePlotContract, Recs!Insert
  <2>3. PICK new, b : new \in Seq(Fresh(p, b)) /\ rows' = rows \o new
    BY <2>2
  <2>4. rows \in Seq(RecordRow) /\ new \in Seq(RecordRow)
    <3>1. DOMAIN new = 1 .. Len(new) /\ Len(new) \in Nat /\ new \in [1 .. Len(new) -> Fresh(p, b)]
      BY <2>3, LenProperties, SeqDef
    <3>2. new \in [1 .. Len(new) -> RecordRow]
      BY <3>1 DEF Fresh
    <3> QED BY <3>1, <3>2, SeqDef DEF RecordsInv, RecordTypes
  <2>5. /\ DOMAIN rows = 1 .. Len(rows) /\ Len(rows) \in Nat /\ Len(new) \in Nat
        /\ \A i \in 1 .. Len(rows) + Len(new) :
             rows'[i] = IF i <= Len(rows) THEN rows[i] ELSE new[i - Len(rows)]
    BY <2>3, <2>4, ConcatProperties, LenProperties
  <2>6. \A i \in DOMAIN rows : rows'[i] = rows[i]
    <3>1. \A i \in DOMAIN rows : i \in 1 .. Len(rows) + Len(new) /\ i <= Len(rows)
      BY <2>5
    <3> QED BY <2>5, <3>1
  <2> QED BY <2>1, <2>6 DEF OneBelow
<1>2. ASSUME NEW p \in Plot, NEW e \in Edit, Recs!UpdatePlot(p, e) PROVE RecordsInv' /\ OneBelow
  BY <1>2, RecordsUpdate DEF OneBelow
<1>3. ASSUME NEW x \in Deleter, NEW p \in Plot, Recs!Read(x, p) PROVE RecordsInv' /\ OneBelow
  BY <1>3, RecordsRead DEF OneBelow
<1>4. ASSUME NEW x \in Deleter, Recs!CommitDelete(x) PROVE RecordsInv' /\ OneBelow
  BY <1>4, RecordsDelete DEF OneBelow
<1>5. ASSUME NEW x \in Deleter, Recs!FailDelete(x) PROVE RecordsInv' /\ OneBelow
  BY <1>5, RecordsFail DEF OneBelow
<1>6. CASE UNCHANGED Recs!vars
  BY <1>6 DEF Recs!vars, RecordsInv, RecordTypes, Recs!NothingSurvives, Recs!HistoryTells, OneBelow
<1> QED BY <1>1, <1>2, <1>3, <1>4, <1>5, <1>6 DEF Recs!Next

LEMMA RecordsInvariant ==
    ASSUME Recs!RecordsAssumption PROVE Recs!Spec => []RecordsInv
<1>1. Recs!Init => RecordsInv
  BY RecordsInit
<1>2. RecordsInv /\ [Recs!Next]_(Recs!vars) => RecordsInv'
  BY RecordsStep
<1> QED BY <1>1, <1>2, PTL DEF Recs!Spec

\* The history, read from its start, gives what the tables hold of every record it saw
\* begin, whatever forms are sent and however deletions overlap.
THEOREM HistoryAlwaysTells ==
    ASSUME Recs!RecordsAssumption PROVE Recs!Spec => []HistoryTells
<1>1. RecordsInv => HistoryTells
  BY DEF RecordsInv, HistoryTells
<1> QED BY <1>1, RecordsInvariant, PTL

\* Nothing of what the cascade looks up outlives its plot.
THEOREM NothingOutlivesItsPlot ==
    ASSUME Recs!RecordsAssumption PROVE Recs!Spec => []NothingSurvives
<1>1. RecordsInv => NothingSurvives
  BY DEF RecordsInv, NothingSurvives
<1> QED BY <1>1, RecordsInvariant, PTL

\* A request changes records of one plot only, whatever ids its lines name.
THEOREM OwnRecordsOnly ==
    ASSUME Recs!RecordsAssumption PROVE Recs!Spec => OnlyOwnRecords
<1>1. RecordsInv /\ [Recs!Next]_(Recs!vars) =>
        [\A i, j \in DOMAIN rows :
           rows'[i] # rows[i] /\ rows'[j] # rows[j] => rows[i].plot = rows[j].plot]_(Recs!vars)
  BY RecordsStep DEF OneBelow
<1> QED BY <1>1, RecordsInvariant, PTL DEF Recs!Spec, OnlyOwnRecords, Recs!OnlyOwnRecords

-----------------------------------------------------------------------------
(* The script that moves the former system *)

\* A row of the new database, as the steps make it: what belongs to another row has that
\* row, roles are those of one contractor's plot, and nobody whose contract ended has a
\* contract or money.
Rooted(r, ids) ==
    /\ r.id.table \in Move!PartTables =>
         \E id \in ids : id.table = "contractPlot" /\ id.cd = r.id.cd
    /\ r.id.table = "workInfo" => \E id \in ids : id.table = "customer" /\ id.cd = r.id.cd
    /\ r.id.table \in {"contractor", "applicant"} =>
         \E l \in Move!Live(t_danka), p \in ids : \E c :
            /\ l.cd = r.id.cd /\ r.of = {p, c}
            /\ p.table = "contractPlot" /\ p.cd = l.grave_cd /\ c.table # "contractPlot"
            /\ r.id.table = "applicant" => l.request # "none"
            /\ r.id.table = "contractor" \/ l.request = "same" =>
                 c \in ids /\ c.table = "customer" /\ c.cd = l.cd
    /\ r.id.table \in {"contractor", "applicant", "billing", "payment"} =>
         \A id \in r.of : id.table = "customer" => id.cd \notin Move!Terminated

Owed == {owed[i] : i \in DOMAIN owed}

\* What is owed has not been made, and is owed once.
OwedHolds ==
    /\ owed \in Seq(Owed)
    /\ \A r \in Owed : Rooted(r, Move!Ids)
    /\ \A r \in Owed : r.id.table # "applicantCustomer" => Move!Existing(r.id.table, r.id.cd) = {}
    /\ \A i, j \in DOMAIN owed :
         /\ owed[i].id.table # "applicantCustomer"
         /\ owed[i].id.table = owed[j].id.table /\ owed[i].id.cd = owed[j].id.cd
         => i = j

\* The maps hold ids of rows that are there, and no customer whose contract ended.
MapsHold ==
    /\ idMaps = [key \in Move!Maps |-> idMaps[key]]
    /\ \A key \in Move!Maps : \A id \in idMaps[key] :
         /\ id \in Move!Ids /\ id.table = key
         /\ key = "customer" => id.cd \notin Move!Terminated

\* A step has rows of its own source to come to.
TodoHolds ==
    entered =>
      /\ Head(steps) = "masters" => todo \subseteq sykbnn
      /\ Head(steps) = "staff" => todo \subseteq matant
      /\ Head(steps) = "physicalPlot" => todo \subseteq m_bochi
      /\ Head(steps) = "customer" => todo \subseteq t_danka
      /\ Head(steps) = "contractPlot" => todo \subseteq m_bochi
      /\ Head(steps) = "saleContractRole" => todo \subseteq Move!Live(t_danka)
      /\ Head(steps) = "familyContact" => todo \subseteq t_family
      /\ Head(steps) = "buriedPerson" => todo \subseteq t_maisou
      /\ Head(steps) = "billing" => todo \subseteq t_seikyu
      /\ Head(steps) = "payment" => todo \subseteq t_nyukin
      /\ Head(steps) = "history" => todo \subseteq t_dankalog \cup t_famlog

RunHolds ==
    /\ steps = <<>> => idMaps = Move!NoMaps /\ ~entered
    /\ ~entered => owed = <<>>

RowsHold == Move!NothingTwice /\ \A r \in data : Rooted(r, Move!Ids)

MoveInv == RowsHold /\ OwedHolds /\ MapsHold /\ TodoHolds /\ RunHolds

\* What is so while rows stay is so when more are there.
LEMMA RootedStays ==
    ASSUME NEW r, NEW S, NEW T, S \subseteq T, Rooted(r, S) PROVE Rooted(r, T)
BY DEF Rooted

LEMMA MapsStay ==
    ASSUME MapsHold, data \subseteq data', idMaps' = idMaps PROVE MapsHold'
BY DEF MapsHold, Move!Ids

\* A row of its own that is put at a key nobody has, and what follows it.
LEMMA RowMade ==
    ASSUME RowsHold, NEW r, Rooted(r, Move!Ids'),
           r.id.table # "applicantCustomer" => Move!Existing(r.id.table, r.id.cd) = {},
           data' = data \cup {r}
    PROVE  RowsHold'
<1>1. Move!Ids \subseteq Move!Ids'
  BY DEF Move!Ids
<1>2. \A s \in data' : Rooted(s, Move!Ids')
  BY <1>1, RootedStays DEF RowsHold
<1>3. ASSUME NEW s \in data', NEW t \in data', s.id.table = t.id.table, s.id.cd = t.id.cd,
             s.id.table # "applicantCustomer"
      PROVE  s = t
  BY <1>3 DEF RowsHold, Move!NothingTwice, Move!Existing
<1> QED BY <1>2, <1>3 DEF RowsHold, Move!NothingTwice

\* The next row that is owed is made.
LEMMA OwedMade ==
    ASSUME MoveInv, Move!createNext PROVE MoveInv'
<1> USE DEF MoveInv
<1>1. /\ owed # <<>> /\ data' = data \cup {Head(owed)} /\ owed' = Tail(owed)
      /\ idMaps' = idMaps /\ steps' = steps /\ entered' = entered /\ todo' = todo
  BY DEF Move!createNext
<1>2. owed \in Seq(Owed) /\ Len(owed) \in Nat /\ Len(owed) # 0 /\ DOMAIN owed = 1 .. Len(owed)
  BY <1>1, EmptySeq, LenProperties DEF OwedHolds
<1>3. Head(owed) = owed[1] /\ 1 \in DOMAIN owed /\ owed[1] \in Owed
  BY <1>1, <1>2, HeadTailProperties DEF Owed
<1>4. /\ DOMAIN owed' = 1 .. Len(owed) - 1
      /\ \A i \in 1 .. Len(owed) - 1 : i + 1 \in DOMAIN owed /\ owed'[i] = owed[i + 1]
  <2>1. Len(owed') = Len(owed) - 1 /\ owed' \in Seq(Owed)
        /\ \A i \in 1 .. Len(owed') : owed'[i] = owed[i + 1]
    BY <1>1, <1>2, HeadTailProperties
  <2> QED BY <1>2, <2>1, LenProperties
<1>5. Move!Ids \subseteq Move!Ids'
  BY <1>1 DEF Move!Ids
<1>6. RowsHold'
  <2>1. Rooted(owed[1], Move!Ids')
    BY <1>3, <1>5, RootedStays DEF OwedHolds
  <2> QED BY <1>1, <1>3, <2>1, RowMade DEF OwedHolds
<1>7. OwedHolds'
  <2>1. Owed' \subseteq Owed
    BY <1>4 DEF Owed
  <2>2. owed' \in Seq(Owed')
    <3>1. owed' \in Seq(Owed)
      BY <1>1, <1>2, HeadTailProperties
    <3>2. owed' \in [1 .. Len(owed') -> Owed] /\ DOMAIN owed' = 1 .. Len(owed') /\ Len(owed') \in Nat
      BY <3>1, LenProperties, SeqDef
    <3>3. \A i \in DOMAIN owed' : owed'[i] \in Owed'
      BY DEF Owed
    <3>4. owed' \in [1 .. Len(owed') -> Owed']
      BY <3>2, <3>3
    <3> QED BY <3>2, <3>4, SeqDef
  <2>3. ASSUME NEW r \in Owed' PROVE Rooted(r, Move!Ids')
    BY <1>5, <2>1, RootedStays DEF OwedHolds
  <2>4. ASSUME NEW i \in DOMAIN owed', owed'[i].id.table # "applicantCustomer"
        PROVE  \A s \in data' : ~(s.id.table = owed'[i].id.table /\ s.id.cd = owed'[i].id.cd)
    <3>1. i + 1 \in DOMAIN owed /\ owed'[i] = owed[i + 1] /\ i + 1 # 1
      BY <1>2, <1>4
    <3>2. Move!Existing(owed[i + 1].id.table, owed[i + 1].id.cd) = {}
      BY <2>4, <3>1 DEF OwedHolds, Owed
    <3>3. ~(owed[1].id.table = owed[i + 1].id.table /\ owed[1].id.cd = owed[i + 1].id.cd)
      BY <1>3, <2>4, <3>1 DEF OwedHolds
    <3>4. \A s \in data : ~(s.id.table = owed[i + 1].id.table /\ s.id.cd = owed[i + 1].id.cd)
      BY <3>2 DEF Move!Existing
    <3> QED BY <1>1, <1>3, <3>1, <3>3, <3>4
  <2>5. ASSUME NEW i \in DOMAIN owed', NEW j \in DOMAIN owed',
               owed'[i].id.table # "applicantCustomer",
               owed'[i].id.table = owed'[j].id.table, owed'[i].id.cd = owed'[j].id.cd
        PROVE  i = j
    <3>1. /\ i + 1 \in DOMAIN owed /\ owed'[i] = owed[i + 1]
          /\ j + 1 \in DOMAIN owed /\ owed'[j] = owed[j + 1]
      BY <1>4
    <3>2. i + 1 = j + 1
      BY <2>5, <3>1 DEF OwedHolds
    <3> QED BY <1>2, <1>4, <3>2
  <2>6. \A r \in Owed' : \E i \in DOMAIN owed' : r = owed'[i]
    BY DEF Owed
  <2>7. \A r \in Owed' : r.id.table # "applicantCustomer" =>
          {s.id : s \in {x \in data' : x.id.table = r.id.table /\ x.id.cd = r.id.cd}} = {}
    BY <2>4, <2>6
  <2> QED BY <2>2, <2>3, <2>5, <2>7 DEF OwedHolds, Move!Existing
<1>8. MapsHold' /\ TodoHolds' /\ RunHolds'
  <2>1. MapsHold'
    BY <1>1, MapsStay
  <2>2. RunHolds'
    BY <1>1 DEF RunHolds
  <2> QED BY <1>1, <2>1, <2>2 DEF TodoHolds
<1> QED BY <1>6, <1>7, <1>8

\* What "look it up, create it when it is missing" makes of a legacy row.
LEMMA RowEnsured ==
    ASSUME MoveInv, owed = <<>>, NEW table, NEW cd, NEW of, NEW parts,
           Move!Ensure(table, cd, of, parts),
           table \notin {"contractor", "applicant", "applicantCustomer", "workInfo"}
                          \cup Move!PartTables,
           table \in {"billing", "payment"} =>
             \A id \in of : id.table = "customer" => id.cd \notin Move!Terminated,
           Len(parts) \in Nat, DOMAIN parts = 1 .. Len(parts),
           \A i, j \in DOMAIN parts : parts[i] = parts[j] => i = j,
           \A i \in DOMAIN parts : \/ table = "contractPlot" /\ parts[i] \in Move!PartTables
                                   \/ table = "customer" /\ parts[i] = "workInfo"
    PROVE  /\ RowsHold' /\ OwedHolds' /\ data \subseteq data'
           /\ \A id \in Move!Kept(table, cd) :
                id \in Move!Ids' /\ id.table = table /\ id.cd = cd
<1> USE DEF MoveInv
<1>1. CASE Move!Existing(table, cd) # {}
  <2>1. data' = data /\ owed' = owed
    BY <1>1 DEF Move!Ensure
  <2>2. RowsHold' /\ OwedHolds'
    BY <2>1 DEF RowsHold, OwedHolds, Move!NothingTwice, Move!Ids, Move!Existing, Owed
  <2> QED BY <1>1, <2>1, <2>2 DEF Move!Kept, Move!Existing, Move!Ids
<1>2. CASE Move!Existing(table, cd) = {}
  <2> DEFINE r == Move!New(table, cd, of)
             new == [i \in 1 .. Len(parts) |-> Move!New(parts[i], cd, {r.id})]
  <2>1. data' = data \cup {r} /\ owed' = new
    BY <1>2 DEF Move!Ensure
  <2>2. r.id.table = table /\ r.id.cd = cd /\ r.of = of
    BY DEF Move!New
  <2>3. /\ DOMAIN new = 1 .. Len(parts)
        /\ \A i \in DOMAIN new : /\ new[i].id.table = parts[i] /\ new[i].id.cd = cd
                                 /\ new[i] \in {new[j] : j \in DOMAIN new}
    BY DEF Move!New
  <2>4. new \in Seq({new[j] : j \in DOMAIN new})
    <3>1. \A i \in 1 .. Len(parts) : Move!New(parts[i], cd, {r.id}) \in {new[j] : j \in DOMAIN new}
      OBVIOUS
    <3> HIDE DEF r
    <3> QED BY <3>1, IsASeq
  <2>5. Move!Kept(table, cd) = {r.id}
    BY <1>2 DEF Move!Kept, Move!New
  <2> HIDE DEF r, new
  <2>6. r.id \in Move!Ids' /\ data \subseteq data' /\ Move!Ids \subseteq Move!Ids'
    BY <2>1 DEF Move!Ids
  <2>7. RowsHold'
    <3>1. Rooted(r, Move!Ids')
      BY <2>2 DEF Rooted
    <3> QED BY <1>2, <2>1, <2>2, <3>1, RowMade
  <2>8. ASSUME NEW i \in DOMAIN new
        PROVE  /\ Rooted(new[i], Move!Ids')
               /\ \A s \in data' : ~(s.id.table = new[i].id.table /\ s.id.cd = new[i].id.cd)
    <3>1. new[i].id.table = parts[i] /\ new[i].id.cd = cd /\ i \in DOMAIN parts
      BY <2>3
    <3>2. CASE table = "contractPlot" /\ parts[i] \in Move!PartTables
      <4>1. Rooted(new[i], Move!Ids')
        BY <2>2, <2>6, <3>1, <3>2 DEF Rooted, Move!PartTables
      <4>2. ASSUME NEW s \in data, s.id.table = parts[i], s.id.cd = cd PROVE FALSE
        <5>1. Rooted(s, Move!Ids)
          BY DEF RowsHold
        <5> QED BY <1>2, <3>2, <4>2, <5>1 DEF Rooted, Move!Existing, Move!Ids
      <4>3. r.id.table # parts[i]
        BY <2>2, <3>2
      <4> QED BY <2>1, <3>1, <4>1, <4>2, <4>3
    <3>3. CASE table = "customer" /\ parts[i] = "workInfo"
      <4>1. Rooted(new[i], Move!Ids')
        BY <2>2, <2>6, <3>1, <3>3 DEF Rooted, Move!PartTables
      <4>2. ASSUME NEW s \in data, s.id.table = parts[i], s.id.cd = cd PROVE FALSE
        <5>1. Rooted(s, Move!Ids)
          BY DEF RowsHold
        <5> QED BY <1>2, <3>3, <4>2, <5>1 DEF Rooted, Move!Existing, Move!Ids
      <4>3. r.id.table # parts[i]
        BY <2>2, <3>3
      <4> QED BY <2>1, <3>1, <4>1, <4>2, <4>3
    <3> QED BY <3>1, <3>2, <3>3
  <2>9. OwedHolds'
    <3>1. Owed' = {new[j] : j \in DOMAIN new}
      BY <2>1 DEF Owed
    <3>2. \A x \in Owed' : Rooted(x, Move!Ids') /\ Move!Existing(x.id.table, x.id.cd)' = {}
      <4>1. \A x \in Owed' : /\ Rooted(x, Move!Ids')
                             /\ {s.id : s \in {y \in data' : y.id.table = x.id.table
                                                             /\ y.id.cd = x.id.cd}} = {}
        BY <2>8, <3>1
      <4> QED BY <4>1 DEF Move!Existing
    <3>3. \A i, j \in DOMAIN new : new[i].id.table = new[j].id.table => i = j
      BY <2>3
    <3> QED BY <2>1, <2>4, <3>1, <3>2, <3>3 DEF OwedHolds
  <2> QED BY <2>2, <2>5, <2>6, <2>7, <2>9
<1> QED BY <1>1, <1>2

\* The step of one row keeps the invariant, whether the id goes into the map or not.
LEMMA EnsureStep ==
    ASSUME MoveInv, NEW l, NEW step, Move!Running(step), Move!Take(l),
           NEW table, NEW cd, NEW of, NEW parts, Move!Ensure(table, cd, of, parts),
           table \notin {"contractor", "applicant", "applicantCustomer", "workInfo"}
                          \cup Move!PartTables,
           table \in {"billing", "payment"} =>
             \A id \in of : id.table = "customer" => id.cd \notin Move!Terminated,
           Len(parts) \in Nat, DOMAIN parts = 1 .. Len(parts),
           \A i, j \in DOMAIN parts : parts[i] = parts[j] => i = j,
           \A i \in DOMAIN parts : \/ table = "contractPlot" /\ parts[i] \in Move!PartTables
                                   \/ table = "customer" /\ parts[i] = "workInfo",
           \/ idMaps' = idMaps
           \/ /\ idMaps' = Move!Put(table, cd, Move!Kept(table, cd))
              /\ table = "customer" => cd \notin Move!Terminated
    PROVE  MoveInv'
<1>1. owed = <<>> /\ steps # <<>> /\ entered
  BY DEF Move!Running
<1>2. steps' = steps /\ entered' = entered /\ todo' \subseteq todo
  BY DEF Move!Take
<1>3. /\ RowsHold' /\ OwedHolds' /\ data \subseteq data'
      /\ \A id \in Move!Kept(table, cd) : id \in Move!Ids' /\ id.table = table /\ id.cd = cd
  BY <1>1, RowEnsured
<1>4. MapsHold'
  <2>1. CASE idMaps' = idMaps
    BY <1>3, <2>1, MapsStay DEF MoveInv
  <2>2. CASE /\ idMaps' = Move!Put(table, cd, Move!Kept(table, cd))
             /\ table = "customer" => cd \notin Move!Terminated
    <3> DEFINE kept == Move!Kept(table, cd)
    <3>1. idMaps' = [idMaps EXCEPT ![table] = (@ \ Move!Get(table, cd)) \cup kept]
      BY <2>2 DEF Move!Put
    <3>2. Move!Ids \subseteq Move!Ids'
      BY <1>3 DEF Move!Ids
    <3> HIDE DEF kept
    <3>3. idMaps' = [key \in Move!Maps |-> idMaps'[key]]
      BY <3>1 DEF MoveInv, MapsHold
    <3>4. \A key \in Move!Maps : idMaps'[key] \subseteq idMaps[key] \cup (IF key = table THEN kept ELSE {})
      BY <3>1 DEF MoveInv, MapsHold
    <3>5. \A id \in kept : id \in Move!Ids' /\ id.table = table /\ id.cd = cd
      BY <1>3 DEF kept
    <3> QED BY <2>2, <3>2, <3>3, <3>4, <3>5 DEF MoveInv, MapsHold
  <2> QED BY <2>1, <2>2
<1>5. TodoHolds' /\ RunHolds'
  BY <1>1, <1>2 DEF MoveInv, TodoHolds, RunHolds
<1> QED BY <1>3, <1>4, <1>5 DEF MoveInv

\* Rows stay as they are, and what is owed with them.
LEMMA RowsStay ==
    ASSUME RowsHold, OwedHolds, data' = data, owed' = owed PROVE RowsHold' /\ OwedHolds'
<1>1. RowsHold'
  BY DEF RowsHold, Move!NothingTwice, Move!Ids
<1>2. Owed' = Owed /\ Move!Ids' = Move!Ids
  BY DEF Owed, Move!Ids
<1>3. OwedHolds'
  BY <1>2 DEF OwedHolds, Move!Existing
<1> QED BY <1>1, <1>3

\* A row that is passed over, or that changes no table but its marks.
LEMMA PassStep ==
    ASSUME MoveInv, data' = data, owed' = owed, idMaps' = idMaps,
           steps' = steps, entered' = entered, todo' \subseteq todo
    PROVE  MoveInv'
<1>1. RowsHold' /\ OwedHolds'
  BY RowsStay DEF MoveInv
<1>2. MapsHold'
  BY MapsStay DEF MoveInv
<1>3. TodoHolds' /\ RunHolds'
  BY DEF MoveInv, TodoHolds, RunHolds
<1> QED BY <1>1, <1>2, <1>3 DEF MoveInv

\* Only customers whose contract goes on are in the map, so links to customers are to them.
LEMMA MappedLive ==
    ASSUME MoveInv, NEW key \in Move!Maps, NEW cd, NEW id \in Move!Get(key, cd)
    PROVE  /\ id \in Move!Ids /\ id.table = key /\ id.cd = cd
           /\ key = "customer" => id.cd \notin Move!Terminated
BY DEF Move!Get, MoveInv, MapsHold

LEMMA NoParts ==
    LET none == <<>>
    IN  Len(none) = 0 /\ DOMAIN none = 1 .. 0 /\ \A i \in DOMAIN none : FALSE
<1> QED BY EmptySeq, LenProperties

\* The steps that make one row of their own for a legacy row, or a row and its parts.
LEMMA PlainSteps ==
    ASSUME MoveInv, Move!MigrationAssumption, NEW l \in todo,
           \/ Move!stepMasters(l) \/ Move!stepStaff(l) \/ Move!stepPhysicalPlot(l)
           \/ Move!stepFamilyContact(l) \/ Move!stepBuriedPerson(l)
           \/ Move!stepConstructionInfo(l) \/ Move!stepBilling(l) \/ Move!stepPayment(l)
           \/ Move!stepHistory(l)
    PROVE  MoveInv'
<1>0. /\ Len(<<>>) \in Nat /\ DOMAIN <<>> = 1 .. Len(<<>>) /\ \A i \in DOMAIN <<>> : FALSE
  BY NoParts
<1>1. ASSUME NEW step, NEW table, NEW cd, NEW of, Move!Running(step), Move!Take(l),
             Move!Ensure(table, cd, of, <<>>),
             table \in {"relationshipMaster", "staff", "physicalPlot", "familyContact",
                        "buriedPerson", "constructionInfo", "billing", "payment",
                        "t_dankalog", "t_famlog"},
             table \in {"billing", "payment"} =>
               \A id \in of : id.table = "customer" => id.cd \notin Move!Terminated,
             \/ idMaps' = idMaps
             \/ idMaps' = Move!Put(table, cd, Move!Kept(table, cd))
      PROVE  MoveInv'
  <2>1. /\ table \notin {"contractor", "applicant", "applicantCustomer", "workInfo"}
                          \cup Move!PartTables
        /\ table # "customer"
    BY <1>1 DEF Move!PartTables
  <2> QED BY <1>0, <1>1, <2>1, EnsureStep
<1>2. ASSUME Move!Pass(l) PROVE MoveInv'
  <2>1. /\ data' = data /\ owed' = owed /\ idMaps' = idMaps
        /\ steps' = steps /\ entered' = entered /\ todo' \subseteq todo
    BY <1>2 DEF Move!Pass, Move!Take
  <2> QED BY <2>1, PassStep
<1>3. CASE Move!stepMasters(l)
  BY <1>1, <1>3 DEF Move!stepMasters
<1>4. CASE Move!stepStaff(l)
  BY <1>1, <1>4 DEF Move!stepStaff
<1>5. CASE Move!stepPhysicalPlot(l)
  BY <1>1, <1>5 DEF Move!stepPhysicalPlot
<1>6. CASE Move!stepFamilyContact(l)
  <2>1. \/ Move!Pass(l)
        \/ \E of : /\ Move!Running("familyContact") /\ Move!Take(l) /\ idMaps' = idMaps
                   /\ Move!Ensure("familyContact", l.cd, of, <<>>)
    BY <1>6 DEF Move!stepFamilyContact
  <2> QED BY <1>1, <1>2, <2>1
<1>7. CASE Move!stepBuriedPerson(l)
  <2>1. \/ Move!Pass(l)
        \/ \E of : /\ Move!Running("buriedPerson") /\ Move!Take(l) /\ idMaps' = idMaps
                   /\ Move!Ensure("buriedPerson", l.cd, of, <<>>)
    BY <1>7 DEF Move!stepBuriedPerson
  <2> QED BY <1>1, <1>2, <2>1
<1>8. CASE Move!stepConstructionInfo(l)
  <2>1. \/ Move!Pass(l)
        \/ \E of : /\ Move!Running("constructionInfo") /\ Move!Take(l) /\ idMaps' = idMaps
                   /\ Move!Ensure("constructionInfo", l.cd, of, <<>>)
    BY <1>8 DEF Move!stepConstructionInfo
  <2> QED BY <1>1, <1>2, <2>1
<1>9. CASE Move!stepBilling(l)
  <2> DEFINE of == Move!Get("customer", l.danka_cd) \cup Move!Get("contractPlot", l.grave_cd)
  <2>1. \/ Move!Pass(l)
        \/ /\ Move!Running("billing") /\ Move!Take(l)
           /\ idMaps' = Move!Put("billing", l.cd, Move!Kept("billing", l.cd))
           /\ Move!Ensure("billing", l.cd, of, <<>>)
    BY <1>9 DEF Move!stepBilling
  <2>2. \A id \in of : id.table = "customer" => id.cd \notin Move!Terminated
    BY MappedLive DEF Move!Maps
  <2> HIDE DEF of
  <2> QED BY <1>1, <1>2, <2>1, <2>2
<1>10. CASE Move!stepPayment(l)
  <2> DEFINE of == Move!Get("billing", l.seikyu_cd) \cup Move!Get("customer", l.danka_cd)
                     \cup Move!Get("contractPlot", l.grave_cd)
  <2>1. \/ Move!Pass(l)
        \/ /\ Move!Running("payment") /\ Move!Take(l) /\ idMaps' = idMaps
           /\ Move!Ensure("payment", l.cd, of, <<>>)
    BY <1>10 DEF Move!stepPayment
  <2>2. \A id \in of : id.table = "customer" => id.cd \notin Move!Terminated
    BY MappedLive DEF Move!Maps
  <2> HIDE DEF of
  <2> QED BY <1>1, <1>2, <2>1, <2>2
<1>11. CASE Move!stepHistory(l)
  <2>1. Move!Running("history")
    BY <1>11 DEF Move!stepHistory
  <2>2. l.table \in {"t_dankalog", "t_famlog"}
    BY <2>1 DEF MoveInv, TodoHolds, Move!Running, Move!MigrationAssumption
  <2>3. \/ Move!Pass(l)
        \/ \E of : /\ Move!Take(l) /\ idMaps' = idMaps /\ Move!Ensure(l.table, l.cd, of, <<>>)
    BY <1>11 DEF Move!stepHistory
  <2> QED BY <1>1, <1>2, <2>1, <2>2, <2>3
<1> QED BY <1>3, <1>4, <1>5, <1>6, <1>7, <1>8, <1>9, <1>10, <1>11

\* A customer and the workplace; a plot's contract and what belongs to it.
LEMMA CustomerStep ==
    ASSUME MoveInv, Move!MigrationAssumption, NEW l \in todo, Move!stepCustomer(l)
    PROVE  MoveInv'
<1>1. Move!Running("customer") /\ l \in t_danka
  BY DEF Move!stepCustomer, Move!Running, MoveInv, TodoHolds
<1>2. CASE Move!Pass(l)
  <2>1. /\ data' = data /\ owed' = owed /\ idMaps' = idMaps
        /\ steps' = steps /\ entered' = entered /\ todo' \subseteq todo
    BY <1>2 DEF Move!Pass, Move!Take
  <2> QED BY <2>1, PassStep
<1>3. CASE ~Move!Pass(l)
  <2> DEFINE parts == IF l.job THEN <<"workInfo">> ELSE <<>>
             of == Move!InCharge(l.tancd)
  <2>1. /\ Move!Take(l) /\ Move!Ensure("customer", l.cd, of, parts)
        /\ \/ idMaps' = idMaps
           \/ /\ idMaps' = Move!Put("customer", l.cd, Move!Kept("customer", l.cd))
              /\ l.del_flg # 2
    BY <1>3 DEF Move!stepCustomer
  <2>2. /\ Len(parts) \in Nat /\ DOMAIN parts = 1 .. Len(parts)
        /\ \A i, j \in DOMAIN parts : parts[i] = parts[j] => i = j
        /\ \A i \in DOMAIN parts : parts[i] = "workInfo"
    <3>1. CASE l.job
      <4>1. parts = <<"workInfo">>
        BY <3>1
      <4>2. Len(parts) = 1 /\ DOMAIN parts = 1 .. 1 /\ parts[1] = "workInfo"
        BY <4>1
      <4> HIDE DEF parts
      <4> QED BY <4>2
    <3>2. CASE ~l.job
      <4>1. parts = <<>>
        BY <3>2
      <4> HIDE DEF parts
      <4> QED BY <4>1, NoParts
    <3> QED BY <3>1, <3>2
  <2> HIDE DEF parts, of
  <2>3. l.del_flg # 2 => l.cd \notin Move!Terminated
    BY <1>1 DEF Move!MigrationAssumption, Move!Terminated, Move!Live
  <2>4. "customer" \notin {"contractor", "applicant", "applicantCustomer", "workInfo"}
                            \cup Move!PartTables
    BY DEF Move!PartTables
  <2> QED BY <1>1, <2>1, <2>2, <2>3, <2>4, EnsureStep
<1> QED BY <1>2, <1>3

LEMMA ContractPlotStep ==
    ASSUME MoveInv, Move!MigrationAssumption, NEW l \in todo, Move!stepContractPlot(l)
    PROVE  MoveInv'
<1>1. Move!Running("contractPlot") /\ l \in m_bochi
  BY DEF Move!stepContractPlot, Move!Running, MoveInv, TodoHolds
<1>2. CASE Move!Pass(l)
  <2>1. /\ data' = data /\ owed' = owed /\ idMaps' = idMaps
        /\ steps' = steps /\ entered' = entered /\ todo' \subseteq todo
    BY <1>2 DEF Move!Pass, Move!Take
  <2> QED BY <2>1, PassStep
<1>3. CASE ~Move!Pass(l)
  <2> DEFINE of == Move!Get("physicalPlot", l.cd)
  <2>1. /\ Move!Take(l) /\ Move!Ensure("contractPlot", l.cd, of, l.parts)
        /\ idMaps' = Move!Put("contractPlot", l.cd, Move!Kept("contractPlot", l.cd))
    BY <1>3 DEF Move!stepContractPlot
  <2>2. /\ Len(l.parts) \in Nat /\ DOMAIN l.parts = 1 .. Len(l.parts)
        /\ \A i, j \in DOMAIN l.parts : l.parts[i] = l.parts[j] => i = j
        /\ \A i \in DOMAIN l.parts : l.parts[i] \in Move!PartTables
    BY <1>1, LenProperties, ElementOfSeq DEF Move!MigrationAssumption
  <2> HIDE DEF of
  <2>3. "contractPlot" \notin {"contractor", "applicant", "applicantCustomer", "workInfo"}
                                \cup Move!PartTables
    BY DEF Move!PartTables
  <2> QED BY <1>1, <2>1, <2>2, <2>3, EnsureStep
<1> QED BY <1>2, <1>3

\* The roles of one contractor's plot are the roles of one legacy row.
LEMMA RoleOf ==
    ASSUME MoveInv, Move!MigrationAssumption, NEW l \in t_danka,
           NEW plot1 \in Move!Get("contractPlot", l.grave_cd),
           NEW customer \in Move!Get("customer", l.cd),
           NEW r \in data, r.id.table \in {"contractor", "applicant"}, r.id.cd = l.cd
    PROVE  /\ plot1 \in r.of
           /\ r.id.table = "contractor" \/ l.request = "same" => customer \in r.of
<1>1. Rooted(r, Move!Ids) /\ Move!NothingTwice
  BY DEF MoveInv, RowsHold
<1>2. PICK p \in Move!Ids : \E c :
        /\ r.of = {p, c} /\ p.table = "contractPlot" /\ p.cd = l.grave_cd
        /\ r.id.table = "contractor" \/ l.request = "same" =>
             c \in Move!Ids /\ c.table = "customer" /\ c.cd = l.cd
  BY <1>1 DEF Rooted, Move!MigrationAssumption, Move!Live
<1>3. ASSUME NEW i \in Move!Ids, NEW j \in Move!Ids, i.table = j.table, i.cd = j.cd,
             i.table # "applicantCustomer"
      PROVE  i = j
  BY <1>1, <1>3 DEF Move!Ids, Move!NothingTwice
<1>4. plot1 \in Move!Ids /\ plot1.table = "contractPlot" /\ plot1.cd = l.grave_cd
  BY MappedLive DEF Move!Maps
<1>5. customer \in Move!Ids /\ customer.table = "customer" /\ customer.cd = l.cd
  BY MappedLive DEF Move!Maps
<1> QED BY <1>2, <1>3, <1>4, <1>5

\* One row that is owed; a customer and a row that are owed.
LEMMA OwesOne ==
    ASSUME NEW r, owed' = <<r>>, Rooted(r, Move!Ids'),
           \A s \in data' : ~(s.id.table = r.id.table /\ s.id.cd = r.id.cd)
    PROVE  OwedHolds'
<1>1. owed' \in Seq({r}) /\ DOMAIN owed' = 1 .. 1 /\ owed'[1] = r
  OBVIOUS
<1>2. Owed' = {r}
  BY <1>1 DEF Owed
<1>3. {s.id : s \in {x \in data' : x.id.table = r.id.table /\ x.id.cd = r.id.cd}} = {}
  OBVIOUS
<1>4. \A x \in Owed' : {s.id : s \in {y \in data' : y.id.table = x.id.table
                                                   /\ y.id.cd = x.id.cd}} = {}
  BY <1>2, <1>3
<1>5. \A i, j \in DOMAIN owed' : i = j
  BY <1>1
<1> QED BY <1>1, <1>2, <1>4, <1>5 DEF OwedHolds, Move!Existing

LEMMA OwesTwo ==
    ASSUME NEW q, NEW r, owed' = <<q, r>>, Rooted(r, Move!Ids'),
           q.id.table = "applicantCustomer", r.id.table # "applicantCustomer",
           \A s \in data' : ~(s.id.table = r.id.table /\ s.id.cd = r.id.cd)
    PROVE  OwedHolds'
<1>1. /\ owed' \in Seq({q, r}) /\ DOMAIN owed' = 1 .. 2
      /\ owed'[1] = q /\ owed'[2] = r
  OBVIOUS
<1>2. Owed' = {q, r}
  BY <1>1 DEF Owed
<1>3. {s.id : s \in {x \in data' : x.id.table = r.id.table /\ x.id.cd = r.id.cd}} = {}
  OBVIOUS
<1>4. \A x \in Owed' : x.id.table # "applicantCustomer" =>
        {s.id : s \in {y \in data' : y.id.table = x.id.table /\ y.id.cd = x.id.cd}} = {}
  BY <1>2, <1>3
<1>5. \A i, j \in DOMAIN owed' :
        owed'[i].id.table # "applicantCustomer" /\ owed'[i].id.table = owed'[j].id.table => i = j
  BY <1>1
<1>6. Rooted(q, Move!Ids')
  BY DEF Rooted, Move!PartTables
<1> QED BY <1>1, <1>2, <1>4, <1>5, <1>6 DEF OwedHolds, Move!Existing

\* The contractor's role and the applicant who is to follow it.
LEMMA ContractorMade ==
    ASSUME MoveInv, Move!MigrationAssumption, NEW l \in Move!Live(t_danka),
           NEW plot1 \in Move!Get("contractPlot", l.grave_cd),
           NEW customer \in Move!Get("customer", l.cd),
           data' = IF \E r \in Move!Roles("contractor", plot1) : customer \in r.of THEN data
                   ELSE data \cup {Move!New("contractor", l.cd, {plot1, customer})},
           owed' = Move!applicantOf(l, plot1, customer)
    PROVE  RowsHold' /\ OwedHolds' /\ data \subseteq data'
<1>0. l \in t_danka /\ l.cd \notin Move!Terminated
  BY DEF Move!Live, Move!Terminated, Move!MigrationAssumption
<1>1. plot1 \in Move!Ids /\ plot1.table = "contractPlot" /\ plot1.cd = l.grave_cd
  BY MappedLive DEF Move!Maps
<1>2. customer \in Move!Ids /\ customer.table = "customer" /\ customer.cd = l.cd
  BY MappedLive DEF Move!Maps
<1>3. data \subseteq data' /\ Move!Ids \subseteq Move!Ids'
  BY DEF Move!Ids
<1>4. \A s \in data' : s \in data \/ s.id.table = "contractor"
  BY DEF Move!New
<1>5. RowsHold'
  <2>1. CASE \E r \in Move!Roles("contractor", plot1) : customer \in r.of
    <3>1. data' = data
      BY <2>1
    <3> QED BY <3>1 DEF MoveInv, RowsHold, Move!NothingTwice, Move!Ids
  <2>2. CASE ~\E r \in Move!Roles("contractor", plot1) : customer \in r.of
    <3> DEFINE r == Move!New("contractor", l.cd, {plot1, customer})
    <3>1. data' = data \cup {r}
      BY <2>2
    <3>2. r.id.table = "contractor" /\ r.id.cd = l.cd /\ r.of = {plot1, customer}
      BY DEF Move!New
    <3> HIDE DEF r
    <3>3. Rooted(r, Move!Ids')
      BY <1>0, <1>1, <1>2, <1>3, <3>2 DEF Rooted, Move!PartTables
    <3>4. Move!Existing("contractor", l.cd) = {}
      <4>1. ASSUME NEW s \in data, s.id.table = "contractor", s.id.cd = l.cd PROVE FALSE
        <5>1. plot1 \in s.of /\ customer \in s.of
          BY <1>0, <4>1, RoleOf
        <5> QED BY <2>2, <4>1, <5>1 DEF Move!Roles
      <4> QED BY <4>1 DEF Move!Existing
    <3> QED BY <3>1, <3>2, <3>3, <3>4, RowMade DEF MoveInv
  <2> QED BY <2>1, <2>2
<1>6. ASSUME NEW c, \/ c = customer /\ l.request = "same"
                    \/ c.table = "applicantCustomer" /\ l.request = "other"
      PROVE  Rooted(Move!New("applicant", l.cd, {plot1, c}), Move!Ids')
  <2> DEFINE r == Move!New("applicant", l.cd, {plot1, c})
  <2>1. r.id.table = "applicant" /\ r.id.cd = l.cd /\ r.of = {plot1, c}
    BY DEF Move!New
  <2> HIDE DEF r
  <2>2. Rooted(r, Move!Ids')
    BY <1>0, <1>1, <1>2, <1>3, <1>6, <2>1 DEF Rooted, Move!PartTables
  <2> QED BY <2>2 DEF r
<1>7. ASSUME NEW c, \A s \in data : ~(s.id.table = "applicant" /\ s.id.cd = l.cd)
      PROVE  LET r == Move!New("applicant", l.cd, {plot1, c})
             IN  /\ r.id.table = "applicant"
                 /\ \A s \in data' : ~(s.id.table = r.id.table /\ s.id.cd = r.id.cd)
  BY <1>4, <1>7 DEF Move!New
<1>8. OwedHolds'
  <2>1. CASE owed' = <<>>
    BY <2>1 DEF OwedHolds, Owed
  <2>2. CASE /\ l.request = "same" /\ owed' = <<Move!New("applicant", l.cd, {plot1, customer})>>
             /\ \A r \in Move!Roles("applicant", plot1) : customer \notin r.of
    <3>1. ASSUME NEW s \in data, s.id.table = "applicant", s.id.cd = l.cd PROVE FALSE
      <4>1. plot1 \in s.of /\ customer \in s.of
        BY <1>0, <2>2, <3>1, RoleOf
      <4> QED BY <2>2, <3>1, <4>1 DEF Move!Roles
    <3> DEFINE r == Move!New("applicant", l.cd, {plot1, customer})
    <3>2. owed' = <<r>>
      BY <2>2
    <3>3. Rooted(r, Move!Ids')
      BY <1>6, <2>2
    <3>4. \A s \in data' : ~(s.id.table = r.id.table /\ s.id.cd = r.id.cd)
      BY <1>7, <3>1
    <3> HIDE DEF r
    <3> QED BY <3>2, <3>3, <3>4, OwesOne
  <2>3. ASSUME NEW person, person.id.table = "applicantCustomer", l.request = "other",
               owed' = <<person, Move!New("applicant", l.cd, {plot1, person.id})>>,
               Move!Roles("applicant", plot1) = {}
        PROVE  OwedHolds'
    <3>1. ASSUME NEW s \in data, s.id.table = "applicant", s.id.cd = l.cd PROVE FALSE
      <4>1. plot1 \in s.of
        BY <1>0, <3>1, RoleOf
      <4> QED BY <2>3, <3>1, <4>1 DEF Move!Roles
    <3> DEFINE r == Move!New("applicant", l.cd, {plot1, person.id})
    <3>2. owed' = <<person, r>>
      BY <2>3
    <3>3. person.id.table = "applicantCustomer"
      BY <2>3
    <3>4. Rooted(r, Move!Ids')
      BY <1>6, <2>3, <3>3
    <3>5. /\ r.id.table = "applicant"
          /\ \A s \in data' : ~(s.id.table = r.id.table /\ s.id.cd = r.id.cd)
      BY <1>7, <3>1
    <3> HIDE DEF r
    <3> QED BY <2>3, <3>2, <3>4, <3>5, OwesTwo
  <2>4. \/ owed' = <<>>
        \/ /\ l.request = "same" /\ owed' = <<Move!New("applicant", l.cd, {plot1, customer})>>
           /\ \A r \in Move!Roles("applicant", plot1) : customer \notin r.of
        \/ /\ l.request = "other" /\ Move!Roles("applicant", plot1) = {}
           /\ \E person : person.id.table = "applicantCustomer"
                /\ owed' = <<person, Move!New("applicant", l.cd, {plot1, person.id})>>
    <3>1. Move!New("applicantCustomer", l.cd, {}).id.table = "applicantCustomer"
      BY DEF Move!New
    <3> QED BY <3>1 DEF Move!applicantOf
  <2> QED BY <2>1, <2>2, <2>3, <2>4
<1> QED BY <1>3, <1>5, <1>8

LEMMA SaleContractRoleStep ==
    ASSUME MoveInv, Move!MigrationAssumption, NEW l \in todo, Move!stepSaleContractRole(l)
    PROVE  MoveInv'
<1>1. Move!Running("saleContractRole") /\ l \in Move!Live(t_danka)
  BY DEF Move!stepSaleContractRole, Move!Running, MoveInv, TodoHolds
<1>3. CASE Move!Pass(l)
  <2>1. /\ data' = data /\ owed' = owed /\ idMaps' = idMaps
        /\ steps' = steps /\ entered' = entered /\ todo' \subseteq todo
    BY <1>3 DEF Move!Pass, Move!Take
  <2> QED BY <2>1, PassStep
<1>4. ASSUME NEW customer \in Move!Get("customer", l.cd),
             NEW plot1 \in Move!Get("contractPlot", l.grave_cd),
             Move!Take(l), idMaps' = idMaps,
             data' = IF \E r \in Move!Roles("contractor", plot1) : customer \in r.of THEN data
                     ELSE data \cup {Move!New("contractor", l.cd, {plot1, customer})},
             owed' = Move!applicantOf(l, plot1, customer)
      PROVE  MoveInv'
  <2>1. RowsHold' /\ OwedHolds' /\ data \subseteq data'
    BY <1>1, <1>4, ContractorMade
  <2>2. MapsHold'
    BY <1>4, <2>1, MapsStay DEF MoveInv
  <2>3. TodoHolds' /\ RunHolds'
    BY <1>1, <1>4 DEF Move!Take, Move!Running, MoveInv, TodoHolds, RunHolds
  <2> QED BY <2>1, <2>2, <2>3 DEF MoveInv
<1> QED BY <1>3, <1>4 DEF Move!stepSaleContractRole

\* A run that ends, in whatever way, keeps the rows and forgets the rest.
LEMMA StopStep ==
    ASSUME MoveInv, data' = data, Move!Stop PROVE MoveInv'
<1>1. owed' = <<>> /\ idMaps' = Move!NoMaps /\ steps' = <<>> /\ ~entered'
  BY DEF Move!Stop
<1>2. RowsHold'
  BY DEF MoveInv, RowsHold, Move!NothingTwice, Move!Ids
<1>3. OwedHolds'
  BY <1>1 DEF OwedHolds, Owed
<1>4. MapsHold'
  BY <1>1 DEF MapsHold, Move!NoMaps
<1> QED BY <1>1, <1>2, <1>3, <1>4 DEF MoveInv, TodoHolds, RunHolds

\* A new run, with or without an empty database.
LEMMA MainStep ==
    ASSUME MoveInv, NEW only, Move!main(only) PROVE MoveInv'
<1>1. /\ steps = <<>> /\ idMaps' = idMaps /\ entered' = entered /\ owed' = owed
      /\ data' = data \/ data' = {r \in data : Move!Survives(r)}
  BY DEF Move!main, Move!truncateNewDb
<1>2. idMaps = Move!NoMaps /\ ~entered /\ owed = <<>>
  BY <1>1 DEF MoveInv, RunHolds
<1>3. RowsHold'
  <2>1. CASE data' = data
    BY <2>1 DEF MoveInv, RowsHold, Move!NothingTwice, Move!Ids
  <2>2. CASE data' = {r \in data : Move!Survives(r)}
    <3>1. Move!NothingTwice'
      BY <2>2 DEF MoveInv, RowsHold, Move!NothingTwice
    <3>2. \A r \in data' : Rooted(r, Move!Ids')
      BY <2>2 DEF Move!Survives, Rooted, Move!PartTables
    <3> QED BY <3>1, <3>2 DEF RowsHold
  <2> QED BY <1>1, <2>1, <2>2
<1>4. OwedHolds'
  BY <1>1, <1>2 DEF OwedHolds, Owed
<1>5. MapsHold'
  BY <1>1, <1>2 DEF MapsHold, Move!NoMaps
<1> QED BY <1>1, <1>2, <1>3, <1>4, <1>5 DEF MoveInv, TodoHolds, RunHolds

\* A finite set in some order, each element once.
LEMMA InSomeOrder ==
    ASSUME NEW S, IsFiniteSet(S)
    PROVE  LET s == Move!SetToSeq(S)
           IN  /\ s \in Seq(S) /\ \A i \in DOMAIN s : s[i] \in S
               /\ \A i, j \in DOMAIN s : s[i] = s[j] => i = j
<1> DEFINE n == Move!Cardinality(S)
           Order(f) == f \in [1 .. n -> S] /\ Move!IsInjective(f)
<1>1. n = Cardinality(S)
  BY Zenon DEF Move!Cardinality, Cardinality
<1>2. n \in Nat
  BY <1>1, FS_CardinalityType
<1>3. \E f : Order(f)
  <2>1. PICK f \in Bijection(1 .. n, S) : TRUE
    BY <1>1, FS_CardinalityType DEF ExistsBijection
  <2>2. f \in [1 .. n -> S] /\ \A i, j \in 1 .. n : f[i] = f[j] => i = j
    BY <2>1 DEF Bijection, Injection, IsInjective, Surjection
  <2> QED BY <2>2 DEF Move!IsInjective
<1>4. Move!SetToSeq(S) = CHOOSE f : Order(f)
  BY Zenon DEF Move!SetToSeq
<1> HIDE DEF n, Order
<1>5. Order(Move!SetToSeq(S))
  BY <1>3, <1>4
<1> QED BY <1>2, <1>5, SeqDef DEF Order, Move!IsInjective

\* What a function gives for finitely many elements is finitely many.
LEMMA FiniteImage ==
    ASSUME NEW S, IsFiniteSet(S), NEW f, f = [x \in S |-> f[x]]
    PROVE  IsFiniteSet({f[x] : x \in S})
<1>1. f \in Surjection(S, {f[x] : x \in S})
  BY DEF Surjection
<1> QED BY <1>1, FS_Surjection

\* The builders of the former system's works are finitely many.
LEMMA BuildersFinite ==
    ASSUME Move!MigrationAssumption,
           NEW B, B \subseteq {l.gyousha_cd : l \in {x \in t_foundlog : x.gyousha_cd # 0}}
    PROVE  IsFiniteSet({Move!New("contractorMaster", b, {}) : b \in B})
<1> DEFINE S == {Move!New("contractorMaster", b, {}) : b \in B}
<1>1. IsFiniteSet(t_foundlog)
  <2>1. Move!IsFiniteSet(t_foundlog) <=> IsFiniteSet(t_foundlog)
    BY Zenon DEF Move!IsFiniteSet, IsFiniteSet
  <2> QED BY <2>1 DEF Move!MigrationAssumption
<1>2. IsFiniteSet({x \in t_foundlog : x.gyousha_cd # 0})
  BY <1>1, FS_Subset
<1>3. IsFiniteSet({l.gyousha_cd : l \in {x \in t_foundlog : x.gyousha_cd # 0}})
  <2> DEFINE D == {x \in t_foundlog : x.gyousha_cd # 0}
             f == [l \in D |-> l.gyousha_cd]
  <2>1. f = [l \in D |-> f[l]] /\ {f[l] : l \in D} = {l.gyousha_cd : l \in D}
    OBVIOUS
  <2>2. IsFiniteSet(D)
    BY <1>2
  <2> HIDE DEF f, D
  <2>3. IsFiniteSet({l.gyousha_cd : l \in D})
    BY <2>1, <2>2, FiniteImage
  <2> QED BY <2>3 DEF D
<1>4. IsFiniteSet(B)
  BY <1>3, FS_Subset
<1> DEFINE f == [b \in B |-> Move!New("contractorMaster", b, {})]
<1>5. f = [b \in B |-> f[b]] /\ {f[b] : b \in B} = S
  OBVIOUS
<1> HIDE DEF f, S
<1>6. IsFiniteSet(S)
  BY <1>4, <1>5, FiniteImage
<1> QED BY <1>6 DEF S

\* The builders that are missing become rows, each once.
LEMMA BuildersOwed ==
    ASSUME Move!MigrationAssumption, data' = data,
           NEW B, B \subseteq {l.gyousha_cd : l \in {x \in t_foundlog : x.gyousha_cd # 0}},
           \A b \in B : Move!Existing("contractorMaster", b) = {},
           owed' = Move!SetToSeq({Move!New("contractorMaster", b, {}) : b \in B})
    PROVE  OwedHolds'
<1> DEFINE S == {Move!New("contractorMaster", b, {}) : b \in B}
<1>1. IsFiniteSet(S)
  BY BuildersFinite
<1>2. /\ owed' \in Seq(S) /\ \A i \in DOMAIN owed' : owed'[i] \in S
      /\ \A i, j \in DOMAIN owed' : owed'[i] = owed'[j] => i = j
  BY <1>1, InSomeOrder
<1>3. \A x \in S : \E b \in B : /\ x = Move!New("contractorMaster", b, {})
                                /\ x.id.table = "contractorMaster" /\ x.id.cd = b
  BY DEF Move!New
<1> HIDE DEF S
<1>4. owed' \in Seq(Owed')
  <2>1. owed' \in [1 .. Len(owed') -> S] /\ DOMAIN owed' = 1 .. Len(owed') /\ Len(owed') \in Nat
    BY <1>2, LenProperties, SeqDef
  <2>2. \A i \in DOMAIN owed' : owed'[i] \in Owed'
    BY DEF Owed
  <2>3. owed' \in [1 .. Len(owed') -> Owed']
    BY <2>1, <2>2
  <2> QED BY <2>1, <2>3, SeqDef
<1>5. Owed' \subseteq S
  BY <1>2 DEF Owed
<1>6. \A x \in S : Rooted(x, Move!Ids')
  BY <1>3 DEF Rooted, Move!PartTables
<1>7. \A x \in S : {s.id : s \in {y \in data' : y.id.table = x.id.table
                                                /\ y.id.cd = x.id.cd}} = {}
  BY <1>3 DEF Move!Existing
<1>8. \A x, y \in S : x.id.cd = y.id.cd => x = y
  BY <1>3
<1>9. ASSUME NEW i \in DOMAIN owed', NEW j \in DOMAIN owed', owed'[i].id.cd = owed'[j].id.cd
      PROVE  i = j
  BY <1>2, <1>8, <1>9
<1> QED BY <1>4, <1>5, <1>6, <1>7, <1>9 DEF OwedHolds, Move!Existing

\* The maps a step reads back are of rows that are there, without the terminated.
LEMMA BeginStep ==
    ASSUME MoveInv, Move!MigrationAssumption, Move!beginStep PROVE MoveInv'
<1> DEFINE step == Head(steps)
           maps == [key \in Move!Maps |-> IF key \in Move!Needs(step) THEN Move!rebuildIdMap(key)
                                          ELSE idMaps[key]]
           builders == {l.gyousha_cd : l \in {x \in t_foundlog : x.gyousha_cd # 0}}
           missing == {b \in builders : Move!Existing("contractorMaster", b) = {}}
<1>1. /\ steps # <<>> /\ ~entered /\ data' = data
      /\ \/ Move!Stop
         \/ /\ idMaps' = maps /\ entered' = TRUE /\ todo' = Move!Source(step) /\ steps' = steps
            /\ owed' = IF step # "constructionInfo" THEN <<>>
                       ELSE Move!SetToSeq({Move!New("contractorMaster", cd, {}) : cd \in missing})
  BY DEF Move!beginStep
<1>2. CASE Move!Stop
  BY <1>1, <1>2, StopStep
<1>3. CASE /\ idMaps' = maps /\ entered' = TRUE /\ todo' = Move!Source(step) /\ steps' = steps
           /\ owed' = IF step # "constructionInfo" THEN <<>>
                      ELSE Move!SetToSeq({Move!New("contractorMaster", cd, {}) : cd \in missing})
  <2>1. RowsHold' /\ Move!Ids' = Move!Ids
    BY <1>1 DEF MoveInv, RowsHold, Move!NothingTwice, Move!Ids
  <2>2. OwedHolds'
    <3>1. CASE step # "constructionInfo"
      <4>1. owed' = <<>>
        BY <1>3, <3>1
      <4> QED BY <4>1 DEF OwedHolds, Owed
    <3>2. CASE step = "constructionInfo"
      <4>1. owed' = Move!SetToSeq({Move!New("contractorMaster", cd, {}) : cd \in missing})
        BY <1>3, <3>2
      <4>2. missing \subseteq builders /\ \A b \in missing : Move!Existing("contractorMaster", b) = {}
        OBVIOUS
      <4> HIDE DEF missing
      <4> QED BY <1>1, <4>1, <4>2, BuildersOwed
    <3> QED BY <3>1, <3>2
  <2>3. MapsHold'
    <3>1. ASSUME NEW key \in Move!Maps, NEW id \in Move!rebuildIdMap(key)
          PROVE  /\ id \in Move!Ids /\ id.table = key
                 /\ key = "customer" => id.cd \notin Move!Terminated
      BY <3>1 DEF Move!rebuildIdMap, MoveInv, MapsHold, Move!Ids
    <3>2. \A key \in Move!Maps : maps[key] \in {Move!rebuildIdMap(key), idMaps[key]}
      OBVIOUS
    <3>3. maps = [key \in Move!Maps |-> maps[key]]
      OBVIOUS
    <3> HIDE DEF maps
    <3> QED BY <1>3, <2>1, <3>1, <3>2, <3>3 DEF MoveInv, MapsHold
  <2>4. TodoHolds'
    BY <1>3 DEF TodoHolds, Move!Source
  <2>5. RunHolds'
    BY <1>1, <1>3 DEF RunHolds
  <2> QED BY <2>1, <2>2, <2>3, <2>4, <2>5 DEF MoveInv
<1> QED BY <1>1, <1>2, <1>3

LEMMA EndStep ==
    ASSUME MoveInv, Move!endStep PROVE MoveInv'
<1>1. data' = data /\ owed = <<>> /\ steps # <<>>
  BY DEF Move!endStep, Move!Running
<1>2. CASE Move!Stop
  BY <1>1, <1>2, StopStep
<1>3. CASE ~Move!Stop
  <2>1. /\ Tail(steps) # <<>> /\ steps' = Tail(steps) /\ entered' = FALSE
        /\ idMaps' = idMaps /\ owed' = owed
    BY <1>3 DEF Move!endStep
  <2>2. RowsHold' /\ OwedHolds'
    BY <1>1, <2>1, RowsStay DEF MoveInv
  <2>3. MapsHold'
    BY <1>1, <2>1, MapsStay DEF MoveInv
  <2> QED BY <1>1, <2>1, <2>2, <2>3 DEF MoveInv, TodoHolds, RunHolds
<1> QED BY <1>2, <1>3

LEMMA MoveStep ==
    ASSUME MoveInv, Move!MigrationAssumption, [Move!Next]_(Move!vars) PROVE MoveInv'
<1>1. ASSUME NEW l \in todo, NEW plot1, Move!stepPaymentStatus(plot1) PROVE MoveInv'
  BY <1>1, PassStep DEF Move!stepPaymentStatus, Move!Take
<1>2. CASE Move!stepRow
  <2>1. PICK l \in todo :
           \/ Move!stepMasters(l) \/ Move!stepStaff(l) \/ Move!stepPhysicalPlot(l)
           \/ Move!stepCustomer(l) \/ Move!stepContractPlot(l) \/ Move!stepSaleContractRole(l)
           \/ Move!stepFamilyContact(l) \/ Move!stepBuriedPerson(l)
           \/ Move!stepConstructionInfo(l) \/ Move!stepBilling(l) \/ Move!stepPayment(l)
           \/ Move!stepPaymentStatus(l) \/ Move!stepHistory(l)
    BY <1>2 DEF Move!stepRow
  <2> QED BY <1>1, <2>1, PlainSteps, CustomerStep, ContractPlotStep, SaleContractRoleStep
<1>3. CASE Move!markSoldOut
  BY <1>3, PassStep DEF Move!markSoldOut
<1>4. CASE Move!Crash
  BY <1>4, StopStep DEF Move!Crash
<1>5. CASE UNCHANGED Move!vars
  BY <1>5, PassStep DEF Move!vars, Move!memory
<1> QED BY <1>2, <1>3, <1>4, <1>5, MainStep, BeginStep, OwedMade, EndStep DEF Move!Next

LEMMA MoveInvariant ==
    ASSUME Move!MigrationAssumption PROVE Move!Spec => []MoveInv
<1>1. Move!Init => MoveInv
  <2> SUFFICES ASSUME Move!Init PROVE MoveInv
    OBVIOUS
  <2>1. data = {} /\ owed = <<>> /\ idMaps = Move!NoMaps /\ ~entered
    BY DEF Move!Init
  <2>2. RowsHold /\ OwedHolds
    BY <2>1 DEF RowsHold, OwedHolds, Owed, Move!NothingTwice
  <2>3. MapsHold
    BY <2>1 DEF MapsHold, Move!NoMaps
  <2> QED BY <2>1, <2>2, <2>3 DEF MoveInv, TodoHolds, RunHolds
<1>2. MoveInv /\ [Move!Next]_(Move!vars) => MoveInv'
  BY MoveStep
<1> QED BY <1>1, <1>2, PTL DEF Move!Spec

\* However often the script stops, at whatever statement, is run again, emptied or run in
\* parts: a legacy row becomes one row (migrate-from-legacy.ts), for any former system.
THEOREM TakenOverOnce ==
    ASSUME Move!MigrationAssumption PROVE Move!Spec => []NothingTwice
<1>1. MoveInv => NothingTwice
  BY DEF MoveInv, RowsHold, NothingTwice
<1> QED BY <1>1, MoveInvariant, PTL

\* And whoever's contract had ended gets no contract, role, invoice or payment.
THEOREM TerminatedGetNothing ==
    ASSUME Move!MigrationAssumption PROVE Move!Spec => []TerminatedStayOut
<1>1. MoveInv => TerminatedStayOut
  BY DEF MoveInv, RowsHold, Rooted, TerminatedStayOut, Move!TerminatedStayOut
<1> QED BY <1>1, MoveInvariant, PTL

-----------------------------------------------------------------------------
(* How far a run of all the steps has come, and what the rows refer to *)

\* An invoice that is taken over: of a plot and a customer that are.
Bills(l) == Move!Plausible(l) /\ Move!CustomerTaken(l.danka_cd) /\ Move!PlotTaken(l.grave_cd)

\* The rows of the former system that become a row of the new database.
Expected(table, cd) ==
    CASE table = "relationshipMaster" -> \E l \in sykbnn : l.cd = cd
      [] table = "staff" -> \E l \in matant : l.email = cd
      [] table = "customer" -> \E l \in t_danka : l.cd = cd /\ Move!Imported(l)
      [] table = "contractPlot" -> Move!PlotTaken(cd)
      [] table = "billing" -> \E l \in t_seikyu : l.cd = cd /\ Bills(l)
      [] OTHER -> TRUE

\* A row refers to all the rows it belonged to that are ever taken over.
LegacyOf(table) ==
    CASE table = "customer" -> t_danka
      [] table = "billing" -> t_seikyu
      [] table = "payment" -> t_nyukin
      [] table = "familyContact" -> t_family
      [] OTHER -> {}
LinkedTo(r, ids, c) == \E id \in r.of \cap ids : id.table = c.table /\ id.cd = c.cd
RowLinked(r, ids) ==
    \A l \in LegacyOf(r.id.table) : l.cd = r.id.cd =>
       \A c \in Move!Wanted(r.id.table, l) : Expected(c.table, c.cd) => LinkedTo(r, ids, c)

\* A row that is there, or is owed to one that is.
Coming(table, cd) ==
    \/ Move!Existing(table, cd) # {}
    \/ \E r \in Owed : r.id.table = table /\ r.id.cd = cd

\* What the n-th step leaves of a row of the former system.
BothTaken(d) == Move!CustomerTaken(d.cd) /\ Move!PlotTaken(d.grave_cd)
FormerRows(n) ==
    CASE n = 1 -> sykbnn
      [] n = 2 -> matant
      [] n \in {3, 5} -> m_bochi
      [] n = 4 -> t_danka
      [] n = 6 -> Move!Live(t_danka)
      [] n = 7 -> t_family
      [] n = 8 -> t_maisou
      [] n = 10 -> t_seikyu
      [] n = 11 -> t_nyukin
      [] OTHER -> {}
Came(n, l) ==
    /\ n = 1 => Move!Existing("relationshipMaster", l.cd) # {}
    /\ n = 2 => Move!Get("staff", l.email) # {}
    /\ n = 3 => Move!Get("physicalPlot", l.cd) # {}
    /\ n = 4 /\ Move!Imported(l) => /\ Move!Existing("customer", l.cd) # {}
                                    /\ l.del_flg # 2 => Move!Get("customer", l.cd) # {}
    /\ n = 5 /\ Move!Contracted(l) => Move!Get("contractPlot", l.cd) # {}
    /\ n = 6 /\ BothTaken(l) => /\ Move!Existing("contractor", l.cd) # {}
                                /\ l.request # "none" => Coming("applicant", l.cd)
    /\ n = 7 /\ l.named /\ l.danka_cd \in Move!Terminated =>
         Move!Existing("familyContact", l.cd) # {}
    /\ n = 8 /\ l.named /\ Move!PlotTaken(l.grave_cd) => Move!Existing("buriedPerson", l.cd) # {}
    /\ n = 10 /\ Bills(l) => Move!Get("billing", l.cd) # {}
    /\ n = 11 /\ l.danka_cd \notin Move!Terminated /\ Expected("billing", l.seikyu_cd) =>
         Move!Existing("payment", l.cd) # {}

\* The steps from the k-th on, and what is behind when the k-th is the next.
Rest(k) == [i \in 1 .. 15 - k |-> Move!ALL_STEPS[k + i - 1]]
Progress(k) ==
    \A n \in 1 .. 14 : \A l \in FormerRows(n) :
       n < k \/ (n = k /\ entered /\ l \notin todo) => Came(n, l)
WholeHolds ==
    whole /\ steps # <<>> => \E k \in 1 .. 14 : steps = Rest(k) /\ Progress(k)

\* Rows that follow another one are of none of the tables that are referred to.
Following == Move!PartTables \cup {"workInfo", "applicant", "applicantCustomer", "contractorMaster"}
OwedApart == \A r \in Owed : r.id.table \in Following

\* An invoice is of its plot, and of no other.
OnPlot(r, ids) ==
    \A l \in t_seikyu : r.id.table = "billing" /\ r.id.cd = l.cd =>
       /\ \A id \in r.of : id.table = "contractPlot" => id.cd = l.grave_cd
       /\ \E id \in r.of \cap ids : id.table = "contractPlot"

ReferencesHold ==
    /\ \A r \in data : Expected(r.id.table, r.id.cd) /\ OnPlot(r, Move!Ids)
    /\ ~picked => /\ steps # <<>> => whole
                  /\ \A r \in data : RowLinked(r, Move!Ids)

LinkInv == ReferencesHold /\ OwedApart /\ WholeHolds

-----------------------------------------------------------------------------
(* The steps in their order *)

LEMMA StepNames ==
    LET all == Move!ALL_STEPS
    IN  /\ all = [k \in 1 .. 14 |-> all[k]]
        /\ all[1] = "masters" /\ all[2] = "staff" /\ all[3] = "physicalPlot"
        /\ all[4] = "customer" /\ all[5] = "contractPlot" /\ all[6] = "saleContractRole"
        /\ all[7] = "familyContact" /\ all[8] = "buriedPerson" /\ all[9] = "constructionInfo"
        /\ all[10] = "billing" /\ all[11] = "payment" /\ all[12] = "paymentStatus"
        /\ all[13] = "history" /\ all[14] = "summary"
BY DEF Move!ALL_STEPS

\* The place of each name is one.
LEMMA StepPlaces ==
    ASSUME NEW k \in 1 .. 14
    PROVE  LET all == Move!ALL_STEPS
           IN  /\ all[k] = "masters" <=> k = 1
               /\ all[k] = "staff" <=> k = 2
               /\ all[k] = "physicalPlot" <=> k = 3
               /\ all[k] = "customer" <=> k = 4
               /\ all[k] = "contractPlot" <=> k = 5
               /\ all[k] = "saleContractRole" <=> k = 6
               /\ all[k] = "familyContact" <=> k = 7
               /\ all[k] = "buriedPerson" <=> k = 8
               /\ all[k] = "constructionInfo" <=> k = 9
               /\ all[k] = "billing" <=> k = 10
               /\ all[k] = "payment" <=> k = 11
               /\ all[k] = "paymentStatus" <=> k = 12
               /\ all[k] = "history" <=> k = 13
<1>1. \/ k = 1 \/ k = 2 \/ k = 3 \/ k = 4 \/ k = 5 \/ k = 6 \/ k = 7 \/ k = 8 \/ k = 9
      \/ k = 10 \/ k = 11 \/ k = 12 \/ k = 13 \/ k = 14
  OBVIOUS
<1> QED BY <1>1, StepNames

\* The rest of the steps from one on: that one, and the rest from the next on.
LEMMA RestSteps ==
    ASSUME NEW k \in 1 .. 14
    PROVE  /\ Head(Rest(k)) = Move!ALL_STEPS[k] /\ Rest(k) # <<>>
           /\ k = 14 => Tail(Rest(k)) = <<>>
           /\ k # 14 => Tail(Rest(k)) = Rest(k + 1) /\ k + 1 \in 1 .. 14
<1> DEFINE S == {Move!ALL_STEPS[i] : i \in 1 .. 14}
<1>1. Rest(k) \in Seq(S) /\ Len(Rest(k)) = 15 - k
  <2>1. \A i \in 1 .. 15 - k : Move!ALL_STEPS[k + i - 1] \in S
    OBVIOUS
  <2> HIDE DEF S
  <2>2. Rest(k) \in [1 .. 15 - k -> S] /\ 15 - k \in Nat
    BY <2>1 DEF Rest
  <2>3. Rest(k) \in Seq(S)
    BY <2>2, SeqDef
  <2> QED BY <2>2, <2>3, LenProperties
<1>2. \A i \in 1 .. 15 - k : Rest(k)[i] = Move!ALL_STEPS[k + i - 1]
  BY DEF Rest
<1> HIDE DEF S
<1>3. Rest(k) # <<>>
  BY <1>1, EmptySeq
<1>4. /\ Head(Rest(k)) = Rest(k)[1] /\ Tail(Rest(k)) \in Seq(S)
      /\ Len(Tail(Rest(k))) = 14 - k
      /\ \A i \in 1 .. 14 - k : Tail(Rest(k))[i] = Rest(k)[i + 1]
  BY <1>1, <1>3, HeadTailProperties
<1>5. ASSUME k = 14 PROVE Tail(Rest(k)) = <<>>
  <2>1. Len(Tail(Rest(k))) = 0 /\ Tail(Rest(k)) \in Seq(S)
    BY <1>4, <1>5
  <2> QED BY <2>1, EmptySeq
<1>6. ASSUME k # 14 PROVE Tail(Rest(k)) = Rest(k + 1)
  <2>1. DOMAIN Tail(Rest(k)) = 1 .. 14 - k /\ Tail(Rest(k)) = [i \in 1 .. 14 - k |-> Tail(Rest(k))[i]]
    BY <1>4, LenProperties
  <2>2. \A i \in 1 .. 14 - k : Tail(Rest(k))[i] = Move!ALL_STEPS[(k + 1) + i - 1]
    BY <1>2, <1>4
  <2> QED BY <2>1, <2>2 DEF Rest
<1> QED BY <1>2, <1>3, <1>4, <1>5, <1>6

LEMMA AllSteps == Rest(1) = Move!ALL_STEPS
<1>1. Rest(1) = [i \in 1 .. 14 |-> Move!ALL_STEPS[i]]
  BY DEF Rest
<1> QED BY <1>1, StepNames

\* Which step a run of all of them is at.
LEMMA StepAt ==
    ASSUME NEW k \in 1 .. 14, steps = Rest(k), NEW step, Move!Running(step)
    PROVE  /\ step = "masters" <=> k = 1
           /\ step = "staff" <=> k = 2
           /\ step = "physicalPlot" <=> k = 3
           /\ step = "customer" <=> k = 4
           /\ step = "contractPlot" <=> k = 5
           /\ step = "saleContractRole" <=> k = 6
           /\ step = "familyContact" <=> k = 7
           /\ step = "buriedPerson" <=> k = 8
           /\ step = "constructionInfo" <=> k = 9
           /\ step = "billing" <=> k = 10
           /\ step = "payment" <=> k = 11
           /\ step = "paymentStatus" <=> k = 12
           /\ step = "history" <=> k = 13
<1>1. step = Move!ALL_STEPS[k]
  BY RestSteps DEF Move!Running
<1> QED BY <1>1, StepPlaces

-----------------------------------------------------------------------------
(* What stays as a run goes on *)

\* No row goes, what is owed stays so or is made, and no code that is in a map leaves it.
Lasting ==
    /\ data \subseteq data' /\ Owed \subseteq data' \cup Owed'
    /\ \A key \in Move!Maps : \A cd : Move!Get(key, cd) # {} => Move!Get(key, cd)' # {}

LEMMA NoneOwed == ASSUME owed = <<>> PROVE Owed = {}
<1>1. DOMAIN owed = {}
  BY NoParts
<1> QED BY <1>1 DEF Owed

LEMMA LastingSame ==
    ASSUME data \subseteq data', owed = <<>> \/ owed' = owed,
           \A key \in Move!Maps : idMaps[key] \subseteq idMaps'[key]
    PROVE  Lasting
<1>1. Owed \subseteq data' \cup Owed'
  <2>1. CASE owed = <<>>
    BY <2>1, NoneOwed
  <2>2. CASE owed' = owed
    BY <2>2 DEF Owed
  <2> QED BY <2>1, <2>2
<1> QED BY <1>1 DEF Lasting, Move!Get

LEMMA LastingPut ==
    ASSUME MoveInv, data \subseteq data', Owed \subseteq data' \cup Owed',
           NEW table \in Move!Maps, NEW cd, NEW ids, ids # {},
           \A id \in ids : id.cd = cd, idMaps' = Move!Put(table, cd, ids)
    PROVE  Lasting /\ Move!Get(table, cd)' # {}
<1>1. idMaps = [key \in Move!Maps |-> idMaps[key]]
  BY DEF MoveInv, MapsHold
<1>2. idMaps'[table] = (idMaps[table] \ {id \in idMaps[table] : id.cd = cd}) \cup ids
  BY <1>1 DEF Move!Put, Move!Get
<1>3. \A key \in Move!Maps \ {table} : idMaps'[key] = idMaps[key]
  BY <1>1 DEF Move!Put
<1>4. {id \in idMaps'[table] : id.cd = cd} # {}
  BY <1>2
<1>5. ASSUME NEW key \in Move!Maps, NEW c, {id \in idMaps[key] : id.cd = c} # {}
      PROVE  {id \in idMaps'[key] : id.cd = c} # {}
  <2>1. PICK id \in idMaps[key] : id.cd = c
    BY <1>5
  <2>2. CASE key # table
    BY <1>3, <2>1, <2>2
  <2>3. CASE key = table /\ c # cd
    BY <1>2, <2>1, <2>3
  <2>4. CASE key = table /\ c = cd
    BY <1>4, <2>4
  <2> QED BY <2>2, <2>3, <2>4
<1> QED BY <1>4, <1>5 DEF Lasting, Move!Get

LEMMA CameStays ==
    ASSUME Lasting, NEW n, NEW l, Came(n, l) PROVE Came(n, l)'
<1>1. \A table, cd : Move!Existing(table, cd) # {} => Move!Existing(table, cd)' # {}
  BY DEF Lasting, Move!Existing
<1>2. {"staff", "customer", "physicalPlot", "contractPlot", "billing"} \subseteq Move!Maps
  BY DEF Move!Maps
<1>3. \A table, cd : Coming(table, cd) => Coming(table, cd)'
  <2>1. \A r \in Owed : r \in Owed' \/ Move!Existing(r.id.table, r.id.cd)' # {}
    BY DEF Lasting, Move!Existing
  <2> QED BY <1>1, <2>1 DEF Coming
<1> QED BY <1>1, <1>2, <1>3 DEF Came, Lasting

\* A step comes to one row more.
LEMMA WholeTakes ==
    ASSUME WholeHolds, Lasting, NEW l, entered, Move!Take(l),
           \A k \in 1 .. 14 : steps = Rest(k) /\ Progress(k) /\ whole /\ l \in FormerRows(k) =>
             Came(k, l)'
    PROVE  WholeHolds'
<1>1. steps' = steps /\ entered' = entered /\ todo' = todo \ {l} /\ whole' = whole
  BY DEF Move!Take, Move!history
<1> SUFFICES ASSUME whole, steps # <<>>
             PROVE  \E k \in 1 .. 14 : steps = Rest(k) /\ Progress(k)'
  BY <1>1 DEF WholeHolds
<1>2. PICK k \in 1 .. 14 : steps = Rest(k) /\ Progress(k)
  BY DEF WholeHolds
<1>3. ASSUME NEW n \in 1 .. 14, NEW x \in FormerRows(n),
             n < k \/ (n = k /\ entered /\ x \notin todo \ {l})
      PROVE  Came(n, x)'
  <2>1. CASE n = k /\ x = l
    BY <1>2, <1>3, <2>1
  <2>2. CASE ~(n = k /\ x = l)
    <3>1. Came(n, x)
      BY <1>2, <1>3, <2>2 DEF Progress
    <3> QED BY <3>1, CameStays
  <2> QED BY <2>1, <2>2
<1>4. Progress(k)'
  BY <1>1, <1>3 DEF Progress
<1> QED BY <1>2, <1>4

\* What was linked stays so.
LEMMA LinkedStays ==
    ASSUME NEW r, NEW S, NEW T, S \subseteq T, RowLinked(r, S) PROVE RowLinked(r, T)
BY DEF RowLinked, LinkedTo

LEMMA OnPlotStays ==
    ASSUME NEW r, NEW S, NEW T, S \subseteq T, OnPlot(r, S) PROVE OnPlot(r, T)
BY DEF OnPlot

\* A row of the former system becomes a row, or has become one.
LEMMA LinksMade ==
    ASSUME ReferencesHold, NEW r, data' \subseteq data \cup {r}, data \subseteq data',
           Expected(r.id.table, r.id.cd), OnPlot(r, Move!Ids'),
           ~picked => RowLinked(r, Move!Ids'),
           UNCHANGED <<steps, whole, picked>>
    PROVE  ReferencesHold'
<1>1. Move!Ids \subseteq Move!Ids'
  BY DEF Move!Ids
<1>2. \A x \in data' : Expected(x.id.table, x.id.cd) /\ OnPlot(x, Move!Ids')
  BY <1>1, OnPlotStays DEF ReferencesHold
<1>3. ASSUME ~picked, NEW x \in data' PROVE RowLinked(x, Move!Ids')
  BY <1>1, <1>3, LinkedStays DEF ReferencesHold
<1> QED BY <1>2, <1>3 DEF ReferencesHold

\* The row's id goes into the map.
Stored(table, cd) ==
    table \in Move!Maps /\ idMaps' = Move!Put(table, cd, Move!Kept(table, cd))

\* The step of a row that is looked up and created when it is missing.
LEMMA EnsureLinks ==
    ASSUME MoveInv, MoveInv', LinkInv, NEW l, NEW step, Move!Running(step), Move!Take(l),
           NEW table, NEW cd, NEW of, NEW parts, Move!Ensure(table, cd, of, parts),
           DOMAIN parts = 1 .. Len(parts), \A i \in DOMAIN parts : parts[i] \in Following,
           Expected(table, cd),
           \A r : r.id.table = table /\ r.id.cd = cd /\ r.of = of => OnPlot(r, Move!Ids),
           ~picked => \A r : r.id.table = table /\ r.id.cd = cd /\ r.of = of =>
                        RowLinked(r, Move!Ids),
           idMaps' = idMaps \/ Stored(table, cd),
           \A k \in 1 .. 14 : steps = Rest(k) /\ Progress(k) /\ whole /\ l \in FormerRows(k)
             /\ Move!Existing(table, cd)' # {}
             /\ (Stored(table, cd) => Move!Get(table, cd)' # {}) => Came(k, l)'
    PROVE  LinkInv'
<1> DEFINE r == Move!New(table, cd, of)
<1>1. r.id.table = table /\ r.id.cd = cd /\ r.of = of
  BY DEF Move!New
<1>2. /\ data' \subseteq data \cup {r} /\ data \subseteq data'
      /\ Move!Existing(table, cd)' # {}
  <2>1. CASE Move!Existing(table, cd) # {}
    BY <2>1 DEF Move!Ensure, Move!Existing
  <2>2. CASE Move!Existing(table, cd) = {}
    <3>1. data' = data \cup {r}
      BY <2>2 DEF Move!Ensure
    <3> QED BY <1>1, <3>1 DEF Move!Existing
  <2> QED BY <2>1, <2>2
<1>3. /\ UNCHANGED <<steps, whole, picked>> /\ entered /\ owed = <<>>
  BY DEF Move!Take, Move!history, Move!Running
<1>4. OwedApart'
  <2>1. CASE owed' = owed
    BY <2>1 DEF LinkInv, OwedApart, Owed
  <2>2. CASE owed' # owed
    <3>1. owed' = [i \in 1 .. Len(parts) |-> Move!New(parts[i], cd, {r.id})]
      BY <2>2 DEF Move!Ensure
    <3>2. \A i \in DOMAIN owed' : owed'[i].id.table \in Following
      BY <3>1 DEF Move!New
    <3> QED BY <3>2 DEF OwedApart, Owed
  <2> QED BY <2>1, <2>2
<1> HIDE DEF r
<1>5. ReferencesHold'
  <2>1. Move!Ids \subseteq Move!Ids'
    BY <1>2 DEF Move!Ids
  <2>2. (~picked => RowLinked(r, Move!Ids')) /\ OnPlot(r, Move!Ids')
    BY <1>1, <2>1, LinkedStays, OnPlotStays
  <2> QED BY <1>1, <1>2, <1>3, <2>2, LinksMade DEF LinkInv
<1>6. Owed = {}
  BY <1>3, NoneOwed
<1>7. Lasting /\ (Stored(table, cd) => Move!Get(table, cd)' # {})
  <2>1. CASE ~Stored(table, cd)
    BY <1>2, <1>3, <2>1, LastingSame
  <2>2. CASE Stored(table, cd)
    <3> DEFINE kept == Move!Kept(table, cd)
    <3>1. kept # {} /\ \A id \in kept : id.cd = cd
      <4>1. \A id \in Move!Existing(table, cd) : id.cd = cd
        BY DEF Move!Existing
      <4>2. Move!New(table, cd, {}).id.cd = cd
        BY DEF Move!New
      <4> QED BY <4>1, <4>2 DEF Move!Kept
    <3> HIDE DEF kept
    <3>2. idMaps' = Move!Put(table, cd, kept)
      BY <2>2 DEF Stored, kept
    <3> QED BY <1>2, <1>6, <2>2, <3>1, <3>2, LastingPut DEF Stored
  <2> QED BY <2>1, <2>2
<1>8. WholeHolds'
  BY <1>2, <1>3, <1>7, WholeTakes DEF LinkInv
<1> QED BY <1>4, <1>5, <1>8 DEF LinkInv

-----------------------------------------------------------------------------
(* The steps *)

\* A row that is passed over, as nothing of it is expected.
LEMMA PassLinks ==
    ASSUME LinkInv, NEW l, entered, Move!Take(l), data' = data, owed' = owed, idMaps' = idMaps,
           \A k \in 1 .. 14 : steps = Rest(k) /\ Progress(k) /\ whole /\ l \in FormerRows(k) =>
             Came(k, l)
    PROVE  LinkInv'
<1>1. UNCHANGED <<steps, whole, picked>>
  BY DEF Move!Take, Move!history
<1>2. ReferencesHold' /\ OwedApart'
  BY <1>1 DEF LinkInv, ReferencesHold, OwedApart, Owed, Move!Ids
<1>3. Lasting
  BY LastingSame
<1>4. WholeHolds'
  BY <1>3, CameStays, WholeTakes DEF LinkInv
<1> QED BY <1>2, <1>4 DEF LinkInv

\* What the maps hold has been expected; in a run of all the steps, also the converse.
LEMMA MappedExpected ==
    ASSUME MoveInv, LinkInv, NEW key \in Move!Maps, NEW cd, Move!Get(key, cd) # {}
    PROVE  Expected(key, cd)
<1>1. PICK id \in Move!Get(key, cd) : TRUE
  OBVIOUS
<1>2. id \in Move!Ids /\ id.table = key /\ id.cd = cd
  BY <1>1, MappedLive
<1> QED BY <1>2 DEF LinkInv, ReferencesHold, Move!Ids

LEMMA LiveCustomer ==
    ASSUME MoveInv, LinkInv, NEW cd, Move!Get("customer", cd) # {}
    PROVE  Move!CustomerTaken(cd)
<1>1. Expected("customer", cd) /\ cd \notin Move!Terminated
  BY MappedExpected, MappedLive DEF Move!Maps
<1> QED BY <1>1 DEF Expected, Move!Imported, Move!CustomerTaken, Move!Terminated, Move!Live

LEMMA PlotExpected ==
    ASSUME MoveInv, LinkInv, NEW cd, Move!Get("contractPlot", cd) # {}
    PROVE  Move!PlotTaken(cd)
BY MappedExpected DEF Expected, Move!Maps

\* Every step before the k-th has come to all its rows.
LEMMA AllCame ==
    ASSUME NEW k \in 1 .. 14, Progress(k)
    PROVE  /\ k > 1 => \A l \in sykbnn : Came(1, l)
           /\ k > 2 => \A l \in matant : Came(2, l)
           /\ k > 3 => \A l \in m_bochi : Came(3, l)
           /\ k > 4 => \A l \in t_danka : Came(4, l)
           /\ k > 5 => \A l \in m_bochi : Came(5, l)
           /\ k > 6 => \A l \in Move!Live(t_danka) : Came(6, l)
           /\ k > 7 => \A l \in t_family : Came(7, l)
           /\ k > 8 => \A l \in t_maisou : Came(8, l)
           /\ k > 10 => \A l \in t_seikyu : Came(10, l)
           /\ k > 11 => \A l \in t_nyukin : Came(11, l)
BY DEF Progress, FormerRows

\* What an earlier step was to leave is in its map.
LEMMA ExpectedMapped ==
    ASSUME NEW k \in 1 .. 14, Progress(k), NEW cd
    PROVE  /\ k > 1 /\ Expected("relationshipMaster", cd) =>
                Move!Existing("relationshipMaster", cd) # {}
           /\ k > 2 /\ Expected("staff", cd) => Move!Get("staff", cd) # {}
           /\ k > 4 /\ Expected("customer", cd) => Move!Existing("customer", cd) # {}
           /\ k > 4 /\ Move!CustomerTaken(cd) => Move!Get("customer", cd) # {}
           /\ k > 5 /\ Move!PlotTaken(cd) => Move!Get("contractPlot", cd) # {}
           /\ k > 10 /\ Expected("billing", cd) => Move!Get("billing", cd) # {}
<1>1. k > 1 /\ Expected("relationshipMaster", cd) => Move!Existing("relationshipMaster", cd) # {}
  BY AllCame DEF Expected, Came
<1>2. k > 2 /\ Expected("staff", cd) => Move!Get("staff", cd) # {}
  BY AllCame DEF Expected, Came
<1>3. k > 4 /\ Expected("customer", cd) => Move!Existing("customer", cd) # {}
  BY AllCame DEF Expected, Came
<1>4. k > 4 /\ Move!CustomerTaken(cd) => Move!Get("customer", cd) # {}
  BY AllCame DEF Came, Move!CustomerTaken, Move!Imported, Move!Live
<1>5. k > 5 /\ Move!PlotTaken(cd) => Move!Get("contractPlot", cd) # {}
  BY AllCame DEF Came, Move!PlotTaken
<1>6. k > 10 /\ Expected("billing", cd) => Move!Get("billing", cd) # {}
  BY AllCame DEF Expected, Came
<1> QED BY <1>1, <1>2, <1>3, <1>4, <1>5, <1>6

\* A link that is looked for in a map finds what is there.
LEMMA GetLinks ==
    ASSUME MoveInv, NEW key \in Move!Maps, NEW cd, Move!Get(key, cd) # {},
           NEW r, Move!Get(key, cd) \subseteq r.of, NEW c, c.table = key, c.cd = cd
    PROVE  LinkedTo(r, Move!Ids, c)
<1>1. PICK id \in Move!Get(key, cd) : TRUE
  OBVIOUS
<1> QED BY <1>1, MappedLive DEF LinkedTo

LEMMA NoRows == DOMAIN <<>> = 1 .. Len(<<>>) /\ \A i \in DOMAIN <<>> : <<>>[i] \in Following
  BY NoParts

\* Rows that refer to nothing, or to what decides nothing.
LEMMA Unlinked ==
    ASSUME NEW r, r.id.table \notin {"customer", "billing", "payment", "familyContact"},
           NEW ids
    PROVE  RowLinked(r, ids)
BY DEF RowLinked, LegacyOf

LEMMA NoInvoice == ASSUME NEW r, r.id.table # "billing", NEW ids PROVE OnPlot(r, ids)
BY DEF OnPlot

\* The steps whose rows refer to nothing, or to what decides nothing.
LEMMA UnlinkedSteps ==
    ASSUME MoveInv, MoveInv', LinkInv, Move!MigrationAssumption, NEW l \in todo,
           \/ Move!stepMasters(l) \/ Move!stepStaff(l) \/ Move!stepPhysicalPlot(l)
           \/ Move!stepContractPlot(l) \/ Move!stepBuriedPerson(l)
           \/ Move!stepConstructionInfo(l) \/ Move!stepHistory(l)
    PROVE  LinkInv'
<1>1. ASSUME NEW step, Move!Running(step), Move!Take(l), NEW table, NEW cd, NEW of, NEW parts,
             Move!Ensure(table, cd, of, parts), DOMAIN parts = 1 .. Len(parts),
             \A i \in DOMAIN parts : parts[i] \in Following,
             Expected(table, cd), table \notin {"customer", "billing", "payment", "familyContact"},
             idMaps' = idMaps \/ Stored(table, cd),
             \A k \in 1 .. 14 : steps = Rest(k) /\ Progress(k) /\ whole /\ l \in FormerRows(k)
               /\ Move!Existing(table, cd)' # {}
               /\ (Stored(table, cd) => Move!Get(table, cd)' # {}) => Came(k, l)'
      PROVE  LinkInv'
  <2>1. \A r : r.id.table = table => RowLinked(r, Move!Ids) /\ OnPlot(r, Move!Ids)
    BY <1>1, Unlinked, NoInvoice
  <2> QED BY <1>1, <2>1, EnsureLinks
<1>2. ASSUME NEW step, Move!Running(step), step \in {"constructionInfo", "history"},
             NEW k \in 1 .. 14, steps = Rest(k)
      PROVE  Came(k, l) /\ Came(k, l)'
  <2>1. k \in {9, 13}
    BY <1>2, StepAt
  <2> QED BY <2>1 DEF Came
<1>3. ASSUME Move!Pass(l), NEW step, Move!Running(step),
             \A k \in 1 .. 14 : steps = Rest(k) /\ Progress(k) /\ whole => Came(k, l)
      PROVE  LinkInv'
  <2>1. /\ Move!Take(l) /\ data' = data /\ owed' = owed /\ idMaps' = idMaps /\ entered
    BY <1>3 DEF Move!Pass, Move!Running
  <2> QED BY <1>3, <2>1, PassLinks
<1>4. CASE Move!stepMasters(l)
  <2>1. /\ Move!Running("masters") /\ Move!Take(l) /\ idMaps' = idMaps
        /\ Move!Ensure("relationshipMaster", l.cd, {}, <<>>)
    BY <1>4 DEF Move!stepMasters
  <2>2. Expected("relationshipMaster", l.cd)
    BY <2>1 DEF Move!Running, MoveInv, TodoHolds, Expected
  <2>3. ASSUME NEW k \in 1 .. 14, steps = Rest(k),
               Move!Existing("relationshipMaster", l.cd)' # {}
        PROVE  Came(k, l)'
    <3>1. k = 1
      BY <2>1, <2>3, StepAt
    <3> QED BY <2>3, <3>1 DEF Came
  <2> QED BY <1>1, <2>1, <2>2, <2>3, NoRows
<1>5. CASE Move!stepStaff(l)
  <2>1. /\ Move!Running("staff") /\ Move!Take(l) /\ Stored("staff", l.email)
        /\ Move!Ensure("staff", l.email, {}, <<>>)
    BY <1>5 DEF Move!stepStaff, Stored, Move!Maps
  <2>2. Expected("staff", l.email)
    BY <2>1 DEF Move!Running, MoveInv, TodoHolds, Expected
  <2>3. ASSUME NEW k \in 1 .. 14, steps = Rest(k), Move!Get("staff", l.email)' # {}
        PROVE  Came(k, l)'
    <3>1. k = 2
      BY <2>1, <2>3, StepAt
    <3> QED BY <2>3, <3>1 DEF Came
  <2> QED BY <1>1, <2>1, <2>2, <2>3, NoRows
<1>6. CASE Move!stepPhysicalPlot(l)
  <2>1. /\ Move!Running("physicalPlot") /\ Move!Take(l) /\ Stored("physicalPlot", l.cd)
        /\ Move!Ensure("physicalPlot", l.cd, {}, <<>>)
    BY <1>6 DEF Move!stepPhysicalPlot, Stored, Move!Maps
  <2>2. Expected("physicalPlot", l.cd)
    BY DEF Expected
  <2>3. ASSUME NEW k \in 1 .. 14, steps = Rest(k), Move!Get("physicalPlot", l.cd)' # {}
        PROVE  Came(k, l)'
    <3>1. k = 3
      BY <2>1, <2>3, StepAt
    <3> QED BY <2>3, <3>1 DEF Came
  <2> QED BY <1>1, <2>1, <2>2, <2>3, NoRows
<1>7. CASE Move!stepContractPlot(l)
  <2>1. Move!Running("contractPlot") /\ l \in m_bochi
    BY <1>7 DEF Move!stepContractPlot, Move!Running, MoveInv, TodoHolds
  <2>2. CASE Move!Contracted(l) /\ Move!Get("physicalPlot", l.cd) # {}
    <3> DEFINE of == Move!Get("physicalPlot", l.cd)
    <3>1. /\ Move!Take(l) /\ Stored("contractPlot", l.cd)
          /\ Move!Ensure("contractPlot", l.cd, of, l.parts)
      BY <1>7, <2>2 DEF Move!stepContractPlot, Stored, Move!Maps
    <3> HIDE DEF of
    <3>2. Expected("contractPlot", l.cd)
      BY <2>1, <2>2 DEF Expected, Move!PlotTaken
    <3>3. /\ DOMAIN l.parts = 1 .. Len(l.parts)
          /\ \A i \in DOMAIN l.parts : l.parts[i] \in Following
      BY <2>1, LenProperties, ElementOfSeq DEF Move!MigrationAssumption, Following
    <3>4. ASSUME NEW k \in 1 .. 14, steps = Rest(k), Move!Get("contractPlot", l.cd)' # {}
          PROVE  Came(k, l)'
      <4>1. k = 5
        BY <2>1, <3>4, StepAt
      <4> QED BY <3>4, <4>1 DEF Came
    <3> QED BY <1>1, <2>1, <3>1, <3>2, <3>3, <3>4
  <2>3. CASE ~(Move!Contracted(l) /\ Move!Get("physicalPlot", l.cd) # {})
    <3>1. Move!Pass(l)
      BY <1>7, <2>3 DEF Move!stepContractPlot
    <3>2. ASSUME NEW k \in 1 .. 14, steps = Rest(k), Progress(k) PROVE Came(k, l)
      <4>1. k = 5
        BY <2>1, <3>2, StepAt
      <4>2. Move!Get("physicalPlot", l.cd) # {}
        BY <2>1, <3>2, <4>1, AllCame DEF Came
      <4> QED BY <2>3, <4>1, <4>2 DEF Came
    <3> QED BY <1>3, <2>1, <3>1, <3>2
  <2> QED BY <2>2, <2>3
<1>8. CASE Move!stepBuriedPerson(l)
  <2>1. Move!Running("buriedPerson") /\ Expected("buriedPerson", l.cd)
    BY <1>8 DEF Move!stepBuriedPerson, Expected
  <2>2. ASSUME NEW k \in 1 .. 14, steps = Rest(k) PROVE k = 8
    BY <2>1, <2>2, StepAt
  <2>3. CASE l.named /\ Move!Get("contractPlot", l.grave_cd) # {}
    <3>1. \E of : /\ Move!Take(l) /\ idMaps' = idMaps
                  /\ Move!Ensure("buriedPerson", l.cd, of, <<>>)
      BY <1>8, <2>3 DEF Move!stepBuriedPerson
    <3>2. ASSUME NEW k \in 1 .. 14, steps = Rest(k), Move!Existing("buriedPerson", l.cd)' # {}
          PROVE  Came(k, l)'
      <4>1. k = 8
        BY <2>2, <3>2
      <4> QED BY <3>2, <4>1 DEF Came
    <3> QED BY <1>1, <2>1, <3>1, <3>2, NoRows
  <2>4. CASE ~(l.named /\ Move!Get("contractPlot", l.grave_cd) # {})
    <3>1. Move!Pass(l)
      BY <1>8, <2>4 DEF Move!stepBuriedPerson
    <3>2. ASSUME NEW k \in 1 .. 14, steps = Rest(k), Progress(k) PROVE Came(k, l)
      <4>1. k = 8
        BY <2>2, <3>2
      <4>2. Move!PlotTaken(l.grave_cd) => Move!Get("contractPlot", l.grave_cd) # {}
        BY <3>2, <4>1, ExpectedMapped
      <4> QED BY <2>4, <4>1, <4>2 DEF Came
    <3> QED BY <1>3, <2>1, <3>1, <3>2
  <2> QED BY <2>3, <2>4
<1>9. CASE Move!stepConstructionInfo(l)
  <2>1. Move!Running("constructionInfo") /\ Expected("constructionInfo", l.cd)
    BY <1>9 DEF Move!stepConstructionInfo, Expected
  <2>2. \/ Move!Pass(l)
        \/ \E of : Move!Take(l) /\ idMaps' = idMaps /\ Move!Ensure("constructionInfo", l.cd, of, <<>>)
    BY <1>9 DEF Move!stepConstructionInfo
  <2> QED BY <1>1, <1>2, <1>3, <2>1, <2>2, NoRows
<1>10. CASE Move!stepHistory(l)
  <2>1. Move!Running("history")
    BY <1>10 DEF Move!stepHistory
  <2>2. l.table \in {"t_dankalog", "t_famlog"}
    BY <2>1 DEF MoveInv, TodoHolds, Move!Running, Move!MigrationAssumption
  <2>3. Expected(l.table, l.cd)
    BY <2>2 DEF Expected
  <2>4. \/ Move!Pass(l)
        \/ \E of : Move!Take(l) /\ idMaps' = idMaps /\ Move!Ensure(l.table, l.cd, of, <<>>)
    BY <1>10 DEF Move!stepHistory
  <2> QED BY <1>1, <1>2, <1>3, <2>1, <2>2, <2>3, <2>4, NoRows
<1> QED BY <1>4, <1>5, <1>6, <1>7, <1>8, <1>9, <1>10

\* A customer refers to the clerk in charge, when there is one.
LEMMA CustomerLinks ==
    ASSUME MoveInv, MoveInv', LinkInv, Move!MigrationAssumption, NEW l \in todo,
           Move!stepCustomer(l)
    PROVE  LinkInv'
<1>1. Move!Running("customer") /\ l \in t_danka
  BY DEF Move!stepCustomer, Move!Running, MoveInv, TodoHolds
<1>2. ASSUME NEW k \in 1 .. 14, steps = Rest(k) PROVE k = 4
  BY <1>1, <1>2, StepAt
<1>3. CASE ~Move!Imported(l)
  <2>1. /\ Move!Take(l) /\ data' = data /\ owed' = owed /\ idMaps' = idMaps /\ entered
    BY <1>1, <1>3 DEF Move!stepCustomer, Move!Pass, Move!Running
  <2>2. \A k \in 1 .. 14 : steps = Rest(k) => Came(k, l)
    BY <1>2, <1>3 DEF Came
  <2> QED BY <2>1, <2>2, PassLinks
<1>4. CASE Move!Imported(l)
  <2> DEFINE parts == IF l.job THEN <<"workInfo">> ELSE <<>>
             of == Move!InCharge(l.tancd)
  <2>1. /\ Move!Take(l) /\ Move!Ensure("customer", l.cd, of, parts)
        /\ IF l.del_flg = 2 THEN idMaps' = idMaps ELSE Stored("customer", l.cd)
    BY <1>4 DEF Move!stepCustomer, Stored, Move!Maps
  <2>2. DOMAIN parts = 1 .. Len(parts) /\ \A i \in DOMAIN parts : parts[i] \in Following
    <3>1. CASE l.job
      <4>1. parts = <<"workInfo">>
        BY <3>1
      <4>2. Len(parts) = 1 /\ DOMAIN parts = 1 .. 1 /\ parts[1] = "workInfo"
        BY <4>1
      <4> HIDE DEF parts
      <4> QED BY <4>2 DEF Following
    <3>2. CASE ~l.job
      <4>1. parts = <<>>
        BY <3>2
      <4> HIDE DEF parts
      <4> QED BY <4>1, NoRows
    <3> QED BY <3>1, <3>2
  <2> HIDE DEF parts
  <2>3. Expected("customer", l.cd)
    BY <1>1, <1>4 DEF Expected
  <2>4. ASSUME ~picked, NEW r, r.id.table = "customer", r.id.cd = l.cd, r.of = of
        PROVE  RowLinked(r, Move!Ids)
    <3>1. PICK k \in 1 .. 14 : steps = Rest(k) /\ Progress(k)
      BY <1>1, <2>4 DEF LinkInv, ReferencesHold, WholeHolds, Move!Running
    <3>2. k = 4
      BY <1>2, <3>1
    <3>3. \A m \in t_danka : m.cd = l.cd => m = l
      BY <1>1 DEF Move!MigrationAssumption
    <3>4. Move!Wanted("customer", l) = {Move!Code("staff", e) : e \in Move!EmailOf(l.tancd)}
      BY DEF Move!Wanted
    <3>5. ASSUME NEW c \in Move!Wanted("customer", l), Expected(c.table, c.cd)
          PROVE  LinkedTo(r, Move!Ids, c)
      <4>1. PICK email \in Move!EmailOf(l.tancd) : c = Move!Code("staff", email)
        BY <3>4
      <4>2. c.table = "staff" /\ c.cd = email
        BY <4>1 DEF Move!Code
      <4>3. Move!Get("staff", email) # {}
        BY <3>1, <3>2, <3>5, <4>2, ExpectedMapped
      <4>4. Move!Get("staff", email) \subseteq r.of
        BY <2>4, <4>1 DEF Move!InCharge
      <4> QED BY <4>2, <4>3, <4>4, GetLinks DEF Move!Maps
    <3>6. LegacyOf("customer") = t_danka
      BY DEF LegacyOf
    <3> QED BY <2>4, <3>3, <3>5, <3>6 DEF RowLinked
  <2> HIDE DEF of
  <2>5. ASSUME NEW k \in 1 .. 14, steps = Rest(k), Move!Existing("customer", l.cd)' # {},
               Stored("customer", l.cd) => Move!Get("customer", l.cd)' # {}
        PROVE  Came(k, l)'
    <3>1. k = 4
      BY <1>2, <2>5
    <3> QED BY <2>1, <2>5, <3>1 DEF Came
  <2>6. idMaps' = idMaps \/ Stored("customer", l.cd)
    BY <2>1
  <2> QED BY <1>1, <2>1, <2>2, <2>3, <2>4, <2>5, <2>6, NoInvoice, EnsureLinks
<1> QED BY <1>3, <1>4

\* An invoice is taken over only with its customer and its plot, in any run.
LEMMA BillingLinks ==
    ASSUME MoveInv, MoveInv', LinkInv, Move!MigrationAssumption, NEW l \in todo,
           Move!stepBilling(l)
    PROVE  LinkInv'
<1>1. Move!Running("billing") /\ l \in t_seikyu
  BY DEF Move!stepBilling, Move!Running, MoveInv, TodoHolds
<1>2. ASSUME NEW k \in 1 .. 14, steps = Rest(k) PROVE k = 10
  BY <1>1, <1>2, StepAt
<1> DEFINE customer == Move!Get("customer", l.danka_cd)
           plot1 == Move!Get("contractPlot", l.grave_cd)
<1>3. CASE ~(Move!Plausible(l) /\ customer # {} /\ plot1 # {})
  <2>1. /\ Move!Take(l) /\ data' = data /\ owed' = owed /\ idMaps' = idMaps /\ entered
    BY <1>1, <1>3 DEF Move!stepBilling, Move!Pass, Move!Running
  <2>2. ASSUME NEW k \in 1 .. 14, steps = Rest(k), Progress(k) PROVE Came(k, l)
    <3>1. k = 10
      BY <1>2, <2>2
    <3>2. Move!CustomerTaken(l.danka_cd) => customer # {}
      BY <2>2, <3>1, ExpectedMapped
    <3>3. Move!PlotTaken(l.grave_cd) => plot1 # {}
      BY <2>2, <3>1, ExpectedMapped
    <3> QED BY <1>3, <3>1, <3>2, <3>3 DEF Came, Bills
  <2> QED BY <2>1, <2>2, PassLinks
<1>4. CASE Move!Plausible(l) /\ customer # {} /\ plot1 # {}
  <2> DEFINE of == customer \cup plot1
  <2>1. /\ Move!Take(l) /\ Move!Ensure("billing", l.cd, of, <<>>) /\ Stored("billing", l.cd)
    BY <1>4 DEF Move!stepBilling, Stored, Move!Maps
  <2>2. Expected("billing", l.cd)
    <3>1. Bills(l)
      BY <1>4, LiveCustomer, PlotExpected DEF Bills
    <3> QED BY <1>1, <3>1 DEF Expected
  <2>3. ASSUME NEW r, r.id.table = "billing", r.id.cd = l.cd, r.of = of
        PROVE  RowLinked(r, Move!Ids) /\ OnPlot(r, Move!Ids)
    <3> DEFINE c == Move!Code("customer", l.danka_cd)
               p == Move!Code("contractPlot", l.grave_cd)
    <3>1. \A m \in t_seikyu : m.cd = l.cd => m = l
      BY <1>1 DEF Move!MigrationAssumption
    <3>2. Move!Wanted("billing", l) = {c, p}
      BY DEF Move!Wanted
    <3>3. c.table = "customer" /\ c.cd = l.danka_cd /\ p.table = "contractPlot" /\ p.cd = l.grave_cd
      BY DEF Move!Code
    <3> HIDE DEF c, p
    <3>4. LinkedTo(r, Move!Ids, c)
      BY <1>4, <2>3, <3>3, GetLinks DEF Move!Maps
    <3>5. LinkedTo(r, Move!Ids, p)
      BY <1>4, <2>3, <3>3, GetLinks DEF Move!Maps
    <3>6. LegacyOf("billing") = t_seikyu
      BY DEF LegacyOf
    <3>7. RowLinked(r, Move!Ids)
      BY <2>3, <3>1, <3>2, <3>4, <3>5, <3>6 DEF RowLinked
    <3>8. \A id \in of : id.table = "contractPlot" => id.cd = l.grave_cd
      BY MappedLive DEF Move!Maps
    <3>9. OnPlot(r, Move!Ids)
      BY <2>3, <3>1, <3>3, <3>5, <3>8 DEF OnPlot, LinkedTo
    <3> QED BY <3>7, <3>9
  <2> HIDE DEF of
  <2>4. ASSUME NEW k \in 1 .. 14, steps = Rest(k),
               Stored("billing", l.cd) => Move!Get("billing", l.cd)' # {}
        PROVE  Came(k, l)'
    <3>1. k = 10
      BY <1>2, <2>4
    <3> QED BY <2>1, <2>4, <3>1 DEF Came
  <2> QED BY <1>1, <2>1, <2>2, <2>3, <2>4, NoRows, EnsureLinks
<1> QED BY <1>3, <1>4

\* A payment refers to whatever of its invoice, customer and plot is taken over.
LEMMA PaymentLinks ==
    ASSUME MoveInv, MoveInv', LinkInv, Move!MigrationAssumption, NEW l \in todo,
           Move!stepPayment(l)
    PROVE  LinkInv'
<1>1. Move!Running("payment") /\ l \in t_nyukin
  BY DEF Move!stepPayment, Move!Running, MoveInv, TodoHolds
<1>2. ASSUME NEW k \in 1 .. 14, steps = Rest(k) PROVE k = 11
  BY <1>1, <1>2, StepAt
<1> DEFINE of == Move!Get("billing", l.seikyu_cd) \cup Move!Get("customer", l.danka_cd)
                   \cup Move!Get("contractPlot", l.grave_cd)
<1>3. CASE ~(l.danka_cd \notin Move!Terminated /\ of # {})
  <2>1. /\ Move!Take(l) /\ data' = data /\ owed' = owed /\ idMaps' = idMaps /\ entered
    BY <1>1, <1>3 DEF Move!stepPayment, Move!Pass, Move!Running
  <2>2. ASSUME NEW k \in 1 .. 14, steps = Rest(k), Progress(k) PROVE Came(k, l)
    <3>1. k = 11
      BY <1>2, <2>2
    <3>2. Expected("billing", l.seikyu_cd) => of # {}
      BY <2>2, <3>1, ExpectedMapped
    <3> HIDE DEF of
    <3> QED BY <1>3, <3>1, <3>2 DEF Came
  <2> QED BY <2>1, <2>2, PassLinks
<1>4. CASE l.danka_cd \notin Move!Terminated /\ of # {}
  <2>1. /\ Move!Take(l) /\ Move!Ensure("payment", l.cd, of, <<>>) /\ idMaps' = idMaps
        /\ l.danka_cd \notin Move!Terminated
    BY <1>4 DEF Move!stepPayment
  <2>2. Expected("payment", l.cd)
    BY DEF Expected
  <2>3. ASSUME ~picked, NEW r, r.id.table = "payment", r.id.cd = l.cd, r.of = of
        PROVE  RowLinked(r, Move!Ids)
    <3> DEFINE b == Move!Code("billing", l.seikyu_cd)
               c == Move!Code("customer", l.danka_cd)
               p == Move!Code("contractPlot", l.grave_cd)
    <3>1. \A m \in t_nyukin : m.cd = l.cd => m = l
      BY <1>1 DEF Move!MigrationAssumption
    <3>2. Move!Wanted("payment", l) = {b, c, p}
      BY DEF Move!Wanted
    <3>3. /\ b.table = "billing" /\ b.cd = l.seikyu_cd /\ c.table = "customer" /\ c.cd = l.danka_cd
          /\ p.table = "contractPlot" /\ p.cd = l.grave_cd
      BY DEF Move!Code
    <3> HIDE DEF b, c, p
    <3>4. PICK k \in 1 .. 14 : steps = Rest(k) /\ Progress(k)
      BY <1>1, <2>3 DEF LinkInv, ReferencesHold, WholeHolds, Move!Running
    <3>5. k = 11
      BY <1>2, <3>4
    <3>6. Expected("billing", l.seikyu_cd) => LinkedTo(r, Move!Ids, b)
      <4>1. Expected("billing", l.seikyu_cd) => Move!Get("billing", l.seikyu_cd) # {}
        BY <3>4, <3>5, ExpectedMapped
      <4> QED BY <2>3, <3>3, <4>1, GetLinks DEF Move!Maps
    <3>7. Expected("customer", l.danka_cd) => LinkedTo(r, Move!Ids, c)
      <4>1. Expected("customer", l.danka_cd) => Move!CustomerTaken(l.danka_cd)
        BY <2>1 DEF Expected, Move!CustomerTaken, Move!Imported, Move!Terminated, Move!Live
      <4>2. Move!CustomerTaken(l.danka_cd) => Move!Get("customer", l.danka_cd) # {}
        BY <3>4, <3>5, ExpectedMapped
      <4> QED BY <2>3, <3>3, <4>1, <4>2, GetLinks DEF Move!Maps
    <3>8. Expected("contractPlot", l.grave_cd) => LinkedTo(r, Move!Ids, p)
      <4>1. Expected("contractPlot", l.grave_cd) => Move!Get("contractPlot", l.grave_cd) # {}
        BY <3>4, <3>5, ExpectedMapped DEF Expected
      <4> QED BY <2>3, <3>3, <4>1, GetLinks DEF Move!Maps
    <3>9. LegacyOf("payment") = t_nyukin
      BY DEF LegacyOf
    <3> HIDE DEF of
    <3> QED BY <2>3, <3>1, <3>2, <3>3, <3>6, <3>7, <3>8, <3>9 DEF RowLinked
  <2> HIDE DEF of
  <2>4. ASSUME NEW k \in 1 .. 14, steps = Rest(k), Move!Existing("payment", l.cd)' # {}
        PROVE  Came(k, l)'
    <3>1. k = 11
      BY <1>2, <2>4
    <3> QED BY <2>4, <3>1 DEF Came
  <2> QED BY <1>1, <2>1, <2>2, <2>3, <2>4, NoRows, NoInvoice, EnsureLinks
<1> QED BY <1>3, <1>4

\* A family member refers to the customer and to the relation by name.
LEMMA FamilyLinks ==
    ASSUME MoveInv, MoveInv', LinkInv, Move!MigrationAssumption, NEW l \in todo,
           Move!stepFamilyContact(l)
    PROVE  LinkInv'
<1>1. Move!Running("familyContact") /\ l \in t_family
  BY DEF Move!stepFamilyContact, Move!Running, MoveInv, TodoHolds
<1>2. ASSUME NEW k \in 1 .. 14, steps = Rest(k) PROVE k = 7
  BY <1>1, <1>2, StepAt
<1> DEFINE plot1 == UNION {Move!Get("contractPlot", d.grave_cd) :
                            d \in {x \in Move!Live(t_danka) : x.cd = l.danka_cd}}
           gone == IF l.danka_cd \in Move!Terminated THEN Move!Existing("customer", l.danka_cd) ELSE {}
           of == Move!Relation(l.zokugara) \cup
                   (IF plot1 # {} THEN plot1 \cup Move!Get("customer", l.danka_cd) ELSE gone)
<1>3. CASE ~(l.named /\ (plot1 # {} \/ gone # {}))
  <2>1. /\ Move!Take(l) /\ data' = data /\ owed' = owed /\ idMaps' = idMaps /\ entered
    BY <1>1, <1>3 DEF Move!stepFamilyContact, Move!Pass, Move!Running
  <2>2. ASSUME NEW k \in 1 .. 14, steps = Rest(k), Progress(k) PROVE Came(k, l)
    <3>1. k = 7
      BY <1>2, <2>2
    <3>2. l.danka_cd \in Move!Terminated => gone # {}
      <4>1. l.danka_cd \in Move!Terminated => Expected("customer", l.danka_cd)
        BY DEF Move!Terminated, Move!Live, Expected, Move!Imported
      <4> QED BY <2>2, <3>1, <4>1, ExpectedMapped
    <3> HIDE DEF gone, plot1
    <3> QED BY <1>3, <3>1, <3>2 DEF Came
  <2> QED BY <2>1, <2>2, PassLinks
<1>4. CASE l.named /\ (plot1 # {} \/ gone # {})
  <2>1. /\ Move!Take(l) /\ Move!Ensure("familyContact", l.cd, of, <<>>) /\ idMaps' = idMaps
        /\ plot1 # {} \/ gone # {}
    BY <1>4 DEF Move!stepFamilyContact
  <2>2. Expected("familyContact", l.cd)
    BY DEF Expected
  <2>3. ASSUME ~picked, NEW r, r.id.table = "familyContact", r.id.cd = l.cd, r.of = of
        PROVE  RowLinked(r, Move!Ids)
    <3> DEFINE c == Move!Code("customer", l.danka_cd)
               m == Move!Code("relationshipMaster", l.zokugara)
    <3>1. \A x \in t_family : x.cd = l.cd => x = l
      BY <1>1 DEF Move!MigrationAssumption
    <3>2. Move!Wanted("familyContact", l) = {c, m}
      BY DEF Move!Wanted
    <3>3. /\ c.table = "customer" /\ c.cd = l.danka_cd
          /\ m.table = "relationshipMaster" /\ m.cd = l.zokugara
      BY DEF Move!Code
    <3> HIDE DEF c, m
    <3>4. PICK k \in 1 .. 14 : steps = Rest(k) /\ Progress(k)
      BY <1>1, <2>3 DEF LinkInv, ReferencesHold, WholeHolds, Move!Running
    <3>5. k = 7
      BY <1>2, <3>4
    <3>6. ASSUME NEW key, NEW cd, Move!Existing(key, cd) # {}, Move!Existing(key, cd) \subseteq of,
                 NEW x, x.table = key, x.cd = cd
          PROVE  LinkedTo(r, Move!Ids, x)
      <4>1. Move!Existing(key, cd) \subseteq Move!Ids
            /\ \A id \in Move!Existing(key, cd) : id.table = key /\ id.cd = cd
        BY DEF Move!Existing, Move!Ids
      <4> QED BY <2>3, <3>6, <4>1 DEF LinkedTo
    <3>7. Expected("relationshipMaster", l.zokugara) => LinkedTo(r, Move!Ids, m)
      <4>1. Move!Relation(l.zokugara) = Move!Existing("relationshipMaster", l.zokugara)
        BY DEF Move!Relation
      <4>2. Expected("relationshipMaster", l.zokugara)
              => Move!Existing("relationshipMaster", l.zokugara) # {}
        BY <3>4, <3>5, ExpectedMapped
      <4> QED BY <3>3, <3>6, <4>1, <4>2
    <3>8. Expected("customer", l.danka_cd) => LinkedTo(r, Move!Ids, c)
      <4>1. CASE l.danka_cd \in Move!Terminated
        <5>1. plot1 = {}
          BY <4>1 DEF Move!Terminated, Move!Live, Move!MigrationAssumption
        <5>2. gone = Move!Existing("customer", l.danka_cd) /\ gone # {} /\ gone \subseteq of
          BY <2>1, <4>1, <5>1
        <5> QED BY <3>3, <3>6, <5>2
      <4>2. CASE l.danka_cd \notin Move!Terminated
        <5>1. plot1 # {} /\ Move!Get("customer", l.danka_cd) \subseteq of
          BY <2>1, <4>2
        <5>2. Expected("customer", l.danka_cd) => Move!CustomerTaken(l.danka_cd)
          BY <4>2 DEF Expected, Move!CustomerTaken, Move!Imported, Move!Terminated, Move!Live
        <5>3. Move!CustomerTaken(l.danka_cd) => Move!Get("customer", l.danka_cd) # {}
          BY <3>4, <3>5, ExpectedMapped
        <5> HIDE DEF of, plot1
        <5> QED BY <2>3, <3>3, <5>1, <5>2, <5>3, GetLinks DEF Move!Maps
      <4> QED BY <4>1, <4>2
    <3>9. LegacyOf("familyContact") = t_family
      BY DEF LegacyOf
    <3> HIDE DEF of
    <3> QED BY <2>3, <3>1, <3>2, <3>3, <3>7, <3>8, <3>9 DEF RowLinked
  <2> HIDE DEF of
  <2>4. ASSUME NEW k \in 1 .. 14, steps = Rest(k), Move!Existing("familyContact", l.cd)' # {}
        PROVE  Came(k, l)'
    <3>1. k = 7
      BY <1>2, <2>4
    <3> QED BY <2>4, <3>1 DEF Came
  <2> QED BY <1>1, <2>1, <2>2, <2>3, <2>4, NoRows, NoInvoice, EnsureLinks
<1> QED BY <1>3, <1>4

\* A role of the contractor's, or the applicant's, at a plot is the legacy row's own.
LEMMA OwnRole ==
    ASSUME MoveInv, Move!MigrationAssumption, NEW l \in Move!Live(t_danka),
           NEW plot1 \in Move!Get("contractPlot", l.grave_cd),
           NEW customer \in Move!Get("customer", l.cd), NEW r \in data
    PROVE  /\ r \in Move!Roles("contractor", plot1) /\ customer \in r.of => r.id.cd = l.cd
           /\ r \in Move!Roles("applicant", plot1) /\ l.request # "none" => r.id.cd = l.cd
<1>1. plot1.table = "contractPlot" /\ plot1.cd = l.grave_cd
  BY MappedLive DEF Move!Maps
<1>2. customer.table = "customer" /\ customer.cd = l.cd
  BY MappedLive DEF Move!Maps
<1>3. Rooted(r, Move!Ids)
  BY DEF MoveInv, RowsHold
<1>4. r \in Move!Roles("contractor", plot1) /\ customer \in r.of => r.id.cd = l.cd
  BY <1>1, <1>2, <1>3 DEF Rooted, Move!Roles
<1>5. ASSUME r \in Move!Roles("applicant", plot1), l.request # "none" PROVE r.id.cd = l.cd
  <2>1. r.id.table = "applicant" /\ plot1 \in r.of
    BY <1>5 DEF Move!Roles
  <2>2. PICK k \in Move!Live(t_danka) :
          /\ k.cd = r.id.cd /\ k.request # "none"
          /\ \E p, c : /\ r.of = {p, c} /\ p.cd = k.grave_cd /\ c.table # "contractPlot"
    BY <1>3, <2>1 DEF Rooted
  <2>3. k.grave_cd = l.grave_cd
    BY <1>1, <2>1, <2>2
  <2>4. k = l
    BY <1>5, <2>2, <2>3 DEF Move!MigrationAssumption, Move!Live
  <2> QED BY <2>2, <2>4
<1> QED BY <1>4, <1>5

\* The contractor's role, and the applicant who is to follow: of none of the tables that
\* are referred to.
LEMMA RoleLinks ==
    ASSUME MoveInv, MoveInv', LinkInv, Move!MigrationAssumption, NEW l \in todo,
           Move!stepSaleContractRole(l)
    PROVE  LinkInv'
<1>1. Move!Running("saleContractRole") /\ l \in Move!Live(t_danka)
  BY DEF Move!stepSaleContractRole, Move!Running, MoveInv, TodoHolds
<1>2. ASSUME NEW k \in 1 .. 14, steps = Rest(k) PROVE k = 6
  BY <1>1, <1>2, StepAt
<1>3. CASE ~(Move!Get("customer", l.cd) # {} /\ Move!Get("contractPlot", l.grave_cd) # {})
  <2>1. /\ Move!Take(l) /\ data' = data /\ owed' = owed /\ idMaps' = idMaps /\ entered
    BY <1>1, <1>3 DEF Move!stepSaleContractRole, Move!Pass, Move!Running
  <2>2. ASSUME NEW k \in 1 .. 14, steps = Rest(k), Progress(k) PROVE Came(k, l)
    <3>1. k = 6
      BY <1>2, <2>2
    <3>2. ~BothTaken(l)
      BY <1>3, <2>2, <3>1, ExpectedMapped DEF BothTaken
    <3> QED BY <3>1, <3>2 DEF Came
  <2> QED BY <2>1, <2>2, PassLinks
<1>4. ASSUME NEW customer \in Move!Get("customer", l.cd),
             NEW plot1 \in Move!Get("contractPlot", l.grave_cd),
             Move!Take(l), idMaps' = idMaps,
             data' = IF \E r \in Move!Roles("contractor", plot1) : customer \in r.of THEN data
                     ELSE data \cup {Move!New("contractor", l.cd, {plot1, customer})},
             owed' = Move!applicantOf(l, plot1, customer)
      PROVE  LinkInv'
  <2> DEFINE r == Move!New("contractor", l.cd, {plot1, customer})
  <2>1. /\ data' \subseteq data \cup {r} /\ data \subseteq data'
        /\ r.id.table = "contractor" /\ r.id.cd = l.cd
        /\ r \in data' \/ \E s \in Move!Roles("contractor", plot1) : customer \in s.of
    BY <1>4 DEF Move!New
  <2>2. UNCHANGED <<steps, whole, picked>> /\ entered
    BY <1>1, <1>4 DEF Move!Take, Move!history, Move!Running
  <2> HIDE DEF r
  <2>3. ReferencesHold'
    <3>1. Expected(r.id.table, r.id.cd) /\ RowLinked(r, Move!Ids') /\ OnPlot(r, Move!Ids')
      BY <2>1, Unlinked, NoInvoice DEF Expected
    <3> QED BY <2>1, <2>2, <3>1, LinksMade DEF LinkInv
  <2>4. OwedApart'
    <3>1. \A i \in DOMAIN owed' : owed'[i].id.table \in {"applicant", "applicantCustomer"}
      <4>1. \A x, y : /\ DOMAIN <<x>> = 1 .. 1 /\ <<x>>[1] = x
                      /\ DOMAIN <<x, y>> = 1 .. 2 /\ <<x, y>>[1] = x /\ <<x, y>>[2] = y
        OBVIOUS
      <4>2. \A of : /\ Move!New("applicant", l.cd, of).id.table = "applicant"
                    /\ Move!New("applicantCustomer", l.cd, of).id.table = "applicantCustomer"
        BY DEF Move!New
      <4>3. \/ owed' = <<>>
            \/ \E of : owed' = <<Move!New("applicant", l.cd, of)>>
            \/ \E of, p : owed' = <<Move!New("applicantCustomer", l.cd, p),
                                    Move!New("applicant", l.cd, of)>>
        BY <1>4 DEF Move!applicantOf
      <4>4. CASE owed' = <<>>
        BY <4>4, NoRows
      <4>5. CASE \E of : owed' = <<Move!New("applicant", l.cd, of)>>
        BY <4>1, <4>2, <4>5
      <4>6. CASE \E of, p : owed' = <<Move!New("applicantCustomer", l.cd, p),
                                      Move!New("applicant", l.cd, of)>>
        <5>1. PICK of, p : owed' = <<Move!New("applicantCustomer", l.cd, p),
                                     Move!New("applicant", l.cd, of)>>
          BY <4>6
        <5>2. /\ DOMAIN owed' = 1 .. 2
              /\ owed'[1] = Move!New("applicantCustomer", l.cd, p)
              /\ owed'[2] = Move!New("applicant", l.cd, of)
          BY <4>1, <5>1
        <5> QED BY <4>2, <5>2
      <4> QED BY <4>3, <4>4, <4>5, <4>6
    <3> QED BY <3>1 DEF OwedApart, Owed, Following
  <2>5. Move!Existing("contractor", l.cd)' # {}
    <3>1. \E s \in data' : s.id.table = "contractor" /\ s.id.cd = l.cd
      <4>1. CASE \E s \in Move!Roles("contractor", plot1) : customer \in s.of
        BY <1>1, <2>1, <4>1, OwnRole DEF Move!Roles
      <4>2. CASE ~\E s \in Move!Roles("contractor", plot1) : customer \in s.of
        BY <2>1, <4>2
      <4> QED BY <4>1, <4>2
    <3> QED BY <3>1 DEF Move!Existing
  <2>6. l.request # "none" => Coming("applicant", l.cd)'
    <3>1. CASE \E s \in Move!Roles("applicant", plot1) : TRUE
      <4>1. l.request # "none" => \E s \in data : s.id.table = "applicant" /\ s.id.cd = l.cd
        BY <1>1, <3>1, OwnRole DEF Move!Roles
      <4> QED BY <2>1, <4>1 DEF Coming, Move!Existing
    <3>2. CASE l.request # "none" /\ ~\E s \in Move!Roles("applicant", plot1) : TRUE
      <4>1. l.request \in {"same", "other"}
        BY <1>1, <3>2 DEF Move!MigrationAssumption, Move!Live
      <4>2. \/ \E of : owed' = <<Move!New("applicant", l.cd, of)>>
            \/ \E of, p : owed' = <<p, Move!New("applicant", l.cd, of)>>
        <5>1. CASE l.request = "same"
          BY <1>4, <3>2, <5>1 DEF Move!applicantOf
        <5>2. CASE l.request = "other"
          BY <1>4, <3>2, <5>2 DEF Move!applicantOf
        <5> QED BY <4>1, <5>1, <5>2
      <4>3. \A x, y : /\ DOMAIN <<x>> = 1 .. 1 /\ <<x>>[1] = x
                      /\ DOMAIN <<x, y>> = 1 .. 2 /\ <<x, y>>[2] = y
        OBVIOUS
      <4>4. \E of : \E i \in DOMAIN owed' : owed'[i] = Move!New("applicant", l.cd, of)
        <5>1. CASE \E of : owed' = <<Move!New("applicant", l.cd, of)>>
          BY <4>3, <5>1
        <5>2. CASE \E of, p : owed' = <<p, Move!New("applicant", l.cd, of)>>
          BY <4>3, <5>2
        <5> QED BY <4>2, <5>1, <5>2
      <4>5. \A of : /\ Move!New("applicant", l.cd, of).id.table = "applicant"
                    /\ Move!New("applicant", l.cd, of).id.cd = l.cd
        BY DEF Move!New
      <4> QED BY <4>4, <4>5 DEF Coming, Owed
    <3> QED BY <3>1, <3>2
  <2>7. WholeHolds'
    <3>1. Lasting
      BY <1>1, <1>4, <2>1, LastingSame DEF Move!Running
    <3>2. ASSUME NEW k \in 1 .. 14, steps = Rest(k) PROVE Came(k, l)'
      <4>1. k = 6
        BY <1>2, <3>2
      <4> QED BY <2>5, <2>6, <4>1 DEF Came
    <3> QED BY <1>4, <2>2, <3>1, <3>2, WholeTakes DEF LinkInv
  <2> QED BY <2>3, <2>4, <2>7 DEF LinkInv
<1> QED BY <1>3, <1>4 DEF Move!stepSaleContractRole

\* A plot's payment state is no row.
LEMMA StatusLinks ==
    ASSUME LinkInv, NEW plot1, Move!stepPaymentStatus(plot1) PROVE LinkInv'
<1>1. /\ Move!Running("paymentStatus") /\ Move!Take(plot1)
      /\ data' = data /\ owed' = owed /\ idMaps' = idMaps
  BY DEF Move!stepPaymentStatus
<1>2. ASSUME NEW k \in 1 .. 14, steps = Rest(k) PROVE Came(k, plot1)
  <2>1. k = 12
    BY <1>1, <1>2, StepAt
  <2> QED BY <2>1 DEF Came
<1>3. entered
  BY <1>1 DEF Move!Running
<1> QED BY <1>1, <1>2, <1>3, PassLinks

\* The first row that is owed is made; the others stay owed.
LEMMA OwedLasts == ASSUME MoveInv, Move!createNext PROVE Lasting
<1>1. /\ owed # <<>> /\ data' = data \cup {Head(owed)} /\ owed' = Tail(owed)
      /\ idMaps' = idMaps
  BY DEF Move!createNext
<1>2. owed \in Seq(Owed)
  BY DEF MoveInv, OwedHolds
<1>3. ASSUME NEW i \in DOMAIN owed PROVE owed[i] \in data' \cup Owed'
  <2>1. CASE i = 1
    BY <1>1, <1>2, <2>1, HeadTailProperties
  <2>2. CASE i # 1
    <3>1. Len(owed) \in Nat /\ DOMAIN owed = 1 .. Len(owed)
      BY <1>2, LenProperties
    <3>2. /\ Tail(owed) \in Seq(Owed) /\ Len(Tail(owed)) = Len(owed) - 1
          /\ \A j \in 1 .. Len(Tail(owed)) : Tail(owed)[j] = owed[j + 1]
      BY <1>1, <1>2, HeadTailProperties
    <3>3. DOMAIN Tail(owed) = 1 .. Len(owed) - 1
      BY <3>2, LenProperties
    <3>4. i - 1 \in DOMAIN owed' /\ owed'[i - 1] = owed[i]
      BY <1>1, <2>2, <3>1, <3>2, <3>3
    <3> QED BY <3>4 DEF Owed
  <2> QED BY <2>1, <2>2
<1> QED BY <1>1, <1>3 DEF Lasting, Owed, Move!Get

\* What follows another row; a plot that is marked; nothing.
LEMMA OwedLinks ==
    ASSUME MoveInv, LinkInv, Move!createNext PROVE LinkInv'
<1>1. /\ owed # <<>> /\ data' = data \cup {Head(owed)} /\ owed' = Tail(owed)
      /\ UNCHANGED <<idMaps, steps, entered, todo, whole, picked>>
  BY DEF Move!createNext, Move!history
<1>2. owed \in Seq(Owed)
  BY DEF MoveInv, OwedHolds
<1>3. Head(owed) \in Owed
  BY <1>1, <1>2, HeadTailProperties
<1>4. \A i \in DOMAIN owed' : owed'[i] \in Owed
  <2>1. Tail(owed) \in Seq(Owed)
    BY <1>1, <1>2, HeadTailProperties
  <2> QED BY <1>1, <2>1, ElementOfSeq, LenProperties
<1>5. OwedApart'
  BY <1>4 DEF LinkInv, OwedApart, Owed
<1>6. ReferencesHold'
  <2> DEFINE r == Head(owed)
  <2>1. r.id.table \in Following
    BY <1>3 DEF LinkInv, OwedApart
  <2>2. data' = data \cup {r}
    BY <1>1
  <2> HIDE DEF r
  <2>3. Expected(r.id.table, r.id.cd) /\ RowLinked(r, Move!Ids') /\ OnPlot(r, Move!Ids')
    <3>1. r.id.table \notin {"relationshipMaster", "staff", "customer", "contractPlot", "billing",
                             "payment", "familyContact"}
      BY <2>1 DEF Following, Move!PartTables
    <3> QED BY <3>1, Unlinked, NoInvoice DEF Expected
  <2> QED BY <1>1, <2>2, <2>3, LinksMade DEF LinkInv
<1>7. WholeHolds'
  <2>1. Lasting
    BY OwedLasts
  <2>2. ASSUME NEW k \in 1 .. 14, Progress(k) PROVE Progress(k)'
    BY <1>1, <2>1, <2>2, CameStays DEF Progress
  <2> QED BY <1>1, <2>2 DEF LinkInv, WholeHolds
<1> QED BY <1>5, <1>6, <1>7 DEF LinkInv

LEMMA LinksStay ==
    ASSUME LinkInv, UNCHANGED <<data, idMaps, steps, entered, todo, owed, whole, picked>>
    PROVE  LinkInv'
<1>1. ReferencesHold' /\ OwedApart'
  BY DEF LinkInv, ReferencesHold, OwedApart, Owed, Move!Ids
<1>2. Lasting
  BY LastingSame
<1>3. ASSUME NEW k \in 1 .. 14, Progress(k) PROVE Progress(k)'
  BY <1>2, <1>3, CameStays DEF Progress
<1> QED BY <1>1, <1>3 DEF LinkInv, WholeHolds

\* A run that ends, in whatever way.
LEMMA StopLinks ==
    ASSUME LinkInv, data' = data, Move!Stop, picked' = picked PROVE LinkInv'
<1>1. steps' = <<>> /\ owed' = <<>>
  BY DEF Move!Stop
<1>2. DOMAIN owed' = {}
  BY <1>1
<1> QED BY <1>1, <1>2 DEF LinkInv, ReferencesHold, OwedApart, Owed, WholeHolds, Move!Ids

\* A run of all the steps starts with the first one.
LEMMA MainLinks ==
    ASSUME MoveInv, LinkInv, NEW only, Move!main(only) PROVE LinkInv'
<1>1. /\ steps = <<>> /\ entered' = entered /\ owed' = owed
      /\ whole' => steps' = Move!ALL_STEPS
      /\ ~picked' => ~picked /\ whole'
      /\ data' = data \/ data' = {r \in data : Move!Survives(r)}
  BY DEF Move!main, Move!truncateNewDb
<1>2. ~entered
  BY <1>1 DEF MoveInv, RunHolds
<1>3. ReferencesHold'
  <2>1. CASE data' = data
    BY <1>1, <2>1 DEF LinkInv, ReferencesHold, Move!Ids
  <2>2. CASE data' = {r \in data : Move!Survives(r)}
    <3>1. \A r \in data' : r.id.table \notin {"customer", "billing", "payment", "familyContact"}
      BY <2>2 DEF Move!Survives
    <3>2. \A r \in data' : RowLinked(r, Move!Ids') /\ OnPlot(r, Move!Ids')
      BY <3>1, Unlinked, NoInvoice
    <3> QED BY <1>1, <2>2, <3>2 DEF LinkInv, ReferencesHold
  <2> QED BY <1>1, <2>1, <2>2
<1>4. OwedApart'
  BY <1>1 DEF LinkInv, OwedApart, Owed
<1>5. WholeHolds'
  <2>1. Progress(1)'
    BY <1>1, <1>2 DEF Progress
  <2> QED BY <1>1, <2>1, AllSteps DEF WholeHolds
<1> QED BY <1>3, <1>4, <1>5 DEF LinkInv

\* A step begins with nothing behind it of its own rows, and the maps only grow.
LEMMA BeginLinks ==
    ASSUME MoveInv, LinkInv, Move!MigrationAssumption, Move!beginStep PROVE LinkInv'
<1> DEFINE step == Head(steps)
           maps == [key \in Move!Maps |-> IF key \in Move!Needs(step) THEN Move!rebuildIdMap(key)
                                          ELSE idMaps[key]]
           builders == {l.gyousha_cd : l \in {x \in t_foundlog : x.gyousha_cd # 0}}
           missing == {b \in builders : Move!Existing("contractorMaster", b) = {}}
           new == {Move!New("contractorMaster", cd, {}) : cd \in missing}
<1>1. /\ steps # <<>> /\ ~entered /\ data' = data /\ UNCHANGED <<whole, picked>>
      /\ \/ Move!Stop
         \/ /\ idMaps' = maps /\ entered' = TRUE /\ todo' = Move!Source(step) /\ steps' = steps
            /\ owed' = IF step # "constructionInfo" THEN <<>> ELSE Move!SetToSeq(new)
  BY DEF Move!beginStep, Move!history
<1>2. CASE Move!Stop
  BY <1>1, <1>2, StopLinks
<1>3. CASE /\ idMaps' = maps /\ entered' = TRUE /\ todo' = Move!Source(step) /\ steps' = steps
           /\ owed' = IF step # "constructionInfo" THEN <<>> ELSE Move!SetToSeq(new)
  <2>1. Lasting
    <3>1. \A key \in Move!Maps : idMaps[key] \subseteq maps[key]
      BY DEF Move!rebuildIdMap
    <3>2. owed = <<>>
      BY <1>1 DEF MoveInv, RunHolds
    <3> HIDE DEF maps
    <3> QED BY <1>1, <1>3, <3>1, <3>2, LastingSame
  <2>2. ReferencesHold'
    BY <1>1, <1>3 DEF LinkInv, ReferencesHold, Move!Ids
  <2>3. WholeHolds'
    <3> SUFFICES ASSUME whole PROVE \E k \in 1 .. 14 : steps = Rest(k) /\ Progress(k)'
      BY <1>1, <1>3 DEF WholeHolds
    <3>1. PICK k \in 1 .. 14 : steps = Rest(k) /\ Progress(k)
      BY <1>1 DEF LinkInv, WholeHolds
    <3>2. Head(steps) = Move!ALL_STEPS[k]
      BY <3>1, RestSteps
    <3>3. FormerRows(k) \subseteq todo'
      BY <1>3, <3>2, StepPlaces DEF FormerRows, Move!Source
    <3>4. ASSUME NEW n \in 1 .. 14, NEW l \in FormerRows(n), n < k PROVE Came(n, l)'
      BY <2>1, <3>1, <3>4, CameStays DEF Progress
    <3>5. Progress(k)'
      BY <3>3, <3>4 DEF Progress
    <3> QED BY <3>1, <3>5
  <2>4. OwedApart'
    <3>1. CASE step # "constructionInfo"
      <4>1. owed' = <<>>
        BY <1>3, <3>1
      <4> QED BY <4>1, NoRows DEF OwedApart, Owed
    <3>2. CASE step = "constructionInfo"
      <4>1. owed' = Move!SetToSeq(new)
        BY <1>3, <3>2
      <4>2. \A x \in new : x.id.table = "contractorMaster"
        BY DEF Move!New
      <4>4. IsFiniteSet(new)
        BY BuildersFinite
      <4> HIDE DEF new
      <4>3. \A i \in DOMAIN owed' : owed'[i] \in new
        BY <4>1, <4>4, InSomeOrder
      <4> QED BY <4>2, <4>3 DEF OwedApart, Owed, Following
    <3> QED BY <3>1, <3>2
  <2> QED BY <2>2, <2>3, <2>4 DEF LinkInv
<1> QED BY <1>1, <1>2, <1>3

\* A step that ends has come to all its rows.
LEMMA EndLinks ==
    ASSUME LinkInv, Move!endStep PROVE LinkInv'
<1>1. /\ steps # <<>> /\ entered /\ todo = {} /\ data' = data /\ UNCHANGED <<whole, picked>>
  BY DEF Move!endStep, Move!Running, Move!history
<1>2. CASE Move!Stop
  BY <1>1, <1>2, StopLinks
<1>3. CASE ~Move!Stop
  <2>1. /\ Tail(steps) # <<>> /\ steps' = Tail(steps) /\ entered' = FALSE
        /\ idMaps' = idMaps /\ owed' = owed
    BY <1>3 DEF Move!endStep
  <2>2. ReferencesHold' /\ OwedApart'
    BY <1>1, <2>1 DEF LinkInv, ReferencesHold, OwedApart, Owed, Move!Ids
  <2>3. Lasting
    BY <1>1, <2>1, LastingSame
  <2>4. WholeHolds'
    <3> SUFFICES ASSUME whole PROVE \E k \in 1 .. 14 : steps' = Rest(k) /\ Progress(k)'
      BY <1>1 DEF WholeHolds
    <3>1. PICK k \in 1 .. 14 : steps = Rest(k) /\ Progress(k)
      BY <1>1 DEF LinkInv, WholeHolds
    <3>2. steps' = Rest(k + 1) /\ k + 1 \in 1 .. 14
      BY <2>1, <3>1, RestSteps
    <3>3. ASSUME NEW n \in 1 .. 14, NEW l \in FormerRows(n), n < k + 1 PROVE Came(n, l)'
      BY <1>1, <2>3, <3>1, <3>3, CameStays DEF Progress
    <3>4. Progress(k + 1)'
      BY <2>1, <3>3 DEF Progress
    <3> QED BY <3>2, <3>4
  <2> QED BY <2>2, <2>4 DEF LinkInv
<1> QED BY <1>2, <1>3

LEMMA LinkStep ==
    ASSUME MoveInv, MoveInv', LinkInv, Move!MigrationAssumption, [Move!Next]_(Move!vars)
    PROVE  LinkInv'
<1>1. CASE Move!stepRow
  <2>1. PICK l \in todo :
           \/ Move!stepMasters(l) \/ Move!stepStaff(l) \/ Move!stepPhysicalPlot(l)
           \/ Move!stepCustomer(l) \/ Move!stepContractPlot(l) \/ Move!stepSaleContractRole(l)
           \/ Move!stepFamilyContact(l) \/ Move!stepBuriedPerson(l)
           \/ Move!stepConstructionInfo(l) \/ Move!stepBilling(l) \/ Move!stepPayment(l)
           \/ Move!stepPaymentStatus(l) \/ Move!stepHistory(l)
    BY <1>1 DEF Move!stepRow
  <2> QED BY <2>1, UnlinkedSteps, CustomerLinks, BillingLinks, PaymentLinks, FamilyLinks,
             RoleLinks, StatusLinks
<1>2. CASE Move!markSoldOut
  BY <1>2, LinksStay DEF Move!markSoldOut, Move!history
<1>3. CASE Move!Crash
  BY <1>3, StopLinks DEF Move!Crash
<1>4. CASE UNCHANGED Move!vars
  BY <1>4, LinksStay DEF Move!vars, Move!memory, Move!history
<1> QED BY <1>1, <1>2, <1>3, <1>4, MainLinks, BeginLinks, OwedLinks, EndLinks DEF Move!Next

LEMMA LinkInvariant ==
    ASSUME Move!MigrationAssumption PROVE Move!Spec => [](MoveInv /\ LinkInv)
<1>1. Move!Init => LinkInv
  <2> SUFFICES ASSUME Move!Init PROVE LinkInv
    OBVIOUS
  <2>1. data = {} /\ owed = <<>> /\ steps = <<>>
    BY DEF Move!Init
  <2> QED BY <2>1, NoRows DEF LinkInv, ReferencesHold, OwedApart, Owed, WholeHolds
<1>2. MoveInv /\ MoveInv' /\ LinkInv /\ [Move!Next]_(Move!vars) => LinkInv'
  BY LinkStep
<1> QED BY <1>1, <1>2, MoveInvariant, PTL DEF Move!Spec

\* As long as no step was run alone, a row refers to every row it belonged to, wherever a
\* run stopped: nothing that a step leaves out comes later (migrate-from-legacy.ts).
THEOREM LinksStayComplete ==
    ASSUME Move!MigrationAssumption PROVE Move!Spec => []LinksComplete
<1>1. LinkInv => LinksComplete
  <2> SUFFICES ASSUME LinkInv, ~picked,
                      NEW table, NEW source, source = LegacyOf(table),
                      NEW r \in data, NEW l \in source, r.id.table = table, r.id.cd = l.cd,
                      NEW c \in Move!Wanted(table, l),
                      NEW id \in Move!Ids, id.table = c.table, id.cd = c.cd
               PROVE  \E i \in r.of : i.table = c.table /\ i.cd = c.cd /\ i \in Move!Ids
    <3>1. /\ t_danka = LegacyOf("customer") /\ t_seikyu = LegacyOf("billing")
          /\ t_nyukin = LegacyOf("payment") /\ t_family = LegacyOf("familyContact")
      BY DEF LegacyOf
    <3> QED BY <3>1 DEF LinksComplete, Move!LinksComplete, Move!Linked
  <2>1. Expected(c.table, c.cd)
    BY DEF LinkInv, ReferencesHold, Move!Ids
  <2>2. LinkedTo(r, Move!Ids, c)
    BY <2>1 DEF LinkInv, ReferencesHold, RowLinked
  <2> QED BY <2>2 DEF LinkedTo
<1> QED BY <1>1, LinkInvariant, PTL

-----------------------------------------------------------------------------
(* What a run of all the steps has done when it ends *)

\* Step 6 has copied the names; step 12 has written the states of the plots it has come to.
NamesCopied ==
    \A d \in Move!Live(t_danka) : BothTaken(d) =>
       \E m \in marks : m.what = "kana" /\ m.on.cd = d.grave_cd
Told(plot1) == [on |-> plot1, what |-> Move!DerivedState(plot1)] \in marks
StatesTold == \A plot1 \in Move!Billed : Told(plot1)
MarksHold(k) ==
    /\ k > 6 => NamesCopied
    /\ k = 12 /\ entered => \A plot1 \in Move!Billed : plot1 \in todo \/ Told(plot1)
    /\ k > 12 => StatesTold
WholeMarks == whole /\ steps # <<>> => \A k \in 1 .. 14 : steps = Rest(k) => MarksHold(k)

\* What belongs to a row is there or owed, as long as no run was stopped.
SoldOut(cd) == \E m \in marks : m.what = "sold_out" /\ m.on.cd = cd
PartsHold ==
    /\ \A b \in m_bochi : Move!Existing("contractPlot", b.cd) # {} =>
         /\ \A i \in 1 .. Len(b.parts) : Coming(b.parts[i], b.cd)
         /\ b.status = 1 => SoldOut(b.cd) \/ \E id \in sold : id.cd = b.cd
    /\ \A d \in t_danka : d.job /\ Move!Existing("customer", d.cd) # {} => Coming("workInfo", d.cd)
SoldHolds == sold # {} => entered /\ Head(steps) = "contractPlot"

\* The rows a run of all the steps leaves.
Settled ==
    /\ \A b \in m_bochi : /\ Move!Existing("physicalPlot", b.cd) # {}
                          /\ Move!Contracted(b) => Move!Existing("contractPlot", b.cd) # {}
    /\ \A d \in t_danka : Move!Imported(d) => Move!Existing("customer", d.cd) # {}
    /\ \A d \in Move!Live(t_danka) : BothTaken(d) =>
         /\ Move!Existing("contractor", d.cd) # {}
         /\ d.request # "none" => Move!Existing("applicant", d.cd) # {}
    /\ \A l \in t_family : l.named /\ l.danka_cd \in Move!Terminated =>
         Move!Existing("familyContact", l.cd) # {}
    /\ \A l \in t_maisou : l.named /\ Move!PlotTaken(l.grave_cd) =>
         Move!Existing("buriedPerson", l.cd) # {}
    /\ \A l \in t_seikyu : Bills(l) => Move!Existing("billing", l.cd) # {}
    /\ \A l \in t_nyukin : l.danka_cd \notin Move!Terminated /\ Expected("billing", l.seikyu_cd) =>
         Move!Existing("payment", l.cd) # {}
FinishedHolds ==
    finished => Settled /\ NamesCopied /\ StatesTold /\ (~crashed => Move!PartsTakenOver)

DoneInv == WholeMarks /\ SoldHolds /\ (~crashed => PartsHold) /\ FinishedHolds

LEMMA RestOnce == ASSUME NEW j \in 1 .. 14, NEW k \in 1 .. 14, Rest(j) = Rest(k) PROVE j = k
<1>1. DOMAIN Rest(j) = 1 .. 15 - j /\ DOMAIN Rest(k) = 1 .. 15 - k
  BY DEF Rest
<1>2. 15 - j \in 1 .. 15 - k /\ 15 - k \in 1 .. 15 - j
  BY <1>1
<1> QED BY <1>2

\* The place of a run of all the steps, and what is there at it.
LEMMA ThePlace ==
    ASSUME LinkInv, whole, steps # <<>>
    PROVE  \E k \in 1 .. 14 : /\ steps = Rest(k) /\ Progress(k)
                              /\ \A j \in 1 .. 14 : steps = Rest(j) => j = k
BY RestOnce DEF LinkInv, WholeHolds

\* What is in a map is a row.
LEMMA MappedRows ==
    ASSUME MoveInv, NEW key \in Move!Maps, NEW cd, Move!Get(key, cd) # {}
    PROVE  Move!Existing(key, cd) # {}
<1>1. PICK id \in Move!Get(key, cd) : TRUE
  OBVIOUS
<1>2. id \in Move!Ids /\ id.table = key /\ id.cd = cd
  BY <1>1, MappedLive
<1> QED BY <1>2 DEF Move!Existing, Move!Ids

\* All plots and invoices are there: none comes that is new.
Plenty ==
    /\ \A b \in m_bochi : Move!Contracted(b) => Move!Existing("contractPlot", b.cd) # {}
    /\ \A l \in t_seikyu : Bills(l) => Move!Existing("billing", l.cd) # {}

LEMMA PlentyThen ==
    ASSUME MoveInv, NEW k \in 1 .. 14, k >= 12, Progress(k) PROVE Plenty
<1>1. (\A b \in m_bochi : Came(5, b)) /\ (\A l \in t_seikyu : Came(10, l))
  BY AllCame
<1> QED BY <1>1, MappedRows DEF Came, Plenty, Move!Maps

LEMMA BilledSame ==
    ASSUME MoveInv', LinkInv', data \subseteq data', Plenty
    PROVE  /\ Move!Billed' = Move!Billed
           /\ \A plot1 : Move!DerivedState(plot1)' = Move!DerivedState(plot1)
<1>1. ASSUME NEW r \in data', r.id.table \in {"billing", "contractPlot"} PROVE r \in data
  <2>1. Expected(r.id.table, r.id.cd)
    BY DEF LinkInv, ReferencesHold
  <2>2. Move!Existing(r.id.table, r.id.cd) # {}
    <3>1. CASE r.id.table = "billing"
      BY <2>1, <3>1 DEF Expected, Plenty
    <3>2. CASE r.id.table = "contractPlot"
      BY <2>1, <3>2 DEF Expected, Move!PlotTaken, Plenty
    <3> QED BY <1>1, <3>1, <3>2
  <2>3. PICK s \in data : s.id.table = r.id.table /\ s.id.cd = r.id.cd
    BY <2>2 DEF Move!Existing
  <2>4. Move!NothingTwice'
    BY DEF MoveInv, RowsHold
  <2> QED BY <1>1, <2>3, <2>4 DEF Move!NothingTwice
<1>2. \A plot1 : Move!Counted(plot1)' = Move!Counted(plot1)
  BY <1>1 DEF Move!Counted
<1>3. \A plot1 : Move!DerivedState(plot1)' = Move!DerivedState(plot1)
  BY <1>2 DEF Move!DerivedState
<1>4. \A plot1 : plot1 \in Move!Billed' <=> plot1 \in Move!Billed
  BY <1>1, <1>2 DEF Move!Billed
<1>5. Move!Billed' = Move!Billed
  BY <1>4 DEF Move!Billed
<1> QED BY <1>3, <1>5

\* Marks that stay: all but a plot's state, which is written again.
Remarked ==
    /\ \A m \in marks : m.what \in {"kana", "sold_out"} => m \in marks'
    /\ \A plot1 : Told(plot1) => [on |-> plot1, what |-> Move!DerivedState(plot1)] \in marks'

LEMMA MarksStay ==
    ASSUME MoveInv, MoveInv', LinkInv', NEW k \in 1 .. 14, Progress(k), MarksHold(k),
           data \subseteq data', Remarked, entered' = entered, k = 12 => todo' = todo
    PROVE  MarksHold(k)'
<1>1. k > 6 => NamesCopied'
  BY DEF MarksHold, NamesCopied, Remarked
<1>2. ASSUME k >= 12
      PROVE  /\ Move!Billed' = Move!Billed
             /\ \A plot1 : Told(plot1) => Told(plot1)'
  <2>1. /\ Move!Billed' = Move!Billed
        /\ \A plot1 : Move!DerivedState(plot1)' = Move!DerivedState(plot1)
    BY <1>2, PlentyThen, BilledSame
  <2> QED BY <2>1 DEF Told, Remarked
<1> QED BY <1>1, <1>2 DEF MarksHold, StatesTold

LEMMA FinishedStays ==
    ASSUME MoveInv', LinkInv', FinishedHolds, data \subseteq data', Remarked,
           finished' => finished, crashed => crashed'
    PROVE  FinishedHolds'
<1> SUFFICES ASSUME finished'
             PROVE  Settled' /\ NamesCopied' /\ StatesTold' /\ (~crashed' => Move!PartsTakenOver')
  BY DEF FinishedHolds
<1>1. Settled /\ NamesCopied /\ StatesTold /\ (~crashed => Move!PartsTakenOver)
  BY DEF FinishedHolds
<1>2. \A table, cd : Move!Existing(table, cd) # {} => Move!Existing(table, cd)' # {}
  BY DEF Move!Existing
<1>3. Settled'
  BY <1>1, <1>2 DEF Settled
<1>4. NamesCopied'
  BY <1>1 DEF NamesCopied, Remarked
<1>5. StatesTold'
  <2>1. Plenty
    BY <1>1 DEF Settled, Plenty
  <2>2. /\ Move!Billed' = Move!Billed
        /\ \A plot1 : Move!DerivedState(plot1)' = Move!DerivedState(plot1)
    BY <2>1, BilledSame
  <2> QED BY <1>1, <2>2 DEF StatesTold, Told, Remarked
<1>6. ~crashed' => Move!PartsTakenOver'
  <2>1. \A table, cd : Move!Has(table, cd) => Move!Has(table, cd)'
    BY DEF Move!Has, Move!Ids
  <2> QED BY <1>1, <2>1 DEF Move!PartsTakenOver, Remarked
<1> QED BY <1>3, <1>4, <1>5, <1>6

LEMMA PartsStay ==
    ASSUME PartsHold, data \subseteq data', Owed \subseteq data' \cup Owed', Remarked,
           \A r \in data' : r.id.table \in {"customer", "contractPlot"} => r \in data,
           \A id \in sold : id \in sold' \/ [on |-> id, what |-> "sold_out"] \in marks'
    PROVE  PartsHold'
<1>1. \A table \in {"customer", "contractPlot"} : \A cd :
        Move!Existing(table, cd)' # {} => Move!Existing(table, cd) # {}
  BY DEF Move!Existing
<1>2. \A table, cd : Coming(table, cd) => Coming(table, cd)'
  <2>1. \A table, cd : Move!Existing(table, cd) # {} => Move!Existing(table, cd)' # {}
    BY DEF Move!Existing
  <2>2. \A r \in Owed : r \in Owed' \/ Move!Existing(r.id.table, r.id.cd)' # {}
    BY DEF Move!Existing
  <2> QED BY <2>1, <2>2 DEF Coming
<1>3. \A cd : SoldOut(cd) \/ (\E id \in sold : id.cd = cd) =>
                SoldOut(cd)' \/ (\E id \in sold' : id.cd = cd)
  BY DEF SoldOut, Remarked
<1> QED BY <1>1, <1>2, <1>3 DEF PartsHold

\* The step of a row that writes no state: the marks are as they were.
LEMMA RowDone ==
    ASSUME MoveInv, MoveInv', LinkInv, LinkInv', DoneInv, NEW l, NEW step, Move!Running(step),
           step # "paymentStatus", Move!Take(l), data \subseteq data', marks' = marks,
           ~crashed => PartsHold', sold' # {} => step = "contractPlot"
    PROVE  DoneInv'
<1>1. /\ UNCHANGED <<steps, entered, whole, crashed, finished>> /\ entered /\ steps # <<>>
      /\ Head(steps) = step
  BY DEF Move!Take, Move!history, Move!Running
<1>2. Remarked
  BY DEF Remarked, Told
<1>3. WholeMarks'
  <2> SUFFICES ASSUME whole, NEW k \in 1 .. 14, steps = Rest(k) PROVE MarksHold(k)'
    BY <1>1 DEF WholeMarks
  <2>1. Progress(k) /\ MarksHold(k)
    BY <1>1, ThePlace DEF DoneInv, WholeMarks
  <2>2. k # 12
    BY StepAt
  <2> QED BY <1>1, <1>2, <2>1, <2>2, MarksStay
<1>4. FinishedHolds'
  BY <1>1, <1>2, FinishedStays DEF DoneInv
<1>5. SoldHolds'
  BY <1>1 DEF SoldHolds
<1> QED BY <1>1, <1>3, <1>4, <1>5 DEF DoneInv

\* What is made of a row, and what is to follow it.
RowsOf(parts, cd, of) == [i \in 1 .. Len(parts) |-> Move!New(parts[i], cd, of)]

LEMMA EnsureMakes ==
    ASSUME NEW table, NEW cd, NEW of, NEW parts, Move!Ensure(table, cd, of, parts)
    PROVE  /\ data \subseteq data'
           /\ \A r \in data' : r \in data \/ (r.id.table = table /\ r.id.cd = cd)
           /\ \/ data' = data /\ owed' = owed
              \/ \E p : owed' = RowsOf(parts, cd, p)
<1>1. Move!New(table, cd, of).id.table = table /\ Move!New(table, cd, of).id.cd = cd
  BY DEF Move!New
<1>2. CASE Move!Existing(table, cd) # {}
  <2>1. data' = data /\ owed' = owed
    BY <1>2 DEF Move!Ensure
  <2> QED BY <2>1
<1>3. CASE Move!Existing(table, cd) = {}
  <2>1. /\ data' = data \cup {Move!New(table, cd, of)}
        /\ owed' = RowsOf(parts, cd, {Move!New(table, cd, of).id})
    BY <1>3 DEF Move!Ensure, RowsOf
  <2>2. \E p : owed' = RowsOf(parts, cd, p)
    BY <2>1
  <2>3. data \subseteq data' /\ \A r \in data' : r \in data \/ (r.id.table = table /\ r.id.cd = cd)
    BY <1>1, <2>1
  <2> QED BY <2>2, <2>3
<1> QED BY <1>2, <1>3

\* The steps whose rows have nothing that follows them.
LEMMA PlainDone ==
    ASSUME MoveInv, MoveInv', LinkInv, LinkInv', DoneInv, Move!MigrationAssumption,
           NEW l \in todo,
           \/ Move!stepMasters(l) \/ Move!stepStaff(l) \/ Move!stepPhysicalPlot(l)
           \/ Move!stepSaleContractRole(l) \/ Move!stepFamilyContact(l)
           \/ Move!stepBuriedPerson(l) \/ Move!stepConstructionInfo(l) \/ Move!stepBilling(l)
           \/ Move!stepPayment(l) \/ Move!stepHistory(l)
    PROVE  DoneInv'
<1>1. ASSUME NEW step, Move!Running(step), step \notin {"paymentStatus", "contractPlot"},
             Move!Take(l), marks' = marks, sold' = sold, data \subseteq data',
             \A r \in data' : r \in data \/ r.id.table \notin {"customer", "contractPlot"}
      PROVE  DoneInv'
  <2>1. Owed = {} /\ sold = {}
    BY <1>1, NoneOwed DEF Move!Running, DoneInv, SoldHolds
  <2>2. Remarked
    BY <1>1 DEF Remarked, Told
  <2>3. ~crashed => PartsHold'
    BY <1>1, <2>1, <2>2, PartsStay DEF DoneInv
  <2> QED BY <1>1, <2>1, <2>3, RowDone
<1>2. ASSUME Move!Pass(l)
      PROVE  /\ Move!Take(l) /\ marks' = marks /\ sold' = sold /\ data \subseteq data'
             /\ \A r \in data' : r \in data
  BY <1>2 DEF Move!Pass
<1>3. ASSUME NEW table, NEW cd, NEW of, Move!Ensure(table, cd, of, <<>>),
             table \notin {"customer", "contractPlot"}
      PROVE  /\ data \subseteq data'
             /\ \A r \in data' : r \in data \/ r.id.table \notin {"customer", "contractPlot"}
  BY <1>3, EnsureMakes
<1>4. CASE Move!stepMasters(l)
  BY <1>1, <1>3, <1>4 DEF Move!stepMasters
<1>5. CASE Move!stepStaff(l)
  BY <1>1, <1>3, <1>5 DEF Move!stepStaff
<1>6. CASE Move!stepPhysicalPlot(l)
  BY <1>1, <1>3, <1>6 DEF Move!stepPhysicalPlot
<1>7. CASE Move!stepSaleContractRole(l)
  <2>1. Move!Running("saleContractRole")
    BY <1>7 DEF Move!stepSaleContractRole
  <2>2. CASE Move!Pass(l)
    BY <1>1, <1>2, <2>1, <2>2
  <2>3. CASE ~Move!Pass(l)
    <3>1. /\ Move!Take(l) /\ marks' = marks /\ sold' = sold
          /\ \E of : data' = data \/ data' = data \cup {Move!New("contractor", l.cd, of)}
      BY <1>7, <2>3 DEF Move!stepSaleContractRole
    <3>2. \A of : Move!New("contractor", l.cd, of).id.table = "contractor"
      BY DEF Move!New
    <3>3. /\ data \subseteq data'
          /\ \A r \in data' : r \in data \/ r.id.table \notin {"customer", "contractPlot"}
      BY <3>1, <3>2
    <3> QED BY <1>1, <2>1, <3>1, <3>3
  <2> QED BY <2>2, <2>3
<1>8. CASE Move!stepFamilyContact(l)
  <2>1. /\ Move!Running("familyContact")
        /\ \/ Move!Pass(l)
           \/ \E of : /\ Move!Take(l) /\ Move!Ensure("familyContact", l.cd, of, <<>>)
                      /\ marks' = marks /\ sold' = sold
    BY <1>8 DEF Move!stepFamilyContact
  <2> QED BY <1>1, <1>2, <1>3, <2>1
<1>9. CASE Move!stepBuriedPerson(l)
  <2>1. /\ Move!Running("buriedPerson")
        /\ \/ Move!Pass(l)
           \/ \E of : /\ Move!Take(l) /\ Move!Ensure("buriedPerson", l.cd, of, <<>>)
                      /\ marks' = marks /\ sold' = sold
    BY <1>9 DEF Move!stepBuriedPerson
  <2> QED BY <1>1, <1>2, <1>3, <2>1
<1>10. CASE Move!stepConstructionInfo(l)
  <2>1. /\ Move!Running("constructionInfo")
        /\ \/ Move!Pass(l)
           \/ \E of : /\ Move!Take(l) /\ Move!Ensure("constructionInfo", l.cd, of, <<>>)
                      /\ marks' = marks /\ sold' = sold
    BY <1>10 DEF Move!stepConstructionInfo
  <2> QED BY <1>1, <1>2, <1>3, <2>1
<1>11. CASE Move!stepBilling(l)
  <2>1. /\ Move!Running("billing")
        /\ \/ Move!Pass(l)
           \/ \E of : /\ Move!Take(l) /\ Move!Ensure("billing", l.cd, of, <<>>)
                      /\ marks' = marks /\ sold' = sold
    BY <1>11 DEF Move!stepBilling
  <2> QED BY <1>1, <1>2, <1>3, <2>1
<1>12. CASE Move!stepPayment(l)
  <2>1. /\ Move!Running("payment")
        /\ \/ Move!Pass(l)
           \/ \E of : /\ Move!Take(l) /\ Move!Ensure("payment", l.cd, of, <<>>)
                      /\ marks' = marks /\ sold' = sold
    BY <1>12 DEF Move!stepPayment
  <2> QED BY <1>1, <1>2, <1>3, <2>1
<1>13. CASE Move!stepHistory(l)
  <2>1. /\ Move!Running("history")
        /\ \/ Move!Pass(l)
           \/ \E of : /\ Move!Take(l) /\ Move!Ensure(l.table, l.cd, of, <<>>)
                      /\ marks' = marks /\ sold' = sold
    BY <1>13 DEF Move!stepHistory
  <2>2. l.table \in {"t_dankalog", "t_famlog"}
    BY <2>1 DEF MoveInv, TodoHolds, Move!Running, Move!MigrationAssumption
  <2> QED BY <1>1, <1>2, <1>3, <2>1, <2>2
<1> QED BY <1>4, <1>5, <1>6, <1>7, <1>8, <1>9, <1>10, <1>11, <1>12, <1>13

\* A customer's workplace, and what belongs to a plot's contract, is owed with it.
LEMMA OwedComing ==
    ASSUME NEW parts, NEW cd, NEW of,
           owed' = RowsOf(parts, cd, of)
    PROVE  \A i \in 1 .. Len(parts) : Coming(parts[i], cd)'
<1> TAKE i \in 1 .. Len(parts)
<1>1. i \in DOMAIN owed' /\ owed'[i].id.table = parts[i] /\ owed'[i].id.cd = cd
  BY DEF Move!New, RowsOf
<1> QED BY <1>1 DEF Coming, Owed

LEMMA CustomerDone ==
    ASSUME MoveInv, MoveInv', LinkInv, LinkInv', DoneInv, Move!MigrationAssumption,
           NEW l \in todo, Move!stepCustomer(l)
    PROVE  DoneInv'
<1>1. Move!Running("customer") /\ l \in t_danka
  BY DEF Move!stepCustomer, Move!Running, MoveInv, TodoHolds
<1>2. Owed = {} /\ sold = {}
  BY <1>1, NoneOwed DEF Move!Running, DoneInv, SoldHolds
<1> DEFINE parts == IF l.job THEN <<"workInfo">> ELSE <<>>
           of == Move!InCharge(l.tancd)
<1>3. /\ Move!Take(l) /\ marks' = marks /\ sold' = sold
      /\ data' = data \/ Move!Ensure("customer", l.cd, of, parts)
  BY DEF Move!stepCustomer, Move!Pass
<1>4. Remarked
  BY <1>3 DEF Remarked, Told
<1>5. CASE data' = data
  <2>1. ~crashed => PartsHold'
    BY <1>2, <1>3, <1>4, <1>5, PartsStay DEF DoneInv
  <2> QED BY <1>1, <1>2, <1>3, <1>5, <2>1, RowDone
<1>6. CASE data' # data
  <2>1. l.job => 1 \in 1 .. Len(parts) /\ parts[1] = "workInfo"
    OBVIOUS
  <2>0. Move!Ensure("customer", l.cd, of, parts)
    BY <1>3, <1>6
  <2> HIDE DEF of, parts
  <2>2. /\ data \subseteq data'
        /\ \A r \in data' : r \in data \/ (r.id.table = "customer" /\ r.id.cd = l.cd)
        /\ \E p : owed' = RowsOf(parts, l.cd, p)
    BY <2>0, <1>6, EnsureMakes
  <2>3. l.job => Coming("workInfo", l.cd)'
    <3>1. \A i \in 1 .. Len(parts) : Coming(parts[i], l.cd)'
      BY <2>2, OwedComing
    <3> QED BY <2>1, <3>1
  <2>4. ASSUME ~crashed PROVE PartsHold'
    <3>1. PartsHold
      BY <2>4 DEF DoneInv
    <3>2. \A table, cd : Coming(table, cd) => Coming(table, cd)'
      BY <1>2, <2>2 DEF Coming, Move!Existing
    <3>3. \A cd : Move!Existing("contractPlot", cd)' # {} => Move!Existing("contractPlot", cd) # {}
      BY <2>2 DEF Move!Existing
    <3>4. \A cd : SoldOut(cd)' <=> SoldOut(cd)
      BY <1>3 DEF SoldOut
    <3>5. ASSUME NEW d \in t_danka, d # l, Move!Existing("customer", d.cd)' # {}
          PROVE  Move!Existing("customer", d.cd) # {}
      <4>1. d.cd # l.cd
        BY <1>1, <3>5 DEF Move!MigrationAssumption
      <4> QED BY <2>2, <3>5, <4>1 DEF Move!Existing
    <3> QED BY <1>3, <2>3, <3>1, <3>2, <3>3, <3>4, <3>5 DEF PartsHold
  <2> QED BY <1>1, <1>2, <1>3, <2>2, <2>4, RowDone
<1> QED BY <1>5, <1>6

LEMMA ContractDone ==
    ASSUME MoveInv, MoveInv', LinkInv, LinkInv', DoneInv, Move!MigrationAssumption,
           NEW l \in todo, Move!stepContractPlot(l)
    PROVE  DoneInv'
<1>1. Move!Running("contractPlot") /\ l \in m_bochi
  BY DEF Move!stepContractPlot, Move!Running, MoveInv, TodoHolds
<1>2. Owed = {}
  BY <1>1, NoneOwed DEF Move!Running
<1> DEFINE physical == Move!Get("physicalPlot", l.cd)
<1>3. /\ Move!Take(l) /\ marks' = marks /\ sold \subseteq sold'
      /\ \/ data' = data
         \/ /\ Move!Ensure("contractPlot", l.cd, physical, l.parts) /\ physical # {}
            /\ Move!Existing("contractPlot", l.cd) = {} /\ l.status = 1 => physical \subseteq sold'
  BY DEF Move!stepContractPlot, Move!Pass
<1>4. Remarked
  BY <1>3 DEF Remarked, Told
<1>5. CASE data' = data
  <2>1. ~crashed => PartsHold'
    BY <1>2, <1>3, <1>4, <1>5, PartsStay DEF DoneInv
  <2> QED BY <1>1, <1>3, <1>5, <2>1, RowDone
<1>6. CASE data' # data
  <2>0. Move!Existing("contractPlot", l.cd) = {}
    BY <1>3, <1>6 DEF Move!Ensure
  <2>1. l.status = 1 => \E id \in sold' : id.cd = l.cd
    <3>1. \A id \in physical : id.cd = l.cd
      BY DEF Move!Get
    <3> QED BY <1>3, <1>6, <2>0, <3>1
  <2>5. Move!Ensure("contractPlot", l.cd, physical, l.parts)
    BY <1>3, <1>6
  <2> HIDE DEF physical
  <2>2. /\ data \subseteq data'
        /\ \A r \in data' : r \in data \/ (r.id.table = "contractPlot" /\ r.id.cd = l.cd)
        /\ \E p : owed' = RowsOf(l.parts, l.cd, p)
    BY <2>5, <1>6, EnsureMakes
  <2>3. \A i \in 1 .. Len(l.parts) : Coming(l.parts[i], l.cd)'
    BY <2>2, OwedComing
  <2>4. ASSUME ~crashed PROVE PartsHold'
    <3>1. PartsHold
      BY <2>4 DEF DoneInv
    <3>2. \A table, cd : Coming(table, cd) => Coming(table, cd)'
      BY <1>2, <2>2 DEF Coming, Move!Existing
    <3>3. \A cd : Move!Existing("customer", cd)' # {} => Move!Existing("customer", cd) # {}
      BY <2>2 DEF Move!Existing
    <3>4. \A cd : SoldOut(cd) \/ (\E id \in sold : id.cd = cd) =>
                    SoldOut(cd)' \/ (\E id \in sold' : id.cd = cd)
      BY <1>3 DEF SoldOut
    <3>5. ASSUME NEW b \in m_bochi, b # l, Move!Existing("contractPlot", b.cd)' # {}
          PROVE  Move!Existing("contractPlot", b.cd) # {}
      <4>1. b.cd # l.cd
        BY <1>1, <3>5 DEF Move!MigrationAssumption
      <4> QED BY <2>2, <3>5, <4>1 DEF Move!Existing
    <3> QED BY <2>1, <2>3, <3>1, <3>2, <3>3, <3>4, <3>5 DEF PartsHold
  <2> QED BY <1>1, <1>3, <2>2, <2>4, RowDone
<1> QED BY <1>5, <1>6

\* The payment state of a plot is written anew, from the invoices that are there.
LEMMA StatusDone ==
    ASSUME MoveInv, MoveInv', LinkInv, LinkInv', DoneInv, NEW plot1,
           Move!stepPaymentStatus(plot1)
    PROVE  DoneInv'
<1>1. /\ Move!Running("paymentStatus") /\ Move!Take(plot1)
      /\ marks' = {m \in marks : m.on # plot1 \/ m.what \notin {"paid", "owing"}}
                    \cup {[on |-> plot1, what |-> Move!DerivedState(plot1)]}
      /\ data' = data /\ owed' = owed /\ sold' = sold
  BY DEF Move!stepPaymentStatus
<1>2. /\ UNCHANGED <<steps, entered, whole, crashed, finished>> /\ todo' = todo \ {plot1}
      /\ entered /\ steps # <<>> /\ Head(steps) = "paymentStatus"
  BY <1>1 DEF Move!Take, Move!history, Move!Running
<1>3. /\ Move!Billed' = Move!Billed
      /\ \A p : Move!DerivedState(p)' = Move!DerivedState(p)
  BY <1>1 DEF Move!Billed, Move!DerivedState, Move!Counted
<1>4. Told(plot1)' /\ \A p : Told(p) => Told(p)'
  BY <1>1, <1>3 DEF Told
<1>5. Remarked
  <2>1. \A m \in marks : m.what \in {"kana", "sold_out"} => m \in marks'
    BY <1>1
  <2> QED BY <1>3, <1>4, <2>1 DEF Remarked, Told
<1>6. WholeMarks'
  <2> SUFFICES ASSUME whole, NEW k \in 1 .. 14, steps = Rest(k) PROVE MarksHold(k)'
    BY <1>2 DEF WholeMarks
  <2>1. k = 12
    BY <1>1, StepAt
  <2>2. MarksHold(k)
    BY <1>2 DEF DoneInv, WholeMarks
  <2>3. NamesCopied'
    BY <1>5, <2>1, <2>2 DEF MarksHold, NamesCopied, Remarked
  <2>4. \A p \in Move!Billed' : p \in todo' \/ Told(p)'
    BY <1>2, <1>3, <1>4, <2>1, <2>2 DEF MarksHold
  <2> QED BY <2>1, <2>3, <2>4 DEF MarksHold
<1>7. FinishedHolds'
  BY <1>1, <1>2, <1>5, FinishedStays DEF DoneInv
<1>8. SoldHolds'
  BY <1>1, <1>2 DEF DoneInv, SoldHolds
<1>9. ~crashed => PartsHold'
  <2>1. Owed' = Owed
    BY <1>1 DEF Owed
  <2> QED BY <1>1, <1>5, <2>1, PartsStay DEF DoneInv
<1> QED BY <1>2, <1>6, <1>7, <1>8, <1>9 DEF DoneInv

\* Nothing of a step is left behind: the rows that are owed, the plots that are sold.
LEMMA RestDone ==
    ASSUME MoveInv, MoveInv', LinkInv, LinkInv', DoneInv, data \subseteq data', Remarked,
           UNCHANGED <<steps, entered, todo, whole, crashed, finished>>,
           ~crashed => PartsHold', sold' \subseteq sold
    PROVE  DoneInv'
<1>1. WholeMarks'
  <2> SUFFICES ASSUME whole, steps # <<>>, NEW k \in 1 .. 14, steps = Rest(k)
               PROVE  MarksHold(k)'
    BY DEF WholeMarks
  <2>1. Progress(k) /\ MarksHold(k)
    BY ThePlace DEF DoneInv, WholeMarks
  <2> QED BY <2>1, MarksStay
<1>2. FinishedHolds'
  BY FinishedStays DEF DoneInv
<1>3. SoldHolds'
  BY DEF DoneInv, SoldHolds
<1> QED BY <1>1, <1>2, <1>3 DEF DoneInv

LEMMA OwedDone ==
    ASSUME MoveInv, MoveInv', LinkInv, LinkInv', DoneInv, Move!createNext
    PROVE  DoneInv'
<1>1. /\ owed # <<>> /\ data' = data \cup {Head(owed)}
      /\ UNCHANGED <<marks, sold, steps, entered, todo, whole, crashed, finished>>
  BY DEF Move!createNext, Move!history
<1>2. Head(owed) \in Owed
  BY <1>1, HeadTailProperties DEF MoveInv, OwedHolds
<1>3. Head(owed).id.table \notin {"customer", "contractPlot"}
  BY <1>2 DEF LinkInv, OwedApart, Following, Move!PartTables
<1>4. Remarked
  BY <1>1 DEF Remarked, Told
<1>5. ~crashed => PartsHold'
  <2>1. data \subseteq data' /\ Owed \subseteq data' \cup Owed'
    BY OwedLasts DEF Lasting
  <2> QED BY <1>1, <1>3, <1>4, <2>1, PartsStay DEF DoneInv
<1> QED BY <1>1, <1>4, <1>5, RestDone

LEMMA SoldDone ==
    ASSUME MoveInv, MoveInv', LinkInv, LinkInv', DoneInv, Move!markSoldOut
    PROVE  DoneInv'
<1>1. /\ \E id \in sold : /\ marks' = marks \cup {[on |-> id, what |-> "sold_out"]}
                          /\ sold' = sold \ {id}
      /\ UNCHANGED <<data, owed, steps, entered, todo, whole, crashed, finished>>
  BY DEF Move!markSoldOut, Move!history
<1>2. Remarked
  BY <1>1 DEF Remarked, Told
<1>3. ~crashed => PartsHold'
  <2>1. Owed' = Owed
    BY <1>1 DEF Owed
  <2>2. \A id \in sold : id \in sold' \/ [on |-> id, what |-> "sold_out"] \in marks'
    BY <1>1
  <2> QED BY <1>1, <1>2, <2>1, <2>2, PartsStay DEF DoneInv
<1> QED BY <1>1, <1>2, <1>3, RestDone

\* A run that ends without having come to its last step.
LEMMA StopDone ==
    ASSUME MoveInv', LinkInv', DoneInv, data' = data, marks' = marks, Move!Stop,
           finished' = finished, crashed' \/ (crashed' = crashed /\ Owed = {} /\ sold = {})
    PROVE  DoneInv'
<1>1. steps' = <<>> /\ sold' = {} /\ owed' = <<>>
  BY DEF Move!Stop
<1>2. Remarked
  BY DEF Remarked, Told
<1>3. ~crashed' => PartsHold'
  BY <1>1, <1>2, PartsStay DEF DoneInv
<1>4. FinishedHolds'
  BY <1>2, FinishedStays DEF DoneInv
<1> QED BY <1>1, <1>3, <1>4 DEF DoneInv, WholeMarks, SoldHolds

\* A run starts; after a truncation nothing is there that anything belongs to.
LEMMA MainDone ==
    ASSUME MoveInv, MoveInv', LinkInv, LinkInv', DoneInv, NEW only, Move!main(only)
    PROVE  DoneInv'
<1>1. /\ steps = <<>> /\ UNCHANGED <<entered, owed, sold, crashed>>
      /\ whole' => steps' = Move!ALL_STEPS
      /\ \/ UNCHANGED <<data, marks, finished>>
         \/ data' = {r \in data : Move!Survives(r)} /\ finished' = FALSE
  BY DEF Move!main, Move!truncateNewDb
<1>2. ~entered /\ sold = {} /\ Owed = {}
  BY <1>1, NoneOwed DEF MoveInv, RunHolds, DoneInv, SoldHolds
<1>3. WholeMarks'
  <2> SUFFICES ASSUME whole', NEW k \in 1 .. 14, steps' = Rest(k) PROVE MarksHold(k)'
    BY DEF WholeMarks
  <2>1. k = 1
    BY <1>1, AllSteps, RestOnce
  <2> QED BY <2>1 DEF MarksHold
<1>4. SoldHolds'
  BY <1>1, <1>2 DEF SoldHolds
<1>5. CASE UNCHANGED <<data, marks, finished>>
  <2>1. Remarked
    BY <1>5 DEF Remarked, Told
  <2>2. ~crashed => PartsHold'
    BY <1>2, <1>5, <2>1, PartsStay DEF DoneInv
  <2>3. FinishedHolds'
    BY <1>1, <1>5, <2>1, FinishedStays DEF DoneInv
  <2> QED BY <1>1, <1>3, <1>4, <2>2, <2>3 DEF DoneInv
<1>6. CASE data' = {r \in data : Move!Survives(r)} /\ finished' = FALSE
  <2>1. \A r \in data' : r.id.table \notin {"customer", "contractPlot"}
    BY <1>6 DEF Move!Survives
  <2>2. PartsHold'
    BY <2>1 DEF PartsHold, Move!Existing
  <2> QED BY <1>3, <1>4, <1>6, <2>2 DEF DoneInv, FinishedHolds
<1> QED BY <1>1, <1>5, <1>6

\* Step 12 reads the plots that have invoices; the other steps begin without a word.
LEMMA BeginDone ==
    ASSUME MoveInv, MoveInv', LinkInv, LinkInv', DoneInv, Move!beginStep
    PROVE  DoneInv'
<1>1. /\ steps # <<>> /\ ~entered /\ UNCHANGED <<data, marks, whole, crashed, finished>>
      /\ \/ Move!Stop
         \/ /\ entered' = TRUE /\ todo' = Move!Source(Head(steps))
            /\ UNCHANGED <<steps, sold>>
  BY DEF Move!beginStep, Move!history
<1>2. Owed = {} /\ sold = {}
  BY <1>1, NoneOwed DEF MoveInv, RunHolds, DoneInv, SoldHolds
<1>3. CASE Move!Stop
  BY <1>1, <1>2, <1>3, StopDone
<1>4. CASE /\ entered' = TRUE /\ todo' = Move!Source(Head(steps))
           /\ UNCHANGED <<steps, sold>>
  <2>1. Remarked
    BY <1>1 DEF Remarked, Told
  <2>2. ~crashed => PartsHold'
    BY <1>1, <1>2, <2>1, PartsStay DEF DoneInv
  <2>3. FinishedHolds'
    BY <1>1, <2>1, FinishedStays DEF DoneInv
  <2>4. ASSUME whole, NEW k \in 1 .. 14, steps = Rest(k) PROVE MarksHold(k)'
    <3>1. MarksHold(k)
      BY <1>1, <2>4 DEF DoneInv, WholeMarks
    <3>2. NamesCopied => NamesCopied'
      BY <1>1 DEF NamesCopied
    <3>5. StatesTold => StatesTold'
      BY <1>1 DEF StatesTold, Told, Move!Billed, Move!DerivedState, Move!Counted
    <3>3. k = 12 => todo' = Move!Billed
      <4>1. k = 12 => Head(steps) = "paymentStatus"
        <5>1. Head(steps) = Move!ALL_STEPS[k]
          BY <2>4, RestSteps
        <5> QED BY <5>1, StepPlaces
      <4> QED BY <1>4, <4>1 DEF Move!Source
    <3>4. Move!Billed' = Move!Billed
      BY <1>1 DEF Move!Billed, Move!Counted
    <3> QED BY <3>1, <3>2, <3>3, <3>4, <3>5 DEF MarksHold
  <2>5. WholeMarks'
    BY <1>1, <1>4, <2>4 DEF WholeMarks
  <2> QED BY <1>1, <1>2, <1>4, <2>2, <2>3, <2>5 DEF DoneInv, SoldHolds
<1> QED BY <1>1, <1>3, <1>4

\* When step 6 ends the contractors' names are copied to their plots.
LEMMA EndNames ==
    ASSUME MoveInv, LinkInv, Move!MigrationAssumption, Move!endStep,
           Head(steps) = "saleContractRole", \A d \in Move!Live(t_danka) : Came(6, d)
    PROVE  NamesCopied'
<1>1. marks' = marks \cup {[on |-> id, what |-> "kana"] :
                 id \in {i \in UNION {r.of : r \in {x \in data : x.id.table = "contractor"}} :
                           i.table = "contractPlot"}}
  BY DEF Move!endStep
<1> SUFFICES ASSUME NEW d \in Move!Live(t_danka), BothTaken(d)
             PROVE  \E m \in marks' : m.what = "kana" /\ m.on.cd = d.grave_cd
  BY DEF NamesCopied, BothTaken, Move!CustomerTaken, Move!PlotTaken
<1>2. PICK r \in data : r.id.table = "contractor" /\ r.id.cd = d.cd
  BY DEF Came, Move!Existing
<1>3. PICK l \in Move!Live(t_danka), p \in r.of :
         l.cd = r.id.cd /\ p.table = "contractPlot" /\ p.cd = l.grave_cd
  BY <1>2 DEF MoveInv, RowsHold, Rooted
<1>4. l = d
  BY <1>2, <1>3 DEF Move!MigrationAssumption, Move!Live
<1>5. [on |-> p, what |-> "kana"] \in marks'
  BY <1>1, <1>2, <1>3
<1> QED BY <1>3, <1>4, <1>5

\* When the last step has ended everything is there.
LEMMA AllSettled ==
    ASSUME MoveInv, Progress(14), Owed = {} PROVE Settled
<1>1. \A table, cd : Coming(table, cd) => Move!Existing(table, cd) # {}
  BY DEF Coming
<1>2. /\ \A l \in m_bochi : Came(3, l)
      /\ \A l \in t_danka : Came(4, l)
      /\ \A l \in m_bochi : Came(5, l)
      /\ \A l \in Move!Live(t_danka) : Came(6, l)
      /\ \A l \in t_family : Came(7, l)
      /\ \A l \in t_maisou : Came(8, l)
      /\ \A l \in t_seikyu : Came(10, l)
      /\ \A l \in t_nyukin : Came(11, l)
  BY AllCame
<1>3. \A b \in m_bochi : /\ Move!Existing("physicalPlot", b.cd) # {}
                         /\ Move!Contracted(b) => Move!Existing("contractPlot", b.cd) # {}
  BY <1>2, MappedRows DEF Came, Move!Maps
<1>4. \A d \in t_danka : Move!Imported(d) => Move!Existing("customer", d.cd) # {}
  BY <1>2 DEF Came
<1>5. \A d \in Move!Live(t_danka) : BothTaken(d) =>
        /\ Move!Existing("contractor", d.cd) # {}
        /\ d.request # "none" => Move!Existing("applicant", d.cd) # {}
  BY <1>1, <1>2 DEF Came
<1>6. \A l \in t_family : l.named /\ l.danka_cd \in Move!Terminated =>
        Move!Existing("familyContact", l.cd) # {}
  BY <1>2 DEF Came
<1>7. \A l \in t_maisou : l.named /\ Move!PlotTaken(l.grave_cd) =>
        Move!Existing("buriedPerson", l.cd) # {}
  BY <1>2 DEF Came
<1>8. \A l \in t_seikyu : Bills(l) => Move!Existing("billing", l.cd) # {}
  BY <1>2, MappedRows DEF Came, Move!Maps
<1>9. \A l \in t_nyukin : l.danka_cd \notin Move!Terminated /\ Expected("billing", l.seikyu_cd) =>
        Move!Existing("payment", l.cd) # {}
  BY <1>2 DEF Came
<1> QED BY <1>3, <1>4, <1>5, <1>6, <1>7, <1>8, <1>9 DEF Settled

LEMMA PartsSettled ==
    ASSUME Settled, PartsHold, Owed = {}, sold = {} PROVE Move!PartsTakenOver
<1>1. \A table, cd : Coming(table, cd) => Move!Has(table, cd)
  BY DEF Coming, Move!Has, Move!Existing, Move!Ids
<1>2. ASSUME NEW b \in m_bochi, Move!Contracted(b)
      PROVE  /\ \A i \in 1 .. Len(b.parts) : Move!Has(b.parts[i], b.cd)
             /\ b.status = 1 => \E m \in marks : m.what = "sold_out" /\ m.on.cd = b.cd
  BY <1>1, <1>2 DEF Settled, PartsHold, SoldOut
<1>3. \A d \in t_danka : Move!Imported(d) /\ d.job => Move!Has("workInfo", d.cd)
  BY <1>1 DEF Settled, PartsHold
<1> QED BY <1>2, <1>3 DEF Move!PartsTakenOver

\* A step ends: what it was to write is written, and after the last one the run is done.
LEMMA EndDone ==
    ASSUME MoveInv, MoveInv', LinkInv, LinkInv', DoneInv, Move!MigrationAssumption, Move!endStep
    PROVE  DoneInv'
<1>1. /\ steps # <<>> /\ entered /\ todo = {} /\ owed = <<>> /\ sold = {}
      /\ UNCHANGED <<data, whole, crashed>> /\ marks \subseteq marks'
      /\ Head(steps) # "saleContractRole" => marks' = marks
      /\ \/ Move!Stop /\ finished' = finished
         \/ Tail(steps) = <<>> /\ Move!Stop /\ finished' = (finished \/ whole)
         \/ /\ Tail(steps) # <<>> /\ steps' = Tail(steps) /\ entered' = FALSE
            /\ UNCHANGED <<owed, sold, finished>>
  BY DEF Move!endStep, Move!Running
<1>2. Owed = {} /\ Owed' = {}
  BY <1>1, NoneOwed, NoRows DEF Owed, Move!Stop
<1>3. Remarked
  BY <1>1 DEF Remarked, Told
<1>4. ~crashed => PartsHold'
  BY <1>1, <1>2, <1>3, PartsStay DEF DoneInv
<1>5. sold' = {}
  BY <1>1 DEF Move!Stop
<1>6. /\ Move!Billed' = Move!Billed
      /\ \A p : Told(p) => Told(p)'
  BY <1>1 DEF Move!Billed, Move!DerivedState, Move!Counted, Told
<1>7. ASSUME whole, NEW k \in 1 .. 14, steps = Rest(k)
      PROVE  /\ k >= 6 => NamesCopied'
             /\ k >= 12 => StatesTold'
  <2>1. Progress(k) /\ MarksHold(k) /\ Move!Running(Move!ALL_STEPS[k])
    <3>1. Head(steps) = Move!ALL_STEPS[k]
      BY <1>7, RestSteps
    <3> QED BY <1>1, <1>7, <3>1, ThePlace DEF DoneInv, WholeMarks, Move!Running
  <2>2. CASE k = 6
    <3>1. \A d \in Move!Live(t_danka) : Came(6, d)
      BY <1>1, <2>1, <2>2 DEF Progress, FormerRows
    <3>2. Head(steps) = "saleContractRole"
      BY <2>1, <2>2, StepNames DEF Move!Running
    <3> QED BY <2>2, <3>1, <3>2, EndNames
  <2>3. CASE k > 6
    <3>1. NamesCopied'
      BY <1>1, <2>1, <2>3 DEF MarksHold, NamesCopied
    <3>2. ASSUME k >= 12 PROVE \A p \in Move!Billed : Told(p)
      BY <1>1, <2>1, <3>2 DEF MarksHold, StatesTold
    <3> QED BY <1>6, <3>1, <3>2 DEF StatesTold
  <2> QED BY <2>2, <2>3
<1>8. CASE Move!Stop /\ ~(Tail(steps) = <<>> /\ whole /\ finished')
  <2>1. finished' => finished
    BY <1>1, <1>8
  <2>2. FinishedHolds'
    BY <1>1, <1>3, <2>1, FinishedStays DEF DoneInv
  <2> QED BY <1>1, <1>4, <1>5, <1>8, <2>2 DEF DoneInv, WholeMarks, SoldHolds, Move!Stop
<1>9. CASE Move!Stop /\ Tail(steps) = <<>> /\ whole
  <2>1. PICK k \in 1 .. 14 : steps = Rest(k) /\ Progress(k)
    BY <1>1, <1>9, ThePlace
  <2>2. k = 14
    BY <1>9, <2>1, RestSteps
  <2>3. Settled
    BY <1>2, <2>1, <2>2, AllSettled
  <2>4. Settled'
    BY <1>1, <2>3 DEF Settled, Move!Existing
  <2>5. NamesCopied' /\ StatesTold'
    BY <1>7, <1>9, <2>1, <2>2
  <2>6. ASSUME ~crashed PROVE Move!PartsTakenOver'
    <3>1. Move!PartsTakenOver
      BY <1>1, <1>2, <2>3, <2>6, PartsSettled DEF DoneInv
    <3> QED BY <1>1, <3>1 DEF Move!PartsTakenOver, Move!Has, Move!Ids
  <2>7. FinishedHolds'
    BY <1>1, <2>4, <2>5, <2>6 DEF FinishedHolds
  <2> QED BY <1>1, <1>4, <1>5, <1>9, <2>7 DEF DoneInv, WholeMarks, SoldHolds, Move!Stop
<1>10. CASE ~Move!Stop
  <2>1. /\ Tail(steps) # <<>> /\ steps' = Tail(steps) /\ entered' = FALSE
        /\ finished' = finished
    BY <1>1, <1>10
  <2>2. FinishedHolds'
    BY <1>1, <1>3, <2>1, FinishedStays DEF DoneInv
  <2>3. WholeMarks'
    <3> SUFFICES ASSUME whole, NEW j \in 1 .. 14, steps' = Rest(j) PROVE MarksHold(j)'
      BY <1>1 DEF WholeMarks
    <3>1. PICK k \in 1 .. 14 : steps = Rest(k)
      BY <1>1, ThePlace
    <3>2. k + 1 \in 1 .. 14 /\ steps' = Rest(k + 1)
      BY <2>1, <3>1, RestSteps
    <3>3. j = k + 1
      BY <3>2, RestOnce
    <3>4. (j > 6 => NamesCopied') /\ (j > 12 => StatesTold')
      BY <1>7, <3>1, <3>3
    <3> QED BY <2>1, <3>4 DEF MarksHold
  <2> QED BY <1>4, <1>1, <1>5, <2>2, <2>3 DEF DoneInv, SoldHolds
<1> QED BY <1>1, <1>8, <1>9, <1>10

LEMMA DoneStep ==
    ASSUME MoveInv, MoveInv', LinkInv, LinkInv', DoneInv, Move!MigrationAssumption,
           [Move!Next]_(Move!vars)
    PROVE  DoneInv'
<1>1. CASE Move!stepRow
  <2>1. PICK l \in todo :
           \/ Move!stepMasters(l) \/ Move!stepStaff(l) \/ Move!stepPhysicalPlot(l)
           \/ Move!stepCustomer(l) \/ Move!stepContractPlot(l) \/ Move!stepSaleContractRole(l)
           \/ Move!stepFamilyContact(l) \/ Move!stepBuriedPerson(l)
           \/ Move!stepConstructionInfo(l) \/ Move!stepBilling(l) \/ Move!stepPayment(l)
           \/ Move!stepPaymentStatus(l) \/ Move!stepHistory(l)
    BY <1>1 DEF Move!stepRow
  <2> QED BY <2>1, PlainDone, CustomerDone, ContractDone, StatusDone
<1>2. CASE Move!Crash
  <2>1. /\ Move!Stop /\ crashed' = TRUE /\ data' = data /\ marks' = marks /\ finished' = finished
    BY <1>2 DEF Move!Crash
  <2> QED BY <2>1, StopDone
<1>3. CASE UNCHANGED Move!vars
  <2>1. UNCHANGED <<data, marks, steps, entered, todo, owed, sold, whole, crashed, finished>>
    BY <1>3 DEF Move!vars, Move!memory, Move!history
  <2>2. Remarked
    BY <2>1 DEF Remarked, Told
  <2>3. Owed' = Owed
    BY <2>1 DEF Owed
  <2>4. ~crashed => PartsHold'
    BY <2>1, <2>2, <2>3, PartsStay DEF DoneInv
  <2> QED BY <2>1, <2>2, <2>4, RestDone
<1> QED BY <1>1, <1>2, <1>3, MainDone, BeginDone, OwedDone, SoldDone, EndDone DEF Move!Next

LEMMA DoneInvariant ==
    ASSUME Move!MigrationAssumption PROVE Move!Spec => [](MoveInv /\ LinkInv /\ DoneInv)
<1>1. Move!Init => DoneInv
  <2> SUFFICES ASSUME Move!Init PROVE DoneInv
    OBVIOUS
  <2>1. data = {} /\ steps = <<>> /\ sold = {} /\ ~finished
    BY DEF Move!Init
  <2>2. PartsHold
    BY <2>1 DEF PartsHold, Move!Existing
  <2> QED BY <2>1, <2>2 DEF DoneInv, WholeMarks, SoldHolds, FinishedHolds
<1>2. /\ MoveInv /\ MoveInv' /\ LinkInv /\ LinkInv' /\ DoneInv /\ [Move!Next]_(Move!vars)
      => DoneInv'
  BY DoneStep
<1> QED BY <1>1, <1>2, LinkInvariant, PTL DEF Move!Spec

\* The state that was written of a plot is that of the invoices of the former system.
LEMMA StateOfPlot ==
    ASSUME MoveInv, LinkInv, StatesTold, NEW l \in t_seikyu, l.terminate_flg # 1,
           Move!Has("billing", l.cd)
    PROVE  \E m \in marks : /\ m.what = (IF \E k \in t_seikyu :
                                             /\ k.grave_cd = l.grave_cd /\ ~k.paid
                                             /\ k.terminate_flg # 1 /\ Move!Has("billing", k.cd)
                                        THEN "owing" ELSE "paid")
                            /\ m.on.table = "contractPlot" /\ m.on.cd = l.grave_cd
<1>1. ASSUME NEW k \in t_seikyu, Move!Has("billing", k.cd)
      PROVE  \E r \in data, id \in Move!Ids :
               /\ r.id.table = "billing" /\ r.id.cd = k.cd
               /\ id \in r.of /\ id.table = "contractPlot" /\ id.cd = k.grave_cd
  <2>1. PICK r \in data : r.id.table = "billing" /\ r.id.cd = k.cd
    BY <1>1 DEF Move!Has, Move!Ids
  <2>2. OnPlot(r, Move!Ids)
    BY DEF LinkInv, ReferencesHold
  <2>3. PICK id \in r.of \cap Move!Ids : id.table = "contractPlot"
    BY <2>1, <2>2 DEF OnPlot
  <2>4. id.cd = k.grave_cd
    BY <2>1, <2>2, <2>3 DEF OnPlot
  <2> QED BY <2>1, <2>3, <2>4
<1>2. PICK r \in data, plot1 \in Move!Ids :
         /\ r.id.table = "billing" /\ r.id.cd = l.cd
         /\ plot1 \in r.of /\ plot1.table = "contractPlot" /\ plot1.cd = l.grave_cd
  BY <1>1
<1>3. l \in Move!Counted(plot1)
  BY <1>2 DEF Move!Counted
<1>4. Told(plot1)
  BY <1>2, <1>3 DEF StatesTold, Move!Billed, Move!Ids
<1>5. ASSUME NEW k \in t_seikyu, k.grave_cd = l.grave_cd, k.terminate_flg # 1,
             Move!Has("billing", k.cd)
      PROVE  k \in Move!Counted(plot1)
  <2>1. PICK s \in data, id \in Move!Ids :
           /\ s.id.table = "billing" /\ s.id.cd = k.cd
           /\ id \in s.of /\ id.table = "contractPlot" /\ id.cd = k.grave_cd
    BY <1>1, <1>5
  <2>2. id = plot1
    BY <1>2, <1>5, <2>1 DEF MoveInv, RowsHold, Move!NothingTwice, Move!Ids
  <2> QED BY <1>5, <2>1, <2>2 DEF Move!Counted
<1>6. ASSUME NEW k \in Move!Counted(plot1)
      PROVE  /\ k \in t_seikyu /\ k.grave_cd = l.grave_cd /\ k.terminate_flg # 1
             /\ Move!Has("billing", k.cd)
  <2>1. k \in t_seikyu /\ k.terminate_flg # 1
    BY <1>6 DEF Move!Counted
  <2>2. PICK s \in data : s.id.table = "billing" /\ s.id.cd = k.cd /\ plot1 \in s.of
    BY <1>6 DEF Move!Counted
  <2>3. plot1.cd = k.grave_cd
    BY <1>2, <2>1, <2>2 DEF LinkInv, ReferencesHold, OnPlot
  <2> QED BY <1>2, <2>1, <2>2, <2>3 DEF Move!Has, Move!Ids
<1> DEFINE owing == \E k \in t_seikyu : /\ k.grave_cd = l.grave_cd /\ ~k.paid
                                        /\ k.terminate_flg # 1 /\ Move!Has("billing", k.cd)
<1>7. owing <=> ~\A k \in Move!Counted(plot1) : k.paid
  BY <1>5, <1>6
<1> HIDE DEF owing
<1>8. Move!DerivedState(plot1) = (IF owing THEN "owing" ELSE "paid")
  BY <1>7 DEF Move!DerivedState
<1>9. [on |-> plot1, what |-> IF owing THEN "owing" ELSE "paid"] \in marks
  BY <1>4, <1>8 DEF Told
<1>10. \E m \in marks : /\ m.what = (IF owing THEN "owing" ELSE "paid")
                        /\ m.on.table = "contractPlot" /\ m.on.cd = l.grave_cd
  BY <1>2, <1>9
<1> QED BY <1>10 DEF owing

\* When a run of all the steps has come to its end, everything of the former system is in
\* the new one, wherever runs before it had stopped, with the names and the payment states
\* of the plots; and what is made after another row, if no run had stopped.
THEOREM EverythingTakenOver ==
    ASSUME Move!MigrationAssumption PROVE Move!Spec => []Finished
<1>1. MoveInv /\ LinkInv /\ DoneInv => Finished
  <2> SUFFICES ASSUME MoveInv, LinkInv, DoneInv, finished
               PROVE  Move!TakenOver /\ (~crashed => Move!PartsTakenOver)
    BY DEF Finished, Move!Finished
  <2>1. Settled /\ NamesCopied /\ StatesTold /\ (~crashed => Move!PartsTakenOver)
    BY DEF DoneInv, FinishedHolds
  <2>2. \A table, cd : Move!Existing(table, cd) # {} => Move!Has(table, cd)
    BY DEF Move!Has, Move!Existing, Move!Ids
  <2>3. \A cd : Move!Has("billing", cd) => Expected("billing", cd)
    BY DEF Move!Has, Move!Ids, LinkInv, ReferencesHold
  <2>4. \A b \in m_bochi : /\ Move!Has("physicalPlot", b.cd)
                           /\ Move!Contracted(b) => Move!Has("contractPlot", b.cd)
    BY <2>1, <2>2 DEF Settled
  <2>5. \A d \in t_danka : Move!Imported(d) => Move!Has("customer", d.cd)
    BY <2>1, <2>2 DEF Settled
  <2>6. \A d \in Move!Live(t_danka) : Move!CustomerTaken(d.cd) /\ Move!PlotTaken(d.grave_cd) =>
          /\ Move!Has("contractor", d.cd)
          /\ d.request # "none" => Move!Has("applicant", d.cd)
          /\ \E m \in marks : m.what = "kana" /\ m.on.cd = d.grave_cd
    BY <2>1, <2>2 DEF Settled, NamesCopied, BothTaken
  <2>7. \A l \in t_maisou : l.named /\ Move!PlotTaken(l.grave_cd) => Move!Has("buriedPerson", l.cd)
    BY <2>1, <2>2 DEF Settled
  <2>8. \A l \in t_seikyu : Bills(l) => Move!Has("billing", l.cd)
    BY <2>1, <2>2 DEF Settled
  <2>9. \A l \in t_nyukin :
          l.danka_cd \notin Move!Terminated /\ Move!Has("billing", l.seikyu_cd) =>
            Move!Has("payment", l.cd)
    BY <2>1, <2>2, <2>3 DEF Settled
  <2>10. \A l \in t_family :
           l.named /\ l.danka_cd \in Move!Terminated => Move!Has("familyContact", l.cd)
    BY <2>1, <2>2 DEF Settled
  <2>11. Move!TakenOver
    BY <2>1, <2>4, <2>5, <2>6, <2>7, <2>8, <2>9, <2>10, StateOfPlot DEF Move!TakenOver, Bills
  <2> QED BY <2>1, <2>11
<1> QED BY <1>1, DoneInvariant, PTL
=============================================================================
