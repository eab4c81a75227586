------------------------------- MODULE Documents -------------------------------
(***************************************************************************)
(* Documents of a plot: rows, the files uploaded for them, and what issuing   *)
(* a PDF writes.  The PDF is drawn when it is asked for, in a browser of      *)
(* PdfPool or without one, and is kept nowhere.                              *)
(*                                                                         *)
(* Handlers have no transaction: an action is the code between two awaits.    *)
(***************************************************************************)
EXTENDS Naturals, Sequences, FiniteSets

CONSTANTS
    Document, Request, Key,
    Null,
    Template,
    Form,      \* templates drawn on the printed permit: one shape of data, no browser
    MAX_CONCURRENT_CHROMIUM

DocumentsAssumption ==
    /\ IsFiniteSet(Request) /\ MAX_CONCURRENT_CHROMIUM \in Nat
    /\ Null \notin Document \cup Key \cup Template

VARIABLES
    doc,
    file,      \* keys under the upload directory
    req,       \* uploads and PDFs under way
    edited,    \* rows whose data the office wrote after they were last issued
    pc, activeChromiumCount, chromiumWaitQueue, woken

pool == <<pc, activeChromiumCount, chromiumWaitQueue, woken>>
vars == <<doc, file, req, edited, pool>>

Pool == INSTANCE PdfPool

NoJob == [pc |-> "none", doc |-> Null, previous |-> Null, key |-> Null,   \* an upload
          template |-> Null, again |-> FALSE]                            \* a PDF
NoDoc == [state |-> "none", template |-> Null, data |-> Null, key |-> Null, issued |-> FALSE]

Init ==
    /\ doc = [d \in Document |-> NoDoc]
    /\ file = {} /\ edited = {}
    /\ req = [r \in Request |-> NoJob]
    /\ Pool!Init

Goes(r, j) == req' = [req EXCEPT ![r] = j]
Ends(r) == Goes(r, NoJob)

Live(d) == doc[d].state = "live"

\* A request that found the row writes it by its id, deleted meanwhile or not.
Found(d) == doc[d].state # "none"

Shape(t) == IF t \in Form THEN "form" ELSE t

\* What parseTemplateData accepts.
Parses(x) ==
    x.template # Null /\ x.data # Null /\ Shape(x.template) = Shape(x.data)

-----------------------------------------------------------------------------
(* Rows *)

\* Template and data are stored as they come, or left out.
createDocument(d, t, data) ==
    /\ doc[d].state = "none"
    /\ doc' = [doc EXCEPT ![d] = [NoDoc EXCEPT !.state = "live", !.template = t, !.data = data]]
    /\ edited' = edited \cup {d}
    /\ UNCHANGED <<file, req, pool>>

updateDocument(d, data) ==
    /\ Found(d)
    /\ doc' = [doc EXCEPT ![d].data = data]
    /\ edited' = edited \cup {d}
    /\ UNCHANGED <<file, req, pool>>

deleteDocument(d) ==
    /\ Live(d)
    /\ doc' = [doc EXCEPT ![d].state = "deleted"]
    /\ UNCHANGED <<file, req, edited, pool>>

-----------------------------------------------------------------------------
(* Files *)

uploadDocumentFile(r, d) ==
    /\ req[r] = NoJob /\ Live(d)
    /\ Goes(r, [NoJob EXCEPT !.pc = "upload", !.doc = d, !.previous = doc[d].key])
    /\ UNCHANGED <<doc, file, edited, pool>>

\* A key is made from a random number: no row, file or upload has it.
buildDocumentFileKey ==
    Key \ (file \cup {doc[d].key : d \in Document} \cup {req[r].previous : r \in Request})

saveDocumentFile(r, k) ==
    /\ req[r].pc = "upload" /\ k \in buildDocumentFileKey
    /\ file' = file \cup {k}
    /\ Goes(r, [req[r] EXCEPT !.pc = "saved", !.key = k])
    /\ UNCHANGED <<doc, edited, pool>>

\* Variant: the key the row has by now is the one to delete.
SupersededNow(r) == {doc[req[r].doc].key} \ {Null}

\* The file the row named when the upload began.
Superseded(r) == {req[r].previous} \ {Null, req[r].key}

NameFile(r) ==
    /\ req[r].pc = "saved"
    /\ doc' = [doc EXCEPT ![req[r].doc].key = req[r].key]
    /\ Goes(r, [req[r] EXCEPT !.pc = "named"])
    /\ UNCHANGED <<file, edited, pool>>

\* Whether the old file can be deleted or not, the upload has succeeded.
deleteDocumentFile(r) ==
    /\ req[r].pc = "named"
    /\ file' \in {file, file \ Superseded(r)}
    /\ Ends(r)
    /\ UNCHANGED <<doc, edited, pool>>

-----------------------------------------------------------------------------
(* PDFs *)

\* The permit forms are filled in at once; any other template needs a browser.
Draws(r, j) ==
    /\ Goes(r, [j EXCEPT !.pc = IF j.template \in Form THEN "drawn" ELSE "browser"])
    /\ IF j.template \in Form THEN UNCHANGED pool ELSE Pool!Arrive(r)

\* For the row d, or for a new one.  What is drawn for print only writes nothing and ends
\* with the drawing.
generatePdf(r, t, d) ==
    /\ req[r] = NoJob
    /\ Draws(r, [NoJob EXCEPT !.template = t, !.doc = d])
    /\ UNCHANGED <<doc, file, edited>>

\* From what the row has stored.
regeneratePdf(r, d) ==
    /\ req[r] = NoJob /\ Live(d) /\ Parses(doc[d])
    /\ Draws(r, [NoJob EXCEPT !.template = doc[d].template, !.doc = d, !.again = TRUE])
    /\ UNCHANGED <<doc, file, edited>>

Drawn(r) ==
    /\ req[r].pc = "browser" /\ Pool!generatePdfFromHtml(r)
    /\ \/ Goes(r, [req[r] EXCEPT !.pc = "drawn"])
       \/ Ends(r)
    /\ UNCHANGED <<doc, file, edited>>

Resume ==
    /\ Pool!Resume
    /\ UNCHANGED <<doc, file, edited, req>>

\* Variant: the row keeps the template it has, and only gets the data.
IssuedData(x, t) == [x EXCEPT !.data = t, !.issued = TRUE]

Issued(x, t) == [x EXCEPT !.template = t, !.data = t, !.issued = TRUE]

SameTemplate(d, t) == Live(d) /\ doc[d].template \in {Null, t}

\* The row is looked up once the PDF is there, and one with another template is refused.
LookUp(r) ==
    /\ req[r].pc = "drawn" /\ ~req[r].again /\ req[r].doc # Null
    /\ IF SameTemplate(req[r].doc, req[r].template)
       THEN Goes(r, [req[r] EXCEPT !.pc = "issue"]) ELSE Ends(r)
    /\ UNCHANGED <<doc, file, edited, pool>>

IssueRow(r) ==
    /\ req[r].pc = "issue"
    /\ doc' = [doc EXCEPT ![req[r].doc] = Issued(@, req[r].template)]
    /\ edited' = edited \ {req[r].doc}
    /\ Ends(r)
    /\ UNCHANGED <<file, pool>>

IssueNew(r, d) ==
    /\ req[r].pc = "drawn" /\ req[r].doc = Null /\ doc[d].state = "none"
    /\ doc' = [doc EXCEPT ![d] = Issued([NoDoc EXCEPT !.state = "live"], req[r].template)]
    /\ Ends(r)
    /\ UNCHANGED <<file, edited, pool>>

\* Only the time of issue is written.
IssueAgain(r) ==
    /\ req[r].pc = "drawn" /\ req[r].again
    /\ doc' = [doc EXCEPT ![req[r].doc].issued = TRUE]
    /\ Ends(r)
    /\ UNCHANGED <<file, edited, pool>>

\* An error ends a request outside the browser with what it has written so far.
Fails(r) ==
    /\ req[r].pc \notin {"none", "browser"}
    /\ Ends(r)
    /\ UNCHANGED <<doc, file, edited, pool>>

\* The server is restarted: the requests and the pool are gone, rows and files stay.
Restart ==
    /\ req' = [r \in Request |-> NoJob]
    /\ pc' = [r \in Request |-> "away"]
    /\ activeChromiumCount' = 0 /\ chromiumWaitQueue' = <<>> /\ woken' = <<>>
    /\ UNCHANGED <<doc, file, edited>>

Rows ==
    \E d \in Document :
      \/ \E t, data \in Template \cup {Null} : createDocument(d, t, data)
      \/ \E data \in Template \cup {Null} : updateDocument(d, data)
      \/ deleteDocument(d)

Uploads(r) ==
    \/ \E d \in Document : uploadDocumentFile(r, d)
    \/ \E k \in Key : saveDocumentFile(r, k)
    \/ NameFile(r)
    \/ deleteDocumentFile(r)

Prints(r) ==
    \/ \E t \in Template, d \in Document \cup {Null} : generatePdf(r, t, d)
    \/ \E d \in Document : regeneratePdf(r, d)
    \/ Drawn(r)
    \/ LookUp(r)
    \/ IssueRow(r)
    \/ \E d \in Document : IssueNew(r, d)
    \/ IssueAgain(r)

Next ==
    \/ Rows
    \/ \E r \in Request : Uploads(r) \/ Prints(r) \/ Fails(r)
    \/ Resume
    \/ Restart

\* The event loop goes on and a browser ends, whatever else the office does.
Fairness ==
    /\ WF_vars(Resume)
    /\ \A r \in Request : WF_vars(Drawn(r))

Spec == Init /\ [][Next]_vars /\ Fairness

-----------------------------------------------------------------------------
(* Properties *)

\* The file a row names is there, however the uploads for the row interleave and wherever
\* they stop.
FilesKept == \A d \in Document : doc[d].key # Null => doc[d].key \in file

\* What the last issue stored in a row can be issued again, whatever other requests did to
\* the row while the PDF was drawn, unless the office wrote other data since.
Regenerable == \A d \in Document : doc[d].issued /\ d \notin edited => Parses(doc[d])

\* Never more browsers than the pool allows, whoever arrives while a slot changes hands.
AtMostTwo == Cardinality(Pool!Running) <= MAX_CONCURRENT_CHROMIUM

\* No request waits for its browser for ever while others come and go.
EveryoneServed ==
    \A r \in Request : pc[r] = "waiting" ~> pc[r] # "waiting"
=============================================================================
