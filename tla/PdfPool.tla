-------------------------------- MODULE PdfPool --------------------------------
(***************************************************************************)
(* The browsers that draw PDFs: at most two at a time, the others wait.       *)
(*                                                                         *)
(* The server has one thread: an action is the code between two awaits.  A    *)
(* promise that is resolved runs its continuation before the next event of    *)
(* the loop; woken holds the requests whose continuation is due.              *)
(***************************************************************************)
EXTENDS Naturals, Sequences, FiniteSets

CONSTANTS
    Request,
    MAX_CONCURRENT_CHROMIUM

VARIABLES
    pc,        \* of a request: away, waiting for a slot, or in its browser
    activeChromiumCount, chromiumWaitQueue,
    woken

vars == <<pc, activeChromiumCount, chromiumWaitQueue, woken>>

Init ==
    /\ pc = [r \in Request |-> "away"]
    /\ activeChromiumCount = 0 /\ chromiumWaitQueue = <<>> /\ woken = <<>>

\* Variant: a request that finds no slot goes ahead.
acquireAnyway(r) ==
    /\ activeChromiumCount' = activeChromiumCount + 1
    /\ pc' = [pc EXCEPT ![r] = "browser"]
    /\ UNCHANGED chromiumWaitQueue

acquireChromiumSlot(r) ==
    IF activeChromiumCount < MAX_CONCURRENT_CHROMIUM
    THEN /\ activeChromiumCount' = activeChromiumCount + 1
         /\ pc' = [pc EXCEPT ![r] = "browser"]
         /\ UNCHANGED chromiumWaitQueue
    ELSE /\ chromiumWaitQueue' = Append(chromiumWaitQueue, r)
         /\ pc' = [pc EXCEPT ![r] = "waiting"]
         /\ UNCHANGED activeChromiumCount

Arrive(r) ==
    /\ woken = <<>> /\ pc[r] = "away"
    /\ acquireChromiumSlot(r)
    /\ UNCHANGED woken

\* The request that was woken counts itself.
Resume ==
    /\ woken # <<>>
    /\ activeChromiumCount' = activeChromiumCount + 1
    /\ pc' = [pc EXCEPT ![Head(woken)] = "browser"]
    /\ woken' = Tail(woken)
    /\ UNCHANGED chromiumWaitQueue

\* Variant: the slot is given back, and who waits for one is not woken.
releaseUnnoticed ==
    /\ activeChromiumCount' = activeChromiumCount - 1
    /\ UNCHANGED <<chromiumWaitQueue, woken>>

releaseChromiumSlot ==
    /\ activeChromiumCount' = activeChromiumCount - 1
    /\ IF chromiumWaitQueue = <<>> THEN UNCHANGED <<chromiumWaitQueue, woken>>
       ELSE /\ woken' = Append(woken, Head(chromiumWaitQueue))
            /\ chromiumWaitQueue' = Tail(chromiumWaitQueue)

\* Drawn, failed or timed out, the browser is closed and its slot given back, also when
\* closing it fails.
generatePdfFromHtml(r) ==
    /\ woken = <<>> /\ pc[r] = "browser"
    /\ pc' = [pc EXCEPT ![r] = "away"]
    /\ releaseChromiumSlot

Next ==
    \/ \E r \in Request : Arrive(r) \/ generatePdfFromHtml(r)
    \/ Resume

\* The event loop goes on, and a browser ends: every step of it has a time limit.
Spec ==
    /\ Init /\ [][Next]_vars
    /\ WF_vars(Resume)
    /\ \A r \in Request : WF_vars(generatePdfFromHtml(r))

-----------------------------------------------------------------------------
(* Properties *)

Running == {r \in Request : pc[r] = "browser"}

\* The browsers that run are never more than two, whoever arrives while a slot changes
\* hands.
AtMostTwo == Cardinality(Running) <= MAX_CONCURRENT_CHROMIUM

\* No request waits for ever while others come and go.
EveryoneServed == \A r \in Request : pc[r] = "waiting" ~> pc[r] = "browser"
=============================================================================
