------------------------------ MODULE MCReceipts ------------------------------
(* LedgerRace twice, on tables of their own: requests of every kind, and requests
   of the counter alone.  A behaviour is one of the two. *)
EXTENDS MCRace

CONSTANTS q1, q2, q3

VARIABLES part, counterPayment, counterPaid, counterDue, counterJob

counterVars == <<counterPayment, counterPaid, counterDue, counterJob>>

CounterRequests == {q1, q2, q3}
CounterReceipts == {y1, y2, y3}
CounterAmounts == {1, 2}
CounterKind == {"settle"}

Counters == INSTANCE LedgerRace WITH
    payment <- counterPayment, paid <- counterPaid, due <- counterDue, job <- counterJob,
    Request <- CounterRequests, PaymentId <- CounterReceipts, Amount <- TwoEach,
    Received0 <- NoReceipts, Paying <- CounterAmounts, Kind <- CounterKind

PartInit == part \in {"counter", "mixed"} /\ Init /\ Counters!Init
PartNext ==
    /\ UNCHANGED part
    /\ \/ part = "mixed" /\ Next /\ UNCHANGED counterVars
       \/ part = "counter" /\ Counters!Next /\ UNCHANGED vars
PartSpec == PartInit /\ [][PartNext]_<<part, vars, counterVars>>

\* CounterPromise of LedgerRace, for requests at the counter alone: however their statements
\* interleave, they amount to collecting one after the other.
CountersPromise == Counters!CounterPromise
=============================================================================
