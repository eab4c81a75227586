--------------------------------- MODULE Burials ---------------------------------
(* CollectiveBurials under a name of its own, beside modules that use some of its names. *)

CONSTANTS Plot, Null, Unsent, Run, ContractDate, Roster, Terms, Noted, RowEdits, Clock
VARIABLES plot, row, timing, today, creation, run

Graves == INSTANCE CollectiveBurials

\* A recount made twice is a recount made once;
SyncSettles == Graves!SyncSettles
\* and neither what is asked about a plot nor a recount moves a date chosen by hand, nor,
\* once the row is billed, the date its invoice rests on.
ChosenDatesStand == Graves!ChosenDatesStand
=============================================================================
