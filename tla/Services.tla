-------------------------------- MODULE Services --------------------------------
(* Four parts of the system that share no table: the documents with the browsers that
   draw them, the records below a plot, the master tables, and the script that fills
   an empty database.  This module holds them side by side. *)
EXTENDS Documents

\* The records below a plot: what ContractRecords declares.
CONSTANTS Plot, Val, Unsent, Blank, Remove, Registration, Edit, Deleter, MaxRow
VARIABLES plot, rows, told, job

Recs == INSTANCE ContractRecords

\* The history tells what the tables say;
HistoryTells == Recs!HistoryTells
\* nothing stays below a deleted plot;
NothingSurvives == Recs!NothingSurvives
\* and no form reaches a record of another plot.
OnlyOwnRecords == Recs!OnlyOwnRecords

\* The master tables: what Masters declares.
CONSTANTS Type, Searched, Numbered, MasterCode, NumberOf, Record, Table, Column, MaxId
VARIABLES type, master, nextId, ref, form

Names == INSTANCE Masters

\* No maintenance takes the name away from a record that has one.
NothingOrphaned == Names!NothingOrphaned

\* The former system: what LegacyMigration declares.
CONSTANTS sykbnn, matant, m_bochi, t_danka, t_family, t_maisou, t_foundlog,
          t_seikyu, t_nyukin, t_dankalog, t_famlog, Picks, MaxRuns, MaxEra
VARIABLES data, marks, idMaps, steps, entered, todo, owed, sold, era, runs, whole,
          picked, crashed, finished

Move == INSTANCE LegacyMigration

\* A legacy row becomes one row, however often and wherever the script stops;
NothingTwice == Move!NothingTwice
\* customers whose contract had ended get nothing new;
TerminatedStayOut == Move!TerminatedStayOut
\* links are complete while no step is run alone;
LinksComplete == Move!LinksComplete
\* and a full run that ends has taken everything over.
Finished == Move!Finished
=============================================================================
