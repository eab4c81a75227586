------------------------------ MODULE FeesProofs ------------------------------
(***************************************************************************)
(* The annual fee and its direct debit.                                     *)
(*                                                                         *)
(* For any plots, years, settings, requests that overlap and invoices entered *)
(* by hand: a job bills no year that was billed when it read, and a           *)
(* generation forgets no plot.  What can go wrong is what came in, or was     *)
(* changed, while the job was open; the invariant says that there is nothing  *)
(* else the job does not know.                                               *)
(*                                                                         *)
(* The bank's answers are applied to the lines' own plots, and no further     *)
(* than their invoices have room, for any plots, invoices, accounts, fees and *)
(* chunks.  The invariant: all plans of one answer give a line the same plot, *)
(* and what a chunk has written still fits.                                   *)
(***************************************************************************)
EXTENDS Fees, DataFacts

-----------------------------------------------------------------------------
(* The yearly fees *)

\* The plot is one that the generation of this year and month is about.
Due(p, j) == p \in Scanned(j.month) /\ plot[p].payer /\ (j.longer \/ ~plot[p].prepaid)

Billed(p, year) == \E b \in Of(p) : b.from = Unknown \/ year \in YearsOf(b)

\* Whatever covers a year of the plot came in after the request had read.
FreeBut(r, p, year) == \A b \in Of(p) : Covers(b, year) => b \in meanwhile[r].came

\* A generation: what it still has to bill was free, the rest of what it is about is
\* billed.  A batch: its years were free.
KnowsWhatItRead(r) ==
    /\ job[r].kind = "generate" =>
         /\ \A p \in job[r].pending : FreeBut(r, p, job[r].year)
         /\ \A p \in Plot \ (job[r].pending \cup meanwhile[r].lost) :
              Due(p, job[r]) => Billed(p, job[r].year)
    /\ job[r].kind = "prepaid" =>
         \A y \in BatchYears(job[r].year, job[r].years) : FreeBut(r, job[r].plot, y)

Bounded == IsFiniteSet(rows) /\ Cardinality(rows) <= MaxRows

IInv == TypeOK /\ Bounded /\ \A r \in Request : KnowsWhatItRead(r)

-----------------------------------------------------------------------------
(* Rows *)

\* The shape of a new row; there is room for its copy.
LEMMA NewRowShape ==
    ASSUME NEW p, NEW from, NEW to, NEW batch
    PROVE  LET b == NewRow(p, from, to, batch)
           IN  b.plot = p /\ b.from = from /\ b.to = to /\ b.batch = batch
BY DEF NewRow

\* Of more numbers than there are rows one is left.
LEMMA NumberLeft ==
    ASSUME Bounded, NEW T, IsFiniteSet(T), Cardinality(T) <= MaxRows
    PROVE  \E i \in 1 .. MaxRows + 1 : i \notin T
<1>1. MaxRows + 1 \in Nat /\ MaxRows \in Nat
  BY AnnualAssumption
<1>2. IsFiniteSet(1 .. MaxRows + 1) /\ Cardinality(1 .. MaxRows + 1) = MaxRows + 1
  BY <1>1, FS_Interval
<1>3. CASE 1 .. MaxRows + 1 \subseteq T
  <2>1. Cardinality(1 .. MaxRows + 1) <= Cardinality(T) /\ Cardinality(T) \in Nat
    BY <1>3, FS_Subset, FS_CardinalityType
  <2> QED BY <1>1, <1>2, <2>1
<1> QED BY <1>3

\* A new row is a row of the table, and was not in it.
LEMMA NewRowFresh ==
    ASSUME Bounded, NEW p \in Plot, NEW from \in Year \cup {Unknown},
           NEW to \in Year \cup {Unknown}, NEW batch \in Nat
    PROVE  NewRow(p, from, to, batch) \in BillingRow \ rows
<1> DEFINE Copy(i) == [copy |-> i, plot |-> p, from |-> from, to |-> to, batch |-> batch]
           I == {i \in 1 .. MaxRows + 1 : Copy(i) \notin rows}
           T == {b.copy : b \in rows}
<1>1. IsFiniteSet(T) /\ Cardinality(T) <= MaxRows
  <2> DEFINE f == [b \in rows |-> b.copy]
  <2>1. f \in Surjection(rows, T)
    BY DEF Surjection
  <2>2. IsFiniteSet(T) /\ Cardinality(T) <= Cardinality(rows)
    BY <2>1, FS_Surjection DEF Bounded
  <2> QED BY <2>2, AnnualAssumption, FS_CardinalityType DEF Bounded
<1>2. PICK i \in 1 .. MaxRows + 1 : i \notin T
  <2> HIDE DEF T
  <2> QED BY <1>1, NumberLeft
<1>3. Copy(i).copy = i
  OBVIOUS
<1>4. i \in I
  BY <1>2, <1>3
<1>5. I \in SUBSET Nat /\ I # {}
  BY <1>4, AnnualAssumption
<1>6. PICK k \in I : \A j \in I : k <= j
  BY <1>5, FirstIndex
<1>7. Min(I) \in I
  BY <1>6 DEF Min
<1> HIDE DEF I
<1>8. Copy(Min(I)) \notin rows /\ Min(I) \in Nat
  BY <1>5, <1>7 DEF I
<1>9. NewRow(p, from, to, batch) = Copy(Min(I))
  BY DEF NewRow, I
<1> QED BY <1>8, <1>9 DEF BillingRow

\* A batch gets a number that no row has, and none is the number of no batch.
LEMMA BatchFresh ==
    ASSUME Bounded
    PROVE  FreeBatch \in Nat \ {0} /\ \A b \in rows : b.batch # FreeBatch
<1> DEFINE T == {b.batch : b \in rows}
           I == (1 .. MaxRows + 1) \ T
<1>1. IsFiniteSet(T) /\ Cardinality(T) <= MaxRows
  <2> DEFINE f == [b \in rows |-> b.batch]
  <2>1. f \in Surjection(rows, T)
    BY DEF Surjection
  <2>2. IsFiniteSet(T) /\ Cardinality(T) <= Cardinality(rows)
    BY <2>1, FS_Surjection DEF Bounded
  <2> QED BY <2>2, AnnualAssumption, FS_CardinalityType DEF Bounded
<1>2. \E i \in 1 .. MaxRows + 1 : i \notin T
  <2> HIDE DEF T
  <2> QED BY <1>1, NumberLeft
<1>3. I \in SUBSET Nat /\ I # {}
  <2> HIDE DEF T
  <2>1. 1 .. MaxRows + 1 \in SUBSET Nat
    BY AnnualAssumption
  <2> QED BY <1>2, <2>1
<1>4. PICK k \in I : \A j \in I : k <= j
  BY <1>3, FirstIndex
<1>5. Min(I) \in I
  BY <1>4 DEF Min
<1>6. FreeBatch = Min(I)
  BY DEF FreeBatch
<1> QED BY <1>5, <1>6

\* Rows that are left, and rows that are added, stay within the bound.
LEMMA RowsAdded ==
    ASSUME Bounded, NEW kept \in SUBSET rows, NEW X, IsFiniteSet(X),
           NEW f, NEW N, f \in Surjection(X, N),
           Cardinality(kept) + Cardinality(X) <= MaxRows
    PROVE  IsFiniteSet(kept \cup N) /\ Cardinality(kept \cup N) <= MaxRows
<1>1. IsFiniteSet(N) /\ Cardinality(N) <= Cardinality(X)
  BY FS_Surjection
<1>2. IsFiniteSet(kept)
  BY FS_Subset DEF Bounded
<1>3. /\ IsFiniteSet(kept \cup N)
      /\ Cardinality(kept \cup N) = Cardinality(kept) + Cardinality(N) - Cardinality(kept \cap N)
  BY <1>1, <1>2, FS_Union
<1>4. /\ Cardinality(kept) \in Nat /\ Cardinality(N) \in Nat /\ Cardinality(X) \in Nat
      /\ Cardinality(kept \cap N) \in Nat
  BY <1>1, <1>2, FS_CardinalityType, FS_Intersection
<1> QED BY <1>1, <1>3, <1>4, AnnualAssumption

\* Fewer rows are fine.
LEMMA RowsLeft ==
    ASSUME Bounded, NEW kept \in SUBSET rows
    PROVE  IsFiniteSet(kept) /\ Cardinality(kept) <= MaxRows /\ Cardinality(kept) \in Nat
<1>1. IsFiniteSet(kept) /\ Cardinality(kept) <= Cardinality(rows)
  BY FS_Subset DEF Bounded
<1>2. Cardinality(kept) \in Nat /\ Cardinality(rows) \in Nat
  BY <1>1, FS_CardinalityType DEF Bounded
<1> QED BY <1>1, <1>2, AnnualAssumption DEF Bounded

\* A year an invoice is for is one that it covers.
LEMMA YearsCovered ==
    ASSUME NEW b \in BillingRow, NEW y \in Int
    PROVE  y \in YearsOf(b) <=> Covers(b, y)
<1>1. b.from \in Nat \cup {Unknown} /\ b.to \in Nat \cup {Unknown}
  BY AnnualAssumption DEF BillingRow
<1>2. CASE b.from = Unknown
  BY <1>2 DEF YearsOf, Covers
<1>3. CASE b.from # Unknown
  <2>1. b.from \in Int /\ LastYear(b) \in Int
    BY <1>1, <1>3 DEF LastYear
  <2>2. y \in YearsOf(b) <=> y = b.from \/ (b.from <= y /\ y <= LastYear(b))
    BY <1>3, <2>1 DEF YearsOf
  <2>3. Covers(b, y) <=> y = b.from \/ (b.from <= y /\ y <= LastYear(b))
    BY <1>3 DEF Covers
  <2> QED BY <2>2, <2>3
<1> QED BY <1>2, <1>3
-----------------------------------------------------------------------------
(* What a step leaves of what the requests know *)

\* The tables stay tables, and the history of each request is written.
Kept ==
    /\ plot' \in [Plot -> PlotRow] /\ job' \in [Request -> Job]
    /\ rows' \in SUBSET BillingRow /\ IsFiniteSet(rows') /\ Cardinality(rows') <= MaxRows
    /\ meanwhile' = [r \in Request |-> Noted(r)]

\* The invariant holds after the step, and no job inserts an invoice for a year that had
\* one when it read.
StepIsSafe == IInv' /\ InsertsFreeYears("generate") /\ InsertsFreeYears("prepaid")

\* The history of a request is of its type.
LEMMA NotedTyped ==
    ASSUME IInv, Kept PROVE TypeOK' /\ Bounded'
<1>1. \A r \in Request : meanwhile[r] \in News /\ meanwhile[r].came \subseteq BillingRow
                         /\ meanwhile[r].lost \subseteq Plot
  BY DEF IInv, TypeOK, News
<1>2. Changed \subseteq Plot
  BY DEF Changed, IInv, TypeOK, BillingRow
<1>3. \A r \in Request : Noted(r) \in News
  <2>1. ASSUME NEW r \in Request PROVE Noted(r) \in News
    <3>1. CASE job'[r] = Idle
      BY <3>1 DEF Noted, NoNews, News
    <3>2. CASE job'[r] # Idle /\ job'[r] # job[r]
      BY <1>1, <3>2 DEF Noted, News
    <3>3. CASE job'[r] # Idle /\ job'[r] = job[r]
      BY <1>1, <1>2, <3>3 DEF Noted, News, Kept
    <3> QED BY <3>1, <3>2, <3>3
  <2> QED BY <2>1
<1>4. meanwhile' \in [Request -> News]
  BY <1>3 DEF Kept
<1> QED BY <1>4 DEF Kept, TypeOK, Bounded

\* A request that does not move still knows what it read: what others do is news.
LEMMA WaitingKnows ==
    ASSUME IInv, Kept, NEW r \in Request, job'[r] = job[r], job[r] # Idle
    PROVE  KnowsWhatItRead(r)'
<1>1. meanwhile'[r] = Noted(r)
  BY DEF Kept
<1>2. KnowsWhatItRead(r)
  BY DEF IInv
<1>3. CASE job[r].kind = "generate"
  <2>1. /\ meanwhile'[r].came = {b \in rows' : b.plot \in job[r].pending
                                               /\ (b \in meanwhile[r].came \/ b \notin rows)}
        /\ meanwhile'[r].lost = meanwhile[r].lost \cup Changed
    BY <1>1, <1>3 DEF Noted, Ahead
  <2>2. \A p \in job[r].pending : FreeBut(r, p, job[r].year)'
    BY <1>2, <1>3, <2>1 DEF KnowsWhatItRead, FreeBut, Of
  <2>3. ASSUME NEW p \in Plot \ (job[r].pending \cup meanwhile'[r].lost), Due(p, job[r])'
        PROVE  Billed(p, job[r].year)'
    <3>1. plot'[p] = plot[p] /\ \A b \in rows : b.plot = p => b \in rows'
      BY <2>1, <2>3 DEF Changed
    <3>2. Due(p, job[r])
      BY <2>3, <3>1 DEF Due, Scanned
    <3>3. Billed(p, job[r].year)
      BY <1>2, <1>3, <2>1, <2>3, <3>2 DEF KnowsWhatItRead
    <3> QED BY <3>1, <3>3 DEF Billed, Of
  <2> QED BY <1>3, <2>2, <2>3 DEF KnowsWhatItRead, Due, Scanned
<1>4. CASE job[r].kind = "prepaid"
  <2>1. meanwhile'[r].came = {b \in rows' : b.plot = job[r].plot
                                            /\ (b \in meanwhile[r].came \/ b \notin rows)}
    BY <1>1, <1>4 DEF Noted, Ahead
  <2> QED BY <1>2, <1>4, <2>1 DEF KnowsWhatItRead, FreeBut, Of
<1>5. CASE job[r].kind \notin {"generate", "prepaid"}
  BY <1>5 DEF KnowsWhatItRead
<1> QED BY <1>3, <1>4, <1>5

\* So only the requests that move, and stay open, are left to look at.
LEMMA OthersKnow ==
    ASSUME IInv, Kept,
           \A r \in Request : job'[r] # Idle /\ job'[r] # job[r] => KnowsWhatItRead(r)'
    PROVE  IInv'
<1>1. ASSUME NEW r \in Request, job'[r] = Idle PROVE KnowsWhatItRead(r)'
  BY <1>1 DEF KnowsWhatItRead, Idle
<1>2. \A r \in Request : KnowsWhatItRead(r)'
  BY <1>1, WaitingKnows
<1> QED BY <1>2, NotedTyped DEF IInv

\* The request that moves keeps what came in for the plots it has yet to bill.
LEMMA MovedKeepsNews ==
    ASSUME IInv, Kept, NEW r \in Request, job'[r] # Idle, job'[r] # job[r]
    PROVE  /\ meanwhile'[r].came = {b \in meanwhile[r].came : b.plot \in Ahead(job'[r])}
           /\ meanwhile'[r].lost = meanwhile[r].lost
BY DEF Kept, Noted, IInv, TypeOK, News

\* Nothing is inserted by a step that adds no row.
LEMMA NothingInserted ==
    ASSUME rows' \subseteq rows
    PROVE  InsertsFreeYears("generate") /\ InsertsFreeYears("prepaid")
BY DEF InsertsFreeYears

\* Nothing is inserted by a job when none moves.
LEMMA NoJobMoves ==
    ASSUME IInv, Kept, UNCHANGED job
    PROVE  StepIsSafe
BY OthersKnow DEF StepIsSafe, InsertsFreeYears

\* One request moves.
LEMMA OneMoves ==
    ASSUME IInv, NEW r \in Request, NEW j \in Job, job' = [job EXCEPT ![r] = j]
    PROVE  /\ job' \in [Request -> Job] /\ job'[r] = j
           /\ \A s \in Request : s # r => job'[s] = job[s]
BY DEF IInv, TypeOK

\* A request is opened, and reads.
LEMMA OpenedSafe ==
    ASSUME IInv, NEW r \in Request, NEW j \in Job, job' = [job EXCEPT ![r] = j],
           UNCHANGED <<plot, rows>>, meanwhile' = [s \in Request |-> Noted(s)],
           KnowsWhatItRead(r)'
    PROVE  StepIsSafe
<1>1. job' \in [Request -> Job] /\ \A s \in Request : s # r => job'[s] = job[s]
  BY OneMoves
<1>2. Kept
  BY <1>1 DEF Kept, IInv, TypeOK, Bounded
<1> QED BY <1>1, <1>2, OthersKnow, NothingInserted DEF StepIsSafe

-----------------------------------------------------------------------------
(* The steps of a request *)

\* A plot whose coverage is not "none" has an invoice of the year, or one without a year.
LEMMA CoverageFound ==
    ASSUME NEW p, NEW year, existingBillingCoverage(Of(p), year) # "none"
    PROVE  \E b \in Of(p) : b.from = Unknown \/ Covers(b, year)
BY DEF existingBillingCoverage

\* The generation has read which plots are free.
LEMMA StartGenerateSafe ==
    ASSUME IInv, NEW r \in Request, NEW year \in Year,
           NEW month \in Month \cup {Unknown}, NEW longer \in BOOLEAN,
           StartGenerate(r, year, month, longer), meanwhile' = [s \in Request |-> Noted(s)]
    PROVE  StepIsSafe
<1> DEFINE free == ToBill(year, month, longer)
           j == [kind |-> "generate", year |-> year, month |-> month, longer |-> longer,
                 pending |-> free]
<1>1. free \in SUBSET Plot
  BY DEF ToBill, Scanned
<1>2. j \in Job
  BY <1>1 DEF Job
<1>3. job' = [job EXCEPT ![r] = j] /\ UNCHANGED <<plot, rows>>
  BY DEF StartGenerate
<1>4. job'[r] = j
  <2> HIDE DEF j
  <2> QED BY <1>2, <1>3, OneMoves
<1>5. /\ j.kind = "generate" /\ j.year = year /\ j.month = month /\ j.longer = longer
      /\ j.pending = free
  OBVIOUS
<1>6. \A p \in free : \A b \in Of(p) : ~Covers(b, year)
  BY DEF ToBill, existingBillingCoverage
<1>7. ASSUME NEW p \in Plot \ free, p \in Scanned(month), plot[p].payer,
             longer \/ ~plot[p].prepaid
      PROVE  Billed(p, year)
  <2>1. existingBillingCoverage(Of(p), year) # "none"
    BY <1>7 DEF ToBill
  <2>2. PICK b \in Of(p) : b.from = Unknown \/ Covers(b, year)
    BY <2>1, CoverageFound
  <2>3. b \in BillingRow /\ year \in Int
    BY AnnualAssumption DEF Of, IInv, TypeOK
  <2> QED BY <2>2, <2>3, YearsCovered DEF Billed
<1> HIDE DEF j, free
<1>8. KnowsWhatItRead(r)'
  <2>1. \A p \in free : FreeBut(r, p, year)'
    BY <1>3, <1>6 DEF FreeBut, Of
  <2>2. \A p \in Plot \ free : Due(p, job[r])' => Billed(p, year)'
    BY <1>3, <1>4, <1>5, <1>7 DEF Due, Billed, Of, Scanned
  <2>3. /\ job'[r].kind = "generate" /\ job'[r].year = year
        /\ job'[r].pending = free
    BY <1>4, <1>5
  <2> QED BY <2>1, <2>2, <2>3 DEF KnowsWhatItRead
<1> QED BY <1>2, <1>3, <1>8, OpenedSafe

\* The batch has read that its years are free.
LEMMA StartPrepaidSafe ==
    ASSUME IInv, NEW r \in Request, NEW p \in Plot, NEW year \in Year,
           NEW years \in 1 .. MaxSpan, StartPrepaid(r, p, year, years),
           meanwhile' = [s \in Request |-> Noted(s)]
    PROVE  StepIsSafe
<1> DEFINE j == [kind |-> "prepaid", plot |-> p, year |-> year, years |-> years]
<1>1. j \in Job
  BY DEF Job
<1>2. job' = [job EXCEPT ![r] = j] /\ UNCHANGED <<plot, rows>>
  BY DEF StartPrepaid
<1>3. j.kind = "prepaid" /\ j.plot = p /\ j.year = year /\ j.years = years
  OBVIOUS
<1> HIDE DEF j
<1>4. job'[r] = j
  BY <1>1, <1>2, OneMoves
<1>5. \A y \in BatchYears(year, years), b \in Of(p) : ~Covers(b, y)
  BY DEF StartPrepaid, findDuplicatedYears, existingBillingCoverage
<1>6. KnowsWhatItRead(r)'
  BY <1>2, <1>3, <1>4, <1>5 DEF KnowsWhatItRead, FreeBut, Of
<1> QED BY <1>1, <1>2, <1>6, OpenedSafe

\* A chunk: each of its plots was free and gets one invoice, the others stay free.
LEMMA SaveChunkSafe ==
    ASSUME IInv, NEW r \in Request, SaveChunk(r), meanwhile' = [s \in Request |-> Noted(s)]
    PROVE  StepIsSafe
<1> DEFINE year == job[r].year
           pending == job[r].pending
           New(p) == NewRow(p, year, year, 0)
<1>1. PICK chunk \in SUBSET pending :
        /\ Cardinality(rows) + Cardinality(chunk) <= MaxRows
        /\ rows' = rows \cup {New(p) : p \in chunk}
        /\ job' = [job EXCEPT ![r].pending = pending \ chunk]
  BY DEF SaveChunk, Chunk, Pending
<1>2. job[r].kind = "generate" /\ UNCHANGED plot /\ TypeOK /\ Bounded
  BY DEF SaveChunk, IInv
<1>3. /\ job[r] \in [kind : {"generate"}, year : Year, month : Month \cup {Unknown},
                     longer : BOOLEAN, pending : SUBSET Plot]
      /\ job \in [Request -> Job]
  BY <1>2 DEF TypeOK, Job, Idle
<1>4. year \in Year /\ pending \in SUBSET Plot /\ year \in Int /\ year # Unknown
  <2>1. year \in Year /\ pending \in SUBSET Plot
    BY <1>3
  <2>2. Year \subseteq Nat /\ Unknown \notin Int
    BY AnnualAssumption
  <2> HIDE DEF year, pending
  <2> QED BY <2>1, <2>2
<1> DEFINE N == {New(p) : p \in chunk}
           j == [job[r] EXCEPT !.pending = pending \ chunk]
<1>5. job' = [job EXCEPT ![r] = j]
  BY <1>1, <1>3
<1>6. /\ j \in Job /\ j.kind = "generate" /\ j.year = year /\ j.month = job[r].month
      /\ j.longer = job[r].longer /\ j.pending = pending \ chunk
  BY <1>3, <1>4 DEF Job
<1>7. /\ job' \in [Request -> Job] /\ job'[r] = j
      /\ \A s \in Request : s # r => job'[s] = job[s]
  <2> HIDE DEF j
  <2> QED BY <1>5, <1>6, OneMoves
<1>8. \A p \in chunk : /\ New(p).plot = p /\ New(p).from = year
                       /\ New(p) \in BillingRow \ rows
  BY <1>2, <1>4, NewRowShape, NewRowFresh
<1>9. IsFiniteSet(rows') /\ Cardinality(rows') <= MaxRows
  <2> DEFINE f == [p \in chunk |-> New(p)]
  <2>1. f \in Surjection(chunk, N)
    BY DEF Surjection
  <2>2. IsFiniteSet(chunk)
    BY <1>4, AnnualAssumption, FS_Subset
  <2> HIDE DEF N, f
  <2>3. IsFiniteSet(rows \cup N) /\ Cardinality(rows \cup N) <= MaxRows
    BY <1>1, <1>2, <2>1, <2>2, RowsAdded
  <2> QED BY <1>1, <2>3 DEF N
<1>10. /\ \A p \in pending : FreeBut(r, p, year)
       /\ \A p \in Plot \ (pending \cup meanwhile[r].lost) : Due(p, job[r]) => Billed(p, year)
  BY <1>2 DEF IInv, KnowsWhatItRead
<1> HIDE DEF j, New
<1>11. Kept
  <2>1. rows' \in SUBSET BillingRow
    BY <1>1, <1>2, <1>8 DEF TypeOK
  <2> QED BY <1>2, <1>7, <1>9, <2>1 DEF TypeOK, Kept
<1>12. ASSUME job'[r] # Idle, job'[r] # job[r] PROVE KnowsWhatItRead(r)'
  <2>1. /\ meanwhile'[r].came = {b \in meanwhile[r].came : b.plot \in pending \ chunk}
        /\ meanwhile'[r].lost = meanwhile[r].lost
    BY <1>6, <1>7, <1>11, <1>12, MovedKeepsNews DEF Ahead
  <2>2. ASSUME NEW p \in pending \ chunk, NEW b \in rows', b.plot = p, Covers(b, year)
        PROVE  b \in meanwhile'[r].came
    <3>1. b \in rows
      BY <1>1, <1>8, <2>2
    <3> QED BY <1>10, <2>1, <2>2, <3>1 DEF FreeBut, Of
  <2>3. ASSUME NEW p \in Plot, p \notin pending \ chunk, p \notin meanwhile[r].lost,
               Due(p, job[r])
        PROVE  \E b \in rows' : b.plot = p /\ (b.from = Unknown \/ year \in YearsOf(b))
    <3>1. CASE p \in chunk
      <4>1. New(p) \in rows' /\ year \in YearsOf(New(p))
        BY <1>1, <1>4, <1>8, <3>1 DEF YearsOf
      <4> QED BY <1>8, <3>1, <4>1
    <3>2. CASE p \notin chunk
      BY <1>1, <1>10, <2>3, <3>2 DEF Billed, Of
    <3> QED BY <3>1, <3>2
  <2>4. \A p \in Plot : Due(p, job[r])' => Due(p, job[r])
    BY <1>2, <1>6, <1>7 DEF Due, Scanned
  <2>5. \A p \in pending \ chunk : FreeBut(r, p, year)'
    BY <2>2, <1>6, <1>7 DEF FreeBut, Of
  <2> QED BY <1>6, <1>7, <2>1, <2>3, <2>4, <2>2 DEF KnowsWhatItRead, FreeBut, Billed, Of
<1>13. InsertsFreeYears("generate")
  <2>1. ASSUME NEW b \in rows' \ rows, NEW a \in rows' \ (meanwhile[r].came \cup {b}),
               a.plot = b.plot, b.from \in YearsOf(a)
        PROVE  FALSE
    <3>1. PICK p \in chunk : b = New(p)
      BY <1>1, <2>1
    <3>2. a.plot = p /\ year \in YearsOf(a)
      BY <1>8, <2>1, <3>1
    <3>3. a \in rows
      BY <1>1, <1>8, <2>1, <3>1, <3>2
    <3>4. Covers(a, year)
      BY <1>2, <1>4, <3>2, <3>3, YearsCovered DEF TypeOK
    <3> QED BY <1>10, <2>1, <3>2, <3>3, <3>4 DEF FreeBut, Of
  <2> QED BY <1>7, <2>1 DEF InsertsFreeYears
<1>14. InsertsFreeYears("prepaid")
  BY <1>2, <1>7 DEF InsertsFreeYears
<1>15. IInv'
  BY <1>7, <1>11, <1>12, OthersKnow
<1> QED BY <1>13, <1>14, <1>15 DEF StepIsSafe

\* A request that ends or fails writes nothing.
LEMMA EndSafe ==
    ASSUME IInv, NEW r \in Request, Respond(r) \/ Fail(r),
           meanwhile' = [s \in Request |-> Noted(s)]
    PROVE  StepIsSafe
<1>1. job' = [job EXCEPT ![r] = Idle] /\ UNCHANGED <<plot, rows>> /\ Idle \in Job
  BY DEF Respond, Fail, Job
<1>2. job'[r] = Idle
  BY <1>1, OneMoves
<1>3. KnowsWhatItRead(r)'
  BY <1>2 DEF KnowsWhatItRead, Idle
<1> QED BY <1>1, <1>3, OpenedSafe

\* A batch has as many years as the request asks for.
LEMMA BatchSize ==
    ASSUME NEW a \in Int, NEW n \in Int, n >= 1
    PROVE  IsFiniteSet(BatchYears(a, n)) /\ Cardinality(BatchYears(a, n)) = n
<1> DEFINE z == a + n - 1
<1>1. z \in Int /\ a <= z /\ z - a + 1 = n
  OBVIOUS
<1> HIDE DEF z
<1>2. IsFiniteSet(a .. z) /\ Cardinality(a .. z) = z - a + 1
  BY <1>1, FS_Interval
<1>3. BatchYears(a, n) = a .. z
  BY DEF BatchYears, z
<1> QED BY <1>1, <1>2, <1>3

\* The rows of a batch are of different years, and each was free.
LEMMA CommitPrepaidSafe ==
    ASSUME IInv, NEW r \in Request, CommitPrepaid(r),
           meanwhile' = [s \in Request |-> Noted(s)]
    PROVE  StepIsSafe
<1> DEFINE p == job[r].plot
           Y == BatchYears(job[r].year, job[r].years)
           New(y) == NewRow(p, y, y, FreeBatch)
           N == {New(y) : y \in Y}
<1>1. /\ job[r].kind = "prepaid" /\ Cardinality(rows) + job[r].years <= MaxRows
      /\ Y \subseteq Year /\ rows' = rows \cup N
      /\ job' = [job EXCEPT ![r] = Idle] /\ UNCHANGED plot
  BY DEF CommitPrepaid
<1>2. TypeOK /\ Bounded
  BY DEF IInv
<1>3. /\ job[r] \in [kind : {"prepaid"}, plot : Plot, year : Year, years : 1 .. MaxSpan]
      /\ job \in [Request -> Job]
  BY <1>1, <1>2 DEF TypeOK, Job, Idle
<1>4. p \in Plot /\ Y \subseteq Int /\ FreeBatch \in Nat
  <2>1. p \in Plot
    BY <1>3
  <2> HIDE DEF p, Y
  <2>2. Y \subseteq Int /\ FreeBatch \in Nat
    BY <1>1, <1>2, AnnualAssumption, BatchFresh
  <2> QED BY <2>1, <2>2
<1>5. \A y \in Y : /\ New(y).plot = p /\ New(y).from = y
                   /\ New(y) \in BillingRow \ rows
  BY <1>1, <1>2, <1>4, NewRowShape, NewRowFresh
<1>6. IsFiniteSet(Y) /\ Cardinality(Y) = job[r].years
  <2>0. job[r].year \in Year /\ job[r].years \in 1 .. MaxSpan
    BY <1>3
  <2>1. job[r].year \in Int /\ job[r].years \in Int /\ job[r].years >= 1
    <3>1. Year \subseteq Int /\ MaxSpan \in Nat
      BY AnnualAssumption
    <3>2. job[r].years \in {n \in Int : n >= 1}
      BY <2>0, <3>1
    <3> QED BY <2>0, <3>1, <3>2
  <2> QED BY <2>1, BatchSize
<1>7. IsFiniteSet(rows') /\ Cardinality(rows') <= MaxRows
  <2> DEFINE f == [y \in Y |-> New(y)]
  <2>1. f \in Surjection(Y, N)
    BY DEF Surjection
  <2> HIDE DEF N, f, Y
  <2>2. IsFiniteSet(rows \cup N) /\ Cardinality(rows \cup N) <= MaxRows
    BY <1>1, <1>2, <1>6, <2>1, RowsAdded
  <2> QED BY <1>1, <2>2
<1>8. \A y \in Y : FreeBut(r, p, y)
  BY <1>1 DEF IInv, KnowsWhatItRead
<1> HIDE DEF New, Y, p
<1>9. /\ job' \in [Request -> Job] /\ job'[r] = Idle
      /\ \A s \in Request : s # r => job'[s] = job[s]
  <2>1. Idle \in Job
    BY DEF Job
  <2> QED BY <1>1, <2>1, OneMoves
<1>10. Kept
  <2>1. rows' \in SUBSET BillingRow
    BY <1>1, <1>2, <1>5 DEF TypeOK
  <2> QED BY <1>1, <1>2, <1>7, <1>9, <2>1 DEF Kept, TypeOK
<1>11. IInv'
  BY <1>9, <1>10, OthersKnow
<1>12. InsertsFreeYears("prepaid")
  <2>1. ASSUME NEW b \in rows' \ rows, NEW a \in rows' \ (meanwhile[r].came \cup {b}),
               a.plot = b.plot, b.from \in YearsOf(a)
        PROVE  FALSE
    <3>1. PICK y \in Y : b = New(y)
      BY <1>1, <2>1
    <3>2. a.plot = p /\ y \in YearsOf(a) /\ y \in Int
      BY <1>4, <1>5, <2>1, <3>1
    <3>3. CASE a \in rows
      <4>1. Covers(a, y)
        BY <1>2, <3>2, <3>3, YearsCovered DEF TypeOK
      <4> QED BY <1>8, <2>1, <3>1, <3>2, <3>3, <4>1 DEF FreeBut, Of
    <3>4. CASE a \notin rows
      <4>1. PICK z \in Y : a = New(z)
        BY <1>1, <2>1, <3>4
      <4>2. a.from = z /\ a.to = z /\ z \in Int /\ z # Unknown
        BY <1>4, <4>1, NewRowShape, AnnualAssumption DEF New
      <4>3. YearsOf(a) = {z} \cup (z .. z)
        BY <4>2 DEF YearsOf, LastYear
      <4>4. y = z
        BY <3>2, <4>2, <4>3
      <4> QED BY <2>1, <3>1, <4>1, <4>4
    <3> QED BY <3>3, <3>4
  <2> QED BY <1>9, <2>1 DEF InsertsFreeYears
<1>13. InsertsFreeYears("generate")
  BY <1>1, <1>9 DEF InsertsFreeYears
<1> QED BY <1>11, <1>12, <1>13 DEF StepIsSafe

-----------------------------------------------------------------------------
(* The handlers of one step *)

\* One row more than those kept.
LEMMA OneAdded ==
    ASSUME Bounded, NEW kept \in SUBSET rows, Cardinality(kept) < MaxRows, NEW b
    PROVE  IsFiniteSet(kept \cup {b}) /\ Cardinality(kept \cup {b}) <= MaxRows
<1>1. IsFiniteSet(kept) /\ Cardinality(kept) \in Nat
  BY RowsLeft
<1>2. /\ IsFiniteSet(kept \cup {b})
      /\ Cardinality(kept \cup {b}) \in {Cardinality(kept), Cardinality(kept) + 1}
  BY <1>1, FS_AddElement
<1> QED BY <1>1, <1>2, AnnualAssumption

\* A row that is put right keeps its plot and its batch.
LEMMA UpdateKeepsTable ==
    ASSUME IInv, NEW b \in rows, NEW span \in HandSpan, UpdateBilling(b, span)
    PROVE  rows' \in SUBSET BillingRow /\ IsFiniteSet(rows') /\ Cardinality(rows') <= MaxRows
<1> DEFINE n == NewRow(b.plot, span[1], span[2], b.batch)
           kept == rows \ {b}
<1>1. rows' = kept \cup {n}
  BY DEF UpdateBilling
<1>2. TypeOK /\ Bounded /\ b \in BillingRow
  BY DEF IInv, TypeOK
<1>3. span[1] \in Year \cup {Unknown} /\ span[2] \in Year \cup {Unknown}
  BY AnnualAssumption
<1>4. n \in BillingRow
  <2>1. b.plot \in Plot /\ b.batch \in Nat
    BY <1>2 DEF BillingRow
  <2> QED BY <1>2, <1>3, <2>1, NewRowFresh
<1>5. kept \in SUBSET rows /\ Cardinality(kept) < MaxRows
  <2>1. Cardinality(kept) = Cardinality(rows) - 1 /\ Cardinality(rows) \in Nat
    BY <1>2, FS_RemoveElement, FS_CardinalityType DEF Bounded
  <2> QED BY <1>2, <2>1, AnnualAssumption DEF Bounded
<1> HIDE DEF n, kept
<1> QED BY <1>1, <1>2, <1>4, <1>5, OneAdded DEF TypeOK

\* What the office does, between two requests or beside them.
LEMMA ByHandSafe ==
    ASSUME IInv, meanwhile' = [s \in Request |-> Noted(s)],
           \/ \E batch \in 1 .. MaxRows : DeletePrepaid(batch)
           \/ \E p \in Plot, span \in HandSpan : CreateBilling(p, span)
           \/ \E b \in rows, span \in HandSpan : UpdateBilling(b, span)
           \/ \E b \in rows : DeleteBilling(b)
           \/ \E p \in Plot : deletePlot(p)
           \/ \E p \in Plot, s \in Setting : updatePlot(p, s)
    PROVE  StepIsSafe
<1>1. TypeOK /\ Bounded
  BY DEF IInv
<1>2. UNCHANGED job
  BY DEF DeletePrepaid, CreateBilling, UpdateBilling, DeleteBilling, deletePlot, updatePlot
<1>3. plot' \in [Plot -> PlotRow]
  <2>1. ASSUME NEW p \in Plot, deletePlot(p) PROVE plot' \in [Plot -> PlotRow]
    BY <1>1, <2>1 DEF TypeOK, deletePlot, PlotRow
  <2>2. ASSUME NEW p \in Plot, NEW s \in Setting, updatePlot(p, s)
        PROVE  plot' \in [Plot -> PlotRow]
    BY <1>1, <2>2, AnnualAssumption DEF TypeOK, updatePlot
  <2> QED BY <1>1, <2>1, <2>2
          DEF TypeOK, DeletePrepaid, CreateBilling, UpdateBilling, DeleteBilling
<1>4. rows' \in SUBSET BillingRow /\ IsFiniteSet(rows') /\ Cardinality(rows') <= MaxRows
  <2>1. CASE rows' \in SUBSET rows
    BY <1>1, <2>1, RowsLeft DEF TypeOK
  <2>2. ASSUME NEW p \in Plot, NEW span \in HandSpan, CreateBilling(p, span)
        PROVE  rows' \in SUBSET BillingRow /\ IsFiniteSet(rows') /\ Cardinality(rows') <= MaxRows
    <3> DEFINE n == NewRow(p, span[1], span[2], 0)
    <3>1. rows' = rows \cup {n} /\ Cardinality(rows) < MaxRows
      BY <2>2 DEF CreateBilling
    <3>2. span[1] \in Year \cup {Unknown} /\ span[2] \in Year \cup {Unknown}
      BY AnnualAssumption
    <3>3. n \in BillingRow
      BY <1>1, <3>2, NewRowFresh
    <3> HIDE DEF n
    <3> QED BY <1>1, <3>1, <3>3, OneAdded DEF TypeOK
  <2>3. ASSUME NEW b \in rows, NEW span \in HandSpan, UpdateBilling(b, span)
        PROVE  rows' \in SUBSET BillingRow /\ IsFiniteSet(rows') /\ Cardinality(rows') <= MaxRows
    BY <2>3, UpdateKeepsTable
  <2> QED BY <2>1, <2>2, <2>3 DEF DeletePrepaid, DeleteBilling, deletePlot, updatePlot
<1>5. Kept
  BY <1>1, <1>2, <1>3, <1>4 DEF Kept, TypeOK
<1> QED BY <1>2, <1>5, NoJobMoves

-----------------------------------------------------------------------------
(* The theorems *)

LEMMA InitHolds == Init => IInv
<1> SUFFICES ASSUME Init PROVE IInv
  OBVIOUS
<1>1. TypeOK
  BY AnnualAssumption DEF Init, TypeOK, Job, News, NoNews
<1>2. Bounded
  BY FS_EmptySet, AnnualAssumption DEF Init, Bounded
<1>3. \A r \in Request : job[r].kind = "idle"
  BY DEF Init, Idle
<1>4. \A r \in Request : KnowsWhatItRead(r)
  BY <1>3 DEF KnowsWhatItRead
<1> QED BY <1>1, <1>2, <1>4 DEF IInv

LEMMA NextHolds ==
    ASSUME IInv, [Next]_vars
    PROVE  StepIsSafe
<1>1. CASE UNCHANGED vars
  <2>1. IInv'
    BY <1>1 DEF vars, IInv, TypeOK, Bounded, KnowsWhatItRead, FreeBut, Billed, Due, Of, Scanned
  <2> QED BY <1>1, <2>1, NothingInserted DEF vars, StepIsSafe
<1>2. CASE Next
  <2> USE <1>2 DEF Next
  <2>1. ASSUME NEW r \in Request, NEW year \in Year, NEW month \in Month \cup {Unknown},
               NEW longer \in BOOLEAN, StartGenerate(r, year, month, longer)
        PROVE  StepIsSafe
    BY <2>1, StartGenerateSafe
  <2>2. ASSUME NEW r \in Request, NEW p \in Plot, NEW year \in Year,
               NEW years \in 1 .. MaxSpan, StartPrepaid(r, p, year, years)
        PROVE  StepIsSafe
    BY <2>2, StartPrepaidSafe
  <2>3. ASSUME NEW r \in Request, SaveChunk(r) \/ Respond(r) \/ CommitPrepaid(r) \/ Fail(r)
        PROVE  StepIsSafe
    BY <2>3, SaveChunkSafe, EndSafe, CommitPrepaidSafe
  <2> QED BY <2>1, <2>2, <2>3, ByHandSafe DEF Handlers
<1> QED BY <1>1, <1>2

LEMMA Invariance == Spec => []IInv
<1>1. IInv /\ [Next]_vars => IInv'
  BY NextHolds DEF StepIsSafe
<1> QED BY <1>1, InitHolds, PTL DEF Spec

\* The settings, the rows, what requests have read and what they cannot know are of their
\* types.
THEOREM TypeCorrect == Spec => []TypeOK
BY Invariance, PTL DEF IInv

\* The generation never bills a plot for a year it was billed for when the generation
\* read, whatever was entered by hand, paid in advance, left by a run that failed or is
\* done by other requests.
THEOREM GenerationBillsOnce == Spec => GenerateBillsOnce
<1>1. IInv /\ [Next]_vars => [InsertsFreeYears("generate")]_vars
  BY NextHolds DEF StepIsSafe
<1> QED BY <1>1, Invariance, PTL DEF Spec, GenerateBillsOnce

\* A prepaid batch never contains a year that was billed when it was checked, nor a year
\* twice.
THEOREM BatchBillsOnce == Spec => PrepaidBillsOnce
<1>1. IInv /\ [Next]_vars => [InsertsFreeYears("prepaid")]_vars
  BY NextHolds DEF StepIsSafe
<1> QED BY <1>1, Invariance, PTL DEF Spec, PrepaidBillsOnce

\* When a generation ends, every plot it is about is billed for its year or has an
\* invoice without a year, however the plots fell into chunks and whatever ran beside it;
\* only plots that were changed or lost an invoice meanwhile are excepted.
THEOREM EveryDuePlotIsBilled == Spec => []NobodyForgotten
<1>1. ASSUME IInv PROVE NobodyForgotten
  <2>1. \A r \in Request : job[r].kind = "generate" =>
          \A p \in Plot \ (job[r].pending \cup meanwhile[r].lost) :
            Due(p, job[r]) => Billed(p, job[r].year)
    BY <1>1 DEF IInv, KnowsWhatItRead
  <2>2. \A r \in Request : Scanned(job[r].month) \subseteq Plot
    BY DEF Scanned
  <2> QED BY <2>1, <2>2 DEF NobodyForgotten, Due, Billed
<1> QED BY <1>1, Invariance, PTL

-----------------------------------------------------------------------------
(* The debit *)

BillRow == [state : {"none", "open", "terminated", "written_off"}, paid : Nat, noted : Nat]
FileRow == [plot : DebitPlot, code : {Null} \cup (Customer \X DebitPlot),
            account : {Account[c] : c \in Customer}, amount : Nat, result : {"0", "1"}]
\* A row for a line, and an invoice of the plot the line has got.
TargetRow ==
    {x \in [line : DebitPlot, plot : DebitPlot, status : {"will_record", "failed"}, bill : Bill] :
       BillPlot[x.bill] = x.plot}
Applying == [pc : {"rows"}, targets : Seq(TargetRow), start : Nat, done : Nat,
             written : Seq(TargetRow)]

DebitTypes ==
    /\ payer \in [DebitPlot -> Customer] /\ active \in [DebitPlot -> BOOLEAN]
    /\ bill \in [Bill -> BillRow] /\ debited \in [Bill -> Nat]
    /\ file \in Seq(FileRow) /\ answered \in BOOLEAN
    /\ run \in [Applier -> Applying \cup {Debit!NoJob}] /\ applies \in Nat
    /\ credited \in [DebitPlot -> Seq(TargetRow)]
    /\ changed \in BOOLEAN /\ overlapped \in BOOLEAN /\ raced \in SUBSET Bill

\* Each plot is on one line, the codes are on all lines or on none, and while payers and
\* contracts stand they still tell the plots apart.
FileHolds ==
    /\ DOMAIN file \subseteq DebitPlot
    /\ \A l, m \in DOMAIN file : file[l].plot = file[m].plot => l = m
    /\ \A l, m \in DOMAIN file : file[l].code = Null => file[m].code = Null
    /\ ~changed => \A l \in DOMAIN file :
         /\ active[file[l].plot]
         /\ file[l].code # Null => file[l].code = Debit!derivePayerCode(file[l].plot)
    /\ answered => file # <<>>
    /\ \A l \in DebitPlot : credited[l] # <<>> => answered

\* A request has a plot at most once among its rows, and has written some of those it has
\* come to.
ApplyingHolds ==
    \A r \in Applier : Debit!Running(r) =>
      /\ answered /\ run[r].done <= Len(run[r].targets)
      /\ \A n \in DOMAIN run[r].targets : run[r].targets[n].line \in DOMAIN file
      /\ \A m, n \in DOMAIN run[r].targets :
           run[r].targets[m].plot = run[r].targets[n].plot => m = n
      /\ \A n \in DOMAIN run[r].written :
           \E k \in 1 .. run[r].done : run[r].written[n] = run[r].targets[k]
      /\ \A m, n \in DOMAIN run[r].written :
           run[r].written[m].plot = run[r].written[n].plot => m = n

OneApplies == ~overlapped =>
    \A q, r \in Applier : Debit!Running(q) /\ Debit!Running(r) => q = r

\* What is written and not committed still fits, with the debits before it in any case, and
\* with all that is paid unless the counter was faster.
Fits(x) ==
    /\ debited[x.bill] + file[x.line].amount <= BillAmount[x.bill]
    /\ x.bill \notin raced => bill[x.bill].paid + file[x.line].amount <= BillAmount[x.bill]

RoomHolds == ~overlapped =>
    /\ Debit!NeverBeyond
    /\ \A b \in Bill : debited[b] <= bill[b].paid
    /\ \A r \in Applier : Debit!Running(r) =>
         \A n \in DOMAIN run[r].written :
           run[r].written[n].status = "will_record" => Fits(run[r].written[n])

\* The plots of the lines are the same in every plan.
Agrees(of) ==
    /\ \A r \in Applier : Debit!Running(r) =>
         \A n \in DOMAIN run[r].targets : run[r].targets[n].plot = of[run[r].targets[n].line]
    /\ \A l \in DebitPlot : \A n \in DOMAIN credited[l] : credited[l][n].plot = of[l]
Unplanned ==
    /\ \A r \in Applier : ~Debit!Running(r)
    /\ \A l \in DebitPlot : credited[l] = <<>>
PlansAgree == ~changed => Unplanned \/ \E of \in Debit!matchCandidates : Agrees(of)

DebitInv ==
    /\ DebitTypes /\ FileHolds /\ ApplyingHolds /\ OneApplies
    /\ RoomHolds /\ PlansAgree

-----------------------------------------------------------------------------
(* The matching of the lines *)

\* The lowest plot of some is one of them.
LEMMA LowestOf ==
    ASSUME NEW S \in SUBSET Nat, S # {} PROVE Debit!Lowest(S) \in S
BY FirstIndex DEF Debit!Lowest

\* A plot that matches is none that an earlier line has.
LEMMA MatchingNew ==
    ASSUME NEW x, NEW used
    PROVE  /\ Debit!Matching(x, used) \subseteq DebitPlot
           /\ Debit!Matching(x, used) \cap used = {}
BY DEF Debit!Matching, Debit!SameCode, Debit!SameAccount, Debit!Candidates

\* The instance has operators of the library under names of its own.
LEMMA SameOperators ==
    /\ \A S : Debit!IsFiniteSet(S) <=> IsFiniteSet(S)
    /\ \A S : Debit!Cardinality(S) = Cardinality(S)
    /\ \A s, I : Debit!Picked(s, I) = Picked(s, I)
<1>1. \A S : Debit!IsFiniteSet(S) <=> IsFiniteSet(S)
  BY Zenon DEF Debit!IsFiniteSet, IsFiniteSet
<1>2. \A S : Debit!Cardinality(S) = Cardinality(S)
  BY Zenon DEF Debit!Cardinality, Cardinality
<1>3. \A s, I : Debit!Picked(s, I) = Picked(s, I)
  BY Zenon DEF Debit!Picked, Picked, Debit!Cardinality, Cardinality
<1> QED BY <1>1, <1>2, <1>3

LEMMA PlotsAreNumbers ==
    ASSUME Debit!DebitAssumption PROVE DebitPlot \subseteq Nat /\ Null \notin DebitPlot
<1> DEFINE n == Cardinality(DebitPlot)
<1>1. IsFiniteSet(DebitPlot) /\ DebitPlot = 1 .. n /\ Null \notin DebitPlot
  BY SameOperators DEF Debit!DebitAssumption
<1>2. n \in Nat
  BY <1>1, FS_CardinalityType
<1> HIDE DEF n
<1> QED BY <1>1, <1>2

\* What each line gets: nothing, or a plot that no earlier line has.
LEMMA MatchOf ==
    ASSUME Debit!DebitAssumption, NEW of \in Debit!matchCandidates, NEW l \in DOMAIN file
    PROVE  /\ of[l] = Debit!Lowest(Debit!Matching(file[l], {of[k] : k \in 1 .. l - 1}))
           /\ of[l] # Null => /\ of[l] \in DebitPlot
                              /\ of[l] \notin {of[k] : k \in 1 .. l - 1}
<1> DEFINE used == {of[k] : k \in 1 .. l - 1}
           M == Debit!Matching(file[l], used)
<1>1. of[l] = Debit!Lowest(M)
  BY DEF Debit!matchCandidates
<1>2. M \subseteq DebitPlot /\ M \cap used = {}
  BY MatchingNew
<1> HIDE DEF M, used
<1>3. CASE M = {}
  BY <1>1, <1>3 DEF Debit!Lowest, M, used
<1>4. CASE M # {}
  <2>1. Debit!Lowest(M) \in M
    BY <1>2, <1>4, LowestOf, PlotsAreNumbers
  <2> QED BY <1>1, <1>2, <2>1 DEF M, used
<1> QED BY <1>3, <1>4

\* No plot is used for two lines.
LEMMA MatchedOnce ==
    ASSUME Debit!DebitAssumption, file \in Seq(FileRow), NEW of \in Debit!matchCandidates,
           NEW l \in DOMAIN file, NEW m \in DOMAIN file, of[l] = of[m], of[l] # Null
    PROVE  l = m
<1>1. l \in Nat /\ m \in Nat /\ l >= 1 /\ m >= 1
  BY LenProperties
<1>2. CASE l < m
  <2>1. l \in 1 .. m - 1
    BY <1>1, <1>2
  <2> QED BY <2>1, MatchOf
<1>3. CASE m < l
  <2>1. m \in 1 .. l - 1
    BY <1>1, <1>3
  <2> QED BY <2>1, MatchOf
<1> QED BY <1>1, <1>2, <1>3

\* There is one matching: the first line on which two differ has the same lines before.
LEMMA MatchesUnique ==
    ASSUME file \in Seq(FileRow), NEW f \in Debit!matchCandidates, NEW g \in Debit!matchCandidates
    PROVE  f = g
<1> DEFINE apart == {l \in DOMAIN file : f[l] # g[l]}
<1>1. DOMAIN file = 1 .. Len(file) /\ Len(file) \in Nat
  BY LenProperties
<1>2. f \in [DOMAIN file -> DebitPlot \cup {Null}] /\ g \in [DOMAIN file -> DebitPlot \cup {Null}]
  BY DEF Debit!matchCandidates
<1>3. CASE apart = {}
  BY <1>2, <1>3
<1>4. CASE apart # {}
  <2>0. apart \in SUBSET Nat
    BY <1>1
  <2> HIDE DEF apart
  <2>1. PICK l \in apart : \A k \in apart : l <= k
    BY <1>4, <2>0, FirstIndex
  <2> USE DEF apart
  <2>2. l \in DOMAIN file /\ f[l] # g[l]
    OBVIOUS
  <2>3. \A k \in 1 .. l - 1 : f[k] = g[k]
    <3> SUFFICES ASSUME NEW k \in 1 .. l - 1, f[k] # g[k] PROVE FALSE
      OBVIOUS
    <3>1. k \in DOMAIN file /\ ~(l <= k)
      BY <1>1, <2>2
    <3> QED BY <2>1, <3>1
  <2>4. {f[k] : k \in 1 .. l - 1} = {g[k] : k \in 1 .. l - 1}
    BY <2>3
  <2>5. /\ f[l] = Debit!Lowest(Debit!Matching(file[l], {f[k] : k \in 1 .. l - 1}))
        /\ g[l] = Debit!Lowest(Debit!Matching(file[l], {g[k] : k \in 1 .. l - 1}))
    BY <2>2 DEF Debit!matchCandidates
  <2> QED BY <2>2, <2>4, <2>5
<1> QED BY <1>3, <1>4

\* While payers and contracts stand, a line with its code gets the plot it was sent for.
LEMMA MatchesOwn ==
    ASSUME Debit!DebitAssumption, DebitTypes, FileHolds, ~changed,
           \A l \in DOMAIN file : file[l].code # Null,
           NEW of \in Debit!matchCandidates
    PROVE  \A l \in DOMAIN file : of[l] = file[l].plot
<1> DEFINE apart == {l \in DOMAIN file : of[l] # file[l].plot}
<1>1. DOMAIN file = 1 .. Len(file) /\ Len(file) \in Nat
  BY LenProperties DEF DebitTypes
<1>2. CASE apart # {}
  <2>0. apart \in SUBSET Nat
    BY <1>1
  <2> HIDE DEF apart
  <2>1. PICK l \in apart : \A k \in apart : l <= k
    BY <1>2, <2>0, FirstIndex
  <2> USE DEF apart
  <2>2. l \in DOMAIN file /\ of[l] # file[l].plot
    OBVIOUS
  <2> DEFINE p == file[l].plot
             used == {of[k] : k \in 1 .. l - 1}
  <2>3. file[l] \in FileRow /\ p \in DebitPlot
    <3>1. file[l] \in FileRow
      BY <1>1, <2>2, ElementOfSeq DEF DebitTypes
    <3> QED BY <3>1 DEF FileRow
  <2>4. ASSUME NEW k \in 1 .. l - 1 PROVE of[k] # p
    <3>1. k \in DOMAIN file /\ ~(l <= k) /\ k # l
      BY <1>1, <2>2
    <3>2. of[k] = file[k].plot
      BY <2>1, <3>1
    <3> QED BY <2>2, <3>1, <3>2 DEF FileHolds
  <2>5. p \notin used
    BY <2>4
  <2>6. active[p] /\ file[l].code = Debit!derivePayerCode(p)
    BY <2>2 DEF FileHolds
  <2>7. \A q \in DebitPlot : Debit!derivePayerCode(q) = Debit!derivePayerCode(p) => q = p
    BY DEF Debit!derivePayerCode
  <2>8. Debit!SameCode(file[l], used) = {p}
    BY <2>3, <2>5, <2>6, <2>7 DEF Debit!SameCode, Debit!Candidates
  <2> HIDE DEF p, used
  <2>9. Debit!Matching(file[l], used) = {p}
    BY <2>8 DEF Debit!Matching
  <2>10. Debit!Lowest({p}) = p
    BY <2>3, LowestOf, PlotsAreNumbers
  <2>11. of[l] = p
    BY <2>2, <2>9, <2>10, MatchOf DEF used
  <2> QED BY <2>2, <2>11 DEF p
<1> QED BY <1>2

\* The invoice chosen for a plot is one of it.
LEMMA ChosenOwn ==
    ASSUME Debit!DebitAssumption, NEW p, Debit!Chosen(p) # Null
    PROVE  Debit!Chosen(p) \in Bill /\ BillPlot[Debit!Chosen(p)] = p
<1> DEFINE F == Debit!findYearBillings(p)
           C == {b \in F : Debit!isCollectibleUnpaid(b)}
           S == IF C = {} THEN F ELSE C
<1>1. F \subseteq Bill /\ \A b \in F : BillPlot[b] = p
  BY DEF Debit!findYearBillings
<1>2. Debit!Chosen(p) = Debit!Lowest(S)
  BY DEF Debit!Chosen
<1>3. S \subseteq F /\ S \in SUBSET Nat
  BY <1>1 DEF Debit!DebitAssumption
<1> HIDE DEF S
<1>4. S # {}
  BY <1>2 DEF Debit!Lowest
<1> QED BY <1>1, <1>2, <1>3, <1>4, LowestOf

\* A plan: rows of the file, each with the plot its line has got, and no plot twice.
LEMMA PlanFacts ==
    ASSUME Debit!DebitAssumption, DebitTypes, FileHolds, NEW of \in Debit!matchCandidates,
           NEW a \in DebitPlot, NEW b \in DebitPlot, b <= Len(file)
    PROVE  LET T == Debit!buildPlan(of, a, b)
           IN  /\ T \in Seq(TargetRow)
               /\ \A n \in DOMAIN T : T[n].line \in DOMAIN file /\ T[n].plot = of[T[n].line]
               /\ \A m, n \in DOMAIN T : T[m].plot = T[n].plot => m = n
<1> DEFINE all == [l \in DOMAIN file |-> Debit!PlanRow(of, l)]
           I == {l \in a .. b : Debit!Target(Debit!PlanRow(of, l))}
           S == {Debit!PlanRow(of, l) : l \in DOMAIN file}
           T == Debit!buildPlan(of, a, b)
<1>1. DOMAIN file = 1 .. Len(file) /\ Len(file) \in Nat /\ DOMAIN file \subseteq DebitPlot
  BY LenProperties DEF DebitTypes, FileHolds
<1>2. a \in Nat /\ b \in Nat /\ a >= 1
  <2>1. DebitPlot = 1 .. Cardinality(DebitPlot) /\ Cardinality(DebitPlot) \in Nat
    BY SameOperators, FS_CardinalityType DEF Debit!DebitAssumption
  <2> QED BY <2>1
<1>3. I \in SUBSET DOMAIN all
  BY <1>1, <1>2
<1>4. all \in Seq(S)
  <2>1. all \in [1 .. Len(file) -> S]
    BY <1>1
  <2> QED BY <1>1, <2>1, SeqDef
<1>5. T = Picked(all, I)
  BY SameOperators DEF Debit!buildPlan
<1>6. ASSUME NEW l \in I
      PROVE  /\ all[l] \in TargetRow /\ all[l].line = l /\ all[l].plot = of[l]
             /\ l \in DOMAIN file /\ of[l] \in DebitPlot
  <2>1. l \in DOMAIN file /\ l \in DebitPlot /\ all[l] = Debit!PlanRow(of, l)
    BY <1>1, <1>3
  <2>2. of[l] \in DebitPlot \cup {Null}
    BY <2>1 DEF Debit!matchCandidates
  <2>3. /\ all[l].status \in {"will_record", "failed"} /\ all[l].bill # Null
        /\ all[l].status = Debit!Status(file[l], of[l])
    BY <2>1 DEF Debit!Target, Debit!PlanRow
  <2>4. of[l] # Null
    BY <2>3 DEF Debit!Status
  <2>5. all[l].bill = Debit!Chosen(of[l])
    BY <2>1, <2>4 DEF Debit!PlanRow
  <2>6. all[l].bill \in Bill /\ BillPlot[all[l].bill] = of[l]
    BY <2>3, <2>5, ChosenOwn
  <2> QED BY <2>1, <2>2, <2>3, <2>4, <2>6 DEF Debit!PlanRow, TargetRow
<1> HIDE DEF T, all, I, S
<1>7. PICK at \in [1 .. Cardinality(I) -> I] :
        /\ DOMAIN T = 1 .. Cardinality(I)
        /\ \A n \in 1 .. Cardinality(I) : T[n] = all[at[n]]
        /\ \A m, n \in 1 .. Cardinality(I) : at[m] = at[n] => m = n
  BY <1>3, <1>4, <1>5, PickedOnce
<1>8. T \in Seq(S) /\ Len(T) \in Nat /\ DOMAIN T = 1 .. Len(T)
  <2>1. T \in Seq(S)
    BY <1>3, <1>4, <1>5, PickedRows
  <2> QED BY <2>1, LenProperties
<1>9. \A n \in DOMAIN T : /\ at[n] \in I /\ T[n] = all[at[n]]
  BY <1>7
<1>10. T \in Seq(TargetRow)
  <2>1. T \in [1 .. Len(T) -> TargetRow]
    <3>1. T \in [1 .. Len(T) -> S]
      BY <1>8, SeqDef DEF S
    <3>2. \A n \in 1 .. Len(T) : T[n] \in TargetRow
      BY <1>6, <1>8, <1>9
    <3> QED BY <3>1, <3>2
  <2> QED BY <1>8, <2>1, SeqDef
<1>11. \A n \in DOMAIN T : T[n].line \in DOMAIN file /\ T[n].plot = of[T[n].line]
  BY <1>6, <1>9
<1>12. ASSUME NEW m \in DOMAIN T, NEW n \in DOMAIN T, T[m].plot = T[n].plot PROVE m = n
  <2>1. of[at[m]] = of[at[n]] /\ of[at[m]] \in DebitPlot
    BY <1>6, <1>9, <1>12
  <2>2. at[m] \in DOMAIN file /\ at[n] \in DOMAIN file
    BY <1>6, <1>9
  <2>3. at[m] = at[n]
    BY <2>1, <2>2, MatchedOnce, PlotsAreNumbers DEF DebitTypes
  <2> QED BY <1>7, <2>3
<1> QED BY <1>10, <1>11, <1>12 DEF T

\* The file: rows of different plots, as they are now.
LEMMA FileFacts ==
    ASSUME Debit!DebitAssumption, NEW status
    PROVE  LET F == Debit!fetchManagementBillingItems(status)
           IN  /\ F \in Seq(DebitPlot) /\ DOMAIN F \subseteq DebitPlot
               /\ \A n \in DOMAIN F : active[F[n]]
               /\ \A m, n \in DOMAIN F : F[m] = F[n] => m = n
<1> DEFINE all == [n \in DebitPlot |-> n]
           I == {p \in DebitPlot : Debit!isZenginExportable(p, status)}
           F == Debit!fetchManagementBillingItems(status)
<1>1. DebitPlot = 1 .. Cardinality(DebitPlot) /\ Cardinality(DebitPlot) \in Nat
      /\ IsFiniteSet(DebitPlot)
  BY SameOperators, FS_CardinalityType DEF Debit!DebitAssumption
<1>2. all \in Seq(DebitPlot) /\ I \in SUBSET DOMAIN all
  <2>1. all \in [DebitPlot -> DebitPlot]
    OBVIOUS
  <2> HIDE DEF all
  <2>2. all \in [1 .. Cardinality(DebitPlot) -> DebitPlot]
    BY <1>1, <2>1
  <2>3. all \in Seq(DebitPlot)
    BY <1>1, <2>2, SeqDef
  <2> QED BY <2>1, <2>3
<1>3. F = Picked(all, I)
  BY SameOperators DEF Debit!fetchManagementBillingItems, Debit!Line
<1>a. \A p \in I : p \in DebitPlot /\ all[p] = p
  OBVIOUS
<1>7. \A p \in I : active[p]
  BY DEF Debit!isZenginExportable, Debit!Candidates
<1> HIDE DEF all, I, F
<1>4. PICK at \in [1 .. Cardinality(I) -> I] :
        /\ DOMAIN F = 1 .. Cardinality(I)
        /\ \A n \in 1 .. Cardinality(I) : F[n] = all[at[n]]
        /\ \A m, n \in 1 .. Cardinality(I) : at[m] = at[n] => m = n
  BY <1>2, <1>3, PickedOnce
<1>5. F \in Seq(DebitPlot)
  BY <1>2, <1>3, PickedRows
<1>6. \A n \in DOMAIN F : F[n] = at[n] /\ at[n] \in I
  BY <1>a, <1>4
<1>8. DOMAIN F \subseteq DebitPlot
  <2>1. Cardinality(I) <= Cardinality(DebitPlot) /\ Cardinality(I) \in Nat
    <3>1. I \subseteq DebitPlot
      BY <1>a
    <3> QED BY <1>1, <3>1, FS_Subset, FS_CardinalityType
  <2>2. \A k, n \in Nat : k <= n => 1 .. k \subseteq 1 .. n
    OBVIOUS
  <2>3. 1 .. Cardinality(I) \subseteq 1 .. Cardinality(DebitPlot)
    BY <1>1, <2>1, <2>2
  <2> QED BY <1>1, <1>4, <2>3
<1>9. \A m, n \in DOMAIN F : F[m] = F[n] => m = n
  BY <1>4, <1>6
<1> QED BY <1>5, <1>6, <1>7, <1>8, <1>9 DEF F

\* The rows of a request and those recorded have their shape.
LEMMA RowsTyped ==
    ASSUME DebitTypes
    PROVE  /\ \A r \in Applier : Debit!Running(r) =>
                /\ run[r] \in Applying
                /\ run[r].targets \in Seq(TargetRow) /\ run[r].written \in Seq(TargetRow)
                /\ run[r].start \in Nat /\ run[r].done \in Nat
                /\ \A n \in DOMAIN run[r].targets :
                     /\ run[r].targets[n] \in TargetRow /\ run[r].targets[n].plot \in DebitPlot
                     /\ run[r].targets[n].line \in DebitPlot
                /\ \A n \in DOMAIN run[r].written :
                     /\ run[r].written[n] \in TargetRow /\ run[r].written[n].plot \in DebitPlot
                     /\ run[r].written[n].line \in DebitPlot /\ run[r].written[n].bill \in Bill
                     /\ BillPlot[run[r].written[n].bill] = run[r].written[n].plot
           /\ \A l \in DebitPlot : credited[l] \in Seq(TargetRow)
           /\ \A l \in DOMAIN file : file[l] \in FileRow /\ file[l].amount \in Nat
                                     /\ file[l].plot \in DebitPlot
<1>1. \A s \in Seq(TargetRow) : \A n \in DOMAIN s : s[n] \in TargetRow
  BY ElementOfSeq, LenProperties
<1>2. \A x \in TargetRow : /\ x.plot \in DebitPlot /\ x.line \in DebitPlot
                           /\ x.bill \in Bill /\ BillPlot[x.bill] = x.plot
  BY DEF TargetRow
<1>3. ASSUME NEW r \in Applier, Debit!Running(r)
      PROVE  /\ run[r] \in Applying
             /\ run[r].targets \in Seq(TargetRow) /\ run[r].written \in Seq(TargetRow)
             /\ run[r].start \in Nat /\ run[r].done \in Nat
  <2>1. run[r] \in Applying
    BY <1>3 DEF DebitTypes, Debit!Running, Debit!NoJob
  <2> QED BY <2>1 DEF Applying
<1>4. \A l \in DebitPlot : credited[l] \in Seq(TargetRow)
  BY DEF DebitTypes
<1>5. ASSUME NEW l \in DOMAIN file PROVE file[l] \in FileRow
  BY ElementOfSeq, LenProperties DEF DebitTypes
<1>6. \A x \in FileRow : x.amount \in Nat /\ x.plot \in DebitPlot
  BY DEF FileRow
<1> QED BY <1>1, <1>2, <1>3, <1>4, <1>5, <1>6

-----------------------------------------------------------------------------
(* The steps of the debit *)

LEMMA DebitInit == ASSUME Debit!DebitAssumption, Debit!Init PROVE DebitInv
<1> USE DEF Debit!Init
<1>1. DebitTypes
  <2>1. bill \in [Bill -> BillRow] /\ debited \in [Bill -> Nat]
    BY DEF Debit!OpenBill, Debit!NoBill, BillRow
  <2>2. file \in Seq(FileRow) /\ \A l \in DebitPlot : <<>> \in Seq(TargetRow)
    BY EmptySeq
  <2>3. run \in [Applier -> Applying \cup {Debit!NoJob}]
    OBVIOUS
  <2>4. credited \in [DebitPlot -> Seq(TargetRow)]
    BY <2>2 DEF Debit!Line
  <2>5. payer \in [DebitPlot -> Customer] /\ active \in [DebitPlot -> BOOLEAN]
        /\ answered \in BOOLEAN /\ applies \in Nat /\ changed \in BOOLEAN
        /\ overlapped \in BOOLEAN /\ raced \in SUBSET Bill
    OBVIOUS
  <2> QED BY <2>1, <2>2, <2>3, <2>4, <2>5 DEF DebitTypes
<1>2. \A r \in Applier : ~Debit!Running(r)
  BY DEF Debit!Running, Debit!NoJob
<1>3. \A l \in DebitPlot : credited[l] = <<>>
  BY DEF Debit!Line
<1>4. DOMAIN file = {}
  OBVIOUS
<1>5. FileHolds
  BY <1>3, <1>4 DEF FileHolds
<1>6. ApplyingHolds /\ OneApplies
  BY <1>2 DEF ApplyingHolds, OneApplies
<1>7. RoomHolds
  <2>1. \A b \in Bill : bill[b].paid = 0 /\ debited[b] = 0 /\ BillAmount[b] \in Nat
    BY DEF Debit!OpenBill, Debit!NoBill, Debit!DebitAssumption
  <2>2. Debit!NeverBeyond /\ \A b \in Bill : debited[b] <= bill[b].paid
    BY <2>1 DEF Debit!NeverBeyond
  <2> QED BY <1>2, <2>2 DEF RoomHolds
<1>8. PlansAgree
  BY <1>2, <1>3 DEF PlansAgree, Unplanned
<1> QED BY <1>1, <1>5, <1>6, <1>7, <1>8 DEF DebitInv

\* Nothing is planned or recorded before there is a file.
LEMMA NothingPlanned ==
    ASSUME FileHolds, ApplyingHolds, ~answered PROVE Unplanned
BY DEF FileHolds, ApplyingHolds, Unplanned

LEMMA SameMatches ==
    ASSUME UNCHANGED <<file, payer, active>>
    PROVE  Debit!matchCandidates' = Debit!matchCandidates
BY DEF Debit!matchCandidates, Debit!Matching, Debit!SameCode, Debit!SameAccount,
       Debit!Candidates, Debit!derivePayerCode, Debit!resolveBranchAndAccount, Debit!Lowest

\* What the office does beside the file leaves it and the requests as they are.
LEMMA OfficeSame ==
    ASSUME DebitTypes, FileHolds, ApplyingHolds, OneApplies, PlansAgree,
           UNCHANGED <<file, answered, run, credited, overlapped>>,
           ~changed' => ~changed /\ (file = <<>> \/ UNCHANGED <<payer, active>>)
    PROVE  FileHolds' /\ ApplyingHolds' /\ OneApplies' /\ PlansAgree'
<1>1. FileHolds'
  <2>1. CASE file = <<>>
    BY <2>1 DEF FileHolds
  <2>2. CASE file # <<>>
    BY <2>2 DEF FileHolds, Debit!derivePayerCode
  <2> QED BY <2>1, <2>2
<1>2. ApplyingHolds' /\ OneApplies'
  BY DEF ApplyingHolds, OneApplies, Debit!Running
<1>3. PlansAgree'
  <2> SUFFICES ASSUME ~changed', ~Unplanned
               PROVE  \E of \in Debit!matchCandidates' : Agrees(of)'
    BY DEF PlansAgree, Unplanned, Debit!Running
  <2>1. answered /\ file # <<>>
    BY NothingPlanned DEF FileHolds
  <2>2. PICK of \in Debit!matchCandidates : Agrees(of)
    BY DEF PlansAgree
  <2>3. Debit!matchCandidates' = Debit!matchCandidates
    BY <2>1, SameMatches
  <2>4. Agrees(of)'
    BY <2>2 DEF Agrees, Debit!Running
  <2> QED BY <2>2, <2>3, <2>4
<1> QED BY <1>1, <1>2, <1>3

LEMMA DebitPeople ==
    ASSUME Debit!DebitAssumption, DebitInv, NEW p \in DebitPlot, NEW c \in Customer,
           Debit!changeContractor(p, c) \/ Debit!terminateContract(p)
    PROVE  DebitInv'
<1> USE DEF DebitInv
<1>1. UNCHANGED <<bill, file, answered, run, applies, credited, debited, overlapped, raced>>
  BY DEF Debit!changeContractor, Debit!terminateContract
<1>2. DebitTypes'
  BY <1>1 DEF DebitTypes, Debit!changeContractor, Debit!terminateContract, Applying, Debit!NoJob
<1>3. ~changed' => ~changed /\ file = <<>>
  BY DEF Debit!changeContractor, Debit!terminateContract, DebitTypes
<1>4. FileHolds' /\ ApplyingHolds' /\ OneApplies' /\ PlansAgree'
  BY <1>1, <1>3, OfficeSame
<1>5. RoomHolds'
  BY <1>1 DEF RoomHolds, Fits, Debit!NeverBeyond, Debit!Running
<1> QED BY <1>2, <1>4, <1>5

\* An invoice is created, closed or written off: what is paid on it stands.
LEMMA DebitStated ==
    ASSUME Debit!DebitAssumption, DebitInv, NEW b \in Bill,
           NEW state \in {"open", "terminated", "written_off"},
           bill' = [bill EXCEPT ![b].state = state],
           UNCHANGED <<payer, active, file, answered, run, applies, credited, debited,
                       overlapped, changed, raced>>
    PROVE  DebitInv'
<1> USE DEF DebitInv
<1>1. bill' \in [Bill -> BillRow] /\ \A c \in Bill : bill'[c].paid = bill[c].paid
  BY DEF DebitTypes, BillRow
<1>2. DebitTypes'
  BY <1>1 DEF DebitTypes, Applying, Debit!NoJob
<1>3. FileHolds' /\ ApplyingHolds' /\ OneApplies' /\ PlansAgree'
  BY OfficeSame
<1>4. RoomHolds'
  <2>1. \A r \in Applier : Debit!Running(r) =>
          \A n \in DOMAIN run[r].written : run[r].written[n].bill \in Bill
    BY RowsTyped
  <2> QED BY <1>1, <2>1 DEF RoomHolds, Fits, Debit!NeverBeyond, Debit!Running
<1> QED BY <1>2, <1>3, <1>4

LEMMA DebitBill ==
    ASSUME Debit!DebitAssumption, DebitInv, NEW b \in Bill,
           \/ Debit!createBilling(b)
           \/ \E state \in {"terminated", "written_off"} : Debit!updateBilling(b, state)
    PROVE  DebitInv'
<1>1. ASSUME NEW state \in {"open", "terminated", "written_off"},
             bill' = [bill EXCEPT ![b].state = state],
             UNCHANGED <<payer, active, file, answered, run, applies, Debit!history>>
      PROVE  DebitInv'
  BY <1>1, DebitStated DEF Debit!history
<1> QED BY <1>1 DEF Debit!createBilling, Debit!updateBilling

LEMMA DebitCounter ==
    ASSUME Debit!DebitAssumption, DebitInv, NEW b \in Bill, Debit!CounterPayment(b)
    PROVE  DebitInv'
<1> USE DEF DebitInv, Debit!CounterPayment
<1>1. UNCHANGED <<payer, active, file, answered, run, applies, credited, debited, overlapped,
                  changed>>
  OBVIOUS
<1>2. BillAmount[b] \in Nat /\ bill[b] \in BillRow /\ bill[b].paid \in Nat
  BY DEF DebitTypes, BillRow, Debit!DebitAssumption
<1>3. /\ bill' \in [Bill -> BillRow] /\ bill'[b].paid = BillAmount[b]
      /\ \A c \in Bill \ {b} : bill'[c] = bill[c]
  BY <1>2 DEF DebitTypes, BillRow
<1>4. /\ raced' \in SUBSET Bill /\ raced \subseteq raced'
      /\ \A r \in Applier : Debit!Running(r) =>
           \A n \in DOMAIN run[r].written : run[r].written[n].bill = b => b \in raced'
  BY DEF DebitTypes, Debit!Written
<1>5. bill[b].paid <= bill'[b].paid
  BY <1>2, <1>3 DEF Debit!isCollectibleUnpaid, Debit!remainingAmount
<1>6. DebitTypes'
  BY <1>1, <1>3, <1>4 DEF DebitTypes, Applying, Debit!NoJob
<1>7. FileHolds' /\ ApplyingHolds' /\ OneApplies' /\ PlansAgree'
  BY <1>1, OfficeSame
<1>8. \A r \in Applier : Debit!Running(r) =>
          \A n \in DOMAIN run[r].written : run[r].written[n].bill \in Bill
  BY RowsTyped
<1>9. RoomHolds'
  <2> SUFFICES ASSUME ~overlapped' PROVE RoomHolds'
    BY DEF RoomHolds
  <2>1. Debit!NeverBeyond'
    BY <1>1, <1>2, <1>3, <1>4 DEF RoomHolds, Debit!NeverBeyond
  <2>2. \A c \in Bill : debited'[c] <= bill'[c].paid
    <3>1. \A c \in Bill : debited[c] \in Nat /\ debited[c] <= bill[c].paid
      BY <1>1 DEF RoomHolds, DebitTypes
    <3>2. bill'[b].paid \in Nat
      BY <1>2, <1>3
    <3> QED BY <1>1, <1>2, <1>3, <1>5, <3>1, <3>2
  <2>3. ASSUME NEW r \in Applier, Debit!Running(r), NEW n \in DOMAIN run[r].written,
               run[r].written[n].status = "will_record"
        PROVE  Fits(run[r].written[n])'
    BY <1>1, <1>3, <1>4, <1>8, <2>3 DEF RoomHolds, Fits
  <2> QED BY <1>1, <2>1, <2>2, <2>3 DEF RoomHolds, Debit!Running
<1> QED BY <1>6, <1>7, <1>9

LEMMA DebitFile ==
    ASSUME Debit!DebitAssumption, DebitInv, NEW status, Debit!buildZenginFile(status)
    PROVE  DebitInv'
<1> USE DEF DebitInv
<1> DEFINE F == Debit!fetchManagementBillingItems(status)
<1>1. /\ file = <<>> /\ file' = [l \in DOMAIN F |-> Debit!buildZenginDataRow(F[l])]
      /\ UNCHANGED <<payer, active, bill, answered, run, applies, credited, debited, changed,
                     overlapped, raced>>
  BY DEF Debit!buildZenginFile, Debit!office, Debit!history
<1>2. ~answered /\ Unplanned
  BY <1>1, NothingPlanned DEF FileHolds
<1>3. /\ F \in Seq(DebitPlot) /\ DOMAIN F \subseteq DebitPlot
      /\ \A n \in DOMAIN F : active[F[n]]
      /\ \A m, n \in DOMAIN F : F[m] = F[n] => m = n
  BY FileFacts
<1> HIDE DEF F
<1>4. DOMAIN F = 1 .. Len(F) /\ Len(F) \in Nat /\ \A n \in DOMAIN F : F[n] \in DebitPlot
  BY <1>3, LenProperties, ElementOfSeq
<1>5. ASSUME NEW p \in DebitPlot PROVE Debit!buildZenginDataRow(p) \in FileRow
  <2>1. payer[p] \in Customer /\ Fee[p] \in Nat
    BY DEF DebitTypes, Debit!DebitAssumption
  <2> QED BY <2>1 DEF Debit!buildZenginDataRow, FileRow, Debit!derivePayerCode,
                      Debit!resolveBranchAndAccount
<1>6. DOMAIN file' = DOMAIN F /\ file' \in Seq(FileRow)
  <2>1. file' \in [1 .. Len(F) -> FileRow]
    BY <1>1, <1>4, <1>5
  <2> QED BY <1>1, <1>4, <2>1, SeqDef
<1>7. \A l \in DOMAIN F : /\ file'[l].plot = F[l]
                          /\ file'[l].code = Debit!derivePayerCode(F[l])
  BY <1>1 DEF Debit!buildZenginDataRow
<1>8. \A p \in DebitPlot :
        Debit!derivePayerCode(p) # Null /\ Debit!derivePayerCode(p)' = Debit!derivePayerCode(p)
  <2>1. \A p \in DebitPlot : payer[p] \in Customer
    BY DEF DebitTypes
  <2> QED BY <1>1, <2>1 DEF Debit!derivePayerCode, Debit!DebitAssumption
<1>9. DebitTypes'
  BY <1>1, <1>6 DEF DebitTypes, Applying, Debit!NoJob
<1>10. FileHolds'
  <2>1. \A l \in DebitPlot : credited'[l] = <<>>
    BY <1>1, <1>2 DEF Unplanned
  <2> QED BY <1>1, <1>2, <1>3, <1>4, <1>6, <1>7, <1>8, <2>1 DEF FileHolds
<1>11. Unplanned'
  BY <1>1, <1>2 DEF Unplanned, Debit!Running
<1>12. \A r \in Applier : ~Debit!Running(r)'
  BY <1>11 DEF Unplanned
<1>13. ApplyingHolds' /\ OneApplies' /\ PlansAgree'
  BY <1>11, <1>12 DEF ApplyingHolds, OneApplies, PlansAgree
<1>14. RoomHolds'
  BY <1>1, <1>12 DEF RoomHolds, Debit!NeverBeyond
<1> QED BY <1>9, <1>10, <1>13, <1>14

LEMMA DebitAnswers ==
    ASSUME Debit!DebitAssumption, DebitInv, Debit!BankAnswers PROVE DebitInv'
<1> USE DEF DebitInv
<1>1. PICK failed \in SUBSET DOMAIN file, coded \in BOOLEAN :
        file' = [l \in DOMAIN file |->
                  [file[l] EXCEPT !.result = IF l \in failed THEN "1" ELSE "0",
                                  !.code = IF coded THEN @ ELSE Null]]
  BY DEF Debit!BankAnswers
<1>2. /\ file # <<>> /\ ~answered /\ answered'
      /\ UNCHANGED <<payer, active, bill, run, applies, credited, debited, changed, overlapped,
                     raced>>
  BY DEF Debit!BankAnswers, Debit!office, Debit!history
<1>3. Unplanned
  BY <1>2, NothingPlanned
<1>4. DOMAIN file' = DOMAIN file /\ DOMAIN file = 1 .. Len(file) /\ Len(file) \in Nat
  BY <1>1, LenProperties DEF DebitTypes
<1>5. ASSUME NEW l \in DOMAIN file
      PROVE  /\ file'[l] \in FileRow /\ file'[l].plot = file[l].plot
             /\ file'[l].code = IF coded THEN file[l].code ELSE Null
  <2>1. file[l] \in FileRow
    BY <1>4, ElementOfSeq DEF DebitTypes
  <2> QED BY <1>1, <2>1 DEF FileRow
<1>6. file' \in Seq(FileRow)
  <2>1. file' \in [1 .. Len(file) -> FileRow]
    <3>1. \A l \in 1 .. Len(file) : file'[l] \in FileRow
      BY <1>4, <1>5
    <3> QED BY <1>1, <1>4, <3>1
  <2> QED BY <1>4, <2>1, SeqDef
<1>7. file' # <<>>
  <2>1. Len(file) # 0
    BY <1>2, EmptySeq DEF DebitTypes
  <2>2. 1 \in DOMAIN file'
    BY <1>4, <2>1
  <2> QED BY <2>2
<1>8. DebitTypes'
  BY <1>2, <1>6 DEF DebitTypes, Applying, Debit!NoJob
<1>9. FileHolds'
  <2>2. /\ DOMAIN file' \subseteq DebitPlot
        /\ \A l, m \in DOMAIN file' : file'[l].plot = file'[m].plot => l = m
    BY <1>4, <1>5 DEF FileHolds
  <2>3. \A l, m \in DOMAIN file' : file'[l].code = Null => file'[m].code = Null
    BY <1>4, <1>5 DEF FileHolds
  <2>4. ~changed' => \A l \in DOMAIN file' :
          /\ active'[file'[l].plot]
          /\ file'[l].code # Null => file'[l].code = <<payer'[file'[l].plot], file'[l].plot>>
    BY <1>2, <1>4, <1>5 DEF FileHolds, Debit!derivePayerCode
  <2> QED BY <1>2, <1>7, <2>2, <2>3, <2>4 DEF FileHolds, Debit!derivePayerCode
<1>11. Unplanned'
  BY <1>2, <1>3 DEF Unplanned, Debit!Running
<1>12. \A r \in Applier : ~Debit!Running(r)'
  BY <1>11 DEF Unplanned
<1>13. ApplyingHolds' /\ OneApplies' /\ PlansAgree'
  BY <1>11, <1>12 DEF ApplyingHolds, OneApplies, PlansAgree
<1>14. RoomHolds'
  BY <1>2, <1>12 DEF RoomHolds, Debit!NeverBeyond
<1> QED BY <1>8, <1>9, <1>13, <1>14

LEMMA DebitPlanned ==
    ASSUME Debit!DebitAssumption, DebitInv, NEW r \in Applier, NEW a \in DebitPlot,
           NEW b \in DebitPlot, Debit!applyYuchoResult(r, a, b)
    PROVE  DebitInv'
<1> USE DEF DebitInv
<1>1. PICK of \in Debit!matchCandidates :
        run' = [run EXCEPT ![r] = [pc |-> "rows", targets |-> Debit!buildPlan(of, a, b),
                                   start |-> 0, done |-> 0, written |-> <<>>]]
  BY DEF Debit!applyYuchoResult
<1> DEFINE T == Debit!buildPlan(of, a, b)
           new == [pc |-> "rows", targets |-> T, start |-> 0, done |-> 0, written |-> <<>>]
<1>2. /\ answered /\ ~Debit!Running(r) /\ b <= Len(file) /\ applies' = applies + 1
      /\ UNCHANGED <<payer, active, bill, file, answered, credited, debited, changed, raced>>
      /\ overlapped' = (overlapped \/ \E q \in Applier \ {r} : Debit!Running(q))
  BY DEF Debit!applyYuchoResult, Debit!office
<1>3. /\ T \in Seq(TargetRow)
      /\ \A n \in DOMAIN T : T[n].line \in DOMAIN file /\ T[n].plot = of[T[n].line]
      /\ \A m, n \in DOMAIN T : T[m].plot = T[n].plot => m = n
  BY <1>2, PlanFacts
<1> HIDE DEF T
<1>4. /\ run'[r] = new /\ \A q \in Applier \ {r} : run'[q] = run[q]
      /\ run' \in [Applier -> Applying \cup {Debit!NoJob}]
  <2>1. new \in Applying
    BY <1>3, EmptySeq DEF Applying
  <2> HIDE DEF new
  <2> QED BY <1>1, <2>1 DEF DebitTypes, T, new
<1>5. /\ \A q \in Applier \ {r} : Debit!Running(q)' <=> Debit!Running(q)
      /\ Debit!Running(r)' /\ run'[r].targets = T /\ run'[r].done = 0 /\ run'[r].written = <<>>
  BY <1>4 DEF Debit!Running
<1>6. DOMAIN run'[r].written = {} /\ Len(T) \in Nat
  BY <1>3, <1>5, LenProperties
<1> HIDE DEF new
<1>7. DebitTypes'
  BY <1>2, <1>4 DEF DebitTypes, Applying, Debit!NoJob
<1>8. FileHolds'
  BY <1>2 DEF FileHolds, Debit!derivePayerCode
<1>9. ApplyingHolds'
  <2>1. ASSUME NEW q \in Applier, Debit!Running(q)'
        PROVE  /\ answered' /\ run'[q].done <= Len(run'[q].targets)
               /\ \A n \in DOMAIN run'[q].targets : run'[q].targets[n].line \in DOMAIN file'
               /\ \A m, n \in DOMAIN run'[q].targets :
                    run'[q].targets[m].plot = run'[q].targets[n].plot => m = n
               /\ \A n \in DOMAIN run'[q].written :
                    \E k \in 1 .. run'[q].done : run'[q].written[n] = run'[q].targets[k]
               /\ \A m, n \in DOMAIN run'[q].written :
                    run'[q].written[m].plot = run'[q].written[n].plot => m = n
    <3>1. CASE q = r
      BY <1>2, <1>3, <1>5, <1>6, <3>1
    <3>2. CASE q # r
      <4>1. run'[q] = run[q] /\ Debit!Running(q)
        BY <1>4, <1>5, <2>1, <3>2
      <4> QED BY <1>2, <4>1 DEF ApplyingHolds
    <3> QED BY <3>1, <3>2
  <2> QED BY <2>1 DEF ApplyingHolds
<1>10. OneApplies'
  BY <1>2, <1>5 DEF OneApplies
<1>11. RoomHolds'
  <2> SUFFICES ASSUME ~overlapped' PROVE RoomHolds'
    BY DEF RoomHolds
  <2>1. \A q \in Applier : Debit!Running(q)' => q = r
    BY <1>2, <1>5
  <2>2. Debit!NeverBeyond' /\ \A c \in Bill : debited'[c] <= bill'[c].paid
    BY <1>2 DEF RoomHolds, Debit!NeverBeyond
  <2> QED BY <1>6, <2>1, <2>2 DEF RoomHolds
<1>12. PlansAgree'
  <2> SUFFICES ASSUME ~changed' PROVE \E f \in Debit!matchCandidates' : Agrees(f)'
    BY DEF PlansAgree
  <2>1. Debit!matchCandidates' = Debit!matchCandidates
    BY <1>2, SameMatches
  <2>2. \A q \in Applier : Debit!Running(q) =>
          \A n \in DOMAIN run[q].targets : run[q].targets[n].plot = of[run[q].targets[n].line]
    BY <1>2, MatchesUnique DEF PlansAgree, Unplanned, Agrees, DebitTypes
  <2>3. \A l \in DebitPlot : \A n \in DOMAIN credited[l] : credited[l][n].plot = of[l]
    <3>1. CASE Unplanned
      BY <3>1 DEF Unplanned
    <3>2. CASE ~Unplanned
      BY <1>2, <3>2, MatchesUnique DEF PlansAgree, Agrees, DebitTypes
    <3> QED BY <3>1, <3>2
  <2>4. ASSUME NEW q \in Applier, Debit!Running(q)', NEW n \in DOMAIN run'[q].targets
        PROVE  run'[q].targets[n].plot = of[run'[q].targets[n].line]
    BY <1>3, <1>4, <1>5, <2>2, <2>4
  <2>5. Agrees(of)'
    BY <1>2, <2>3, <2>4 DEF Agrees
  <2> QED BY <2>1, <2>5
<1> QED BY <1>7, <1>8, <1>9, <1>10, <1>11, <1>12

LEMMA DebitStop ==
    ASSUME Debit!DebitAssumption, DebitInv, NEW r \in Applier, Debit!Stop(r)
    PROVE  DebitInv'
<1> USE DEF DebitInv
<1>1. /\ run' = [run EXCEPT ![r] = Debit!NoJob]
      /\ UNCHANGED <<payer, active, bill, file, answered, applies, credited, debited, changed,
                     overlapped, raced>>
  BY DEF Debit!Stop, Debit!office, Debit!history
<1>2. /\ run' \in [Applier -> Applying \cup {Debit!NoJob}]
      /\ \A q \in Applier : Debit!Running(q)' => Debit!Running(q) /\ run'[q] = run[q]
  BY <1>1 DEF DebitTypes, Debit!Running, Debit!NoJob
<1>3. DebitTypes' /\ FileHolds'
  BY <1>1, <1>2 DEF DebitTypes, FileHolds, Applying, Debit!NoJob, Debit!derivePayerCode
<1>4. ApplyingHolds' /\ OneApplies'
  BY <1>1, <1>2 DEF ApplyingHolds, OneApplies
<1>5. RoomHolds'
  BY <1>1, <1>2 DEF RoomHolds, Fits, Debit!NeverBeyond
<1>6. PlansAgree'
  <2> SUFFICES ASSUME ~changed', ~Unplanned
               PROVE  \E f \in Debit!matchCandidates' : Agrees(f)'
    BY <1>1, <1>2 DEF PlansAgree, Unplanned
  <2>1. PICK of \in Debit!matchCandidates : Agrees(of)
    BY <1>1 DEF PlansAgree
  <2>2. Debit!matchCandidates' = Debit!matchCandidates
    BY <1>1, SameMatches
  <2>3. Agrees(of)'
    BY <1>1, <1>2, <2>1 DEF Agrees
  <2> QED BY <2>1, <2>2, <2>3
<1> QED BY <1>3, <1>4, <1>5, <1>6

LEMMA DebitRow ==
    ASSUME Debit!DebitAssumption, DebitInv, NEW r \in Applier, Debit!ApplyRow(r)
    PROVE  DebitInv'
<1> USE DEF DebitInv
<1> DEFINE done == run[r].done
           row == run[r].targets[done + 1]
           fits == Debit!StillFits(row)
           W == run[r].written
           W1 == IF row.status = "failed" \/ fits THEN Append(W, row) ELSE W
<1>0. run' = [run EXCEPT ![r].done = @ + 1, ![r].written = W1]
  BY DEF Debit!ApplyRow
<1>1. /\ Debit!Running(r) /\ ~Debit!ChunkRead(r)
      /\ UNCHANGED <<payer, active, bill, file, answered, applies, credited, debited, changed,
                     overlapped, raced>>
  BY DEF Debit!ApplyRow, Debit!office, Debit!history
<1>2. /\ run[r] \in Applying /\ run[r].targets \in Seq(TargetRow) /\ W \in Seq(TargetRow)
      /\ done \in Nat
      /\ \A n \in DOMAIN run[r].targets :
           run[r].targets[n] \in TargetRow /\ run[r].targets[n].plot \in DebitPlot
      /\ \A n \in DOMAIN W : W[n].plot \in DebitPlot
  BY <1>1, RowsTyped
<1>3. done + 1 \in DOMAIN run[r].targets /\ done + 1 \notin 1 .. done
  <2>1. done <= Len(run[r].targets) /\ done # Len(run[r].targets)
    BY <1>1 DEF ApplyingHolds, Debit!ChunkRead
  <2>2. DOMAIN run[r].targets = 1 .. Len(run[r].targets) /\ Len(run[r].targets) \in Nat
    BY <1>2, LenProperties
  <2> QED BY <1>2, <2>1, <2>2
<1>4. row \in TargetRow /\ row.plot \in DebitPlot /\ row.line \in DOMAIN file
  BY <1>1, <1>2, <1>3 DEF ApplyingHolds
<1>5. /\ W1 \in Seq(TargetRow)
      /\ \A n \in DOMAIN W1 :
           \/ n \in DOMAIN W /\ W1[n] = W[n]
           \/ n = Len(W) + 1 /\ W1[n] = row /\ (row.status = "failed" \/ fits)
  BY <1>2, <1>4, AppendProperties
<1>6. /\ run'[r].done = done + 1 /\ run'[r].written = W1 /\ run'[r].targets = run[r].targets
      /\ run'[r].pc = run[r].pc /\ run'[r] \in Applying
      /\ \A q \in Applier \ {r} : run'[q] = run[q]
      /\ run' \in [Applier -> Applying \cup {Debit!NoJob}]
  <2> HIDE DEF W1
  <2>1. run'[r] = [run[r] EXCEPT !.done = @ + 1, !.written = W1]
    BY <1>0 DEF DebitTypes
  <2> HIDE DEF done
  <2>a. W1 \in Seq(TargetRow) /\ done + 1 \in Nat /\ run[r].done = done
    BY <1>2, <1>5 DEF done
  <2>2. /\ run'[r].done = done + 1 /\ run'[r].written = W1 /\ run'[r].targets = run[r].targets
        /\ run'[r].pc = run[r].pc /\ run'[r] \in Applying
    BY <1>2, <2>a, <2>1 DEF Applying
  <2>3. \A q \in Applier \ {r} : run'[q] = run[q]
    BY <1>0 DEF DebitTypes
  <2> QED BY <1>0, <2>2, <2>3 DEF DebitTypes, done
<1>7. /\ Debit!Running(r)' /\ \A q \in Applier \ {r} : Debit!Running(q)' <=> Debit!Running(q)
      /\ \A q \in Applier : Debit!Running(q)' <=> Debit!Running(q)
  BY <1>1, <1>6 DEF Debit!Running
<1>8. DebitTypes' /\ FileHolds' /\ OneApplies'
  BY <1>1, <1>6, <1>7 DEF DebitTypes, FileHolds, OneApplies, Applying, Debit!NoJob,
                          Debit!derivePayerCode
<1> HIDE DEF W1, W, row, done, fits
<1>9. ApplyingHolds'
  <2>1. ASSUME NEW n \in DOMAIN W1
        PROVE  \E k \in 1 .. done + 1 : W1[n] = run[r].targets[k]
    <3>1. 1 .. done \subseteq 1 .. done + 1 /\ done + 1 \in 1 .. done + 1
      BY <1>2
    <3>2. CASE n \in DOMAIN W /\ W1[n] = W[n]
      BY <1>1, <3>1, <3>2 DEF ApplyingHolds, W, done
    <3>3. CASE W1[n] = row
      BY <3>1, <3>3 DEF row
    <3> QED BY <1>5, <3>2, <3>3
  <2>2. ASSUME NEW n \in DOMAIN W PROVE W[n].plot # row.plot
    <3>1. PICK k \in 1 .. done : W[n] = run[r].targets[k]
      BY <1>1 DEF ApplyingHolds, W, done
    <3>2. k \in DOMAIN run[r].targets /\ k # done + 1
      BY <1>1, <1>2, <1>3, LenProperties DEF ApplyingHolds, done
    <3> QED BY <1>1, <1>3, <3>1, <3>2 DEF ApplyingHolds, row
  <2>3. ASSUME NEW m \in DOMAIN W1, NEW n \in DOMAIN W1, W1[m].plot = W1[n].plot
        PROVE  m = n
    <3>1. \A j, k \in DOMAIN W : W[j].plot = W[k].plot => j = k
      BY <1>1 DEF ApplyingHolds, W
    <3> QED BY <1>5, <2>2, <2>3, <3>1
  <2>4. done + 1 <= Len(run[r].targets)
    BY <1>2, <1>3, LenProperties
  <2>5. ASSUME NEW q \in Applier, Debit!Running(q)'
        PROVE  /\ answered' /\ run'[q].done <= Len(run'[q].targets)
               /\ \A n \in DOMAIN run'[q].targets : run'[q].targets[n].line \in DOMAIN file'
               /\ \A m, n \in DOMAIN run'[q].targets :
                    run'[q].targets[m].plot = run'[q].targets[n].plot => m = n
               /\ \A n \in DOMAIN run'[q].written :
                    \E k \in 1 .. run'[q].done : run'[q].written[n] = run'[q].targets[k]
               /\ \A m, n \in DOMAIN run'[q].written :
                    run'[q].written[m].plot = run'[q].written[n].plot => m = n
    <3>1. CASE q = r
      <4>1. answered' /\ DOMAIN file' = DOMAIN file /\ run'[q].done <= Len(run'[q].targets)
        BY <1>1, <1>6, <2>4, <3>1 DEF ApplyingHolds
      <4>2. \A n \in DOMAIN run'[q].targets : run'[q].targets[n].line \in DOMAIN file'
        BY <1>1, <1>6, <3>1 DEF ApplyingHolds
      <4>3. \A m, n \in DOMAIN run'[q].targets :
              run'[q].targets[m].plot = run'[q].targets[n].plot => m = n
        BY <1>1, <1>6, <3>1 DEF ApplyingHolds
      <4> QED BY <1>6, <2>1, <2>3, <3>1, <4>1, <4>2, <4>3
    <3>2. CASE q # r
      <4>1. run'[q] = run[q] /\ Debit!Running(q)
        BY <1>6, <1>7, <2>5, <3>2
      <4>2. UNCHANGED <<file, answered>>
        BY <1>1
      <4> QED BY <4>1, <4>2 DEF ApplyingHolds
    <3> QED BY <3>1, <3>2
  <2> QED BY <2>5 DEF ApplyingHolds
<1>10. /\ row.bill \in Bill /\ BillAmount[row.bill] \in Nat /\ bill[row.bill].paid \in Nat
       /\ debited[row.bill] \in Nat /\ file[row.line].amount \in Nat
  BY <1>4, RowsTyped DEF DebitTypes, BillRow, TargetRow, Debit!DebitAssumption
<1>11. ~overlapped /\ fits => Fits(row)
  <2> SUFFICES ASSUME ~overlapped, fits PROVE Fits(row)
    OBVIOUS
  <2>1. bill[row.bill].paid + file[row.line].amount <= BillAmount[row.bill]
    BY <1>10 DEF fits, Debit!StillFits, Debit!remainingAmount
  <2>2. debited[row.bill] <= bill[row.bill].paid
    BY <1>10 DEF RoomHolds
  <2> QED BY <1>10, <2>1, <2>2 DEF Fits
<1>12. RoomHolds'
  <2> SUFFICES ASSUME ~overlapped' PROVE RoomHolds'
    BY DEF RoomHolds
  <2>1. Debit!NeverBeyond' /\ \A c \in Bill : debited'[c] <= bill'[c].paid
    BY <1>1 DEF RoomHolds, Debit!NeverBeyond
  <2>2. \A q \in Applier : Debit!Running(q)' => q = r
    BY <1>1, <1>7 DEF OneApplies
  <2>3. ASSUME NEW n \in DOMAIN W1, W1[n].status = "will_record" PROVE Fits(W1[n])
    <3>1. CASE n \in DOMAIN W /\ W1[n] = W[n]
      BY <1>1, <2>3, <3>1 DEF RoomHolds, W
    <3>2. CASE W1[n] = row /\ (row.status = "failed" \/ fits)
      BY <1>1, <1>11, <2>3, <3>2
    <3> QED BY <1>5, <3>1, <3>2
  <2>4. \A n \in DOMAIN run'[r].written :
          run'[r].written[n].status = "will_record" => Fits(run[r].written[n])'
    BY <1>1, <1>6, <2>3 DEF Fits
  <2> QED BY <2>1, <2>2, <2>4 DEF RoomHolds
<1>13. PlansAgree'
  <2> SUFFICES ASSUME ~changed' PROVE \E f \in Debit!matchCandidates' : Agrees(f)'
    BY DEF PlansAgree
  <2>1. PICK of \in Debit!matchCandidates : Agrees(of)
    BY <1>1 DEF PlansAgree, Unplanned
  <2>2. Debit!matchCandidates' = Debit!matchCandidates
    BY <1>1, SameMatches
  <2>3. \A q \in Applier : Debit!Running(q) => run'[q].targets = run[q].targets
    BY <1>6
  <2>a. UNCHANGED credited
    BY <1>1
  <2>4. Agrees(of)'
    BY <1>7, <2>a, <2>1, <2>3 DEF Agrees
  <2> QED BY <2>2, <2>4
<1> QED BY <1>8, <1>9, <1>12, <1>13

\* What a chunk leaves: each row it wrote is on its invoice, and on no other.
LEMMA Committed ==
    ASSUME DebitTypes, FileHolds, ApplyingHolds, NEW r \in Applier, Debit!CommitChunk(r)
    PROVE  LET W == run[r].written
           IN  /\ \A n \in DOMAIN W : bill'[W[n].bill] = Debit!After(W[n], bill[W[n].bill])
               /\ \A b \in Bill : (\A n \in DOMAIN W : W[n].bill # b) => bill'[b] = bill[b]
               /\ \A l \in DebitPlot :
                    \/ credited'[l] = credited[l]
                    \/ \E n \in DOMAIN W : /\ W[n].line = l /\ W[n].status = "will_record"
                                           /\ credited'[l] = Append(credited[l], W[n])
<1> DEFINE W == run[r].written
           of(b) == {n \in DOMAIN W : W[n].bill = b}
           to(l) == {n \in DOMAIN W : W[n].line = l /\ W[n].status = "will_record"}
<1>1. /\ bill' = [b \in Bill |-> IF of(b) = {} THEN bill[b]
                                      ELSE Debit!After(W[CHOOSE n \in of(b) : TRUE], bill[b])]
      /\ credited' = [l \in DebitPlot |-> IF to(l) = {} THEN credited[l]
                                          ELSE Append(credited[l], W[CHOOSE n \in to(l) : TRUE])]
      /\ Debit!Running(r)
  BY DEF Debit!CommitChunk, Debit!Line
<1>2. /\ \A n \in DOMAIN W : W[n].bill \in Bill
      /\ \A m, n \in DOMAIN W : W[m].bill = W[n].bill => m = n
  BY <1>1, RowsTyped DEF ApplyingHolds
<1> HIDE DEF W
<1>3. \A b : of(b) # {} => (CHOOSE n \in of(b) : TRUE) \in of(b)
  OBVIOUS
<1>4. \A l : to(l) # {} => (CHOOSE n \in to(l) : TRUE) \in to(l)
  OBVIOUS
<1>5. ASSUME NEW n \in DOMAIN W PROVE bill'[W[n].bill] = Debit!After(W[n], bill[W[n].bill])
  <2> DEFINE b == W[n].bill
             c == CHOOSE m \in of(b) : TRUE
  <2>1. n \in of(b)
    OBVIOUS
  <2>2. c \in of(b)
    BY <1>3, <2>1
  <2>3. c = n
    BY <1>2, <2>2
  <2> HIDE DEF c
  <2>4. of(b) # {} /\ b \in Bill
    BY <1>2, <2>1
  <2>5. bill'[b] = Debit!After(W[c], bill[b])
    BY <1>1, <2>4 DEF c
  <2> QED BY <2>3, <2>5
<1>6. ASSUME NEW b \in Bill, \A n \in DOMAIN W : W[n].bill # b PROVE bill'[b] = bill[b]
  BY <1>1, <1>6
<1>7. ASSUME NEW l \in DebitPlot, to(l) # {}
      PROVE  \E n \in DOMAIN W : /\ W[n].line = l /\ W[n].status = "will_record"
                                 /\ credited'[l] = Append(credited[l], W[n])
  <2> DEFINE c == CHOOSE m \in to(l) : TRUE
  <2>1. c \in to(l)
    BY <1>4, <1>7
  <2>2. credited'[l] = Append(credited[l], W[c])
    BY <1>1, <1>7
  <2> HIDE DEF c
  <2> QED BY <2>1, <2>2
<1>8. \A l \in DebitPlot : to(l) = {} => credited'[l] = credited[l]
  BY <1>1
<1> QED BY <1>5, <1>6, <1>7, <1>8 DEF W

LEMMA DebitCommit ==
    ASSUME Debit!DebitAssumption, DebitInv, NEW r \in Applier, Debit!CommitChunk(r)
    PROVE  DebitInv'
<1> USE DEF DebitInv
<1> DEFINE W == run[r].written
           new == IF run[r].done = Len(run[r].targets) THEN Debit!NoJob
                  ELSE [run[r] EXCEPT !.start = run[r].done, !.written = <<>>]
<1>0. run' = [run EXCEPT ![r] = new]
  BY DEF Debit!CommitChunk
<1>1. /\ Debit!Running(r)
      /\ debited' = [b \in Bill |-> debited[b] + bill'[b].paid - bill[b].paid]
      /\ UNCHANGED <<payer, active, file, answered, applies, changed, overlapped, raced>>
  BY DEF Debit!CommitChunk
<1>2. /\ run[r] \in Applying /\ W \in Seq(TargetRow) /\ run[r].targets \in Seq(TargetRow)
      /\ \A n \in DOMAIN W : /\ W[n] \in TargetRow /\ W[n].bill \in Bill
                             /\ W[n].line \in DebitPlot
  BY <1>1, RowsTyped
<1>3. \A n \in DOMAIN W : \E k \in DOMAIN run[r].targets : W[n] = run[r].targets[k]
  <2>1. \A k \in 1 .. run[r].done : k \in DOMAIN run[r].targets
    <3>1. run[r].done <= Len(run[r].targets) /\ run[r].done \in Nat
      BY <1>1, RowsTyped DEF ApplyingHolds
    <3>2. DOMAIN run[r].targets = 1 .. Len(run[r].targets) /\ Len(run[r].targets) \in Nat
      BY <1>2, LenProperties
    <3> QED BY <3>1, <3>2
  <2> QED BY <1>1, <2>1 DEF ApplyingHolds
<1>4. \A n \in DOMAIN W : W[n].line \in DOMAIN file /\ file[W[n].line].amount \in Nat
  BY <1>1, <1>3, RowsTyped DEF ApplyingHolds
<1>5. /\ \A n \in DOMAIN W : bill'[W[n].bill] = Debit!After(W[n], bill[W[n].bill])
      /\ \A b \in Bill : (\A n \in DOMAIN W : W[n].bill # b) => bill'[b] = bill[b]
      /\ \A l \in DebitPlot :
           \/ credited'[l] = credited[l]
           \/ \E n \in DOMAIN W : /\ W[n].line = l /\ W[n].status = "will_record"
                                  /\ credited'[l] = Append(credited[l], W[n])
  BY Committed
<1>6. /\ \A q \in Applier : Debit!Running(q)' =>
           Debit!Running(q) /\ run'[q].targets = run[q].targets /\ run'[q].done = run[q].done
      /\ \A q \in Applier \ {r} : run'[q] = run[q]
      /\ Debit!Running(r)' => run'[r].written = <<>>
      /\ run' \in [Applier -> Applying \cup {Debit!NoJob}]
  <2>1. new \in Applying \cup {Debit!NoJob}
    <3>1. run[r].done \in Nat /\ <<>> \in Seq(TargetRow)
      BY <1>1, RowsTyped, EmptySeq
    <3> QED BY <1>2, <3>1 DEF Applying
  <2>2. /\ new.pc # "none" => /\ new.targets = run[r].targets /\ new.done = run[r].done
                              /\ new.written = <<>>
        /\ run'[r] = new /\ \A q \in Applier \ {r} : run'[q] = run[q]
    BY <1>0, <1>2 DEF DebitTypes, Debit!NoJob, Applying
  <2> HIDE DEF new
  <2> QED BY <1>0, <1>1, <2>1, <2>2 DEF DebitTypes, Debit!Running
<1> HIDE DEF new, W
<1>7. \A b \in Bill : /\ bill[b] \in BillRow /\ bill[b].paid \in Nat /\ BillAmount[b] \in Nat
                      /\ debited[b] \in Nat
  BY DEF DebitTypes, BillRow, Debit!DebitAssumption
<1>8. \A n \in DOMAIN W : LET b == bill[W[n].bill] c == bill'[W[n].bill]
                          IN  /\ c \in BillRow
                              /\ W[n].status = "failed" => c.paid = b.paid
                              /\ W[n].status = "will_record" =>
                                   c.paid = b.paid + file[W[n].line].amount
  <2>1. ASSUME NEW x \in TargetRow, NEW b \in BillRow, file[x.line].amount \in Nat
        PROVE  /\ Debit!After(x, b) \in BillRow
               /\ x.status = "failed" => Debit!After(x, b).paid = b.paid
               /\ x.status = "will_record" =>
                    Debit!After(x, b).paid = b.paid + file[x.line].amount
    BY <2>1 DEF Debit!After, Debit!failedNoteLine, BillRow
  <2> QED BY <1>2, <1>4, <1>5, <1>7, <2>1
<1>9. \A n \in DOMAIN W : W[n].status \in {"failed", "will_record"}
  BY <1>2 DEF TargetRow
<1>10. bill' \in [Bill -> BillRow]
  <2>1. \A b \in Bill : bill'[b] \in BillRow
    BY <1>5, <1>7, <1>8
  <2>2. bill' = [b \in Bill |-> bill'[b]]
    BY DEF Debit!CommitChunk
  <2> QED BY <2>1, <2>2
\* What a chunk adds to an invoice: nothing, or the amount of a row that fitted.
<1>11. ASSUME NEW b \in Bill
       PROVE  \/ bill'[b].paid = bill[b].paid /\ debited'[b] = debited[b]
              \/ \E n \in DOMAIN W :
                   /\ W[n].bill = b /\ W[n].status = "will_record"
                   /\ bill'[b].paid = bill[b].paid + file[W[n].line].amount
                   /\ debited'[b] = debited[b] + file[W[n].line].amount
  <2>0. debited'[b] = debited[b] + bill'[b].paid - bill[b].paid
    BY <1>1
  <2>1. CASE \A n \in DOMAIN W : W[n].bill # b
    BY <1>5, <1>7, <2>0, <2>1
  <2>2. ASSUME NEW n \in DOMAIN W, W[n].bill = b, W[n].status = "failed"
        PROVE  bill'[b].paid = bill[b].paid /\ debited'[b] = debited[b]
    BY <1>7, <1>8, <2>0, <2>2
  <2>3. ASSUME NEW n \in DOMAIN W, W[n].bill = b, W[n].status = "will_record"
        PROVE  /\ bill'[b].paid = bill[b].paid + file[W[n].line].amount
               /\ debited'[b] = debited[b] + file[W[n].line].amount
    BY <1>4, <1>7, <1>8, <2>0, <2>3
  <2> QED BY <1>9, <2>1, <2>2, <2>3
<1>a. debited' \in [Bill -> Nat]
  <2>1. \A b \in Bill : debited'[b] \in Nat
    BY <1>4, <1>7, <1>11
  <2> QED BY <1>1, <2>1
<1>12. credited' \in [DebitPlot -> Seq(TargetRow)]
  <2>1. \A l \in DebitPlot : credited'[l] \in Seq(TargetRow)
    <3>1. \A l \in DebitPlot : credited[l] \in Seq(TargetRow)
      BY DEF DebitTypes
    <3>2. \A s \in Seq(TargetRow), x \in TargetRow : Append(s, x) \in Seq(TargetRow)
      BY AppendProperties
    <3>3. \A n \in DOMAIN W : W[n] \in TargetRow
      BY <1>2
    <3> QED BY <1>5, <3>1, <3>2, <3>3
  <2>2. credited' = [l \in DebitPlot |-> credited'[l]]
    BY DEF Debit!CommitChunk, Debit!Line
  <2> QED BY <2>1, <2>2
<1>13. DebitTypes'
  BY <1>1, <1>6, <1>10, <1>12, <1>a DEF DebitTypes, Applying, Debit!NoJob
<1>14. answered
  BY <1>1 DEF ApplyingHolds
<1>15. FileHolds'
  BY <1>1, <1>14 DEF FileHolds, Debit!derivePayerCode
<1>16. OneApplies'
  BY <1>1, <1>6 DEF OneApplies
<1>17. \A q \in Applier : Debit!Running(q)' =>
         run'[q].written = run[q].written \/ run'[q].written = <<>>
  BY <1>6
<1>18. ApplyingHolds'
  <2>1. ASSUME NEW q \in Applier, Debit!Running(q)'
        PROVE  /\ answered' /\ run'[q].done <= Len(run'[q].targets)
               /\ \A n \in DOMAIN run'[q].targets : run'[q].targets[n].line \in DOMAIN file'
               /\ \A m, n \in DOMAIN run'[q].targets :
                    run'[q].targets[m].plot = run'[q].targets[n].plot => m = n
               /\ \A n \in DOMAIN run'[q].written :
                    \E k \in 1 .. run'[q].done : run'[q].written[n] = run'[q].targets[k]
               /\ \A m, n \in DOMAIN run'[q].written :
                    run'[q].written[m].plot = run'[q].written[n].plot => m = n
    <3>1. /\ Debit!Running(q) /\ run'[q].targets = run[q].targets /\ run'[q].done = run[q].done
          /\ UNCHANGED <<file, answered>>
      BY <1>1, <1>6, <2>1
    <3>2. /\ answered' /\ run'[q].done <= Len(run'[q].targets)
          /\ \A n \in DOMAIN run'[q].targets : run'[q].targets[n].line \in DOMAIN file'
          /\ \A m, n \in DOMAIN run'[q].targets :
               run'[q].targets[m].plot = run'[q].targets[n].plot => m = n
      BY <3>1 DEF ApplyingHolds
    <3>3. CASE run'[q].written = <<>>
      <4>1. DOMAIN run'[q].written = {}
        BY <3>3
      <4> QED BY <3>2, <4>1
    <3>4. CASE run'[q].written = run[q].written
      BY <3>1, <3>2, <3>4 DEF ApplyingHolds
    <3> QED BY <1>17, <2>1, <3>3, <3>4
  <2> QED BY <2>1 DEF ApplyingHolds
<1>19. ~overlapped => \A q \in Applier : Debit!Running(q)' => DOMAIN run'[q].written = {}
  <2>1. ~overlapped => \A q \in Applier : Debit!Running(q)' => q = r
    BY <1>1, <1>6 DEF OneApplies
  <2> QED BY <1>6, <2>1
<1>20. RoomHolds'
  <2> SUFFICES ASSUME ~overlapped PROVE RoomHolds'
    BY <1>1 DEF RoomHolds
  <2>1. ASSUME NEW b \in Bill
        PROVE  /\ debited'[b] <= BillAmount[b] /\ debited'[b] <= bill'[b].paid
               /\ b \notin raced => ~(bill'[b].paid > BillAmount[b])
    <3>1. CASE bill'[b].paid = bill[b].paid /\ debited'[b] = debited[b]
      BY <1>1, <3>1 DEF RoomHolds, Debit!NeverBeyond
    <3>2. ASSUME NEW n \in DOMAIN W, W[n].bill = b, W[n].status = "will_record",
                 bill'[b].paid = bill[b].paid + file[W[n].line].amount,
                 debited'[b] = debited[b] + file[W[n].line].amount
          PROVE  /\ debited'[b] <= BillAmount[b] /\ debited'[b] <= bill'[b].paid
                 /\ b \notin raced => ~(bill'[b].paid > BillAmount[b])
      <4>1. Fits(W[n]) /\ debited[b] <= bill[b].paid
        BY <1>1, <3>2 DEF RoomHolds, W
      <4> QED BY <1>4, <1>7, <3>2, <4>1 DEF Fits
    <3> QED BY <1>11, <3>1, <3>2
  <2>2. Debit!NeverBeyond' /\ \A b \in Bill : debited'[b] <= bill'[b].paid
    BY <1>1, <2>1 DEF Debit!NeverBeyond
  <2> QED BY <1>19, <2>2 DEF RoomHolds
<1>21. ASSUME ~changed
       PROVE  \E of \in Debit!matchCandidates :
                Agrees(of) /\ \A l \in DebitPlot : \A n \in DOMAIN credited'[l] :
                                credited'[l][n].plot = of[l]
  <2>1. PICK of \in Debit!matchCandidates : Agrees(of)
    BY <1>1, <1>21 DEF PlansAgree, Unplanned
  <2>2. \A n \in DOMAIN W : W[n].plot = of[W[n].line]
    BY <1>1, <1>3, <2>1 DEF Agrees
  <2>3. ASSUME NEW l \in DebitPlot, NEW n \in DOMAIN credited'[l]
        PROVE  credited'[l][n].plot = of[l]
    <3>1. CASE credited'[l] = credited[l]
      BY <2>1, <3>1 DEF Agrees
    <3>2. ASSUME NEW m \in DOMAIN W, W[m].line = l, credited'[l] = Append(credited[l], W[m])
          PROVE  credited'[l][n].plot = of[l]
      <4>1. credited[l] \in Seq(TargetRow) /\ W[m] \in TargetRow
        BY <1>2 DEF DebitTypes
      <4>2. \/ n \in DOMAIN credited[l] /\ credited'[l][n] = credited[l][n]
            \/ credited'[l][n] = W[m]
        BY <3>2, <4>1, AppendProperties
      <4> QED BY <2>1, <2>2, <3>2, <4>2 DEF Agrees
    <3> QED BY <1>5, <3>1, <3>2
  <2> QED BY <2>1, <2>3
<1>22. PlansAgree'
  <2> SUFFICES ASSUME ~changed PROVE \E of \in Debit!matchCandidates' : Agrees(of)'
    BY <1>1 DEF PlansAgree
  <2>1. PICK of \in Debit!matchCandidates :
          Agrees(of) /\ \A l \in DebitPlot : \A n \in DOMAIN credited'[l] :
                          credited'[l][n].plot = of[l]
    BY <1>21
  <2>2. Debit!matchCandidates' = Debit!matchCandidates
    BY <1>1, SameMatches
  <2>3. Agrees(of)'
    BY <1>6, <2>1 DEF Agrees
  <2> QED BY <2>1, <2>2, <2>3
<1> QED BY <1>13, <1>15, <1>16, <1>18, <1>20, <1>22

LEMMA DebitStutter ==
    ASSUME DebitInv, UNCHANGED Debit!vars PROVE DebitInv'
<1> USE DEF DebitInv
<1>1. UNCHANGED <<payer, active, bill, file, answered, run, applies, credited, debited, changed,
                  overlapped, raced>>
  BY DEF Debit!vars, Debit!office, Debit!history
<1>2. DebitTypes'
  BY <1>1 DEF DebitTypes
<1>3. FileHolds' /\ ApplyingHolds' /\ OneApplies' /\ PlansAgree'
  BY <1>1, OfficeSame
<1>4. RoomHolds'
  BY <1>1 DEF RoomHolds, Fits, Debit!NeverBeyond, Debit!Running
<1> QED BY <1>2, <1>3, <1>4

LEMMA DebitStep ==
    ASSUME Debit!DebitAssumption, DebitInv, [Debit!Next]_(Debit!vars) PROVE DebitInv'
<1>1. ASSUME NEW status \in {"all", "unbilled"}, Debit!buildZenginFile(status) PROVE DebitInv'
  BY <1>1, DebitFile
<1>2. CASE Debit!BankAnswers
  BY <1>2, DebitAnswers
<1>3. ASSUME NEW r \in Applier, NEW a \in DebitPlot, NEW b \in DebitPlot,
             Debit!applyYuchoResult(r, a, b)
      PROVE  DebitInv'
  BY <1>3, DebitPlanned
<1>4. ASSUME NEW r \in Applier, Debit!ApplyRow(r) PROVE DebitInv'
  BY <1>4, DebitRow
<1>5. ASSUME NEW r \in Applier, Debit!CommitChunk(r) PROVE DebitInv'
  BY <1>5, DebitCommit
<1>6. ASSUME NEW r \in Applier, Debit!Stop(r) PROVE DebitInv'
  BY <1>6, DebitStop
<1>7. ASSUME NEW b \in Bill, Debit!CounterPayment(b) PROVE DebitInv'
  BY <1>7, DebitCounter
<1>8. ASSUME NEW p \in DebitPlot, NEW c \in Customer,
             Debit!changeContractor(p, c) \/ Debit!terminateContract(p)
      PROVE  DebitInv'
  BY <1>8, DebitPeople
<1>9. ASSUME NEW p \in DebitPlot, Debit!terminateContract(p) PROVE DebitInv'
  <2>1. PICK c \in Customer : TRUE
    BY DEF DebitInv, DebitTypes
  <2> QED BY <1>8, <1>9
<1>10. ASSUME NEW b \in Bill,
              \/ Debit!createBilling(b)
              \/ \E state \in {"terminated", "written_off"} : Debit!updateBilling(b, state)
       PROVE  DebitInv'
  BY <1>10, DebitBill
<1>11. CASE UNCHANGED Debit!vars
  BY <1>11, DebitStutter
<1> QED BY <1>1, <1>2, <1>3, <1>4, <1>5, <1>6, <1>7, <1>8, <1>9, <1>10, <1>11
        DEF Debit!Next, Debit!Line

\* In every reachable state of the debit: the inductive invariant.
LEMMA DebitInvariant ==
    ASSUME Debit!DebitAssumption PROVE Debit!Spec => []DebitInv
<1>1. Debit!Init => DebitInv
  BY DebitInit
<1>2. DebitInv /\ [Debit!Next]_(Debit!vars) => DebitInv'
  BY DebitStep
<1> QED BY <1>1, <1>2, PTL DEF Debit!Spec

\* However often a file is applied, the debits of an invoice never add up to more than its
\* amount, and with the receipts of the counter they only do when one was written while the
\* chunk was open: each chunk reads its invoices again before it writes.  Requests to apply
\* that run at once are left out.
THEOREM DebitsNeverBeyond ==
    ASSUME Debit!DebitAssumption PROVE Debit!Spec => []NeverBeyond
<1>1. DebitInv => NeverBeyond
  BY DEF DebitInv, RoomHolds, Debit!NeverBeyond, NeverBeyond
<1> QED BY <1>1, DebitInvariant, PTL

\* While payers and contracts stand, a line that kept its code is recorded on the plot it
\* was sent for.
THEOREM DebitsOwnPlot ==
    ASSUME Debit!DebitAssumption PROVE Debit!Spec => []OwnPlot
<1>1. ASSUME DebitInv PROVE OwnPlot
  <2> USE DEF DebitInv
  <2> SUFFICES ASSUME ~changed, NEW l \in DOMAIN file, file[l].code # Null,
                      NEW n \in DOMAIN credited[l]
               PROVE  credited[l][n].plot = file[l].plot
    BY DEF Debit!OwnPlot, OwnPlot
  <2>1. l \in DebitPlot /\ credited[l] # <<>>
    BY <1>1 DEF FileHolds
  <2>2. \A m \in DOMAIN file : file[m].code # Null
    BY <1>1 DEF FileHolds
  <2>3. PICK of \in Debit!matchCandidates : Agrees(of)
    BY <1>1, <2>1 DEF PlansAgree, Unplanned
  <2>4. of[l] = file[l].plot
    BY <1>1, <2>2, MatchesOwn
  <2> QED BY <2>1, <2>3, <2>4 DEF Agrees
<1> QED BY <1>1, DebitInvariant, PTL
=============================================================================
