------------------------------- MODULE DataFacts -------------------------------
(* Facts about the data the models are built from: sums of finitely many natural
   numbers, and some of the rows of a list. *)
EXTENDS Sums, Rows, FiniteSetTheorems, SequenceTheorems, TLAPS

\* The sum of finitely many natural numbers is a natural number.
LEMMA SumType ==
    ASSUME NEW D, IsFiniteSet(D), NEW f \in [D -> Nat]
    PROVE  IsFiniteSet(Units(f)) /\ SumOf(f) \in Nat
<1> DEFINE unit(y) == {y} \X (1 .. f[y])
           U == {unit(y) : y \in D}
           g == [y \in D |-> unit(y)]
<1>1. \A y \in D : IsFiniteSet(unit(y))
  <2> SUFFICES ASSUME NEW y \in D PROVE IsFiniteSet(unit(y))
    OBVIOUS
  <2>1. IsFiniteSet({y})
    BY FS_Singleton
  <2>2. f[y] \in Nat
    OBVIOUS
  <2>3. IsFiniteSet(1 .. f[y])
    BY <2>2, FS_Interval
  <2> QED
    BY <2>1, <2>3, FS_Product
<1>2. IsFiniteSet(U)
  <2>1. g \in Surjection(D, U)
    BY DEF Surjection
  <2> QED
    BY <2>1, FS_Surjection
<1>3. IsFiniteSet(UNION U)
  BY <1>1, <1>2, FS_UNION
<1>4. Units(f) = UNION U
  BY DEF Units
<1> QED
  BY <1>3, <1>4, FS_CardinalityType DEF SumOf

\* Leaving terms out makes a sum no larger.
LEMMA SumMonotone ==
    ASSUME NEW D, IsFiniteSet(D), NEW f \in [D -> Nat],
           NEW E \in SUBSET D, NEW g \in [E -> Nat], \A y \in E : g[y] <= f[y]
    PROVE  SumOf(g) <= SumOf(f)
<1>1. IsFiniteSet(Units(f)) /\ SumOf(f) \in Nat
  BY SumType
<1>2. Units(g) \subseteq Units(f)
  <2> SUFFICES ASSUME NEW y \in E, NEW i \in 1 .. g[y]
               PROVE  <<y, i>> \in Units(f)
    BY DEF Units
  <2>1. y \in D /\ i \in 1 .. f[y]
    OBVIOUS
  <2> QED
    BY <2>1 DEF Units
<1> QED
  BY <1>1, <1>2, FS_Subset DEF SumOf

\* The sum of one term.
LEMMA SumSingleton ==
    ASSUME NEW y, NEW n \in Nat
    PROVE  SumOf([z \in {y} |-> n]) = n
<1> DEFINE f == [z \in {y} |-> n]
<1>1. Units(f) = {y} \X (1 .. n)
  BY DEF Units
<1>2. IsFiniteSet({y}) /\ Cardinality({y}) = 1
  BY FS_Singleton
<1>3. IsFiniteSet(1 .. n) /\ Cardinality(1 .. n) = n
  BY FS_Interval
<1>4. Cardinality({y} \X (1 .. n)) = 1 * n
  BY <1>2, <1>3, FS_Product
<1> QED
  BY <1>1, <1>4 DEF SumOf

\* Nothing sums to zero.
LEMMA SumEmpty ==
    ASSUME NEW f, DOMAIN f = {}
    PROVE  SumOf(f) = 0
BY FS_EmptySet DEF SumOf, Units

\* A term more adds itself to the sum.
LEMMA SumInsert ==
    ASSUME NEW D, IsFiniteSet(D), NEW f \in [D -> Nat], NEW y \in D
    PROVE  SumOf(f) = SumOf([z \in D \ {y} |-> f[z]]) + f[y]
<1> DEFINE g == [z \in D \ {y} |-> f[z]]
           h == [z \in {y} |-> f[y]]
<1>1. IsFiniteSet(D \ {y})
  BY FS_RemoveElement
<1>2. g \in [D \ {y} -> Nat]
  OBVIOUS
<1>3. IsFiniteSet(Units(g)) /\ SumOf(g) \in Nat
  BY <1>1, <1>2, SumType
<1>4. IsFiniteSet({y}) /\ h \in [{y} -> Nat]
  BY FS_Singleton
<1>5. IsFiniteSet(Units(h))
  BY <1>4, SumType
<1>6. Units(f) = Units(g) \cup Units(h)
  <2>1. ASSUME NEW u \in Units(f) PROVE u \in Units(g) \cup Units(h)
    <3>1. PICK z \in D : u \in {z} \X (1 .. f[z])
      BY <2>1 DEF Units
    <3>2. CASE z = y
      BY <3>1, <3>2 DEF Units
    <3>3. CASE z # y
      BY <3>1, <3>3 DEF Units
    <3> QED
      BY <3>2, <3>3
  <2>2. ASSUME NEW u \in Units(g) \cup Units(h) PROVE u \in Units(f)
    <3>1. CASE u \in Units(g)
      <4>1. PICK z \in D \ {y} : u \in {z} \X (1 .. g[z])
        BY <3>1 DEF Units
      <4> QED
        BY <4>1 DEF Units
    <3>2. CASE u \in Units(h)
      BY <3>2 DEF Units
    <3> QED
      BY <2>2, <3>1, <3>2
  <2> QED
    BY <2>1, <2>2
<1>7. Units(g) \cap Units(h) = {}
  <2> SUFFICES ASSUME NEW u, u \in Units(g), u \in Units(h) PROVE FALSE
    OBVIOUS
  <2>1. PICK z \in D \ {y} : u \in {z} \X (1 .. g[z])
    BY DEF Units
  <2>2. u \in {y} \X (1 .. f[y])
    BY DEF Units
  <2> QED
    BY <2>1, <2>2
<1>8. Cardinality(Units(f)) = Cardinality(Units(g)) + Cardinality(Units(h))
                               - Cardinality(Units(g) \cap Units(h))
  BY <1>3, <1>5, <1>6, FS_Union
<1>9. Cardinality(Units(g) \cap Units(h)) = 0
  BY <1>7, FS_EmptySet
<1>10. Cardinality(Units(h)) = f[y]
  BY SumSingleton DEF SumOf
<1> QED
  BY <1>3, <1>8, <1>9, <1>10 DEF SumOf

\* The units of a sum, spelled out.
LEMMA UnitOf ==
    ASSUME NEW D, NEW f \in [D -> Nat], NEW u
    PROVE  u \in Units(f) <=> \E y \in D : \E i \in 1 .. f[y] : u = <<y, i>>
BY DEF Units

\* Terms that are nothing may be left out.
LEMMA SumWithoutZeros ==
    ASSUME NEW D, NEW f \in [D -> Nat], NEW E \in SUBSET D,
           \A y \in D \ E : f[y] = 0
    PROVE  SumOf([y \in E |-> f[y]]) = SumOf(f)
<1> DEFINE g == [y \in E |-> f[y]]
<1>1. g \in [E -> Nat] /\ \A y \in E : g[y] = f[y]
  OBVIOUS
<1> HIDE DEF g
<1>2. \A u : u \in Units(g) <=> u \in Units(f)
  <2> TAKE u
  <2>1. u \in Units(g) <=> \E y \in E : \E i \in 1 .. g[y] : u = <<y, i>>
    BY <1>1, UnitOf
  <2>2. u \in Units(f) <=> \E y \in D : \E i \in 1 .. f[y] : u = <<y, i>>
    BY UnitOf
  <2>3. \A y \in D : y \notin E => 1 .. f[y] = {}
    OBVIOUS
  <2> QED BY <1>1, <2>1, <2>2, <2>3
<1>3. Units(g) = Units(f)
  BY <1>2
<1> QED BY <1>3 DEF SumOf, g

\* The sum of sums is the sum term by term.
LEMMA SumSplit ==
    ASSUME NEW D, IsFiniteSet(D), NEW f \in [D -> Nat], NEW g \in [D -> Nat],
           NEW h \in [D -> Nat], \A y \in D : f[y] = g[y] + h[y]
    PROVE  SumOf(f) = SumOf(g) + SumOf(h)
<1> DEFINE rest == Units(f) \ Units(g)
           moved(u) == <<u[1], u[2] + g[u[1]]>>
           move == [u \in Units(h) |-> moved(u)]
<1>1. /\ IsFiniteSet(Units(f)) /\ SumOf(f) \in Nat
      /\ IsFiniteSet(Units(g)) /\ SumOf(g) \in Nat
      /\ IsFiniteSet(Units(h)) /\ SumOf(h) \in Nat
  BY SumType
<1>2. Units(g) \subseteq Units(f)
  <2> SUFFICES ASSUME NEW y \in D, NEW i \in 1 .. g[y] PROVE <<y, i>> \in Units(f)
    BY UnitOf
  <2>1. i \in 1 .. f[y]
    <3>1. g[y] \in Nat /\ h[y] \in Nat /\ f[y] = g[y] + h[y]
      OBVIOUS
    <3> QED BY <3>1
  <2> QED BY <2>1, UnitOf
<1>3. ASSUME NEW y \in D, NEW i
      PROVE  /\ <<y, i>> \in Units(f) <=> i \in 1 .. f[y]
             /\ <<y, i>> \in Units(g) <=> i \in 1 .. g[y]
             /\ <<y, i>> \in Units(h) <=> i \in 1 .. h[y]
  BY UnitOf
<1>4. ASSUME NEW u \in rest
      PROVE  \E y \in D : \E i \in 1 .. h[y] : u = <<y, i + g[y]>>
  <2>0. PICK y \in D : \E i \in 1 .. f[y] : u = <<y, i>>
    BY UnitOf
  <2>1. PICK i \in 1 .. f[y] : u = <<y, i>>
    BY <2>0
  <2>2. i \notin 1 .. g[y]
    BY <1>3, <2>1
  <2>3. /\ g[y] \in Nat /\ h[y] \in Nat /\ f[y] = g[y] + h[y]
    OBVIOUS
  <2>4. i - g[y] \in 1 .. h[y] /\ i = (i - g[y]) + g[y]
    BY <2>2, <2>3
  <2> QED BY <2>1, <2>4
<1>5. ASSUME NEW y \in D, NEW i \in 1 .. h[y]
      PROVE  <<y, i + g[y]>> \in rest
  <2>1. g[y] \in Nat /\ h[y] \in Nat /\ f[y] = g[y] + h[y]
    OBVIOUS
  <2>2. i + g[y] \in 1 .. f[y] /\ i + g[y] \notin 1 .. g[y]
    BY <2>1
  <2> QED BY <1>3, <2>2
<1> HIDE DEF rest
<1>6. \A u \in Units(h) : \E y \in D : \E i \in 1 .. h[y] :
        u = <<y, i>> /\ moved(u) = <<y, i + g[y]>>
  BY UnitOf
<1>7. move \in [Units(h) -> rest]
  <2>1. \A u \in Units(h) : moved(u) \in rest
    BY <1>5, <1>6
  <2> QED BY <2>1
<1>8. \A u, v \in Units(h) : move[u] = move[v] => u = v
  <2> SUFFICES ASSUME NEW u \in Units(h), NEW v \in Units(h), moved(u) = moved(v)
               PROVE  u = v
    OBVIOUS
  <2>a. PICK y \in D : \E i \in 1 .. h[y] : u = <<y, i>> /\ moved(u) = <<y, i + g[y]>>
    BY <1>6
  <2>b. PICK z \in D : \E k \in 1 .. h[z] : v = <<z, k>> /\ moved(v) = <<z, k + g[z]>>
    BY <1>6
  <2>1. PICK i \in 1 .. h[y] : u = <<y, i>> /\ moved(u) = <<y, i + g[y]>>
    BY <2>a
  <2>2. PICK k \in 1 .. h[z] : v = <<z, k>> /\ moved(v) = <<z, k + g[z]>>
    BY <2>b
  <2>3. y = z /\ i + g[y] = k + g[z] /\ g[y] \in Nat /\ i \in Int /\ k \in Int
    BY <2>1, <2>2
  <2>4. i = k
    BY <2>3
  <2> QED BY <2>1, <2>2, <2>3, <2>4
<1>9. \A t \in rest : \E u \in Units(h) : move[u] = t
  <2> SUFFICES ASSUME NEW t \in rest PROVE \E u \in Units(h) : moved(u) = t
    OBVIOUS
  <2>0. PICK y \in D : \E i \in 1 .. h[y] : t = <<y, i + g[y]>>
    BY <1>4
  <2>1. PICK i \in 1 .. h[y] : t = <<y, i + g[y]>>
    BY <2>0
  <2>2. <<y, i>> \in Units(h) /\ moved(<<y, i>>) = <<y, i + g[y]>>
    BY <1>3
  <2> QED BY <2>1, <2>2
<1> HIDE DEF move
<1>10. IsFiniteSet(rest) /\ Cardinality(rest) = Cardinality(Units(h))
  <2>1. ExistsBijection(Units(h), rest)
    BY <1>7, <1>8, <1>9 DEF ExistsBijection, Bijection, Injection, IsInjective, Surjection
  <2> QED BY <1>1, <2>1, FS_Bijection
<1>11. Units(f) = Units(g) \cup rest /\ Units(g) \cap rest = {}
  BY <1>2 DEF rest
<1>12. Cardinality(Units(g) \cap rest) = 0
  BY <1>11, FS_EmptySet
<1>13. Cardinality(Units(f)) = Cardinality(Units(g)) + Cardinality(rest)
                              - Cardinality(Units(g) \cap rest)
  BY <1>1, <1>10, <1>11, FS_Union
<1> QED BY <1>1, <1>10, <1>12, <1>13 DEF SumOf
-----------------------------------------------------------------------------
\* Among some indexes one comes first.
LEMMA FirstIndex ==
    ASSUME NEW I \in SUBSET Nat, I # {}
    PROVE  \E i \in I : \A j \in I : i <= j
<1>1. PICK i \in I : \A j \in I : <<j, i>> \notin OpToRel(<, Nat)
  BY NatLessThanWellFounded, WFMin
<1>2. \A j \in I : ~(j < i)
  BY <1>1 DEF OpToRel
<1> QED BY <1>2

\* The ranks of finitely many indexes are the numbers up to their number.
LEMMA RankOnto ==
    ASSUME NEW I \in SUBSET Nat, IsFiniteSet(I),
           NEW n \in 1 .. Cardinality(I)
    PROVE  \E i \in I : Cardinality({j \in I : j <= i}) = n
<1> DEFINE below(i) == {j \in I : j <= i}
           rank == [i \in I |-> Cardinality(below(i))]
           R == 1 .. Cardinality(I)
<1>1. Cardinality(I) \in Nat /\ IsFiniteSet(R) /\ Cardinality(R) = Cardinality(I)
  BY FS_CardinalityType, FS_Interval
<1>2. ASSUME NEW i \in I
      PROVE  /\ IsFiniteSet(below(i)) /\ Cardinality(below(i)) \in Nat
             /\ rank[i] \in R
  <2>1. IsFiniteSet(below(i)) /\ Cardinality(below(i)) <= Cardinality(I)
    BY FS_Subset
  <2>2. Cardinality(below(i)) \in Nat
    BY <2>1, FS_CardinalityType
  <2>3. i \in below(i)
    OBVIOUS
  <2>4. Cardinality(below(i)) # 0
    BY <2>1, <2>3, FS_EmptySet
  <2> QED BY <1>1, <2>1, <2>2, <2>4
<1>3. ASSUME NEW i \in I, NEW k \in I, i < k PROVE rank[i] < rank[k]
  <2>1. below(i) \subseteq below(k) /\ k \in below(k) /\ k \notin below(i)
    <3>1. \A j \in I : j \in Int
      OBVIOUS
    <3>2. \A j \in I : j <= i => j <= k
      BY <1>3, <3>1
    <3>3. k <= k /\ ~(k <= i)
      BY <1>3, <3>1
    <3> QED BY <3>2, <3>3
  <2>2. Cardinality(below(i)) <= Cardinality(below(k))
        /\ Cardinality(below(i)) # Cardinality(below(k))
    BY <1>2, <2>1, FS_Subset
  <2> QED BY <1>2, <2>2
<1>4. rank \in Injection(I, R)
  <2>1. rank \in [I -> R]
    BY <1>2
  <2>2. ASSUME NEW i \in I, NEW k \in I, rank[i] = rank[k] PROVE i = k
    <3>1. ~(i < k) /\ ~(k < i)
      BY <1>2, <1>3, <2>2
    <3> QED BY <3>1
  <2> QED BY <2>1, <2>2 DEF Injection, IsInjective
<1>5. rank \in Surjection(I, R)
  BY <1>1, <1>4, FS_Injection
<1> QED BY <1>5 DEF Surjection

\* Picked rows are rows of the list, all those at the indexes, and as many.
LEMMA PickedRows ==
    ASSUME NEW S, NEW rows \in Seq(S), NEW I \in SUBSET DOMAIN rows
    PROVE  /\ Picked(rows, I) \in Seq(S)
           /\ Len(Picked(rows, I)) = Cardinality(I)
           /\ \A n \in DOMAIN Picked(rows, I) : \E i \in I : Picked(rows, I)[n] = rows[i]
           /\ \A i \in I : \E n \in DOMAIN Picked(rows, I) : Picked(rows, I)[n] = rows[i]
<1> DEFINE rank(i) == Cardinality({j \in I : j <= i})
           at(n) == CHOOSE i \in I : rank(i) = n
           N == Cardinality(I)
           P == [n \in 1 .. N |-> rows[at(n)]]
<1>1. I \in SUBSET (1 .. Len(rows)) /\ Len(rows) \in Nat
  BY LenProperties
<1>2. IsFiniteSet(I) /\ N \in Nat
  <2>1. IsFiniteSet(1 .. Len(rows))
    BY <1>1, FS_Interval
  <2> QED BY <1>1, <2>1, FS_Subset, FS_CardinalityType
<1>3. I \in SUBSET Nat
  BY <1>1
<1>4. ASSUME NEW n \in 1 .. N PROVE at(n) \in I /\ rank(at(n)) = n
  BY <1>2, <1>3, RankOnto
<1>5. ASSUME NEW i \in I PROVE rank(i) \in 1 .. N /\ at(rank(i)) = i
  <2>1. {j \in I : j <= i} \in SUBSET I /\ i \in {j \in I : j <= i}
    BY <1>3
  <2>2. rank(i) \in 1 .. N
    BY <1>2, <2>1, FS_Subset, FS_EmptySet, FS_CardinalityType
  <2>3. at(rank(i)) \in I /\ rank(at(rank(i))) = rank(i)
    BY <1>4, <2>2
  <2>4. ASSUME NEW k \in I, NEW l \in I, k < l PROVE rank(k) # rank(l)
    <3>1. /\ {j \in I : j <= k} \in SUBSET {j \in I : j <= l}
          /\ {j \in I : j <= k} # {j \in I : j <= l}
      BY <1>3, <2>4
    <3>2. IsFiniteSet({j \in I : j <= l})
      BY <1>2, FS_Subset
    <3> QED BY <3>1, <3>2, FS_Subset
  <2> QED BY <1>3, <2>2, <2>3, <2>4
<1>6. \A i \in 1 .. Len(rows) : rows[i] \in S
  BY ElementOfSeq
<1>7. Picked(rows, I) = P /\ DOMAIN P = 1 .. N
  BY DEF Picked
<1>8. P \in Seq(S) /\ Len(P) = N
  <2>1. P \in [1 .. N -> S]
    BY <1>1, <1>4, <1>6
  <2>2. P \in Seq(S)
    BY <1>2, <2>1, SeqDef
  <2> QED BY <1>2, <1>7, <2>2, LenProperties
<1>9. \A n \in 1 .. N : P[n] = rows[at(n)]
  OBVIOUS
<1> HIDE DEF P, N, rank, at
<1>10. \A n \in 1 .. N : \E i \in I : P[n] = rows[i]
  BY <1>4, <1>9
<1>11. ASSUME NEW i \in I PROVE \E n \in 1 .. N : P[n] = rows[i]
  BY <1>5, <1>9
<1> QED BY <1>7, <1>8, <1>10, <1>11 DEF N

\* No row is picked twice: the n-th of them is the row at an index of its own.
LEMMA PickedOnce ==
    ASSUME NEW S, NEW rows \in Seq(S), NEW I \in SUBSET DOMAIN rows
    PROVE  \E at \in [1 .. Cardinality(I) -> I] :
             /\ DOMAIN Picked(rows, I) = 1 .. Cardinality(I)
             /\ \A n \in 1 .. Cardinality(I) : Picked(rows, I)[n] = rows[at[n]]
             /\ \A m, n \in 1 .. Cardinality(I) : at[m] = at[n] => m = n
<1> DEFINE rank(i) == Cardinality({j \in I : j <= i})
           of(n) == CHOOSE i \in I : rank(i) = n
           at == [n \in 1 .. Cardinality(I) |-> of(n)]
<1>1. I \in SUBSET Nat /\ IsFiniteSet(I)
  <2>1. I \in SUBSET (1 .. Len(rows)) /\ Len(rows) \in Nat
    BY LenProperties
  <2>2. IsFiniteSet(1 .. Len(rows))
    BY <2>1, FS_Interval
  <2> QED BY <2>1, <2>2, FS_Subset
<1>2. ASSUME NEW n \in 1 .. Cardinality(I) PROVE of(n) \in I /\ rank(of(n)) = n
  BY <1>1, RankOnto
<1>3. /\ DOMAIN Picked(rows, I) = 1 .. Cardinality(I)
      /\ \A n \in 1 .. Cardinality(I) : Picked(rows, I)[n] = rows[of(n)]
  BY DEF Picked
<1> HIDE DEF rank, of
<1>4. at \in [1 .. Cardinality(I) -> I]
  BY <1>2
<1>5. \A m, n \in 1 .. Cardinality(I) : at[m] = at[n] => m = n
  BY <1>2
<1> QED BY <1>3, <1>4, <1>5
-----------------------------------------------------------------------------
(* Sums over the parts of a whole *)

\* The parts a finite set is divided into count as many elements as it has.
LEMMA PartsCount ==
    ASSUME NEW D, IsFiniteSet(D), NEW S, IsFiniteSet(S), NEW P \in [D -> SUBSET S],
           \A x \in S : \E d \in D : x \in P[d],
           \A d, e \in D : \A x \in P[d] : x \in P[e] => d = e,
           NEW f \in [D -> Nat], \A d \in D : f[d] = Cardinality(P[d])
    PROVE  SumOf(f) = Cardinality(S)
<1> DEFINE one(d) == CHOOSE b : b \in Bijection(1 .. f[d], P[d])
           moved(u) == one(u[1])[u[2]]
           move == [u \in Units(f) |-> moved(u)]
<1>1. ASSUME NEW d \in D
      PROVE  /\ \A i \in 1 .. f[d] : one(d)[i] \in P[d]
             /\ \A i, j \in 1 .. f[d] : one(d)[i] = one(d)[j] => i = j
             /\ \A x \in P[d] : \E i \in 1 .. f[d] : one(d)[i] = x
  <2>1. IsFiniteSet(P[d])
    BY FS_Subset
  <2>2. ExistsBijection(1 .. f[d], P[d])
    BY <2>1, FS_CardinalityType
  <2>3. one(d) \in Bijection(1 .. f[d], P[d])
    BY <2>2 DEF ExistsBijection
  <2> HIDE DEF one
  <2> QED BY <2>3 DEF Bijection, Injection, IsInjective, Surjection
<1> HIDE DEF one
<1>2. \A u \in Units(f) : \E d \in D : \E i \in 1 .. f[d] : u = <<d, i>> /\ moved(u) = one(d)[i]
  BY UnitOf
<1>3. \A d \in D : \A i \in 1 .. f[d] : <<d, i>> \in Units(f) /\ moved(<<d, i>>) = one(d)[i]
  BY UnitOf
<1>4. move \in [Units(f) -> S]
  <2>1. \A u \in Units(f) : moved(u) \in S
    BY <1>1, <1>2
  <2> QED BY <2>1
<1>5. \A u, v \in Units(f) : move[u] = move[v] => u = v
  <2> SUFFICES ASSUME NEW u \in Units(f), NEW v \in Units(f), moved(u) = moved(v)
               PROVE  u = v
    OBVIOUS
  <2>a. PICK d \in D : \E i \in 1 .. f[d] : u = <<d, i>> /\ moved(u) = one(d)[i]
    BY <1>2
  <2>b. PICK e \in D : \E j \in 1 .. f[e] : v = <<e, j>> /\ moved(v) = one(e)[j]
    BY <1>2
  <2>1. PICK i \in 1 .. f[d] : u = <<d, i>> /\ moved(u) = one(d)[i]
    BY <2>a
  <2>2. PICK j \in 1 .. f[e] : v = <<e, j>> /\ moved(v) = one(e)[j]
    BY <2>b
  <2> HIDE DEF moved
  <2>3. one(d)[i] \in P[d] /\ one(d)[i] \in P[e]
    BY <1>1, <2>1, <2>2
  <2>4. d = e
    BY <2>3
  <2>5. i = j
    BY <1>1, <2>1, <2>2, <2>4
  <2> QED BY <2>1, <2>2, <2>4, <2>5
<1>6. \A x \in S : \E u \in Units(f) : move[u] = x
  <2> SUFFICES ASSUME NEW x \in S PROVE \E u \in Units(f) : moved(u) = x
    OBVIOUS
  <2>1. PICK d \in D : x \in P[d]
    OBVIOUS
  <2>2. PICK i \in 1 .. f[d] : one(d)[i] = x
    BY <1>1, <2>1
  <2>3. <<d, i>> \in Units(f) /\ moved(<<d, i>>) = one(d)[i]
    BY <1>3, <2>2
  <2> HIDE DEF moved
  <2> QED BY <2>2, <2>3
<1> HIDE DEF move
<1>7. IsFiniteSet(Units(f))
  BY SumType
<1>8. ExistsBijection(Units(f), S)
  BY <1>4, <1>5, <1>6 DEF ExistsBijection, Bijection, Injection, IsInjective, Surjection
<1> QED BY <1>7, <1>8, FS_Bijection DEF SumOf

\* Summed part by part, a sum is the same.
LEMMA PartsSum ==
    ASSUME NEW D, IsFiniteSet(D), NEW S, IsFiniteSet(S), NEW P \in [D -> SUBSET S],
           \A x \in S : \E d \in D : x \in P[d],
           \A d, e \in D : \A x \in P[d] : x \in P[e] => d = e,
           NEW f \in [S -> Nat], NEW g \in [D -> Nat],
           \A d \in D : g[d] = SumOf([x \in P[d] |-> f[x]])
    PROVE  SumOf(g) = SumOf(f)
<1> DEFINE part(d) == [x \in P[d] |-> f[x]]
           Q == [d \in D |-> Units(part(d))]
<1>1. IsFiniteSet(Units(f))
  BY SumType
<1>2. ASSUME NEW d \in D, NEW u
      PROVE  u \in Units(part(d)) <=> \E x \in P[d] : \E i \in 1 .. f[x] : u = <<x, i>>
  <2>1. part(d) \in [P[d] -> Nat] /\ \A x \in P[d] : part(d)[x] = f[x]
    OBVIOUS
  <2> HIDE DEF part
  <2> QED BY <2>1, UnitOf
<1> HIDE DEF part
<1>3. Q \in [D -> SUBSET Units(f)]
  <2>1. \A d \in D : Units(part(d)) \subseteq Units(f)
    BY <1>2, UnitOf
  <2> QED BY <2>1
<1>4. ASSUME NEW u \in Units(f) PROVE \E d \in D : u \in Q[d]
  <2>1. PICK x \in S : \E i \in 1 .. f[x] : u = <<x, i>>
    BY UnitOf
  <2>2. PICK d \in D : x \in P[d]
    OBVIOUS
  <2> QED BY <1>2, <2>1, <2>2
<1>5. ASSUME NEW d \in D, NEW e \in D, NEW u \in Q[d], u \in Q[e] PROVE d = e
  <2>1. PICK x \in P[d] : \E i \in 1 .. f[x] : u = <<x, i>>
    BY <1>2, <1>5
  <2>2. PICK y \in P[e] : \E i \in 1 .. f[y] : u = <<y, i>>
    BY <1>2, <1>5
  <2>3. x = y
    BY <2>1, <2>2
  <2> QED BY <2>1, <2>2, <2>3
<1>6. \A d \in D : g[d] = Cardinality(Q[d])
  BY DEF SumOf, part
<1> HIDE DEF Q
<1>7. SumOf(g) = Cardinality(Units(f))
  BY <1>1, <1>3, <1>4, <1>5, <1>6, PartsCount
<1> QED BY <1>7 DEF SumOf

\* The sum of the same number over and over,
LEMMA SumConstant ==
    ASSUME NEW D, IsFiniteSet(D), NEW k \in Nat
    PROVE  SumOf([d \in D |-> k]) = Cardinality(D) * k
<1> DEFINE f == [d \in D |-> k]
<1>1. Units(f) = D \X (1 .. k)
  BY DEF Units
<1>2. IsFiniteSet(1 .. k) /\ Cardinality(1 .. k) = k
  BY FS_Interval
<1>3. Cardinality(D \X (1 .. k)) = Cardinality(D) * k
  BY <1>2, FS_Product
<1> QED BY <1>1, <1>3 DEF SumOf

\* and of multiples.
LEMMA SumScaled ==
    ASSUME NEW D, IsFiniteSet(D), NEW f \in [D -> Nat], NEW k \in Nat,
           NEW g \in [D -> Nat], \A d \in D : g[d] = f[d] * k
    PROVE  SumOf(g) = SumOf(f) * k
<1> DEFINE unit(d) == {d} \X (1 .. f[d])
           P == [d \in D |-> unit(d) \X (1 .. k)]
           S == Units(f) \X (1 .. k)
<1>1. IsFiniteSet(1 .. k) /\ Cardinality(1 .. k) = k
  BY FS_Interval
<1>2. IsFiniteSet(Units(f)) /\ SumOf(f) = Cardinality(Units(f))
  BY SumType DEF SumOf
<1>3. IsFiniteSet(S) /\ Cardinality(S) = SumOf(f) * k
  <2>1. \A U, K : IsFiniteSet(U) /\ IsFiniteSet(K) =>
          IsFiniteSet(U \X K) /\ Cardinality(U \X K) = Cardinality(U) * Cardinality(K)
    BY FS_Product
  <2>2. IsFiniteSet(S) /\ Cardinality(S) = Cardinality(Units(f)) * Cardinality(1 .. k)
    BY <1>1, <1>2, <2>1, Zenon
  <2> QED BY <1>1, <1>2, <2>2
<1>4. ASSUME NEW d \in D PROVE g[d] = Cardinality(unit(d) \X (1 .. k))
  <2>1. IsFiniteSet({d}) /\ Cardinality({d}) = 1 /\ f[d] \in Nat
    BY FS_Singleton
  <2>2. IsFiniteSet(1 .. f[d]) /\ Cardinality(1 .. f[d]) = f[d]
    BY <2>1, FS_Interval
  <2>0. \A U, K : IsFiniteSet(U) /\ IsFiniteSet(K) =>
          IsFiniteSet(U \X K) /\ Cardinality(U \X K) = Cardinality(U) * Cardinality(K)
    BY FS_Product
  <2>3. IsFiniteSet(unit(d)) /\ Cardinality(unit(d)) = 1 * f[d]
    <3>1. /\ IsFiniteSet({d} \X (1 .. f[d]))
          /\ Cardinality({d} \X (1 .. f[d])) = Cardinality({d}) * Cardinality(1 .. f[d])
      BY ONLY <2>0, <2>1, <2>2, Zenon
    <3> QED BY ONLY <2>1, <2>2, <3>1
  <2> HIDE DEF unit
  <2>4. Cardinality(unit(d) \X (1 .. k)) = (1 * f[d]) * k
    <3> DEFINE one == unit(d)
    <3>1. IsFiniteSet(one) /\ Cardinality(one) = 1 * f[d]
      BY <2>3
    <3> HIDE DEF one
    <3>2. Cardinality(one \X (1 .. k)) = Cardinality(one) * Cardinality(1 .. k)
      BY ONLY <1>1, <2>0, <3>1, Zenon
    <3> QED BY ONLY <1>1, <3>1, <3>2 DEF one
  <2>5. 1 * f[d] = f[d]
    BY <2>1
  <2> QED BY <2>4, <2>5
<1>5. \A d \in D : unit(d) \subseteq Units(f)
  BY UnitOf
<1>6. P \in [D -> SUBSET S]
  BY <1>5
<1>7. ASSUME NEW x \in S PROVE \E d \in D : x \in P[d]
  <2>1. PICK u \in Units(f) : \E j \in 1 .. k : x = <<u, j>>
    OBVIOUS
  <2>2. PICK d \in D : u \in unit(d)
    BY UnitOf
  <2> HIDE DEF unit
  <2> QED BY <2>1, <2>2
<1>8. ASSUME NEW d \in D, NEW e \in D, NEW x \in P[d], x \in P[e] PROVE d = e
  BY <1>8
<1>9. \A d \in D : g[d] = Cardinality(P[d])
  BY <1>4
<1> HIDE DEF P, S, unit
<1>10. SumOf(g) = Cardinality(S)
  BY <1>3, <1>6, <1>7, <1>8, <1>9, PartsCount
<1> QED BY <1>3, <1>10

\* Sums of numbers that are close to each other are close.
LEMMA SumsApart ==
    ASSUME NEW D, IsFiniteSet(D), NEW f \in [D -> Nat], NEW g \in [D -> Nat], NEW k \in Nat,
           \A d \in D : 2 * (f[d] * k) <= 2 * g[d] + k /\ 2 * g[d] <= 2 * (f[d] * k) + k
    PROVE  /\ 2 * (SumOf(f) * k) <= 2 * SumOf(g) + Cardinality(D) * k
           /\ 2 * SumOf(g) <= 2 * (SumOf(f) * k) + Cardinality(D) * k
<1> DEFINE scaled == [d \in D |-> f[d] * k]
           twice == [d \in D |-> scaled[d] * 2]
           double == [d \in D |-> g[d] * 2]
           whole == [d \in D |-> k]
           above == [d \in D |-> twice[d] + whole[d]]
           over == [d \in D |-> double[d] + whole[d]]
<1>1. SumOf(whole) = Cardinality(D) * k
  BY SumConstant
<1>2. scaled \in [D -> Nat] /\ \A d \in D : scaled[d] = f[d] * k
  OBVIOUS
<1>3. twice \in [D -> Nat] /\ double \in [D -> Nat] /\ whole \in [D -> Nat]
  OBVIOUS
<1>4. /\ SumOf(scaled) = SumOf(f) * k
      /\ SumOf(twice) = SumOf(scaled) * 2
      /\ SumOf(double) = SumOf(g) * 2
  <2>1. \A F, G \in [D -> Nat], n \in Nat :
          (\A d \in D : G[d] = F[d] * n) => SumOf(G) = SumOf(F) * n
    BY ONLY IsFiniteSet(D), SumScaled
  <2>2. \A d \in D : twice[d] = scaled[d] * 2
    OBVIOUS
  <2>3. \A d \in D : double[d] = g[d] * 2
    OBVIOUS
  <2>4. \A d \in D : scaled[d] = f[d] * k
    BY <1>2
  <2> HIDE DEF scaled, twice, double
  <2>5. SumOf(scaled) = SumOf(f) * k
    BY ONLY <1>2, <2>1, <2>4, f \in [D -> Nat], k \in Nat
  <2>6. SumOf(twice) = SumOf(scaled) * 2
    BY ONLY <1>2, <1>3, <2>1, <2>2
  <2>7. SumOf(double) = SumOf(g) * 2
    BY ONLY <1>3, <2>1, <2>3, g \in [D -> Nat]
  <2> QED BY <2>5, <2>6, <2>7
<1>5. /\ above \in [D -> Nat] /\ over \in [D -> Nat]
      /\ \A d \in D : twice[d] <= over[d] /\ double[d] <= above[d]
  OBVIOUS
<1>6. \A d \in D : above[d] = twice[d] + whole[d]
  OBVIOUS
<1>7. \A d \in D : over[d] = double[d] + whole[d]
  OBVIOUS
<1> HIDE DEF scaled, twice, double, whole, above, over
<1>8. SumOf(above) = SumOf(twice) + SumOf(whole)
  BY ONLY <1>3, <1>5, <1>6, SumSplit, IsFiniteSet(D)
<1>9. SumOf(over) = SumOf(double) + SumOf(whole)
  BY ONLY <1>3, <1>5, <1>7, SumSplit, IsFiniteSet(D)
<1>10. SumOf(twice) <= SumOf(over) /\ SumOf(double) <= SumOf(above)
  BY <1>3, <1>5, SumMonotone
<1>11. SumOf(f) \in Nat /\ SumOf(g) \in Nat /\ SumOf(f) * k \in Nat
  <2>1. SumOf(f) \in Nat /\ SumOf(g) \in Nat
    BY SumType
  <2> QED BY <2>1
<1>12. Cardinality(D) * k \in Nat
  <2>1. Cardinality(D) \in Nat
    BY FS_CardinalityType
  <2> QED BY <2>1
<1> QED BY <1>1, <1>4, <1>10, <1>11, <1>12, <1>8, <1>9
=============================================================================
