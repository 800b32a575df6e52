---------------------------- MODULE CentsTheorems ---------------------------
(***************************************************************************)
(* What the proofs need to know of numbers, and of sums of cents.          *)
(***************************************************************************)
EXTENDS Cents, FunctionTheorems, FiniteSetTheorems, WellFoundedInduction, TLAPS

\* Of any numbers one is the least: what is proved by induction on numbers is
\* proved from the least one for which it fails.
LEMMA LeastNat ==
  ASSUME NEW T, T \subseteq Nat, T # {}
  PROVE  \E n \in T : \A m \in T : n <= m
<1> DEFINE Below == {1 .. n : n \in T}
<1>1. Below \subseteq FiniteSubsetsOf(Nat)
  <2> SUFFICES ASSUME NEW n \in T
               PROVE  1 .. n \in FiniteSubsetsOf(Nat)
    OBVIOUS
  <2>0. n \in Int /\ 1 \in Int
    OBVIOUS
  <2>1. IsFiniteSet(1 .. n)
    BY <2>0, FS_Interval
  <2>2. 1 .. n \subseteq Nat
    OBVIOUS
  <2> QED
    BY <2>1, <2>2 DEF FiniteSubsetsOf
<1>2. Below # {}
  OBVIOUS
<1>3. PICK B \in Below : \A C \in Below : ~(<<C, B>> \in StrictSubsetOrdering(Nat))
  <2> HIDE DEF Below
  <2> QED BY <1>1, <1>2, FS_StrictSubsetOrderingWellFounded, WFMin
<1>4. PICK n \in T : B = 1 .. n
  BY <1>3
<1>5. ASSUME NEW m \in T
      PROVE  n <= m
  <2>1. <<1 .. m, 1 .. n>> \notin StrictSubsetOrdering(Nat)
    BY <1>3, <1>4
  <2>2. 1 .. m \in SUBSET Nat /\ 1 .. n \in SUBSET Nat
    OBVIOUS
  <2>3. ~(1 .. m \subseteq 1 .. n) \/ 1 .. m = 1 .. n
    BY <2>1, <2>2 DEF StrictSubsetOrdering
  <2>4. CASE m < n
    <3>1. n \in 1 .. n /\ n \notin 1 .. m
      BY <2>4
    <3>2. 1 .. m \subseteq 1 .. n
      BY <2>4
    <3> QED
      BY <2>3, <3>1, <3>2
  <2> QED
    BY <2>4
<1> QED
  BY <1>5

\* A set of numbers that has a bound has a greatest member.
LEMMA GreatestNat ==
  ASSUME NEW T, T \subseteq Nat, T # {}, NEW b \in Nat, \A n \in T : n <= b
  PROVE  \E n \in T : \A m \in T : m <= n
<1> DEFINE Over == {b - n : n \in T}
<1>0. \A n \in T : n \in Nat /\ b - n \in Nat
  OBVIOUS
<1>1. Over \subseteq Nat /\ Over # {}
  BY <1>0
<1>2. PICK k \in Over : \A l \in Over : k <= l
  <2> HIDE DEF Over
  <2> QED BY <1>1, LeastNat
<1>3. PICK n \in T : k = b - n
  BY <1>2
<1>4. ASSUME NEW m \in T
      PROVE  m <= n
  <2>1. b - n <= b - m
    BY <1>2, <1>3
  <2>2. m \in Nat /\ n \in Nat
    OBVIOUS
  <2> QED
    BY <2>1, <2>2
<1> QED
  BY <1>4

\* The coins of f, row by row.
LEMMA CoinsAre ==
  ASSUME NEW D, NEW f \in [D -> Nat], NEW p
  PROVE  p \in Coins(f) <=> \E x \in D, n \in Nat : p = <<x, n>> /\ 1 <= n /\ n <= f[x]
<1>1. DOMAIN f = D
  OBVIOUS
<1>2. ASSUME p \in Coins(f)
      PROVE  \E x \in D, n \in Nat : p = <<x, n>> /\ 1 <= n /\ n <= f[x]
  <2>1. PICK x \in D : p \in {x} \X (1 .. f[x])
    BY <1>1, <1>2 DEF Coins
  <2>2. p = <<x, p[2]>> /\ p[2] \in 1 .. f[x]
    BY <2>1
  <2>3. p[2] \in Nat /\ 1 <= p[2] /\ p[2] <= f[x]
    BY <2>2
  <2> QED
    BY <2>2, <2>3
<1>3. ASSUME NEW x \in D, NEW n \in Nat, p = <<x, n>>, 1 <= n, n <= f[x]
      PROVE  p \in Coins(f)
  <2>1. n \in 1 .. f[x]
    BY <1>3
  <2>2. p \in {x} \X (1 .. f[x])
    BY <1>3, <2>1
  <2> QED
    BY <1>1, <2>2 DEF Coins
<1> QED
  BY <1>2, <1>3

\* Finitely many rows hold finitely many coins.
LEMMA CoinsFinite ==
  ASSUME NEW D, IsFiniteSet(D), NEW f \in [D -> Nat]
  PROVE  IsFiniteSet(Coins(f))
<1> DEFINE Row(x) == {x} \X (1 .. f[x])
           rows == [x \in D |-> Row(x)]
           Rows == {Row(x) : x \in D}
<1>1. rows \in Surjection(D, Rows)
  BY DEF Surjection
<1>2. IsFiniteSet(Rows)
  BY <1>1, FS_Surjection
<1>3. ASSUME NEW R \in Rows
      PROVE  IsFiniteSet(R)
  <2>1. PICK x \in D : R = Row(x)
    OBVIOUS
  <2>2. 1 \in Int /\ f[x] \in Int
    OBVIOUS
  <2>3. IsFiniteSet({x}) /\ IsFiniteSet(1 .. f[x])
    BY <2>2, FS_Singleton, FS_Interval
  <2> QED
    BY <2>1, <2>3, FS_Product
<1>4. IsFiniteSet(UNION Rows)
  BY <1>2, <1>3, FS_UNION
<1> QED
  BY <1>4 DEF Coins

\* A sum of cents is a natural number.
LEMMA SumIsNat ==
  ASSUME NEW D, IsFiniteSet(D), NEW f \in [D -> Nat]
  PROVE  SumOf(f) \in Nat
BY CoinsFinite, FS_CardinalityType DEF SumOf

\* The sum of a pointwise sum is the sum of the sums.
LEMMA SumAdd ==
  ASSUME NEW D, IsFiniteSet(D),
         NEW f \in [D -> Nat], NEW g \in [D -> Nat], NEW h \in [D -> Nat],
         \A x \in D : f[x] = g[x] + h[x]
  PROVE  SumOf(f) = SumOf(g) + SumOf(h)
<1> DEFINE Rest == Coins(f) \ Coins(g)
           shift == [p \in Coins(h) |-> <<p[1], p[2] + g[p[1]]>>]
<1>1. IsFiniteSet(Coins(f)) /\ IsFiniteSet(Coins(g)) /\ IsFiniteSet(Coins(h))
  BY CoinsFinite
<1>2. Coins(g) \subseteq Coins(f)
  <2> SUFFICES ASSUME NEW p \in Coins(g)
               PROVE  p \in Coins(f)
    OBVIOUS
  <2>1. PICK x \in D, n \in Nat : p = <<x, n>> /\ 1 <= n /\ n <= g[x]
    BY CoinsAre
  <2>2. n <= f[x]
    BY <2>1
  <2> QED
    BY <2>1, <2>2, CoinsAre
<1>3. shift \in Bijection(Coins(h), Rest)
  <2>1. ASSUME NEW p \in Coins(h)
        PROVE  \E x \in D, n \in Nat : /\ p = <<x, n>> /\ 1 <= n /\ n <= h[x]
                                       /\ shift[p] = <<x, n + g[x]>>
    <3>1. PICK x \in D, n \in Nat : p = <<x, n>> /\ 1 <= n /\ n <= h[x]
      BY CoinsAre
    <3> QED
      BY <3>1
  <2>2. ASSUME NEW p \in Coins(h)
        PROVE  shift[p] \in Rest
    <3>1. PICK x \in D, n \in Nat : /\ p = <<x, n>> /\ 1 <= n /\ n <= h[x]
                                    /\ shift[p] = <<x, n + g[x]>>
      BY <2>1
    <3>2. n + g[x] \in Nat /\ 1 <= n + g[x] /\ n + g[x] <= f[x] /\ ~(n + g[x] <= g[x])
      BY <3>1
    <3>3. shift[p] \in Coins(f)
      BY <3>1, <3>2, CoinsAre
    <3>4. shift[p] \notin Coins(g)
      BY <3>1, <3>2, CoinsAre
    <3> QED
      BY <3>3, <3>4
  <2>3. ASSUME NEW p \in Coins(h), NEW q \in Coins(h), shift[p] = shift[q]
        PROVE  p = q
    <3>1. PICK x \in D, n \in Nat : p = <<x, n>> /\ shift[p] = <<x, n + g[x]>>
      BY <2>1
    <3>2. PICK y \in D, m \in Nat : q = <<y, m>> /\ shift[q] = <<y, m + g[y]>>
      BY <2>1
    <3>3. x = y /\ n + g[x] = m + g[y]
      BY <2>3, <3>1, <3>2
    <3> QED
      BY <3>1, <3>2, <3>3
  <2>4. ASSUME NEW q \in Rest
        PROVE  \E p \in Coins(h) : shift[p] = q
    <3>1. PICK x \in D, n \in Nat : q = <<x, n>> /\ 1 <= n /\ n <= f[x]
      BY CoinsAre
    <3>2. g[x] < n
      BY <3>1, CoinsAre
    <3>3. n - g[x] \in Nat /\ 1 <= n - g[x] /\ n - g[x] <= h[x] /\ (n - g[x]) + g[x] = n
      BY <3>1, <3>2
    <3>4. <<x, n - g[x]>> \in Coins(h)
      BY <3>3, CoinsAre
    <3>5. shift[<<x, n - g[x]>>] = q
      BY <3>1, <3>3, <3>4
    <3> QED
      BY <3>4, <3>5
  <2> QED
    BY <2>2, <2>3, <2>4 DEF Bijection, Injection, IsInjective, Surjection
<1>4. ExistsBijection(Coins(h), Rest)
  BY <1>3 DEF ExistsBijection
<1>5. IsFiniteSet(Rest) /\ Cardinality(Rest) = Cardinality(Coins(h))
  BY <1>1, <1>4, FS_Bijection
<1>6. Coins(f) = Coins(g) \cup Rest /\ Coins(g) \cap Rest = {}
  BY <1>2
<1>7. Cardinality(Coins(f)) = Cardinality(Coins(g)) + Cardinality(Rest) - Cardinality({})
  BY <1>1, <1>5, <1>6, FS_Union
<1>8. Cardinality({}) = 0 /\ Cardinality(Coins(g)) \in Nat /\ Cardinality(Rest) \in Nat
  BY <1>1, <1>5, FS_EmptySet, FS_CardinalityType
<1> QED
  BY <1>5, <1>7, <1>8 DEF SumOf

\* Nothing adds up to nothing, and to nothing else does.
LEMMA SumZero ==
  ASSUME NEW D, IsFiniteSet(D), NEW f \in [D -> Nat]
  PROVE  SumOf(f) = 0 <=> \A x \in D : f[x] = 0
<1>1. IsFiniteSet(Coins(f))
  BY CoinsFinite
<1>2. SumOf(f) = 0 <=> Coins(f) = {}
  BY <1>1, FS_EmptySet DEF SumOf
<1>3. ASSUME Coins(f) = {}, NEW x \in D
      PROVE  f[x] = 0
  <2>1. <<x, 1>> \notin Coins(f)
    BY <1>3
  <2> QED
    BY <2>1, CoinsAre
<1>4. ASSUME \A x \in D : f[x] = 0
      PROVE  Coins(f) = {}
  <2> SUFFICES ASSUME NEW p \in Coins(f)
               PROVE  FALSE
    OBVIOUS
  <2>1. PICK x \in D, n \in Nat : p = <<x, n>> /\ 1 <= n /\ n <= f[x]
    BY CoinsAre
  <2> QED
    BY <1>4, <2>1
<1> QED
  BY <1>2, <1>3, <1>4

\* A sum with a single row that is not zero.
LEMMA SumSingle ==
  ASSUME NEW D, IsFiniteSet(D), NEW f \in [D -> Nat], NEW x \in D,
         \A y \in D : y # x => f[y] = 0
  PROVE  SumOf(f) = f[x]
<1> DEFINE coin == [n \in 1 .. f[x] |-> <<x, n>>]
<1>1. coin \in Bijection(1 .. f[x], Coins(f))
  <2>1. ASSUME NEW n \in 1 .. f[x]
        PROVE  coin[n] \in Coins(f)
    BY CoinsAre
  <2>2. ASSUME NEW p \in Coins(f)
        PROVE  \E n \in 1 .. f[x] : coin[n] = p
    <3>1. PICK y \in D, n \in Nat : p = <<y, n>> /\ 1 <= n /\ n <= f[y]
      BY CoinsAre
    <3>2. y = x
      BY <3>1
    <3>3. n \in 1 .. f[x]
      BY <3>1, <3>2
    <3> QED
      BY <3>1, <3>2, <3>3
  <2> QED
    BY <2>1, <2>2 DEF Bijection, Injection, IsInjective, Surjection
<1>2. f[x] \in Nat /\ ExistsBijection(1 .. f[x], Coins(f))
  BY <1>1 DEF ExistsBijection
<1> QED
  BY <1>2, FS_CountingElements DEF SumOf

\* More in every row is more in all.
LEMMA SumMonotone ==
  ASSUME NEW D, IsFiniteSet(D), NEW f \in [D -> Nat], NEW g \in [D -> Nat],
         \A x \in D : g[x] <= f[x]
  PROVE  SumOf(g) <= SumOf(f)
<1> DEFINE h == [x \in D |-> f[x] - g[x]]
<1>1. h \in [D -> Nat] /\ \A x \in D : f[x] = g[x] + h[x]
  OBVIOUS
<1>2. SumOf(f) = SumOf(g) + SumOf(h)
  BY <1>1, SumAdd
<1>3. SumOf(g) \in Nat /\ SumOf(h) \in Nat
  BY <1>1, SumIsNat
<1> QED
  BY <1>2, <1>3

\* No row holds more than the sum.
LEMMA SumAtLeast ==
  ASSUME NEW D, IsFiniteSet(D), NEW f \in [D -> Nat], NEW x \in D
  PROVE  f[x] <= SumOf(f)
<1> DEFINE g == [y \in D |-> IF y = x THEN f[x] ELSE 0]
<1>1. g \in [D -> Nat] /\ (\A y \in D : y # x => g[y] = 0) /\ g[x] = f[x]
  OBVIOUS
<1>2. SumOf(g) = g[x]
  BY <1>1, SumSingle
<1>3. \A y \in D : g[y] <= f[y]
  OBVIOUS
<1> QED
  BY <1>1, <1>2, <1>3, SumMonotone

\* Rows of nothing may be left out.
LEMMA SumWider ==
  ASSUME NEW D, NEW E, D \subseteq E, NEW f \in [D -> Nat], NEW g \in [E -> Nat],
         \A x \in D : g[x] = f[x], \A x \in E \ D : g[x] = 0
  PROVE  SumOf(g) = SumOf(f)
<1>1. ASSUME NEW p
      PROVE  p \in Coins(g) <=> p \in Coins(f)
  <2>1. p \in Coins(g) <=> \E x \in E, n \in Nat : p = <<x, n>> /\ 1 <= n /\ n <= g[x]
    BY CoinsAre
  <2>2. p \in Coins(f) <=> \E x \in D, n \in Nat : p = <<x, n>> /\ 1 <= n /\ n <= f[x]
    BY CoinsAre
  <2>3. ASSUME NEW x \in E, NEW n \in Nat, 1 <= n, n <= g[x]
        PROVE  x \in D /\ n <= f[x]
    BY <2>3
  <2> QED
    BY <2>1, <2>2, <2>3
<1>2. Coins(g) = Coins(f)
  BY <1>1
<1> QED
  BY <1>2 DEF SumOf

\* When one row changes the sum changes by as much.
LEMMA SumMoves ==
  ASSUME NEW D, IsFiniteSet(D), NEW f \in [D -> Nat], NEW g \in [D -> Nat], NEW x \in D,
         \A y \in D : y # x => g[y] = f[y]
  PROVE  SumOf(g) = SumOf(f) - f[x] + g[x]
<1> DEFINE rest == [y \in D |-> IF y = x THEN 0 ELSE f[y]]
           before == [y \in D |-> IF y = x THEN f[x] ELSE 0]
           after == [y \in D |-> IF y = x THEN g[x] ELSE 0]
<1>1. rest \in [D -> Nat] /\ before \in [D -> Nat] /\ after \in [D -> Nat]
  OBVIOUS
<1>2. SumOf(f) = SumOf(rest) + SumOf(before)
  <2>1. \A y \in D : f[y] = rest[y] + before[y]
    OBVIOUS
  <2> HIDE DEF rest, before
  <2> QED BY <1>1, <2>1, SumAdd
<1>3. SumOf(g) = SumOf(rest) + SumOf(after)
  <2>1. \A y \in D : g[y] = rest[y] + after[y]
    OBVIOUS
  <2> HIDE DEF rest, after
  <2> QED BY <1>1, <2>1, SumAdd
<1>4. SumOf(before) = f[x] /\ SumOf(after) = g[x]
  <2>1. /\ before[x] = f[x] /\ \A y \in D : y # x => before[y] = 0
        /\ after[x] = g[x] /\ \A y \in D : y # x => after[y] = 0
    OBVIOUS
  <2> HIDE DEF before, after
  <2> QED BY <1>1, <2>1, SumSingle
<1>5. SumOf(rest) \in Nat /\ f[x] \in Nat /\ g[x] \in Nat
  <2> HIDE DEF rest
  <2> QED BY <1>1, SumIsNat
<1> HIDE DEF rest, before, after
<1> QED
  BY <1>2, <1>3, <1>4, <1>5

\* What holds of the empty set, and of a set when it holds of the set without
\* one of its members, holds of every finite set: among the sets for which it
\* fails one would have the fewest members.
LEMMA FewestMembers ==
  ASSUME NEW D, IsFiniteSet(D), NEW Fails, Fails \subseteq SUBSET D, Fails # {}
  PROVE  \E S \in Fails : \A d \in S : S \ {d} \notin Fails
<1> DEFINE Sizes == {Cardinality(S) : S \in Fails}
<1>1. \A S \in Fails : IsFiniteSet(S) /\ Cardinality(S) \in Nat
  BY FS_Subset, FS_CardinalityType
<1>2. PICK n \in Sizes : \A m \in Sizes : n <= m
  <2>1. Sizes \subseteq Nat /\ Sizes # {}
    BY <1>1
  <2> HIDE DEF Sizes
  <2> QED BY <2>1, LeastNat
<1>3. PICK S \in Fails : n = Cardinality(S)
  BY <1>2
<1>4. ASSUME NEW d \in S, S \ {d} \in Fails
      PROVE  FALSE
  <2>1. Cardinality(S \ {d}) = Cardinality(S) - 1
    BY <1>1, FS_RemoveElement
  <2>2. Cardinality(S) <= Cardinality(S \ {d}) /\ Cardinality(S) \in Nat
    BY <1>1, <1>2, <1>3, <1>4
  <2> QED
    BY <2>1, <2>2
<1> QED
  BY <1>4

\* A table of numbers, one row for each member of D and one column for each of E.
Table(rows, D, E) == rows \in [D -> [E -> Nat]]

\* Adding up by rows is adding up by columns.
LEMMA SumSwap ==
  ASSUME NEW D, IsFiniteSet(D), NEW E, IsFiniteSet(E), NEW rows, Table(rows, D, E)
  PROVE  \A columns, byRow, byColumn :
           /\ Table(columns, E, D) /\ byRow \in [D -> Nat] /\ byColumn \in [E -> Nat]
           /\ \A x \in D, y \in E : rows[x][y] = columns[y][x]
           /\ \A x \in D : byRow[x] = SumOf(rows[x])
           /\ \A y \in E : byColumn[y] = SumOf(columns[y])
           => SumOf(byRow) = SumOf(byColumn)
<1> USE DEF Table
<1> DEFINE cell(x) == rows[x]
           left(S) == [x \in D |-> IF x \in S THEN SumOf(cell(x)) ELSE 0]
           column(S, y) == [x \in D |-> IF x \in S THEN rows[x][y] ELSE 0]
           right(S) == [y \in E |-> SumOf(column(S, y))]
           Fails == {S \in SUBSET D : SumOf(left(S)) # SumOf(right(S))}
<1>1. ASSUME NEW x \in D
      PROVE  cell(x) \in [E -> Nat] /\ SumOf(cell(x)) \in Nat
  <2>1. cell(x) \in [E -> Nat]
    OBVIOUS
  <2> HIDE DEF cell
  <2> QED BY <2>1, SumIsNat
<1>2. ASSUME NEW S, NEW y \in E
      PROVE  column(S, y) \in [D -> Nat] /\ SumOf(column(S, y)) \in Nat
  <2>1. column(S, y) \in [D -> Nat]
    OBVIOUS
  <2> HIDE DEF column
  <2> QED BY <2>1, SumIsNat
<1>3. ASSUME NEW S
      PROVE  left(S) \in [D -> Nat] /\ right(S) \in [E -> Nat]
  <2> HIDE DEF cell, column
  <2> QED BY <1>1, <1>2
<1>4. {} \notin Fails
  <2>1. \A x \in D : left({})[x] = 0
    OBVIOUS
  <2>2. ASSUME NEW y \in E
        PROVE  right({})[y] = 0
    <3>1. \A x \in D : column({}, y)[x] = 0
      OBVIOUS
    <3>2. SumOf(column({}, y)) = 0
      <4> HIDE DEF column
      <4> QED BY <1>2, <3>1, SumZero
    <3> QED
      BY <3>2
  <2>3. SumOf(left({})) = 0 /\ SumOf(right({})) = 0
    <3> HIDE DEF left, right
    <3> QED BY <1>3, <2>1, <2>2, SumZero
  <2> QED
    BY <2>3
<1>5. ASSUME NEW S \in SUBSET D, NEW d \in S, S \ {d} \notin Fails
      PROVE  S \notin Fails
  <2> DEFINE T == S \ {d}
  <2>1. SumOf(left(S)) = SumOf(left(T)) + SumOf(cell(d))
    <3>1. left(T)[d] = 0 /\ left(S)[d] = SumOf(cell(d)) /\ \A x \in D : x # d => left(S)[x] = left(T)[x]
      OBVIOUS
    <3>2. SumOf(left(T)) \in Nat /\ SumOf(cell(d)) \in Nat
      <4> HIDE DEF left, cell
      <4> QED BY <1>1, <1>3, SumIsNat
    <3>3. SumOf(left(S)) = SumOf(left(T)) - left(T)[d] + left(S)[d]
      <4> HIDE DEF left, T
      <4> QED BY <1>3, <3>1, SumMoves
    <3> HIDE DEF left, cell
    <3> QED BY <3>1, <3>2, <3>3
  <2>2. ASSUME NEW y \in E
        PROVE  right(S)[y] = right(T)[y] + cell(d)[y]
    <3>1. /\ column(T, y)[d] = 0 /\ column(S, y)[d] = cell(d)[y] /\ cell(d)[y] \in Nat
          /\ \A x \in D : x # d => column(S, y)[x] = column(T, y)[x]
      OBVIOUS
    <3>2. SumOf(column(S, y)) = SumOf(column(T, y)) - column(T, y)[d] + column(S, y)[d]
      <4> HIDE DEF column, T
      <4> QED BY <1>2, <3>1, SumMoves
    <3>3. right(S)[y] = SumOf(column(S, y)) /\ right(T)[y] = SumOf(column(T, y))
      OBVIOUS
    <3> HIDE DEF column, cell, right
    <3> QED BY <1>2, <3>1, <3>2, <3>3
  <2>3. SumOf(right(S)) = SumOf(right(T)) + SumOf(cell(d))
    <3>1. d \in D
      OBVIOUS
    <3>2. right(S) \in [E -> Nat] /\ right(T) \in [E -> Nat] /\ cell(d) \in [E -> Nat]
      <4> HIDE DEF right, cell, T
      <4> QED BY <1>1, <1>3, <3>1
    <3> HIDE DEF right, cell, T
    <3> QED BY <2>2, <3>2, SumAdd
  <2>4. SumOf(left(T)) = SumOf(right(T))
    BY <1>5
  <2> HIDE DEF left, right, cell
  <2> QED
    BY <2>1, <2>3, <2>4
<1>6. Fails = {}
  <2> SUFFICES ASSUME Fails # {}
               PROVE  FALSE
    OBVIOUS
  <2>1. Fails \subseteq SUBSET D
    OBVIOUS
  <2>2. PICK S \in Fails : \A d \in S : S \ {d} \notin Fails
    <3> HIDE DEF Fails
    <3> QED BY <2>1, FewestMembers
  <2>3. S # {} /\ S \in SUBSET D
    BY <1>4, <2>1, <2>2
  <2> HIDE DEF Fails
  <2> QED
    BY <1>5, <2>2, <2>3
<1>7. SumOf(left(D)) = SumOf(right(D))
  <2> HIDE DEF left, right
  <2> QED BY <1>6
<1>8. SUFFICES ASSUME NEW columns, NEW byRow, NEW byColumn,
                      /\ Table(columns, E, D) /\ byRow \in [D -> Nat] /\ byColumn \in [E -> Nat]
                      /\ \A x \in D, y \in E : rows[x][y] = columns[y][x]
                      /\ \A x \in D : byRow[x] = SumOf(rows[x])
                      /\ \A y \in E : byColumn[y] = SumOf(columns[y])
               PROVE  SumOf(byRow) = SumOf(byColumn)
  <2> HIDE DEF Table
  <2> QED OBVIOUS
<1>9. left(D) = byRow
  <2>1. \A x \in D : cell(x) = rows[x]
    OBVIOUS
  <2> HIDE DEF cell
  <2> QED BY <1>8, <2>1
<1>10. right(D) = byColumn
  <2>1. \A y \in E : column(D, y) = columns[y]
    BY <1>8
  <2> HIDE DEF column
  <2> QED BY <1>8, <2>1
<1> HIDE DEF left, right
<1> QED
  BY <1>7, <1>9, <1>10
=============================================================================
