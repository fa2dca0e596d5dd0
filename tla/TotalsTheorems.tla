--------------------------- MODULE TotalsTheorems ---------------------------
(***************************************************************************)
(* Facts about Total, for the proofs about the modules that use it.        *)
(***************************************************************************)
EXTENDS Totals, FiniteSetTheorems, FunctionTheorems, TLAPS

\* A finite set of rows holds finitely many units.
LEMMA UnitsFinite ==
  ASSUME NEW S, IsFiniteSet(S), NEW amount, \A x \in S : amount[x] \in Int
  PROVE  IsFiniteSet(Units(S, amount))
<1> DEFINE f == [x \in S |-> {x} \X (1..amount[x])]
           T == {{x} \X (1..amount[x]) : x \in S}
<1>1. f \in Surjection(S, T)
  BY DEF Surjection
<1>2. IsFiniteSet(T)
  BY <1>1, FS_Surjection
<1>3. ASSUME NEW x \in S
      PROVE  IsFiniteSet({x} \X (1..amount[x]))
  <2>1. amount[x] \in Int
    OBVIOUS
  <2>2. IsFiniteSet({x})
    BY FS_Singleton
  <2>3. IsFiniteSet(1..amount[x])
    BY <2>1, FS_Interval
  <2> QED
    BY <2>2, <2>3, FS_Product
<1>4. \A t \in T : IsFiniteSet(t)
  BY <1>3
<1> QED
  BY <1>2, <1>4, FS_UNION DEF Units

\* A sum of money is a natural number.
LEMMA TotalType ==
  ASSUME NEW S, IsFiniteSet(S), NEW amount, \A x \in S : amount[x] \in Int
  PROVE  Total(S, amount) \in Nat
BY UnitsFinite, FS_CardinalityType DEF Total

\* The sum depends only on the amounts of the rows summed.
LEMMA TotalSame ==
  ASSUME NEW S, NEW amount, NEW other, \A x \in S : amount[x] = other[x]
  PROVE  Total(S, amount) = Total(S, other)
<1>1. {{x} \X (1..amount[x]) : x \in S} = {{x} \X (1..other[x]) : x \in S}
  OBVIOUS
<1> QED
  BY <1>1 DEF Total, Units

\* One row sums to its amount.
LEMMA TotalOne ==
  ASSUME NEW x, NEW amount, amount[x] \in Nat
  PROVE  Total({x}, amount) = amount[x]
<1>1. Units({x}, amount) = {x} \X (1..amount[x])
  BY DEF Units
<1>2. IsFiniteSet({x}) /\ Cardinality({x}) = 1
  BY FS_Singleton
<1>3. IsFiniteSet(1..amount[x]) /\ Cardinality(1..amount[x]) = amount[x]
  BY FS_Interval, SMTT(30)
<1>4. Cardinality({x} \X (1..amount[x])) = Cardinality({x}) * Cardinality(1..amount[x])
  BY <1>2, <1>3, FS_Product, Zenon
<1>5. Cardinality({x} \X (1..amount[x])) = 1 * amount[x]
  BY <1>2, <1>3, <1>4, Zenon
<1>6. 1 * amount[x] = amount[x]
  OBVIOUS
<1> QED
  BY <1>1, <1>5, <1>6, Zenon DEF Total

\* Disjoint sets of rows: the sum of the union is the sum of the sums.
LEMMA TotalUnion ==
  ASSUME NEW S, IsFiniteSet(S), NEW T, IsFiniteSet(T), S \cap T = {},
         NEW amount, \A x \in S \cup T : amount[x] \in Int
  PROVE  Total(S \cup T, amount) = Total(S, amount) + Total(T, amount)
<1>1. IsFiniteSet(Units(S, amount)) /\ IsFiniteSet(Units(T, amount))
  BY UnitsFinite
<1>2. Units(S \cup T, amount) = Units(S, amount) \cup Units(T, amount)
  BY DEF Units
<1>3. ASSUME NEW u \in Units(S, amount) \cap Units(T, amount)
      PROVE  FALSE
  <2>1. PICK x \in S : u \in {x} \X (1..amount[x])
    BY <1>3 DEF Units
  <2>2. PICK y \in T : u \in {y} \X (1..amount[y])
    BY <1>3 DEF Units
  <2>3. u[1] = x /\ u[1] = y
    BY <2>1, <2>2
  <2> QED
    BY <2>3
<1>4. Units(S, amount) \cap Units(T, amount) = {}
  BY <1>3
<1>5. Cardinality(Units(S, amount) \cap Units(T, amount)) = 0
  BY <1>4, FS_EmptySet
<1>6. Cardinality(Units(S, amount)) \in Nat /\ Cardinality(Units(T, amount)) \in Nat
  BY <1>1, FS_CardinalityType
<1> DEFINE A == Units(S, amount)
           B == Units(T, amount)
<1>7. Cardinality(A \cup B) = Cardinality(A) + Cardinality(B) - Cardinality(A \cap B)
  BY <1>1, FS_Union, Zenon
<1>8. Cardinality(A \cup B) = Cardinality(A) + Cardinality(B)
  BY <1>5, <1>6, <1>7
<1> QED
  BY <1>2, <1>8, Zenon DEF Total

\* A set of rows sums to what one of them holds and what the others hold.
LEMMA TotalSplit ==
  ASSUME NEW S, IsFiniteSet(S), NEW x \in S,
         NEW amount, \A y \in S : amount[y] \in Int, amount[x] \in Nat
  PROVE  Total(S, amount) = amount[x] + Total(S \ {x}, amount)
<1>1. S = {x} \cup (S \ {x}) /\ {x} \cap (S \ {x}) = {}
  OBVIOUS
<1>2. IsFiniteSet({x}) /\ IsFiniteSet(S \ {x})
  BY FS_Singleton, FS_RemoveElement
<1>3. Total({x} \cup (S \ {x}), amount) = Total({x}, amount) + Total(S \ {x}, amount)
  BY <1>1, <1>2, TotalUnion
<1> QED
  BY <1>1, <1>3, TotalOne

\* Where no row holds more, the sum is not more.
LEMMA TotalAtMost ==
  ASSUME NEW S, IsFiniteSet(S), NEW a, NEW b,
         \A x \in S : a[x] \in Int /\ b[x] \in Int /\ a[x] <= b[x]
  PROVE  Total(S, a) <= Total(S, b)
<1>1. Units(S, a) \subseteq Units(S, b)
  <2>1. ASSUME NEW x \in S
        PROVE  {x} \X (1..a[x]) \subseteq {x} \X (1..b[x])
    BY <2>1
  <2> QED
    BY <2>1 DEF Units
<1>2. IsFiniteSet(Units(S, b))
  BY UnitsFinite
<1> QED
  BY <1>1, <1>2, FS_Subset DEF Total

\* A change of one row changes the sum by as much.
LEMMA TotalChange ==
  ASSUME NEW S, IsFiniteSet(S), NEW x \in S, NEW a, NEW b,
         \A y \in S : a[y] \in Nat /\ b[y] \in Nat,
         \A y \in S \ {x} : a[y] = b[y]
  PROVE  Total(S, b) + a[x] = Total(S, a) + b[x]
<1>1. Total(S, a) = a[x] + Total(S \ {x}, a) /\ Total(S, b) = b[x] + Total(S \ {x}, b)
  BY TotalSplit
<1>2. Total(S \ {x}, a) = Total(S \ {x}, b)
  BY TotalSame
<1>3. IsFiniteSet(S \ {x})
  BY FS_RemoveElement
<1>4. Total(S \ {x}, a) \in Nat
  BY <1>3, TotalType
<1> QED
  BY <1>1, <1>2, <1>4

\* Every row either changes alike in two ledgers, from a to b and from c to d, or a is c and
\* b is d: then the sums change alike.
LEMMA TotalAlike ==
  ASSUME NEW S, IsFiniteSet(S), NEW a, NEW b, NEW c, NEW d,
         \A x \in S : a[x] \in Nat /\ b[x] \in Nat /\ c[x] \in Nat /\ d[x] \in Nat,
         \A x \in S : \/ a[x] = b[x] /\ c[x] = d[x]
                      \/ a[x] = c[x] /\ b[x] = d[x]
  PROVE  Total(S, a) + Total(S, d) = Total(S, b) + Total(S, c)
<1> DEFINE K == {x \in S : a[x] = b[x] /\ c[x] = d[x]}
           R == S \ K
<1>1. K \subseteq S /\ R \subseteq S /\ K \cap R = {} /\ K \cup R = S
  OBVIOUS
<1>2. \A x \in K : a[x] = b[x] /\ c[x] = d[x]
  OBVIOUS
<1>3. \A x \in R : a[x] = c[x] /\ b[x] = d[x]
  OBVIOUS
<1>4. IsFiniteSet(K) /\ IsFiniteSet(R)
  BY <1>1, FS_Subset
<1> HIDE DEF K, R
<1>5. /\ Total(K \cup R, a) = Total(K, a) + Total(R, a)
      /\ Total(K \cup R, b) = Total(K, b) + Total(R, b)
      /\ Total(K \cup R, c) = Total(K, c) + Total(R, c)
      /\ Total(K \cup R, d) = Total(K, d) + Total(R, d)
  BY <1>1, <1>4, TotalUnion
<1>6. /\ Total(K, a) = Total(K, b) /\ Total(K, c) = Total(K, d)
      /\ Total(R, a) = Total(R, c) /\ Total(R, b) = Total(R, d)
  BY <1>2, <1>3, TotalSame
<1>7. /\ Total(K, a) \in Nat /\ Total(K, c) \in Nat
      /\ Total(R, a) \in Nat /\ Total(R, b) \in Nat
  BY <1>1, <1>4, TotalType
<1>8. /\ Total(S, a) = Total(K, a) + Total(R, a) /\ Total(S, b) = Total(K, a) + Total(R, b)
      /\ Total(S, c) = Total(K, c) + Total(R, a) /\ Total(S, d) = Total(K, c) + Total(R, b)
  BY <1>1, <1>5, <1>6, Zenon
<1> QED
  BY <1>7, <1>8

\* Rows of which none holds more than n.
LEMMA TotalBounded ==
  ASSUME NEW S, IsFiniteSet(S), NEW a, NEW n \in Nat,
         \A x \in S : a[x] \in Int /\ a[x] <= n
  PROVE  Cardinality(S) \in Nat /\ Total(S, a) <= n * Cardinality(S)
<1>1. Cardinality(S) \in Nat
  BY FS_CardinalityType
<1>2. IsFiniteSet(1..n) /\ Cardinality(1..n) = n
  BY FS_Interval, SMTT(30)
<1>3. IsFiniteSet(S \X (1..n)) /\ Cardinality(S \X (1..n)) = Cardinality(S) * n
  BY <1>2, FS_Product
<1>4. Units(S, a) \subseteq S \X (1..n)
  <2>1. ASSUME NEW x \in S
        PROVE  {x} \X (1..a[x]) \subseteq S \X (1..n)
    BY <2>1
  <2> QED
    BY <2>1 DEF Units
<1>5. Total(S, a) <= Cardinality(S \X (1..n))
  BY <1>3, <1>4, FS_Subset DEF Total
<1> QED
  BY <1>1, <1>3, <1>5

\* A sum over some of the rows is a sum over all, with nothing in the others.
LEMMA TotalPart ==
  ASSUME NEW S, NEW T \in SUBSET S, NEW a, NEW b,
         \A x \in T : b[x] = a[x], \A x \in S \ T : b[x] = 0
  PROVE  Total(T, a) = Total(S, b)
<1>1. ASSUME NEW u \in Units(T, a)
      PROVE  u \in Units(S, b)
  <2>1. PICK x \in T : u \in {x} \X (1..a[x])
    BY <1>1 DEF Units
  <2>2. x \in S /\ u \in {x} \X (1..b[x])
    BY <2>1
  <2> QED
    BY <2>2 DEF Units
<1>2. ASSUME NEW u \in Units(S, b)
      PROVE  u \in Units(T, a)
  <2>1. PICK x \in S : u \in {x} \X (1..b[x])
    BY <1>2 DEF Units
  <2>2. CASE x \in T
    <3>1. u \in {x} \X (1..a[x])
      BY <2>1, <2>2
    <3> QED
      BY <2>2, <3>1 DEF Units
  <2>3. CASE x \notin T
    <3>1. b[x] = 0 /\ 1..b[x] = {}
      BY <2>3
    <3> QED
      BY <2>1, <3>1
  <2> QED
    BY <2>2, <2>3
<1>3. Units(T, a) = Units(S, b)
  BY <1>1, <1>2
<1> QED
  BY <1>3 DEF Total

\* Where no row holds more and one holds less by m, the sum is less by m.
LEMMA TotalLess ==
  ASSUME NEW S, IsFiniteSet(S), NEW x \in S, NEW a, NEW b, NEW m \in Nat,
         \A y \in S : a[y] \in Nat /\ b[y] \in Nat /\ b[y] <= a[y],
         b[x] + m <= a[x]
  PROVE  Total(S, b) + m <= Total(S, a)
<1>1. IsFiniteSet(S \ {x})
  BY FS_RemoveElement
<1>2. Total(S, a) = a[x] + Total(S \ {x}, a) /\ Total(S, b) = b[x] + Total(S \ {x}, b)
  BY TotalSplit
<1>3. Total(S \ {x}, b) <= Total(S \ {x}, a)
  BY <1>1, TotalAtMost
<1>4. Total(S \ {x}, a) \in Nat /\ Total(S \ {x}, b) \in Nat
  BY <1>1, TotalType
<1> QED
  BY <1>2, <1>3, <1>4
=============================================================================
