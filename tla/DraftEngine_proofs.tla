-------------------------- MODULE DraftEngine_proofs --------------------------
(***************************************************************************)
(* Lemmas about the operators of the engine that hold for boards of every  *)
(* size, holes included: where the first free slot is, who is on the       *)
(* clock, what a repair and an undo leave behind.                          *)
(***************************************************************************)
EXTENDS DraftEngine, Listings, FiniteSetTheorems, WellFoundedInduction, TLAPS

(* Min and Max are taken of non-empty sets of naturals everywhere in the *)
(* engine; these are their defining facts.                               *)
LEMMA NatMin ==
  ASSUME NEW T \in SUBSET Nat, T # {}
  PROVE  /\ Min(T) \in T
         /\ \A n \in T : Min(T) <= n
<1>1. PICK m \in T : \A n \in T : <<n, m>> \notin OpToRel(<, Nat)
  BY NatLessThanWellFounded, WFMin, Zenon
<1>2. \A n \in T : ~(n < m)
  BY <1>1, Zenon DEF OpToRel
<1>3. \A n \in T : m <= n
  BY <1>2
<1>. QED BY <1>3 DEF Min

LEMMA NatMax ==
  ASSUME NEW T \in SUBSET Nat, T # {}, NEW bound \in Nat, \A n \in T : n <= bound
  PROVE  /\ Max(T) \in T
         /\ \A n \in T : Max(T) >= n
<1>. DEFINE Above == {b \in Nat : \A n \in T : n <= b}
<1>1. /\ Min(Above) \in Above
      /\ \A b \in Above : Min(Above) <= b
  <2>1. Above \in SUBSET Nat /\ Above # {}
    OBVIOUS
  <2>. HIDE DEF Above
  <2>. QED BY <2>1, NatMin
<1>2. Min(Above) \in T
  <2>1. SUFFICES ASSUME Min(Above) \notin T PROVE FALSE
    OBVIOUS
  <2>2. \A n \in T : n <= Min(Above) - 1
    BY <1>1, <2>1
  <2>3. Min(Above) - 1 \in Above
    <3>1. PICK n \in T : n <= Min(Above) - 1
      BY <2>2
    <3>2. Min(Above) - 1 \in Nat
      BY <1>1, <3>1
    <3>. QED BY <2>2, <3>2
  <2>. QED BY <1>1, <2>3
<1>3. \E m \in T : \A n \in T : m >= n
  BY <1>1, <1>2
<1>. QED BY <1>3 DEF Max

LEMMA MaxOfTwo ==
  ASSUME NEW a \in Int, NEW b \in Int
  PROVE  /\ Max({a, b}) \in {a, b}
         /\ Max({a, b}) >= a /\ Max({a, b}) >= b
<1>1. \E m \in {a, b} : \A n \in {a, b} : m >= n
  <2>1. CASE a >= b
    BY <2>1
  <2>2. CASE b >= a
    BY <2>2
  <2>. QED BY <2>1, <2>2
<1>. QED BY <1>1 DEF Max

LEMMA MaxOfThree ==
  ASSUME NEW a \in Int, NEW b \in Int, NEW c \in Int
  PROVE  /\ Max({a, b, c}) \in {a, b, c}
         /\ Max({a, b, c}) >= a /\ Max({a, b, c}) >= b /\ Max({a, b, c}) >= c
<1>1. \E m \in {a, b, c} : \A n \in {a, b, c} : m >= n
  <2>1. CASE a >= b /\ a >= c
    BY <2>1
  <2>2. CASE b >= a /\ b >= c
    BY <2>2
  <2>3. CASE c >= a /\ c >= b
    BY <2>3
  <2>. QED BY <2>1, <2>2, <2>3
<1>. QED BY <1>1 DEF Max

LEMMA SubsetSize ==
  ASSUME NEW S, IsFiniteSet(S), NEW T \in SUBSET S, NEW x \in S, x \notin T
  PROVE  IsFiniteSet(T) /\ Cardinality(T) \in Nat /\ Cardinality(T) < Cardinality(S)
<1>1. IsFiniteSet(T) /\ Cardinality(T) <= Cardinality(S) /\ Cardinality(T) # Cardinality(S)
  BY FS_Subset
<1>2. Cardinality(T) \in Nat /\ Cardinality(S) \in Nat
  BY <1>1, FS_CardinalityType
<1>. QED BY <1>1, <1>2

(* Each member says who is below it, and of two one is below the other.      *)
Linear(S, below) ==
  /\ below \in [S -> SUBSET S]
  /\ \A x \in S : x \notin below[x]
  /\ \A x, y \in S : x = y \/ x \in below[y] \/ y \in below[x]
  /\ \A x, y \in S : x \in below[y] => below[x] \subseteq below[y]

(* How many are below a member is then its place, and every place is taken.  *)
LEMMA RankFact ==
  ASSUME NEW S, IsFiniteSet(S), NEW below, Linear(S, below)
  PROVE  LET n == Cardinality(S)
             rank(x) == Cardinality(below[x])
         IN  /\ n \in Nat
             /\ \A x \in S : rank(x) \in 0..(n - 1)
             /\ \A x, y \in S : x \in below[y] => rank(x) < rank(y)
             /\ \A x, y \in S : x # y => rank(x) # rank(y)
             /\ \A k \in 0..(n - 1) : \E x \in S : rank(x) = k
<1>. USE DEF Linear
<1>. DEFINE n == Cardinality(S)
            rank == [x \in S |-> Cardinality(below[x])]
<1>1. n \in Nat
  BY FS_CardinalityType
<1>2. ASSUME NEW x \in S
      PROVE  IsFiniteSet(below[x]) /\ rank[x] \in Nat /\ rank[x] < n
  BY <1>2, SubsetSize
<1>3. ASSUME NEW a \in S, NEW b \in S, a \in below[b] PROVE rank[a] < rank[b]
  BY <1>2, <1>3, SubsetSize
<1>4. ASSUME NEW x \in S, NEW y \in S, x # y
      PROVE  rank[x] # rank[y]
  <2>. HIDE DEF rank
  <2>. QED BY <1>2, <1>3, <1>4
<1>5. rank \in [S -> 0..(n - 1)]
  BY <1>1, <1>2
<1>6. IsFiniteSet(0..(n - 1)) /\ Cardinality(0..(n - 1)) = n
  BY <1>1, FS_Interval
<1>7. \A x \in S : rank[x] = Cardinality(below[x])
  OBVIOUS
<1>. HIDE DEF rank
<1>8. rank \in Injection(S, 0..(n - 1))
  BY <1>4, <1>5 DEF Injection, IsInjective
<1>9. rank \in Surjection(S, 0..(n - 1))
  BY <1>6, <1>8, FS_Injection
<1>10. \A k \in 0..(n - 1) : \E x \in S : rank[x] = k
  BY <1>9 DEF Surjection
<1>. QED BY <1>1, <1>3, <1>4, <1>5, <1>7, <1>10

-----------------------------------------------------------------------------
(* Listings: InOrder lists every member of a finite set that is linearly   *)
(* ordered, once and each after those below it.                            *)

LEMMA InOrderFact ==
  ASSUME NEW S, IsFiniteSet(S), NEW below, Linear(S, below)
  PROVE  LET n == Cardinality(S)
             listed == InOrder(S, below)
         IN  /\ n \in Nat /\ listed \in [1..n -> S]
             /\ \A x \in S : \E i \in 1..n : listed[i] = x
             /\ \A i, j \in 1..n : listed[i] = listed[j] => i = j
             /\ \A i, j \in 1..n : listed[i] \in below[listed[j]] => i < j
<1>. DEFINE n == Cardinality(S)
            rank(x) == Cardinality(below[x])
            listed == InOrder(S, below)
<1>1. /\ n \in Nat
      /\ \A x \in S : rank(x) \in 0..(n - 1)
      /\ \A x, y \in S : x \in below[y] => rank(x) < rank(y)
      /\ \A x, y \in S : x # y => rank(x) # rank(y)
      /\ \A k \in 0..(n - 1) : \E x \in S : rank(x) = k
  BY RankFact
<1>2. ASSUME NEW i \in 1..n
      PROVE  listed[i] \in S /\ rank(listed[i]) = i - 1
  <2>1. i - 1 \in 0..(n - 1)
    BY <1>1
  <2>2. \E x \in S : Cardinality(below[x]) = i - 1
    BY <1>1, <2>1
  <2>3. listed[i] = CHOOSE x \in S : Cardinality(below[x]) = i - 1
    BY DEF InOrder
  <2>. HIDE DEF listed
  <2>. QED BY <2>2, <2>3
<1>3. listed \in [1..n -> S]
  <2>1. listed = [i \in 1..n |-> listed[i]]
    BY DEF InOrder
  <2>2. \A i \in 1..n : listed[i] \in S
    BY <1>2
  <2>. HIDE DEF listed, n
  <2>. QED BY <2>1, <2>2, Zenon
<1>. HIDE DEF rank, listed
<1>4. ASSUME NEW x \in S
      PROVE  \E i \in 1..n : listed[i] = x
  <2>1. rank(x) + 1 \in 1..n /\ (rank(x) + 1) - 1 = rank(x)
    BY <1>1
  <2>. QED BY <1>1, <1>2, <2>1
<1>5. ASSUME NEW i \in 1..n, NEW j \in 1..n, listed[i] \in below[listed[j]] PROVE i < j
  <2>1. rank(listed[i]) < rank(listed[j]) /\ rank(listed[i]) = i - 1 /\ rank(listed[j]) = j - 1
    BY <1>1, <1>2, <1>5
  <2>. QED BY <2>1
<1>6. ASSUME NEW i \in 1..n, NEW j \in 1..n, listed[i] = listed[j] PROVE i = j
  <2>1. rank(listed[i]) = i - 1 /\ rank(listed[j]) = j - 1
    BY <1>2
  <2>2. i - 1 = j - 1
    BY <1>6, <2>1
  <2>. QED BY <2>2
<1>. QED BY <1>1, <1>3, <1>4, <1>5, <1>6 DEF listed

LEMMA AscendingFact ==
  ASSUME NEW S, S \subseteq Nat, IsFiniteSet(S)
  PROVE  LET n == Cardinality(S)
             listed == Ascending(S)
         IN  /\ n \in Nat /\ listed \in [1..n -> S]
             /\ \A x \in S : \E i \in 1..n : listed[i] = x
             /\ \A i, j \in 1..n : i < j <=> listed[i] < listed[j]
<1>. DEFINE below == [x \in S |-> {y \in S : y < x}]
            n == Cardinality(S)
            listed == Ascending(S)
<1>0. \A x, y, z \in S : ~(x < x) /\ (x = y \/ x < y \/ y < x) /\ (x < y /\ y < z => x < z)
  OBVIOUS
<1>1. below \in [S -> SUBSET S] /\ \A x \in S : below[x] = {y \in S : y < x}
  OBVIOUS
<1>2. listed = InOrder(S, below)
  BY DEF Ascending
<1>. HIDE DEF below
<1>3. \A x, y \in S : x \in below[y] <=> x < y
  BY <1>1
<1>4. /\ \A x \in S : x \notin below[x]
      /\ \A x, y \in S : x = y \/ x \in below[y] \/ y \in below[x]
      /\ \A x, y \in S : x \in below[y] => below[x] \subseteq below[y]
  BY <1>0, <1>1, <1>3
<1>5. Linear(S, below)
  BY <1>1, <1>4 DEF Linear
<1>. HIDE DEF listed
<1>6. /\ n \in Nat /\ listed \in [1..n -> S]
      /\ \A x \in S : \E i \in 1..n : listed[i] = x
      /\ \A i, j \in 1..n : listed[i] = listed[j] => i = j
      /\ \A i, j \in 1..n : listed[i] \in below[listed[j]] => i < j
  BY <1>2, <1>5, InOrderFact
<1>. HIDE DEF n
<1>7. \A i, j \in 1..n : listed[i] < listed[j] => i < j
  BY <1>3, <1>6
<1>8. ASSUME NEW i \in 1..n, NEW j \in 1..n, i < j PROVE listed[i] < listed[j]
  <2>0. n \in Nat /\ i # j
    BY <1>6, <1>8
  <2>1. listed[i] \in S /\ listed[j] \in S /\ listed[i] # listed[j]
    BY <1>6, <2>0
  <2>2. ~(listed[j] < listed[i])
    BY <1>7, <1>8, <2>0
  <2>3. listed[i] \in Nat /\ listed[j] \in Nat
    BY <2>1
  <2>. QED BY <2>1, <2>2, <2>3
<1>. QED BY <1>6, <1>7, <1>8 DEF n, listed

LEMMA PairsInOrderFact ==
  ASSUME NEW S, S \subseteq Nat \X Nat, IsFiniteSet(S)
  PROVE  LET n == Cardinality(S)
             listed == InOrder(S, [p \in S |->
                         {q \in S : q[1] < p[1] \/ (q[1] = p[1] /\ q[2] < p[2])}])
         IN  /\ n \in Nat /\ listed \in [1..n -> S]
             /\ \A x \in S : \E i \in 1..n : listed[i] = x
             /\ \A i, j \in 1..n : listed[i] = listed[j] => i = j
<1>. DEFINE below == [p \in S |-> {q \in S : q[1] < p[1] \/ (q[1] = p[1] /\ q[2] < p[2])}]
<1>1. \A p \in S : p[1] \in Nat /\ p[2] \in Nat /\ p = <<p[1], p[2]>>
  OBVIOUS
<1>2. \A p, q \in S : q \in below[p] <=> q[1] < p[1] \/ (q[1] = p[1] /\ q[2] < p[2])
  OBVIOUS
<1>3. below \in [S -> SUBSET S]
  OBVIOUS
<1>. HIDE DEF below
<1>4. \A p \in S : p \notin below[p]
  BY <1>1, <1>2
<1>5. \A p, q \in S : p = q \/ p \in below[q] \/ q \in below[p]
  <2>. SUFFICES ASSUME NEW p \in S, NEW q \in S, p \notin below[q], q \notin below[p]
                PROVE  p = q
    OBVIOUS
  <2>1. p[1] = q[1] /\ p[2] = q[2]
    BY <1>1, <1>2
  <2>. QED BY <1>1, <2>1
<1>6. \A p, q \in S : p \in below[q] => below[p] \subseteq below[q]
  <2>. SUFFICES ASSUME NEW p \in S, NEW q \in S, p \in below[q], NEW r \in below[p]
                PROVE  r \in below[q]
    OBVIOUS
  <2>1. r \in S
    BY <1>3
  <2>. QED BY <1>1, <1>2, <2>1
<1>7. Linear(S, below)
  BY <1>3, <1>4, <1>5, <1>6 DEF Linear
<1>8. LET n == Cardinality(S)
          listed == InOrder(S, below)
      IN  /\ n \in Nat /\ listed \in [1..n -> S]
          /\ \A x \in S : \E i \in 1..n : listed[i] = x
          /\ \A i, j \in 1..n : listed[i] = listed[j] => i = j
  BY <1>7, InOrderFact
<1>. QED BY <1>8 DEF below

-----------------------------------------------------------------------------
(* Folds: what a fold over a sequence holds after each of its elements.    *)

(* Upward induction.                                                       *)
LEMMA Upward ==
  ASSUME NEW n \in Nat, NEW S, 0 \in S, \A k \in 1..n : k - 1 \in S => k \in S
  PROVE  \A k \in 0..n : k \in S
<1>. DEFINE bad == {k \in 0..n : k \notin S}
<1>1. bad = {}
  <2>1. SUFFICES ASSUME bad # {} PROVE FALSE
    OBVIOUS
  <2>2. Min(bad) \in bad /\ \A other \in bad : Min(bad) <= other
    <3>1. bad \in SUBSET Nat
      OBVIOUS
    <3>. HIDE DEF bad
    <3>. QED BY <2>1, <3>1, NatMin
  <2>3. PICK k \in bad : \A other \in bad : k <= other
    BY <2>2
  <2>4. k - 1 \in 0..n /\ k - 1 \notin bad
    BY <2>3
  <2>. QED BY <2>3, <2>4
<1>. QED BY <1>1

LEMMA PrefixFact ==
  ASSUME NEW n \in Nat, NEW k \in 1..n
  PROVE  /\ 1..k \in SUBSET (1..n) /\ 1..k # {}
         /\ Max(1..k) = k /\ (1..k) \ {k} = 1..k - 1
<1>1. 1..k \in SUBSET (1..n) /\ 1..k # {} /\ (1..k) \ {k} = 1..k - 1
  OBVIOUS
<1>2. Max(1..k) \in 1..k /\ \A i \in 1..k : Max(1..k) >= i
  <2>. DEFINE T == 1..k
  <2>1. T \in SUBSET Nat /\ T # {} /\ k \in Nat /\ \A i \in T : i <= k
    OBVIOUS
  <2>. HIDE DEF T
  <2>2. Max(T) \in T /\ \A i \in T : Max(T) >= i
    BY <2>1, NatMax
  <2>. QED BY <2>2 DEF T
<1>. QED BY <1>1, <1>2

(* Folding from the greatest index down is a recursion over the sets of    *)
(* indices: it has a solution, whatever is done at each of them.           *)
Folds(n, V, base, step, f) ==
  /\ f \in [SUBSET (1..n) -> V]
  /\ \A s \in SUBSET (1..n) :
       f[s] = IF s = {} THEN base ELSE step[<<f[s \ {Max(s)}], Max(s)>>]
  /\ \A s \in SUBSET (1..n) : s # {} => Max(s) \in 1..n /\ f[s \ {Max(s)}] \in V

LEMMA FoldExists ==
  ASSUME NEW n \in Nat, NEW V, NEW base \in V, NEW step \in [V \X (1..n) -> V]
  PROVE  \E f : Folds(n, V, base, step, f)
<1>. DEFINE next(f, s) == IF s = {} THEN base ELSE step[<<f[s \ {Max(s)}], Max(s)>>]
            folds(k, f) == /\ f \in [SUBSET (1..k) -> V]
                           /\ \A s \in SUBSET (1..k) : f[s] = next(f, s)
            S == {k \in 0..n : \E f : folds(k, f)}
<1>1. 0 \in S
  <2>. DEFINE f == [s \in SUBSET (1..0) |-> base]
  <2>1. SUBSET (1..0) = {{}}
    OBVIOUS
  <2>2. folds(0, f)
    BY <2>1
  <2>. HIDE DEF f, folds
  <2>. QED BY <2>2
<1>2. ASSUME NEW k \in 1..n, k - 1 \in S
      PROVE  k \in S
  <2>1. PICK f : folds(k - 1, f)
    BY <1>2
  <2>. DEFINE g == [s \in SUBSET (1..k) |-> IF k \in s THEN step[<<f[s \ {k}], k>>] ELSE f[s]]
  <2>2. \A s \in SUBSET (1..k) : k \notin s => s \in SUBSET (1..k - 1)
    OBVIOUS
  <2>3. \A s \in SUBSET (1..k) : s \ {k} \in SUBSET (1..k - 1)
    OBVIOUS
  <2>4. g \in [SUBSET (1..k) -> V]
    <3>1. ASSUME NEW s \in SUBSET (1..k), k \in s PROVE step[<<f[s \ {k}], k>>] \in V
      <4>1. f[s \ {k}] \in V
        BY <2>1, <2>3
      <4>. QED BY <4>1
    <3>2. ASSUME NEW s \in SUBSET (1..k), k \notin s PROVE f[s] \in V
      BY <2>1, <2>2, <3>2
    <3>. QED BY <3>1, <3>2
  <2>5. ASSUME NEW s \in SUBSET (1..k) PROVE g[s] = next(g, s)
    <3>. DEFINE m == Max(s)
    <3>1. s # {} => m \in s /\ \A i \in s : m >= i
      <4>1. s \in SUBSET Nat /\ k \in Nat /\ \A i \in s : i <= k
        OBVIOUS
      <4>. QED BY <4>1, NatMax
    <3>. HIDE DEF m
    <3>2. CASE k \in s
      <4>1. m = k
        <5>1. m \in 1..k /\ m >= k
          BY <3>1, <3>2
        <5>. QED BY <5>1
      <4>2. g[s] = step[<<f[s \ {k}], k>>]
        BY <3>2
      <4>3. g[s \ {k}] = f[s \ {k}]
        OBVIOUS
      <4>. HIDE DEF g
      <4>. QED BY <3>2, <4>1, <4>2, <4>3 DEF m
    <3>3. CASE k \notin s
      <4>1. g[s] = f[s] /\ g[s \ {m}] = f[s \ {m}]
        BY <3>3
      <4>2. f[s] = next(f, s)
        BY <2>1, <2>2, <3>3
      <4>. HIDE DEF g
      <4>. QED BY <4>1, <4>2 DEF m
    <3>. QED BY <3>2, <3>3
  <2>. HIDE DEF g, next
  <2>6. folds(k, g)
    BY <2>4, <2>5
  <2>. HIDE DEF folds
  <2>. QED BY <2>6
<1>. HIDE DEF S
<1>3. n \in S
  BY <1>1, <1>2, Upward
<1>4. PICK f : folds(n, f)
  BY <1>3 DEF S
<1>5. ASSUME NEW s \in SUBSET (1..n), s # {} PROVE Max(s) \in 1..n
  <2>1. s \in SUBSET Nat /\ \A i \in s : i <= n
    OBVIOUS
  <2>2. Max(s) \in s
    BY <1>5, <2>1, NatMax
  <2>. QED BY <2>2
<1>6. \A s, i : s \in SUBSET (1..n) => s \ {i} \in SUBSET (1..n)
  OBVIOUS
<1>. HIDE DEF next
<1>7. \A s \in SUBSET (1..n) : s # {} => f[s \ {Max(s)}] \in V
  BY <1>4, <1>6
<1>8. Folds(n, V, base, step, f)
  BY <1>4, <1>5, <1>7 DEF Folds, next
<1>. QED BY <1>8

-----------------------------------------------------------------------------
(* Whose turn it is.                                                       *)

(* The walk `while (taken.has(n)) n += 1' ends, at the first number from its *)
(* start that holds no pick, having passed over picks only.                  *)
LEMMA FirstFreeFact ==
  ASSUME NEW total \in Nat, NEW taken \in SUBSET (1..total), NEW from \in Nat
  PROVE  /\ FirstFree(from, taken) \in Nat
         /\ FirstFree(from, taken) >= from
         /\ FirstFree(from, taken) \notin taken
         /\ \A no \in from..FirstFree(from, taken) - 1 : no \in taken
<1>. DEFINE count == Cardinality(taken)
            range == from..(from + count)
            free  == {no \in range : no \notin taken}
<1>1. IsFiniteSet(taken) /\ count \in Nat
  <2>1. IsFiniteSet(1..total)
    BY FS_Interval
  <2>2. IsFiniteSet(taken)
    BY <2>1, FS_Subset
  <2>. QED BY <2>2, FS_CardinalityType
<1>. HIDE DEF count
<1>2. free # {}
  <2>1. SUFFICES ASSUME range \subseteq taken PROVE FALSE
    OBVIOUS
  <2>2. Cardinality(range) = count + 1
    BY <1>1, FS_Interval
  <2>3. Cardinality(range) <= Cardinality(taken)
    BY <1>1, <2>1, FS_Subset
  <2>. QED BY <1>1, <2>2, <2>3 DEF count
<1>3. free \in SUBSET Nat
  BY <1>1
<1>4. FirstFree(from, taken) = Min(free)
  BY DEF FirstFree, count
<1>. HIDE DEF free
<1>5. /\ Min(free) \in free
      /\ \A no \in free : Min(free) <= no
  BY <1>2, <1>3, NatMin
<1>. USE DEF free
<1>6. \A no \in from..Min(free) - 1 : no \in taken
  BY <1>1, <1>5
<1>. QED BY <1>1, <1>4, <1>5, <1>6

LEMMA HighestPickedFact ==
  ASSUME NEW total \in Nat, NEW taken \in SUBSET (1..total)
  PROVE  /\ HighestPicked(taken) \in 0..total
         /\ \A no \in taken : no <= HighestPicked(taken)
         /\ IF taken = {} THEN HighestPicked(taken) = 0
                          ELSE HighestPicked(taken) \in taken
<1>1. CASE taken = {}
  BY <1>1 DEF HighestPicked
<1>2. CASE taken # {}
  <2>1. taken \in SUBSET Nat /\ \A no \in taken : no <= total
    OBVIOUS
  <2>2. Max(taken) \in taken /\ \A no \in taken : Max(taken) >= no
    BY <1>2, <2>1, NatMax
  <2>3. HighestPicked(taken) = Max(taken)
    BY <1>2 DEF HighestPicked
  <2>4. Max(taken) \in 1..total
    BY <2>2
  <2>5. \A no \in taken : no <= Max(taken)
    BY <2>1, <2>2, <2>4
  <2>. QED BY <1>2, <2>2, <2>3, <2>4, <2>5
<1>. QED BY <1>1, <1>2

(* Nothing is picked from the pointer, the first number past the board or 1, *)
(* whichever is highest, so that the walk of whoIsOnClock does not move.     *)
ClockStart(currentPick, taken) == Max({currentPick, HighestPicked(taken) + 1, 1})

LEMMA OnClockIs ==
  ASSUME NEW total \in Nat, NEW taken \in SUBSET (1..total), NEW currentPick \in Nat,
         NEW status
  PROVE  LET start == ClockStart(currentPick, taken)
             high  == HighestPicked(taken)
         IN  /\ start \in Nat /\ start \in {currentPick, high + 1, 1}
             /\ start >= currentPick /\ start >= high + 1 /\ start >= 1
             /\ WhoIsOnClock(status, currentPick, taken, total)
                  = IF status # "live" \/ start > total THEN NoSlot ELSE start
<1>. DEFINE high  == HighestPicked(taken)
            start == ClockStart(currentPick, taken)
            no    == FirstFree(start, taken)
<1>1. high \in 0..total /\ \A t \in taken : t <= high
  BY HighestPickedFact
<1>. HIDE DEF high
<1>2. /\ start \in {currentPick, high + 1, 1}
      /\ start >= currentPick /\ start >= high + 1 /\ start >= 1
  <2>1. currentPick \in Int /\ high + 1 \in Int /\ 1 \in Int
    BY <1>1
  <2>. QED BY <2>1, MaxOfThree DEF ClockStart, high
<1>3. WhoIsOnClock(status, currentPick, taken, total)
        = IF status # "live" \/ no > total THEN NoSlot ELSE no
  BY DEF WhoIsOnClock, ClockStart
<1>. HIDE DEF start
<1>4. start \in Nat /\ start \notin taken
  BY <1>1, <1>2
<1>5. /\ no \in Nat /\ no >= start
      /\ \A n \in start..no - 1 : n \in taken
  BY <1>4, FirstFreeFact
<1>6. no = start
  <2>1. CASE no > start
    BY <1>4, <1>5, <2>1
  <2>. QED BY <1>4, <1>5, <2>1
<1>. HIDE DEF no
<1>. QED BY <1>2, <1>3, <1>4, <1>6 DEF start, high

(* whoIsOnClock names a slot that is really empty, above every pick and not  *)
(* below current_pick, and with no other such slot before it.                *)
THEOREM OnClockFact ==
  ASSUME NEW total \in Nat, NEW taken \in SUBSET (1..total), NEW currentPick \in Nat,
         NEW status,
         WhoIsOnClock(status, currentPick, taken, total) # NoSlot
  PROVE  LET no == WhoIsOnClock(status, currentPick, taken, total)
         IN  /\ status = "live"
             /\ no \in 1..total /\ no \notin taken /\ no >= currentPick
             /\ \A t \in taken : t < no
             /\ \A other \in 1..total : (other >= currentPick /\ \A t \in taken : t < other)
                                          => no <= other
<1>. DEFINE high  == HighestPicked(taken)
            start == ClockStart(currentPick, taken)
            no    == WhoIsOnClock(status, currentPick, taken, total)
<1>1. high \in 0..total /\ (\A t \in taken : t <= high)
      /\ IF taken = {} THEN high = 0 ELSE high \in taken
  BY HighestPickedFact
<1>2. /\ start \in Nat /\ start \in {currentPick, high + 1, 1}
      /\ start >= currentPick /\ start >= high + 1 /\ start >= 1
      /\ no = IF status # "live" \/ start > total THEN NoSlot ELSE start
  BY OnClockIs
<1>3. no # NoSlot
  OBVIOUS
<1>. HIDE DEF high, start, no
<1>4. status = "live" /\ no = start /\ start <= total
  BY <1>2, <1>3
<1>5. \A t \in taken : t < no
  BY <1>1, <1>2, <1>4
<1>6. \A other \in 1..total : (other >= currentPick /\ \A t \in taken : t < other)
                                => start <= other
  <2>1. SUFFICES ASSUME NEW other \in 1..total, other >= currentPick,
                        \A t \in taken : t < other
                 PROVE  start <= other
    OBVIOUS
  <2>2. high + 1 <= other
    BY <1>1, <2>1
  <2>. QED BY <1>1, <1>2, <2>1, <2>2
<1>7. no \in 1..total /\ no \notin taken /\ no >= currentPick
  BY <1>2, <1>4, <1>5
<1>. QED BY <1>4, <1>5, <1>6, <1>7 DEF no

(* Nobody is on the clock of a live draft only when it has no such slot.     *)
LEMMA NobodyOnClock ==
  ASSUME NEW total \in Nat, NEW taken \in SUBSET (1..total), NEW currentPick \in Nat,
         WhoIsOnClock("live", currentPick, taken, total) = NoSlot,
         NEW other \in 1..total, other >= currentPick, \A t \in taken : t < other
  PROVE  FALSE
<1>. DEFINE high  == HighestPicked(taken)
            start == ClockStart(currentPick, taken)
<1>1. high \in 0..total /\ IF taken = {} THEN high = 0 ELSE high \in taken
  BY HighestPickedFact
<1>2. /\ start \in Nat /\ start \in {currentPick, high + 1, 1} /\ start >= 1
      /\ start > total \/ start = NoSlot
  BY OnClockIs
<1>. HIDE DEF high, start
<1>3. high + 1 <= other
  BY <1>1
<1>. QED BY <1>1, <1>2, <1>3 DEF NoSlot

(* With current_pick not above the first number past the board, the clock    *)
(* is at that number, or nowhere when the board is over.                     *)
LEMMA OnClockIsNext ==
  ASSUME NEW total \in Nat, NEW taken \in SUBSET (1..total), NEW currentPick \in Nat,
         currentPick <= HighestPicked(taken) + 1
  PROVE  WhoIsOnClock("live", currentPick, taken, total)
           = IF HighestPicked(taken) + 1 > total THEN NoSlot ELSE HighestPicked(taken) + 1
<1>. DEFINE high  == HighestPicked(taken)
            start == ClockStart(currentPick, taken)
<1>1. high \in 0..total /\ currentPick <= high + 1
  BY HighestPickedFact
<1>2. /\ start \in Nat /\ start \in {currentPick, high + 1, 1}
      /\ start >= currentPick /\ start >= high + 1 /\ start >= 1
      /\ WhoIsOnClock("live", currentPick, taken, total)
           = IF start > total THEN NoSlot ELSE start
  BY OnClockIs
<1>. HIDE DEF high, start
<1>3. start = high + 1
  BY <1>1, <1>2
<1>. QED BY <1>2, <1>3 DEF high

(* A repair leaves nothing to repair, and does not change whose turn it is,  *)
(* on every board and however many picks were stranded (repairUnadvanced     *)
(* may run twice, and may run concurrently with the advance it stands for).  *)
THEOREM RepairIsHarmless ==
  ASSUME NEW total \in Nat, NEW taken \in SUBSET (1..total), NEW currentPick \in taken
  PROVE  LET repaired == FindUnadvancedPick(currentPick, taken)
         IN  /\ FindUnadvancedPick(repaired, taken) = NoSlot
             /\ repaired > currentPick
             /\ WhoIsOnClock("live", repaired, taken, total)
                  = WhoIsOnClock("live", currentPick, taken, total)
<1>. DEFINE repaired == FirstFree(currentPick + 1, taken)
            high     == HighestPicked(taken)
<1>1. FindUnadvancedPick(currentPick, taken) = repaired
  BY DEF FindUnadvancedPick
<1>2. /\ repaired \in Nat /\ repaired >= currentPick + 1 /\ repaired \notin taken
      /\ \A n \in currentPick + 1..repaired - 1 : n \in taken
  <2>1. currentPick + 1 \in Nat
    OBVIOUS
  <2>. QED BY <2>1, FirstFreeFact
<1>3. high \in 0..total /\ \A t \in taken : t <= high
  BY HighestPickedFact
<1>. HIDE DEF repaired, high
<1>4. repaired <= high + 1
  <2>1. repaired - 1 \in taken
    BY <1>2
  <2>. QED BY <1>2, <1>3, <2>1
<1>5. currentPick \in Nat /\ currentPick <= high + 1
  BY <1>3
<1>6. WhoIsOnClock("live", repaired, taken, total)
        = WhoIsOnClock("live", currentPick, taken, total)
  BY <1>2, <1>4, <1>5, OnClockIsNext DEF high
<1>7. FindUnadvancedPick(repaired, taken) = NoSlot
  BY <1>2 DEF FindUnadvancedPick
<1>. QED BY <1>1, <1>2, <1>5, <1>6, <1>7

(* Undoing to a target on a board that reaches it puts exactly that pick on  *)
(* the clock, whatever is above it.                                          *)
THEOREM UndoPutsTargetOnTheClock ==
  ASSUME NEW total \in Nat, NEW taken \in SUBSET (1..total),
         NEW target \in 1..total, 1..target - 1 \subseteq taken
  PROVE  LET left == taken \ Doomed(taken, target)
         IN  /\ left = 1..target - 1
             /\ WhoIsOnClock("live", target, left, total) = target
<1>. DEFINE left == taken \ Doomed(taken, target)
<1>1. left = 1..target - 1
  <2>1. ASSUME NEW no \in left PROVE no \in 1..target - 1
    <3>1. no \in taken /\ no \in 1..total /\ ~(no >= target)
      BY DEF Doomed
    <3>. QED BY <3>1
  <2>2. ASSUME NEW no \in 1..target - 1 PROVE no \in left
    <3>1. no \in taken /\ ~(no >= target)
      OBVIOUS
    <3>. QED BY <3>1 DEF Doomed
  <2>. QED BY <2>1, <2>2
<1>2. left \in SUBSET (1..total)
  OBVIOUS
<1>. HIDE DEF left
<1>3. HighestPicked(left) = target - 1
  <2>1. /\ HighestPicked(left) \in 0..total
        /\ \A no \in left : no <= HighestPicked(left)
        /\ IF left = {} THEN HighestPicked(left) = 0 ELSE HighestPicked(left) \in left
    BY <1>2, HighestPickedFact
  <2>. QED BY <1>1, <2>1
<1>4. WhoIsOnClock("live", target, left, total) = target
  BY <1>2, <1>3, OnClockIsNext
<1>. QED BY <1>1, <1>4 DEF left

LEMMA OnClockType ==
  ASSUME NEW total \in Nat, NEW taken \in SUBSET (1..total), NEW currentPick \in Nat,
         NEW status
  PROVE  WhoIsOnClock(status, currentPick, taken, total) \in 0..total
<1>1. CASE WhoIsOnClock(status, currentPick, taken, total) = NoSlot
  BY <1>1 DEF NoSlot
<1>2. CASE WhoIsOnClock(status, currentPick, taken, total) # NoSlot
  BY <1>2, OnClockFact
<1>. QED BY <1>1, <1>2
=============================================================================
