----------------------------- MODULE StoreProofs -----------------------------
(***************************************************************************)
(* Lemmas about the operators of Store: what ORDER BY returns, and what a   *)
(* bulk INSERT takes from a snapshot.  They hold for every set of snapshots *)
(* and are shown by counting, without induction over the rows.              *)
(***************************************************************************)
EXTENDS Store, FiniteSetTheorems, TLAPS

-----------------------------------------------------------------------------
(* ORDER BY.                                                                *)

\* The elements of S below x, for the order d.
Preceding(S, d, x) == {y \in S : d[y] < d[x]}

\* Elements in order have strictly more below them.
LEMMA PrecedingGrows ==
    ASSUME NEW S, IsFiniteSet(S), NEW d \in [S -> Int],
           NEW x \in S, NEW y \in S, d[x] < d[y]
    PROVE  Cardinality(Preceding(S, d, x)) < Cardinality(Preceding(S, d, y))
<1>1. Preceding(S, d, y) \in SUBSET S
  BY DEF Preceding
<1>2. IsFiniteSet(Preceding(S, d, y))
  BY <1>1, FS_Subset
<1>3. Preceding(S, d, x) \in SUBSET Preceding(S, d, y)
  BY DEF Preceding
<1>4. x \in Preceding(S, d, y) /\ x \notin Preceding(S, d, x)
  BY DEF Preceding
<1>5. /\ IsFiniteSet(Preceding(S, d, x))
      /\ Cardinality(Preceding(S, d, x)) <= Cardinality(Preceding(S, d, y))
      /\ Cardinality(Preceding(S, d, y)) # Cardinality(Preceding(S, d, x))
  BY <1>2, <1>3, <1>4, FS_Subset
<1> QED
  BY <1>2, <1>5, FS_CardinalityType

\* Every place of a finite set in order is taken, by one element only: counting
\* the elements below is one to one, so that it reaches every place.
LEMMA PlacesTaken ==
    ASSUME NEW S, IsFiniteSet(S), NEW d \in [S -> Int],
           \A x, y \in S : d[x] = d[y] => x = y
    PROVE  /\ Cardinality(S) \in Nat
           /\ \A k \in 1 .. Cardinality(S) :
                 \E x \in S : Cardinality(Preceding(S, d, x)) = k - 1
           /\ \A x \in S : Cardinality(Preceding(S, d, x)) + 1 \in 1 .. Cardinality(S)
           /\ \A x, y \in S :
                 Cardinality(Preceding(S, d, x)) = Cardinality(Preceding(S, d, y)) => x = y
<1> DEFINE n == Cardinality(S)
           place == [x \in S |-> Cardinality(Preceding(S, d, x)) + 1]
<1>1. n \in Nat
  BY FS_CardinalityType
<1>2. ASSUME NEW x \in S
      PROVE  Cardinality(Preceding(S, d, x)) \in Nat /\ Cardinality(Preceding(S, d, x)) < n
  <2>1. Preceding(S, d, x) \in SUBSET S /\ x \notin Preceding(S, d, x)
    BY DEF Preceding
  <2>2. /\ IsFiniteSet(Preceding(S, d, x))
        /\ Cardinality(Preceding(S, d, x)) <= n
        /\ n # Cardinality(Preceding(S, d, x))
    BY <2>1, FS_Subset
  <2> QED
    BY <1>1, <2>2, FS_CardinalityType
<1>3. ASSUME NEW x \in S, NEW y \in S, x # y
      PROVE  Cardinality(Preceding(S, d, x)) # Cardinality(Preceding(S, d, y))
  <2>1. d[x] < d[y] \/ d[y] < d[x]
    BY <1>3
  <2> QED
    BY <1>2, <2>1, PrecedingGrows
<1> HIDE DEF n
<1>4. place \in [S -> 1 .. n]
  BY <1>1, <1>2
<1>5. place \in Injection(S, 1 .. n)
  BY <1>2, <1>3, <1>4 DEF Injection, IsInjective
<1>6. IsFiniteSet(1 .. n) /\ Cardinality(1 .. n) = n
  BY <1>1, FS_Interval
<1>7. place \in Surjection(S, 1 .. n)
  BY <1>5, <1>6, FS_Injection DEF n
<1>8. ASSUME NEW k \in 1 .. n
      PROVE  \E x \in S : Cardinality(Preceding(S, d, x)) = k - 1
  <2>1. PICK x \in S : place[x] = k
    BY <1>7 DEF Surjection
  <2> QED
    BY <1>1, <1>2, <2>1
<1> QED
  BY <1>1, <1>2, <1>3, <1>8 DEF n

\* A sequence of elements of S, each at its place in the order d.
Listing(s, S, d) ==
    /\ s \in [1 .. Cardinality(S) -> S]
    /\ \A k \in 1 .. Cardinality(S) : Cardinality(Preceding(S, d, s[k])) = k - 1

\* Such a sequence has every element of S.
LEMMA ListsAll ==
    ASSUME NEW S, IsFiniteSet(S), NEW d \in [S -> Int],
           \A x, y \in S : d[x] = d[y] => x = y,
           NEW s, Listing(s, S, d)
    PROVE  \A x \in S : \E k \in 1 .. Cardinality(S) : s[k] = x
<1> DEFINE n == Cardinality(S)
           c(x) == Cardinality(Preceding(S, d, x))
<1>1. /\ \A x \in S : c(x) + 1 \in 1 .. n
      /\ \A x, y \in S : c(x) = c(y) => x = y
  BY PlacesTaken
<1>2. \A x \in S : c(x) \in Nat
  BY FS_Subset, FS_CardinalityType DEF Preceding
<1>3. \A k \in 1 .. n : s[k] \in S /\ c(s[k]) = k - 1
  BY DEF Listing
<1> HIDE DEF n, c
<1>4. ASSUME NEW x \in S
      PROVE  \E k \in 1 .. n : s[k] = x
  <2>1. c(x) + 1 \in 1 .. n
    BY <1>1
  <2>2. s[c(x) + 1] \in S /\ c(s[c(x) + 1]) = (c(x) + 1) - 1
    BY <1>3, <2>1
  <2>3. c(s[c(x) + 1]) = c(x)
    BY <1>2, <2>2
  <2>4. s[c(x) + 1] = x
    BY <1>1, <2>2, <2>3
  <2> QED
    BY <2>1, <2>4
<1> QED
  BY <1>4 DEF n

\* It is in order.
LEMMA ListingOrdered ==
    ASSUME NEW S, IsFiniteSet(S), NEW d \in [S -> Int],
           \A x, y \in S : d[x] = d[y] => x = y,
           NEW s, Listing(s, S, d),
           NEW i \in 1 .. Cardinality(S), NEW j \in 1 .. Cardinality(S), i < j
    PROVE  d[s[i]] < d[s[j]]
<1>1. Cardinality(S) \in Nat
  BY FS_CardinalityType
<1>2. s[i] \in S /\ s[j] \in S
  BY DEF Listing
<1>3. /\ Cardinality(Preceding(S, d, s[i])) = i - 1
      /\ Cardinality(Preceding(S, d, s[j])) = j - 1
  BY DEF Listing
<1>4. d[s[i]] # d[s[j]]
  BY <1>1, <1>2, <1>3
<1>5. ~(d[s[j]] < d[s[i]])
  BY <1>1, <1>2, <1>3, PrecedingGrows
<1> QED
  BY <1>2, <1>4, <1>5

\* A set of naturals has a least element: the one at the first place.
LEMMA LeastNumber ==
    ASSUME NEW T \in SUBSET Nat, NEW i \in T
    PROVE  \E m \in T : \A j \in T : m <= j
<1> DEFINE S == {j \in T : j <= i}
           d == [x \in S |-> x]
<1>0. i \in Nat /\ \A j \in T : j \in Nat
  OBVIOUS
<1>1. (\A j \in S : j \in 0 .. i) /\ i \in S
  BY <1>0
<1> HIDE DEF S
<1>2. IsFiniteSet(S)
  <2>1. IsFiniteSet(0 .. i)
    BY <1>0, FS_Interval
  <2> QED
    BY <1>1, <2>1, S \in SUBSET (0 .. i), FS_Subset
<1>3. d \in [S -> Int] /\ \A x, y \in S : d[x] = d[y] => x = y
  BY <1>1
<1>4. Cardinality(S) \in Nat /\ Cardinality(S) # 0
  BY <1>1, <1>2, FS_CardinalityType, FS_EmptySet
<1>5. 1 \in 1 .. Cardinality(S)
  BY <1>4
<1> HIDE DEF d
<1>6. PICK m \in S : Cardinality(Preceding(S, d, m)) = 1 - 1
  BY <1>2, <1>3, <1>5, PlacesTaken
<1>7. Preceding(S, d, m) = {}
  <2>1. Preceding(S, d, m) \in SUBSET S
    BY DEF Preceding
  <2> QED
    BY <1>2, <1>6, <2>1, FS_Subset, FS_EmptySet
<1>8. \A j \in S : ~(j < m)
  BY <1>7 DEF Preceding, d
<1> QED
  BY <1>0, <1>8 DEF S

-----------------------------------------------------------------------------
(* INSERT ... ON CONFLICT DO NOTHING.                                       *)

\* Rounding to NUMERIC(18,4) puts no two numbers out of order and takes none below
\* zero, and NaN stays what it is.
LEMMA NumericOrder ==
    ASSUME NEW x \in Int \cup {NaN}, NEW y \in Int \cup {NaN}
    PROVE  /\ Numeric(x) \in Int \cup {NaN}
           /\ x # NaN => Numeric(x) \in Int
           /\ ~Lt(x, y) => ~Lt(Numeric(x), Numeric(y))
           /\ ~Le(x, 0) => ~Lt(Numeric(x), 0)
<1>0. NaN \notin Int
  BY StoreAssumption
<1>1. ASSUME NEW n \in Int
      PROVE  Numeric(n) = (n + 5) \div 10 /\ Numeric(n) \in Int
  BY <1>0 DEF Numeric
<1>2. ASSUME NEW n \in Int, NEW m \in Int, m <= n
      PROVE  (m + 5) \div 10 <= (n + 5) \div 10
  BY <1>2
<1>3. ASSUME NEW n \in Int, n > 0
      PROVE  (n + 5) \div 10 >= 0
  BY <1>3
<1>4. Numeric(NaN) = NaN
  BY DEF Numeric
<1>5. x # NaN => Numeric(x) \in Int
  BY <1>1
<1>6. ~Lt(x, y) => ~Lt(Numeric(x), Numeric(y))
  <2>1. CASE NaN \in {x, y}
    BY <1>4, <2>1 DEF Lt
  <2>2. CASE x \in Int /\ y \in Int
    <3>1. SUFFICES ASSUME y <= x
                   PROVE  ~(Numeric(x) < Numeric(y))
      BY <1>0, <2>2 DEF Lt
    <3>2. Numeric(y) <= Numeric(x)
      BY <1>1, <1>2, <2>2, <3>1
    <3> QED
      BY <1>1, <2>2, <3>2
  <2> QED
    BY <2>1, <2>2
<1>7. ~Le(x, 0) => ~Lt(Numeric(x), 0)
  <2>1. CASE x = NaN
    BY <1>4, <2>1 DEF Lt
  <2>2. CASE x \in Int
    <3>1. SUFFICES ASSUME x > 0
                   PROVE  ~(Numeric(x) < 0)
      BY <1>0, <2>2 DEF Lt, Le
    <3> QED
      BY <1>1, <1>3, <2>2, <3>1
  <2> QED
    BY <2>1, <2>2
<1> QED
  BY <1>4, <1>5, <1>6, <1>7

\* Storing a row keeps its key.
LEMMA StoredKey ==
    ASSUME NEW t \in Tables, NEW sn \in Snapshots, NEW i \in DOMAIN sn[t]
    PROVE  Key(Stored(t, sn[t][i])) = Key(sn[t][i])
BY StoreAssumption DEF Key, Stored

\* What a snapshot contributes to a table has one row per key.
LEMMA BatchKeysUnique ==
    ASSUME NEW t \in Tables, NEW sn \in Snapshots,
           NEW x \in Batch(t, sn), NEW y \in Batch(t, sn), Key(x) = Key(y)
    PROVE  x = y
<1>1. PICK i \in Kept(t, sn) : x = Stored(t, sn[t][i])
  BY DEF Batch
<1>2. PICK j \in Kept(t, sn) : y = Stored(t, sn[t][j])
  BY DEF Batch
<1>3. i \in DOMAIN sn[t] /\ j \in DOMAIN sn[t] /\ i \in Nat /\ j \in Nat
  BY StoreAssumption DEF Kept
<1>4. Key(sn[t][i]) = Key(sn[t][j])
  BY <1>1, <1>2, <1>3, StoredKey
<1>5. ~(i < j) /\ ~(j < i)
  BY <1>3, <1>4 DEF Kept
<1> QED
  BY <1>1, <1>2, <1>3, <1>5

\* A table of a snapshot without valid rows contributes nothing.
LEMMA NoneValidBatch ==
    ASSUME NEW t \in Tables, NEW sn, NoneValid(t, sn)
    PROVE  Batch(t, sn) = {}
BY DEF NoneValid, Batch, Kept

\* Every valid row of a snapshot is in its batch, or an earlier one with its key.
LEMMA BatchCovers ==
    ASSUME NEW t \in Tables, NEW sn \in Snapshots, NEW i \in DOMAIN sn[t],
           ValidRow(t, sn[t][i])
    PROVE  \E b \in Batch(t, sn) : Key(b) = Key(sn[t][i])
<1> DEFINE T == {j \in DOMAIN sn[t] : ValidRow(t, sn[t][j]) /\ Key(sn[t][j]) = Key(sn[t][i])}
<1>1. T \in SUBSET Nat /\ i \in T
  BY StoreAssumption
<1>2. PICK m \in T : \A j \in T : m <= j
  BY <1>1, LeastNumber
<1>3. m \in Nat /\ \A j \in DOMAIN sn[t] : j \in Nat
  BY <1>1, <1>2, StoreAssumption
<1>4. m \in Kept(t, sn)
  BY <1>2, <1>3 DEF Kept
<1>5. Key(Stored(t, sn[t][m])) = Key(sn[t][i])
  BY <1>2, StoredKey
<1> QED
  BY <1>4, <1>5 DEF Batch

==============================================================================
