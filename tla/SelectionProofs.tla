--------------------------- MODULE SelectionProofs ---------------------------
(***************************************************************************)
(* What Entries returns, for sequences of any length.  The definition      *)
(* chooses the k-th position; that there is one is shown by induction, in  *)
(* the form of a least counterexample.                                     *)
(***************************************************************************)
EXTENDS Selection, FiniteSetTheorems, WellFoundedInduction, TLAPS

\* A set of numbers that is not empty has a least one.
LEMMA LeastNumber ==
  ASSUME NEW S \in SUBSET Nat, S # {}
  PROVE  \E n \in S : \A m \in S : n <= m
<1> DEFINE R == OpToRel(<, Nat)
<1>1. \E x \in S : \A y \in S : ~ (<<y, x>> \in R)
  BY NatLessThanWellFounded, WFMin
<1>2. \A x, y \in Nat : y < x => <<y, x>> \in R
  BY DEF OpToRel
<1>3. \E x \in S : \A y \in S : ~(y < x)
  BY <1>1, <1>2, Zenon
<1> QED
  BY <1>3

\* In a finite set of numbers, some element has exactly k smaller ones.
LEMMA Ranked ==
  ASSUME NEW n \in Nat, NEW at \in SUBSET (1 .. n), NEW k \in 1 .. Cardinality(at)
  PROVE  \E i \in at : Cardinality({m \in at : m < i}) = k - 1
<1> DEFINE upto(i) == {m \in at : m <= i}
           size(i) == Cardinality(upto(i))
           S == {i \in 0 .. n : size(i) >= k}
<1>1. IsFiniteSet(at) /\ Cardinality(at) \in Nat
  <2>1. IsFiniteSet(1 .. n)
    BY FS_Interval
  <2> QED
    BY <2>1, FS_Subset, FS_CardinalityType
<1>2. \A i \in 0 .. n : IsFiniteSet(upto(i)) /\ size(i) \in Nat
  BY <1>1, FS_Subset, FS_CardinalityType
<1>3. upto(n) = at /\ upto(0) = {}
  <2>1. \A m \in at : m \in Nat /\ m <= n /\ ~(m <= 0)
    OBVIOUS
  <2> QED
    BY <2>1
<1>4. k \in Nat /\ k >= 1 /\ size(n) >= k /\ size(0) = 0
  BY <1>1, <1>3, FS_EmptySet
<1>5. \A i \in 1 .. n : size(i) = IF i \in at THEN size(i - 1) + 1 ELSE size(i - 1)
  <2> SUFFICES ASSUME NEW i \in 1 .. n
               PROVE  size(i) = IF i \in at THEN size(i - 1) + 1 ELSE size(i - 1)
    OBVIOUS
  <2>1. upto(i) = IF i \in at THEN upto(i - 1) \union {i} ELSE upto(i - 1)
    <3>1. \A m \in at : m <= i <=> (m <= i - 1 \/ m = i)
      OBVIOUS
    <3> QED
      BY <3>1
  <2>2. i \notin upto(i - 1)
    OBVIOUS
  <2>3. Cardinality(upto(i - 1) \union {i}) = size(i - 1) + 1
    <3>1. IsFiniteSet(upto(i - 1))
      <4>1. i - 1 \in 0 .. n
        OBVIOUS
      <4> QED
        BY <1>2, <4>1
    <3> HIDE DEF upto
    <3> QED
      BY <2>2, <3>1, FS_AddElement
  <2> QED
    BY <2>1, <2>3
<1>6. \A i \in 1 .. n : {m \in at : m < i} = upto(i - 1)
  <2>1. \A i \in 1 .. n : \A m \in at : m < i <=> m <= i - 1
    OBVIOUS
  <2> QED
    BY <2>1
<1> HIDE DEF size
<1>7. n \in S /\ 0 \notin S /\ S \in SUBSET Nat
  BY <1>4
<1>8. PICK i \in S : \A j \in S : i <= j
  BY <1>7, LeastNumber
<1>9. i \in 1 .. n /\ i - 1 \in 0 .. n /\ i - 1 \notin S
  <2>1. i \in 0 .. n /\ i # 0
    BY <1>7, <1>8
  <2>2. i - 1 \in S => i <= i - 1
    BY <1>8
  <2> QED
    BY <2>1, <2>2
<1>10. size(i) >= k /\ size(i - 1) < k /\ size(i) \in Nat /\ size(i - 1) \in Nat
  <2>1. \A j \in 0 .. n : size(j) \in Nat
    BY <1>2
  <2>2. size(i - 1) \in Nat /\ size(i) \in Nat
    BY <1>9, <2>1
  <2>3. size(i) >= k /\ ~(size(i - 1) >= k)
    BY <1>8, <1>9
  <2> QED
    BY <1>4, <2>2, <2>3
<1>11. i \in at /\ size(i - 1) = k - 1
  BY <1>4, <1>5, <1>9, <1>10
<1> QED
  BY <1>6, <1>9, <1>11 DEF size

\* The size of an interval.
LEMMA UpTo ==
  ASSUME NEW n \in Nat
  PROVE  IsFiniteSet(1 .. n) /\ Cardinality(1 .. n) = n
  BY FS_Interval

\* t consists of the entries of q at the positions in at, each once.
Selects(t, q, at) ==
  /\ Len(t) = Cardinality(at) /\ Len(t) <= Len(q)
  /\ \E f \in [DOMAIN t -> at] :
       /\ \A n \in DOMAIN t : t[n] = q[f[n]]
       /\ \A m, n \in DOMAIN t : f[m] = f[n] => m = n
       /\ \A i \in at : \E n \in DOMAIN t : f[n] = i

\* Entries selects (the loops of dequeuePostCancelUserPending and RequestReplan).
THEOREM EntriesSelect ==
  ASSUME NEW T, NEW q \in Seq(T), NEW at \in SUBSET DOMAIN q
  PROVE  Entries(q, at) \in Seq(T) /\ Selects(Entries(q, at), q, at)
<1> DEFINE below(n) == Cardinality({m \in at : m < n})
           nth(k) == CHOOSE n \in at : below(n) = k - 1
           f == [k \in 1 .. Cardinality(at) |-> nth(k)]
           t == Entries(q, at)
<1>1. at \in SUBSET (1 .. Len(q)) /\ Len(q) \in Nat
  OBVIOUS
<1>2. IsFiniteSet(at) /\ Cardinality(at) \in Nat /\ Cardinality(at) <= Len(q)
  <2>1. IsFiniteSet(1 .. Len(q)) /\ Cardinality(1 .. Len(q)) = Len(q)
    BY <1>1, UpTo
  <2> QED
    BY <1>1, <2>1, FS_Subset, FS_CardinalityType
<1>3. ASSUME NEW k \in 1 .. Cardinality(at)
      PROVE  nth(k) \in at /\ below(nth(k)) = k - 1
  <2>1. \E n \in at : below(n) = k - 1
    BY <1>1, Ranked
  <2> QED
    BY <2>1
<1>4. t = [k \in 1 .. Cardinality(at) |-> q[nth(k)]]
  BY DEF Entries
<1> HIDE DEF nth, t
<1>5. \A k \in 1 .. Cardinality(at) : nth(k) \in at /\ q[nth(k)] \in T
  <2>1. \A n \in at : q[n] \in T
    OBVIOUS
  <2> QED
    BY <1>3, <2>1
<1>6. t \in Seq(T) /\ Len(t) = Cardinality(at) /\ DOMAIN t = 1 .. Cardinality(at)
  BY <1>2, <1>4, <1>5
<1>7. f \in [DOMAIN t -> at] /\ \A n \in DOMAIN t : t[n] = q[f[n]]
  BY <1>4, <1>5, <1>6
<1>8. ASSUME NEW m \in 1 .. Cardinality(at), NEW n \in 1 .. Cardinality(at), nth(m) = nth(n)
      PROVE  m = n
  <2>1. m - 1 = n - 1
    BY <1>3, <1>8
  <2> QED
    BY <2>1, <1>2
<1>9. \A m, n \in DOMAIN t : f[m] = f[n] => m = n
  BY <1>6, <1>8
<1>10. ASSUME NEW i \in at
       PROVE  \E n \in DOMAIN t : f[n] = i
  <2> SUFFICES ASSUME \A n \in DOMAIN t : f[n] # i PROVE FALSE
    OBVIOUS
  <2>1. f \in [1 .. Cardinality(at) -> at \ {i}]
    BY <1>6, <1>7
  <2>2. IsFiniteSet(at \ {i}) /\ Cardinality(at \ {i}) = Cardinality(at) - 1
    BY <1>2, FS_RemoveElement
  <2>3. IsFiniteSet(1 .. Cardinality(at)) /\ Cardinality(1 .. Cardinality(at)) = Cardinality(at)
    BY <1>2, UpTo
  <2>4. Cardinality(at \ {i}) < Cardinality(1 .. Cardinality(at))
    BY <1>2, <2>2, <2>3
  <2> HIDE DEF f
  <2> DEFINE S == 1 .. Cardinality(at)
             V == at \ {i}
  <2> HIDE DEF S, V
  <2>5. \E x, y \in S : x # y /\ f[x] = f[y]
    <3>1. IsFiniteSet(S) /\ IsFiniteSet(V) /\ Cardinality(V) < Cardinality(S) /\ f \in [S -> V]
      BY <2>1, <2>2, <2>3, <2>4 DEF S, V
    <3> QED
      BY <3>1, FS_PigeonHole
  <2> QED
    BY <1>6, <1>9, <2>5 DEF S
<1> HIDE DEF f
<1> QED
  BY <1>2, <1>6, <1>7, <1>9, <1>10 DEF t, Selects
=============================================================================
