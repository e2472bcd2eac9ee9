-------------------------- MODULE QueueFilterProofs --------------------------
(* What filtering a queue preserves, for every queue.                        *)
EXTENDS QueueFilter, FiniteSetTheorems, SequenceTheorems, TLAPS

\* The indices of a queue are finitely many.
LEMMA Indices ==
  ASSUME NEW S, NEW q \in Seq(S)
  PROVE  /\ DOMAIN q = 1 .. Len(q)
         /\ Len(q) \in Nat
         /\ IsFiniteSet(DOMAIN q)
         /\ Cardinality(DOMAIN q) = Len(q)
<1>1. Len(q) \in Nat /\ DOMAIN q = 1 .. Len(q)
  BY LenProperties
<1>2. IsFiniteSet(1 .. Len(q)) /\ Cardinality(1 .. Len(q)) = Len(q)
  BY <1>1, FS_Interval
<1> QED BY <1>1, <1>2

\* Kept(q, K) lists exactly the entries of q at K, in their order.
LEMMA KeptEntries ==
  ASSUME NEW S, NEW q \in Seq(S), NEW K \in SUBSET DOMAIN q, NEW r \in Kept(q, K)
  PROVE  /\ r \in Seq(S)
         /\ Len(r) = Cardinality(K)
         /\ Cardinality(K) \in Nat
         /\ \E f \in [1 .. Len(r) -> K] :
              /\ \A i, j \in 1 .. Len(r) : i < j => f[i] < f[j]
              /\ \A k \in K : \E n \in 1 .. Len(r) : f[n] = k
              /\ \A n \in 1 .. Len(r) : r[n] = q[f[n]]
<1> DEFINE n == Cardinality(K)
<1>1. IsFiniteSet(K) /\ n \in Nat
  BY Indices, FS_Subset, FS_CardinalityType
<1>2. PICK f \in Listings(K) : r = [i \in DOMAIN f |-> q[f[i]]]
  BY DEF Kept
<1>3. f \in [1 .. n -> K] /\ \A i, j \in 1 .. n : i < j => f[i] < f[j]
  BY <1>2 DEF Listings
<1>4. K \subseteq Nat
  BY Indices
<1>5. f \in Injection(1 .. n, K)
  <2>1. \A i, j \in 1 .. n : f[i] = f[j] => i = j
    <3>1. \A i \in 1 .. n : f[i] \in Nat
      BY <1>3, <1>4
    <3> QED BY <1>1, <1>3, <3>1
  <2> QED BY <1>3, <2>1 DEF Injection, IsInjective
<1>6. IsFiniteSet(1 .. n) /\ Cardinality(1 .. n) = n
  BY <1>1, FS_Interval
<1>7. f \in Surjection(1 .. n, K)
  BY <1>1, <1>5, <1>6, FS_Injection
<1>8. \A k \in K : \E i \in 1 .. n : f[i] = k
  BY <1>7 DEF Surjection
<1>9. r = [i \in 1 .. n |-> q[f[i]]]
  BY <1>2, <1>3
<1>10. \A i \in 1 .. n : q[f[i]] \in S
  BY <1>3, Indices, ElementOfSeq
<1>11. r \in Seq(S) /\ Len(r) = n
  BY <1>1, <1>9, <1>10
<1> QED BY <1>1, <1>3, <1>8, <1>9, <1>11

\* Filtering adds nothing.
LEMMA KeptWithin ==
  ASSUME NEW S, NEW q \in Seq(S), NEW K \in SUBSET DOMAIN q, NEW r \in Kept(q, K)
  PROVE  \A i \in DOMAIN r : \E j \in DOMAIN q : r[i] = q[j]
<1>1. r \in Seq(S) /\ \E f \in [1 .. Len(r) -> K] : \A n \in 1 .. Len(r) : r[n] = q[f[n]]
  BY KeptEntries
<1>2. PICK f \in [1 .. Len(r) -> K] : \A n \in 1 .. Len(r) : r[n] = q[f[n]]
  BY <1>1
<1>3. DOMAIN r = 1 .. Len(r)
  BY <1>1, LenProperties
<1>4. \A n \in 1 .. Len(r) : f[n] \in DOMAIN q
  OBVIOUS
<1> QED BY <1>2, <1>3, <1>4

\* Filtering repeats nothing.
LEMMA KeptUnique ==
  ASSUME NEW S, NEW q \in Seq(S), NEW K \in SUBSET DOMAIN q, NEW r \in Kept(q, K),
         \A i, j \in DOMAIN q : q[i] = q[j] => i = j
  PROVE  \A i, j \in DOMAIN r : r[i] = r[j] => i = j
<1>1. /\ r \in Seq(S)
      /\ \E f \in [1 .. Len(r) -> K] :
           /\ \A i, j \in 1 .. Len(r) : i < j => f[i] < f[j]
           /\ \A n \in 1 .. Len(r) : r[n] = q[f[n]]
  BY KeptEntries
<1>2. PICK f \in [1 .. Len(r) -> K] :
           /\ \A i, j \in 1 .. Len(r) : i < j => f[i] < f[j]
           /\ \A n \in 1 .. Len(r) : r[n] = q[f[n]]
  BY <1>1
<1>3. DOMAIN r = 1 .. Len(r) /\ Len(r) \in Nat /\ DOMAIN q = 1 .. Len(q) /\ Len(q) \in Nat
  BY <1>1, LenProperties
<1> SUFFICES ASSUME NEW i \in DOMAIN r, NEW j \in DOMAIN r, r[i] = r[j]
             PROVE  i = j
  OBVIOUS
<1>4. i \in 1 .. Len(r) /\ j \in 1 .. Len(r)
  BY <1>3
<1>5. f[i] \in DOMAIN q /\ f[j] \in DOMAIN q /\ q[f[i]] = q[f[j]]
  BY <1>2, <1>4
<1>6. f[i] = f[j] /\ f[i] \in 1 .. Len(q)
  BY <1>3, <1>5
<1>7. /\ i < j => f[i] < f[j]
      /\ j < i => f[j] < f[i]
  BY <1>2, <1>4
<1> QED BY <1>3, <1>4, <1>6, <1>7

\* What is filtered out of a queue shortens it by as much.
LEMMA KeptLength ==
  ASSUME NEW S, NEW q \in Seq(S), NEW K \in SUBSET DOMAIN q, NEW r \in Kept(q, K)
  PROVE  /\ r \in Seq(S)
         /\ Cardinality(DOMAIN q \ K) \in Nat
         /\ Len(r) = Len(q) - Cardinality(DOMAIN q \ K)
<1>1. r \in Seq(S) /\ Len(r) = Cardinality(K) /\ Cardinality(K) \in Nat
  BY KeptEntries
<1>2. DOMAIN q \cap K = K
  OBVIOUS
<1>3. /\ IsFiniteSet(DOMAIN q \ K)
      /\ Cardinality(DOMAIN q \ K) = Cardinality(DOMAIN q) - Cardinality(K)
  <2>1. IsFiniteSet(DOMAIN q)
    BY Indices
  <2>2. Cardinality(DOMAIN q \ K) = Cardinality(DOMAIN q) - Cardinality(DOMAIN q \cap K)
    BY <2>1, FS_Difference
  <2> QED BY <1>2, <2>1, <2>2, FS_Difference
<1>4. Cardinality(DOMAIN q) = Len(q) /\ Len(q) \in Nat
  BY Indices
<1>5. Cardinality(DOMAIN q \ K) \in Nat
  BY <1>3, FS_CardinalityType
<1> QED BY <1>1, <1>3, <1>4, <1>5
===============================================================================
