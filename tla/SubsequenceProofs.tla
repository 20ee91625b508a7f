------------------------- MODULE SubsequenceProofs -------------------------
(* What filtering a vector in place keeps of it, for every vector and filter. *)
EXTENDS Subsequence, SequencesExt, FiniteSetTheorems, TLAPS

\* The members of a set of indices are counted off in increasing order, and
\* every member is (retain keeps each element it keeps once, in order).
LEMMA CountingOff ==
  ASSUME NEW n \in Nat, NEW I \in SUBSET (1 .. n)
  PROVE  /\ Cardinality(I) \in 0 .. n
         /\ \A r \in 1 .. Cardinality(I) : At(I, r) \in I
         /\ \A i \in I : \E r \in 1 .. Cardinality(I) : At(I, r) = i
         /\ \A q, r \in 1 .. Cardinality(I) : q < r => At(I, q) < At(I, r)
<1> DEFINE Below(i) == {k \in I : k <= i}
           C == Cardinality(I)
           rank == [i \in I |-> Cardinality(Below(i))]
<1>0. \A i \in I : i \in Int
  OBVIOUS
<1>1. /\ IsFiniteSet(1 .. n) /\ Cardinality(1 .. n) = n
  BY FS_Interval
<1>2. /\ IsFiniteSet(I) /\ C \in Nat /\ C <= n
  BY <1>1, FS_Subset, FS_CardinalityType
<1>3. /\ IsFiniteSet(1 .. C) /\ Cardinality(1 .. C) = C
  BY <1>2, FS_Interval
<1>4. ASSUME NEW i \in I
      PROVE  Cardinality(Below(i)) \in 1 .. C
  <2>1. Below(i) \in SUBSET I /\ i \in Below(i)
    OBVIOUS
  <2>2. IsFiniteSet(Below(i)) /\ Cardinality(Below(i)) <= C
    BY <2>1, <1>2, FS_Subset
  <2>3. Cardinality(Below(i)) \in Nat /\ Cardinality(Below(i)) # 0
    BY <2>1, <2>2, FS_CardinalityType, FS_EmptySet
  <2> HIDE DEF Below
  <2> QED
    BY <1>2, <2>2, <2>3
<1>5. ASSUME NEW i \in I, NEW j \in I, i < j
      PROVE  Cardinality(Below(i)) < Cardinality(Below(j))
  <2>1. Below(i) \in SUBSET Below(j) /\ j \in Below(j) /\ j \notin Below(i)
    <3>1. i \in Int /\ j \in Int /\ i < j
      BY <1>0, <1>5
    <3>2. \A k \in I : k <= i => k <= j
      BY <1>0, <3>1
    <3>3. j <= j /\ ~(j <= i)
      BY <3>1
    <3> QED
      BY <3>2, <3>3
  <2>2. IsFiniteSet(Below(j))
    BY <1>2, FS_Subset
  <2>3. /\ Cardinality(Below(i)) <= Cardinality(Below(j))
        /\ Cardinality(Below(j)) # Cardinality(Below(i))
    BY <2>1, <2>2, FS_Subset
  <2>4. Cardinality(Below(i)) \in Nat /\ Cardinality(Below(j)) \in Nat
    BY <1>4
  <2> HIDE DEF Below
  <2> QED
    BY <2>3, <2>4
<1>6. rank \in [I -> 1 .. C]
  BY <1>4
<1>7. rank \in Injection(I, 1 .. C)
  <2>1. ASSUME NEW i \in I, NEW j \in I, rank[i] = rank[j]
        PROVE  i = j
    <3>1. i \in Int /\ j \in Int
      OBVIOUS
    <3>2. Cardinality(Below(i)) = Cardinality(Below(j))
      BY <2>1
    <3>3. Cardinality(Below(i)) \in Int /\ Cardinality(Below(j)) \in Int
      BY <1>4
    <3>4. ~(i < j) /\ ~(j < i)
      <4> HIDE DEF Below
      <4> QED
        BY <1>5, <3>2, <3>3
    <3> QED
      BY <3>1, <3>4
  <2> QED
    BY <1>6, <2>1 DEF Injection, IsInjective
<1>8. rank \in Surjection(I, 1 .. C)
  BY <1>3, <1>7, FS_Injection
<1>9. ASSUME NEW r \in 1 .. C
      PROVE  At(I, r) \in I /\ Cardinality(Below(At(I, r))) = r
  <2>1. PICK i \in I : rank[i] = r
    BY <1>8 DEF Surjection
  <2>2. Cardinality(Below(i)) = r
    BY <2>1
  <2> QED
    BY <2>2 DEF At
<1>10. ASSUME NEW i \in I
       PROVE  \E r \in 1 .. C : At(I, r) = i
  <2>1. rank[i] \in 1 .. C
    BY <1>6
  <2>2. At(I, rank[i]) \in I /\ rank[At(I, rank[i])] = rank[i]
    BY <2>1, <1>9
  <2>3. At(I, rank[i]) = i
    BY <2>2, <1>7 DEF Injection, IsInjective
  <2> QED
    BY <2>1, <2>3
<1>11. ASSUME NEW q \in 1 .. C, NEW r \in 1 .. C, q < r
       PROVE  At(I, q) < At(I, r)
  <2> DEFINE i == At(I, q)
             j == At(I, r)
  <2>1. i \in I /\ j \in I /\ Cardinality(Below(i)) = q /\ Cardinality(Below(j)) = r
    BY <1>9
  <2>2. i \in Int /\ j \in Int
    <3> HIDE DEF i, j
    <3> QED
      BY <2>1, <1>0
  <2>3. i # j
    BY <2>1, <1>11
  <2>4. ~(j < i)
    <3> HIDE DEF Below, i, j
    <3> QED
      BY <2>1, <1>5, <1>11
  <2> QED
    BY <2>2, <2>3, <2>4
<1> HIDE DEF rank, Below
<1> QED
  BY <1>2, <1>9, <1>10, <1>11

\* What is picked out of a sequence are its elements at those indices, in their order.
LEMMA PickedFacts ==
  ASSUME NEW A, NEW s \in Seq(A), NEW I \in SUBSET (1 .. Len(s))
  PROVE  /\ Picked(s, I) \in Seq(A)
         /\ \A k \in DOMAIN Picked(s, I) : \E i \in I : Picked(s, I)[k] = s[i]
         /\ \A i \in I : \E k \in DOMAIN Picked(s, I) : Picked(s, I)[k] = s[i]
<1> DEFINE C == Cardinality(I)
<1>1. Len(s) \in Nat /\ DOMAIN s = 1 .. Len(s)
  OBVIOUS
<1>2. /\ C \in 0 .. Len(s)
      /\ \A r \in 1 .. C : At(I, r) \in I
      /\ \A i \in I : \E r \in 1 .. C : At(I, r) = i
  BY <1>1, CountingOff
<1> HIDE DEF C
<1>3. Picked(s, I) = [r \in 1 .. C |-> s[At(I, r)]]
  BY DEF Picked, C
<1>4. \A i \in I : s[i] \in A
  BY <1>1
<1>5. Picked(s, I) \in Seq(A) /\ DOMAIN Picked(s, I) = 1 .. C
  <2>1. C \in Nat
    BY <1>1, <1>2
  <2>2. Picked(s, I) \in [1 .. C -> A]
    BY <1>2, <1>3, <1>4
  <2> QED
    BY <2>1, <2>2, <1>3
<1>6. \A r \in 1 .. C : Picked(s, I)[r] = s[At(I, r)]
  BY <1>3
<1> QED
  BY <1>2, <1>5, <1>6

\* Each of them comes from an index of its own.
LEMMA PickedIsDrawn ==
  ASSUME NEW A, NEW s \in Seq(A), NEW I \in SUBSET (1 .. Len(s))
  PROVE  \E f \in [DOMAIN Picked(s, I) -> I] :
           /\ IsInjective(f)
           /\ \A k \in DOMAIN Picked(s, I) : Picked(s, I)[k] = s[f[k]]
<1> DEFINE C == Cardinality(I)
           f == [r \in 1 .. C |-> At(I, r)]
<1>1. /\ C \in 0 .. Len(s)
      /\ \A r \in 1 .. C : At(I, r) \in I
      /\ \A q, r \in 1 .. C : q < r => At(I, q) < At(I, r)
  BY CountingOff
<1>2. \A i \in I : i \in Int
  OBVIOUS
<1> HIDE DEF C
<1>3. Picked(s, I) = [r \in 1 .. C |-> s[At(I, r)]]
  BY DEF Picked, C
<1>4. DOMAIN Picked(s, I) = 1 .. C /\ f \in [1 .. C -> I]
  BY <1>1, <1>3
<1>5. ASSUME NEW q \in 1 .. C, NEW r \in 1 .. C, f[q] = f[r]
      PROVE  q = r
  <2>1. At(I, q) = At(I, r)
    BY <1>5
  <2>2. At(I, q) \in Int /\ q \in Int /\ r \in Int
    <3>1. At(I, q) \in I
      BY <1>1
    <3>2. \A i \in 1 .. C : i \in Int
      OBVIOUS
    <3> HIDE DEF f
    <3> QED
      BY <3>1, <3>2, <1>2
  <2>3. ~(q < r) /\ ~(r < q)
    BY <1>1, <2>1, <2>2
  <2> QED
    BY <2>2, <2>3
<1>6. IsInjective(f)
  BY <1>4, <1>5 DEF IsInjective
<1>7. \A k \in 1 .. C : Picked(s, I)[k] = s[f[k]]
  BY <1>3
<1> HIDE DEF f
<1> QED
  BY <1>4, <1>6, <1>7

\* What is kept of s is a sequence of the elements of s that are in keep, all of
\* them, in the order they had.
THEOREM KeptIsSubsequence ==
  ASSUME NEW A, NEW s \in Seq(A), NEW keep
  PROVE  LET r == Kept(s, keep) IN
         /\ r \in Seq(A)
         /\ Len(r) \in 0 .. Len(s)
         /\ ToSet(r) = ToSet(s) \cap keep
         /\ \A i \in 1 .. Len(s) : s[i] \in keep => \E k \in 1 .. Len(r) : r[k] = s[i]
         /\ \E f \in [1 .. Len(r) -> 1 .. Len(s)] :
              /\ \A k \in 1 .. Len(r) : r[k] = s[f[k]]
              /\ \A j, k \in 1 .. Len(r) : j < k => f[j] < f[k]
<1> DEFINE I == {i \in DOMAIN s : s[i] \in keep}
           C == Cardinality(I)
           r == [k \in 1 .. C |-> s[At(I, k)]]
           f == [k \in 1 .. C |-> At(I, k)]
<1>1. Kept(s, keep) = r
  BY DEF Kept, Picked
<1>2. Len(s) \in Nat /\ DOMAIN s = 1 .. Len(s) /\ I \in SUBSET (1 .. Len(s))
  OBVIOUS
<1>3. /\ C \in 0 .. Len(s)
      /\ \A k \in 1 .. C : At(I, k) \in I
      /\ \A i \in I : \E k \in 1 .. C : At(I, k) = i
      /\ \A j, k \in 1 .. C : j < k => At(I, j) < At(I, k)
  BY <1>2, CountingOff
<1>4. \A i \in I : i \in 1 .. Len(s) /\ s[i] \in keep /\ s[i] \in A
  BY <1>2
<1>5. \A i \in 1 .. Len(s) : s[i] \in keep => i \in I
  BY <1>2
<1> HIDE DEF I, C
<1>6. r \in Seq(A) /\ Len(r) = C
  BY <1>3, <1>4
<1>6a. DOMAIN r = 1 .. C
  OBVIOUS
<1>7. \A i \in 1 .. Len(s) : s[i] \in keep => \E k \in 1 .. C : r[k] = s[i]
  BY <1>3, <1>5
<1>8. \A k \in 1 .. C : \E i \in 1 .. Len(s) : r[k] = s[i] /\ s[i] \in keep
  BY <1>3, <1>4
<1>9. ToSet(r) = ToSet(s) \cap keep
  <2> HIDE DEF r
  <2>1. /\ ToSet(r) = {r[k] : k \in 1 .. C}
        /\ ToSet(s) = {s[i] : i \in 1 .. Len(s)}
    BY <1>2, <1>6a DEF ToSet
  <2> QED
    BY <2>1, <1>7, <1>8
<1>10. f \in [1 .. C -> 1 .. Len(s)]
  BY <1>3, <1>4
<1>11. /\ \A k \in 1 .. C : r[k] = s[f[k]]
       /\ \A j, k \in 1 .. C : j < k => f[j] < f[k]
  BY <1>3
<1> HIDE DEF r, f
<1> QED
  BY <1>1, <1>3, <1>6, <1>7, <1>9, <1>10, <1>11


-----------------------------------------------------------------------------
(* Other facts about sequences.                                             *)

\* The elements of a concatenation.
LEMMA Concatenated ==
  ASSUME NEW A, NEW s \in Seq(A), NEW t \in Seq(A)
  PROVE  /\ s \o t \in Seq(A) /\ Len(s \o t) = Len(s) + Len(t)
         /\ \A i \in 1 .. Len(s) : (s \o t)[i] = s[i]
         /\ \A i \in 1 .. Len(t) : (s \o t)[Len(s) + i] = t[i]
OBVIOUS

\* Its indices.
LEMMA Indices ==
  ASSUME NEW m \in Nat, NEW n \in Nat
  PROVE  /\ \A i \in 1 .. m + n : i \notin 1 .. m => i - m \in 1 .. n /\ i = m + (i - m)
         /\ \A i \in 1 .. m : i \in 1 .. m + n
         /\ \A i \in 1 .. n : m + i \in 1 .. m + n
OBVIOUS

\* One sequence behind another has the elements of both.
LEMMA JoinedSet ==
  ASSUME NEW A, NEW s \in Seq(A), NEW t \in Seq(A)
  PROVE  s \o t \in Seq(A) /\ ToSet(s \o t) = ToSet(s) \cup ToSet(t)
<1> DEFINE m == Len(s)
           n == Len(t)
           u == s \o t
<1>1. /\ m \in Nat /\ n \in Nat /\ DOMAIN s = 1 .. m /\ DOMAIN t = 1 .. n
  OBVIOUS
<1>2. /\ u \in Seq(A) /\ Len(u) = m + n
      /\ \A i \in 1 .. m : u[i] = s[i]
      /\ \A i \in 1 .. n : u[m + i] = t[i]
  BY Concatenated
<1>3. DOMAIN u = 1 .. m + n
  BY <1>2
<1> HIDE DEF m, n, u
<1>4. /\ \A i \in 1 .. m + n : i \notin 1 .. m => i - m \in 1 .. n /\ i = m + (i - m)
      /\ \A i \in 1 .. m : i \in 1 .. m + n
      /\ \A i \in 1 .. n : m + i \in 1 .. m + n
  BY <1>1, Indices
<1>5. \A i \in 1 .. m + n : u[i] \in ToSet(s) \cup ToSet(t)
  <2> TAKE i \in 1 .. m + n
  <2>1. CASE i \in 1 .. m
    BY <2>1, <1>1, <1>2 DEF ToSet
  <2>2. CASE i \notin 1 .. m
    <3>1. i - m \in 1 .. n /\ i = m + (i - m)
      BY <2>2, <1>4
    <3>2. u[m + (i - m)] = t[i - m]
      BY <3>1, <1>2
    <3>3. t[i - m] \in ToSet(t)
      BY <3>1, <1>1 DEF ToSet
    <3> QED
      BY <3>1, <3>2, <3>3
  <2> QED
    BY <2>1, <2>2
<1>6. ToSet(u) \subseteq ToSet(s) \cup ToSet(t)
  BY <1>3, <1>5 DEF ToSet
<1>7. \A i \in 1 .. m : s[i] \in ToSet(u)
  BY <1>2, <1>3, <1>4 DEF ToSet
<1>8. \A i \in 1 .. n : t[i] \in ToSet(u)
  BY <1>2, <1>3, <1>4 DEF ToSet
<1>9. ToSet(s) \cup ToSet(t) \subseteq ToSet(u)
  BY <1>1, <1>7, <1>8 DEF ToSet
<1> QED
  BY <1>2, <1>6, <1>9 DEF u

\* Sequences one longer or shorter.
LEMMA AppendIsBehind ==
  ASSUME NEW A, NEW s \in Seq(A), NEW e \in A
  PROVE  Append(s, e) = s \o <<e>> /\ <<e>> \in Seq(A) /\ Len(<<e>>) = 1 /\ <<e>>[1] = e
OBVIOUS

LEMMA TailFacts ==
  ASSUME NEW A, NEW s \in Seq(A), Len(s) > 0
  PROVE  /\ Tail(s) \in Seq(A) /\ Len(Tail(s)) = Len(s) - 1
         /\ \A i \in 1 .. Len(s) - 1 : Tail(s)[i] = s[i + 1]
OBVIOUS

LEMMA FrontSet ==
  ASSUME NEW A, NEW s \in Seq(A), Len(s) > 0
  PROVE  ToSet(Front(s)) = {s[i] : i \in 1 .. Len(s) - 1}
<1>1. Front(s) = [i \in 1 .. Len(s) - 1 |-> s[i]]
  BY DEF Front
<1>2. DOMAIN Front(s) = 1 .. Len(s) - 1
  BY <1>1
<1> QED
  BY <1>1, <1>2 DEF ToSet

LEMMA SubSeqSet ==
  ASSUME NEW A, NEW s \in Seq(A), NEW m \in 1 .. Len(s)
  PROVE  \A j \in m + 1 .. Len(s) : s[j] \in ToSet(SubSeq(s, m + 1, Len(s)))
<1> DEFINE r == SubSeq(s, m + 1, Len(s))
<1>1. Len(s) \in Nat /\ r \in Seq(A) /\ DOMAIN r = 1 .. Len(s) - m
  OBVIOUS
<1>2. \A k \in 1 .. Len(s) - m : r[k] = s[m + k]
  OBVIOUS
<1> SUFFICES ASSUME NEW j \in m + 1 .. Len(s)
             PROVE  s[j] \in ToSet(r)
  OBVIOUS
<1>3. j - m \in 1 .. Len(s) - m /\ m + (j - m) = j
  BY <1>1
<1>4. r[j - m] = s[j]
  BY <1>2, <1>3
<1> HIDE DEF r
<1> QED
  BY <1>1, <1>3, <1>4 DEF ToSet


LEMMA TailOfOne ==
  ASSUME NEW A, NEW s \in Seq(A), Len(s) > 0, ~(Len(s) > 1)
  PROVE  Tail(s) = <<>>
<1>1. Tail(s) \in Seq(A) /\ Len(Tail(s)) = 0
  <2>1. Len(s) = 1
    <3>1. \A n \in Nat : n > 0 /\ ~(n > 1) => n = 1
      OBVIOUS
    <3>2. Len(s) \in Nat
      OBVIOUS
    <3> QED
      BY <3>1, <3>2
  <2> QED
    BY <2>1, TailFacts
<1> QED
  BY <1>1
=============================================================================
