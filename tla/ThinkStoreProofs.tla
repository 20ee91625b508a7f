-------------------------- MODULE ThinkStoreProofs --------------------------
(***************************************************************************)
(* What ThinkStore guarantees for any number of servers, steps, wipes and  *)
(* pulls, for every window, and whatever the legacy file and the file held *)
(* at first.                                                               *)
(***************************************************************************)
EXTENDS ThinkStore, SubsequenceProofs

-----------------------------------------------------------------------------
(* Finite sets of numbers.                                                  *)

\* A finite set of integers has a greatest member.
LEMMA GreatestFacts ==
  ASSUME NEW S \in SUBSET Int, IsFiniteSet(S), S # {}
  PROVE  Greatest(S) \in S /\ \A k \in S : k <= Greatest(S)
<1> DEFINE C == Cardinality(S)
           Below(i) == {k \in S : k <= i}
           rank == [i \in S |-> Cardinality(Below(i))]
<1>1. C \in Nat /\ C # 0
  BY FS_CardinalityType, FS_EmptySet
<1>2. ASSUME NEW i \in S
      PROVE  /\ IsFiniteSet(Below(i)) /\ Cardinality(Below(i)) \in 1 .. C
             /\ Cardinality(Below(i)) = C => Below(i) = S
  <2>1. Below(i) \in SUBSET S /\ i \in Below(i)
    OBVIOUS
  <2> HIDE DEF Below
  <2>2. IsFiniteSet(Below(i)) /\ Cardinality(Below(i)) <= C
        /\ (C = Cardinality(Below(i)) => S = Below(i))
    BY <2>1, FS_Subset
  <2>3. Cardinality(Below(i)) \in Nat /\ Cardinality(Below(i)) # 0
    BY <2>1, <2>2, FS_CardinalityType, FS_EmptySet
  <2> HIDE DEF C
  <2> QED
    BY <1>1, <2>2, <2>3
<1>3. ASSUME NEW i \in S, NEW j \in S, i < j
      PROVE  Cardinality(Below(i)) # Cardinality(Below(j))
  <2>1. Below(i) \in SUBSET Below(j) /\ j \in Below(j) /\ j \notin Below(i)
    <3>1. \A k \in S : k \in Int /\ (k <= i => k <= j)
      BY <1>3
    <3>2. j <= j /\ ~(j <= i)
      BY <3>1, <1>3
    <3> QED
      BY <3>1, <3>2
  <2>2. Cardinality(Below(j)) = Cardinality(Below(i)) => Below(j) = Below(i)
    BY <1>2, <2>1, FS_Subset
  <2> HIDE DEF Below
  <2> QED
    BY <2>1, <2>2
<1>4. rank \in Injection(S, 1 .. C)
  <2>1. rank \in [S -> 1 .. C]
    BY <1>2
  <2>2. ASSUME NEW i \in S, NEW j \in S, rank[i] = rank[j]
        PROVE  i = j
    <3>1. Cardinality(Below(i)) = Cardinality(Below(j))
      BY <2>2
    <3> HIDE DEF Below, rank
    <3>2. ~(i < j) /\ ~(j < i)
      BY <1>3, <3>1
    <3> QED
      BY <3>2
  <2> HIDE DEF rank
  <2> QED
    BY <2>1, <2>2 DEF Injection, IsInjective
<1>5. rank \in Surjection(S, 1 .. C)
  <2>1. IsFiniteSet(1 .. C) /\ Cardinality(1 .. C) = C
    BY <1>1, FS_Interval
  <2> HIDE DEF rank, C
  <2> QED
    BY <2>1, <1>4, FS_Injection DEF C
<1>6. C \in 1 .. C
  <2> HIDE DEF C
  <2> QED
    BY <1>1
<1>7. PICK i \in S : rank[i] = C
  <2> HIDE DEF rank, C
  <2> QED
    BY <1>5, <1>6 DEF Surjection
<1>8. Below(i) = S
  BY <1>2, <1>7
<1>9. \A k \in S : k <= i
  BY <1>8
<1> QED
  BY <1>9 DEF Greatest

-----------------------------------------------------------------------------
(* Identities, numbers and clones of a sequence of steps.                   *)

LEMMA ClonesFacts ==
  ASSUME NEW s, NEW id
  PROVE  id \in Clones(s) <=> \E j, k \in DOMAIN s : j # k /\ s[j].id = id /\ s[k].id = id
BY DEF Clones

\* The steps of r are those of s, each from a place of its own, whatever their numbers.
Drawn(r, s) ==
  \E f \in [DOMAIN r -> DOMAIN s] :
    IsInjective(f) /\ \A k \in DOMAIN r : r[k].id = s[f[k]].id

LEMMA DrawnFacts ==
  ASSUME NEW r, NEW s, Drawn(r, s)
  PROVE  Ids(r) \subseteq Ids(s) /\ Clones(r) \subseteq Clones(s)
<1>1. PICK f \in [DOMAIN r -> DOMAIN s] :
        IsInjective(f) /\ \A k \in DOMAIN r : r[k].id = s[f[k]].id
  BY DEF Drawn
<1>2. Ids(r) \subseteq Ids(s)
  BY <1>1 DEF Ids
<1>3. ASSUME NEW j \in DOMAIN r, NEW k \in DOMAIN r \ {j}, r[k].id = r[j].id
      PROVE  r[j].id \in Clones(s)
  <2>1. f[j] \in DOMAIN s /\ f[k] \in DOMAIN s \ {f[j]}
    BY <1>1, <1>3 DEF IsInjective
  <2>2. s[f[j]].id = r[j].id /\ s[f[k]].id = r[j].id
    BY <1>1, <1>3
  <2> QED
    BY <2>1, <2>2, ClonesFacts
<1>4. Clones(r) \subseteq Clones(s)
  BY <1>3, ClonesFacts
<1> QED
  BY <1>2, <1>4

\* The steps of two sequences that share none are the steps of both.
LEMMA JoinedFacts ==
  ASSUME NEW s \in Seq(Step), NEW t \in Seq(Step)
  PROVE  /\ s \o t \in Seq(Step)
         /\ Ids(s \o t) = Ids(s) \cup Ids(t)
         /\ Numbers(s \o t) = Numbers(s) \cup Numbers(t)
         /\ Ids(s) \cap Ids(t) = {} => Clones(s \o t) \subseteq Clones(s) \cup Clones(t)
<1> DEFINE u == s \o t
           m == Len(s)
           n == Len(t)
<1>1. m \in Nat /\ n \in Nat /\ DOMAIN s = 1 .. m /\ DOMAIN t = 1 .. n
  OBVIOUS
<1>2. /\ u \in Seq(Step) /\ Len(u) = m + n /\ DOMAIN u = 1 .. m + n
      /\ \A i \in 1 .. m : u[i] = s[i]
      /\ \A i \in 1 .. n : u[m + i] = t[i]
  BY Concatenated
<1> HIDE DEF u, m, n
<1>3. /\ \A i \in 1 .. m + n : i \notin 1 .. m => i - m \in 1 .. n /\ i = m + (i - m)
      /\ \A i \in 1 .. m : i \in 1 .. m + n
      /\ \A i \in 1 .. n : m + i \in 1 .. m + n
  BY <1>1, Indices
<1>4. \A i \in 1 .. m + n : i \notin 1 .. m => u[i] = t[i - m]
  BY <1>2, <1>3
<1>5. Ids(u) = Ids(s) \cup Ids(t)
  <2>0. Ids(u) = {u[i].id : i \in 1 .. m + n}
    BY <1>2 DEF Ids
  <2>1. \A i \in 1 .. m + n : u[i].id \in Ids(s) \cup Ids(t)
    BY <1>1, <1>2, <1>3, <1>4 DEF Ids
  <2>2. \A i \in 1 .. m : s[i].id \in Ids(u)
    BY <1>2, <1>3 DEF Ids
  <2>3. \A i \in 1 .. n : t[i].id \in Ids(u)
    BY <1>2, <1>3 DEF Ids
  <2>4. \A x \in Ids(s) : x \in Ids(u)
    BY <1>1, <2>2 DEF Ids
  <2>5. \A x \in Ids(t) : x \in Ids(u)
    BY <1>1, <2>3 DEF Ids
  <2> QED
    BY <2>0, <2>1, <2>4, <2>5
<1>6. Numbers(u) = Numbers(s) \cup Numbers(t)
  <2>0. Numbers(u) = {u[i].n : i \in 1 .. m + n}
    BY <1>2 DEF Numbers
  <2>1. \A i \in 1 .. m + n : u[i].n \in Numbers(s) \cup Numbers(t)
    BY <1>1, <1>2, <1>3, <1>4 DEF Numbers
  <2>2. \A i \in 1 .. m : s[i].n \in Numbers(u)
    BY <1>2, <1>3 DEF Numbers
  <2>3. \A i \in 1 .. n : t[i].n \in Numbers(u)
    BY <1>2, <1>3 DEF Numbers
  <2>4. \A x \in Numbers(s) : x \in Numbers(u)
    BY <1>1, <2>2 DEF Numbers
  <2>5. \A x \in Numbers(t) : x \in Numbers(u)
    BY <1>1, <2>3 DEF Numbers
  <2> QED
    BY <2>0, <2>1, <2>4, <2>5
<1>7. ASSUME Ids(s) \cap Ids(t) = {}, NEW j \in 1 .. m + n, NEW k \in 1 .. m + n,
             k # j, u[k].id = u[j].id
      PROVE  u[j].id \in Clones(s) \cup Clones(t)
  <2>1. CASE j \in 1 .. m /\ k \in 1 .. m
    <3>1. s[j].id = u[j].id /\ s[k].id = u[j].id
      BY <2>1, <1>2, <1>7
    <3> QED
      BY <3>1, <2>1, <1>1, <1>7, ClonesFacts
  <2>2. CASE j \notin 1 .. m /\ k \notin 1 .. m
    <3>1. j - m \in 1 .. n /\ k - m \in 1 .. n /\ j - m # k - m
      BY <2>2, <1>3, <1>7
    <3>2. t[j - m].id = u[j].id /\ t[k - m].id = u[j].id
      BY <2>2, <1>4, <1>7
    <3> QED
      BY <3>1, <3>2, <1>1, ClonesFacts
  <2>3. CASE j \in 1 .. m /\ k \notin 1 .. m
    <3>1. u[j].id \in Ids(s)
      BY <2>3, <1>1, <1>2 DEF Ids
    <3>2. u[k].id \in Ids(t)
      BY <2>3, <1>1, <1>3, <1>4 DEF Ids
    <3> QED
      BY <3>1, <3>2, <1>7
  <2>4. CASE j \notin 1 .. m /\ k \in 1 .. m
    <3>1. u[k].id \in Ids(s)
      BY <2>4, <1>1, <1>2 DEF Ids
    <3>2. u[j].id \in Ids(t)
      BY <2>4, <1>1, <1>3, <1>4 DEF Ids
    <3> QED
      BY <3>1, <3>2, <1>7
  <2> QED
    BY <2>1, <2>2, <2>3, <2>4
<1>8. Ids(s) \cap Ids(t) = {} => Clones(u) \subseteq Clones(s) \cup Clones(t)
  <2> HIDE DEF u
  <2> SUFFICES ASSUME Ids(s) \cap Ids(t) = {}, NEW id \in Clones(u)
               PROVE  id \in Clones(s) \cup Clones(t)
    OBVIOUS
  <2>1. PICK j, k \in DOMAIN u : j # k /\ u[j].id = id /\ u[k].id = id
    BY ClonesFacts
  <2>2. j \in 1 .. m + n /\ k \in 1 .. m + n
    BY <1>2
  <2> QED
    BY <2>1, <2>2, <1>7
<1> QED
  BY <1>2, <1>5, <1>6, <1>8 DEF u

\* Nothing is lost, added or doubled when steps are sorted (sort_by_key).
LEMMA SortedFacts ==
  ASSUME NEW s \in Seq(Step)
  PROVE  /\ Sorted(s) \in Seq(Step)
         /\ Drawn(Sorted(s), s) /\ Drawn(s, Sorted(s))
         /\ Numbers(Sorted(s)) = Numbers(s)
<1> DEFINE n == Len(s)
           D == 1 .. n
           Before(i, k) == s[i].n < s[k].n \/ (s[i].n = s[k].n /\ i < k)
           Ahead(k) == {i \in D : Before(i, k)}
           rank == [k \in D |-> 1 + Cardinality(Ahead(k))]
           place == [r \in D |-> CHOOSE k \in D : 1 + Cardinality(Ahead(k)) = r]
<1>1. n \in Nat /\ DOMAIN s = D /\ \A i \in D : s[i] \in Step /\ s[i].n \in Int /\ i \in Int
  <2>1. n \in Nat /\ DOMAIN s = D /\ \A i \in D : s[i] \in Step /\ i \in Int
    OBVIOUS
  <2>2. \A e \in Step : e.n \in Int
    BY DEF Step
  <2> QED
    BY <2>1, <2>2
<1>2. Sorted(s) = [r \in D |-> s[place[r]]]
  BY <1>1 DEF Sorted
<1>3. IsFiniteSet(D) /\ Cardinality(D) = n
  <2>1. n \in Nat
    OBVIOUS
  <2> HIDE DEF n
  <2> QED
    BY <2>1, FS_Interval
<1>4. /\ \A i \in D : ~Before(i, i)
      /\ \A i, k \in D : i # k => Before(i, k) \/ Before(k, i)
      /\ \A i, k, l \in D : Before(i, k) /\ Before(k, l) => Before(i, l)
  <2> DEFINE m(i) == s[i].n
  <2>1. \A i \in D : m(i) \in Int /\ i \in Int
    BY <1>1
  <2> HIDE DEF m, D
  <2>2. \A i, k \in D : Before(i, k) <=> m(i) < m(k) \/ (m(i) = m(k) /\ i < k)
    BY DEF m
  <2> HIDE DEF Before
  <2> QED
    BY <2>1, <2>2
<1> HIDE DEF Before
<1>5. ASSUME NEW k \in D
      PROVE  IsFiniteSet(Ahead(k)) /\ Cardinality(Ahead(k)) \in 0 .. n - 1
  <2>1. Ahead(k) \in SUBSET D /\ k \in D /\ k \notin Ahead(k)
    BY <1>4
  <2> HIDE DEF Ahead, n, D
  <2>2. IsFiniteSet(Ahead(k)) /\ Cardinality(Ahead(k)) <= n /\ Cardinality(Ahead(k)) # n
    BY <1>3, <2>1, FS_Subset
  <2>3. Cardinality(Ahead(k)) \in Nat
    BY <2>2, FS_CardinalityType
  <2> QED
    BY <1>1, <2>2, <2>3
<1>6. ASSUME NEW i \in D, NEW k \in D, Before(i, k)
      PROVE  Cardinality(Ahead(i)) # Cardinality(Ahead(k))
  <2>1. Ahead(i) \in SUBSET Ahead(k) /\ i \in Ahead(k) /\ i \notin Ahead(i)
    BY <1>4, <1>6
  <2>2. Cardinality(Ahead(k)) = Cardinality(Ahead(i)) => Ahead(k) = Ahead(i)
    BY <1>5, <2>1, FS_Subset
  <2> HIDE DEF Ahead
  <2> QED
    BY <2>1, <2>2
<1>7. rank \in Injection(D, D)
  <2>1. ASSUME NEW k \in D
        PROVE  1 + Cardinality(Ahead(k)) \in D
    <3> HIDE DEF Ahead
    <3> QED
      BY <1>1, <1>5
  <2>2. rank \in [D -> D]
    BY <2>1
  <2>3. ASSUME NEW i \in D, NEW k \in D, rank[i] = rank[k]
        PROVE  i = k
    <3>1. 1 + Cardinality(Ahead(i)) = 1 + Cardinality(Ahead(k))
      BY <2>3
    <3>2. Cardinality(Ahead(i)) \in Int /\ Cardinality(Ahead(k)) \in Int
      <4> HIDE DEF Ahead
      <4> QED
        BY <1>5
    <3> HIDE DEF Ahead, rank, D
    <3>3. Cardinality(Ahead(i)) = Cardinality(Ahead(k))
      BY <3>1, <3>2
    <3> QED
      BY <3>3, <1>4, <1>6
  <2> HIDE DEF rank, D
  <2> QED
    BY <2>2, <2>3 DEF Injection, IsInjective
<1>8. rank \in Surjection(D, D)
  <2> HIDE DEF rank, D
  <2> QED
    BY <1>3, <1>7, FS_Injection
<1>9. ASSUME NEW r \in D
      PROVE  place[r] \in D /\ rank[place[r]] = r
  <2>1. PICK k \in D : rank[k] = r
    <3> HIDE DEF rank, D
    <3> QED
      BY <1>8 DEF Surjection
  <2>2. 1 + Cardinality(Ahead(k)) = r
    BY <2>1
  <2>3. place[r] \in D /\ 1 + Cardinality(Ahead(place[r])) = r
    <3> HIDE DEF Ahead, D
    <3> QED
      BY <2>2
  <2> QED
    BY <2>3
<1>10. /\ \A i, k \in D : rank[i] = rank[k] => i = k
       /\ \A k \in D : rank[k] \in D
       /\ DOMAIN rank = D
  <2> HIDE DEF rank, D
  <2> QED
    BY <1>7 DEF Injection, IsInjective
<1>11. place \in [D -> D]
  BY <1>9
<1> HIDE DEF rank, place
<1>12. \A q, r \in D : place[q] = place[r] => q = r
  BY <1>9
<1>13. \A k \in D : place[rank[k]] = k
  BY <1>9, <1>10
<1>14. IsInjective(place) /\ IsInjective(rank) /\ rank \in [D -> D]
  <2>1. DOMAIN place = D
    BY <1>11
  <2> HIDE DEF D
  <2> QED
    BY <1>7, <1>12, <1>10, <2>1 DEF IsInjective, Injection
<1> DEFINE t == Sorted(s)
<1>15. t \in Seq(Step) /\ DOMAIN t = D /\ \A r \in D : t[r] = s[place[r]]
  <2>1. t \in [D -> Step]
    <3> HIDE DEF D
    <3> QED
      BY <1>1, <1>2, <1>11
  <2>2. t \in Seq(Step)
    BY <2>1, <1>1
  <2> HIDE DEF D
  <2> QED
    BY <2>1, <2>2, <1>2
<1> HIDE DEF t
<1>16. \A k \in D : s[k] = t[rank[k]]
  BY <1>10, <1>13, <1>15
<1> HIDE DEF D
<1>17. Drawn(t, s)
  BY <1>1, <1>11, <1>14, <1>15 DEF Drawn
<1>18. Drawn(s, t)
  BY <1>1, <1>14, <1>15, <1>16 DEF Drawn
<1>19. Numbers(t) = Numbers(s)
  <2>1. \A r \in D : t[r].n \in Numbers(s)
    BY <1>1, <1>11, <1>15 DEF Numbers
  <2>2. \A k \in D : s[k].n \in Numbers(t)
    BY <1>10, <1>15, <1>16 DEF Numbers
  <2> QED
    BY <1>1, <1>15, <2>1, <2>2 DEF Numbers
<1> QED
  BY <1>15, <1>17, <1>18, <1>19 DEF t

-----------------------------------------------------------------------------
(* What the operations on histories keep.                                   *)

\* The parts of a history.
LEMMA HistoryFacts ==
  ASSUME NEW h \in History
  PROVE  /\ h.steps \in Seq(Step) /\ DOMAIN h.steps = 1 .. Len(h.steps)
         /\ h.migrated \in BOOLEAN /\ h.stamped \in BOOLEAN
<1>1. h.steps \in Seq(Step) /\ h.migrated \in BOOLEAN /\ h.stamped \in BOOLEAN
  BY DEF History
<1>2. \A s \in Seq(Step) : DOMAIN s = 1 .. Len(s)
  OBVIOUS
<1> QED
  BY <1>1, <1>2

\* A history with other steps.
LEMMA WithSteps ==
  ASSUME NEW h \in History, NEW s \in Seq(Step)
  PROVE  /\ [h EXCEPT !.steps = s] \in History
         /\ [h EXCEPT !.steps = s].steps = s
         /\ [h EXCEPT !.steps = s].migrated = h.migrated
BY DEF History

\* What is picked from steps is drawn from them.
LEMMA PickedSteps ==
  ASSUME NEW s \in Seq(Step), NEW I \in SUBSET (1 .. Len(s))
  PROVE  Picked(s, I) \in Seq(Step) /\ Drawn(Picked(s, I), s)
<1>1. PICK f \in [DOMAIN Picked(s, I) -> I] :
        /\ IsInjective(f)
        /\ \A k \in DOMAIN Picked(s, I) : Picked(s, I)[k] = s[f[k]]
  BY PickedIsDrawn
<1>2. f \in [DOMAIN Picked(s, I) -> DOMAIN s]
  <2>1. I \subseteq DOMAIN s
    OBVIOUS
  <2> QED
    BY <1>1, <2>1
<1>3. Drawn(Picked(s, I), s)
  BY <1>1, <1>2 DEF Drawn
<1>4. Picked(s, I) \in Seq(Step)
  BY PickedFacts
<1> QED
  BY <1>3, <1>4

\* Memory's steps stay, and those of the file unless their number is taken or memory has
\* them; nothing else comes in (merge_histories).
LEMMA MergeFacts ==
  ASSUME NEW m \in History, NEW d \in History
  PROVE  /\ MergeHistories(m, d) \in History
         /\ MergeHistories(m, d).migrated = m.migrated
         /\ Ids(m.steps) \subseteq Ids(MergeHistories(m, d).steps)
         /\ Ids(MergeHistories(m, d).steps) \subseteq Ids(m.steps) \cup Ids(d.steps)
         /\ Clones(MergeHistories(m, d).steps) \subseteq Clones(m.steps) \cup Clones(d.steps)
         /\ \A i \in DOMAIN d.steps : \/ d.steps[i].n \in Numbers(m.steps)
                                      \/ d.steps[i].id \in Ids(MergeHistories(m, d).steps)
<1> DEFINE s == m.steps
           t == d.steps
           I == {i \in DOMAIN t : t[i].n \notin Numbers(s) /\ t[i].id \notin Ids(s)}
           new == Picked(t, I)
           r == MergeHistories(m, d)
<1>1. s \in Seq(Step) /\ t \in Seq(Step) /\ DOMAIN t = 1 .. Len(t)
  BY HistoryFacts
<1>2. I \in SUBSET (1 .. Len(t))
  BY <1>1
<1>3. /\ new \in Seq(Step) /\ Drawn(new, t)
      /\ \A k \in DOMAIN new : \E i \in I : new[k] = t[i]
      /\ \A i \in I : \E k \in DOMAIN new : new[k] = t[i]
  <2> HIDE DEF I, t
  <2> QED
    BY <1>1, <1>2, PickedFacts, PickedSteps
<1>4. Ids(new) \subseteq Ids(t) /\ Clones(new) \subseteq Clones(t)
  <2> HIDE DEF I, new, t
  <2> QED
    BY <1>3, DrawnFacts
<1>5. Ids(s) \cap Ids(new) = {}
  <2>1. \A i \in I : t[i].id \notin Ids(s)
    OBVIOUS
  <2> HIDE DEF I, new, t, s
  <2>2. \A k \in DOMAIN new : new[k].id \notin Ids(s)
    BY <1>3, <2>1
  <2> QED
    BY <2>2 DEF Ids
<1>6. \A i \in I : t[i].id \in Ids(new)
  <2> HIDE DEF I, new, t
  <2> QED
    BY <1>3 DEF Ids
<1>7. r = [m EXCEPT !.steps = IF new = <<>> THEN s ELSE Sorted(s \o new)]
  BY DEF MergeHistories
<1>8. \A i \in DOMAIN t : t[i].n \in Numbers(s) \/ t[i].id \in Ids(s) \/ i \in I
  OBVIOUS
<1> HIDE DEF I, new, r
<1>9. CASE new = <<>>
  <2>1. r = [m EXCEPT !.steps = s]
    BY <1>7, <1>9
  <2>2. r \in History /\ r.steps = s /\ r.migrated = m.migrated
    BY <1>1, <2>1, WithSteps
  <2>3. I = {}
    BY <1>3, <1>9
  <2> QED
    BY <2>2, <2>3, <1>8 DEF r
<1>10. CASE new # <<>>
  <2> DEFINE u == s \o new
  <2>1. r = [m EXCEPT !.steps = Sorted(u)]
    BY <1>7, <1>10
  <2>2. /\ u \in Seq(Step) /\ Ids(u) = Ids(s) \cup Ids(new)
        /\ Clones(u) \subseteq Clones(s) \cup Clones(new)
    BY <1>1, <1>3, <1>5, JoinedFacts
  <2> HIDE DEF u
  <2>3. Sorted(u) \in Seq(Step) /\ Drawn(Sorted(u), u) /\ Drawn(u, Sorted(u))
    BY <2>2, SortedFacts
  <2>4. Ids(Sorted(u)) = Ids(u) /\ Clones(Sorted(u)) \subseteq Clones(u)
    <3>1. Ids(Sorted(u)) \subseteq Ids(u) /\ Clones(Sorted(u)) \subseteq Clones(u)
      BY <2>3, DrawnFacts
    <3>2. Ids(u) \subseteq Ids(Sorted(u))
      BY <2>3, DrawnFacts
    <3> QED
      BY <3>1, <3>2
  <2>5. r \in History /\ r.steps = Sorted(u) /\ r.migrated = m.migrated
    BY <2>1, <2>3, WithSteps
  <2> QED
    BY <2>2, <2>4, <2>5, <1>4, <1>6, <1>8 DEF r
<1> QED
  BY <1>9, <1>10

\* The last step of a history survives its trimming (trim_history).
LEMMA TrimmedFacts ==
  ASSUME NEW s \in Seq(Step), Len(s) > 0
  PROVE  /\ Trimmed(s) \in Seq(Step)
         /\ Drawn(Trimmed(s), s)
         /\ s[Len(s)].id \in Ids(Trimmed(s))
         /\ Len(Trimmed(s)) \in 1 .. Len(s)
<1> DEFINE n == Len(s)
           r == SubSeq(s, n - Window + 1, n)
<1>1. n \in Nat /\ n > 0 /\ DOMAIN s = 1 .. n /\ Window \in Nat /\ Window > 0
  BY ThinkAssumption
<1>2. CASE n <= Window
  <2>1. Trimmed(s) = s
    BY <1>2 DEF Trimmed
  <2>2. Drawn(s, s)
    <3> DEFINE f == [k \in DOMAIN s |-> k]
    <3>1. f \in [DOMAIN s -> DOMAIN s] /\ IsInjective(f) /\ \A k \in DOMAIN s : f[k] = k
      BY DEF IsInjective
    <3> HIDE DEF f
    <3> QED
      BY <3>1 DEF Drawn
  <2>3. n \in DOMAIN s /\ n \in 1 .. n
    BY <1>1
  <2>4. s[n].id \in Ids(s)
    BY <2>3 DEF Ids
  <2> QED
    BY <2>1, <2>2, <2>3, <2>4
<1>3. CASE ~(n <= Window)
  <2>1. Trimmed(s) = r
    BY <1>3 DEF Trimmed
  <2> DEFINE d == n - Window
  <2>2. d \in Nat /\ d + Window = n /\ n - Window + 1 = d + 1
    BY <1>1, <1>3
  <2>3. /\ r \in Seq(Step) /\ DOMAIN r = 1 .. Window /\ Len(r) = Window
        /\ \A k \in 1 .. Window : r[k] = s[d + k] /\ d + k \in 1 .. n
    BY <1>1, <1>3
  <2> HIDE DEF r, d
  <2>4. Drawn(r, s)
    <3> DEFINE f == [k \in 1 .. Window |-> d + k]
    <3>1. f \in [1 .. Window -> 1 .. n]
      BY <2>3
    <3>2. IsInjective(f)
      BY <1>1, <2>2 DEF IsInjective
    <3>3. \A k \in 1 .. Window : r[k] = s[f[k]]
      BY <2>3
    <3> HIDE DEF f
    <3> QED
      BY <3>1, <3>2, <3>3, <2>3, <1>1 DEF Drawn
  <2>5. r[Window] = s[n] /\ Window \in DOMAIN r
    BY <2>2, <2>3, <1>1
  <2>6. s[n].id \in Ids(r)
    BY <2>5 DEF Ids
  <2>7. Len(r) \in 1 .. n
    BY <2>3, <1>1, <1>3
  <2> QED
    BY <2>1, <2>3, <2>4, <2>6, <2>7
<1> QED
  BY <1>2, <1>3

\* A step that is new to a history is no clone in it.
LEMMA AppendedFacts ==
  ASSUME NEW s \in Seq(Step), NEW e \in Step
  PROVE  /\ Append(s, e) \in Seq(Step) /\ Len(Append(s, e)) = Len(s) + 1
         /\ Append(s, e)[Len(s) + 1] = e
         /\ Ids(Append(s, e)) = Ids(s) \cup {e.id}
         /\ e.id \notin Ids(s) => Clones(Append(s, e)) \subseteq Clones(s)
<1> DEFINE t == <<e>>
<1>1. Append(s, e) = s \o t /\ t \in Seq(Step) /\ Len(t) = 1 /\ t[1] = e
  BY AppendIsBehind
<1>2. DOMAIN t = {1}
  OBVIOUS
<1>3. Append(s, e) \in Seq(Step) /\ Len(Append(s, e)) = Len(s) + 1 /\ Append(s, e)[Len(s) + 1] = e
  OBVIOUS
<1> HIDE DEF t
<1>4. Ids(t) = {e.id}
  BY <1>1, <1>2 DEF Ids
<1>5. Clones(t) = {}
  BY <1>2 DEF Clones
<1> QED
  BY <1>1, <1>3, <1>4, <1>5, JoinedFacts

\* Start-up repairs keep the steps, and make no clones.
LEMMA RepairFacts ==
  ASSUME NEW h \in History
  PROVE  /\ Dedupe(h) \in History /\ Dedupe(h).migrated = h.migrated
         /\ Drawn(Dedupe(h).steps, h.steps)
         /\ Renumber(h) \in History /\ Renumber(h).migrated = h.migrated
         /\ Drawn(Renumber(h).steps, h.steps)
<1> DEFINE s == h.steps
           I == {i \in DOMAIN s : Keeper(s, i)}
           t == [i \in DOMAIN s |-> [s[i] EXCEPT !.n = i]]
<1>1. s \in Seq(Step) /\ DOMAIN s = 1 .. Len(s)
  BY HistoryFacts
<1>2. Drawn(s, s)
  <2> DEFINE f == [k \in DOMAIN s |-> k]
  <2>1. f \in [DOMAIN s -> DOMAIN s] /\ IsInjective(f) /\ \A k \in DOMAIN s : f[k] = k
    BY DEF IsInjective
  <2> HIDE DEF f
  <2> QED
    BY <2>1 DEF Drawn
<1>3. Picked(s, I) \in Seq(Step) /\ Drawn(Picked(s, I), s)
  <2>1. I \in SUBSET (1 .. Len(s))
    BY <1>1
  <2> HIDE DEF I, s
  <2> QED
    BY <1>1, <2>1, PickedSteps
<1>4. t \in Seq(Step) /\ Drawn(t, s)
  <2>1. \A i \in 1 .. Len(s) : s[i] \in Step /\ i \in Nat \ {0}
    BY <1>1
  <2>2. \A i \in 1 .. Len(s) : [s[i] EXCEPT !.n = i] \in Step /\ [s[i] EXCEPT !.n = i].id = s[i].id
    BY <2>1 DEF Step
  <2>3. t \in [1 .. Len(s) -> Step]
    BY <1>1, <2>2
  <2>4. DOMAIN t = DOMAIN s /\ \A i \in DOMAIN s : t[i].id = s[i].id
    BY <1>1, <2>2
  <2>5. t \in Seq(Step)
    BY <1>1, <2>3
  <2> DEFINE f == [k \in DOMAIN s |-> k]
  <2>6. f \in [DOMAIN s -> DOMAIN s] /\ IsInjective(f) /\ \A k \in DOMAIN s : f[k] = k
    BY DEF IsInjective
  <2> HIDE DEF f, t
  <2>7. Drawn(t, s)
    BY <2>4, <2>6 DEF Drawn
  <2> QED
    BY <2>5, <2>7
<1>5. /\ Dedupe(h) = h \/ Dedupe(h) = [h EXCEPT !.steps = Picked(s, I)]
      /\ Renumber(h) = h \/ Renumber(h) = [h EXCEPT !.steps = t]
  BY DEF Dedupe, Renumber
<1> HIDE DEF I, t
<1>6. /\ Dedupe(h) \in History /\ Dedupe(h).migrated = h.migrated
      /\ Drawn(Dedupe(h).steps, s)
  <2>1. CASE Dedupe(h) = h
    BY <1>2, <2>1
  <2>2. CASE Dedupe(h) = [h EXCEPT !.steps = Picked(s, I)]
    BY <1>3, <2>2, WithSteps
  <2> QED
    BY <1>5, <2>1, <2>2
<1>7. /\ Renumber(h) \in History /\ Renumber(h).migrated = h.migrated
      /\ Drawn(Renumber(h).steps, s)
  <2>1. CASE Renumber(h) = h
    BY <1>2, <2>1
  <2>2. CASE Renumber(h) = [h EXCEPT !.steps = t]
    BY <1>4, <2>2, WithSteps
  <2> QED
    BY <1>5, <2>1, <2>2
<1> QED
  BY <1>6, <1>7

\* Pulled steps in the order they are taken in, each once.
LEMMA ListedFacts ==
  ASSUME NEW S \in SUBSET Step, IsFiniteSet(S), \A e, f \in S : e.id = f.id => e = f
  PROVE  /\ SetToSeq(S) \in Seq(Step)
         /\ Ids(SetToSeq(S)) \subseteq {e.id : e \in S}
         /\ Clones(SetToSeq(S)) = {}
<1> DEFINE C == Cardinality(S)
           t == SetToSeq(S)
<1>1. C \in Nat /\ ExistsBijection(1 .. C, S)
  BY FS_CardinalityType
<1> HIDE DEF C
<1>2. \E f \in [1 .. C -> S] : IsInjective(f)
  BY <1>1 DEF ExistsBijection, Bijection, Injection
<1>3. t \in [1 .. C -> S] /\ IsInjective(t)
  BY <1>2 DEF SetToSeq, C
<1> HIDE DEF t
<1>4. t \in Seq(Step) /\ DOMAIN t = 1 .. C
  <2>1. t \in [1 .. C -> Step]
    BY <1>3
  <2> QED
    BY <2>1, <1>1
<1>5. Ids(t) \subseteq {e.id : e \in S}
  BY <1>3 DEF Ids
<1>6. ASSUME NEW j \in DOMAIN t, NEW k \in DOMAIN t, t[j].id = t[k].id
      PROVE  j = k
  BY <1>3, <1>6 DEF IsInjective
<1>7. Clones(t) = {}
  BY <1>6 DEF Clones
<1> QED
  BY <1>4, <1>5, <1>7 DEF t

\* The numbers of a history are finitely many.
LEMMA NumbersFacts ==
  ASSUME NEW s \in Seq(Step)
  PROVE  IsFiniteSet(Numbers(s)) /\ Numbers(s) \subseteq Nat
<1> DEFINE f == [i \in DOMAIN s |-> s[i].n]
<1>1. DOMAIN s = 1 .. Len(s) /\ Len(s) \in Int /\ \A i \in DOMAIN s : s[i] \in Step
  OBVIOUS
<1>2. f \in Surjection(DOMAIN s, Numbers(s))
  <2>1. f \in [DOMAIN s -> Numbers(s)]
    BY DEF Numbers
  <2>2. \A x \in Numbers(s) : \E i \in DOMAIN s : f[i] = x
    BY DEF Numbers
  <2> HIDE DEF f
  <2> QED
    BY <2>1, <2>2 DEF Surjection
<1>3. IsFiniteSet(DOMAIN s)
  BY <1>1, FS_Interval
<1> HIDE DEF f
<1>4. IsFiniteSet(Numbers(s))
  BY <1>2, <1>3, FS_Surjection
<1>5. \A e \in Step : e.n \in Nat
  BY DEF Step
<1>6. Numbers(s) \subseteq Nat
  BY <1>1, <1>5 DEF Numbers
<1> QED
  BY <1>4, <1>6

\* The look-up table of a history leads to places in it.
LEMMA IndexFacts ==
  ASSUME NEW s \in Seq(Step)
  PROVE  DOMAIN IndexOf(s) = Numbers(s) /\ \A n \in Numbers(s) : IndexOf(s)[n] \in DOMAIN s
<1>1. ASSUME NEW n \in Numbers(s)
      PROVE  Greatest({i \in DOMAIN s : s[i].n = n}) \in DOMAIN s
  <2> DEFINE P == {i \in DOMAIN s : s[i].n = n}
  <2>1. DOMAIN s = 1 .. Len(s) /\ Len(s) \in Int
    OBVIOUS
  <2>2. P \in SUBSET Int /\ P \in SUBSET DOMAIN s /\ P # {}
    BY <2>1 DEF Numbers
  <2>3. IsFiniteSet(DOMAIN s)
    BY <2>1, FS_Interval
  <2> HIDE DEF P
  <2>4. IsFiniteSet(P)
    BY <2>2, <2>3, FS_Subset
  <2>5. Greatest(P) \in P
    BY <2>2, <2>4, GreatestFacts
  <2> QED
    BY <2>2, <2>5 DEF P
<1> QED
  BY <1>1 DEF IndexOf

-----------------------------------------------------------------------------
(* The inductive invariant.                                                 *)

Saves == [replace : BOOLEAN, history : History, pushed : SUBSET Step]
Tables == UNION {[S -> Nat] : S \in SUBSET Nat}

\* The types of the variables; of the numbers taken there are finitely many.
TypeInv ==
  /\ mem \in [Proc -> History \cup {NoFile}]
  /\ taken \in [Proc -> SUBSET Nat] /\ \A p \in Proc : IsFiniteSet(taken[p])
  /\ index \in [Proc -> Tables]
  /\ saves \in [Proc -> Seq(Saves)]
  /\ stage \in [Proc -> {"none", "opened", "locked"}]
  /\ lock \in [Proc -> 0 .. MaxWipes]
  /\ read \in [Proc -> History \cup {NoFile}]
  /\ disk \in History \cup {NoFile}
  /\ lockFile \in 0 .. MaxWipes
  /\ cloud \in SUBSET Step
  /\ minted \in 0 .. MaxMinted
  /\ adopted \in SUBSET Proc
  /\ wiped \in SUBSET EverSeen

\* The steps there are: recorded, on file or in the legacy file at first, or pushed by
\* other machines.
Known == EverSeen \cup {s.id : s \in Elsewhere}

OldClones == Clones(StepsOf(OldFile)) \cup Clones(Legacy)

\* What is said of every copy of the trace: known steps, none of those that are gone,
\* and no clones but those from before.
Sound(steps, known, gone) ==
  /\ steps \in Seq(Step)
  /\ Clones(steps) \subseteq OldClones
  /\ Ids(steps) \subseteq known
  /\ Ids(steps) \cap gone = {}

SoundInv ==
  /\ Sound(StepsOf(disk), Known, wiped)
  /\ \A p \in Proc : /\ Sound(StepsOf(mem[p]), Known, wiped)
                     /\ Sound(StepsOf(read[p]), Known, wiped)
                     /\ \A i \in DOMAIN saves[p] : Sound(saves[p][i].history.steps, Known, wiped)

\* A server that has adopted the legacy steps says so in all it saves, and so does the
\* file once a tombstone was there.
Marked(history) == Legacy # <<>> => history.migrated

MarkInv ==
  /\ \A p \in Proc : /\ mem[p] # NoFile => Marked(mem[p])
                     /\ \A i \in DOMAIN saves[p] : Marked(saves[p][i].history)
  /\ wiped # {} => disk # NoFile /\ Marked(disk)

\* A save pushes finitely many steps, those of the history it saves.
Pushes(save) ==
  /\ IsFiniteSet(save.pushed)
  /\ \A s \in save.pushed : s.id \in Ids(save.history.steps)

\* What was pushed is known and not gone, and there are finitely many steps of it.
SentInv ==
  /\ \A s \in cloud : s.id \in Known \ wiped
  /\ IsFiniteSet(cloud)
  /\ \A p \in Proc : \A i \in DOMAIN saves[p] : Pushes(saves[p][i])

\* What a save that holds the lock has: the file, or nothing if it could not be read.
HasRead(found) == found = disk \/ (IOErrors /\ found = NoFile)

\* Who is saving is up, and holds a lock file that is or was there; those that hold the
\* same take turns, and until the first wipe all do: they have read the file or could not.
LockInv ==
  /\ \A p \in Proc : /\ saves[p] # <<>> => mem[p] # NoFile
                     /\ stage[p] # "none" => saves[p] # <<>>
                     /\ lock[p] <= lockFile
                     /\ stage[p] = "locked" /\ lockFile = 0 => HasRead(read[p])
  /\ \A p, q \in Proc : p # q /\ stage[p] = "locked" /\ stage[q] = "locked" => lock[p] # lock[q]

IInv == TypeInv /\ SoundInv /\ MarkInv /\ SentInv /\ LockInv /\ IndexIsRight

-----------------------------------------------------------------------------
(* Facts about its parts.                                                   *)

\* A trace with no steps.
LEMMA NoSteps ==
  /\ StepsOf(NoFile) = <<>> /\ Fresh \in History /\ Tombstone \in History
  /\ Fresh.steps = <<>> /\ Tombstone.steps = <<>> /\ Tombstone.migrated
  /\ Ids(<<>>) = {} /\ Numbers(<<>>) = {} /\ Clones(<<>>) = {}
  /\ \A known, gone : Sound(<<>>, known, gone)
<1>1. Ids(<<>>) = {} /\ Numbers(<<>>) = {} /\ Clones(<<>>) = {} /\ <<>> \in Seq(Step)
  BY DEF Ids, Numbers, Clones
<1>2. Fresh \in History /\ Tombstone \in History /\ Fresh.steps = <<>>
      /\ Tombstone.steps = <<>> /\ Tombstone.migrated
  BY <1>1 DEF Fresh, Tombstone, History
<1>3. StepsOf(NoFile) = <<>>
  BY DEF StepsOf
<1> QED
  BY <1>1, <1>2, <1>3 DEF Sound

LEMMA StepsOfHistory ==
  ASSUME NEW h \in History
  PROVE  h # NoFile /\ StepsOf(h) = h.steps
BY ThinkAssumption DEF StepsOf

\* Steps drawn from sound ones are sound.
LEMMA DrawnIsSound ==
  ASSUME NEW known, NEW gone, NEW s, Sound(s, known, gone), NEW r \in Seq(Step), Drawn(r, s)
  PROVE  Sound(r, known, gone)
<1>1. Ids(r) \subseteq Ids(s) /\ Clones(r) \subseteq Clones(s)
  BY DrawnFacts
<1> QED
  BY <1>1 DEF Sound

\* What is sound stays so while more becomes known and none of it goes.
LEMMA StaysSound ==
  ASSUME NEW known, NEW gone, NEW more, NEW less, NEW s,
         Sound(s, known, gone), known \subseteq more, Ids(s) \cap less = {}
  PROVE  Sound(s, more, less)
BY DEF Sound

\* A merge of sound histories is sound.
LEMMA MergedIsSound ==
  ASSUME NEW known, NEW gone, NEW m \in History, NEW d \in History,
         Sound(m.steps, known, gone), Sound(d.steps, known, gone)
  PROVE  Sound(MergeHistories(m, d).steps, known, gone)
<1> DEFINE r == MergeHistories(m, d)
<1>1. /\ r \in History
      /\ Ids(r.steps) \subseteq Ids(m.steps) \cup Ids(d.steps)
      /\ Clones(r.steps) \subseteq Clones(m.steps) \cup Clones(d.steps)
  BY MergeFacts
<1> HIDE DEF r
<1>2. r.steps \in Seq(Step)
  BY <1>1, HistoryFacts
<1> QED
  BY <1>1, <1>2 DEF Sound, r

\* A step is recorded under an identity that nothing has.
LEMMA NewIsUnknown ==
  ASSUME TypeInv, minted < MaxMinted
  PROVE  minted + 1 \notin Known /\ minted + 1 \in Int
<1>1. minted \in Nat /\ minted + 1 \in 1 .. MaxMinted /\ minted + 1 \notin 1 .. minted
  BY ThinkAssumption DEF TypeInv
<1>2. \A id \in Ids(Legacy) \cup Ids(StepsOf(OldFile)) \cup {s.id : s \in Elsewhere} :
        id \notin 1 .. MaxMinted
  BY ThinkAssumption
<1>3. Known = 1 .. minted \cup (Ids(Legacy) \cup Ids(StepsOf(OldFile)) \cup {s.id : s \in Elsewhere})
  BY DEF Known, EverSeen
<1> QED
  BY <1>1, <1>2, <1>3

\* What was known stays known.
LEMMA KnownGrows ==
  ASSUME TypeInv, minted' \in Nat, minted <= minted'
  PROVE  Known \subseteq Known' /\ EverSeen \subseteq EverSeen'
<1>1. minted \in Nat
  BY DEF TypeInv
<1>2. 1 .. minted \subseteq 1 .. minted'
  BY <1>1
<1> QED
  BY <1>2 DEF Known, EverSeen

\* What a start-up or a pull makes of the file: sound steps, those of the legacy file
\* among them only while nothing is gone, and what was adopted is marked.
LEMMA LoadFacts ==
  ASSUME TypeInv, SoundInv, MarkInv
  PROVE  /\ Load(disk).history \in History
         /\ Sound(Load(disk).history.steps, Known, wiped)
         /\ Marked(Load(disk).history)
         /\ \/ Load(disk).saves = <<>>
            \/ Load(disk).saves = <<Save(FALSE, Load(disk).history, {})>>
<1> DEFINE base == IF disk = NoFile THEN Fresh ELSE disk
           legacy == [Fresh EXCEPT !.steps = Legacy]
           joined == MergeHistories(base, legacy)
           merged == [joined EXCEPT !.migrated = TRUE]
<1>1. base \in History /\ Sound(base.steps, Known, wiped)
  <2>1. CASE disk = NoFile
    BY <2>1, NoSteps
  <2>2. CASE disk # NoFile
    <3>1. disk \in History
      BY <2>2 DEF TypeInv
    <3> QED
      BY <2>2, <3>1, StepsOfHistory DEF SoundInv
  <2> QED
    BY <2>1, <2>2
<1>2. CASE base.migrated \/ Legacy = <<>>
  <2>1. Load(disk) = [history |-> base, saves |-> <<>>]
    BY <1>2 DEF Load
  <2> QED
    BY <2>1, <1>1, <1>2 DEF Marked
<1>3. CASE ~base.migrated /\ Legacy # <<>>
  <2>1. wiped = {}
    BY <1>3 DEF MarkInv, Marked
  <2>2. legacy \in History /\ legacy.steps = Legacy
    BY ThinkAssumption, NoSteps, WithSteps
  <2>3. Sound(Legacy, Known, wiped)
    BY <2>1, ThinkAssumption DEF Sound, OldClones, Known, EverSeen
  <2> HIDE DEF base, legacy
  <2>4. joined \in History /\ Sound(joined.steps, Known, wiped)
    BY <1>1, <2>2, <2>3, MergeFacts, MergedIsSound
  <2> HIDE DEF joined
  <2>5. merged \in History /\ merged.steps = joined.steps /\ merged.migrated
    BY <2>4 DEF History
  <2> DEFINE list == <<Save(FALSE, merged, {})>>
  <2>6. Load(disk) = [history |-> merged, saves |-> list]
    BY <1>3 DEF Load, base, joined, legacy
  <2>7. Load(disk).history = merged /\ Load(disk).saves = list
    <3> HIDE DEF merged, list
    <3> QED
      BY <2>6
  <2> HIDE DEF merged
  <2>8. Marked(merged)
    BY <2>5 DEF Marked
  <2> QED
    BY <2>4, <2>5, <2>7, <2>8, Zenon DEF list
<1> QED
  BY <1>2, <1>3, <1>1, HistoryFacts

-----------------------------------------------------------------------------
(* The initial states.                                                      *)

LEMMA InitIInv == Init => IInv
<1> SUFFICES ASSUME Init PROVE IInv
  OBVIOUS
<1>1. TypeInv
  <2>1. IsFiniteSet({})
    BY FS_EmptySet
  <2>2. \A p \in Proc : taken[p] = {} /\ IsFiniteSet(taken[p])
    BY <2>1 DEF Init
  <2>3. <<>> \in Tables
    <3>1. <<>> \in [{} -> Nat]
      OBVIOUS
    <3> QED
      BY <3>1 DEF Tables
  <2>4. index \in [Proc -> Tables]
    BY <2>3 DEF Init
  <2>5. saves \in [Proc -> Seq(Saves)]
    BY DEF Init
  <2>6. 0 \in 0 .. MaxWipes /\ 0 \in 0 .. MaxMinted
    BY ThinkAssumption
  <2> QED
    BY <2>2, <2>4, <2>5, <2>6, ThinkAssumption DEF Init, TypeInv
<1>2. SoundInv
  <2>1. Sound(StepsOf(OldFile), Known, {})
    <3>1. StepsOf(OldFile) \in Seq(Step)
      BY ThinkAssumption, NoSteps, StepsOfHistory, HistoryFacts
    <3> QED
      BY <3>1 DEF Sound, OldClones, Known, EverSeen
  <2>2. Sound(StepsOf(disk), Known, wiped)
    BY <2>1 DEF Init
  <2>3. \A p \in Proc : /\ Sound(StepsOf(mem[p]), Known, wiped)
                        /\ Sound(StepsOf(read[p]), Known, wiped)
                        /\ DOMAIN saves[p] = {}
    BY NoSteps DEF Init
  <2> QED
    BY <2>2, <2>3 DEF SoundInv
<1>3. MarkInv
  BY DEF Init, MarkInv
<1>4. SentInv
  <2>1. \A p \in Proc : DOMAIN saves[p] = {}
    BY DEF Init
  <2>2. cloud = Elsewhere /\ wiped = {}
    BY DEF Init
  <2> QED
    BY <2>1, <2>2, ThinkAssumption DEF SentInv, Known
<1>5. LockInv
  BY DEF Init, LockInv
<1>6. IndexIsRight
  BY DEF Init, IndexIsRight
<1> QED
  BY <1>1, <1>2, <1>3, <1>4, <1>5, <1>6 DEF IInv

-----------------------------------------------------------------------------
(* A call changes the memory of a server and leaves saves to do.             *)

\* What a call leaves behind is sound if its memory and its saves are.
LEMMA CallKeeps ==
  ASSUME IInv, NEW p \in Proc, NEW h \in History, NEW list \in Seq(Saves),
         saves[p] = <<>>, Become(p, h), ToSave(p, list),
         UNCHANGED <<saving, disk, lockFile, cloud, wiped>>,
         minted' \in Nat, minted <= minted',
         Sound(h.steps, Known', wiped), Marked(h),
         \A i \in DOMAIN list : /\ Sound(list[i].history.steps, Known', wiped)
                                /\ Marked(list[i].history)
  PROVE  SoundInv' /\ MarkInv' /\ LockInv'
<1>1. /\ mem' \in [Proc -> History \cup {NoFile}] /\ mem'[p] = h
      /\ \A q \in Proc \ {p} : mem'[q] = mem[q]
      /\ saves' \in [Proc -> Seq(Saves)] /\ saves'[p] = list
      /\ \A q \in Proc \ {p} : saves'[q] = saves[q]
  BY DEF IInv, TypeInv, Become, ToSave
<1>2. /\ stage' = stage /\ lock' = lock /\ read' = read /\ disk' = disk
      /\ lockFile' = lockFile /\ cloud' = cloud /\ wiped' = wiped
  BY DEF saving
<1>3. Known \subseteq Known'
  BY KnownGrows DEF IInv
<1>4. StepsOf(h) = h.steps /\ h # NoFile
  BY StepsOfHistory
<1>5. \A s : Sound(s, Known, wiped) => Sound(s, Known', wiped)
  BY <1>3 DEF Sound
<1>6. SoundInv'
  <2>1. Sound(StepsOf(disk), Known', wiped)
    BY <1>5 DEF IInv, SoundInv
  <2>2. ASSUME NEW q \in Proc
        PROVE  /\ Sound(StepsOf(mem'[q]), Known', wiped)
               /\ Sound(StepsOf(read[q]), Known', wiped)
               /\ \A i \in DOMAIN saves'[q] : Sound(saves'[q][i].history.steps, Known', wiped)
    <3>1. Sound(StepsOf(read[q]), Known', wiped)
      BY <1>5 DEF IInv, SoundInv
    <3>2. CASE q = p
      BY <3>1, <3>2, <1>1, <1>4
    <3>3. CASE q # p
      <4>1. mem'[q] = mem[q] /\ saves'[q] = saves[q]
        BY <3>3, <1>1
      <4> QED
        BY <3>1, <4>1, <1>5 DEF IInv, SoundInv
    <3> QED
      BY <3>2, <3>3
  <2> QED
    BY <2>1, <2>2, <1>2 DEF SoundInv
<1>7. MarkInv'
  <2>1. ASSUME NEW q \in Proc
        PROVE  /\ mem'[q] # NoFile => Marked(mem'[q])
               /\ \A i \in DOMAIN saves'[q] : Marked(saves'[q][i].history)
    <3>1. CASE q = p
      BY <3>1, <1>1
    <3>2. CASE q # p
      <4>1. mem'[q] = mem[q] /\ saves'[q] = saves[q]
        BY <3>2, <1>1
      <4> QED
        BY <4>1 DEF IInv, MarkInv
    <3> QED
      BY <3>1, <3>2
  <2>2. wiped # {} => disk # NoFile /\ Marked(disk)
    BY DEF IInv, MarkInv
  <2> QED
    BY <2>1, <2>2, <1>2 DEF MarkInv, Marked
<1>8. LockInv'
  <2>1. stage[p] = "none"
    BY DEF IInv, LockInv
  <2>2. ASSUME NEW q \in Proc
        PROVE  /\ saves'[q] # <<>> => mem'[q] # NoFile
               /\ stage[q] # "none" => saves'[q] # <<>>
    BY <2>1, <1>1, <1>4 DEF IInv, LockInv
  <2> QED
    BY <2>2, <1>2 DEF IInv, LockInv, HasRead
<1> QED
  BY <1>6, <1>7, <1>8

\* A call that pushes nothing leaves what was sent as it is.
LEMMA QuietCallKeeps ==
  ASSUME IInv, NEW p \in Proc, NEW list \in Seq(Saves),
         saves[p] = <<>>, ToSave(p, list), \A i \in DOMAIN list : list[i].pushed = {},
         UNCHANGED <<cloud, minted>>, wiped' = wiped
  PROVE  SentInv'
<1>1. /\ saves'[p] = list /\ DOMAIN saves' = Proc
      /\ \A q \in Proc \ {p} : saves'[q] = saves[q]
  BY DEF IInv, TypeInv, ToSave
<1>2. \A q \in Proc : \A i \in DOMAIN saves'[q] : Pushes(saves'[q][i])
  <2>1. \A i \in DOMAIN list : Pushes(list[i])
    <3>1. IsFiniteSet({})
      BY FS_EmptySet
    <3> QED
      BY <3>1 DEF Pushes
  <2>2. \A q \in Proc \ {p} : \A i \in DOMAIN saves'[q] : Pushes(saves'[q][i])
    BY <1>1 DEF IInv, SentInv
  <2>3. \A i \in DOMAIN saves'[p] : Pushes(saves'[p][i])
    BY <1>1, <2>1
  <2> QED
    BY <2>2, <2>3
<1>3. Known' = Known
  BY DEF Known, EverSeen
<1> QED
  BY <1>2, <1>3 DEF IInv, SentInv

\* A save that pushes a step.
LEMMA PushedSaveFacts ==
  ASSUME NEW h \in History, NEW e \in Step
  PROVE  /\ Save(FALSE, h, {e}) \in Saves
         /\ Save(FALSE, h, {e}).history = h
         /\ Save(FALSE, h, {e}).pushed = {e}
<1>1. {e} \in SUBSET Step /\ FALSE \in BOOLEAN
  OBVIOUS
<1> QED
  BY <1>1 DEF Save, Saves

\* The types after a call, as far as all calls have them in common.
LEMMA CallTypes ==
  ASSUME TypeInv, NEW p \in Proc, NEW h \in History, NEW list \in Seq(Saves),
         Become(p, h), ToSave(p, list),
         NEW numbers \in SUBSET Nat, IsFiniteSet(numbers), NEW table \in Tables,
         taken' = [taken EXCEPT ![p] = numbers], index' = [index EXCEPT ![p] = table],
         UNCHANGED <<saving, cloud>>, disk' \in History \cup {NoFile}, lockFile' \in 0 .. MaxWipes,
         minted' \in minted .. MaxMinted, adopted' \in SUBSET Proc, wiped' \in SUBSET wiped
  PROVE  TypeInv'
<1>1. /\ mem' \in [Proc -> History \cup {NoFile}] /\ saves' \in [Proc -> Seq(Saves)]
      /\ index' \in [Proc -> Tables]
  BY DEF TypeInv, Become, ToSave
<1>2. taken' \in [Proc -> SUBSET Nat] /\ \A q \in Proc : IsFiniteSet(taken'[q])
  <2>1. \A q \in Proc : taken'[q] = numbers \/ taken'[q] = taken[q]
    BY DEF TypeInv
  <2> QED
    BY <2>1 DEF TypeInv
<1>3. minted' \in 0 .. MaxMinted /\ minted' \in Nat /\ minted <= minted'
  BY ThinkAssumption DEF TypeInv
<1>4. wiped' \in SUBSET EverSeen'
  BY <1>3, KnownGrows DEF TypeInv
<1> QED
  BY <1>1, <1>2, <1>3, <1>4 DEF TypeInv, saving

\* The table stays right for every other server.
LEMMA OthersFindTheirs ==
  ASSUME IInv, NEW p \in Proc,
         \A q \in Proc \ {p} : /\ mem'[q] = mem[q] /\ index'[q] = index[q]
                               /\ q \in adopted => q \in adopted',
         mem'[p] # NoFile /\ p \notin adopted' => index'[p] = IndexOf(mem'[p].steps)
  PROVE  IndexIsRight'
<1> SUFFICES ASSUME NEW q \in Proc, mem'[q] # NoFile, q \notin adopted'
             PROVE  index'[q] = IndexOf(mem'[q].steps)
  BY DEF IndexIsRight
<1>1. CASE q = p
  BY <1>1
<1>2. CASE q # p
  BY <1>2 DEF IInv, IndexIsRight
<1> QED
  BY <1>1, <1>2

\* After a step is recorded the table is that of the history, whether it was trimmed or
\* not (trim_history).
LEMMA ReindexedFacts ==
  ASSUME NEW s \in Seq(Step), NEW e \in Step
  PROVE  LET all == Append(s, e)
             kept == Trimmed(all)
         IN Reindexed(IndexOf(s), e.n, all, kept) = IndexOf(kept)
<1> DEFINE all == Append(s, e)
           kept == Trimmed(all)
           m == Len(s)
           table == [k \in DOMAIN IndexOf(s) \cup {e.n} |-> IF k = e.n THEN Len(all) ELSE IndexOf(s)[k]]
           P(t, k) == {i \in DOMAIN t : t[i].n = k}
<1>1. CASE kept # all
  BY <1>1 DEF Reindexed
<1>2. CASE kept = all
  <2>1. /\ m \in Nat /\ DOMAIN s = 1 .. m /\ DOMAIN all = 1 .. m + 1 /\ Len(all) = m + 1
        /\ all[m + 1] = e /\ \A i \in 1 .. m : all[i] = s[i]
    OBVIOUS
  <2> HIDE DEF all, m
  <2>2. Numbers(all) = Numbers(s) \cup {e.n}
    <3>1. \A i \in 1 .. m + 1 : i = m + 1 \/ i \in 1 .. m
      BY <2>1
    <3>2. \A i \in 1 .. m : i \in 1 .. m + 1
      BY <2>1
    <3>3. m + 1 \in 1 .. m + 1
      BY <2>1
    <3>4. \A i \in 1 .. m + 1 : all[i].n \in Numbers(s) \cup {e.n}
      BY <2>1, <3>1 DEF Numbers
    <3>5. \A i \in 1 .. m : s[i].n \in Numbers(all)
      BY <2>1, <3>2 DEF Numbers
    <3>6. e.n \in Numbers(all)
      BY <2>1, <3>3 DEF Numbers
    <3>7. \A x \in Numbers(all) : x \in Numbers(s) \cup {e.n}
      BY <2>1, <3>4 DEF Numbers
    <3>8. \A x \in Numbers(s) : x \in Numbers(all)
      BY <2>1, <3>5 DEF Numbers
    <3> QED
      BY <3>6, <3>7, <3>8
  <2>3. Greatest(P(all, e.n)) = m + 1
    <3>1. m + 1 \in P(all, e.n) /\ \A k \in P(all, e.n) : k <= m + 1 /\ k \in Int
      BY <2>1
    <3> HIDE DEF P
    <3>2. \A g \in P(all, e.n) : (\A k \in P(all, e.n) : k <= g) => g = m + 1
      BY <3>1, <2>1
    <3> QED
      BY <3>1, <3>2 DEF Greatest
  <2>4. ASSUME NEW k, k # e.n
        PROVE  P(all, k) = P(s, k)
    <3>1. \A i \in 1 .. m + 1 : i = m + 1 \/ i \in 1 .. m
      BY <2>1
    <3>2. \A i \in 1 .. m : i \in 1 .. m + 1
      BY <2>1
    <3> QED
      BY <3>1, <3>2, <2>1, <2>4
  <2>5. \A k \in Numbers(s) \cup {e.n} : table[k] = Greatest(P(all, k))
    <3> SUFFICES ASSUME NEW k \in Numbers(s) \cup {e.n}
                 PROVE  table[k] = Greatest(P(all, k))
      OBVIOUS
    <3>1. DOMAIN IndexOf(s) = Numbers(s)
      BY IndexFacts
    <3>2. CASE k = e.n
      BY <3>1, <3>2, <2>1, <2>3
    <3>3. CASE k # e.n
      <4>1. table[k] = IndexOf(s)[k]
        BY <3>1, <3>3
      <4>2. IndexOf(s)[k] = Greatest(P(s, k))
        BY <3>3 DEF IndexOf
      <4> QED
        BY <4>1, <4>2, <2>4, <3>3
    <3> QED
      BY <3>2, <3>3
  <2>6. IndexOf(all) = [k \in Numbers(s) \cup {e.n} |-> Greatest(P(all, k))]
    BY <2>2 DEF IndexOf
  <2>7. table = [k \in Numbers(s) \cup {e.n} |-> table[k]]
    BY IndexFacts
  <2>8. table = IndexOf(all)
    <3> HIDE DEF table, P
    <3> QED
      BY <2>5, <2>6, <2>7
  <2> QED
    BY <1>2, <2>8 DEF Reindexed, all
<1> QED
  BY <1>1, <1>2

-----------------------------------------------------------------------------
(* Recording a step.                                                        *)

LEMMA TableOf ==
  ASSUME NEW v \in Seq(Step)
  PROVE  IndexOf(v) \in Tables
<1>1. DOMAIN v \subseteq Nat
  <2>1. DOMAIN v = 1 .. Len(v) /\ Len(v) \in Nat
    OBVIOUS
  <2> QED
    BY <2>1
<1>2. /\ Numbers(v) \in SUBSET Nat
      /\ \A k \in Numbers(v) : IndexOf(v)[k] \in Nat
  BY <1>1, IndexFacts, NumbersFacts
<1>3. IndexOf(v) \in [Numbers(v) -> Nat]
  BY <1>2 DEF IndexOf
<1> QED
  BY <1>2, <1>3 DEF Tables

LEMMA TableTypes ==
  ASSUME NEW t \in Seq(Step), NEW u \in Seq(Step), NEW n \in Nat, NEW table \in Tables
  PROVE  Reindexed(table, n, t, u) \in Tables
<1>1. IndexOf(u) \in Tables
  BY TableOf
<1>2. CASE u # t
  BY <1>1, <1>2 DEF Reindexed
<1>3. CASE u = t
  <2> DEFINE r == [k \in DOMAIN table \cup {n} |-> IF k = n THEN Len(t) ELSE table[k]]
  <2>1. PICK S \in SUBSET Nat : table \in [S -> Nat]
    BY DEF Tables
  <2>2. S \cup {n} \in SUBSET Nat /\ DOMAIN table = S /\ Len(t) \in Nat
    BY <2>1
  <2>3. r \in [S \cup {n} -> Nat]
    BY <2>1, <2>2
  <2>4. Reindexed(table, n, t, u) = r
    BY <1>3 DEF Reindexed
  <2> HIDE DEF r
  <2> QED
    BY <2>2, <2>3, <2>4 DEF Tables
<1> QED
  BY <1>2, <1>3

\* A recorded step is new to everything; what it is saved and pushed with is sound, and
\* it is found where it is (process_step).
LEMMA RecordedKeeps ==
  ASSUME IInv, NEW p \in Proc, NEW n \in Nat \ {0}, Recorded(p, n)
  PROVE  IInv'
<1> DEFINE e == [id |-> minted + 1, n |-> n]
           s == mem[p].steps
           all == Append(s, e)
           kept == Trimmed(all)
           h == [mem[p] EXCEPT !.steps = kept, !.stamped = TRUE]
           dropped == Numbers(SubSeq(all, 1, Len(all) - Len(kept)))
           numbers == (taken[p] \cup {n}) \ dropped
           table == Reindexed(index[p], n, all, kept)
           save == Save(FALSE, h, {e})
           list == <<save>>
<1>1. /\ mem[p] # NoFile /\ saves[p] = <<>> /\ minted < MaxMinted
      /\ Become(p, h)
      /\ taken' = [taken EXCEPT ![p] = numbers]
      /\ index' = [index EXCEPT ![p] = table]
      /\ ToSave(p, list)
      /\ minted' = minted + 1
      /\ UNCHANGED <<saving, disk, lockFile, cloud, adopted, wiped>>
  BY DEF Recorded, Free
<1>2. /\ mem[p] \in History /\ s \in Seq(Step) /\ StepsOf(mem[p]) = s
      /\ Sound(s, Known, wiped) /\ Marked(mem[p])
  <2>1. mem[p] \in History
    BY <1>1 DEF IInv, TypeInv
  <2> QED
    BY <1>1, <2>1, HistoryFacts, StepsOfHistory DEF IInv, SoundInv, MarkInv
<1>3. e \in Step /\ e.id = minted + 1 /\ e.n = n /\ e.id \notin Known
  BY <1>1, NewIsUnknown DEF IInv, Step
<1>4. minted \in Nat /\ minted <= minted' /\ minted' \in Nat /\ minted' \in minted .. MaxMinted
  BY <1>1, ThinkAssumption DEF IInv, TypeInv
<1>5. Known \subseteq Known' /\ e.id \in Known'
  <2>1. Known \subseteq Known'
    BY <1>4, KnownGrows DEF IInv
  <2>2. e.id \in 1 .. minted'
    BY <1>1, <1>3, <1>4
  <2> QED
    BY <2>1, <2>2 DEF Known, EverSeen
<1>6. e.id \notin wiped
  BY <1>3 DEF IInv, TypeInv, Known
<1> HIDE DEF e
<1>7. /\ all \in Seq(Step) /\ Len(all) > 0 /\ all[Len(all)] = e
      /\ Ids(all) = Ids(s) \cup {e.id} /\ Clones(all) \subseteq Clones(s)
  <2>1. e.id \notin Ids(s)
    BY <1>2, <1>3 DEF Sound
  <2>2. Len(s) \in Nat
    BY <1>2
  <2> HIDE DEF s
  <2> QED
    BY <1>2, <1>3, <2>1, <2>2, AppendedFacts
<1>8. Sound(all, Known', wiped)
  BY <1>2, <1>5, <1>6, <1>7 DEF Sound
<1> HIDE DEF all
<1>9. kept \in Seq(Step) /\ Drawn(kept, all) /\ e.id \in Ids(kept)
  BY <1>7, TrimmedFacts
<1>10. Sound(kept, Known', wiped)
  BY <1>8, <1>9, DrawnIsSound
<1> HIDE DEF kept
<1>11. h \in History /\ h.steps = kept /\ h.migrated = mem[p].migrated
  BY <1>2, <1>9 DEF History
<1> HIDE DEF h
<1>12. save \in Saves /\ save.history = h /\ save.pushed = {e}
  <2>1. h \in History /\ e \in Step
    BY <1>3, <1>11
  <2>2. /\ Save(FALSE, h, {e}) \in Saves
        /\ Save(FALSE, h, {e}).history = h
        /\ Save(FALSE, h, {e}).pushed = {e}
    BY <2>1, PushedSaveFacts
  <2> QED
    BY <2>2
<1> HIDE DEF save
<1>13. list \in Seq(Saves) /\ DOMAIN list = {1} /\ list[1] = save
  BY <1>12
<1> HIDE DEF list
<1>14. Marked(h)
  BY <1>2, <1>11 DEF Marked
<1>15. SoundInv' /\ MarkInv' /\ LockInv'
  <2>1. \A i \in DOMAIN list : /\ Sound(list[i].history.steps, Known', wiped)
                               /\ Marked(list[i].history)
    BY <1>10, <1>11, <1>12, <1>13, <1>14
  <2> QED
    BY <1>1, <1>4, <1>10, <1>11, <1>13, <1>14, <2>1, CallKeeps
<1>16. TypeInv'
  <2>1. IsFiniteSet(numbers) /\ numbers \in SUBSET Nat
    <3>1. IsFiniteSet(taken[p]) /\ taken[p] \in SUBSET Nat
      BY DEF IInv, TypeInv
    <3>2. IsFiniteSet(taken[p] \cup {n})
      BY <3>1, FS_AddElement
    <3> HIDE DEF dropped
    <3> QED
      BY <3>1, <3>2, FS_Subset
  <2>2. table \in Tables
    BY <1>7, <1>9, TableTypes DEF IInv, TypeInv
  <2> HIDE DEF numbers, table
  <2> QED
    BY <1>1, <1>4, <1>11, <1>13, <2>1, <2>2, CallTypes DEF IInv, TypeInv
<1>17. SentInv'
  <2>1. /\ saves'[p] = list /\ DOMAIN saves' = Proc /\ cloud' = cloud /\ wiped' = wiped
        /\ \A q \in Proc \ {p} : saves'[q] = saves[q]
    BY <1>1 DEF IInv, TypeInv, ToSave
  <2>2. Pushes(save)
    <3>1. IsFiniteSet({e})
      BY FS_Singleton
    <3>2. \A t \in {e} : t.id \in Ids(kept)
      BY <1>9
    <3> QED
      BY <3>1, <3>2, <1>11, <1>12 DEF Pushes
  <2>3. \A q \in Proc : \A i \in DOMAIN saves'[q] : Pushes(saves'[q][i])
    <3>1. \A i \in DOMAIN saves'[p] : Pushes(saves'[p][i])
      BY <2>1, <2>2, <1>13
    <3>2. \A q \in Proc \ {p} : \A i \in DOMAIN saves'[q] : Pushes(saves'[q][i])
      BY <2>1 DEF IInv, SentInv
    <3> QED
      BY <3>1, <3>2
  <2>4. (\A t \in cloud' : t.id \in Known' \ wiped') /\ IsFiniteSet(cloud')
    BY <2>1, <1>5 DEF IInv, SentInv
  <2> QED
    BY <2>3, <2>4 DEF SentInv
<1>18. IndexIsRight'
  <2>1. /\ mem'[p] = h /\ index'[p] = table
        /\ \A q \in Proc \ {p} : mem'[q] = mem[q] /\ index'[q] = index[q]
    BY <1>1 DEF IInv, TypeInv, Become
  <2>2. p \notin adopted => index[p] = IndexOf(s)
    BY <1>1 DEF IInv, IndexIsRight
  <2>3. p \notin adopted => table = IndexOf(kept)
    <3>1. Reindexed(IndexOf(s), e.n, all, kept) = IndexOf(kept)
      BY <1>2, <1>3, ReindexedFacts DEF all, kept
    <3> QED
      BY <2>2, <3>1, <1>3
  <2> HIDE DEF table
  <2> QED
    BY <1>1, <1>11, <2>1, <2>3, OthersFindTheirs
<1> QED
  BY <1>15, <1>16, <1>17, <1>18 DEF IInv

\* The next number is a number.
LEMMA NextNumberFacts ==
  ASSUME TypeInv, NEW p \in Proc
  PROVE  NextNumber(p) \in Nat \ {0}
<1>1. taken[p] \in SUBSET Nat /\ IsFiniteSet(taken[p])
  BY DEF TypeInv
<1>2. CASE taken[p] = {}
  BY <1>2 DEF NextNumber
<1>3. CASE taken[p] # {}
  <2>1. Greatest(taken[p]) \in taken[p]
    <3>1. taken[p] \in SUBSET Int
      BY <1>1
    <3> QED
      BY <1>1, <1>3, <3>1, GreatestFacts
  <2>2. Greatest(taken[p]) \in Nat
    BY <1>1, <2>1
  <2> QED
    BY <1>3, <2>2 DEF NextNumber
<1> QED
  BY <1>2, <1>3

LEMMA RecordKeeps ==
  ASSUME IInv, NEW p \in Proc, NEW n \in Asked \cup {0}, Record(p, n) \/ Revise(p, n)
  PROVE  IInv'
<1>1. n \in Nat
  <2>1. Asked \subseteq Nat
    BY ThinkAssumption
  <2> QED
    BY <2>1
<1>2. PICK k \in Nat \ {0} : Recorded(p, k)
  <2>1. CASE Revise(p, n)
    BY <1>1, <2>1 DEF Revise
  <2>2. CASE Record(p, n)
    <3>1. NextNumber(p) \in Nat \ {0}
      BY NextNumberFacts DEF IInv
    <3> QED
      BY <1>1, <2>2, <3>1 DEF Record
  <2> QED
    BY <2>1, <2>2
<1> QED
  BY <1>2, RecordedKeeps

\* A save that pushes nothing.
LEMMA QuietSaveFacts ==
  ASSUME NEW replace \in BOOLEAN, NEW h \in History
  PROVE  /\ Save(replace, h, {}) \in Saves
         /\ Save(replace, h, {}).history = h
         /\ Save(replace, h, {}).pushed = {}
<1>1. {} \in SUBSET Step
  OBVIOUS
<1> QED
  BY <1>1 DEF Save, Saves

\* A save of memory as it is.
LEMMA ResaveKeeps ==
  ASSUME IInv, NEW p \in Proc, Resave(p)
  PROVE  IInv'
<1> DEFINE h == mem[p]
           save == Save(FALSE, h, {})
           list == <<save>>
<1>1. /\ h # NoFile /\ saves[p] = <<>> /\ ToSave(p, list)
      /\ UNCHANGED <<mem, taken, index, saving, disk, lockFile, cloud, minted, adopted, wiped>>
  BY DEF Resave, Free
<1>2. h \in History /\ Sound(h.steps, Known, wiped) /\ Marked(h)
  <2>1. h \in History
    BY <1>1 DEF IInv, TypeInv
  <2> QED
    BY <1>1, <2>1, StepsOfHistory DEF IInv, SoundInv, MarkInv
<1>3. Become(p, h) /\ taken' = [taken EXCEPT ![p] = taken[p]] /\ index' = [index EXCEPT ![p] = index[p]]
  BY <1>1 DEF Become, IInv, TypeInv
<1> HIDE DEF h
<1>4. save \in Saves /\ save.history = h /\ save.pushed = {}
  BY <1>2, FALSE \in BOOLEAN, QuietSaveFacts, Zenon
<1> HIDE DEF save
<1>5. list \in Seq(Saves) /\ DOMAIN list = {1} /\ list[1] = save
  BY <1>4
<1> HIDE DEF list
<1>6. minted' \in minted .. MaxMinted /\ minted' \in Nat /\ minted <= minted' /\ Known' = Known
  BY <1>1, ThinkAssumption DEF IInv, TypeInv, Known, EverSeen
<1>7. SoundInv' /\ MarkInv' /\ LockInv'
  <2>1. \A i \in DOMAIN list : /\ Sound(list[i].history.steps, Known', wiped)
                               /\ Marked(list[i].history)
    BY <1>2, <1>4, <1>5, <1>6
  <2>2. Sound(h.steps, Known', wiped)
    BY <1>2, <1>6
  <2>3. UNCHANGED <<saving, disk, lockFile, cloud, wiped>>
    BY <1>1
  <2> QED
    BY <1>1, <1>2, <1>3, <1>5, <1>6, <2>1, <2>2, <2>3, CallKeeps
<1>8. TypeInv'
  BY <1>1, <1>2, <1>3, <1>5, <1>6, CallTypes DEF IInv, TypeInv
<1>9. SentInv'
  <2>1. \A i \in DOMAIN list : list[i].pushed = {}
    BY <1>4, <1>5
  <2> QED
    BY <1>1, <1>5, <2>1, QuietCallKeeps
<1>10. IndexIsRight'
  BY <1>1 DEF IInv, IndexIsRight
<1> QED
  BY <1>7, <1>8, <1>9, <1>10 DEF IInv

-----------------------------------------------------------------------------
(* Start-up and pulls.                                                      *)

\* Saves that push nothing, of sound histories.
Quiet(list) ==
  /\ list \in Seq(Saves)
  /\ \A i \in DOMAIN list : /\ Sound(list[i].history.steps, Known, wiped)
                            /\ Marked(list[i].history)
                            /\ list[i].pushed = {}

LEMMA QuietOne ==
  ASSUME NEW replace \in BOOLEAN, NEW h \in History, Sound(h.steps, Known, wiped), Marked(h)
  PROVE  Quiet(<<Save(replace, h, {})>>)
<1> DEFINE save == Save(replace, h, {})
           list == <<save>>
<1>1. save \in Saves /\ save.history = h /\ save.pushed = {}
  BY QuietSaveFacts, Zenon
<1> HIDE DEF save
<1>2. list \in Seq(Saves) /\ DOMAIN list = {1} /\ list[1] = save
  BY <1>1
<1> HIDE DEF list
<1>3. Quiet(list)
  BY <1>1, <1>2 DEF Quiet
<1> QED
  BY <1>3 DEF list, save

LEMMA QuietNone == Quiet(<<>>)
BY DEF Quiet

LEMMA QuietBoth ==
  ASSUME NEW s, NEW t, Quiet(s), Quiet(t)
  PROVE  Quiet(s \o t)
<1> DEFINE m == Len(s)
           n == Len(t)
           u == s \o t
<1>1. s \in Seq(Saves) /\ t \in Seq(Saves)
  BY DEF Quiet
<1>2. /\ m \in Nat /\ n \in Nat /\ DOMAIN s = 1 .. m /\ DOMAIN t = 1 .. n
      /\ u \in Seq(Saves) /\ DOMAIN u = 1 .. m + n
      /\ \A i \in 1 .. m + n : u[i] = IF i <= m THEN s[i] ELSE t[i - m]
  BY <1>1
<1> HIDE DEF u, m, n
<1>3. ASSUME NEW i \in 1 .. m + n
      PROVE  /\ Sound(u[i].history.steps, Known, wiped)
             /\ Marked(u[i].history)
             /\ u[i].pushed = {}
  <2>1. CASE i <= m
    <3>1. i \in 1 .. m /\ u[i] = s[i]
      BY <2>1, <1>2
    <3> QED
      BY <3>1, <1>2 DEF Quiet
  <2>2. CASE ~(i <= m)
    <3>1. i - m \in 1 .. n /\ u[i] = t[i - m]
      BY <2>2, <1>2
    <3> QED
      BY <3>1, <1>2 DEF Quiet
  <2> QED
    BY <2>1, <2>2
<1>4. Quiet(u)
  BY <1>2, <1>3 DEF Quiet
<1> QED
  BY <1>4 DEF u

\* A call that records nothing, and whose memory and saves are sound, keeps all but the
\* look-up table.
LEMMA QuietCall ==
  ASSUME IInv, NEW p \in Proc, NEW h \in History, NEW list, Quiet(list),
         saves[p] = <<>>, Become(p, h), ToSave(p, list),
         UNCHANGED <<saving, disk, lockFile, cloud, minted, wiped>>,
         Sound(h.steps, Known, wiped), Marked(h),
         NEW numbers \in SUBSET Nat, IsFiniteSet(numbers), NEW table \in Tables,
         taken' = [taken EXCEPT ![p] = numbers], index' = [index EXCEPT ![p] = table],
         adopted' \in SUBSET Proc
  PROVE  TypeInv' /\ SoundInv' /\ MarkInv' /\ SentInv' /\ LockInv'
<1>1. list \in Seq(Saves)
  BY DEF Quiet
<1>2. Known' = Known /\ wiped' = wiped /\ cloud' = cloud /\ minted' = minted
  BY DEF Known, EverSeen
<1>3. minted' \in minted .. MaxMinted /\ minted' \in Nat /\ minted <= minted'
  BY <1>2, ThinkAssumption DEF IInv, TypeInv
<1>4. SoundInv' /\ MarkInv' /\ LockInv'
  <2>1. \A i \in DOMAIN list : /\ Sound(list[i].history.steps, Known', wiped)
                               /\ Marked(list[i].history)
    BY <1>2 DEF Quiet
  <2>2. Sound(h.steps, Known', wiped)
    BY <1>2
  <2>3. UNCHANGED <<saving, disk, lockFile, cloud, wiped>>
    OBVIOUS
  <2> QED
    BY <1>1, <1>3, <2>1, <2>2, <2>3, CallKeeps
<1>5. SentInv'
  <2>1. \A i \in DOMAIN list : list[i].pushed = {}
    BY DEF Quiet
  <2> QED
    BY <1>1, <1>2, <2>1, QuietCallKeeps
<1>6. TypeInv'
  <2>1. disk' \in History \cup {NoFile} /\ lockFile' \in 0 .. MaxWipes
    BY DEF IInv, TypeInv
  <2>2. UNCHANGED <<saving, cloud>> /\ wiped' \in SUBSET wiped
    BY <1>2
  <2>3. TypeInv
    BY DEF IInv
  <2> QED
    BY <1>1, <1>3, <2>1, <2>2, <2>3, CallTypes
<1> QED
  BY <1>4, <1>5, <1>6

\* A start-up reads sound steps, of which the repairs drop and renumber some; it builds
\* its table from what it ends up with (Boot).
LEMMA BootKeeps ==
  ASSUME IInv, NEW p \in Proc, Boot(p)
  PROVE  IInv'
<1> DEFINE loaded == Load(disk)
           first == loaded.history
           deduped == Dedupe(first)
           numbered == Renumber(deduped)
           Rewrite(from, to) == IF from = to THEN <<>> ELSE <<Save(TRUE, to, {})>>
           list == loaded.saves \o Rewrite(first, deduped) \o Rewrite(deduped, numbered)
           numbers == Numbers(numbered.steps)
           table == IndexOf(numbered.steps)
<1>1. /\ mem[p] = NoFile
      /\ Become(p, numbered)
      /\ taken' = [taken EXCEPT ![p] = numbers]
      /\ index' = [index EXCEPT ![p] = table]
      /\ ToSave(p, list)
      /\ UNCHANGED <<saving, disk, lockFile, cloud, minted, adopted, wiped>>
  BY DEF Boot
<1>2. saves[p] = <<>>
  BY <1>1 DEF IInv, LockInv
<1>3. /\ first \in History /\ Sound(first.steps, Known, wiped) /\ Marked(first)
      /\ loaded.saves = <<>> \/ loaded.saves = <<Save(FALSE, first, {})>>
  BY LoadFacts DEF IInv
<1> HIDE DEF loaded
<1>4. Quiet(loaded.saves)
  <2>1. Quiet(<<Save(FALSE, first, {})>>)
    BY <1>3, FALSE \in BOOLEAN, QuietOne, Zenon
  <2> QED
    BY <1>3, <2>1, QuietNone
<1>5. deduped \in History /\ Sound(deduped.steps, Known, wiped) /\ Marked(deduped)
  <2>1. deduped \in History /\ deduped.migrated = first.migrated /\ Drawn(deduped.steps, first.steps)
    BY <1>3, RepairFacts
  <2> HIDE DEF deduped
  <2>2. deduped.steps \in Seq(Step)
    BY <2>1, HistoryFacts
  <2>3. Sound(deduped.steps, Known, wiped)
    BY <1>3, <2>1, <2>2, DrawnIsSound
  <2> QED
    BY <1>3, <2>1, <2>3 DEF Marked
<1>6. numbered \in History /\ Sound(numbered.steps, Known, wiped) /\ Marked(numbered)
  <2> HIDE DEF deduped
  <2>1. /\ numbered \in History /\ numbered.migrated = deduped.migrated
        /\ Drawn(numbered.steps, deduped.steps)
    BY <1>5, RepairFacts
  <2> HIDE DEF numbered
  <2>2. numbered.steps \in Seq(Step)
    BY <2>1, HistoryFacts
  <2>3. Sound(numbered.steps, Known, wiped)
    BY <1>5, <2>1, <2>2, DrawnIsSound
  <2> QED
    BY <1>5, <2>1, <2>3 DEF Marked
<1>7. ASSUME NEW from, NEW to \in History, Sound(to.steps, Known, wiped), Marked(to)
      PROVE  Quiet(Rewrite(from, to))
  <2>1. Quiet(<<Save(TRUE, to, {})>>)
    BY <1>7, TRUE \in BOOLEAN, QuietOne, Zenon
  <2> QED
    BY <2>1, QuietNone
<1>8. Quiet(list)
  <2> DEFINE second == Rewrite(first, deduped)
             third == Rewrite(deduped, numbered)
  <2>1. Quiet(second) /\ Quiet(third)
    <3> HIDE DEF first, deduped, numbered
    <3> QED
      BY <1>5, <1>6, <1>7
  <2>2. list = loaded.saves \o second \o third
    OBVIOUS
  <2> HIDE DEF second, third
  <2>3. Quiet(loaded.saves \o second)
    BY <1>4, <2>1, QuietBoth
  <2>4. Quiet(loaded.saves \o second \o third)
    BY <2>1, <2>3, QuietBoth
  <2> QED
    BY <2>2, <2>4
<1> HIDE DEF first, deduped, numbered, list
<1>9. numbered.steps \in Seq(Step)
  BY <1>6, HistoryFacts
<1>10. numbers \in SUBSET Nat /\ IsFiniteSet(numbers) /\ table \in Tables
  BY <1>9, NumbersFacts, TableOf
<1>11. IndexIsRight'
  <2>1. /\ mem'[p] = numbered /\ index'[p] = table
        /\ \A q \in Proc \ {p} : mem'[q] = mem[q] /\ index'[q] = index[q]
    BY <1>1 DEF IInv, TypeInv, Become
  <2> QED
    BY <1>1, <2>1, OthersFindTheirs
<1> HIDE DEF numbers, table
<1>12. TypeInv' /\ SoundInv' /\ MarkInv' /\ SentInv' /\ LockInv'
  <2>1. UNCHANGED <<saving, disk, lockFile, cloud, minted, wiped>> /\ adopted' \in SUBSET Proc
    BY <1>1 DEF IInv, TypeInv
  <2> QED
    BY <1>1, <1>2, <1>6, <1>8, <1>10, <2>1, QuietCall
<1> QED
  BY <1>11, <1>12 DEF IInv

\* A pull brings in known steps, each once and none that is gone, and no server's table
\* is promised afterwards (Adopt).
LEMMA AdoptKeeps ==
  ASSUME IInv, NEW p \in Proc, NEW pulled \in SUBSET cloud, Adopt(p, pulled)
  PROVE  IInv'
<1> DEFINE archive == Load(disk)
           new == {s \in pulled : /\ s.n \notin Numbers(archive.history.steps)
                                  /\ s.id \notin Ids(archive.history.steps) \cup Ids(mem[p].steps)}
<1>0. PICK kept \in Singled(new) :
        LET merged == MergeHistories(mem[p], [Fresh EXCEPT !.steps = SetToSeq(kept)])
        IN /\ merged # mem[p]
           /\ Become(p, merged)
           /\ ToSave(p, Append(archive.saves, Save(FALSE, merged, {})))
  BY DEF Adopt
<1> DEFINE fetched == SetToSeq(kept)
           brought == [Fresh EXCEPT !.steps = fetched]
           merged == MergeHistories(mem[p], brought)
           list == Append(archive.saves, Save(FALSE, merged, {}))
<1>1. /\ mem[p] # NoFile /\ saves[p] = <<>>
      /\ Become(p, merged)
      /\ ToSave(p, list)
      /\ adopted' = adopted \cup {p}
      /\ UNCHANGED <<taken, index, saving, disk, lockFile, cloud, minted, wiped>>
  BY <1>0 DEF Adopt, Free
<1>2. /\ Quiet(archive.saves)
      /\ archive.saves \in Seq(Saves)
  <2> DEFINE first == archive.history
             rest == archive.saves
  <2>1. /\ first \in History /\ Sound(first.steps, Known, wiped) /\ Marked(first)
        /\ rest = <<>> \/ rest = <<Save(FALSE, first, {})>>
    BY LoadFacts DEF IInv
  <2> HIDE DEF first, rest
  <2>2. Quiet(<<Save(FALSE, first, {})>>)
    BY <2>1, FALSE \in BOOLEAN, QuietOne, Zenon
  <2>3. Quiet(rest)
    BY <2>1, <2>2, QuietNone
  <2>4. rest \in Seq(Saves)
    BY <2>3 DEF Quiet
  <2> QED
    BY <2>3, <2>4 DEF rest
<1>3. kept \in SUBSET cloud /\ \A s, t \in kept : s.id = t.id => s = t
  <2>1. new \in SUBSET cloud
    OBVIOUS
  <2> HIDE DEF new
  <2> QED
    BY <2>1 DEF Singled
<1> HIDE DEF archive, new
<1>4. /\ fetched \in Seq(Step) /\ Ids(fetched) \subseteq {s.id : s \in kept} /\ Clones(fetched) = {}
  <2>1. kept \in SUBSET Step /\ IsFiniteSet(kept)
    <3>1. cloud \in SUBSET Step /\ IsFiniteSet(cloud)
      BY DEF IInv, TypeInv, SentInv
    <3> QED
      BY <1>3, <3>1, FS_Subset
  <2> QED
    BY <1>3, <2>1, ListedFacts
<1> HIDE DEF fetched
<1>5. Sound(fetched, Known, wiped)
  <2>1. \A s \in kept : s.id \in Known /\ s.id \notin wiped
    BY <1>3 DEF IInv, SentInv
  <2>2. \A id \in Ids(fetched) : id \in Known /\ id \notin wiped
    BY <1>4, <2>1
  <2> QED
    BY <1>4, <2>2 DEF Sound
<1>6. brought \in History /\ brought.steps = fetched
  BY <1>4, NoSteps, WithSteps
<1> HIDE DEF brought
<1>7. mem[p] \in History /\ Sound(mem[p].steps, Known, wiped) /\ Marked(mem[p])
  <2>1. mem[p] \in History
    BY <1>1 DEF IInv, TypeInv
  <2> QED
    BY <1>1, <2>1, StepsOfHistory DEF IInv, SoundInv, MarkInv
<1>8. merged \in History /\ Sound(merged.steps, Known, wiped) /\ Marked(merged)
  <2>1. merged \in History /\ merged.migrated = mem[p].migrated
    BY <1>6, <1>7, MergeFacts
  <2>2. Sound(merged.steps, Known, wiped)
    BY <1>5, <1>6, <1>7, MergedIsSound
  <2> QED
    BY <1>7, <2>1, <2>2 DEF Marked
<1> HIDE DEF merged
<1>9. Quiet(list)
  <2> DEFINE save == Save(FALSE, merged, {})
  <2>1. Quiet(<<save>>)
    BY <1>8, FALSE \in BOOLEAN, QuietOne, Zenon
  <2>2. save \in Saves
    BY <1>8, FALSE \in BOOLEAN, QuietSaveFacts, Zenon
  <2> HIDE DEF save
  <2>3. Quiet(archive.saves \o <<save>>)
    BY <1>2, <2>1, QuietBoth
  <2>4. Append(archive.saves, save) = archive.saves \o <<save>>
    BY <1>2, <2>2
  <2> QED
    BY <2>3, <2>4 DEF save
<1> HIDE DEF list
<1>10. TypeInv' /\ SoundInv' /\ MarkInv' /\ SentInv' /\ LockInv'
  <2> DEFINE numbers == taken[p]
             table == index[p]
  <2>1. /\ taken' = [taken EXCEPT ![p] = numbers] /\ index' = [index EXCEPT ![p] = table]
        /\ numbers \in SUBSET Nat /\ IsFiniteSet(numbers) /\ table \in Tables
    BY <1>1 DEF IInv, TypeInv
  <2>2. UNCHANGED <<saving, disk, lockFile, cloud, minted, wiped>> /\ adopted' \in SUBSET Proc
    BY <1>1 DEF IInv, TypeInv
  <2> HIDE DEF numbers, table
  <2> QED
    BY <1>1, <1>8, <1>9, <2>1, <2>2, QuietCall
<1>11. IndexIsRight'
  <2>1. \A q \in Proc \ {p} : mem'[q] = mem[q] /\ index'[q] = index[q] /\ (q \in adopted => q \in adopted')
    BY <1>1 DEF IInv, TypeInv, Become
  <2>2. p \in adopted'
    BY <1>1
  <2> QED
    BY <2>1, <2>2, OthersFindTheirs
<1> QED
  BY <1>10, <1>11 DEF IInv

-----------------------------------------------------------------------------
(* Wipes.                                                                   *)

\* A wipe leaves nothing but a marked memory and a marked save; it makes a new lock file
\* (clear_history).
LEMMA WipeKeeps ==
  ASSUME IInv, NEW p \in Proc, Wipe(p)
  PROVE  IInv'
<1> DEFINE save == Save(TRUE, Tombstone, {})
           list == <<save>>
<1>1. /\ mem[p] # NoFile /\ saves[p] = <<>> /\ lockFile < MaxWipes
      /\ Become(p, Tombstone)
      /\ taken' = [taken EXCEPT ![p] = {}]
      /\ index' = [index EXCEPT ![p] = <<>>]
      /\ disk' = NoFile /\ lockFile' = lockFile + 1
      /\ ToSave(p, list)
      /\ adopted' = adopted \ {p} /\ wiped' = {}
      /\ UNCHANGED <<saving, cloud, minted>>
  BY DEF Wipe, Cleared, Free
<1>2. Tombstone \in History /\ Tombstone.steps = <<>> /\ Tombstone.migrated /\ Marked(Tombstone)
  BY NoSteps DEF Marked
<1>3. save \in Saves /\ save.history = Tombstone /\ save.pushed = {}
  BY <1>2, TRUE \in BOOLEAN, QuietSaveFacts, Zenon
<1> HIDE DEF save
<1>4. list \in Seq(Saves) /\ DOMAIN list = {1} /\ list[1] = save /\ list # <<>>
  BY <1>3
<1> HIDE DEF list
<1>5. /\ mem' \in [Proc -> History \cup {NoFile}] /\ mem'[p] = Tombstone
      /\ saves' \in [Proc -> Seq(Saves)] /\ saves'[p] = list
      /\ index'[p] = <<>>
      /\ \A q \in Proc \ {p} : mem'[q] = mem[q] /\ saves'[q] = saves[q] /\ index'[q] = index[q]
  BY <1>1, <1>2, <1>4 DEF IInv, TypeInv, Become, ToSave
<1>6. stage' = stage /\ lock' = lock /\ read' = read /\ cloud' = cloud /\ minted' = minted
  BY <1>1 DEF saving
<1>7. Known' = Known
  BY <1>6 DEF Known, EverSeen
<1>8. TypeInv'
  <2>1. {} \in SUBSET Nat /\ IsFiniteSet({})
    BY FS_EmptySet
  <2>2. <<>> \in Tables
    <3>1. <<>> \in [{} -> Nat]
      OBVIOUS
    <3> QED
      BY <3>1 DEF Tables
  <2>3. lockFile' \in 0 .. MaxWipes /\ minted' \in minted .. MaxMinted
    BY <1>1, ThinkAssumption DEF IInv, TypeInv
  <2>4. adopted' \in SUBSET Proc /\ wiped' \in SUBSET wiped /\ disk' \in History \cup {NoFile}
    BY <1>1 DEF IInv, TypeInv
  <2>5. TypeInv /\ UNCHANGED <<saving, cloud>>
    BY <1>1 DEF IInv
  <2> QED
    BY <1>1, <1>2, <1>4, <2>1, <2>2, <2>3, <2>4, <2>5, CallTypes
<1>9. SoundInv'
  <2>1. \A s : Sound(s, Known, wiped) => Sound(s, Known', wiped')
    BY <1>1, <1>7 DEF Sound
  <2>2. \A known, gone : Sound(<<>>, known, gone)
    BY NoSteps
  <2>3. Sound(StepsOf(disk'), Known', wiped')
    BY <1>1, <2>2, NoSteps
  <2>4. ASSUME NEW q \in Proc
        PROVE  /\ Sound(StepsOf(mem'[q]), Known', wiped')
               /\ Sound(StepsOf(read'[q]), Known', wiped')
               /\ \A i \in DOMAIN saves'[q] : Sound(saves'[q][i].history.steps, Known', wiped')
    <3>1. Sound(StepsOf(read'[q]), Known', wiped')
      BY <1>6, <2>1 DEF IInv, SoundInv
    <3>2. CASE q = p
      <4>1. StepsOf(mem'[q]) = <<>>
        BY <3>2, <1>2, <1>5, StepsOfHistory
      <4> QED
        BY <3>1, <3>2, <4>1, <1>2, <1>3, <1>4, <1>5, <2>2
    <3>3. CASE q # p
      <4>1. mem'[q] = mem[q] /\ saves'[q] = saves[q]
        BY <3>3, <1>5
      <4> QED
        BY <3>1, <4>1, <2>1 DEF IInv, SoundInv
    <3> QED
      BY <3>2, <3>3
  <2> QED
    BY <2>3, <2>4 DEF SoundInv
<1>10. MarkInv'
  <2>1. ASSUME NEW q \in Proc
        PROVE  /\ mem'[q] # NoFile => Marked(mem'[q])
               /\ \A i \in DOMAIN saves'[q] : Marked(saves'[q][i].history)
    <3>1. CASE q = p
      BY <3>1, <1>2, <1>3, <1>4, <1>5
    <3>2. CASE q # p
      <4>1. mem'[q] = mem[q] /\ saves'[q] = saves[q]
        BY <3>2, <1>5
      <4> QED
        BY <4>1 DEF IInv, MarkInv
    <3> QED
      BY <3>1, <3>2
  <2> QED
    BY <2>1, <1>1 DEF MarkInv, Marked
<1>11. SentInv'
  <2>1. \A q \in Proc : \A i \in DOMAIN saves'[q] : Pushes(saves'[q][i])
    <3>1. \A q \in Proc \ {p} : \A i \in DOMAIN saves'[q] : Pushes(saves'[q][i])
      BY <1>5 DEF IInv, SentInv
    <3>2. IsFiniteSet({})
      BY FS_EmptySet
    <3>3. \A i \in DOMAIN saves'[p] : Pushes(saves'[p][i])
      BY <3>2, <1>3, <1>4, <1>5 DEF Pushes
    <3> QED
      BY <3>1, <3>3
  <2>2. (\A s \in cloud' : s.id \in Known' \ wiped') /\ IsFiniteSet(cloud')
    BY <1>1, <1>6, <1>7 DEF IInv, SentInv
  <2> QED
    BY <2>1, <2>2 DEF SentInv
<1>12. LockInv'
  <2>1. lockFile' > 0 /\ \A q \in Proc : lock[q] <= lockFile'
    BY <1>1 DEF IInv, TypeInv, LockInv
  <2>2. ASSUME NEW q \in Proc
        PROVE  /\ saves'[q] # <<>> => mem'[q] # NoFile
               /\ stage[q] # "none" => saves'[q] # <<>>
    <3>1. Tombstone # NoFile
      BY <1>2, StepsOfHistory
    <3> QED
      BY <3>1, <1>4, <1>5 DEF IInv, LockInv
  <2> QED
    BY <2>1, <2>2, <1>6 DEF IInv, LockInv
<1>13. IndexIsRight'
  <2>1. IndexOf(<<>>) = <<>>
    BY DEF IndexOf, Numbers
  <2>2. \A q \in Proc \ {p} : q \in adopted => q \in adopted'
    BY <1>1
  <2> QED
    BY <1>2, <1>5, <2>1, <2>2, OthersFindTheirs
<1> QED
  BY <1>8, <1>9, <1>10, <1>11, <1>12, <1>13 DEF IInv

-----------------------------------------------------------------------------
(* Saves.                                                                   *)

LEMMA OpenLockKeeps ==
  ASSUME IInv, NEW p \in Proc, OpenLock(p)
  PROVE  IInv'
<1>1. /\ saves[p] # <<>> /\ stage[p] = "none"
      /\ stage' = [stage EXCEPT ![p] = "opened"]
      /\ lock' = [lock EXCEPT ![p] = lockFile]
      /\ UNCHANGED <<mem, taken, index, saves, read, disk, lockFile, cloud, minted, adopted, wiped>>
  BY DEF OpenLock
<1>2. Known' = Known /\ EverSeen' = EverSeen
  BY <1>1 DEF Known, EverSeen
<1>3. TypeInv'
  <2>1. lock' \in [Proc -> 0 .. MaxWipes] /\ stage' \in [Proc -> {"none", "opened", "locked"}]
    BY <1>1 DEF IInv, TypeInv
  <2> QED
    BY <1>1, <1>2, <2>1 DEF IInv, TypeInv
<1>4. SoundInv' /\ MarkInv' /\ SentInv' /\ IndexIsRight'
  BY <1>1, <1>2 DEF IInv, SoundInv, MarkInv, SentInv, IndexIsRight, Marked
<1>5. LockInv'
  <2>1. /\ stage'[p] = "opened" /\ lock'[p] = lockFile /\ lockFile <= lockFile
        /\ \A q \in Proc \ {p} : stage'[q] = stage[q] /\ lock'[q] = lock[q]
    BY <1>1, ThinkAssumption DEF IInv, TypeInv
  <2>2. ASSUME NEW q \in Proc
        PROVE  /\ saves[q] # <<>> => mem[q] # NoFile
               /\ stage'[q] # "none" => saves[q] # <<>>
               /\ lock'[q] <= lockFile
               /\ stage'[q] = "locked" /\ lockFile = 0 => HasRead(read[q])
    <3>1. CASE q = p
      BY <3>1, <2>1, <1>1 DEF IInv, LockInv
    <3>2. CASE q # p
      BY <3>2, <2>1 DEF IInv, LockInv
    <3> QED
      BY <3>1, <3>2
  <2>3. \A q, r \in Proc : q # r /\ stage'[q] = "locked" /\ stage'[r] = "locked" => lock'[q] # lock'[r]
    BY <2>1 DEF IInv, LockInv
  <2> QED
    BY <1>1, <2>2, <2>3 DEF LockInv, HasRead
<1> QED
  BY <1>3, <1>4, <1>5 DEF IInv

\* A save waits for those that hold the same lock file, and has the file, or nothing
\* (LockAndRead, ReadFails).
LEMMA LockAndReadKeeps ==
  ASSUME IInv, NEW p \in Proc, NEW found \in {disk, NoFile}, HasRead(found), Locked(p, found)
  PROVE  IInv'
<1>1. /\ stage[p] = "opened"
      /\ \A q \in Proc : stage[q] = "locked" => lock[q] # lock[p]
      /\ stage' = [stage EXCEPT ![p] = "locked"]
      /\ read' = [read EXCEPT ![p] = found]
      /\ UNCHANGED <<mem, taken, index, saves, lock, disk, lockFile, cloud, minted, adopted, wiped>>
  BY DEF Locked, MayLock
<1>2. Known' = Known /\ EverSeen' = EverSeen
  BY <1>1 DEF Known, EverSeen
<1>3. /\ stage'[p] = "locked" /\ read'[p] = found
      /\ \A q \in Proc \ {p} : stage'[q] = stage[q] /\ read'[q] = read[q]
  BY <1>1 DEF IInv, TypeInv
<1>4. TypeInv'
  <2>1. read' \in [Proc -> History \cup {NoFile}] /\ stage' \in [Proc -> {"none", "opened", "locked"}]
    BY <1>1 DEF IInv, TypeInv
  <2> QED
    BY <1>1, <1>2, <2>1 DEF IInv, TypeInv
<1>5. SoundInv'
  <2>1. \A q \in Proc : read'[q] = disk \/ read'[q] = read[q] \/ read'[q] = NoFile
    BY <1>3
  <2>2. \A q \in Proc : Sound(StepsOf(read'[q]), Known, wiped)
    BY <2>1, NoSteps DEF IInv, SoundInv
  <2> QED
    BY <1>1, <1>2, <2>2 DEF IInv, SoundInv
<1>6. MarkInv' /\ SentInv' /\ IndexIsRight'
  BY <1>1, <1>2 DEF IInv, MarkInv, SentInv, IndexIsRight, Marked
<1>7. LockInv'
  <2>1. ASSUME NEW q \in Proc
        PROVE  /\ saves[q] # <<>> => mem[q] # NoFile
               /\ stage'[q] # "none" => saves[q] # <<>>
               /\ lock[q] <= lockFile
               /\ stage'[q] = "locked" /\ lockFile = 0 => HasRead(read'[q])
    <3>1. CASE q = p
      BY <3>1, <1>1, <1>3 DEF IInv, LockInv
    <3>2. CASE q # p
      BY <3>2, <1>3 DEF IInv, LockInv
    <3> QED
      BY <3>1, <3>2
  <2>2. \A q, r \in Proc : q # r /\ stage'[q] = "locked" /\ stage'[r] = "locked" => lock[q] # lock[r]
    BY <1>1, <1>3 DEF IInv, LockInv
  <2> QED
    BY <1>1, <2>1, <2>2 DEF LockInv, HasRead
<1> QED
  BY <1>4, <1>5, <1>6, <1>7 DEF IInv

\* What a save writes: what it came with, and what it merges from the file.
LEMMA WrittenFacts ==
  ASSUME IInv, NEW p \in Proc, stage[p] = "locked"
  PROVE  /\ saves[p] \in Seq(Saves) /\ saves[p] # <<>>
         /\ Head(saves[p]) = saves[p][1] /\ 1 \in DOMAIN saves[p]
         /\ Written(p) \in History
         /\ Sound(Written(p).steps, Known, wiped)
         /\ Marked(Written(p))
         /\ Ids(Head(saves[p]).history.steps) \subseteq Ids(Written(p).steps)
<1> DEFINE save == Head(saves[p])
           h == save.history
<1>1. saves[p] \in Seq(Saves) /\ saves[p] # <<>>
  BY DEF IInv, TypeInv, LockInv
<1>2. save = saves[p][1] /\ 1 \in DOMAIN saves[p] /\ save \in Saves
  BY <1>1
<1>3. h \in History /\ Sound(h.steps, Known, wiped) /\ Marked(h)
  BY <1>2 DEF Saves, IInv, SoundInv, MarkInv
<1>4. Written(p) = IF save.replace \/ read[p] = NoFile THEN h ELSE MergeHistories(h, read[p])
  BY DEF Written
<1> HIDE DEF h, save
<1>5. CASE save.replace \/ read[p] = NoFile
  <2>1. Written(p) = h
    BY <1>4, <1>5
  <2> QED
    BY <1>1, <1>2, <1>3, <2>1 DEF save, h
<1>6. CASE ~(save.replace \/ read[p] = NoFile)
  <2> DEFINE merged == MergeHistories(h, read[p])
  <2>1. Written(p) = merged
    BY <1>4, <1>6
  <2>2. read[p] \in History
    BY <1>6 DEF IInv, TypeInv
  <2>3. Sound(read[p].steps, Known, wiped)
    BY <2>2, StepsOfHistory DEF IInv, SoundInv
  <2>4. merged \in History /\ merged.migrated = h.migrated /\ Ids(h.steps) \subseteq Ids(merged.steps)
    BY <1>3, <2>2, MergeFacts
  <2>5. Sound(merged.steps, Known, wiped)
    BY <1>3, <2>2, <2>3, MergedIsSound
  <2> HIDE DEF merged
  <2>6. Marked(merged)
    BY <1>3, <2>4 DEF Marked
  <2> QED
    BY <1>1, <1>2, <2>1, <2>4, <2>5, <2>6 DEF save, h
<1> QED
  BY <1>5, <1>6

\* A server's saves when the first of them is over.
LEMMA RestFacts ==
  ASSUME NEW list \in Seq(Saves), list # <<>>
  PROVE  /\ Tail(list) \in Seq(Saves)
         /\ \A i \in DOMAIN Tail(list) : i + 1 \in DOMAIN list /\ Tail(list)[i] = list[i + 1]
OBVIOUS

\* What a save leaves on file: sound steps, marked, or the file as it was.
LEMMA LeftOnFile ==
  ASSUME IInv, NEW p \in Proc, Rename(p) \/ SaveFails(p)
  PROVE  /\ disk' \in History \cup {NoFile} /\ Sound(StepsOf(disk'), Known, wiped)
         /\ \/ disk' # NoFile /\ Marked(disk') /\ stage[p] = "locked"
            \/ disk' = disk /\ wiped' = wiped
         /\ wiped' = wiped \/ (disk' = Tombstone /\ wiped' = (wiped \cup EverSeen) \ Held')
<1>1. CASE Rename(p)
  <2>1. stage[p] = "locked" /\ disk' = Written(p)
    BY <1>1 DEF Rename
  <2>2. Written(p) \in History /\ Sound(Written(p).steps, Known, wiped) /\ Marked(Written(p))
    BY <2>1, WrittenFacts
  <2>3. wiped' = wiped \/ (disk' = Tombstone /\ wiped' = (wiped \cup EverSeen) \ Held')
    BY <1>1 DEF Rename
  <2> QED
    BY <2>1, <2>2, <2>3, StepsOfHistory
<1>2. CASE SaveFails(p)
  BY <1>2 DEF SaveFails, IInv, SoundInv, TypeInv
<1> QED
  BY <1>1, <1>2

\* A save that is over leaves sound steps on file and pushes one that is in them, whether
\* it could write or not; a tombstone is marked, and what nobody holds when it is written
\* is in no copy.
LEMMA SaveEndKeeps ==
  ASSUME IInv, NEW p \in Proc, Rename(p) \/ SaveFails(p)
  PROVE  IInv'
<1> DEFINE save == Head(saves[p])
           rest == Tail(saves[p])
<1>1. /\ cloud' = cloud \cup save.pushed
      /\ saves' = [saves EXCEPT ![p] = rest]
      /\ stage' = [stage EXCEPT ![p] = "none"]
      /\ lock' = [lock EXCEPT ![p] = 0]
      /\ read' = [read EXCEPT ![p] = NoFile]
      /\ UNCHANGED <<mem, taken, index, lockFile, minted, adopted>>
  BY DEF Rename, SaveFails, ToSave, Unlocked
<1>2. /\ saves[p] \in Seq(Saves) /\ saves[p] # <<>>
      /\ save = saves[p][1] /\ 1 \in DOMAIN saves[p]
  <2>1. saves[p] \in Seq(Saves) /\ saves[p] # <<>>
    BY DEF Rename, SaveFails, IInv, TypeInv, LockInv
  <2> QED
    BY <2>1
<1>3. /\ rest \in Seq(Saves)
      /\ \A i \in DOMAIN rest : i + 1 \in DOMAIN saves[p] /\ rest[i] = saves[p][i + 1]
  BY <1>2, RestFacts
<1>4. save.pushed \in SUBSET Step
  <2>1. saves[p][1] \in Saves
    BY <1>2
  <2> QED
    BY <1>2, <2>1 DEF Saves
<1>0. Pushes(save) /\ Sound(save.history.steps, Known, wiped)
  BY <1>2 DEF IInv, SentInv, SoundInv
<1> HIDE DEF save, rest
<1>5. /\ saves' \in [Proc -> Seq(Saves)] /\ saves'[p] = rest
      /\ stage'[p] = "none" /\ lock'[p] = 0 /\ read'[p] = NoFile
      /\ \A q \in Proc \ {p} : /\ saves'[q] = saves[q] /\ stage'[q] = stage[q]
                               /\ lock'[q] = lock[q] /\ read'[q] = read[q]
  BY <1>1, <1>3 DEF IInv, TypeInv
<1>6. Known' = Known /\ EverSeen' = EverSeen
  BY <1>1 DEF Known, EverSeen
<1>7. \A s \in cloud' : s.id \in Known \ wiped
  <2>1. \A s \in save.pushed : s.id \in Ids(save.history.steps)
    BY <1>0 DEF Pushes
  <2>2. \A s \in save.pushed : s.id \in Known \ wiped
    BY <1>0, <2>1 DEF Sound
  <2> QED
    BY <1>1, <2>2 DEF IInv, SentInv
<1>8. /\ disk' \in History \cup {NoFile} /\ Sound(StepsOf(disk'), Known, wiped)
      /\ \/ disk' # NoFile /\ Marked(disk') /\ stage[p] = "locked"
         \/ disk' = disk /\ wiped' = wiped
      /\ wiped' = wiped \/ (disk' = Tombstone /\ wiped' = (wiped \cup EverSeen) \ Held')
  BY LeftOnFile
<1>9. \A q \in Proc : /\ Sound(StepsOf(mem[q]), Known, wiped)
                       /\ Sound(StepsOf(read'[q]), Known, wiped)
                       /\ \A i \in DOMAIN saves'[q] : Sound(saves'[q][i].history.steps, Known, wiped)
  <2> SUFFICES ASSUME NEW q \in Proc
               PROVE  /\ Sound(StepsOf(read'[q]), Known, wiped)
                      /\ \A i \in DOMAIN saves'[q] : Sound(saves'[q][i].history.steps, Known, wiped)
    BY DEF IInv, SoundInv
  <2>1. CASE q = p
    <3>1. Sound(StepsOf(read'[q]), Known, wiped)
      BY <2>1, <1>5, NoSteps
    <3>2. \A i \in DOMAIN rest : Sound(rest[i].history.steps, Known, wiped)
      BY <1>3 DEF IInv, SoundInv
    <3> QED
      BY <2>1, <3>1, <3>2, <1>5
  <2>2. CASE q # p
    BY <2>2, <1>5 DEF IInv, SoundInv
  <2> QED
    BY <2>1, <2>2
\* What is gone from now on is nowhere.
<1>10. /\ wiped' \in SUBSET EverSeen
       /\ Ids(StepsOf(disk')) \cap wiped' = {}
       /\ \A s \in cloud' : s.id \notin wiped'
       /\ \A q \in Proc : /\ Ids(StepsOf(mem[q])) \cap wiped' = {}
                          /\ Ids(StepsOf(read'[q])) \cap wiped' = {}
                          /\ \A i \in DOMAIN saves'[q] : Ids(saves'[q][i].history.steps) \cap wiped' = {}
  <2>1. CASE disk' = Tombstone /\ wiped' = (wiped \cup EverSeen) \ Held'
    <3> DEFINE Of(q) == Ids(StepsOf(mem'[q])) \cup Ids(StepsOf(read'[q]))
                          \cup UNION {Ids(saves'[q][i].history.steps) : i \in DOMAIN saves'[q]}
    <3>1. wiped' = (wiped \cup EverSeen) \ Held' /\ Ids(StepsOf(disk')) = {}
      BY <2>1, NoSteps, StepsOfHistory
    <3>2. wiped' \cap Held' = {} /\ wiped' \in SUBSET EverSeen
      BY <3>1 DEF IInv, TypeInv
    <3>3. Held' = {s.id : s \in cloud'} \cup UNION {Of(q) : q \in Proc}
      BY DEF Held
    <3>4. /\ \A s \in cloud' : s.id \in Held'
          /\ \A q \in Proc : Of(q) \subseteq Held'
      <4> HIDE DEF Of
      <4> QED
        BY <3>3
    <3>5. \A q \in Proc : /\ Ids(StepsOf(mem'[q])) \subseteq Of(q) /\ Ids(StepsOf(read'[q])) \subseteq Of(q)
                          /\ \A i \in DOMAIN saves'[q] : Ids(saves'[q][i].history.steps) \subseteq Of(q)
      OBVIOUS
    <3>6. \A q \in Proc : mem'[q] = mem[q]
      BY <1>1
    <3> HIDE DEF Of
    <3> QED
      BY <3>1, <3>2, <3>4, <3>5, <3>6
  <2>2. CASE wiped' = wiped
    BY <2>2, <1>7, <1>8, <1>9 DEF Sound, IInv, TypeInv
  <2> QED
    BY <2>1, <2>2, <1>8
<1>11. TypeInv'
  <2>1. /\ stage' \in [Proc -> {"none", "opened", "locked"}]
        /\ lock' \in [Proc -> 0 .. MaxWipes]
        /\ read' \in [Proc -> History \cup {NoFile}]
    BY <1>1, ThinkAssumption DEF IInv, TypeInv
  <2>2. cloud' \in SUBSET Step
    BY <1>1, <1>4 DEF IInv, TypeInv
  <2> QED
    BY <1>1, <1>5, <1>6, <1>8, <1>10, <2>1, <2>2 DEF IInv, TypeInv
<1>12. SoundInv'
  <2>1. \A s : Sound(s, Known, wiped) /\ Ids(s) \cap wiped' = {} => Sound(s, Known', wiped')
    BY <1>6 DEF Sound
  <2>2. Sound(StepsOf(disk'), Known', wiped')
    BY <1>8, <1>10, <2>1
  <2>3. \A q \in Proc : mem'[q] = mem[q]
    BY <1>1
  <2>4. ASSUME NEW q \in Proc
        PROVE  /\ Sound(StepsOf(mem'[q]), Known', wiped')
               /\ Sound(StepsOf(read'[q]), Known', wiped')
               /\ \A i \in DOMAIN saves'[q] : Sound(saves'[q][i].history.steps, Known', wiped')
    BY <1>9, <1>10, <2>1, <2>3
  <2> QED
    BY <2>2, <2>4 DEF SoundInv
<1>13. MarkInv'
  <2>1. \A q \in Proc : \A i \in DOMAIN saves'[q] : Marked(saves'[q][i].history)
    <3> SUFFICES ASSUME NEW q \in Proc, NEW i \in DOMAIN saves'[q]
                 PROVE  Marked(saves'[q][i].history)
      OBVIOUS
    <3>1. CASE q = p
      BY <3>1, <1>3, <1>5 DEF IInv, MarkInv
    <3>2. CASE q # p
      BY <3>2, <1>5 DEF IInv, MarkInv
    <3> QED
      BY <3>1, <3>2
  <2>2. \A q \in Proc : mem[q] # NoFile => Marked(mem[q])
    BY DEF IInv, MarkInv
  <2>3. wiped' # {} => disk' # NoFile /\ Marked(disk')
    BY <1>8 DEF IInv, MarkInv
  <2> QED
    BY <1>1, <2>1, <2>2, <2>3 DEF MarkInv, Marked
<1>14. SentInv'
  <2>1. \A q \in Proc : \A i \in DOMAIN saves'[q] : Pushes(saves'[q][i])
    <3> SUFFICES ASSUME NEW q \in Proc, NEW i \in DOMAIN saves'[q]
                 PROVE  Pushes(saves'[q][i])
      OBVIOUS
    <3>1. CASE q = p
      BY <3>1, <1>3, <1>5 DEF IInv, SentInv
    <3>2. CASE q # p
      BY <3>2, <1>5 DEF IInv, SentInv
    <3> QED
      BY <3>1, <3>2
  <2>2. IsFiniteSet(cloud')
    <3>1. IsFiniteSet(cloud) /\ IsFiniteSet(save.pushed)
      BY <1>0 DEF IInv, SentInv, Pushes
    <3> QED
      BY <1>1, <3>1, FS_Union
  <2>3. \A s \in cloud' : s.id \in Known' \ wiped'
    BY <1>6, <1>7, <1>10
  <2> QED
    BY <2>1, <2>2, <2>3 DEF SentInv
<1>15. LockInv'
  <2>1. lockFile \in 0 .. MaxWipes /\ \A q \in Proc : lock[q] \in 0 .. MaxWipes /\ lock[q] <= lockFile
    BY DEF IInv, TypeInv, LockInv
  <2>2. MaxWipes \in Nat
    BY ThinkAssumption
  <2>3. ASSUME NEW q \in Proc
        PROVE  /\ saves'[q] # <<>> => mem[q] # NoFile
               /\ stage'[q] # "none" => saves'[q] # <<>>
               /\ lock'[q] <= lockFile
               /\ stage'[q] = "locked" /\ lockFile = 0 => HasRead(read[q])'
    <3>1. CASE q = p
      <4>1. mem[p] # NoFile
        BY <1>2 DEF IInv, LockInv
      <4>2. 0 <= lockFile
        BY <2>1, <2>2
      <4> QED
        BY <3>1, <4>1, <4>2, <1>5
    <3>2. CASE q # p
      <4>1. lockFile = 0 => lock[q] = 0 /\ lock[p] = 0
        BY <2>1, <2>2
      <4>2. stage[q] = "locked" /\ lockFile = 0 => disk' = disk
        BY <3>2, <4>1, <1>8 DEF IInv, LockInv
      <4>3. stage[q] = "locked" /\ lockFile = 0 => HasRead(read[q])
        BY DEF IInv, LockInv
      <4>4. /\ saves'[q] = saves[q] /\ stage'[q] = stage[q] /\ lock'[q] = lock[q] /\ read'[q] = read[q]
            /\ saves[q] # <<>> => mem[q] # NoFile
            /\ stage[q] # "none" => saves[q] # <<>>
        BY <3>2, <1>5 DEF IInv, LockInv
      <4> QED
        BY <2>1, <4>2, <4>3, <4>4 DEF HasRead
    <3> QED
      BY <3>1, <3>2
  <2>4. \A q, r \in Proc : q # r /\ stage'[q] = "locked" /\ stage'[r] = "locked" => lock'[q] # lock'[r]
    <3>1. \A q, r \in Proc : q # r /\ stage[q] = "locked" /\ stage[r] = "locked" => lock[q] # lock[r]
      BY DEF IInv, LockInv
    <3>2. \A q \in Proc : stage'[q] = "locked" => stage[q] = "locked" /\ lock'[q] = lock[q]
      BY <1>5
    <3> QED
      BY <3>1, <3>2
  <2> QED
    BY <1>1, <2>3, <2>4 DEF LockInv
<1>16. IndexIsRight'
  BY <1>1 DEF IInv, IndexIsRight
<1> QED
  BY <1>11, <1>12, <1>13, <1>14, <1>15, <1>16 DEF IInv

\* A server that dies takes its memory, its saves and its lock with it.
LEMMA CrashKeeps ==
  ASSUME IInv, NEW p \in Proc, Crash(p)
  PROVE  IInv'
<1>1. /\ mem' = [mem EXCEPT ![p] = NoFile]
      /\ taken' = [taken EXCEPT ![p] = {}]
      /\ index' = [index EXCEPT ![p] = <<>>]
      /\ saves' = [saves EXCEPT ![p] = <<>>]
      /\ stage' = [stage EXCEPT ![p] = "none"]
      /\ lock' = [lock EXCEPT ![p] = 0]
      /\ read' = [read EXCEPT ![p] = NoFile]
      /\ adopted' = adopted \ {p}
      /\ UNCHANGED <<disk, lockFile, cloud, minted, wiped>>
  BY DEF Crash, Become, ToSave, Unlocked
<1>2. /\ mem'[p] = NoFile /\ saves'[p] = <<>> /\ stage'[p] = "none" /\ lock'[p] = 0 /\ read'[p] = NoFile
      /\ \A q \in Proc \ {p} : /\ mem'[q] = mem[q] /\ saves'[q] = saves[q] /\ stage'[q] = stage[q]
                               /\ lock'[q] = lock[q] /\ read'[q] = read[q] /\ index'[q] = index[q]
      /\ DOMAIN saves' = Proc
  BY <1>1 DEF IInv, TypeInv
<1>3. Known' = Known /\ EverSeen' = EverSeen
  BY <1>1 DEF Known, EverSeen
<1>4. DOMAIN saves'[p] = {}
  BY <1>2
<1>5. TypeInv'
  <2>1. /\ mem' \in [Proc -> History \cup {NoFile}] /\ read' \in [Proc -> History \cup {NoFile}]
        /\ stage' \in [Proc -> {"none", "opened", "locked"}] /\ lock' \in [Proc -> 0 .. MaxWipes]
    BY <1>1, ThinkAssumption DEF IInv, TypeInv
  <2>2. taken' \in [Proc -> SUBSET Nat] /\ \A q \in Proc : IsFiniteSet(taken'[q])
    <3>1. \A q \in Proc : taken'[q] = {} \/ taken'[q] = taken[q]
      BY <1>1 DEF IInv, TypeInv
    <3>2. IsFiniteSet({})
      BY FS_EmptySet
    <3> QED
      BY <1>1, <3>1, <3>2 DEF IInv, TypeInv
  <2>3. index' \in [Proc -> Tables]
    <3>1. <<>> \in [{} -> Nat]
      OBVIOUS
    <3>2. <<>> \in Tables
      BY <3>1 DEF Tables
    <3> QED
      BY <1>1, <3>2 DEF IInv, TypeInv
  <2>4. saves' \in [Proc -> Seq(Saves)]
    <3>1. <<>> \in Seq(Saves)
      OBVIOUS
    <3> QED
      BY <1>1, <3>1 DEF IInv, TypeInv
  <2> QED
    BY <1>1, <1>3, <2>1, <2>2, <2>3, <2>4 DEF IInv, TypeInv
<1>6. SoundInv'
  <2>1. \A q \in Proc : /\ Sound(StepsOf(mem'[q]), Known, wiped)
                        /\ Sound(StepsOf(read'[q]), Known, wiped)
                        /\ \A i \in DOMAIN saves'[q] : Sound(saves'[q][i].history.steps, Known, wiped)
    <3> SUFFICES ASSUME NEW q \in Proc
                 PROVE  /\ Sound(StepsOf(mem'[q]), Known, wiped)
                        /\ Sound(StepsOf(read'[q]), Known, wiped)
                        /\ \A i \in DOMAIN saves'[q] : Sound(saves'[q][i].history.steps, Known, wiped)
      OBVIOUS
    <3>1. CASE q = p
      BY <3>1, <1>2, <1>4, NoSteps
    <3>2. CASE q # p
      BY <3>2, <1>2 DEF IInv, SoundInv
    <3> QED
      BY <3>1, <3>2
  <2> QED
    BY <1>1, <1>3, <2>1 DEF IInv, SoundInv
<1>7. MarkInv'
  <2>1. \A q \in Proc : /\ mem'[q] # NoFile => Marked(mem'[q])
                        /\ \A i \in DOMAIN saves'[q] : Marked(saves'[q][i].history)
    BY <1>2, <1>4 DEF IInv, MarkInv
  <2> QED
    BY <1>1, <2>1 DEF IInv, MarkInv, Marked
<1>8. SentInv'
  <2>1. \A q \in Proc : \A i \in DOMAIN saves'[q] : Pushes(saves'[q][i])
    BY <1>2, <1>4 DEF IInv, SentInv
  <2> QED
    BY <1>1, <1>3, <2>1 DEF IInv, SentInv
<1>9. LockInv'
  <2>1. 0 <= lockFile
    BY ThinkAssumption DEF IInv, TypeInv
  <2>2. ASSUME NEW q \in Proc
        PROVE  /\ saves'[q] # <<>> => mem'[q] # NoFile
               /\ stage'[q] # "none" => saves'[q] # <<>>
               /\ lock'[q] <= lockFile
               /\ stage'[q] = "locked" /\ lockFile = 0 => HasRead(read'[q])
    <3>1. CASE q = p
      BY <3>1, <2>1, <1>2
    <3>2. CASE q # p
      BY <3>2, <1>2 DEF IInv, LockInv
    <3> QED
      BY <3>1, <3>2
  <2>3. \A q, r \in Proc : q # r /\ stage'[q] = "locked" /\ stage'[r] = "locked" => lock'[q] # lock'[r]
    BY <1>2 DEF IInv, LockInv
  <2> QED
    BY <1>1, <2>2, <2>3 DEF LockInv, HasRead
<1>10. IndexIsRight'
  BY <1>1, <1>2, OthersFindTheirs
<1> QED
  BY <1>5, <1>6, <1>7, <1>8, <1>9, <1>10 DEF IInv

-----------------------------------------------------------------------------
(* Theorems.                                                                *)

LEMMA NextKeepsIInv == IInv /\ [Next]_vars => IInv'
<1> SUFFICES ASSUME IInv, [Next]_vars PROVE IInv'
  OBVIOUS
<1>1. CASE UNCHANGED vars
  <2>1. /\ Known' = Known /\ EverSeen' = EverSeen
        /\ UNCHANGED <<mem, taken, index, saves, stage, lock, read, disk, lockFile, cloud, minted,
                       adopted, wiped>>
    BY <1>1 DEF vars, Known, EverSeen
  <2>2. TypeInv' /\ LockInv' /\ IndexIsRight'
    BY <2>1 DEF IInv, TypeInv, LockInv, IndexIsRight, HasRead
  <2>3. SoundInv' /\ MarkInv' /\ SentInv'
    BY <2>1 DEF IInv, SoundInv, MarkInv, Marked, SentInv
  <2> QED
    BY <2>2, <2>3 DEF IInv
<1>2. ASSUME NEW p \in Proc, NEW n \in Asked \cup {0}, Record(p, n) \/ Revise(p, n)
      PROVE  IInv'
  BY <1>2, RecordKeeps
<1>3. ASSUME NEW p \in Proc, Resave(p)
      PROVE  IInv'
  BY <1>3, ResaveKeeps
<1>4. ASSUME NEW p \in Proc, NEW pulled \in SUBSET cloud, Adopt(p, pulled)
      PROVE  IInv'
  BY <1>4, AdoptKeeps
<1>5. ASSUME NEW p \in Proc, Wipe(p)
      PROVE  IInv'
  BY <1>5, WipeKeeps
<1>6. ASSUME NEW p \in Proc, Boot(p)
      PROVE  IInv'
  BY <1>6, BootKeeps
<1>7. ASSUME NEW p \in Proc, Crash(p)
      PROVE  IInv'
  BY <1>7, CrashKeeps
<1>8. ASSUME NEW p \in Proc, OpenLock(p)
      PROVE  IInv'
  BY <1>8, OpenLockKeeps
<1>9. ASSUME NEW p \in Proc, LockAndRead(p) \/ ReadFails(p)
      PROVE  IInv'
  <2>1. PICK found \in {disk, NoFile} : HasRead(found) /\ Locked(p, found)
    BY <1>9 DEF LockAndRead, ReadFails, HasRead
  <2> QED
    BY <2>1, LockAndReadKeeps
<1>10. ASSUME NEW p \in Proc, Rename(p) \/ SaveFails(p)
       PROVE  IInv'
  BY <1>10, SaveEndKeeps
<1> QED
  BY <1>1, <1>2, <1>3, <1>4, <1>5, <1>6, <1>7, <1>8, <1>9, <1>10 DEF Next

\* The inductive invariant holds in every reachable state.
THEOREM Invariance == Spec => []IInv
<1>1. Init => IInv
  BY InitIInv
<1>2. IInv /\ [Next]_vars => IInv'
  BY NextKeepsIInv
<1> QED
  BY <1>1, <1>2, PTL DEF Spec

\* The variables keep their types.
THEOREM TypeCorrect == Spec => []TypeOK
<1>1. IInv => TypeOK
  <2> SUFFICES ASSUME IInv PROVE TypeOK
    OBVIOUS
  <2>1. ASSUME NEW p \in Proc
        PROVE  /\ taken[p] \subseteq Nat
               /\ DOMAIN index[p] \subseteq Nat /\ Range(index[p]) \subseteq Nat
               /\ saves[p] \in Seq([replace : BOOLEAN, history : History, pushed : SUBSET Step])
    <3>1. taken[p] \subseteq Nat /\ saves[p] \in Seq(Saves) /\ index[p] \in Tables
      BY DEF IInv, TypeInv
    <3>2. PICK S \in SUBSET Nat : index[p] \in [S -> Nat]
      BY <3>1 DEF Tables
    <3>3. DOMAIN index[p] \subseteq Nat /\ Range(index[p]) \subseteq Nat
      BY <3>2 DEF Range
    <3> QED
      BY <3>1, <3>3 DEF Saves
  <2> QED
    BY <2>1 DEF IInv, TypeInv, TypeOK
<1> QED
  BY <1>1, Invariance, PTL

\* However start-ups renumber what other servers still hold under the old numbers, and
\* whatever clones the cloud holds and a pull brings, no step comes to be in a memory or on
\* file twice (merge_histories, adopt_steps, dedupe_project_clones,
\* renumber_project_for_uniqueness).
THEOREM StepsAreNeverCloned == Spec => []NoNewClones
<1>1. IInv => NoNewClones
  <2> SUFFICES ASSUME IInv PROVE NoNewClones
    OBVIOUS
  <2>1. Sound(StepsOf(disk), Known, wiped) /\ \A p \in Proc : Sound(StepsOf(mem[p]), Known, wiped)
    BY DEF IInv, SoundInv
  <2> QED
    BY <2>1 DEF NoNewClones, Sound, OldClones
<1> QED
  BY <1>1, Invariance, PTL

\* What a wipe left nowhere but in the legacy file is in no memory and not on file as long
\* as that wipe is the last one (clear_history, load_default).
THEOREM AWipeIsFinal == Spec => []WipedStaysWiped
<1>1. IInv => WipedStaysWiped
  <2> SUFFICES ASSUME IInv PROVE WipedStaysWiped
    OBVIOUS
  <2>1. Sound(StepsOf(disk), Known, wiped) /\ \A p \in Proc : Sound(StepsOf(mem[p]), Known, wiped)
    BY DEF IInv, SoundInv
  <2> QED
    BY <2>1 DEF WipedStaysWiped, Sound
<1> QED
  BY <1>1, Invariance, PTL

\* A server that has not adopted pulled steps since its start finds each step it holds
\* under its number (step_index, trim_history).
THEOREM StepsAreFound == Spec => []IndexIsRight
<1>1. IInv => IndexIsRight
  BY DEF IInv
<1> QED
  BY <1>1, Invariance, PTL

\* A step leaves the file by a wipe, by a save that gives its number to another, by one
\* that a start-up replaces the file with, by one that could not read the file, or, after
\* a wipe, by one that shared no lock with the save before it (locked_write,
\* merge_histories).
THEOREM ErasuresAreKnown == Spec => OnlyKnownErasures
<1> DEFINE Erased(step) ==
             \/ step.id \in Ids(StepsOf(disk'))
             \/ disk' = NoFile
             \/ \E p \in Proc :
                  /\ Writing(p)
                  /\ \/ Head(saves[p]).replace
                     \/ step.n \in Numbers(Head(saves[p]).history.steps)
                     \/ Blind(p)
<1>1. ASSUME IInv, Next, NEW i \in DOMAIN StepsOf(disk)
      PROVE  Erased(StepsOf(disk)[i])
  <2>1. CASE disk' = disk
    BY <1>1, <2>1 DEF Ids
  <2>2. CASE \E p \in Proc : Rename(p)
    <3>1. PICK p \in Proc : Rename(p)
      BY <2>2
    <3> DEFINE save == Head(saves[p])
               h == save.history
               step == StepsOf(disk)[i]
    <3>2. /\ stage[p] = "locked" /\ stage'[p] = "none" /\ mem'[p] = mem[p]
          /\ disk' = Written(p)
      BY <3>1, <1>1 DEF Rename, Unlocked, IInv, TypeInv
    <3>3. mem[p] # NoFile /\ (lockFile = 0 => HasRead(read[p]))
      BY <1>1, <3>2 DEF IInv, LockInv
    <3>4. Writing(p)
      BY <3>2, <3>3 DEF Writing
    <3>5. h \in History
      <4>1. saves[p] \in Seq(Saves) /\ save = saves[p][1] /\ 1 \in DOMAIN saves[p]
        BY <1>1, <3>2, WrittenFacts DEF IInv
      <4>2. save \in Saves
        BY <4>1
      <4> QED
        BY <4>2 DEF Saves
    <3>6. disk \in History /\ StepsOf(disk) = disk.steps
      <4>1. disk # NoFile
        BY <1>1 DEF StepsOf
      <4> QED
        BY <4>1, <1>1, StepsOfHistory DEF IInv, TypeInv
    <3>7. lockFile > 0 \/ lockFile = 0
      BY <1>1, ThinkAssumption DEF IInv, TypeInv
    <3>8. CASE ~save.replace /\ read[p] = disk
      <4> DEFINE merged == MergeHistories(h, disk)
      <4>1. disk' = merged
        BY <3>2, <3>6, <3>8, StepsOfHistory DEF Written
      <4>2. merged \in History /\ \/ disk.steps[i].n \in Numbers(h.steps)
                                  \/ disk.steps[i].id \in Ids(merged.steps)
        BY <1>1, <3>5, <3>6, MergeFacts
      <4>3. StepsOf(merged) = merged.steps
        BY <4>2, StepsOfHistory
      <4> HIDE DEF merged
      <4>4. step.n \in Numbers(h.steps) \/ step.id \in Ids(StepsOf(disk'))
        BY <3>6, <4>1, <4>2, <4>3
      <4> QED
        BY <3>4, <4>4
    <3>9. CASE save.replace \/ read[p] # disk
      BY <3>3, <3>4, <3>7, <3>9 DEF Blind, HasRead
    <3> QED
      BY <3>8, <3>9
  <2>3. disk' = disk \/ disk' = NoFile \/ \E p \in Proc : Rename(p)
    <3>1. ASSUME NEW p \in Proc, NEW n, Record(p, n) \/ Revise(p, n)
          PROVE  disk' = disk
      BY <3>1 DEF Record, Revise, Recorded
    <3>2. ASSUME NEW p \in Proc, NEW pulled, Adopt(p, pulled)
          PROVE  disk' = disk
      BY <3>2 DEF Adopt
    <3>3. ASSUME NEW p \in Proc, Resave(p) \/ Boot(p) \/ Crash(p) \/ OpenLock(p) \/ LockAndRead(p)
                         \/ ReadFails(p) \/ SaveFails(p)
          PROVE  disk' = disk
      BY <3>3 DEF Resave, Boot, Crash, OpenLock, LockAndRead, ReadFails, Locked, SaveFails
    <3>4. ASSUME NEW p \in Proc, Wipe(p)
          PROVE  disk' = NoFile
      BY <3>4 DEF Wipe, Cleared
    <3> QED
      BY <1>1, <3>1, <3>2, <3>3, <3>4 DEF Next
  <2> QED
    BY <2>1, <2>2, <2>3
<1>2. IInv /\ [Next]_vars => [\A i \in DOMAIN StepsOf(disk) : Erased(StepsOf(disk)[i])]_vars
  BY <1>1
<1>3. OnlyKnownErasures <=> [][\A i \in DOMAIN StepsOf(disk) : Erased(StepsOf(disk)[i])]_vars
  BY DEF OnlyKnownErasures
<1> HIDE DEF Erased
<1> QED
  BY <1>2, <1>3, Invariance, PTL DEF Spec
=============================================================================
