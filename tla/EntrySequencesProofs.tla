------------------------ MODULE EntrySequencesProofs ------------------------
(***************************************************************************)
(* What the operators of EntrySequences return, and what sequences of      *)
(* packets carry, before and after a step: the lemmas the proofs about the *)
(* client's and the broker's side of an exchange rest on.                  *)
(***************************************************************************)
EXTENDS EntrySequences, TLAPS, FiniteSetTheorems, SequenceTheorems, WellFoundedInduction

-----------------------------------------------------------------------------
(* Induction and recursion *)

(* Every set of natural numbers has a least one. *)
LEMMA LeastNumber ==
    ASSUME NEW S, S \subseteq Nat, S # {}
    PROVE  \E n \in S : \A m \in S : n <= m
<1>1. PICK n \in S : \A m \in S : <<m, n>> \notin OpToRel(<, Nat)
  BY NatLessThanWellFounded, WFMin
<1>2. \A m \in S : ~(m < n)
  BY <1>1 DEF OpToRel
<1> QED BY <1>2

LEMMA GreatestNumber ==
    ASSUME NEW n \in Nat, NEW S, S \subseteq 0..n, S # {}
    PROVE  \E m \in S : \A k \in S : k <= m
<1> DEFINE rest == {n - k : k \in S}
<1>1. rest \subseteq Nat
  OBVIOUS
<1>5. rest # {}
  <2>1. PICK k \in S : TRUE
    OBVIOUS
  <2>2. n - k \in rest
    BY <2>1
  <2> QED BY <2>2
<1> HIDE DEF rest
<1>2. PICK d \in rest : \A k \in rest : d <= k
  BY <1>1, <1>5, LeastNumber
<1>3. PICK m \in S : d = n - m
  BY <1>2 DEF rest
<1>4. \A k \in S : n - m <= n - k
  BY <1>2, <1>3 DEF rest
<1> QED BY <1>4

(* Induction, for the set of the numbers that have a property. *)
LEMMA Induction ==
    ASSUME NEW n \in Nat, NEW S, 0 \in S, \A k \in 0..(n - 1) : k \in S => k + 1 \in S
    PROVE  0..n \subseteq S
<1> SUFFICES ASSUME (0..n) \ S # {} PROVE FALSE
  OBVIOUS
<1>1. PICK m \in (0..n) \ S : \A k \in (0..n) \ S : m <= k
  <2> DEFINE rest == (0..n) \ S
  <2>1. rest \subseteq Nat /\ rest # {}
    OBVIOUS
  <2> HIDE DEF rest
  <2>2. \E m \in rest : \A k \in rest : m <= k
    BY <2>1, LeastNumber
  <2> QED BY <2>2 DEF rest
<1>2. m - 1 \in 0..(n - 1) /\ m - 1 \notin (0..n) \ S
  BY <1>1
<1>3. (m - 1) + 1 \in S
  BY <1>2
<1> QED BY <1>1, <1>3

(* A function that is defined by recursion on 0..n is there. *)
IsRecursive(g, n, V, b, F) ==
    g \in [0..n -> V] /\ g[0] = b /\ \A k \in 1..n : g[k] = F[k][g[k - 1]]

LEMMA Recursion ==
    ASSUME NEW n \in Nat, NEW V, NEW b \in V, NEW F \in [1..n -> [V -> V]]
    PROVE  \E g : IsRecursive(g, n, V, b, F)
<1> DEFINE Upto(m) == {g \in [0..m -> V] :
                         \A k \in 0..m : g[k] = IF k = 0 THEN b ELSE F[k][g[k - 1]]}
           S == {m \in 0..n : Upto(m) # {}}
<1>1. 0 \in S
  <2>1. [k \in 0..0 |-> b] \in Upto(0)
    OBVIOUS
  <2> QED BY <2>1
<1>2. ASSUME NEW m \in 0..(n - 1), m \in S PROVE m + 1 \in S
  <2>1. PICK g \in [0..m -> V] : \A k \in 0..m : g[k] = IF k = 0 THEN b ELSE F[k][g[k - 1]]
    BY <1>2
  <2>2. g[m] \in V /\ m + 1 \in 1..n /\ F[m + 1][g[m]] \in V
    BY <2>1
  <2> DEFINE h == [k \in 0..(m + 1) |-> IF k = m + 1 THEN F[m + 1][g[m]] ELSE g[k]]
  <2>3. h \in [0..(m + 1) -> V]
    BY <2>1, <2>2
  <2>4. ASSUME NEW k \in 0..(m + 1) PROVE h[k] = IF k = 0 THEN b ELSE F[k][h[k - 1]]
    <3>1. CASE k = m + 1
      BY <3>1
    <3>2. CASE k # m + 1
      <4>1. k \in 0..m /\ h[k] = g[k] /\ (k # 0 => h[k - 1] = g[k - 1])
        BY <3>2
      <4> QED BY <2>1, <4>1
    <3> QED BY <3>1, <3>2
  <2> HIDE DEF h
  <2>5. h \in Upto(m + 1) /\ m + 1 \in 0..n
    BY <2>3, <2>4
  <2> QED BY <2>5
<1>3. n \in S
  <2> HIDE DEF S
  <2>1. 0..n \subseteq S
    BY <1>1, <1>2, Induction
  <2> QED BY <2>1
<1>4. PICK g \in [0..n -> V] : \A k \in 0..n : g[k] = IF k = 0 THEN b ELSE F[k][g[k - 1]]
  BY <1>3
<1>5. g[0] = b /\ \A k \in 1..n : g[k] = F[k][g[k - 1]]
  BY <1>4
<1> QED BY <1>4, <1>5 DEF IsRecursive

-----------------------------------------------------------------------------
(* Sequences *)

LEMMA AfterTail ==
    ASSUME NEW S, NEW s \in Seq(S), s # <<>>
    PROVE  /\ Tail(s) \in Seq(S)
           /\ Head(s) \in S
           /\ Head(s) = s[1]
           /\ 1 \in DOMAIN s
           /\ \A i \in DOMAIN Tail(s) : i + 1 \in DOMAIN s /\ Tail(s)[i] = s[i + 1]
<1>1. Len(s) \in Nat /\ Len(s) # 0 /\ DOMAIN s = 1..Len(s)
  BY LenProperties, EmptySeq
<1>2. Tail(s) \in Seq(S) /\ Len(Tail(s)) = Len(s) - 1
      /\ \A i \in 1..Len(Tail(s)) : Tail(s)[i] = s[i + 1]
  BY HeadTailProperties
<1>3. DOMAIN Tail(s) = 1..Len(Tail(s))
  BY <1>2, LenProperties
<1> QED BY <1>1, <1>2, <1>3, HeadTailProperties

LEMMA AfterAppend ==
    ASSUME NEW S, NEW s \in Seq(S), NEW e \in S
    PROVE  /\ Append(s, e) \in Seq(S)
           /\ DOMAIN Append(s, e) = DOMAIN s \union {Len(s) + 1}
           /\ Len(s) + 1 \notin DOMAIN s
           /\ \A i \in DOMAIN s : Append(s, e)[i] = s[i]
           /\ Append(s, e)[Len(s) + 1] = e
<1>1. Len(s) \in Nat /\ DOMAIN s = 1..Len(s)
  BY LenProperties
<1>2. Append(s, e) \in Seq(S) /\ Len(Append(s, e)) = Len(s) + 1
  BY AppendProperties
<1>3. DOMAIN Append(s, e) = 1..(Len(s) + 1)
  BY <1>2, LenProperties
<1> QED BY <1>1, <1>2, <1>3, AppendProperties

LEMMA AfterConcat ==
    ASSUME NEW S, NEW s \in Seq(S), NEW t \in Seq(S)
    PROVE  /\ s \o t \in Seq(S)
           /\ \A i \in DOMAIN (s \o t) : \/ i \in DOMAIN s /\ (s \o t)[i] = s[i]
                                         \/ /\ i - Len(s) \in DOMAIN t
                                            /\ (s \o t)[i] = t[i - Len(s)]
<1>1. /\ Len(s) \in Nat /\ DOMAIN s = 1..Len(s)
      /\ Len(t) \in Nat /\ DOMAIN t = 1..Len(t)
  BY LenProperties
<1>2. s \o t \in Seq(S) /\ Len(s \o t) = Len(s) + Len(t)
  BY ConcatProperties
<1>3. DOMAIN (s \o t) = 1..(Len(s) + Len(t))
  BY <1>2, LenProperties
<1>4. \A i \in 1..(Len(s) + Len(t)) :
          (s \o t)[i] = IF i <= Len(s) THEN s[i] ELSE t[i - Len(s)]
  BY ConcatProperties
<1> QED BY <1>1, <1>2, <1>3, <1>4

LEMMA AfterRemoveAt ==
    ASSUME NEW S, NEW s \in Seq(S), NEW k \in DOMAIN s
    PROVE  /\ RemoveAt(s, k) \in Seq(S)
           /\ DOMAIN RemoveAt(s, k) = 1..(Len(s) - 1)
           /\ DOMAIN s = 1..Len(s) /\ Len(s) \in Nat
           /\ \A i \in 1..(Len(s) - 1) : RemoveAt(s, k)[i] = IF i < k THEN s[i] ELSE s[i + 1]
<1>1. Len(s) \in Nat /\ DOMAIN s = 1..Len(s) /\ \A i \in 1..Len(s) : s[i] \in S
  BY LenProperties
<1> DEFINE a == SubSeq(s, 1, k - 1)
           b == SubSeq(s, k + 1, Len(s))
<1>2. /\ a \in Seq(S) /\ Len(a) = k - 1
      /\ \A i \in 1..(k - 1) : a[i] = s[i]
  <2>1. \A i \in 1..(k - 1) : s[i] \in S
    BY <1>1
  <2>2. 1 \in Int /\ k - 1 \in Int
    BY <1>1
  <2>3. /\ a \in Seq(S) /\ Len(a) = IF 1 <= k - 1 THEN (k - 1) - 1 + 1 ELSE 0
        /\ \A i \in 1..((k - 1) - 1 + 1) : a[i] = s[1 + i - 1]
    BY <2>1, <2>2, SubSeqProperties
  <2> QED BY <1>1, <2>3
<1>3. /\ b \in Seq(S) /\ Len(b) = Len(s) - k
      /\ \A i \in 1..(Len(s) - k) : b[i] = s[k + i]
  <2>1. \A i \in (k + 1)..Len(s) : s[i] \in S
    BY <1>1
  <2>2. Len(s) \in Int /\ k + 1 \in Int
    BY <1>1
  <2>3. /\ b \in Seq(S) /\ Len(b) = IF k + 1 <= Len(s) THEN Len(s) - (k + 1) + 1 ELSE 0
        /\ \A i \in 1..(Len(s) - (k + 1) + 1) : b[i] = s[(k + 1) + i - 1]
    BY <2>1, <2>2, SubSeqProperties
  <2> HIDE DEF b
  <2>4. Len(s) - (k + 1) + 1 = Len(s) - k /\ \A i \in 1..(Len(s) - k) : (k + 1) + i - 1 = k + i
    BY <1>1
  <2>5. Len(b) = Len(s) - k
    BY <1>1, <2>3
  <2> QED BY <2>3, <2>4, <2>5
<1> HIDE DEF a, b
<1>4. /\ a \o b \in Seq(S) /\ Len(a \o b) = Len(a) + Len(b)
      /\ \A i \in 1..(Len(a) + Len(b)) : (a \o b)[i] = IF i <= Len(a) THEN a[i] ELSE b[i - Len(a)]
  BY <1>2, <1>3, ConcatProperties
<1>5. DOMAIN (a \o b) = 1..Len(a \o b)
  BY <1>4, LenProperties
<1>6. RemoveAt(s, k) = a \o b
  BY DEF RemoveAt, a, b
<1>7. ASSUME NEW i \in 1..(Len(s) - 1) PROVE (a \o b)[i] = IF i < k THEN s[i] ELSE s[i + 1]
  <2>1. i \in Nat /\ k \in Nat /\ 1 <= k /\ k <= Len(s) /\ i \in 1..(Len(a) + Len(b))
    BY <1>1, <1>2, <1>3
  <2>2. CASE i < k
    <3>1. (a \o b)[i] = a[i] /\ a[i] = s[i]
      BY <1>2, <1>4, <2>1, <2>2
    <3> QED BY <2>2, <3>1
  <2>3. CASE ~(i < k)
    <3>1. (a \o b)[i] = b[i - (k - 1)]
      BY <1>2, <1>4, <2>1, <2>3
    <3>2. i - (k - 1) \in 1..(Len(s) - k) /\ k + (i - (k - 1)) = i + 1
      BY <2>1, <2>3
    <3>3. b[i - (k - 1)] = s[i + 1]
      BY <1>3, <3>2
    <3> QED BY <2>3, <3>1, <3>3
  <2> QED BY <2>2, <2>3
<1>8. Len(a \o b) = Len(s) - 1
  BY <1>1, <1>2, <1>3, <1>4
<1> QED BY <1>1, <1>4, <1>5, <1>6, <1>7, <1>8

-----------------------------------------------------------------------------
(* Positions *)

LEMMA RankType ==
    ASSUME NEW P \in SUBSET Nat, IsFiniteSet(P), NEW i \in P
    PROVE  /\ IsFiniteSet({j \in P : j < i})
           /\ Rank(P, i) \in Nat
           /\ Rank(P, i) < Cardinality(P)
<1> DEFINE below == {j \in P : j < i}
<1>1. Cardinality(P) \in Nat
  BY FS_CardinalityType
<1>2. IsFiniteSet(P \ {i}) /\ Cardinality(P \ {i}) = Cardinality(P) - 1
  BY FS_RemoveElement
<1>3. below \in SUBSET (P \ {i})
  OBVIOUS
<1> HIDE DEF below
<1>4. IsFiniteSet(below) /\ Cardinality(below) <= Cardinality(P \ {i})
  BY <1>2, <1>3, FS_Subset
<1>5. Cardinality(below) \in Nat
  BY <1>4, FS_CardinalityType
<1>6. Cardinality(below) < Cardinality(P)
  BY <1>1, <1>2, <1>4, <1>5
<1> QED BY <1>4, <1>5, <1>6 DEF Rank, below

LEMMA RankGrows ==
    ASSUME NEW P \in SUBSET Nat, IsFiniteSet(P), NEW i \in P, NEW j \in P, i < j
    PROVE  Rank(P, i) < Rank(P, j)
<1> DEFINE belowI == {k \in P : k < i}
           belowJ == {k \in P : k < j}
<1>1. IsFiniteSet(belowI) /\ IsFiniteSet(belowJ)
  BY RankType
<1>7. i \notin belowI
  OBVIOUS
<1>2. belowI \union {i} \in SUBSET belowJ
  <2>1. \A k \in P : k < i => k < j
    OBVIOUS
  <2> QED BY <2>1
<1>3. Rank(P, i) = Cardinality(belowI) /\ Rank(P, j) = Cardinality(belowJ)
  BY DEF Rank
<1> HIDE DEF belowI, belowJ
<1>4. Cardinality(belowI \union {i}) = Cardinality(belowI) + 1
  BY <1>1, <1>7, FS_AddElement
<1>5. Cardinality(belowI \union {i}) <= Cardinality(belowJ)
  BY <1>1, <1>2, FS_Subset
<1>6. Cardinality(belowI) \in Nat /\ Cardinality(belowJ) \in Nat
  BY <1>1, FS_CardinalityType
<1> QED BY <1>3, <1>4, <1>5, <1>6

(* Ranks of the members of a finite set of positions are distinct and are
   exactly 0, 1, ... *)
LEMMA RanksAreDistinct ==
    ASSUME NEW P \in SUBSET Nat, IsFiniteSet(P),
           NEW i \in P, NEW j \in P, Rank(P, i) = Rank(P, j)
    PROVE  i = j
<1>1. Rank(P, i) \in Nat
  BY RankType
<1>2. ~(i < j) /\ ~(j < i)
  BY <1>1, RankGrows
<1> QED BY <1>2

LEMMA RanksAreAll ==
    ASSUME NEW P \in SUBSET Nat, IsFiniteSet(P), NEW k \in 1..Cardinality(P)
    PROVE  Nth(P, k) \in P /\ Rank(P, Nth(P, k)) = k - 1
<1> DEFINE n == Cardinality(P)
           f == [i \in P |-> Rank(P, i)]
<1>1. n \in Nat
  BY FS_CardinalityType
<1>2. f \in Injection(P, 0..(n - 1))
  <2>1. ASSUME NEW i \in P PROVE Rank(P, i) \in 0..(n - 1)
    <3>1. Rank(P, i) \in Nat /\ Rank(P, i) < n
      BY RankType
    <3> QED BY <1>1, <3>1
  <2>2. f \in [P -> 0..(n - 1)]
    BY <2>1
  <2>3. \A i, j \in P : f[i] = f[j] => i = j
    BY RanksAreDistinct
  <2> QED BY <2>2, <2>3 DEF Injection, IsInjective
<1> HIDE DEF n, f
<1>3. IsFiniteSet(0..(n - 1)) /\ Cardinality(0..(n - 1)) = n
  BY <1>1, FS_Interval
<1>4. f \in Surjection(P, 0..(n - 1))
  <2>1. Cardinality(P) = Cardinality(0..(n - 1))
    BY <1>3 DEF n
  <2> QED BY <1>2, <1>3, <2>1, FS_Injection
<1>5. \E i \in P : Rank(P, i) = k - 1
  <2>1. k - 1 \in 0..(n - 1)
    BY <1>1 DEF n
  <2>2. \E i \in P : f[i] = k - 1
    BY <1>4, <2>1 DEF Surjection
  <2> QED BY <2>2 DEF f
<1> QED BY <1>5 DEF Nth

(* No more than n positions have a rank below n. *)
LEMMA FewLowRanks ==
    ASSUME NEW P \in SUBSET Nat, IsFiniteSet(P), NEW n \in Nat
    PROVE  Cardinality({i \in P : Rank(P, i) < n}) \in 0..n
<1> DEFINE Q == {i \in P : Rank(P, i) < n}
           f == [i \in Q |-> Rank(P, i)]
<1>1. f \in Injection(Q, 0..(n - 1))
  <2>1. \A i \in P : Rank(P, i) \in Nat
    BY RankType
  <2>2. \A i \in Q : Rank(P, i) \in 0..(n - 1)
    BY <2>1
  <2>3. f \in [Q -> 0..(n - 1)]
    BY <2>2
  <2>4. \A i, j \in Q : f[i] = f[j] => i = j
    BY RanksAreDistinct
  <2> QED BY <2>3, <2>4 DEF Injection, IsInjective
<1>2. IsFiniteSet(0..(n - 1)) /\ Cardinality(0..(n - 1)) = n
  BY FS_Interval
<1>3. IsFiniteSet(Q) /\ Cardinality(Q) <= n
  BY <1>1, <1>2, FS_Injection
<1>4. Cardinality(Q) \in Nat
  BY <1>3, FS_CardinalityType
<1> QED BY <1>3, <1>4

LEMMA LowRanks ==
    ASSUME NEW P \in SUBSET Nat, IsFiniteSet(P), NEW n \in Nat, n <= Cardinality(P)
    PROVE  Cardinality({i \in P : Rank(P, i) < n}) = n
<1> DEFINE Q == {i \in P : Rank(P, i) < n}
           f == [i \in Q |-> Rank(P, i)]
<1>1. Cardinality(P) \in Nat /\ \A i \in P : Rank(P, i) \in Nat
  BY FS_CardinalityType, RankType
<1>2. IsFiniteSet(Q)
  BY FS_Subset
<1>3. IsFiniteSet(0..(n - 1)) /\ Cardinality(0..(n - 1)) = n
  <2>1. 0 \in Int /\ n - 1 \in Int
    OBVIOUS
  <2>2. IsFiniteSet(0..(n - 1)) /\ Cardinality(0..(n - 1)) = IF 0 > n - 1 THEN 0 ELSE (n - 1) - 0 + 1
    BY <2>1, FS_Interval
  <2> QED BY <2>2
<1>4. f \in Bijection(Q, 0..(n - 1))
  <2>1. \A i \in Q : Rank(P, i) \in 0..(n - 1)
    BY <1>1
  <2>2. \A i, j \in Q : f[i] = f[j] => i = j
    BY RanksAreDistinct
  <2>3. ASSUME NEW k \in 0..(n - 1) PROVE \E i \in Q : f[i] = k
    <3>1. k + 1 \in 1..Cardinality(P) /\ k < n /\ (k + 1) - 1 = k
      BY <1>1
    <3>2. Nth(P, k + 1) \in P /\ Rank(P, Nth(P, k + 1)) = k
      BY <3>1, RanksAreAll
    <3>3. Nth(P, k + 1) \in Q
      BY <3>1, <3>2
    <3> QED BY <3>2, <3>3
  <2> HIDE DEF Q
  <2>4. f \in [Q -> 0..(n - 1)]
    BY <2>1
  <2> HIDE DEF f
  <2> QED BY <2>2, <2>3, <2>4 DEF Bijection, Injection, Surjection, IsInjective
<1> HIDE DEF Q, f
<1>5. ExistsBijection(Q, 0..(n - 1))
  BY <1>4 DEF ExistsBijection
<1>6. Cardinality(0..(n - 1)) = Cardinality(Q)
  BY <1>2, <1>5, FS_Bijection
<1> QED BY <1>3, <1>6 DEF Q

-----------------------------------------------------------------------------
(* Entries with packet ids *)

PidsOf(s) == {s[i].pid : i \in DOMAIN s}

Distinct(s) == \A i, j \in DOMAIN s : s[i].pid = s[j].pid => i = j

LEMMA ErasedOne ==
    ASSUME NEW S, NEW s \in Seq(S), Distinct(s), NEW p \in PidsOf(s)
    PROVE  /\ Erased(s, p) \in Seq(S)
           /\ Distinct(Erased(s, p))
           /\ PidsOf(Erased(s, p)) = PidsOf(s) \ {p}
<1> DEFINE k == CHOOSE i \in DOMAIN s : s[i].pid = p
           r == RemoveAt(s, k)
<1>1. k \in DOMAIN s /\ s[k].pid = p
  BY DEF PidsOf
<1>2. Erased(s, p) = r
  BY DEF Erased
<1> HIDE DEF k
<1>3. /\ r \in Seq(S)
      /\ DOMAIN r = 1..(Len(s) - 1)
      /\ DOMAIN s = 1..Len(s) /\ Len(s) \in Nat
      /\ \A i \in 1..(Len(s) - 1) : r[i] = IF i < k THEN s[i] ELSE s[i + 1]
  BY <1>1, AfterRemoveAt
<1> HIDE DEF r
<1>4. ASSUME NEW i \in DOMAIN r
      PROVE  \E h \in DOMAIN s : /\ h # k /\ r[i] = s[h]
                                 /\ h = IF i < k THEN i ELSE i + 1
  BY <1>1, <1>3
<1>5. Distinct(r)
  <2> SUFFICES ASSUME NEW i \in DOMAIN r, NEW j \in DOMAIN r, r[i].pid = r[j].pid
               PROVE  i = j
    BY DEF Distinct
  <2>1. PICK h \in DOMAIN s : r[i] = s[h] /\ h = IF i < k THEN i ELSE i + 1
    BY <1>4
  <2>2. PICK g \in DOMAIN s : r[j] = s[g] /\ g = IF j < k THEN j ELSE j + 1
    BY <1>4
  <2>3. h = g
    BY <2>1, <2>2 DEF Distinct
  <2> QED BY <1>1, <1>3, <2>1, <2>2, <2>3
<1>6. PidsOf(r) \subseteq PidsOf(s) \ {p}
  <2> SUFFICES ASSUME NEW i \in DOMAIN r PROVE r[i].pid \in PidsOf(s) \ {p}
    BY DEF PidsOf
  <2>1. PICK h \in DOMAIN s : h # k /\ r[i] = s[h]
    BY <1>4
  <2> QED BY <1>1, <2>1 DEF PidsOf, Distinct
<1>7. PidsOf(s) \ {p} \subseteq PidsOf(r)
  <2> SUFFICES ASSUME NEW h \in DOMAIN s, s[h].pid # p PROVE s[h].pid \in PidsOf(r)
    BY DEF PidsOf
  <2>1. h # k /\ h \in Nat /\ k \in Nat
    BY <1>1, <1>3
  <2>2. CASE h < k
    <3>1. h \in DOMAIN r /\ r[h] = s[h]
      BY <1>1, <1>3, <2>2
    <3> QED BY <3>1 DEF PidsOf
  <2>3. CASE k < h
    <3>1. h - 1 \in DOMAIN r /\ r[h - 1] = s[h]
      BY <1>1, <1>3, <2>3
    <3> QED BY <3>1 DEF PidsOf
  <2> QED BY <2>1, <2>2, <2>3
<1> QED BY <1>2, <1>3, <1>5, <1>6, <1>7

LEMMA AppendedOne ==
    ASSUME NEW S, NEW s \in Seq(S), Distinct(s), NEW e \in S, e.pid \notin PidsOf(s)
    PROVE  /\ Append(s, e) \in Seq(S)
           /\ Distinct(Append(s, e))
           /\ PidsOf(Append(s, e)) = PidsOf(s) \union {e.pid}
<1> DEFINE t == Append(s, e)
           n == Len(s) + 1
<1>1. /\ t \in Seq(S)
      /\ DOMAIN t = DOMAIN s \union {n}
      /\ n \notin DOMAIN s
      /\ \A i \in DOMAIN s : t[i] = s[i]
      /\ t[n] = e
  BY AfterAppend
<1> HIDE DEF t, n
<1>2. Distinct(t) /\ PidsOf(t) = PidsOf(s) \union {e.pid}
  BY <1>1 DEF Distinct, PidsOf
<1> QED BY <1>1, <1>2 DEF t

LEMMA FunctionsAreSequences ==
    ASSUME NEW S, NEW n \in Nat, NEW f \in [1..n -> S]
    PROVE  f \in Seq(S)
BY SeqDef

LEMMA SelectedEntries ==
    ASSUME NEW T, NEW s \in Seq(T), NEW P \in SUBSET DOMAIN s
    PROVE  /\ IsFiniteSet(P) /\ P \in SUBSET Nat
           /\ Cardinality(P) \in Nat
           /\ Selected(s, P) \in [1..Cardinality(P) -> T]
           /\ \A k \in 1..Cardinality(P) : Nth(P, k) \in P /\ Selected(s, P)[k] = s[Nth(P, k)]
<1>1. Len(s) \in Nat /\ DOMAIN s = 1..Len(s)
      /\ \A i \in DOMAIN s : s[i] \in T
  BY LenProperties
<1>2. P \in SUBSET Nat /\ IsFiniteSet(P)
  <2>1. IsFiniteSet(1..Len(s))
    BY <1>1, FS_Interval
  <2>2. P \in SUBSET (1..Len(s))
    BY <1>1
  <2> QED BY <2>1, <2>2, FS_Subset
<1>3. Cardinality(P) \in Nat
  BY <1>2, FS_CardinalityType
<1>4. \A k \in 1..Cardinality(P) : Nth(P, k) \in P
  BY <1>2, RanksAreAll
<1> QED BY <1>1, <1>2, <1>3, <1>4 DEF Selected

LEMMA SelectedApart ==
    ASSUME NEW T, NEW s \in Seq(T), Distinct(s), NEW P \in SUBSET DOMAIN s
    PROVE  /\ DOMAIN Selected(s, P) = 1..Cardinality(P) /\ Cardinality(P) \in Nat
           /\ Distinct(Selected(s, P))
           /\ ToSet(Selected(s, P)) = {s[i] : i \in P}
           /\ ToSet(Selected(s, P)) \subseteq T
<1> DEFINE n == Cardinality(P)
           t == Selected(s, P)
<1>1. /\ IsFiniteSet(P) /\ P \in SUBSET Nat /\ n \in Nat
      /\ t \in [1..n -> T]
      /\ \A k \in 1..n : Nth(P, k) \in P /\ t[k] = s[Nth(P, k)]
  BY SelectedEntries
<1>2. \A k \in 1..n : Rank(P, Nth(P, k)) = k - 1
  BY <1>1, RanksAreAll
<1>3. Distinct(t)
  <2> SUFFICES ASSUME NEW i \in 1..n, NEW j \in 1..n, t[i].pid = t[j].pid PROVE i = j
    BY <1>1 DEF Distinct
  <2>1. Nth(P, i) = Nth(P, j)
    BY <1>1 DEF Distinct
  <2>2. i - 1 = j - 1
    BY <1>2, <2>1
  <2> QED BY <2>2
<1>4. ASSUME NEW i \in P PROVE \E k \in 1..n : t[k] = s[i]
  <2>1. Rank(P, i) \in Nat /\ Rank(P, i) < n
    BY <1>1, RankType
  <2> DEFINE k == Rank(P, i) + 1
  <2>2. k \in 1..n /\ k - 1 = Rank(P, i)
    BY <1>1, <2>1
  <2> HIDE DEF k
  <2>3. Nth(P, k) = i
    BY <1>1, <1>2, <2>2, RanksAreDistinct
  <2> QED BY <1>1, <2>2, <2>3
<1> HIDE DEF t, n
<1>5. ToSet(t) = {s[i] : i \in P} /\ ToSet(t) \subseteq T /\ DOMAIN t = 1..n
  BY <1>1, <1>4 DEF ToSet
<1> QED BY <1>1, <1>3, <1>5 DEF t, n

LEMMA ErasedEntries ==
    ASSUME NEW S, NEW s \in Seq(S), Distinct(s), NEW p \in PidsOf(s)
    PROVE  ToSet(Erased(s, p)) = {e \in ToSet(s) : e.pid # p}
<1> DEFINE k == CHOOSE i \in DOMAIN s : s[i].pid = p
           r == RemoveAt(s, k)
<1>1. k \in DOMAIN s /\ s[k].pid = p
  BY DEF PidsOf
<1>2. Erased(s, p) = r
  BY DEF Erased
<1> HIDE DEF k
<1>3. /\ DOMAIN r = 1..(Len(s) - 1)
      /\ DOMAIN s = 1..Len(s) /\ Len(s) \in Nat
      /\ \A i \in 1..(Len(s) - 1) : r[i] = IF i < k THEN s[i] ELSE s[i + 1]
  BY <1>1, AfterRemoveAt
<1> HIDE DEF r
<1>4. \A i \in DOMAIN r : \E h \in DOMAIN s : h # k /\ r[i] = s[h]
  BY <1>1, <1>3
<1>5. \A h \in DOMAIN s : h # k => \E i \in DOMAIN r : r[i] = s[h]
  <2> SUFFICES ASSUME NEW h \in DOMAIN s, h # k PROVE \E i \in DOMAIN r : r[i] = s[h]
    OBVIOUS
  <2>1. CASE h < k
    <3>1. h \in DOMAIN r /\ r[h] = s[h]
      BY <1>1, <1>3, <2>1
    <3> QED BY <3>1
  <2>2. CASE k < h
    <3>1. h - 1 \in DOMAIN r /\ r[h - 1] = s[h]
      BY <1>1, <1>3, <2>2
    <3> QED BY <3>1
  <2> QED BY <1>1, <1>3, <2>1, <2>2
<1>6. \A h \in DOMAIN s : h # k <=> s[h].pid # p
  BY <1>1 DEF Distinct
<1> QED BY <1>2, <1>4, <1>5, <1>6 DEF ToSet

-----------------------------------------------------------------------------
(* Sequences of packets *)

(* A packet of an exchange: it carries the packet id of a message. *)
Numbered(x) ==
    x.type \in {"publish", "pubrel", "puback", "pubrec", "pubcomp"} /\ x.pid # NoPid

Carried(q) == {x.pid : x \in {y \in ToSet(q) : Numbered(y)}}

Alone(q) ==
    \A i, j \in DOMAIN q :
        (Numbered(q[i]) /\ Numbered(q[j]) /\ q[i].pid = q[j].pid) => i = j

LEMMA MembersTyped == ASSUME NEW S, NEW s \in Seq(S) PROVE ToSet(s) \subseteq S
BY LenProperties DEF ToSet

LEMMA TailMembers ==
    ASSUME NEW S, NEW s \in Seq(S), s # <<>>
    PROVE  /\ ToSet(s) = ToSet(Tail(s)) \union {Head(s)}
           /\ Carried(Tail(s)) \subseteq Carried(s)
           /\ Numbered(Head(s)) => Head(s).pid \in Carried(s)
           /\ Alone(s) => /\ Alone(Tail(s))
                          /\ Numbered(Head(s)) => Head(s).pid \notin Carried(Tail(s))
<1> DEFINE t == Tail(s)
           h == Head(s)
<1>1. /\ t \in Seq(S) /\ h = s[1] /\ 1 \in DOMAIN s
      /\ \A i \in DOMAIN t : i + 1 \in DOMAIN s /\ t[i] = s[i + 1]
  BY AfterTail
<1>2. /\ Len(s) \in Nat /\ DOMAIN s = 1..Len(s) /\ Len(t) = Len(s) - 1
      /\ DOMAIN t = 1..(Len(s) - 1)
  BY <1>1, LenProperties, HeadTailProperties, EmptySeq
<1> HIDE DEF t, h
<1>3. \A i \in DOMAIN s : i = 1 \/ (i - 1 \in DOMAIN t /\ t[i - 1] = s[i])
  <2> SUFFICES ASSUME NEW i \in DOMAIN s, i # 1 PROVE i - 1 \in DOMAIN t /\ t[i - 1] = s[i]
    OBVIOUS
  <2>1. i - 1 \in DOMAIN t /\ (i - 1) + 1 = i
    BY <1>2
  <2> QED BY <1>1, <2>1
<1>4. ToSet(s) = ToSet(t) \union {h}
  BY <1>1, <1>3 DEF ToSet
<1>5. Carried(t) \subseteq Carried(s) /\ (Numbered(h) => h.pid \in Carried(s))
  BY <1>4 DEF Carried
<1>6. ASSUME Alone(s) PROVE Alone(t)
  <2> SUFFICES ASSUME NEW i \in DOMAIN t, NEW j \in DOMAIN t,
                      Numbered(t[i]), Numbered(t[j]), t[i].pid = t[j].pid
               PROVE  i = j
    BY DEF Alone
  <2>1. i + 1 = j + 1
    BY <1>1, <1>6 DEF Alone
  <2> QED BY <1>2, <2>1
<1>7. ASSUME Alone(s), Numbered(h), h.pid \in Carried(t) PROVE FALSE
  <2>1. PICK i \in DOMAIN t : Numbered(t[i]) /\ t[i].pid = h.pid
    BY <1>7 DEF Carried, ToSet
  <2>2. i + 1 = 1
    BY <1>1, <1>7, <2>1 DEF Alone
  <2> QED BY <1>2, <2>2
<1> QED BY <1>4, <1>5, <1>6, <1>7 DEF t, h

LEMMA AppendMembers ==
    ASSUME NEW S, NEW s \in Seq(S), NEW x \in S
    PROVE  /\ ToSet(Append(s, x)) = ToSet(s) \union {x}
           /\ Carried(Append(s, x)) =
                 Carried(s) \union (IF Numbered(x) THEN {x.pid} ELSE {})
           /\ Alone(s) /\ (Numbered(x) => x.pid \notin Carried(s)) => Alone(Append(s, x))
<1> DEFINE t == Append(s, x)
           n == Len(s) + 1
<1>1. /\ DOMAIN t = DOMAIN s \union {n}
      /\ n \notin DOMAIN s
      /\ \A i \in DOMAIN s : t[i] = s[i]
      /\ t[n] = x
  BY AfterAppend
<1> HIDE DEF t, n
<1>2. ToSet(t) = ToSet(s) \union {x}
  BY <1>1 DEF ToSet
<1>3. Carried(t) = Carried(s) \union (IF Numbered(x) THEN {x.pid} ELSE {})
  BY <1>2 DEF Carried
<1>4. ASSUME Alone(s), Numbered(x) => x.pid \notin Carried(s) PROVE Alone(t)
  <2> SUFFICES ASSUME NEW i \in DOMAIN t, NEW j \in DOMAIN t,
                      Numbered(t[i]), Numbered(t[j]), t[i].pid = t[j].pid
               PROVE  i = j
    BY DEF Alone
  <2>1. \A k \in DOMAIN s : Numbered(s[k]) => s[k].pid \in Carried(s)
    BY DEF Carried, ToSet
  <2> QED BY <1>1, <1>4, <2>1 DEF Alone
<1> QED BY <1>2, <1>3, <1>4 DEF t

-----------------------------------------------------------------------------
(* Order of publication *)

(* In s, a member of T names a message published after those that members of
   S before it name. *)
Ordered(s, S, T) ==
    \A i, j \in DOMAIN s : i < j /\ s[i] \in S /\ s[j] \in T => s[i].msg < s[j].msg

(* The members of S in s name messages in the order they were published. *)
Ascending(s, S) == Ordered(s, S, S)

LEMMA OrderedTail ==
    ASSUME NEW U, NEW s \in Seq(U), s # <<>>, NEW S, NEW T, Ordered(s, S, T)
    PROVE  /\ Ordered(Tail(s), S, T)
           /\ Head(s) \in S => \A y \in ToSet(Tail(s)) : y \in T => Head(s).msg < y.msg
<1>1. /\ Head(s) = s[1] /\ 1 \in DOMAIN s /\ Tail(s) \in Seq(U)
      /\ \A i \in DOMAIN Tail(s) : i + 1 \in DOMAIN s /\ Tail(s)[i] = s[i + 1]
  BY AfterTail
<1>2. Len(Tail(s)) \in Nat /\ DOMAIN Tail(s) = 1..Len(Tail(s))
  BY <1>1, LenProperties
<1>3. \A i, j \in DOMAIN Tail(s) : i < j => i + 1 < j + 1
  BY <1>2
<1>4. \A i \in DOMAIN Tail(s) : 1 < i + 1
  BY <1>2
<1>5. Ordered(Tail(s), S, T)
  BY <1>1, <1>3 DEF Ordered
<1>6. ASSUME Head(s) \in S, NEW i \in DOMAIN Tail(s), Tail(s)[i] \in T
      PROVE  Head(s).msg < Tail(s)[i].msg
  BY <1>1, <1>4, <1>6 DEF Ordered
<1> QED BY <1>5, <1>6 DEF ToSet

LEMMA OrderedAppend ==
    ASSUME NEW U, NEW s \in Seq(U), NEW x \in U, NEW S, NEW T, Ordered(s, S, T),
           x \in T => \A y \in ToSet(s) : y \in S => y.msg < x.msg
    PROVE  Ordered(Append(s, x), S, T)
<1> DEFINE t == Append(s, x)
           n == Len(s) + 1
<1>1. /\ DOMAIN t = DOMAIN s \union {n} /\ n \notin DOMAIN s
      /\ \A i \in DOMAIN s : t[i] = s[i]
      /\ t[n] = x
  BY AfterAppend
<1>2. Len(s) \in Nat /\ DOMAIN s = 1..Len(s)
  BY LenProperties
<1>3. \A j \in DOMAIN s : ~(n < j) /\ ~(n < n)
  BY <1>2
<1> HIDE DEF t, n
<1>4. Ordered(t, S, T)
  <2> SUFFICES ASSUME NEW i \in DOMAIN t, NEW j \in DOMAIN t, i < j, t[i] \in S, t[j] \in T
               PROVE  t[i].msg < t[j].msg
    BY DEF Ordered
  <2>1. i \in DOMAIN s /\ t[i] = s[i]
    BY <1>1, <1>3
  <2>2. CASE j \in DOMAIN s
    BY <1>1, <2>1, <2>2 DEF Ordered
  <2>3. CASE j = n
    <3>1. s[i] \in ToSet(s) /\ t[j] = x
      BY <1>1, <2>1, <2>3 DEF ToSet
    <3> QED BY <2>1, <3>1
  <2> QED BY <1>1, <2>2, <2>3
<1> QED BY <1>4 DEF t

LEMMA OrderedRemoved ==
    ASSUME NEW U, NEW s \in Seq(U), NEW k \in DOMAIN s, NEW S, NEW T, Ordered(s, S, T)
    PROVE  Ordered(RemoveAt(s, k), S, T)
<1> DEFINE r == RemoveAt(s, k)
<1>1. /\ DOMAIN r = 1..(Len(s) - 1)
      /\ DOMAIN s = 1..Len(s) /\ Len(s) \in Nat
      /\ \A i \in 1..(Len(s) - 1) : r[i] = IF i < k THEN s[i] ELSE s[i + 1]
  BY AfterRemoveAt
<1> HIDE DEF r
<1>2. ASSUME NEW i \in DOMAIN r, NEW j \in DOMAIN r, i < j, r[i] \in S, r[j] \in T
      PROVE  r[i].msg < r[j].msg
  <2>1. PICK g \in DOMAIN s : r[i] = s[g] /\ g = IF i < k THEN i ELSE i + 1
    BY <1>1
  <2>2. PICK h \in DOMAIN s : r[j] = s[h] /\ h = IF j < k THEN j ELSE j + 1
    BY <1>1
  <2>3. g < h
    BY <1>1, <1>2, <2>1, <2>2
  <2> QED BY <1>2, <2>1, <2>2, <2>3 DEF Ordered
<1>3. Ordered(r, S, T)
  BY <1>2 DEF Ordered
<1> QED BY <1>3 DEF r

(* What the sequence hands out again comes in its order. *)
LEMMA SelectedOrdered ==
    ASSUME NEW U, NEW s \in Seq(U), NEW P \in SUBSET DOMAIN s, NEW S, NEW T,
           Ordered(s, S, T)
    PROVE  Ordered(Selected(s, P), S, T)
<1> DEFINE n == Cardinality(P)
           t == Selected(s, P)
<1>1. /\ IsFiniteSet(P) /\ P \in SUBSET Nat /\ n \in Nat
      /\ t \in [1..n -> U]
      /\ \A k \in 1..n : Nth(P, k) \in P /\ t[k] = s[Nth(P, k)]
  BY SelectedEntries
<1>2. \A k \in 1..n : Rank(P, Nth(P, k)) = k - 1
  BY <1>1, RanksAreAll
<1> HIDE DEF t, n
<1>3. ASSUME NEW i \in 1..n, NEW j \in 1..n, i < j PROVE Nth(P, i) < Nth(P, j)
  <2>1. PICK g, h \in P : g = Nth(P, i) /\ h = Nth(P, j)
    BY <1>1
  <2>2. Rank(P, g) = i - 1 /\ Rank(P, h) = j - 1
    BY <1>2, <2>1
  <2>3. g # h
    BY <1>1, <1>3, <2>2
  <2>4. ~(h < g)
    <3> SUFFICES ASSUME h < g PROVE FALSE
      OBVIOUS
    <3>1. Rank(P, h) < Rank(P, g)
      BY <1>1, RankGrows
    <3> QED BY <1>1, <1>3, <2>2, <3>1
  <2>5. g \in Nat /\ h \in Nat
    BY <1>1
  <2> QED BY <2>1, <2>3, <2>4, <2>5
<1>4. Ordered(t, S, T)
  <2> SUFFICES ASSUME NEW i \in 1..n, NEW j \in 1..n, i < j, t[i] \in S, t[j] \in T
               PROVE  t[i].msg < t[j].msg
    BY <1>1 DEF Ordered
  <2>1. Nth(P, i) < Nth(P, j) /\ Nth(P, i) \in DOMAIN s /\ Nth(P, j) \in DOMAIN s
    BY <1>1, <1>3
  <2> QED BY <1>1, <2>1 DEF Ordered
<1> QED BY <1>4 DEF t

LEMMA OrderedJoined ==
    ASSUME NEW U, NEW s \in Seq(U), NEW t \in Seq(U), NEW S, NEW T,
           Ordered(s, S, T), Ordered(t, S, T),
           \A x \in ToSet(s), y \in ToSet(t) : x \in S /\ y \in T => x.msg < y.msg
    PROVE  Ordered(s \o t, S, T)
<1> DEFINE n == Len(s)
           r == s \o t
<1>1. /\ n \in Nat /\ DOMAIN s = 1..n
      /\ Len(t) \in Nat /\ DOMAIN t = 1..Len(t)
  BY LenProperties
<1>2. /\ DOMAIN r = 1..(n + Len(t))
      /\ \A i \in 1..(n + Len(t)) : r[i] = IF i <= n THEN s[i] ELSE t[i - n]
  <2>1. /\ r \in Seq(U) /\ Len(r) = n + Len(t)
        /\ \A i \in 1..(n + Len(t)) : r[i] = IF i <= n THEN s[i] ELSE t[i - n]
    BY ConcatProperties
  <2> QED BY <2>1, LenProperties
<1> HIDE DEF n, r
<1>3. ASSUME NEW i \in DOMAIN r, NEW j \in DOMAIN r, i < j, r[i] \in S, r[j] \in T
      PROVE  r[i].msg < r[j].msg
  <2>1. CASE j <= n
    <3>1. i \in DOMAIN s /\ j \in DOMAIN s /\ r[i] = s[i] /\ r[j] = s[j]
      BY <1>1, <1>2, <1>3, <2>1
    <3> QED BY <1>3, <3>1 DEF Ordered
  <2>2. CASE i > n
    <3>1. /\ i - n \in DOMAIN t /\ j - n \in DOMAIN t /\ i - n < j - n
          /\ r[i] = t[i - n] /\ r[j] = t[j - n]
      BY <1>1, <1>2, <1>3, <2>2
    <3> QED BY <1>3, <3>1 DEF Ordered
  <2>3. CASE i <= n /\ j > n
    <3>1. /\ i \in DOMAIN s /\ j - n \in DOMAIN t
          /\ r[i] = s[i] /\ r[j] = t[j - n]
      BY <1>1, <1>2, <1>3, <2>3
    <3>2. r[i] \in ToSet(s) /\ r[j] \in ToSet(t)
      BY <3>1 DEF ToSet
    <3> QED BY <1>3, <3>2
  <2> QED BY <1>1, <1>2, <2>1, <2>2, <2>3
<1>4. Ordered(r, S, T)
  BY <1>3 DEF Ordered
<1> QED BY <1>4 DEF r

LEMMA AscendingTail ==
    ASSUME NEW U, NEW s \in Seq(U), s # <<>>, NEW S, Ascending(s, S)
    PROVE  /\ Ascending(Tail(s), S)
           /\ Head(s) \in S => \A y \in ToSet(Tail(s)) : y \in S => Head(s).msg < y.msg
BY OrderedTail DEF Ascending

LEMMA AscendingAppend ==
    ASSUME NEW U, NEW s \in Seq(U), NEW x \in U, NEW S, Ascending(s, S),
           x \in S => \A y \in ToSet(s) : y \in S => y.msg < x.msg
    PROVE  Ascending(Append(s, x), S)
BY OrderedAppend DEF Ascending

LEMMA AscendingErased ==
    ASSUME NEW U, NEW s \in Seq(U), NEW p \in PidsOf(s), NEW S, Ascending(s, S)
    PROVE  Ascending(Erased(s, p), S)
<1>1. PICK k \in DOMAIN s : Erased(s, p) = RemoveAt(s, k)
  BY DEF PidsOf, Erased
<1> QED BY <1>1, OrderedRemoved DEF Ascending

LEMMA SelectedAscending ==
    ASSUME NEW U, NEW s \in Seq(U), NEW P \in SUBSET DOMAIN s, NEW S, Ascending(s, S)
    PROVE  Ascending(Selected(s, P), S)
BY SelectedOrdered DEF Ascending

-----------------------------------------------------------------------------
(* Counting *)

LEMMA MembersFinite ==
    ASSUME NEW S, NEW s \in Seq(S)
    PROVE  IsFiniteSet(ToSet(s)) /\ Cardinality(ToSet(s)) \in Nat
<1> DEFINE D == DOMAIN s
           T == ToSet(s)
           f == [i \in D |-> s[i]]
<1>1. IsFiniteSet(D)
  <2>1. Len(s) \in Nat /\ D = 1..Len(s)
    BY LenProperties
  <2> QED BY <2>1, FS_Interval
<1>2. f \in Surjection(D, T)
  BY DEF Surjection, ToSet
<1> HIDE DEF D, f, T
<1>3. IsFiniteSet(T)
  BY <1>1, <1>2, FS_Surjection
<1> QED BY <1>3, FS_CardinalityType DEF T

LEMMA CountedExactly ==
    ASSUME NEW S, IsFiniteSet(S)
    PROVE  /\ Cardinality(S) \in Nat
           /\ \A e : e \notin S => /\ IsFiniteSet(S \union {e})
                                   /\ Cardinality(S \union {e}) = Cardinality(S) + 1
           /\ \A h \in S : /\ IsFiniteSet(S \ {h})
                           /\ Cardinality(S \ {h}) = Cardinality(S) - 1
                           /\ Cardinality(S) # 0
           /\ \A h \in S : \A e : e \notin S =>
                 Cardinality((S \ {h}) \union {e}) = Cardinality(S)
<1>1. Cardinality(S) \in Nat
  BY FS_CardinalityType
<1>2. ASSUME NEW U, IsFiniteSet(U), NEW e, e \notin U
      PROVE  IsFiniteSet(U \union {e}) /\ Cardinality(U \union {e}) = Cardinality(U) + 1
  BY <1>2, FS_AddElement
<1>3. ASSUME NEW h \in S
      PROVE  /\ IsFiniteSet(S \ {h}) /\ Cardinality(S \ {h}) = Cardinality(S) - 1
             /\ Cardinality(S \ {h}) \in Nat
  BY FS_RemoveElement, FS_CardinalityType
<1>4. ASSUME NEW h \in S, NEW e, e \notin S
      PROVE  Cardinality((S \ {h}) \union {e}) = Cardinality(S)
  <2>1. e \notin S \ {h} /\ IsFiniteSet(S \ {h})
    BY <1>3, <1>4
  <2>2. Cardinality((S \ {h}) \union {e}) = Cardinality(S \ {h}) + 1
    BY <1>2, <2>1
  <2> QED BY <1>1, <1>3, <2>2
<1>5. ASSUME NEW h \in S PROVE Cardinality(S) # 0
  <2>1. Cardinality(S) - 1 \in Nat
    BY <1>3
  <2> QED BY <1>1, <2>1
<1> QED BY <1>1, <1>2, <1>3, <1>4, <1>5

-----------------------------------------------------------------------------
(* The rest of a sequence of entries *)

LEMMA TailDistinct ==
    ASSUME NEW S, NEW s \in Seq(S), s # <<>>, Distinct(s)
    PROVE  /\ Tail(s) \in Seq(S) /\ Distinct(Tail(s))
           /\ Head(s) \in ToSet(s) /\ Head(s) \in S
           /\ ToSet(s) = ToSet(Tail(s)) \union {Head(s)}
           /\ {e.pid : e \in ToSet(Tail(s))} = {e.pid : e \in ToSet(s)} \ {Head(s).pid}
<1> DEFINE t == Tail(s)
           h == Head(s)
<1>1. /\ t \in Seq(S) /\ h = s[1] /\ 1 \in DOMAIN s /\ h \in S
      /\ \A i \in DOMAIN t : i + 1 \in DOMAIN s /\ t[i] = s[i + 1]
      /\ ToSet(s) = ToSet(t) \union {h}
  BY AfterTail, TailMembers
<1>2. DOMAIN t \subseteq Nat
  <2>1. Len(t) \in Nat /\ DOMAIN t = 1..Len(t)
    BY <1>1, LenProperties
  <2> QED BY <2>1
<1> HIDE DEF t, h
<1>3. Distinct(t)
  <2> SUFFICES ASSUME NEW i \in DOMAIN t, NEW j \in DOMAIN t, t[i].pid = t[j].pid
               PROVE  i = j
    BY DEF Distinct
  <2>1. i + 1 = j + 1
    BY <1>1 DEF Distinct
  <2> QED BY <1>2, <2>1
<1>4. ASSUME NEW i \in DOMAIN t PROVE t[i].pid # h.pid
  <2>1. i + 1 # 1
    BY <1>2
  <2> QED BY <1>1, <2>1 DEF Distinct
<1>5. {e.pid : e \in ToSet(t)} = {e.pid : e \in ToSet(s)} \ {h.pid}
  <2>1. \A e \in ToSet(t) : e.pid # h.pid
    BY <1>4 DEF ToSet
  <2> QED BY <1>1, <2>1
<1> QED BY <1>1, <1>3, <1>5 DEF t, h

(* Two sequences of entries in a row, none of whose packet ids they share. *)
LEMMA JoinedDistinct ==
    ASSUME NEW S, NEW s \in Seq(S), NEW t \in Seq(S), Distinct(s), Distinct(t),
           \A i \in DOMAIN s, j \in DOMAIN t : s[i].pid # t[j].pid
    PROVE  /\ s \o t \in Seq(S)
           /\ Distinct(s \o t)
           /\ ToSet(s \o t) = ToSet(s) \union ToSet(t)
<1> DEFINE u == s \o t
           n == Len(s)
<1>1. /\ n \in Nat /\ DOMAIN s = 1..n
      /\ Len(t) \in Nat /\ DOMAIN t = 1..Len(t)
  BY LenProperties
<1>2. u \in Seq(S) /\ Len(u) = n + Len(t)
  BY ConcatProperties
<1>3. DOMAIN u = 1..(n + Len(t))
  BY <1>2, LenProperties
<1>4. \A i \in 1..(n + Len(t)) : u[i] = IF i <= n THEN s[i] ELSE t[i - n]
  BY ConcatProperties
<1> HIDE DEF u, n
<1>5. \A i \in DOMAIN u : \/ i \in DOMAIN s /\ i <= n /\ u[i] = s[i]
                          \/ i - n \in DOMAIN t /\ i > n /\ u[i] = t[i - n]
  BY <1>1, <1>3, <1>4
<1>6. /\ \A i \in DOMAIN s : i \in DOMAIN u /\ u[i] = s[i]
      /\ \A j \in DOMAIN t : j + n \in DOMAIN u /\ u[j + n] = t[j]
  <2>1. \A i \in DOMAIN s : i \in DOMAIN u /\ u[i] = s[i]
    BY <1>1, <1>3, <1>4
  <2>2. \A j \in DOMAIN t : j + n \in DOMAIN u /\ ~(j + n <= n) /\ (j + n) - n = j
    BY <1>1, <1>3
  <2> QED BY <1>3, <1>4, <2>1, <2>2
<1>7. Distinct(u)
  <2> SUFFICES ASSUME NEW i \in DOMAIN u, NEW j \in DOMAIN u, u[i].pid = u[j].pid
               PROVE  i = j
    BY DEF Distinct
  <2>1. CASE i \in DOMAIN s /\ u[i] = s[i] /\ j \in DOMAIN s /\ u[j] = s[j]
    BY <2>1 DEF Distinct
  <2>2. CASE i - n \in DOMAIN t /\ u[i] = t[i - n] /\ j - n \in DOMAIN t /\ u[j] = t[j - n]
    <3>1. i - n = j - n
      BY <2>2 DEF Distinct
    <3>2. i \in Nat /\ j \in Nat
      BY <1>1, <1>3
    <3> QED BY <1>1, <3>1, <3>2
  <2> QED BY <1>5, <2>1, <2>2
<1>8. ToSet(u) = ToSet(s) \union ToSet(t)
  BY <1>5, <1>6 DEF ToSet
<1> QED BY <1>2, <1>7, <1>8 DEF u

(* One entry less, found by its position. *)
LEMMA RemovedOne ==
    ASSUME NEW S, NEW s \in Seq(S), Distinct(s), NEW i \in DOMAIN s
    PROVE  /\ RemoveAt(s, i) \in Seq(S)
           /\ Distinct(RemoveAt(s, i))
           /\ ToSet(RemoveAt(s, i)) = ToSet(s) \ {s[i]}
<1>1. s[i].pid \in PidsOf(s)
  BY DEF PidsOf
<1>2. RemoveAt(s, i) = Erased(s, s[i].pid)
  <2>1. (CHOOSE j \in DOMAIN s : s[j].pid = s[i].pid) = i
    BY DEF Distinct
  <2> QED BY <2>1 DEF Erased
<1>3. /\ Erased(s, s[i].pid) \in Seq(S) /\ Distinct(Erased(s, s[i].pid))
      /\ ToSet(Erased(s, s[i].pid)) = {e \in ToSet(s) : e.pid # s[i].pid}
  BY <1>1, ErasedOne, ErasedEntries
<1>4. {e \in ToSet(s) : e.pid # s[i].pid} = ToSet(s) \ {s[i]}
  BY DEF ToSet, Distinct
<1> QED BY <1>2, <1>3, <1>4

LEMMA ListedOnce ==
    ASSUME NEW S, IsFiniteSet(S), NEW s \in [1..Cardinality(S) -> S],
           \A i, j \in 1..Cardinality(S) : s[i] = s[j] => i = j
    PROVE  /\ s \in Seq(S) /\ Len(s) = Cardinality(S) /\ Cardinality(S) \in Nat
           /\ \A x \in S : \E i \in 1..Len(s) : s[i] = x
<1> DEFINE n == Cardinality(S)
<1>1. n \in Nat
  BY FS_CardinalityType
<1>2. s \in Seq(S) /\ Len(s) = n
  <2> HIDE DEF n
  <2>1. s \in [1..n -> S]
    BY DEF n
  <2>2. s \in Seq(S)
    BY <1>1, <2>1, FunctionsAreSequences
  <2>3. DOMAIN s = 1..n /\ DOMAIN s = 1..Len(s) /\ Len(s) \in Nat
    BY <2>1, <2>2, LenProperties
  <2> QED BY <1>1, <2>2, <2>3
<1>3. s \in Injection(1..n, S)
  BY DEF Injection, IsInjective
<1>4. s \in Surjection(1..n, S)
  <2>1. IsFiniteSet(1..n) /\ Cardinality(1..n) = n
    BY <1>1, FS_Interval
  <2> QED BY <1>3, <2>1, FS_Injection
<1> QED BY <1>1, <1>2, <1>4 DEF Surjection

(* A finite set is listed by SetToSeq. *)
LEMMA SetListed ==
    ASSUME NEW S, IsFiniteSet(S)
    PROVE  /\ SetToSeq(S) \in Seq(S) /\ Len(SetToSeq(S)) \in Nat
           /\ \A x \in S : \E i \in 1..Len(SetToSeq(S)) : SetToSeq(S)[i] = x
<1> DEFINE n == Cardinality(S)
           s == SetToSeq(S)
<1>1. n \in Nat /\ IsFiniteSet(1..n) /\ Cardinality(1..n) = n
  BY FS_CardinalityType, FS_Interval
<1>2. PICK f : f \in Bijection(1..n, S)
  BY <1>1, FS_SameCardinalityBij DEF ExistsBijection
<1>3. f \in [1..n -> S] /\ IsInjective(f)
  BY <1>2 DEF Bijection, Injection, IsInjective
<1>4. s \in [1..n -> S] /\ IsInjective(s)
  BY <1>3 DEF SetToSeq
<1> HIDE DEF s
<1>5. \A i, j \in 1..n : s[i] = s[j] => i = j
  BY <1>4 DEF IsInjective
<1> QED BY <1>4, <1>5, ListedOnce DEF s
=============================================================================
