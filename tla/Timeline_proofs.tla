-------------------------- MODULE Timeline_proofs ---------------------------
(***************************************************************************)
(* For any spans, periods and error of the clock.                          *)
(*   1. The list the pointers make, and what pushing and unlinking do to   *)
(*      it (no mention of the timeline's other variables).                 *)
(*   2. Types, and an interval starts once for each of its times.          *)
(*   3. The walk: the list ends, and loses spans only to two neighbours    *)
(*      that expire together.                                              *)
(*   4. With one effect that ends, as the firmware has: the list is sound, *)
(*      and the timeline implements Schedule.                              *)
(*   5. With an endless effect behind, as the firmware has: every frame    *)
(*      has something to show.                                             *)
(***************************************************************************)
EXTENDS Timeline, WellFoundedInduction, FiniteSetTheorems, TLAPS

(* 1. Lists.                                                               *)

LEMMA SmallestOf ==
  ASSUME NEW T, T \subseteq Nat, T # {}
  PROVE  \E k \in T : \A j \in T : k <= j
<1>1. \E k \in T : \A j \in T : ~(<<j, k>> \in OpToRel(<, Nat))
  BY NatLessThanWellFounded, WFMin, Zenon
<1>2. PICK k \in T : \A j \in T : ~(<<j, k>> \in OpToRel(<, Nat))
  BY <1>1, Zenon
<1>3. ASSUME NEW j \in T PROVE k <= j
  <2>1. j \in Nat /\ k \in Nat  BY <1>2
  <2>2. ~(<<j, k>> \in OpToRel(<, Nat))  BY <1>2
  <2>3. ~(j < k)  BY <2>1, <2>2 DEF OpToRel
  <2> QED  BY <2>1, <2>3
<1> QED  BY <1>3

(* The span a walk comes to behind c. *)
Step(c, behind) == IF c = NoSpan THEN NoSpan ELSE behind[c]

IsWalk(C, first, behind, n) ==
  C = [k \in 0..n |-> IF k = 0 THEN first ELSE Step(C[k - 1], behind)]

(* The first n pointers of a walk can be told without recursion: by the    *)
(* smallest n for which they could not.                                    *)
LEMMA WalkExists ==
  ASSUME NEW first, NEW behind, NEW n \in Nat
  PROVE  \E C : IsWalk(C, first, behind, n)
<1> USE DEF IsWalk
<1> DEFINE Walk(C, m) == IsWalk(C, first, behind, m)
           Stuck == {m \in Nat : ~ \E C : Walk(C, m)}
<1>1. SUFFICES ASSUME Stuck # {} PROVE FALSE  OBVIOUS
<1>2. PICK m \in Stuck : \A j \in Stuck : m <= j
  <2> HIDE DEF Stuck
  <2>1. Stuck \subseteq Nat  BY DEF Stuck
  <2> QED  BY <1>1, <2>1, SmallestOf
<1>3. m \in Nat  OBVIOUS
<1>4. m # 0
  <2>1. Walk([k \in 0..0 |-> first], 0)  OBVIOUS
  <2> QED  BY <2>1
<1>5. \E D : Walk(D, m - 1)
  <2>1. m - 1 \in Nat /\ ~(m <= m - 1)  BY <1>3, <1>4
  <2> QED  BY <1>2, <2>1
<1>6. PICK D : Walk(D, m - 1)  BY <1>5
<1> DEFINE E == [k \in 0..m |-> IF k = m THEN Step(D[m - 1], behind) ELSE D[k]]
<1>7. ASSUME NEW k \in 0..m
      PROVE  E[k] = IF k = 0 THEN first ELSE Step(E[k - 1], behind)
  <2>1. CASE k = m
    <3>1. E[m - 1] = D[m - 1]  BY <1>3, <1>4
    <3> QED  BY <1>3, <1>4, <2>1, <3>1
  <2>2. CASE k # m /\ k # 0
    <3>1. k \in 0..(m - 1) /\ k - 1 \in 0..m /\ k - 1 # m  BY <1>3, <2>2
    <3>2. E[k] = D[k] /\ E[k - 1] = D[k - 1]  BY <2>2, <3>1
    <3>3. D[k] = IF k = 0 THEN first ELSE Step(D[k - 1], behind)  BY <1>6, <3>1
    <3> QED  BY <2>2, <3>2, <3>3
  <2>3. CASE k = 0 /\ k # m
    <3>1. 0 \in 0..(m - 1)  BY <1>3, <1>4
    <3>2. D[0] = first  BY <1>6, <3>1
    <3> QED  BY <2>3, <3>2
  <2> QED  BY <2>1, <2>2, <2>3
<1>8. Walk(E, m)
  <2>1. E = [k \in 0..m |-> E[k]]  OBVIOUS
  <2> HIDE DEF E
  <2> QED  BY <1>7, <2>1
<1> QED  BY <1>8

LEMMA LengthNat == Length \in Nat
BY FS_CardinalityType, TimelineAssumption DEF Length

LEMMA PointersStep ==
  ASSUME NEW first, NEW behind
  PROVE  /\ Pointers(first, behind)[0] = first
         /\ \A k \in 0..Length :
              k # 0 => Pointers(first, behind)[k] = Step(Pointers(first, behind)[k - 1], behind)
<1> DEFINE P == Pointers(first, behind)
<1>1. \E C : IsWalk(C, first, behind, Length)  BY WalkExists, LengthNat
<1>2. P = CHOOSE C : IsWalk(C, first, behind, Length)  BY DEF Pointers, Step, IsWalk
<1>3. IsWalk(P, first, behind, Length)
  <2> HIDE DEF P
  <2> QED  BY <1>1, <1>2, Zenon
<1> HIDE DEF P
<1>4. ASSUME NEW k \in 0..Length PROVE P[k] = IF k = 0 THEN first ELSE Step(P[k - 1], behind)
  BY <1>3 DEF IsWalk
<1>5. 0 \in 0..Length  BY LengthNat
<1> QED  BY <1>4, <1>5 DEF P

(* The pointers of a list, whatever is on it. *)
IsList(first, behind) ==
  /\ first \in Spans \cup {NoSpan}
  /\ behind \in [Spans -> Spans \cup {NoSpan}]
  /\ Acyclic(behind)

LEMMA PointersType ==
  ASSUME NEW first, NEW behind, IsList(first, behind)
  PROVE  \A k \in 0..Length : Pointers(first, behind)[k] \in Spans \cup {NoSpan}
<1> DEFINE P   == Pointers(first, behind)
           Bad == {k \in 0..Length : P[k] \notin Spans \cup {NoSpan}}
<1> USE LengthNat
<1> HIDE DEF P
<1>1. SUFFICES ASSUME Bad # {} PROVE FALSE  BY DEF P
<1>2. Bad \subseteq Nat  OBVIOUS
<1>3. PICK k \in Bad : \A j \in Bad : k <= j
  <2> HIDE DEF Bad
  <2> QED  BY <1>1, <1>2, SmallestOf
<1>4. k # 0
  <2>1. P[0] = first  BY PointersStep DEF P
  <2> QED  BY <2>1 DEF IsList
<1>5. P[k] = Step(P[k - 1], behind)  BY <1>4, PointersStep DEF P
<1>6. k - 1 \in 0..Length /\ ~(k <= k - 1)  BY <1>4
<1>7. P[k - 1] \in Spans \cup {NoSpan}  BY <1>3, <1>6
<1> QED  BY <1>5, <1>7 DEF Step, IsList

(* Behind the end of a list a walk stays at its end. *)
LEMMA EndIsTheEnd ==
  ASSUME NEW first, NEW behind, NEW j \in 0..Length, NEW k \in 0..Length, j <= k,
         Pointers(first, behind)[j] = NoSpan
  PROVE  Pointers(first, behind)[k] = NoSpan
<1> DEFINE P   == Pointers(first, behind)
           Bad == {m \in j..Length : P[m] # NoSpan}
<1> USE LengthNat
<1>0. P[j] = NoSpan  OBVIOUS
<1> HIDE DEF P
<1>1. SUFFICES ASSUME Bad # {} PROVE FALSE
  <2>1. k \in j..Length  OBVIOUS
  <2> QED  BY <2>1 DEF P
<1>2. Bad \subseteq Nat  OBVIOUS
<1>3. PICK m \in Bad : \A n \in Bad : m <= n
  <2> HIDE DEF Bad
  <2> QED  BY <1>1, <1>2, SmallestOf
<1>4. m # j  BY <1>0
<1>5. m \in 0..Length /\ m # 0 /\ m - 1 \in j..Length /\ ~(m <= m - 1)  BY <1>4
<1>6. P[m - 1] = NoSpan  BY <1>3, <1>5
<1>7. P[m] = Step(P[m - 1], behind)  BY <1>5, PointersStep DEF P
<1> QED  BY <1>6, <1>7 DEF Step

(* A walk comes to no span twice. *)
LEMMA NoSpanTwice ==
  ASSUME NEW first, NEW behind, IsList(first, behind),
         NEW j \in 0..Length, NEW k \in 0..Length, j < k,
         Pointers(first, behind)[k] # NoSpan
  PROVE  Pointers(first, behind)[j] # Pointers(first, behind)[k]
<1> DEFINE P == Pointers(first, behind)
           X == {P[m] : m \in j..(k - 1)}
<1> USE LengthNat
<1>1. SUFFICES ASSUME P[j] = P[k] PROVE FALSE  OBVIOUS
<1>2. ASSUME NEW m \in j..k PROVE P[m] \in Spans
  <2>1. m \in 0..Length /\ m <= k  OBVIOUS
  <2>2. P[m] # NoSpan  BY <2>1, EndIsTheEnd
  <2> QED  BY <2>1, <2>2, PointersType
<1>3. P[k] # NoSpan  OBVIOUS
<1> HIDE DEF P
<1>4. X \subseteq Spans  BY <1>2
<1>5. P[j] \in X  OBVIOUS
<1>6. ASSUME NEW m \in j..(k - 1) PROVE behind[P[m]] \in X
  <2>1. m + 1 \in 0..Length /\ m + 1 # 0 /\ m + 1 \in j..k /\ (m + 1) - 1 = m  OBVIOUS
  <2>2. P[m + 1] = Step(P[m], behind)  BY <2>1, PointersStep DEF P
  <2>3. P[m] # NoSpan  BY <1>2, TimelineAssumption
  <2>4. behind[P[m]] = P[m + 1]  BY <2>2, <2>3 DEF Step
  <2>5. CASE m + 1 = k  BY <1>1, <1>5, <2>4, <2>5
  <2>6. CASE m + 1 # k
    <3>1. m + 1 \in j..(k - 1)  BY <2>6
    <3> QED  BY <2>4, <3>1
  <2> QED  BY <2>5, <2>6
<1>7. ASSUME NEW s \in X PROVE behind[s] \in X
  <2>1. PICK m \in j..(k - 1) : s = P[m]  OBVIOUS
  <2> QED  BY <1>6, <2>1
<1> HIDE DEF X
<1>8. \E s \in X : behind[s] \notin X  BY <1>4, <1>5 DEF IsList, Acyclic
<1> QED  BY <1>7, <1>8

(* A walk ends, as there are not more than Length spans to come to. *)
LEMMA WalkEnds ==
  ASSUME NEW first, NEW behind, IsList(first, behind)
  PROVE  Pointers(first, behind)[Length] = NoSpan
<1> DEFINE P == Pointers(first, behind)
           f == [k \in 0..Length |-> P[k]]
<1> USE LengthNat
<1>1. SUFFICES ASSUME P[Length] # NoSpan PROVE FALSE  OBVIOUS
<1>2. ASSUME NEW k \in 0..Length PROVE P[k] \in Spans
  <2>1. Length \in 0..Length /\ k <= Length  OBVIOUS
  <2>2. P[k] # NoSpan  BY <1>1, <2>1, EndIsTheEnd
  <2> QED  BY <2>2, PointersType
<1>3. ASSUME NEW j \in 0..Length, NEW k \in 0..Length, j < k PROVE P[j] # P[k]
  <2>1. P[k] # NoSpan  BY <1>2, TimelineAssumption
  <2> QED  BY <1>3, <2>1, NoSpanTwice
<1> HIDE DEF P
<1>4. f \in [0..Length -> Spans]  BY <1>2
<1>5. IsFiniteSet(0..Length) /\ Cardinality(0..Length) = Length + 1
  <2>1. 0 \in Int /\ Length \in Int  OBVIOUS
  <2> QED  BY <2>1, FS_Interval
<1>6. Cardinality(Spans) < Cardinality(0..Length) /\ IsFiniteSet(Spans)
  BY <1>5, TimelineAssumption DEF Length
<1>7. \E x, y \in 0..Length : x # y /\ f[x] = f[y]
  <2> HIDE DEF f
  <2> QED  BY <1>4, <1>5, <1>6, FS_PigeonHole
<1>8. PICK x \in 0..Length, y \in 0..Length : x # y /\ P[x] = P[y]  BY <1>7
<1>9. x < y \/ y < x  BY <1>8
<1> QED  BY <1>3, <1>8, <1>9

(* The spans on a list: the least set that holds the first one and, with   *)
(* every span, the one behind it.                                          *)
LEMMA OnListIsClosed ==
  ASSUME NEW first, NEW behind, IsList(first, behind)
  PROVE  /\ OnList(first, behind) \subseteq Spans
         /\ first \in OnList(first, behind) \cup {NoSpan}
         /\ \A s \in OnList(first, behind) : behind[s] \in OnList(first, behind) \cup {NoSpan}
<1> DEFINE P == Pointers(first, behind)
<1> USE LengthNat
<1>1. OnList(first, behind) = {P[k] : k \in 0..Length} \ {NoSpan}  BY DEF OnList
<1>2. \A k \in 0..Length : P[k] \in Spans \cup {NoSpan}  BY PointersType
<1>3. P[Length] = NoSpan  BY WalkEnds
<1>4. P[0] = first  BY PointersStep
<1>5. \A k \in 0..Length : k # 0 => P[k] = Step(P[k - 1], behind)  BY PointersStep
<1> HIDE DEF P
<1>6. OnList(first, behind) \subseteq Spans  BY <1>1, <1>2
<1>7. first \in OnList(first, behind) \cup {NoSpan}
  <2>1. 0 \in 0..Length  OBVIOUS
  <2> QED  BY <1>1, <1>4, <2>1
<1>8. ASSUME NEW s \in OnList(first, behind)
      PROVE  behind[s] \in OnList(first, behind) \cup {NoSpan}
  <2>1. PICK k \in 0..Length : s = P[k] /\ s # NoSpan  BY <1>1
  <2>2. k + 1 \in 0..Length /\ k + 1 # 0 /\ (k + 1) - 1 = k  BY <1>3, <2>1
  <2>3. P[k + 1] = behind[s]  BY <1>5, <2>1, <2>2 DEF Step
  <2> QED  BY <1>1, <2>2, <2>3
<1> QED  BY <1>6, <1>7, <1>8

LEMMA OnListIsLeast ==
  ASSUME NEW first, NEW behind, NEW X, first \in X \cup {NoSpan},
         \A s \in X : behind[s] \in X \cup {NoSpan}
  PROVE  OnList(first, behind) \subseteq X
<1> DEFINE P   == Pointers(first, behind)
           Bad == {k \in 0..Length : P[k] \notin X \cup {NoSpan}}
<1> USE LengthNat
<1>1. P[0] = first  BY PointersStep
<1>2. \A k \in 0..Length : k # 0 => P[k] = Step(P[k - 1], behind)  BY PointersStep
<1>3. OnList(first, behind) = {P[k] : k \in 0..Length} \ {NoSpan}  BY DEF OnList
<1> HIDE DEF P
<1>4. Bad = {}
  <2>1. SUFFICES ASSUME Bad # {} PROVE FALSE  OBVIOUS
  <2>2. Bad \subseteq Nat  OBVIOUS
  <2>3. PICK k \in Bad : \A j \in Bad : k <= j
    <3> HIDE DEF Bad
    <3> QED  BY <2>1, <2>2, SmallestOf
  <2>4. k # 0  BY <1>1
  <2>5. k - 1 \in 0..Length /\ ~(k <= k - 1)  BY <2>4
  <2>6. P[k - 1] \in X \cup {NoSpan}  BY <2>3, <2>5
  <2>7. P[k] = Step(P[k - 1], behind)  BY <1>2, <2>4
  <2> QED  BY <2>6, <2>7 DEF Step
<1> QED  BY <1>3, <1>4

(* Each span on a list but the first is behind one other.                  *)
LEMMA OneSpanBefore ==
  ASSUME NEW first, NEW behind, IsList(first, behind),
         NEW s \in OnList(first, behind)
  PROVE  /\ behind[s] # first \/ first = NoSpan
         /\ \A t \in OnList(first, behind) : behind[t] = behind[s] /\ behind[s] # NoSpan => t = s
<1> DEFINE P == Pointers(first, behind)
<1> USE LengthNat
<1>1. P[0] = first /\ P[Length] = NoSpan  BY PointersStep, WalkEnds
<1>2. \A k \in 0..Length : k # 0 => P[k] = Step(P[k - 1], behind)  BY PointersStep
<1>3. OnList(first, behind) = {P[k] : k \in 0..Length} \ {NoSpan}  BY DEF OnList
<1>4. \A j, k \in 0..Length : j < k /\ P[k] # NoSpan => P[j] # P[k]  BY NoSpanTwice
<1> HIDE DEF P
<1>5. ASSUME NEW t \in OnList(first, behind)
      PROVE  \E k \in 0..Length : k + 1 \in 0..Length /\ t = P[k] /\ P[k + 1] = behind[t]
  <2>1. PICK k \in 0..Length : t = P[k] /\ t # NoSpan  BY <1>3
  <2>2. k + 1 \in 0..Length /\ k + 1 # 0 /\ (k + 1) - 1 = k  BY <1>1, <2>1
  <2>3. P[k + 1] = behind[t]  BY <1>2, <2>1, <2>2 DEF Step
  <2> QED  BY <2>1, <2>2, <2>3
<1>6. PICK k \in 0..Length : k + 1 \in 0..Length /\ s = P[k] /\ P[k + 1] = behind[s]
  BY <1>5
<1>7. behind[s] # first \/ first = NoSpan
  <2>1. 0 \in 0..Length /\ 0 < k + 1  OBVIOUS
  <2> QED  BY <1>1, <1>4, <1>6, <2>1
<1>8. ASSUME NEW t \in OnList(first, behind), behind[t] = behind[s], behind[s] # NoSpan
      PROVE  t = s
  <2>1. PICK j \in 0..Length : j + 1 \in 0..Length /\ t = P[j] /\ P[j + 1] = behind[t]
    BY <1>5
  <2>2. ~(j + 1 < k + 1) /\ ~(k + 1 < j + 1)  BY <1>4, <1>6, <1>8, <2>1
  <2>3. j = k  BY <2>2
  <2> QED  BY <1>6, <2>1, <2>3
<1> QED  BY <1>7, <1>8

(* Pointers off the list do not matter. *)
LEMMA SameList ==
  ASSUME NEW first, NEW behind, IsList(first, behind), NEW behind2, IsList(first, behind2),
         \A s \in OnList(first, behind) : behind2[s] = behind[s]
  PROVE  OnList(first, behind2) = OnList(first, behind)
<1> DEFINE On  == OnList(first, behind)
           On2 == OnList(first, behind2)
           X   == {s \in On : s \in On2}
<1>1. /\ first \in On \cup {NoSpan} /\ first \in On2 \cup {NoSpan}
      /\ \A s \in On : behind[s] \in On \cup {NoSpan}
      /\ \A s \in On2 : behind2[s] \in On2 \cup {NoSpan}
  BY OnListIsClosed
<1>2. \A s \in On : behind2[s] = behind[s]  OBVIOUS
<1>3. On2 \subseteq On
  <2>1. \A s \in On : behind2[s] \in On \cup {NoSpan}  BY <1>1, <1>2
  <2> QED  BY <1>1, <2>1, OnListIsLeast
<1>4. On \subseteq X
  <2>1. first \in X \cup {NoSpan}  BY <1>1
  <2>2. \A s \in X : behind[s] \in X \cup {NoSpan}
    <3> HIDE DEF On, On2
    <3> QED  BY <1>1, <1>2
  <2> HIDE DEF X
  <2> QED  BY <2>1, <2>2, OnListIsLeast
<1> QED  BY <1>3, <1>4

LEMMA PushedList ==
  ASSUME NEW first, NEW behind, IsList(first, behind), NEW n \in Spans,
         n \notin OnList(first, behind), NEW behind2,
         behind2 \in [Spans -> Spans \cup {NoSpan}],
         \A s \in Spans : behind2[s] = IF s = n THEN first ELSE behind[s]
  PROVE  /\ IsList(n, behind2)
         /\ OnList(n, behind2) = OnList(first, behind) \cup {n}
<1> DEFINE On  == OnList(first, behind)
           On2 == OnList(n, behind2)
           X   == {s \in On : s \in On2}
<1>1. /\ On \subseteq Spans /\ first \in On \cup {NoSpan}
      /\ \A s \in On : behind[s] \in On \cup {NoSpan}
  BY OnListIsClosed
<1>2. /\ n \notin On /\ NoSpan \notin Spans
      /\ behind \in [Spans -> Spans \cup {NoSpan}] /\ Acyclic(behind)
  BY TimelineAssumption DEF IsList
<1>3. behind2 \in [Spans -> Spans \cup {NoSpan}]
      /\ \A s \in Spans : behind2[s] = IF s = n THEN first ELSE behind[s]
  BY <1>1, <1>2
<1> HIDE DEF On, On2
<1>4. Acyclic(behind2)
  <2>1. SUFFICES ASSUME NEW Y \in SUBSET Spans, Y # {}
                 PROVE  \E s \in Y : behind2[s] \notin Y
    BY DEF Acyclic
  <2>2. CASE n \notin Y
    <3>1. PICK s \in Y : behind[s] \notin Y  BY <1>2, <2>1 DEF Acyclic
    <3> QED  BY <1>3, <2>2, <3>1
  <2>3. CASE n \in Y /\ first \notin Y  BY <1>3, <2>3
  <2>4. CASE n \in Y /\ first \in Y
    <3>1. first \in Y \cap On  BY <1>1, <1>2, <2>4
    <3>2. PICK s \in Y \cap On : behind[s] \notin Y \cap On
      BY <1>2, <3>1 DEF Acyclic
    <3>3. behind[s] \notin Y  BY <1>1, <1>2, <3>2
    <3>4. behind2[s] = behind[s]  BY <1>2, <1>3, <3>2
    <3> QED  BY <3>2, <3>3, <3>4
  <2> QED  BY <2>2, <2>3, <2>4
<1>5. IsList(n, behind2)  BY <1>3, <1>4 DEF IsList
<1>6. /\ n \in On2 \cup {NoSpan}
      /\ \A s \in On2 : behind2[s] \in On2 \cup {NoSpan}
  BY <1>5, OnListIsClosed DEF On2
<1>7. On2 \subseteq On \cup {n}
  <2>1. \A s \in On \cup {n} : behind2[s] \in (On \cup {n}) \cup {NoSpan}  BY <1>1, <1>3
  <2>2. n \in (On \cup {n}) \cup {NoSpan}  OBVIOUS
  <2> QED  BY <2>1, <2>2, OnListIsLeast DEF On2
<1>8. n \in On2  BY <1>2, <1>6
<1>9. On \subseteq X
  <2>1. first \in X \cup {NoSpan}  BY <1>1, <1>3, <1>6, <1>8
  <2>2. \A s \in X : behind[s] \in X \cup {NoSpan}  BY <1>1, <1>2, <1>3, <1>6
  <2> HIDE DEF X
  <2> QED  BY <2>1, <2>2, OnListIsLeast DEF On
<1>10. On2 = On \cup {n}  BY <1>7, <1>8, <1>9
<1> QED  BY <1>5, <1>10 DEF On, On2

(* Pointers may be led past a span or reset.                               *)
LEMMA ShortenedIsAcyclic ==
  ASSUME NEW behind, Acyclic(behind), NEW s \in Spans, NEW behind2,
         \A b \in Spans : \/ behind2[b] = behind[b] \/ behind2[b] = NoSpan
                          \/ behind[b] = s /\ behind2[b] = behind[s]
  PROVE  Acyclic(behind2)
<1> USE TimelineAssumption
<1> SUFFICES ASSUME NEW X \in SUBSET Spans, X # {} PROVE \E t \in X : behind2[t] \notin X
  BY DEF Acyclic
<1>1. CASE s \in X
  <2>1. PICK t \in X : behind[t] \notin X  BY DEF Acyclic
  <2> QED  BY <1>1, <2>1
<1>2. CASE \E b \in X : behind[b] = s /\ behind2[b] = behind[s] /\ s \notin X
  <2>1. X \cup {s} \in SUBSET Spans /\ X \cup {s} # {}  OBVIOUS
  <2>2. PICK t \in X \cup {s} : behind[t] \notin X \cup {s}  BY <2>1 DEF Acyclic
  <2>3. CASE t = s  BY <1>2, <2>2, <2>3
  <2>4. CASE t # s  BY <2>2, <2>4
  <2> QED  BY <2>3, <2>4
<1>3. CASE ~ \E b \in X : behind[b] = s /\ behind2[b] = behind[s]
  <2>1. PICK t \in X : behind[t] \notin X  BY DEF Acyclic
  <2> QED  BY <1>3, <2>1
<1> QED  BY <1>1, <1>2, <1>3

LEMMA UnlinkedList ==
  ASSUME NEW first, NEW behind, IsList(first, behind), NEW s \in OnList(first, behind),
         NEW first2, NEW behind2, IsList(first2, behind2),
         first2 = IF first = s THEN behind[s] ELSE first,
         \A b \in OnList(first, behind) \ {s} :
           behind2[b] = IF behind[b] = s THEN behind[s] ELSE behind[b]
  PROVE  OnList(first2, behind2) = OnList(first, behind) \ {s}
<1> DEFINE On  == OnList(first, behind)
           On2 == OnList(first2, behind2)
           X   == {x \in On : /\ x = s => behind[s] \in On2 \cup {NoSpan}
                              /\ x # s => x \in On2}
<1>1. /\ On \subseteq Spans /\ first \in On \cup {NoSpan}
      /\ \A x \in On : behind[x] \in On \cup {NoSpan}
  BY OnListIsClosed
<1>2. /\ first2 \in On2 \cup {NoSpan}
      /\ \A x \in On2 : behind2[x] \in On2 \cup {NoSpan}
  BY OnListIsClosed
<1>3. NoSpan \notin Spans /\ s \in On /\ s \in Spans  BY <1>1, TimelineAssumption
<1>4. /\ first2 = IF first = s THEN behind[s] ELSE first
      /\ \A b \in On \ {s} : behind2[b] = IF behind[b] = s THEN behind[s] ELSE behind[b]
  OBVIOUS
<1>5. behind[s] # s
  <2>1. \E x \in {s} : behind[x] \notin {s}  BY <1>3 DEF IsList, Acyclic
  <2> QED  BY <2>1
<1> HIDE DEF On, On2
<1>6. On2 \subseteq On \ {s}
  <2> DEFINE Y == On \ {s}
  <2>1. first2 \in Y \cup {NoSpan}  BY <1>1, <1>3, <1>4, <1>5
  <2>2. \A b \in Y : behind2[b] \in Y \cup {NoSpan}
    BY <1>1, <1>3, <1>4, <1>5
  <2> HIDE DEF Y
  <2>3. On2 \subseteq Y  BY <2>1, <2>2, OnListIsLeast DEF On2
  <2> QED  BY <2>3 DEF Y
<1>7. On \subseteq X
  <2>1. first \in X \cup {NoSpan}  BY <1>1, <1>2, <1>3, <1>4
  <2>2. ASSUME NEW x \in X PROVE behind[x] \in X \cup {NoSpan}
    <3>1. CASE x = s  BY <1>1, <1>5, <2>2, <3>1
    <3>2. CASE x # s /\ behind[x] = s
      <4>1. behind2[x] = behind[s]  BY <1>4, <3>2
      <4>2. behind[s] \in On2 \cup {NoSpan}  BY <1>2, <2>2, <3>2, <4>1
      <4> QED  BY <1>3, <3>2, <4>2
    <3>3. CASE x # s /\ behind[x] # s
      <4>1. behind2[x] = behind[x]  BY <1>4, <3>3
      <4>2. behind[x] \in On2 \cup {NoSpan}  BY <1>2, <2>2, <3>3, <4>1
      <4> QED  BY <1>1, <2>2, <3>3, <4>2
    <3> QED  BY <3>1, <3>2, <3>3
  <2> HIDE DEF X
  <2> QED  BY <2>1, <2>2, OnListIsLeast DEF On
<1> QED  BY <1>6, <1>7 DEF On, On2

LEMMA SomeSpanBefore ==
  ASSUME NEW first, NEW behind, IsList(first, behind), NEW s \in OnList(first, behind), first # s
  PROVE  \E b \in OnList(first, behind) : behind[b] = s
<1> DEFINE On == OnList(first, behind)
           X  == On \ {s}
<1> SUFFICES ASSUME \A b \in On : behind[b] # s PROVE FALSE  OBVIOUS
<1>1. first \in On \cup {NoSpan} /\ \A b \in On : behind[b] \in On \cup {NoSpan}
  BY OnListIsClosed
<1>2. s \in On  OBVIOUS
<1> HIDE DEF On
<1>3. first \in X \cup {NoSpan}  BY <1>1
<1>4. \A b \in X : behind[b] \in X \cup {NoSpan}  BY <1>1
<1> HIDE DEF X
<1>5. On \subseteq X  BY <1>3, <1>4, OnListIsLeast DEF On
<1> QED  BY <1>2, <1>5 DEF X

-----------------------------------------------------------------------------

(* 2. Types and intervals.                                                 *)

(* What Top and Below return is a span of the type that was asked for, or  *)
(* no span.                                                                *)
LEMMA FirstOfType ==
  ASSUME NEW at, NEW except
  PROVE  FirstOf("Effect", at, except) \in Effects \cup {NoSpan}
<1> DEFINE showing == {k \in 0..Length : /\ Chain[k] \notin {NoSpan, except}
                                         /\ Shows(Chain[k], "Effect", at)}
<1>1. FirstOf("Effect", at, except)
        = IF showing = {} THEN NoSpan
          ELSE Chain[CHOOSE k \in showing : \A j \in showing : k <= j]
  BY DEF FirstOf
<1>2. CASE showing # {}
  <2>1. \E k \in showing : \A j \in showing : k <= j
    <3>1. showing \subseteq Nat  BY FS_CardinalityType, TimelineAssumption DEF Length
    <3> HIDE DEF showing
    <3> QED  BY <1>2, <3>1, SmallestOf
  <2>2. (CHOOSE k \in showing : \A j \in showing : k <= j) \in showing
    BY <2>1, Zenon
  <2>3. ASSUME NEW k \in showing PROVE Chain[k] \in Effects
    BY DEF Shows, OfType
  <2> HIDE DEF showing
  <2> QED  BY <1>1, <1>2, <2>2, <2>3, Zenon
<1>3. CASE showing = {}  BY <1>1, <1>3, Zenon
<1> QED  BY <1>2, <1>3

-----------------------------------------------------------------------------
LEMMA TypeInit == Init => TypeOK
<1> SUFFICES ASSUME Init PROVE TypeOK  OBVIOUS
<1>1. active \in [Spans -> BOOLEAN]  BY DEF Init
<1>2. startedFor \in [Spans \ Effects -> Nat \cup {-1}]  BY DEF Init
<1>3. now \in 0..MaxTime  BY TimelineAssumption DEF Init
<1>4. committed \in BOOLEAN  BY DEF Init
<1>5. head \in Spans \cup {NoSpan} /\ next \in [Spans -> Spans \cup {NoSpan}] /\ time \in [Spans -> Nat]
  BY TimelineAssumption DEF Init
<1> QED  BY <1>1, <1>2, <1>3, <1>4, <1>5 DEF Init, TypeOK

LEMMA ReadingsAreNat == TypeOK => Readings \subseteq Nat /\ \A at \in Readings : Skew <= at
BY TimelineAssumption DEF Readings, TypeOK

LEMMA PushType ==
  ASSUME TypeOK, NEW s \in Spans, Push(s)
  PROVE  head' \in Spans \cup {NoSpan} /\ next' \in [Spans -> Spans \cup {NoSpan}]
BY DEF Push, TypeOK

LEMMA ClientType == ASSUME TypeOK, NEW s \in Spans, Client(s) PROVE TypeOK'
<1> USE DEF locals, history
<1>1. CASE Add(s)
  <2>1. PICK at \in Readings : time' = [time EXCEPT ![s] = at]  BY <1>1 DEF Add
  <2>2. time' \in [Spans -> Nat]  BY <2>1, ReadingsAreNat DEF TypeOK
  <2>3. Push(s) /\ UNCHANGED <<active, now, pc, locals, history>>  BY <1>1 DEF Add
  <2> QED  BY <2>2, <2>3, PushType DEF TypeOK
<1>2. CASE Remove(s)  BY <1>2, TimelineAssumption DEF Remove, TypeOK
<1> QED  BY <1>1, <1>2 DEF Client

LEMMA BeginWalkType ==
  ASSUME TypeOK, NEW t \in {"Effect", "Interval"}, BeginWalk(t), UNCHANGED <<painted, startedFor>>,
         committed' \in BOOLEAN
  PROVE  TypeOK'
<1>1. PICK at \in Readings : snapshot' = at  BY DEF BeginWalk
<1>2. snapshot' \in Nat  BY <1>1, ReadingsAreNat
<1>3. type' = t /\ p' = NoSpan /\ i' = head /\ collected' = {} /\ pc' = "start"
      /\ UNCHANGED <<head, next, active, time, now>>
  BY DEF BeginWalk, list
<1> QED  BY <1>2, <1>3 DEF TypeOK

LEMMA StartType == ASSUME TypeOK, StartSpan PROVE TypeOK'
<1>1. /\ i \in Spans /\ pc' = "expire"
      /\ UNCHANGED <<now, type, snapshot, p, i, collected, painted, committed>>
  BY DEF StartSpan, locals, TypeOK
<1>2. CASE OfType(i, type) /\ IsDue(i)
  <2>1. /\ active' = [active EXCEPT ![i] = TRUE]
        /\ startedFor' = [s \in Spans \ Effects |-> IF s = i THEN time[i] ELSE startedFor[s]]
        /\ StartCallback(i)
    BY <1>2 DEF StartSpan
  <2>2. startedFor' \in [Spans \ Effects -> Nat \cup {-1}]  BY <1>1, <2>1 DEF TypeOK
  <2>3. /\ head' \in Spans \cup {NoSpan} /\ next' \in [Spans -> Spans \cup {NoSpan}]
        /\ time' \in [Spans -> Nat]
    <3>1. CASE Spawns[i] # NoSpan /\ Spawns[i] \notin Scheduled
      <4>1. Push(Spawns[i]) /\ \E at \in Readings : time' = [time EXCEPT ![Spawns[i]] = at]
        BY <2>1, <3>1 DEF StartCallback
      <4>2. Spawns[i] \in Spans  BY <1>1, <3>1, TimelineAssumption
      <4>3. time' \in [Spans -> Nat]  BY <4>1, <4>2, ReadingsAreNat DEF TypeOK
      <4> QED  BY <4>1, <4>2, <4>3, PushType
    <3>2. CASE ~(Spawns[i] # NoSpan /\ Spawns[i] \notin Scheduled)
      <4>1. UNCHANGED <<head, next, time>>  BY <2>1, <3>2 DEF StartCallback, list
      <4> QED  BY <4>1 DEF TypeOK
    <3> QED  BY <3>1, <3>2
  <2> QED  BY <1>1, <2>1, <2>2, <2>3 DEF TypeOK
<1>3. CASE ~(OfType(i, type) /\ IsDue(i))
  <2>1. UNCHANGED <<active, startedFor, head, next, time>>  BY <1>3 DEF StartSpan, list
  <2> QED  BY <1>1, <2>1 DEF TypeOK
<1> QED  BY <1>2, <1>3

(* The pointer of a walk is at a span whenever it looks whether that is    *)
(* over.                                                                   *)
AtASpan == pc = "expire" => i # NoSpan

LEMMA ExpireType == ASSUME TypeOK, AtASpan, ExpireSpan PROVE TypeOK'
<1>1. /\ i \in Spans /\ pc = "expire" /\ pc' = "start" /\ p' = i /\ i' = next'[i]
      /\ UNCHANGED <<now, type, snapshot, painted, committed, startedFor>>
  BY DEF ExpireSpan, history, TypeOK, AtASpan
<1>2. /\ head' \in Spans \cup {NoSpan} /\ next' \in [Spans -> Spans \cup {NoSpan}]
      /\ active' \in [Spans -> BOOLEAN] /\ time' \in [Spans -> Nat]
      /\ collected' \subseteq Finite \cap Effects
  <2>1. CASE OfType(i, type) /\ IsOver(i) /\ type = "Effect"
    <3>1. Unlink(i, p) /\ collected' = collected \cup {i} /\ UNCHANGED <<active, time>>
      BY <2>1 DEF ExpireSpan
    <3>2. i \in Finite \cap Effects  BY <1>1, <2>1 DEF OfType, IsOver, Finite
    <3> QED  BY <1>1, <3>1, <3>2 DEF Unlink, TypeOK
  <2>2. CASE OfType(i, type) /\ IsOver(i) /\ type # "Effect"
    <3>1. Reschedule(i) /\ active' = [active EXCEPT ![i] = FALSE]
          /\ UNCHANGED <<head, next, collected>>
      BY <2>2 DEF ExpireSpan, list
    <3>2. PICK d \in Periods[i] : time' = [time EXCEPT ![i] = time[i] + d]
      BY <3>1 DEF Reschedule
    <3>3. d \in Nat  BY <1>1, TimelineAssumption
    <3> QED  BY <1>1, <3>1, <3>2, <3>3 DEF TypeOK
  <2>3. CASE ~(OfType(i, type) /\ IsOver(i))
    <3>1. UNCHANGED <<head, next, active, time, collected>>  BY <2>3 DEF ExpireSpan, list
    <3> QED  BY <3>1 DEF TypeOK
  <2> QED  BY <2>1, <2>2, <2>3
<1> QED  BY <1>1, <1>2 DEF TypeOK

LEMMA CollectType == ASSUME TypeOK, Collect PROVE TypeOK'
<1>1. /\ type' = "Interval" /\ snapshot' = 0 /\ p' = NoSpan /\ i' = NoSpan /\ collected' = {}
      /\ pc' \in {"effects", "valid"}
      /\ UNCHANGED <<head, time, now, painted, committed, startedFor>>
  BY DEF Collect, OutOfScope, history
<1>2. next' \in [Spans -> Spans \cup {NoSpan}]  BY DEF Collect, TypeOK
<1>3. active' \in [Spans -> BOOLEAN]
  <2>1. ASSUME NEW s \in Spans PROVE (active[s] /\ s \notin collected) \in BOOLEAN
    BY Zenon
  <2> QED  BY <2>1, Zenon DEF Collect
<1> QED  BY <1>1, <1>2, <1>3 DEF TypeOK

LEMMA ShowType == ASSUME TypeOK, Valid \/ Calc \/ Commit PROVE TypeOK'
<1>1. CASE Valid
  <2>1. pc' \in {"calc", "wait"} /\ UNCHANGED <<head, next, active, time, now, type, snapshot, p,
                                               i, collected, painted, committed, startedFor>>
    BY <1>1 DEF Valid, list, locals, history
  <2> QED  BY <2>1 DEF TypeOK
<1>2. CASE Calc
  <2>1. painted' \subseteq Spans \cup {NoSpan}
    <3>1. PICK at \in Readings, below \in Readings :
            LET s == Top("Effect", at)
            IN  painted' = {s} \cup IF s \in CallsBelow THEN {Below(s, "Effect", below)} ELSE {}
      BY <1>2 DEF Calc
    <3>2. Top("Effect", at) \in Effects \cup {NoSpan}  BY FirstOfType DEF Top
    <3>3. Below(Top("Effect", at), "Effect", below) \in Effects \cup {NoSpan}
      BY FirstOfType DEF Below
    <3> QED  BY <3>1, <3>2, <3>3, TimelineAssumption
  <2>2. pc' = "commit" /\ UNCHANGED <<head, next, active, time, now, type, snapshot, p, i,
                                      collected, committed, startedFor>>
    BY <1>2 DEF Calc, list, locals
  <2> QED  BY <2>1, <2>2 DEF TypeOK
<1>3. CASE Commit
  <2>1. committed' \in BOOLEAN
    <3>1. PICK at \in Readings : committed' = (Top("Effect", at) # NoSpan)
      BY <1>3 DEF Commit
    <3>2. committed' = TRUE \/ committed' = FALSE  BY <3>1
    <3> QED  BY <3>2, Zenon
  <2>2. pc' = "wait" /\ painted' = {}
        /\ UNCHANGED <<head, next, active, time, now, type, snapshot, p, i, collected, startedFor>>
    BY <1>3 DEF Commit, list, locals
  <2> QED  BY <2>1, <2>2 DEF TypeOK
<1> QED  BY <1>1, <1>2, <1>3

LEMMA TypeStep == TypeOK /\ AtASpan /\ [Next]_vars => TypeOK' /\ AtASpan'
<1> SUFFICES ASSUME TypeOK, AtASpan, [Next]_vars PROVE TypeOK' /\ AtASpan'
  OBVIOUS
<1>1. TypeOK'
  <2>1. CASE TimePasses
    <3>1. now' = now + 1 /\ now < MaxTime
          /\ UNCHANGED <<head, next, active, time, pc, type, snapshot, p, i, collected,
                         painted, committed, startedFor>>
      BY <2>1 DEF TimePasses, list, locals, history
    <3>2. now' \in 0..MaxTime  BY <3>1, TimelineAssumption DEF TypeOK
    <3> QED  BY <3>1, <3>2 DEF TypeOK
  <2>2. CASE ProcessInterval  BY <2>2, BeginWalkType DEF ProcessInterval
  <2>3. CASE ProcessEffect
    <3>1. BeginWalk("Effect") /\ UNCHANGED <<painted, committed, startedFor>>
      BY <2>3 DEF ProcessEffect, history
    <3> QED  BY <3>1, BeginWalkType DEF TypeOK
  <2>4. CASE UNCHANGED vars  BY <2>4 DEF vars, list, locals, history, TypeOK
  <2> QED
    BY <2>1, <2>2, <2>3, <2>4, StartType, ExpireType, CollectType, ShowType, ClientType
       DEF Next, Frame
<1>2. AtASpan'
  <2>1. CASE StartSpan  BY <2>1 DEF StartSpan, locals, AtASpan
  <2>2. CASE ProcessInterval \/ ProcessEffect  BY <2>2 DEF ProcessInterval, ProcessEffect, BeginWalk, AtASpan
  <2>3. CASE ExpireSpan \/ Collect  BY <2>3 DEF ExpireSpan, Collect, AtASpan
  <2>4. CASE Valid \/ Calc \/ Commit  BY <2>4 DEF Valid, Calc, Commit, AtASpan
  <2>5. CASE TimePasses \/ UNCHANGED vars  BY <2>5 DEF TimePasses, vars, locals, AtASpan
  <2>6. CASE \E s \in Spans : Client(s)
    <3>1. UNCHANGED <<pc, i>>  BY <2>6 DEF Client, Add, Remove, locals
    <3> QED  BY <3>1 DEF AtASpan
  <2> QED  BY <2>1, <2>2, <2>3, <2>4, <2>5, <2>6 DEF Next, Frame
<1> QED  BY <1>1, <1>2

LEMMA AlwaysTyped == Spec => [](TypeOK /\ AtASpan)
<1>1. Init => TypeOK /\ AtASpan
  BY TypeInit DEF Init, AtASpan
<1> QED  BY <1>1, TypeStep, PTL DEF Spec

(* The variables keep their types; in particular only effects of finite    *)
(* duration are ever collected (timeline.cpp:157), and Top and Below show  *)
(* effects only.                                                           *)
THEOREM TypeCorrect == Spec => []TypeOK
BY AlwaysTyped, PTL

-----------------------------------------------------------------------------
(* An interval is active from its start to its rescheduling, and while it  *)
(* is not its time lies behind the one it last started for; a walk that is *)
(* past its start has started it if it is due.                             *)
StartedForInv ==
  /\ \A s \in Spans \ Effects :
       /\ active[s] => startedFor[s] = time[s]
       /\ ~active[s] => startedFor[s] < time[s]
  /\ pc = "expire" /\ OfType(i, type) /\ time[i] <= snapshot => active[i]

OncePerTime ==
  \A s \in Spans \ Effects :
    /\ active'[s] /\ ~active[s] => startedFor[s] # time[s]
    /\ time'[s] # time[s] /\ s \in Scheduled => startedFor[s] = time[s]

LEMMA StartedForInit == Init => StartedForInv
BY TimelineAssumption DEF Init, StartedForInv

LEMMA StartStep ==
  ASSUME LikeTheFirmware, TypeOK, StartedForInv, StartSpan
  PROVE  StartedForInv' /\ OncePerTime
<1>1. /\ i \in Spans /\ pc' = "expire" /\ pc = "start" /\ i' = i /\ type' = type /\ snapshot' = snapshot
  BY DEF StartSpan, locals, TypeOK
<1>2. CASE OfType(i, type) /\ IsDue(i)
  <2>1. /\ active' = [active EXCEPT ![i] = TRUE]
        /\ startedFor' = [s \in Spans \ Effects |-> IF s = i THEN time[i] ELSE startedFor[s]]
        /\ StartCallback(i) /\ ~active[i]
    BY <1>2 DEF StartSpan, IsDue
  <2>2. ASSUME NEW s \in Spans \ Effects PROVE time'[s] = time[s]
    <3>1. CASE Spawns[i] # NoSpan /\ Spawns[i] \notin Scheduled
      <4>1. PICK at \in Readings : time' = [time EXCEPT ![Spawns[i]] = at]
        BY <2>1, <3>1 DEF StartCallback
      <4>2. Spawns[i] \in Effects  BY <1>1, <3>1 DEF LikeTheFirmware
      <4> QED  BY <4>1, <4>2 DEF TypeOK
    <3>2. CASE ~(Spawns[i] # NoSpan /\ Spawns[i] \notin Scheduled)
      BY <2>1, <3>2 DEF StartCallback
    <3> QED  BY <3>1, <3>2
  <2>3. ASSUME NEW s \in Spans \ Effects
        PROVE  /\ active'[s] => startedFor'[s] = time'[s]
               /\ ~active'[s] => startedFor'[s] < time'[s]
    <3>1. CASE s = i  BY <2>1, <2>2, <3>1 DEF TypeOK
    <3>2. CASE s # i
      <4>1. active'[s] = active[s] /\ startedFor'[s] = startedFor[s] /\ time'[s] = time[s]
        BY <2>1, <2>2, <3>2 DEF TypeOK
      <4> QED  BY <4>1 DEF StartedForInv
    <3> QED  BY <3>1, <3>2
  <2>4. active'[i']  BY <1>1, <2>1 DEF TypeOK
  <2>5. OncePerTime
    <3> SUFFICES ASSUME NEW s \in Spans \ Effects, active'[s], ~active[s]
                 PROVE  startedFor[s] # time[s]
      BY <2>2 DEF OncePerTime
    <3>1. startedFor[s] < time[s] /\ startedFor[s] \in Int /\ time[s] \in Int
      BY DEF StartedForInv, TypeOK
    <3> QED  BY <3>1
  <2> QED  BY <2>3, <2>4, <2>5 DEF StartedForInv
<1>3. CASE ~(OfType(i, type) /\ IsDue(i))
  <2>1. UNCHANGED <<active, startedFor, time>>  BY <1>3 DEF StartSpan
  <2>2. OfType(i, type) /\ time[i] <= snapshot => active[i]  BY <1>3 DEF IsDue
  <2> QED  BY <1>1, <2>1, <2>2 DEF StartedForInv, OncePerTime, OfType
<1> QED  BY <1>2, <1>3

(* An interval that is over is due, so it is active: it has started for    *)
(* this time, and moves on to a later one.                                 *)
LEMMA ExpireStep ==
  ASSUME LikeTheFirmware, TypeOK, AtASpan, StartedForInv, ExpireSpan
  PROVE  StartedForInv' /\ OncePerTime
<1>1. /\ i \in Spans /\ pc = "expire" /\ pc' = "start" /\ startedFor' = startedFor
  BY DEF ExpireSpan, history, TypeOK, AtASpan
<1>2. CASE OfType(i, type) /\ IsOver(i) /\ type # "Effect"
  <2>1. Reschedule(i) /\ active' = [active EXCEPT ![i] = FALSE]
    BY <1>2 DEF ExpireSpan
  <2>2. i \in Spans \ Effects  BY <1>1, <1>2 DEF OfType
  <2>3. PICK d \in Periods[i] : time' = [time EXCEPT ![i] = time[i] + d]
    BY <2>1 DEF Reschedule
  <2>4. d \in Nat /\ d > 0  BY <2>2, <2>3 DEF LikeTheFirmware
  <2>5. active[i]
    <3>1. Duration[i] \in Nat /\ time[i] + Duration[i] < snapshot
      BY <1>1, <1>2, TimelineAssumption DEF IsOver
    <3>2. time[i] <= snapshot  BY <1>1, <3>1 DEF TypeOK
    <3> QED  BY <1>1, <1>2, <3>2 DEF StartedForInv
  <2>6. startedFor[i] = time[i] /\ time[i] \in Nat  BY <2>2, <2>5 DEF StartedForInv, TypeOK
  <2>7. time'[i] = time[i] + d /\ ~active'[i]  BY <1>1, <2>1, <2>3 DEF TypeOK
  <2>8. ASSUME NEW s \in Spans, s # i PROVE time'[s] = time[s] /\ active'[s] = active[s]
    BY <2>1, <2>3, <2>8 DEF TypeOK
  <2>9. ASSUME NEW s \in Spans \ Effects
        PROVE  /\ active'[s] => startedFor[s] = time'[s]
               /\ ~active'[s] => startedFor[s] < time'[s]
    <3>1. CASE s = i
      <4>1. time[i] < time[i] + d  BY <2>4, <2>6
      <4>2. startedFor[i] < time'[i]  BY <2>6, <2>7, <4>1, Zenon
      <4> QED  BY <2>7, <3>1, <4>2, Zenon
    <3>2. CASE s # i  BY <2>8, <3>2 DEF StartedForInv
    <3> QED  BY <3>1, <3>2
  <2>10. StartedForInv'  BY <1>1, <2>9 DEF StartedForInv
  <2>11. OncePerTime  BY <2>6, <2>7, <2>8 DEF OncePerTime
  <2> QED  BY <2>10, <2>11
<1>3. CASE ~(OfType(i, type) /\ IsOver(i) /\ type # "Effect")
  <2>1. UNCHANGED <<active, time>>  BY <1>3 DEF ExpireSpan
  <2> QED  BY <1>1, <2>1 DEF StartedForInv, OncePerTime
<1> QED  BY <1>2, <1>3

LEMMA OtherStep ==
  ASSUME LikeTheFirmware, TypeOK, StartedForInv, [Next]_vars, ~StartSpan, ~ExpireSpan
  PROVE  StartedForInv' /\ OncePerTime
<1>1. CASE Collect
  <2>1. UNCHANGED <<time, startedFor>> /\ pc' \in {"effects", "valid"}
    BY <1>1 DEF Collect, history
  <2>2. ASSUME NEW s \in Spans \ Effects PROVE active'[s] = active[s]
    <3>1. s \notin collected  BY DEF TypeOK
    <3>2. active'[s] = (active[s] /\ s \notin collected)  BY <1>1, Zenon DEF Collect
    <3>3. active[s] \in BOOLEAN  BY DEF TypeOK
    <3>4. CASE active[s] = TRUE  BY <3>1, <3>2, <3>4, Zenon
    <3>5. CASE active[s] = FALSE  BY <3>2, <3>5, Zenon
    <3> QED  BY <3>3, <3>4, <3>5, Zenon
  <2> QED  BY <2>1, <2>2 DEF StartedForInv, OncePerTime
<1>2. CASE TimePasses \/ UNCHANGED vars
  <2>1. UNCHANGED <<active, time, startedFor, pc, i, type, snapshot>>
    BY <1>2 DEF TimePasses, vars, locals, history
  <2> QED  BY <2>1 DEF StartedForInv, OncePerTime, OfType
<1>3. CASE ProcessInterval \/ ProcessEffect \/ Valid \/ Calc \/ Commit
  <2>1. UNCHANGED <<active, time, startedFor>> /\ pc' # "expire"
    BY <1>3 DEF ProcessInterval, ProcessEffect, BeginWalk, Valid, Calc, Commit, history
  <2> QED  BY <2>1 DEF StartedForInv, OncePerTime
<1>4. ~(\E s \in Spans : Client(s))  BY DEF Client, LikeTheFirmware
<1> QED  BY <1>1, <1>2, <1>3, <1>4 DEF Next, Frame

(* For every list of spans like the firmware's, every period and every     *)
(* error of the clock: an interval starts exactly once for each of its     *)
(* times (timeline.cpp, Process).                                          *)
THEOREM IntervalsStartOnce ==
  ASSUME LikeTheFirmware
  PROVE  Spec => IntervalStartsOncePerTime
<1>1. TypeOK /\ AtASpan /\ StartedForInv /\ [Next]_vars => StartedForInv' /\ [OncePerTime]_vars
  BY StartStep, ExpireStep, OtherStep
<1>2. Spec => [][OncePerTime]_vars
  BY <1>1, StartedForInit, AlwaysTyped, PTL DEF Spec
<1> QED  BY <1>2 DEF IntervalStartsOncePerTime, OncePerTime

-----------------------------------------------------------------------------

(* 3. The walk.                                                            *)

(* The list under a walk, for any spans.  The walk of the effects unlinks  *)
(* through p, so what matters is that p is before i; that both are on the  *)
(* list, and none of what was collected, holds until two neighbours have   *)
(* been collected.  Neighbours stay neighbours, which makes it inductive.  *)
InWalk == pc \in {"start", "expire"}

Lost == \E s, t \in collected : Neighbours(s, t)

PIsBeforeI == InWalk /\ type = "Effect" => IF p = NoSpan THEN i = head ELSE next[p] = i

CollectedInWalk == (InWalk /\ type = "Effect") \/ collected = {}

WalkIsOnList ==
  InWalk => \/ Lost
            \/ /\ Scheduled \cap collected = {}
               /\ i \in Scheduled \cup {NoSpan}
               /\ p \in Scheduled \cup collected \cup {NoSpan}

WalkInv == Acyclic(next) /\ PIsBeforeI /\ CollectedInWalk /\ WalkIsOnList

LEMMA TheListIsAList == TypeOK /\ Acyclic(next) => IsList(head, next)
BY DEF TypeOK, IsList

LEMMA ScheduledNext == Scheduled' = OnList(head', next')
BY DEF Scheduled, OnList, Pointers

LEMMA NextLeaves == ASSUME TypeOK, Acyclic(next), NEW s \in Spans PROVE next[s] # s
<1>1. {s} \in SUBSET Spans /\ {s} # {}  OBVIOUS
<1>2. \E t \in {s} : next[t] \notin {s}  BY <1>1 DEF Acyclic
<1> QED  BY <1>2

-----------------------------------------------------------------------------
(* What the operations make of the list.                                   *)

LEMMA PushList ==
  ASSUME TypeOK, Acyclic(next), NEW n \in Spans, n \notin Scheduled, Push(n)
  PROVE  /\ Acyclic(next') /\ Scheduled' = Scheduled \cup {n}
         /\ \A s \in Spans \ {n} : next'[s] = next[s]
<1>1. head' = n /\ next' = [next EXCEPT ![n] = head]  BY DEF Push
<1>2. IsList(head, next)  BY TheListIsAList
<1>3. n \notin OnList(head, next)  BY DEF Scheduled
<1>4. IsList(n, next') /\ OnList(n, next') = OnList(head, next) \cup {n}
  <2>1. next' \in [Spans -> Spans \cup {NoSpan}]
        /\ \A s \in Spans : next'[s] = IF s = n THEN head ELSE next[s]
    BY <1>1, <1>2 DEF IsList
  <2> QED  BY <1>2, <1>3, <2>1, PushedList
<1>5. Scheduled' = Scheduled \cup {n}  BY <1>1, <1>4, ScheduledNext DEF Scheduled
<1>6. Acyclic(next')  BY <1>1, <1>4 DEF IsList
<1> QED  BY <1>1, <1>5, <1>6 DEF TypeOK

LEMMA RemoveList ==
  ASSUME TypeOK, Acyclic(next), NEW s \in Spans, Remove(s)
  PROVE  /\ Acyclic(next') /\ Scheduled' = Scheduled \ {s} /\ next'[s] = NoSpan
         /\ \A b \in Spans \ Scheduled : next'[b] = next[b]
<1>1. /\ s \in Scheduled
      /\ head' = IF head = s THEN next[s] ELSE head
      /\ next' = [b \in Spans |-> IF b = s THEN NoSpan
                                  ELSE IF b = Before(s) THEN next[s] ELSE next[b]]
  BY DEF Remove
<1>2. IsList(head, next)  BY TheListIsAList
<1>3. next \in [Spans -> Spans \cup {NoSpan}] /\ head \in Spans \cup {NoSpan} /\ NoSpan \notin Spans
  BY TimelineAssumption DEF TypeOK
<1>4. /\ Scheduled \subseteq Spans
      /\ \A b \in Scheduled : (next[b] # head \/ head = NoSpan)
           /\ \A c \in Scheduled : next[c] = next[b] /\ next[b] # NoSpan => c = b
  BY <1>2, OnListIsClosed, OneSpanBefore DEF Scheduled
<1>7. s \in Scheduled /\ head' = IF head = s THEN next[s] ELSE head  BY <1>1
<1>5. CASE head = s
  <2>1. Before(s) = NoSpan  BY <1>5 DEF Before
  <2>2. \A b \in Spans : next'[b] = IF b = s THEN NoSpan ELSE next[b]  BY <1>1, <1>3, <2>1
  <2>3. \A b \in Spans : next'[b] = next[b] \/ next'[b] = NoSpan  BY <2>2
  <2>4. Acyclic(next')  BY <1>1, <1>4, <2>3, ShortenedIsAcyclic
  <2>5. \A b \in Scheduled : next[b] # s  BY <1>1, <1>3, <1>4, <1>5
  <2>6. \A b \in Scheduled \ {s} : next'[b] = IF next[b] = s THEN next[s] ELSE next[b]
    BY <1>4, <2>2, <2>5
  <2>7. IsList(head', next')  BY <1>1, <1>3, <2>4 DEF IsList
  <2>8. Scheduled' = Scheduled \ {s}
    BY <1>7, <1>2, <2>6, <2>7, UnlinkedList, ScheduledNext DEF Scheduled
  <2> QED  BY <1>1, <2>2, <2>4, <2>8
<1>6. CASE head # s
  <2>1. Before(s) \in Scheduled /\ next[Before(s)] = s
    <3>1. \E b \in Scheduled : next[b] = s  BY <1>1, <1>2, <1>6, SomeSpanBefore DEF Scheduled
    <3>2. Before(s) = CHOOSE b \in Scheduled : next[b] = s  BY <1>6 DEF Before
    <3> QED  BY <3>1, <3>2, Zenon
  <2>2. \A b \in Spans : next'[b] = IF b = s THEN NoSpan
                                    ELSE IF b = Before(s) THEN next[s] ELSE next[b]
    BY <1>1
  <2>3. Acyclic(next')
    <3>1. \A b \in Spans : \/ next'[b] = next[b] \/ next'[b] = NoSpan
                           \/ next[b] = s /\ next'[b] = next[s]
      BY <2>1, <2>2
    <3> QED  BY <3>1, ShortenedIsAcyclic
  <2>4. \A b \in Scheduled : next[b] = s => b = Before(s)  BY <1>3, <1>4, <2>1
  <2>5. \A b \in Scheduled \ {s} : next'[b] = IF next[b] = s THEN next[s] ELSE next[b]
    BY <1>4, <2>1, <2>2, <2>4
  <2>6. IsList(head', next')  BY <1>1, <1>3, <2>3 DEF IsList
  <2>7. Scheduled' = Scheduled \ {s}
    BY <1>7, <1>2, <2>5, <2>6, UnlinkedList, ScheduledNext DEF Scheduled
  <2> QED  BY <1>1, <2>1, <2>2, <2>3, <2>7
<1> QED  BY <1>5, <1>6

(* Process unlinks s: with a span before it that is on the list, or with   *)
(* none, s and only s leaves the list.                                     *)
LEMMA UnlinkList ==
  ASSUME TypeOK, Acyclic(next), NEW s \in Spans, NEW b \in Spans \cup {NoSpan}, Unlink(s, b),
         IF b = NoSpan THEN s = head ELSE next[b] = s
  PROVE  /\ Acyclic(next')
         /\ \A c \in Spans \ {b} : next'[c] = next[c]
         /\ b # NoSpan => next'[b] = next[s]
         /\ s \in Scheduled /\ b \in Scheduled \cup {NoSpan} => Scheduled' = Scheduled \ {s}
<1>1. IsList(head, next) /\ next \in [Spans -> Spans \cup {NoSpan}]
      /\ head \in Spans \cup {NoSpan} /\ NoSpan \notin Spans
  BY TheListIsAList, TimelineAssumption DEF TypeOK
<1>2. /\ Scheduled \subseteq Spans
      /\ \A c \in Scheduled : (next[c] # head \/ head = NoSpan)
           /\ \A d \in Scheduled : next[d] = next[c] /\ next[c] # NoSpan => d = c
  BY <1>1, OnListIsClosed, OneSpanBefore DEF Scheduled
<1>3. CASE b = NoSpan
  <2>1. head' = next[s] /\ next' = next /\ s = head  BY <1>3 DEF Unlink
  <2>2. IsList(head', next')  BY <1>1, <2>1 DEF IsList
  <2>3. \A c \in Scheduled \ {s} : next'[c] = IF next[c] = s THEN next[s] ELSE next[c]
    BY <1>1, <1>2, <2>1
  <2>4. s \in Scheduled => Scheduled' = Scheduled \ {s}
    BY <1>1, <2>1, <2>2, <2>3, UnlinkedList DEF Scheduled
  <2> QED  BY <1>3, <2>1, <2>4
<1>4. CASE b # NoSpan
  <2>1. head' = head /\ next' = [next EXCEPT ![b] = next[s]] /\ next[b] = s /\ b \in Spans
    BY <1>4 DEF Unlink
  <2>2. Acyclic(next')
    <3>1. \A c \in Spans : next'[c] = next[c] \/ (next[c] = s /\ next'[c] = next[s])
      BY <1>1, <2>1
    <3> QED  BY <3>1, ShortenedIsAcyclic
  <2>3. IsList(head', next')  BY <1>1, <2>1, <2>2 DEF IsList
  <2>4. ASSUME s \in Scheduled, b \in Scheduled PROVE Scheduled' = Scheduled \ {s}
    <3>1. head # s  BY <1>1, <1>2, <2>1, <2>4
    <3>2. \A c \in Scheduled \ {s} : next'[c] = IF next[c] = s THEN next[s] ELSE next[c]
      BY <1>1, <1>2, <2>1, <2>4
    <3>3. head' = IF head = s THEN next[s] ELSE head  BY <2>1, <3>1
    <3> QED  BY <1>1, <2>3, <2>4, <3>2, <3>3, UnlinkedList, ScheduledNext DEF Scheduled
  <2> QED  BY <1>1, <1>4, <2>1, <2>2, <2>4
<1> QED  BY <1>3, <1>4

LEMMA CollectList ==
  ASSUME TypeOK, Acyclic(next), Collect
  PROVE  /\ Acyclic(next')
         /\ \A s \in Spans : next'[s] = IF s \in collected THEN NoSpan ELSE next[s]
         /\ Scheduled \cap collected = {} => Scheduled' = Scheduled
<1>1. head' = head /\ next' = [s \in Spans |-> IF s \in collected THEN NoSpan ELSE next[s]]
  BY DEF Collect
<1>2. Acyclic(next')
  <2>1. CASE Spans = {}  BY <2>1 DEF Acyclic
  <2>2. CASE Spans # {}
    <3>1. PICK s \in Spans : TRUE  BY <2>2
    <3>2. \A b \in Spans : next'[b] = next[b] \/ next'[b] = NoSpan  BY <1>1
    <3> QED  BY <3>1, <3>2, ShortenedIsAcyclic
  <2> QED  BY <2>1, <2>2
<1>3. IsList(head, next) /\ IsList(head, next')
  BY <1>1, <1>2, TheListIsAList DEF IsList, TypeOK
<1>4. ASSUME Scheduled \cap collected = {} PROVE Scheduled' = Scheduled
  <2>1. Scheduled \subseteq Spans  BY <1>3, OnListIsClosed DEF Scheduled
  <2>2. \A s \in Scheduled : next'[s] = next[s]  BY <1>1, <1>4, <2>1
  <2> QED  BY <1>1, <1>3, <2>2, SameList, ScheduledNext DEF Scheduled
<1> QED  BY <1>1, <1>2, <1>4

(* A start callback adds a span to the list only in the walk of the        *)
(* intervals, as only intervals have callbacks that do.                    *)
LEMMA StartList ==
  ASSUME TypeOK, WalkInv, StartSpan
  PROVE  /\ Acyclic(next')
         /\ \/ UNCHANGED <<head, next>> /\ Scheduled' = Scheduled
            \/ \E n \in Spans \ Scheduled : /\ Scheduled' = Scheduled \cup {n}
                                            /\ \A s \in Spans \ {n} : next'[s] = next[s]
                                            /\ type = "Interval"
<1>1. CASE UNCHANGED <<head, next>>
  <2>1. Scheduled' = Scheduled  BY <1>1, ScheduledNext DEF Scheduled
  <2> QED  BY <1>1, <2>1 DEF WalkInv
<1>2. CASE ~ UNCHANGED <<head, next>>
  <2>1. OfType(i, type) /\ StartCallback(i) /\ i \in Spans
    BY <1>2 DEF StartSpan, list, TypeOK
  <2>2. Spawns[i] # NoSpan /\ Spawns[i] \notin Scheduled /\ Push(Spawns[i])
    BY <1>2, <2>1 DEF StartCallback, list
  <2>3. Spawns[i] \in Spans /\ i \notin Effects  BY <2>1, <2>2, TimelineAssumption
  <2>4. type = "Interval"  BY <2>1, <2>3 DEF OfType, TypeOK
  <2> QED  BY <2>2, <2>3, <2>4, PushList DEF WalkInv
<1> QED  BY <1>1, <1>2

LEMMA WalkInit == Init => TypeOK /\ WalkInv
<1> SUFFICES ASSUME Init PROVE WalkInv  BY TypeInit
<1>1. Acyclic(next)  BY FirstListAssumption DEF Init
<1> QED  BY <1>1 DEF Init, WalkInv, InWalk, PIsBeforeI, CollectedInWalk, WalkIsOnList

LEMMA StartWalk == ASSUME TypeOK, WalkInv, StartSpan PROVE WalkInv'
<1>1. /\ pc = "start" /\ pc' = "expire" /\ type' = type /\ p' = p /\ i' = i /\ collected' = collected
      /\ type \in {"Effect", "Interval"}
  BY DEF StartSpan, locals, TypeOK
<1>2. CASE UNCHANGED <<head, next>> /\ Scheduled' = Scheduled
  <2>1. Lost' <=> Lost  BY <1>1, <1>2 DEF Lost, Neighbours
  <2> QED
    BY <1>1, <1>2, <2>1 DEF WalkInv, InWalk, PIsBeforeI, CollectedInWalk, WalkIsOnList
<1>3. ASSUME NEW n \in Spans \ Scheduled, Scheduled' = Scheduled \cup {n}, type = "Interval"
      PROVE  WalkInv'
  <2>1. collected = {} /\ ~Lost  BY <1>3 DEF WalkInv, CollectedInWalk, Lost
  <2>2. i \in Scheduled \cup {NoSpan} /\ p \in Scheduled \cup collected \cup {NoSpan}
    BY <1>1, <2>1 DEF WalkInv, WalkIsOnList, InWalk
  <2>3. Acyclic(next')  BY StartList
  <2> QED
    BY <1>1, <1>3, <2>1, <2>2, <2>3
       DEF WalkInv, InWalk, PIsBeforeI, CollectedInWalk, WalkIsOnList
<1> QED  BY <1>2, <1>3, StartList

(* The effect at i is unlinked.  If p had been collected, p and i are      *)
(* neighbours now; if not, the walk stays on the list.                     *)
LEMMA UnlinkWalk ==
  ASSUME TypeOK, AtASpan, WalkInv, ExpireSpan, OfType(i, type), IsOver(i), type = "Effect"
  PROVE  /\ WalkInv'
         /\ ~Lost' => /\ p \notin collected /\ i \in Scheduled
                      /\ Scheduled' = Scheduled \ {i}
<1>1. /\ i \in Spans /\ pc = "expire" /\ pc' = "start" /\ p' = i /\ i' = next'[i] /\ type' = type
      /\ Unlink(i, p) /\ collected' = collected \cup {i}
      /\ p \in Spans \cup {NoSpan} /\ NoSpan \notin Spans /\ collected \subseteq Spans
  BY TimelineAssumption DEF ExpireSpan, TypeOK, AtASpan, Finite
<1>2. Acyclic(next) /\ IF p = NoSpan THEN i = head ELSE next[p] = i
  BY <1>1 DEF WalkInv, PIsBeforeI, InWalk
<1>3. next[i] # i  BY <1>1, <1>2, NextLeaves
<1>4. p # i  BY <1>1, <1>2, <1>3
<1>5. /\ Acyclic(next')
      /\ \A c \in Spans \ {p} : next'[c] = next[c]
      /\ p # NoSpan => next'[p] = next[i]
      /\ i \in Scheduled /\ p \in Scheduled \cup {NoSpan} => Scheduled' = Scheduled \ {i}
  BY <1>1, <1>2, UnlinkList
<1>6. i' = next[i] /\ next'[p'] = i' /\ p' # NoSpan  BY <1>1, <1>4, <1>5
<1>7. PIsBeforeI' /\ CollectedInWalk'
  BY <1>1, <1>6 DEF PIsBeforeI, CollectedInWalk, InWalk
<1>8. CASE p \in collected
  <2>1. p \in collected' /\ i \in collected' /\ next'[p] = next'[i]  BY <1>1, <1>4, <1>5, <1>8
  <2>2. Lost'  BY <1>4, <2>1 DEF Lost, Neighbours
  <2> QED  BY <1>5, <1>7, <2>2 DEF WalkInv, WalkIsOnList
<1>9. CASE p \notin collected /\ Lost
  <2>1. PICK s \in collected, t \in collected : Neighbours(s, t)  BY <1>9 DEF Lost
  <2>2. next'[s] = next[s] /\ next'[t] = next[t] /\ s \in collected' /\ t \in collected'
    BY <1>1, <1>5, <1>9
  <2>3. Lost'  BY <2>1, <2>2 DEF Lost, Neighbours
  <2> QED  BY <1>5, <1>7, <2>3 DEF WalkInv, WalkIsOnList
<1>10. CASE p \notin collected /\ ~Lost
  <2>1. /\ Scheduled \cap collected = {} /\ i \in Scheduled
        /\ p \in Scheduled \cup {NoSpan}
    BY <1>1, <1>10 DEF WalkInv, WalkIsOnList, InWalk
  <2>2. Scheduled' = Scheduled \ {i}  BY <1>5, <2>1
  <2>3. next[i] \in Scheduled \cup {NoSpan}
    BY <1>2, <2>1, TheListIsAList, OnListIsClosed DEF Scheduled
  <2>4. /\ Scheduled' \cap collected' = {} /\ i' \in Scheduled' \cup {NoSpan}
        /\ p' \in collected'
    BY <1>1, <1>3, <1>6, <2>1, <2>2, <2>3
  <2>5. WalkIsOnList'  BY <2>4 DEF WalkIsOnList
  <2> QED  BY <1>5, <1>7, <1>10, <2>1, <2>2, <2>5 DEF WalkInv
<1> QED  BY <1>8, <1>9, <1>10

LEMMA ExpireWalk == ASSUME TypeOK, AtASpan, WalkInv, ExpireSpan PROVE WalkInv'
<1>1. CASE OfType(i, type) /\ IsOver(i) /\ type = "Effect"  BY <1>1, UnlinkWalk
<1>2. CASE ~(OfType(i, type) /\ IsOver(i) /\ type = "Effect")
  <2>1. /\ i \in Spans /\ pc = "expire" /\ pc' = "start" /\ p' = i /\ type' = type
        /\ UNCHANGED <<head, next, collected>> /\ i' = next[i] /\ NoSpan \notin Spans
    BY <1>2, TimelineAssumption DEF ExpireSpan, TypeOK, AtASpan, list
  <2>2. Scheduled' = Scheduled  BY <2>1, ScheduledNext DEF Scheduled
  <2>3. Lost' <=> Lost  BY <2>1 DEF Lost, Neighbours
  <2>4. i \in Scheduled => next[i] \in Scheduled \cup {NoSpan}
    BY TheListIsAList, OnListIsClosed DEF Scheduled, WalkInv
  <2>5. ~Lost => Scheduled \cap collected = {} /\ i \in Scheduled
    BY <2>1 DEF WalkInv, WalkIsOnList, InWalk
  <2>6. WalkIsOnList'  BY <2>1, <2>2, <2>3, <2>4, <2>5 DEF WalkIsOnList
  <2>7. PIsBeforeI' /\ CollectedInWalk' /\ Acyclic(next')
    BY <2>1 DEF WalkInv, PIsBeforeI, CollectedInWalk, InWalk
  <2> QED  BY <2>6, <2>7 DEF WalkInv
<1> QED  BY <1>1, <1>2

LEMMA BeginWalkWalk == ASSUME TypeOK, WalkInv, NEW t, BeginWalk(t) PROVE WalkInv'
<1>1. p' = NoSpan /\ i' = head /\ collected' = {} /\ UNCHANGED <<head, next>>
  BY DEF BeginWalk, list
<1>2. Scheduled' = Scheduled  BY <1>1, ScheduledNext DEF Scheduled
<1>3. head \in Scheduled \cup {NoSpan}
  BY TheListIsAList, OnListIsClosed DEF Scheduled, WalkInv
<1> QED  BY <1>1, <1>2, <1>3 DEF WalkInv, PIsBeforeI, CollectedInWalk, WalkIsOnList

LEMMA ClientWalk == ASSUME TypeOK, WalkInv, NEW s \in Spans, Client(s) PROVE WalkInv'
<1>1. pc' = "wait" /\ collected' = {}
  <2>1. pc = "wait" /\ collected = {}  BY DEF Client, WalkInv, CollectedInWalk, InWalk
  <2> QED  BY <2>1 DEF Client, Add, Remove, locals
<1>2. Acyclic(next')
  <2>1. CASE Add(s)  BY <2>1, PushList DEF Add, WalkInv
  <2>2. CASE Remove(s)  BY <2>2, RemoveList DEF WalkInv
  <2> QED  BY <2>1, <2>2 DEF Client
<1> QED
  BY <1>1, <1>2 DEF WalkInv, PIsBeforeI, CollectedInWalk, WalkIsOnList, InWalk

LEMMA WalkStep ==
  TypeOK /\ AtASpan /\ WalkInv /\ [Next]_vars => WalkInv'
<1> SUFFICES ASSUME TypeOK, AtASpan, WalkInv, [Next]_vars PROVE WalkInv'  OBVIOUS
<1>1. CASE TimePasses \/ UNCHANGED vars
  <2>1. UNCHANGED <<head, next, pc, type, p, i, collected>>
    BY <1>1 DEF TimePasses, vars, list, locals
  <2>2. Scheduled' = Scheduled  BY <2>1, ScheduledNext DEF Scheduled
  <2>3. Lost' <=> Lost  BY <2>1 DEF Lost, Neighbours
  <2> QED
    BY <2>1, <2>2, <2>3 DEF WalkInv, PIsBeforeI, CollectedInWalk, WalkIsOnList, InWalk
<1>2. CASE Collect
  <2>1. pc' \in {"effects", "valid"} /\ collected' = {}  BY <1>2 DEF Collect, OutOfScope
  <2>2. Acyclic(next')  BY <1>2, CollectList DEF WalkInv
  <2> QED
    BY <2>1, <2>2 DEF WalkInv, PIsBeforeI, CollectedInWalk, WalkIsOnList, InWalk
<1>3. CASE Valid \/ Calc \/ Commit
  <2>1. pc' \notin {"start", "expire"} /\ UNCHANGED <<next, collected>> /\ ~InWalk
    BY <1>3 DEF Valid, Calc, Commit, list, locals, InWalk
  <2> QED
    BY <2>1 DEF WalkInv, PIsBeforeI, CollectedInWalk, WalkIsOnList, InWalk
<1>4. CASE ProcessInterval \/ ProcessEffect
  BY <1>4, BeginWalkWalk DEF ProcessInterval, ProcessEffect
<1> QED
  BY <1>1, <1>2, <1>3, <1>4, StartWalk, ExpireWalk, ClientWalk DEF Next, Frame

LEMMA AlwaysWalking == Spec => [](TypeOK /\ AtASpan /\ WalkInv)
BY WalkInit, WalkStep, AlwaysTyped, PTL DEF Spec

-----------------------------------------------------------------------------
(* For any spans, whatever is added and removed and however many effects   *)
(* expire: every walk of the list ends, and until two neighbours have been *)
(* collected p is before i, both on the list (timeline.cpp, Process).      *)
THEOREM WalksEnd == Spec => [](Chain[Length] = NoSpan /\ WalkInv)
<1>1. TypeOK /\ WalkInv => Chain[Length] = NoSpan
  BY TheListIsAList, WalkEnds DEF Chain, WalkInv
<1> QED  BY <1>1, AlwaysWalking, PTL

(* A walk of Process loses spans, or keeps an expired one, only if it has  *)
(* expired two neighbours (timeline.cpp:152).                              *)
THEOREM LostOnlyByNeighbours == Spec => SpansAreLostOnlyByNeighbours
<1> DEFINE Kept == pc = "start" /\ i = NoSpan /\ ~(\E s, t \in collected : Neighbours(s, t))
                     => Scheduled' = Scheduled /\ Scheduled \cap collected = {}
<1>1. TypeOK /\ WalkInv /\ [Next]_vars => [Kept]_vars
  <2> SUFFICES ASSUME TypeOK, WalkInv, Next, pc = "start", i = NoSpan, ~Lost
               PROVE  Scheduled' = Scheduled /\ Scheduled \cap collected = {}
    BY DEF Lost
  <2>1. Scheduled \cap collected = {}  BY DEF WalkInv, WalkIsOnList, InWalk
  <2>2. CASE TimePasses
    BY <2>1, <2>2, ScheduledNext DEF TimePasses, list, Scheduled
  <2>3. CASE Collect  BY <2>1, <2>3, CollectList DEF WalkInv
  <2> QED
    BY <2>2, <2>3 DEF Next, Frame, ProcessInterval, ProcessEffect, StartSpan, ExpireSpan,
                     Valid, Calc, Commit, Client, BeginWalk
<1> QED  BY <1>1, AlwaysWalking, PTL DEF Spec, SpansAreLostOnlyByNeighbours

-----------------------------------------------------------------------------

(* 4. The list is sound.                                                   *)

(* A span off the list is reset and may be added again, except for the one *)
(* that waits to be done at the end of its walk.                           *)
OffListIsReset ==
  \A s \in Spans \ (Scheduled \cup collected) : next[s] = NoSpan /\ ~active[s]

CollectedAreActive == \A s \in collected : active[s]

DueHasStarted == pc = "expire" /\ OfType(i, type) /\ time[i] <= snapshot => active[i]

SoundInv == OffListIsReset /\ CollectedAreActive /\ DueHasStarted

ListInv == TypeOK /\ AtASpan /\ WalkInv /\ SoundInv

LEMMA NothingLost ==
  ASSUME OneEffectEnds, TypeOK
  PROVE  ~Lost
BY DEF OneEffectEnds, TypeOK, Lost, Neighbours

LEMMA OnTheWay ==
  ASSUME OneEffectEnds, ListInv, InWalk
  PROVE  /\ Scheduled \cap collected = {} /\ i \in Scheduled \cup {NoSpan}
         /\ p \in Scheduled \cup collected \cup {NoSpan}
BY NothingLost DEF ListInv, WalkInv, WalkIsOnList

LEMMA ScheduledAreSpans == TypeOK /\ WalkInv => Scheduled \subseteq Spans
BY TheListIsAList, OnListIsClosed DEF Scheduled, WalkInv

-----------------------------------------------------------------------------
LEMMA SoundInit == Init => SoundInv
<1> SUFFICES ASSUME Init PROVE SoundInv  OBVIOUS
<1>1. Scheduled = OnList(FirstHead, FirstNext)  BY DEF Init, Scheduled
<1>2. OffListIsReset  BY <1>1, FirstListAssumption DEF Init, OffListIsReset
<1> QED  BY <1>2 DEF Init, SoundInv, CollectedAreActive, DueHasStarted

(* A span starts, and stays on the list that its callback may add to.      *)
LEMMA StartSound ==
  ASSUME OneEffectEnds, ListInv, StartSpan
  PROVE  /\ SoundInv'
         /\ i \in Scheduled
         /\ \/ Scheduled' = Scheduled
            \/ \E n \in Spans \ Scheduled : Scheduled' = Scheduled \cup {n}
         /\ \/ active' = active /\ Scheduled' = Scheduled
            \/ ~active[i] /\ active' = [active EXCEPT ![i] = TRUE]
<1>1. /\ i \in Scheduled /\ i \in Spans /\ Scheduled \cap collected = {} /\ NoSpan \notin Spans
      /\ UNCHANGED <<type, snapshot, p, i, collected>> /\ pc' = "expire" /\ pc = "start"
  <2>1. pc = "start" /\ i # NoSpan /\ i \in Spans /\ UNCHANGED <<type, snapshot, p, i, collected>>
        /\ pc' = "expire"
    BY DEF StartSpan, locals, ListInv, TypeOK
  <2>2. InWalk  BY <2>1 DEF InWalk
  <2> QED  BY <2>1, <2>2, OnTheWay, TimelineAssumption
<1>2. \/ UNCHANGED <<head, next>> /\ Scheduled' = Scheduled
      \/ \E n \in Spans \ Scheduled : /\ Scheduled' = Scheduled \cup {n}
                                      /\ \A s \in Spans \ {n} : next'[s] = next[s]
  BY StartList DEF ListInv
<1>3. \A s \in Spans \ (Scheduled' \cup collected) : next'[s] = next[s] /\ s \notin Scheduled
  BY <1>2
<1>4. CASE OfType(i, type) /\ IsDue(i)
  <2>1. ~active[i] /\ active' = [active EXCEPT ![i] = TRUE]  BY <1>4 DEF StartSpan, IsDue
  <2>2. /\ \A s \in Spans : active'[s] = IF s = i THEN TRUE ELSE active[s]
    BY <2>1 DEF ListInv, TypeOK
  <2>3. OffListIsReset'
    BY <1>1, <1>3, <2>2 DEF OffListIsReset, ListInv, SoundInv
  <2>4. collected \subseteq Spans  BY DEF ListInv, TypeOK, Finite
  <2>5. CollectedAreActive'
    BY <1>1, <2>2, <2>4 DEF CollectedAreActive, ListInv, SoundInv
  <2>6. DueHasStarted'  BY <1>1, <2>2 DEF DueHasStarted
  <2> QED  BY <1>1, <1>2, <2>1, <2>3, <2>5, <2>6 DEF SoundInv
<1>5. CASE ~(OfType(i, type) /\ IsDue(i))
  <2>1. UNCHANGED <<active, head, next, time>>  BY <1>5 DEF StartSpan, list
  <2>2. Scheduled' = Scheduled  BY <2>1, ScheduledNext DEF Scheduled
  <2>3. DueHasStarted'  BY <1>1, <1>5, <2>1 DEF DueHasStarted, IsDue, OfType
  <2>4. OffListIsReset' /\ CollectedAreActive'
    BY <1>1, <2>1, <2>2 DEF OffListIsReset, CollectedAreActive, ListInv, SoundInv
  <2> QED  BY <1>1, <2>1, <2>2, <2>3, <2>4 DEF SoundInv
<1> QED  BY <1>4, <1>5

(* What is over has been started, whatever the clock read in between: start*)
(* and expiry go by one reading.                                           *)
LEMMA OverIsActive ==
  ASSUME OneEffectEnds, ListInv, pc = "expire", OfType(i, type), IsOver(i)
  PROVE  i \in Scheduled /\ i \in Finite /\ active[i] = TRUE
<1>1. i \in Spans /\ time[i] \in Nat /\ snapshot \in Nat /\ NoSpan \notin Spans
      /\ active[i] \in BOOLEAN
  BY TimelineAssumption DEF ListInv, TypeOK, AtASpan
<1>2. Duration[i] \in Nat /\ time[i] + Duration[i] < snapshot
  BY <1>1, TimelineAssumption DEF IsOver
<1>3. time[i] <= snapshot  BY <1>1, <1>2
<1>4. active[i]  BY <1>3 DEF ListInv, SoundInv, DueHasStarted
<1>5. i \in Scheduled  BY <1>1, OnTheWay DEF InWalk
<1>6. i \in Finite  BY <1>1 DEF IsOver, Finite
<1> QED  BY <1>1, <1>4, <1>5, <1>6

LEMMA ExpireSound ==
  ASSUME OneEffectEnds, ListInv, ExpireSpan
  PROVE  /\ SoundInv'
         /\ \/ active' = active /\ Scheduled' = Scheduled
            \/ /\ i \in Scheduled \cap Effects \cap Finite /\ active[i] = TRUE
               /\ active' = active /\ Scheduled' = Scheduled \ {i}
            \/ /\ i \in Scheduled \ Effects /\ active[i] = TRUE
               /\ active' = [active EXCEPT ![i] = FALSE] /\ Scheduled' = Scheduled
<1>1. /\ i \in Spans /\ pc = "expire" /\ pc' = "start" /\ NoSpan \notin Spans
      /\ Scheduled \subseteq Spans /\ collected \subseteq Spans
  BY TimelineAssumption, ScheduledAreSpans DEF ExpireSpan, ListInv, TypeOK, AtASpan, Finite
<1>2. DueHasStarted'  BY <1>1 DEF DueHasStarted
<1>3. CASE OfType(i, type) /\ IsOver(i) /\ type = "Effect"
  <2>1. i \in Scheduled /\ i \in Finite /\ active[i] = TRUE /\ i \in Effects
    BY <1>1, <1>3, OverIsActive DEF OfType
  <2>2. /\ UNCHANGED active /\ collected' = collected \cup {i} /\ Unlink(i, p)
    BY <1>3 DEF ExpireSpan
  <2>3. TypeOK' /\ WalkInv'  BY ExpireType, ExpireWalk DEF ListInv
  <2>4. ~Lost'  BY <2>3, NothingLost DEF OneEffectEnds, Lost, Neighbours, TypeOK
  <2>5. Scheduled' = Scheduled \ {i}  BY <1>3, <2>4, UnlinkWalk DEF ListInv
  <2>6. p \in Scheduled \cup {NoSpan}
    BY <1>1, <1>3, <2>4, UnlinkWalk, OnTheWay DEF InWalk, ListInv
  <2>7. \A c \in Spans \ Scheduled : next'[c] = next[c]
    <3>1. p \in Spans \cup {NoSpan} /\ Acyclic(next)
          /\ IF p = NoSpan THEN i = head ELSE next[p] = i
      BY <1>1, <1>3 DEF ListInv, TypeOK, WalkInv, PIsBeforeI, InWalk
    <3>2. \A c \in Spans \ {p} : next'[c] = next[c]
      BY <1>1, <2>2, <3>1, UnlinkList DEF ListInv
    <3> QED  BY <1>1, <2>6, <3>2
  <2>8. OffListIsReset'
    BY <2>2, <2>5, <2>7 DEF OffListIsReset, ListInv, SoundInv
  <2>9. CollectedAreActive'
    BY <2>1, <2>2 DEF CollectedAreActive, ListInv, SoundInv
  <2> QED  BY <1>2, <2>1, <2>2, <2>5, <2>8, <2>9 DEF SoundInv
<1>4. CASE OfType(i, type) /\ IsOver(i) /\ type # "Effect"
  <2>1. i \in Scheduled /\ active[i] = TRUE /\ i \notin Effects
    BY <1>1, <1>4, OverIsActive DEF OfType
  <2>2. active' = [active EXCEPT ![i] = FALSE] /\ UNCHANGED <<head, next, collected>>
    BY <1>4 DEF ExpireSpan, list
  <2>3. Scheduled' = Scheduled  BY <2>2, ScheduledNext DEF Scheduled
  <2>4. collected = {}  BY <1>4 DEF ListInv, WalkInv, CollectedInWalk
  <2>5. OffListIsReset' /\ CollectedAreActive'
    BY <2>1, <2>2, <2>3, <2>4 DEF OffListIsReset, CollectedAreActive, ListInv, SoundInv, TypeOK
  <2> QED  BY <1>2, <2>1, <2>2, <2>3, <2>5 DEF SoundInv
<1>5. CASE ~(OfType(i, type) /\ IsOver(i))
  <2>1. UNCHANGED <<head, next, active, collected>>  BY <1>5 DEF ExpireSpan, list
  <2>2. Scheduled' = Scheduled  BY <2>1, ScheduledNext DEF Scheduled
  <2>3. OffListIsReset' /\ CollectedAreActive'
    BY <2>1, <2>2 DEF OffListIsReset, CollectedAreActive, ListInv, SoundInv
  <2> QED  BY <1>2, <2>1, <2>2, <2>3 DEF SoundInv
<1> QED  BY <1>3, <1>4, <1>5

LEMMA CollectSound ==
  ASSUME OneEffectEnds, ListInv, Collect
  PROVE  /\ SoundInv' /\ Scheduled' = Scheduled
         /\ collected \subseteq Spans \ Scheduled /\ \A s \in collected : active[s]
         /\ \A s \in Spans : active'[s] <=> active[s] /\ s \notin collected
<1>1. /\ pc = "start" /\ pc' # "expire" /\ collected' = {}
      /\ active' = [s \in Spans |-> active[s] /\ s \notin collected]
  BY DEF Collect, OutOfScope
<1>2. Scheduled \cap collected = {}  BY <1>1, OnTheWay DEF InWalk
<1>3. /\ Scheduled' = Scheduled
      /\ \A s \in Spans : next'[s] = IF s \in collected THEN NoSpan ELSE next[s]
  BY <1>2, CollectList DEF ListInv, WalkInv
<1>4. \A s \in Spans : active'[s] <=> active[s] /\ s \notin collected  BY <1>1
<1>5. SoundInv'
  BY <1>1, <1>3, <1>4
     DEF SoundInv, ListInv, OffListIsReset, CollectedAreActive, DueHasStarted
<1>6. collected \subseteq Spans  BY DEF ListInv, TypeOK, Finite
<1> QED  BY <1>2, <1>3, <1>4, <1>5, <1>6 DEF ListInv, SoundInv, CollectedAreActive

LEMMA ClientSound ==
  ASSUME ListInv, NEW s \in Spans, Client(s)
  PROVE  /\ SoundInv'
         /\ \/ s \notin Scheduled /\ Scheduled' = Scheduled \cup {s} /\ active' = active
            \/ /\ s \in Scheduled /\ Scheduled' = Scheduled \ {s}
               /\ active' = [active EXCEPT ![s] = FALSE]
<1>1. pc' = "wait" /\ collected = {} /\ collected' = {}
  <2>1. pc = "wait"  BY DEF Client
  <2>2. collected = {}  BY <2>1 DEF ListInv, WalkInv, CollectedInWalk, InWalk
  <2> QED  BY <2>1, <2>2 DEF Client, Add, Remove, locals
<1>2. CASE Add(s)
  <2>1. s \notin Scheduled /\ Push(s) /\ active' = active  BY <1>2 DEF Add
  <2>2. Scheduled' = Scheduled \cup {s} /\ \A c \in Spans \ {s} : next'[c] = next[c]
    BY <2>1, PushList DEF ListInv, WalkInv
  <2>3. SoundInv'
    BY <1>1, <2>1, <2>2
       DEF SoundInv, ListInv, OffListIsReset, CollectedAreActive, DueHasStarted
  <2> QED  BY <2>1, <2>2, <2>3
<1>3. CASE Remove(s)
  <2>1. s \in Scheduled /\ active' = [active EXCEPT ![s] = FALSE]  BY <1>3 DEF Remove
  <2>2. /\ Scheduled' = Scheduled \ {s} /\ next'[s] = NoSpan
        /\ \A b \in Spans \ Scheduled : next'[b] = next[b]
    BY <1>3, RemoveList DEF ListInv, WalkInv
  <2>3. \A b \in Spans : active'[b] = IF b = s THEN FALSE ELSE active[b]
    BY <2>1 DEF ListInv, TypeOK
  <2>4. OffListIsReset'  BY <1>1, <2>2, <2>3 DEF OffListIsReset, ListInv, SoundInv
  <2>5. SoundInv'  BY <1>1, <2>4 DEF SoundInv, CollectedAreActive, DueHasStarted
  <2> QED  BY <2>1, <2>2, <2>5
<1> QED  BY <1>2, <1>3 DEF Client

(* The other steps leave list and spans alone. *)
Quiet == TimePasses \/ ProcessInterval \/ ProcessEffect \/ Valid \/ Calc \/ Commit

LEMMA QuietSound ==
  ASSUME ListInv, Quiet \/ UNCHANGED vars
  PROVE  SoundInv' /\ Scheduled' = Scheduled /\ active' = active
<1>1. UNCHANGED <<head, next, active, time>>
  BY DEF Quiet, TimePasses, ProcessInterval, ProcessEffect, BeginWalk, Valid, Calc, Commit, vars, list
<1>2. Scheduled' = Scheduled  BY <1>1, ScheduledNext DEF Scheduled
<1>3. CASE TimePasses \/ UNCHANGED vars
  <2>1. UNCHANGED <<collected, pc, i, type, snapshot>>
    BY <1>3 DEF TimePasses, vars, locals
  <2> QED
    BY <1>1, <1>2, <2>1
       DEF ListInv, SoundInv, OffListIsReset, CollectedAreActive, DueHasStarted, OfType
<1>4. CASE Quiet /\ ~TimePasses
  <2>1. pc' # "expire"
    BY <1>4 DEF Quiet, ProcessInterval, ProcessEffect, BeginWalk, Valid, Calc, Commit
  <2>2. pc \notin {"start", "expire"}
    BY <1>4 DEF Quiet, ProcessInterval, ProcessEffect, Valid, Calc, Commit
  <2>3. collected = {} /\ collected' = {}
    <3>1. collected = {}  BY <2>2 DEF ListInv, WalkInv, CollectedInWalk, InWalk
    <3> QED
      BY <1>4, <3>1 DEF Quiet, ProcessInterval, ProcessEffect, BeginWalk, Valid, Calc, Commit, locals
  <2> QED
    BY <1>1, <1>2, <2>1, <2>3
       DEF ListInv, SoundInv, OffListIsReset, CollectedAreActive, DueHasStarted
<1> QED  BY <1>3, <1>4

LEMMA NextCases ==
  ASSUME [Next]_vars
  PROVE  \/ Quiet \/ UNCHANGED vars \/ StartSpan \/ ExpireSpan \/ Collect
         \/ \E s \in Spans : Client(s)
BY DEF Next, Frame, Quiet

LEMMA SoundStep ==
  ASSUME OneEffectEnds, ListInv, [Next]_vars
  PROVE  ListInv'
<1>1. TypeOK' /\ AtASpan' /\ WalkInv'  BY TypeStep, WalkStep DEF ListInv
<1>2. SoundInv'
  BY NextCases, StartSound, ExpireSound, CollectSound, ClientSound, QuietSound
<1> QED  BY <1>1, <1>2 DEF ListInv

LEMMA AlwaysSound == ASSUME OneEffectEnds PROVE Spec => []ListInv
<1>1. Init => ListInv  BY WalkInit, SoundInit DEF Init, ListInv, AtASpan
<1>2. ListInv /\ [Next]_vars => ListInv'  BY SoundStep
<1> QED  BY <1>1, <1>2, PTL DEF Spec

-----------------------------------------------------------------------------
(* Whatever is added and removed, by clients or by the callbacks of a walk:*)
(* the list has an end, and a span that is off it between frames is reset. *)
THEOREM SoundList == ASSUME OneEffectEnds PROVE Spec => []ListIsSound
<1>1. ListInv => ListIsSound
  <2> SUFFICES ASSUME ListInv PROVE ListIsSound  OBVIOUS
  <2>1. Chain[Length] = NoSpan  BY TheListIsAList, WalkEnds DEF ListInv, WalkInv, Chain
  <2>2. pc = "wait" => collected = {}  BY DEF ListInv, WalkInv, CollectedInWalk, InWalk
  <2> QED  BY <2>1, <2>2 DEF ListIsSound, ListInv, SoundInv, OffListIsReset
<1> QED  BY <1>1, AlwaysSound, PTL

(* The pointers implement the set of spans that Timeline promises: each    *)
(* step of the list is a step of Schedule or leaves the set alone.         *)
THEOREM Refinement == ASSUME OneEffectEnds PROVE Spec => ImplementsSchedule
<1> DEFINE Active == {s \in Spans : active[s]}
<1>1. Init => TheSchedule!ScheduleInit
  <2> SUFFICES ASSUME Init PROVE TheSchedule!ScheduleInit  OBVIOUS
  <2>1. TypeOK /\ WalkInv  BY WalkInit
  <2> QED  BY <2>1, ScheduledAreSpans DEF Init, TheSchedule!ScheduleInit
<1>2. ListInv /\ [Next]_vars => [TheSchedule!ScheduleNext]_(TheSchedule!scheduleVars)
  <2> SUFFICES ASSUME ListInv, [Next]_vars
               PROVE  TheSchedule!ScheduleNext \/ UNCHANGED <<Scheduled, Active>>
    BY DEF TheSchedule!scheduleVars
  <2>1. Scheduled \subseteq Spans /\ active \in [Spans -> BOOLEAN]
    BY ScheduledAreSpans DEF ListInv, TypeOK
  <2>2. CASE Quiet \/ UNCHANGED vars
    <3>1. Scheduled' = Scheduled /\ active' = active  BY <2>2, QuietSound
    <3> QED  BY <3>1
  <2>3. CASE StartSpan
    <3>1. CASE active' = active /\ Scheduled' = Scheduled  BY <3>1
    <3>2. CASE ~active[i] /\ active' = [active EXCEPT ![i] = TRUE]
      <4>1. i \in Scheduled /\ i \in Spans  BY <2>1, <2>3, StartSound
      <4>2. i \in Scheduled \ Active /\ Active' = Active \cup {i}  BY <2>1, <3>2, <4>1
      <4>3. \E n \in Spans : Scheduled' \in {Scheduled, Scheduled \cup {n}}
        BY <2>3, <4>1, StartSound
      <4>4. PICK s \in Spans : s = i  BY <4>1
      <4>5. s \in Scheduled \ Active /\ Active' = Active \cup {s}  BY <4>2, <4>4
      <4>6. TheSchedule!Start(s)
        BY <4>3, <4>5 DEF TheSchedule!Start
      <4> QED  BY <4>6 DEF TheSchedule!ScheduleNext
    <3> QED  BY <2>3, <3>1, <3>2, StartSound
  <2>4. CASE ExpireSpan
    <3>1. CASE active' = active /\ Scheduled' = Scheduled  BY <3>1
    <3>2. CASE /\ i \in Scheduled \cap Effects \cap Finite /\ active[i] = TRUE
               /\ active' = active /\ Scheduled' = Scheduled \ {i}
      <4>1. i \in Active /\ Active' = Active  BY <2>1, <3>2
      <4>2. PICK s \in Spans : s = i  BY <2>1, <3>2
      <4>3. TheSchedule!Expire(s)  BY <3>2, <4>1, <4>2 DEF TheSchedule!Expire
      <4> QED  BY <4>3 DEF TheSchedule!ScheduleNext
    <3>3. CASE /\ i \in Scheduled \ Effects /\ active[i] = TRUE
               /\ active' = [active EXCEPT ![i] = FALSE] /\ Scheduled' = Scheduled
      <4>1. i \in Active /\ Active' = Active \ {i}  BY <2>1, <3>3
      <4>2. PICK s \in Spans : s = i  BY <2>1, <3>3
      <4>3. TheSchedule!Reschedule(s)  BY <3>3, <4>1, <4>2 DEF TheSchedule!Reschedule
      <4> QED  BY <4>3 DEF TheSchedule!ScheduleNext
    <3> QED  BY <2>4, <3>1, <3>2, <3>3, ExpireSound
  <2>5. CASE Collect
    <3>1. /\ Scheduled' = Scheduled /\ collected \subseteq Spans \ Scheduled
          /\ \A s \in collected : active[s]
          /\ \A s \in Spans : active'[s] <=> active[s] /\ s \notin collected
      BY <2>5, CollectSound
    <3>2. Active' = Active \ collected /\ collected \subseteq Active \ Scheduled  BY <3>1
    <3>3. PICK done \in SUBSET Spans : done = collected  BY <3>1
    <3>4. TheSchedule!Collect(done)  BY <3>1, <3>2, <3>3 DEF TheSchedule!Collect
    <3> QED  BY <3>4 DEF TheSchedule!ScheduleNext
  <2>6. CASE \E s \in Spans : Client(s)
    <3>1. PICK s \in Spans : Client(s)  BY <2>6
    <3>2. CASE s \notin Scheduled /\ Scheduled' = Scheduled \cup {s} /\ active' = active
      <4>1. TheSchedule!Add(s)  BY <3>2 DEF TheSchedule!Add
      <4> QED  BY <4>1 DEF TheSchedule!ScheduleNext
    <3>3. CASE /\ s \in Scheduled /\ Scheduled' = Scheduled \ {s}
               /\ active' = [active EXCEPT ![s] = FALSE]
      <4>1. Active' = Active \ {s}  BY <2>1, <3>3
      <4>2. TheSchedule!Remove(s)  BY <3>3, <4>1 DEF TheSchedule!Remove
      <4> QED  BY <4>2 DEF TheSchedule!ScheduleNext
    <3> QED  BY <3>1, <3>2, <3>3, ClientSound
  <2> QED  BY <2>2, <2>3, <2>4, <2>5, <2>6, NextCases
<1> QED  BY <1>1, <1>2, AlwaysSound, PTL DEF Spec, ImplementsSchedule, TheSchedule!ScheduleSpec

-----------------------------------------------------------------------------

(* 5. No blanks.                                                           *)

IsBackground(b) == b \in Effects \ (Finite \cup Clients) /\ b \in Scheduled /\ time[b] <= Skew

(* The background stays, and what is on the list between Calc and Commit   *)
(* has been painted over it.                                               *)
BackgroundInv ==
  /\ \E b \in Spans : IsBackground(b)
  /\ BackgroundIsPainted

-----------------------------------------------------------------------------
(* A walk of Top or Below that has a span to find finds one.               *)
LEMMA FirstOfFound ==
  ASSUME TypeOK, NEW at, NEW except, NEW b \in Scheduled, b # except, Shows(b, "Effect", at)
  PROVE  /\ FirstOf("Effect", at, except) \notin {NoSpan, except}
         /\ FirstOf("Effect", at, except) \in Effects
<1> DEFINE showing == {k \in 0..Length : /\ Chain[k] \notin {NoSpan, except}
                                         /\ Shows(Chain[k], "Effect", at)}
           first == CHOOSE k \in showing : \A j \in showing : k <= j
<1>1. FirstOf("Effect", at, except) = IF showing = {} THEN NoSpan ELSE Chain[first]
  BY DEF FirstOf
<1>2. showing # {}
  <2>1. PICK k \in 0..Length : Chain[k] = b /\ b # NoSpan
    BY DEF Scheduled, OnList, Chain
  <2> QED  BY <2>1
<1>3. \E k \in showing : \A j \in showing : k <= j
  <2>1. showing \subseteq Nat  BY LengthNat
  <2> HIDE DEF showing
  <2> QED  BY <1>2, <2>1, SmallestOf
<1>4. first \in showing  BY <1>3, Zenon
<1>5. \A k \in showing : Chain[k] \notin {NoSpan, except} /\ Chain[k] \in Effects
  BY DEF Shows, OfType
<1> HIDE DEF showing, first
<1> QED  BY <1>1, <1>2, <1>4, <1>5

LEMMA BackgroundShows ==
  ASSUME TypeOK, NEW b, IsBackground(b), NEW at \in Readings
  PROVE  Shows(b, "Effect", at)
<1>1. b \in Spans /\ b \in Effects /\ Duration[b] = Forever
  BY TimelineAssumption DEF IsBackground, Finite
<1>2. time[b] <= at
  <2>1. time[b] \in Nat /\ time[b] <= Skew  BY <1>1 DEF IsBackground, TypeOK
  <2>2. at \in Nat /\ Skew <= at /\ Skew \in Nat  BY ReadingsAreNat, TimelineAssumption
  <2> QED  BY <2>1, <2>2
<1> QED  BY <1>1, <1>2 DEF Shows, OfType

(* There is a top whenever the frame asks for it. *)
LEMMA TopIsThere ==
  ASSUME TypeOK, NEW b \in Spans, IsBackground(b), NEW at \in Readings
  PROVE  Top("Effect", at) # NoSpan /\ Top("Effect", at) \in Effects
<1>1. b # NoSpan /\ b \in Scheduled  BY TimelineAssumption DEF IsBackground
<1>2. Shows(b, "Effect", at)  BY BackgroundShows
<1> QED  BY <1>1, <1>2, FirstOfFound DEF Top

LEMMA CalcPaints ==
  ASSUME OneEffectEnds, HasBackground, TypeOK, NEW b \in Spans, IsBackground(b), Calc
  PROVE  \E s \in painted' : s # NoSpan /\ s \notin Finite
<1>1. PICK at \in Readings, below \in Readings :
        LET s == Top("Effect", at)
        IN  painted' = {s} \cup IF s \in CallsBelow THEN {Below(s, "Effect", below)} ELSE {}
  BY DEF Calc
<1> DEFINE top == Top("Effect", at)
           under == Below(top, "Effect", below)
<1>2. top # NoSpan /\ top \in Effects  BY TopIsThere
<1>3. painted' = {top} \cup IF top \in CallsBelow THEN {under} ELSE {}  BY <1>1
<1> HIDE DEF top
<1>4. CASE top \notin Finite  BY <1>2, <1>3, <1>4
<1>5. CASE top \in Finite
  <2>1. top \in CallsBelow  BY <1>2, <1>5 DEF HasBackground
  <2>2. b # top /\ b \in Scheduled  BY <1>5 DEF IsBackground
  <2>3. Shows(b, "Effect", below)  BY BackgroundShows
  <2>4. under \notin {NoSpan, top} /\ under \in Effects
    BY <2>2, <2>3, FirstOfFound DEF Below
  <2>5. under \notin Finite  BY <1>2, <1>5, <2>4 DEF OneEffectEnds
  <2> HIDE DEF under
  <2> QED  BY <1>3, <2>1, <2>4, <2>5
<1> QED  BY <1>4, <1>5

-----------------------------------------------------------------------------
LEMMA BackgroundInit == ASSUME HasBackground PROVE Init => BackgroundInv
<1> SUFFICES ASSUME Init PROVE BackgroundInv  OBVIOUS
<1>1. Scheduled = OnList(FirstHead, FirstNext)  BY DEF Init, Scheduled
<1>2. PICK b \in Effects \ (Finite \cup Clients) : b \in Scheduled /\ FirstTime[b] <= Skew
  BY <1>1 DEF HasBackground
<1>3. IsBackground(b)  BY <1>2 DEF IsBackground, Init
<1> QED  BY <1>2, <1>3, TimelineAssumption DEF BackgroundInv, BackgroundIsPainted, Init

(* No step unlinks the background or gives it another time: it is never    *)
(* over, it is no interval, and it is not off the list to be added.        *)
LEMMA BackgroundStays ==
  ASSUME OneEffectEnds, ListInv, [Next]_vars, NEW b \in Spans, IsBackground(b)
  PROVE  IsBackground(b)'
<1>1. b \in Effects /\ b \notin Finite /\ b \notin Clients /\ b \in Scheduled /\ time[b] <= Skew
  BY DEF IsBackground
<1>2. time \in [Spans -> Nat]  BY DEF ListInv, TypeOK
<1>3. CASE Quiet \/ UNCHANGED vars
  <2>1. time' = time
    BY <1>3 DEF Quiet, TimePasses, ProcessInterval, ProcessEffect, BeginWalk, Valid, Calc, Commit, vars
  <2> QED  BY <1>1, <1>3, <2>1, QuietSound DEF IsBackground
<1>4. CASE StartSpan
  <2>1. b \in Scheduled'  BY <1>1, <1>4, StartSound
  <2>2. time'[b] = time[b]
    <3>1. CASE time' = time  BY <1>1, <3>1
    <3>2. CASE time' # time
      <4>1. StartCallback(i)  BY <1>4, <3>2 DEF StartSpan
      <4>2. Spawns[i] \notin Scheduled
            /\ \E at \in Readings : time' = [time EXCEPT ![Spawns[i]] = at]
        BY <3>2, <4>1 DEF StartCallback
      <4> QED  BY <1>1, <1>2, <4>2
    <3> QED  BY <3>1, <3>2
  <2> QED  BY <1>1, <2>1, <2>2 DEF IsBackground
<1>5. CASE ExpireSpan
  <2>1. b \in Scheduled'  BY <1>1, <1>5, ExpireSound
  <2>2. time'[b] = time[b]
    <3>1. CASE time' = time  BY <1>1, <3>1
    <3>2. CASE time' # time
      <4>1. OfType(i, type) /\ type # "Effect" /\ Reschedule(i)
        BY <1>5, <3>2 DEF ExpireSpan
      <4>2. i # b  BY <1>1, <4>1 DEF OfType
      <4>3. \E d \in Periods[i] : time' = [time EXCEPT ![i] = time[i] + d]
        BY <4>1 DEF Reschedule
      <4> QED  BY <1>1, <1>2, <4>2, <4>3
    <3> QED  BY <3>1, <3>2
  <2> QED  BY <1>1, <2>1, <2>2 DEF IsBackground
<1>6. CASE Collect
  <2>1. time' = time /\ Scheduled' = Scheduled  BY <1>6, CollectSound DEF Collect
  <2> QED  BY <1>1, <2>1 DEF IsBackground
<1>7. CASE \E s \in Spans : Client(s)
  <2>1. PICK s \in Spans : Client(s)  BY <1>7
  <2>2. s # b  BY <1>1, <2>1 DEF Client
  <2>3. b \in Scheduled'  BY <1>1, <2>1, <2>2, ClientSound
  <2>4. time'[b] = time[b]
    <3>1. CASE Add(s)
      <4>1. \E at \in Readings : time' = [time EXCEPT ![s] = at]  BY <3>1 DEF Add
      <4> QED  BY <1>1, <1>2, <2>2, <4>1
    <3>2. CASE Remove(s)  BY <1>1, <3>2 DEF Remove
    <3> QED  BY <2>1, <3>1, <3>2 DEF Client
  <2> QED  BY <1>1, <2>3, <2>4 DEF IsBackground
<1> QED  BY <1>3, <1>4, <1>5, <1>6, <1>7, NextCases

(* The tests of a frame hold, see NoFrameIsBlank. *)
TestsHold == pc' # pc => (pc = "valid" => pc' = "calc") /\ (pc = "commit" => committed')

LEMMA TestsStep ==
  ASSUME OneEffectEnds, ListInv, BackgroundInv, Next
  PROVE  TestsHold
<1>1. PICK b \in Spans : IsBackground(b)  BY DEF BackgroundInv
<1>2. CASE Valid
  <2>1. PICK at \in Readings : pc' = IF Top("Effect", at) # NoSpan THEN "calc" ELSE "wait"
    BY <1>2 DEF Valid
  <2>2. Top("Effect", at) # NoSpan  BY <1>1, TopIsThere DEF ListInv
  <2> QED  BY <1>2, <2>1, <2>2 DEF Valid, TestsHold
<1>3. CASE Commit
  <2>1. PICK at \in Readings : committed' = (Top("Effect", at) # NoSpan)  BY <1>3 DEF Commit
  <2>2. Top("Effect", at) # NoSpan  BY <1>1, TopIsThere DEF ListInv
  <2> QED  BY <1>3, <2>1, <2>2 DEF Commit, TestsHold
<1>4. CASE ~Valid /\ ~Commit
  <2>1. pc' = pc \/ pc \notin {"valid", "commit"}
    BY <1>4 DEF Next, Frame, TimePasses, ProcessInterval, ProcessEffect, StartSpan, ExpireSpan,
                Collect, Calc, Client
  <2> QED  BY <2>1 DEF TestsHold
<1> QED  BY <1>2, <1>3, <1>4

LEMMA BackgroundStep ==
  ASSUME OneEffectEnds, HasBackground, ListInv, BackgroundInv, [Next]_vars
  PROVE  BackgroundInv'
<1>1. PICK b \in Spans : IsBackground(b)  BY DEF BackgroundInv
<1>2. IsBackground(b)'  BY <1>1, BackgroundStays
<1>3. BackgroundIsPainted'
  <2>1. CASE Calc
    BY <1>1, <2>1, CalcPaints DEF ListInv, BackgroundIsPainted
  <2>2. CASE ~Calc
    <3>1. pc' # "commit" \/ (pc = "commit" /\ painted' = painted)
      BY <2>2 DEF Next, Frame, TimePasses, ProcessInterval, ProcessEffect, BeginWalk, StartSpan,
                  ExpireSpan, Collect, Valid, Commit, Client, Add, Remove, vars, locals, history
    <3> QED  BY <3>1 DEF BackgroundInv, BackgroundIsPainted
  <2> QED  BY <2>1, <2>2
<1> QED  BY <1>2, <1>3 DEF BackgroundInv

LEMMA AlwaysBackground ==
  ASSUME OneEffectEnds, HasBackground PROVE Spec => [](ListInv /\ BackgroundInv)
<1>1. Init => BackgroundInv  BY BackgroundInit
<1>2. ListInv /\ BackgroundInv /\ [Next]_vars => BackgroundInv'  BY BackgroundStep
<1> QED  BY <1>1, <1>2, AlwaysSound, PTL DEF Spec

(* Whatever intervals and callbacks do, each frame repaints the picture    *)
(* from the endless effect, on top or below the glow.                      *)
THEOREM Background == ASSUME OneEffectEnds, HasBackground PROVE Spec => []BackgroundIsPainted
<1>1. BackgroundInv => BackgroundIsPainted  BY DEF BackgroundInv
<1> QED  BY <1>1, AlwaysBackground, PTL

(* The tests of TopEffect in sign_entry (sign.cpp:34) hold in every frame, *)
(* whatever the clock reads in between.                                    *)
THEOREM NoBlanks == ASSUME OneEffectEnds, HasBackground PROVE Spec => NoFrameIsBlank
<1>1. ListInv /\ BackgroundInv /\ [Next]_vars => [TestsHold]_vars  BY TestsStep
<1>2. Spec => [][TestsHold]_vars  BY <1>1, AlwaysBackground, PTL DEF Spec
<1> QED  BY <1>2 DEF NoFrameIsBlank, TestsHold
=============================================================================
