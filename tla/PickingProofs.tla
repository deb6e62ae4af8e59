---------------------------- MODULE PickingProofs ----------------------------
(***************************************************************************)
(* What is picked out of a sequence, and how it grows with the sequence.   *)
(***************************************************************************)
EXTENDS Picking, FiniteSetTheorems, WellFoundedInduction, TLAPS

\* Among finite sets one is minimal for strict inclusion.
LEMMA MinimalSet ==
  ASSUME NEW T \in SUBSET FiniteSubsetsOf(Nat), T # {}
  PROVE  \E m \in T : \A t \in T : t \subseteq m => t = m
<1>1. PICK m \in T : \A t \in T : <<t, m>> \notin StrictSubsetOrdering(Nat)
  BY FS_StrictSubsetOrderingWellFounded, WFMin
<1>2. \A t \in T : t \in SUBSET Nat
  BY DEF FiniteSubsetsOf
<1> QED BY <1>1, <1>2 DEF StrictSubsetOrdering

\* A finite set of numbers has a largest.
LEMMA Largest ==
  ASSUME NEW A \in SUBSET Nat, IsFiniteSet(A), A # {}
  PROVE  \E i \in A : \A j \in A : j <= i
<1> DEFINE Above == {{j \in A : j > y} : y \in A}
<1>1. Above \in SUBSET FiniteSubsetsOf(Nat) /\ Above # {}
  <2>1. \A B \in SUBSET A : B \in FiniteSubsetsOf(Nat)
    BY FS_Subset DEF FiniteSubsetsOf
  <2> QED BY <2>1
<1>2. PICK m \in Above : \A t \in Above : t \subseteq m => t = m
  <2> HIDE DEF Above
  <2> QED BY <1>1, MinimalSet
<1>3. PICK y \in A : m = {j \in A : j > y}
  OBVIOUS
<1>4. ASSUME NEW z \in A, z > y PROVE FALSE
  <2> DEFINE Beyond == {j \in A : j > z}
  <2>1. z \in m /\ z \notin Beyond
    BY <1>3, <1>4
  <2>2. Beyond \subseteq m
    <3>1. \A j \in A : j > z => j > y
      BY <1>4
    <3> QED BY <1>3, <3>1
  <2>3. Beyond \in Above
    OBVIOUS
  <2>4. Beyond = m
    <3> HIDE DEF Above, Beyond
    <3> QED BY <1>2, <2>2, <2>3
  <2> QED BY <2>1, <2>4
<1> QED BY <1>4

\* How many places of S there are up to i.
Rank(S, i) == Cardinality({j \in S : j <= i})

\* Every number up to the size of a set of places is the rank of one.
LEMMA RankExists ==
  ASSUME NEW S \in SUBSET Nat, IsFiniteSet(S), NEW k \in 1..Cardinality(S)
  PROVE  \E i \in S : Rank(S, i) = k
<1> DEFINE Large == {A \in SUBSET S : Cardinality(A) >= k
                       /\ \A i \in A : \A j \in S : j <= i => j \in A}
<1>1. Cardinality(S) \in Nat /\ \A A \in SUBSET S :
        IsFiniteSet(A) /\ Cardinality(A) \in Nat
  BY FS_CardinalityType, FS_Subset
<1>2. S \in Large
  BY <1>1
<1>3. Large \in SUBSET FiniteSubsetsOf(Nat) /\ Large # {}
  <2>1. \A A \in SUBSET S : A \in FiniteSubsetsOf(Nat)
    BY <1>1 DEF FiniteSubsetsOf
  <2> QED BY <1>2, <2>1
<1>4. PICK A \in Large : \A B \in Large : B \subseteq A => B = A
  <2> HIDE DEF Large
  <2> QED BY <1>3, MinimalSet
<1>5. A \in SUBSET S /\ Cardinality(A) >= k /\ k >= 1
  OBVIOUS
<1>6. PICK i \in A : \A j \in A : j <= i
  <2>1. A # {} /\ A \in SUBSET Nat /\ IsFiniteSet(A)
    BY <1>1, <1>5, FS_EmptySet
  <2> QED BY <2>1, Largest
<1>7. Rank(S, i) = Cardinality(A)
  <2>1. {j \in S : j <= i} = A
    BY <1>5, <1>6
  <2> QED BY <2>1 DEF Rank
<1>8. Cardinality(A) = k
  <2> SUFFICES ASSUME Cardinality(A) # k PROVE FALSE
    OBVIOUS
  <2>1. Cardinality(A \ {i}) = Cardinality(A) - 1
    BY <1>1, <1>5, FS_RemoveElement
  <2>2. Cardinality(A \ {i}) >= k
    BY <1>1, <1>5, <2>1
  <2>3. \A x \in A \ {i} : \A j \in S : j <= x => j \in A \ {i}
    BY <1>4, <1>5, <1>6
  <2>4. A \ {i} \in Large
    BY <1>5, <2>2, <2>3
  <2> QED BY <1>4, <2>4
<1> QED BY <1>5, <1>7, <1>8

\* A set of places of a sequence is finite.
LEMMA PlacesFinite ==
  ASSUME NEW T, NEW s \in Seq(T), NEW S \in SUBSET DOMAIN s
  PROVE  /\ S \in SUBSET Nat /\ IsFiniteSet(S)
         /\ Cardinality(S) \in Nat
<1>1. DOMAIN s = 1..Len(s) /\ Len(s) \in Nat
  OBVIOUS
<1>2. IsFiniteSet(1..Len(s))
  BY <1>1, FS_Interval
<1>3. IsFiniteSet(S)
  BY <1>1, <1>2, FS_Subset
<1> QED BY <1>1, <1>3, FS_CardinalityType

\* The place of S with rank k.
AtRank(S, k) == CHOOSE i \in S : Cardinality({j \in S : j <= i}) = k

\* What is picked is at one of the places, the one with that rank.
LEMMA PickedAt ==
  ASSUME NEW T, NEW s \in Seq(T), NEW S \in SUBSET DOMAIN s,
         NEW k \in 1..Cardinality(S)
  PROVE  /\ AtRank(S, k) \in S /\ Rank(S, AtRank(S, k)) = k
         /\ Picked(s, S)[k] = s[AtRank(S, k)]
<1>1. \E i \in S : Cardinality({j \in S : j <= i}) = k
  BY PlacesFinite, RankExists DEF Rank
<1> QED BY <1>1 DEF Picked, Rank, AtRank

\* Picking gives a sequence.
LEMMA PickedType ==
  ASSUME NEW T, NEW s \in Seq(T), NEW S \in SUBSET DOMAIN s
  PROVE  /\ Picked(s, S) \in Seq(T)
         /\ Len(Picked(s, S)) = Cardinality(S)
         /\ DOMAIN Picked(s, S) = 1..Cardinality(S)
<1>1. Cardinality(S) \in Nat /\ DOMAIN Picked(s, S) = 1..Cardinality(S)
  BY PlacesFinite DEF Picked
<1>2. \A k \in 1..Cardinality(S) : Picked(s, S)[k] \in T
  BY PickedAt
<1>3. Picked(s, S) \in [1..Cardinality(S) -> T]
  BY <1>1, <1>2 DEF Picked
<1> QED BY <1>1, <1>3

\* It depends on these places only.
LEMMA PickedSame ==
  ASSUME NEW T, NEW s \in Seq(T), NEW t \in Seq(T), NEW S \in SUBSET DOMAIN s,
         S \subseteq DOMAIN t, \A i \in S : s[i] = t[i]
  PROVE  Picked(s, S) = Picked(t, S)
<1>1. ASSUME NEW k \in 1..Cardinality(S)
      PROVE  Picked(s, S)[k] = Picked(t, S)[k]
  <2>1. AtRank(S, k) \in S /\ Picked(s, S)[k] = s[AtRank(S, k)]
    BY PickedAt
  <2>2. Picked(t, S)[k] = t[AtRank(S, k)]
    BY DEF Picked, AtRank
  <2> QED BY <2>1, <2>2
<1> QED BY <1>1 DEF Picked

\* A place behind the others is picked last.
LEMMA PickedLast ==
  ASSUME NEW T, NEW s \in Seq(T), NEW S \in SUBSET DOMAIN s,
         NEW n \in DOMAIN s, \A i \in S : i < n
  PROVE  Picked(s, S \cup {n}) = Append(Picked(s, S), s[n])
<1> DEFINE All == S \cup {n}
           c == Cardinality(S)
<1>1. S \in SUBSET Nat /\ IsFiniteSet(S) /\ c \in Nat /\ n \in Nat /\ n \notin S
  <2>1. n \in Nat
    OBVIOUS
  <2>2. S \in SUBSET Nat /\ IsFiniteSet(S) /\ c \in Nat
    BY PlacesFinite
  <2>3. n \notin S
    BY <2>1
  <2> QED BY <2>1, <2>2, <2>3
<1>2. Cardinality(All) = c + 1
  BY <1>1, FS_AddElement
<1>3. \A i \in S : {j \in All : j <= i} = {j \in S : j <= i}
  BY <1>1
<1>4. {j \in All : j <= n} = All
  BY <1>1
<1>5. \A i \in S : Cardinality({j \in S : j <= i}) <= c
  <2>1. \A i \in S : {j \in S : j <= i} \in SUBSET S
    OBVIOUS
  <2> QED BY <1>1, <2>1, FS_Subset
<1>6. ASSUME NEW k \in 1..c PROVE AtRank(All, k) = AtRank(S, k)
  <2>1. Cardinality(All) # k
    BY <1>1, <1>2
  <2>2. Cardinality({j \in All : j <= n}) # k
    BY <1>4, <2>1
  <2>3. \A i \in S : Cardinality({j \in All : j <= i})
                      = Cardinality({j \in S : j <= i})
    BY <1>3
  <2>4. \A i : i \in All /\ Cardinality({j \in All : j <= i}) = k
              <=> i \in S /\ Cardinality({j \in S : j <= i}) = k
    BY <2>2, <2>3
  <2> QED BY <2>4 DEF AtRank
<1>7. AtRank(All, c + 1) = n
  <2>1. \A i \in S : Cardinality({j \in All : j <= i}) # c + 1
    BY <1>1, <1>3, <1>5, FS_CardinalityType
  <2>2. n \in All /\ Cardinality({j \in All : j <= n}) = c + 1
    BY <1>2, <1>4
  <2>3. \A i \in All : Cardinality({j \in All : j <= i}) = c + 1 => i = n
    BY <2>1
  <2> HIDE DEF All, c
  <2> QED BY <2>2, <2>3 DEF AtRank
<1>8. \A A, k : k \in 1..Cardinality(A) => Picked(s, A)[k] = s[AtRank(A, k)]
  BY DEF Picked, AtRank
<1> HIDE DEF All, c
<1>9. /\ Picked(s, S) \in Seq(T) /\ Len(Picked(s, S)) = c
      /\ Picked(s, All) \in Seq(T) /\ Len(Picked(s, All)) = c + 1
  BY <1>2, PickedType DEF c, All
<1>10. \A k \in 1..c : Picked(s, All)[k] = Picked(s, S)[k]
  BY <1>1, <1>2, <1>6, <1>8 DEF c
<1>11. Picked(s, All)[c + 1] = s[n]
  BY <1>1, <1>2, <1>7, <1>8
<1>12. s[n] \in T
  OBVIOUS
<1> DEFINE left == Picked(s, All)
           right == Append(Picked(s, S), s[n])
<1>13. right \in Seq(T) /\ Len(right) = c + 1 /\ right[c + 1] = s[n]
       /\ \A k \in 1..c : right[k] = Picked(s, S)[k]
  BY <1>9, <1>12
<1>14. left \in Seq(T) /\ Len(left) = c + 1 /\ left[c + 1] = s[n]
       /\ \A k \in 1..c : left[k] = Picked(s, S)[k]
  BY <1>9, <1>10, <1>11
<1> HIDE DEF left, right
<1>15. \A k \in 1..(c + 1) : left[k] = right[k]
  BY <1>1, <1>13, <1>14
<1>16. left = right
  BY <1>13, <1>14, <1>15
<1> QED BY <1>16 DEF left, right, All

\* With more places behind it, a pick goes on where it was.
LEMMA PickedBegins ==
  ASSUME NEW T, NEW s \in Seq(T), NEW t \in Seq(T),
         NEW S \in SUBSET DOMAIN s, NEW R \in SUBSET DOMAIN t,
         S \subseteq R, \A i \in S : s[i] = t[i],
         \A i \in R \ S : \A j \in S : j < i
  PROVE  /\ Len(Picked(s, S)) <= Len(Picked(t, R))
         /\ Picked(s, S) = SubSeq(Picked(t, R), 1, Len(Picked(s, S)))
<1> DEFINE c == Cardinality(S)
<1>1. /\ R \in SUBSET Nat /\ IsFiniteSet(R) /\ Cardinality(R) \in Nat
      /\ S \in SUBSET Nat /\ IsFiniteSet(S) /\ c \in Nat
  BY PlacesFinite
<1>2. c <= Cardinality(R)
  BY <1>1, FS_Subset
<1>3. \A i \in S : {j \in R : j <= i} = {j \in S : j <= i}
  BY <1>1
<1>4. \A i \in R \ S : Cardinality({j \in R : j <= i}) > c
  <2> TAKE i \in R \ S
  <2>1. S \cup {i} \in SUBSET {j \in R : j <= i}
    BY <1>1
  <2>2. {j \in R : j <= i} \in SUBSET R
    OBVIOUS
  <2>3. Cardinality(S \cup {i}) = c + 1
    BY <1>1, FS_AddElement
  <2>4. IsFiniteSet({j \in R : j <= i})
    BY <1>1, <2>2, FS_Subset
  <2>5. Cardinality(S \cup {i}) <= Cardinality({j \in R : j <= i})
    BY <2>1, <2>4, FS_Subset
  <2>6. Cardinality({j \in R : j <= i}) \in Nat
    BY <2>4, FS_CardinalityType
  <2> QED BY <1>1, <2>3, <2>5, <2>6
<1>5. ASSUME NEW k \in 1..c PROVE AtRank(R, k) = AtRank(S, k)
  <2>1. \A i \in R \ S : Cardinality({j \in R : j <= i}) # k
    BY <1>1, <1>4
  <2>2. \A i \in S : Cardinality({j \in R : j <= i})
                      = Cardinality({j \in S : j <= i})
    BY <1>3
  <2>3. \A i : i \in R /\ Cardinality({j \in R : j <= i}) = k
              <=> i \in S /\ Cardinality({j \in S : j <= i}) = k
    BY <2>1, <2>2
  <2> QED BY <2>3 DEF AtRank
<1>6. ASSUME NEW k \in 1..c PROVE Picked(t, R)[k] = Picked(s, S)[k]
  <2>1. AtRank(S, k) \in S /\ Picked(s, S)[k] = s[AtRank(S, k)]
    BY PickedAt
  <2>2. k \in 1..Cardinality(R)
    BY <1>1, <1>2
  <2>3. Picked(t, R)[k] = t[AtRank(R, k)]
    BY <2>2 DEF Picked, AtRank
  <2> QED BY <1>5, <2>1, <2>3
<1> DEFINE short == Picked(s, S)
           long == Picked(t, R)
<1>7. /\ short \in Seq(T) /\ Len(short) = c
      /\ long \in Seq(T) /\ Len(long) = Cardinality(R)
  BY PickedType
<1>8. \A k \in 1..c : long[k] = short[k]
  BY <1>6
<1> HIDE DEF short, long, c
<1>9. c <= Len(long)
  BY <1>2, <1>7
<1>10. /\ SubSeq(long, 1, c) \in Seq(T) /\ Len(SubSeq(long, 1, c)) = c
       /\ \A k \in 1..c : SubSeq(long, 1, c)[k] = long[k]
  BY <1>1, <1>7, <1>9
<1>11. \A k \in 1..c : SubSeq(long, 1, c)[k] = short[k]
  BY <1>8, <1>10
<1> DEFINE begin == SubSeq(long, 1, c)
<1>12. begin = short
  <2>1. /\ begin \in Seq(T) /\ Len(begin) = c
        /\ \A k \in 1..c : begin[k] = short[k]
    BY <1>10, <1>11
  <2> HIDE DEF begin
  <2> QED BY <1>1, <1>7, <2>1
<1> QED BY <1>7, <1>9, <1>12 DEF short, long
=============================================================================
