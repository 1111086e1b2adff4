--------------------------- MODULE CardTextProofs ---------------------------
(***************************************************************************)
(* What is read of any JSON value: every text at most so deep, and nothing *)
(* else (appendStructuredText); and that no text is said twice             *)
(* (joinUniqueText).  FlattenSeq and Levels are recursive functions: that  *)
(* there are such functions, and what they compute, takes an induction,    *)
(* here on sets of numbers, of which a nonempty one has a least member.    *)
(***************************************************************************)
EXTENDS CardText, WellFoundedInduction, FiniteSetTheorems, TLAPS

(* A nonempty set of natural numbers has a least member.                   *)
LEMMA LeastExists ==
    ASSUME NEW S, S \subseteq Nat, S # {}
    PROVE  \E k \in S : \A j \in S : k <= j
<1> DEFINE R == {ss \in Nat \X Nat : ss[1] < ss[2]}
<1>1. IsWellFoundedOn(R, Nat)
  BY NatLessThanWellFounded DEF OpToRel
<1>2. PICK k \in S : \A y \in S : ~(<<y, k>> \in R)
  BY <1>1, WFMin
<1>3. ASSUME NEW j \in S PROVE k <= j
  <2>1. j \in Nat /\ k \in Nat
    OBVIOUS
  <2>2. <<j, k>> \notin R
    BY <1>2
  <2> QED
    BY <2>1, <2>2
<1> QED
  BY <1>3

(* Induction, on a set of numbers.                                         *)
LEMMA AllUpTo ==
    ASSUME NEW n \in Nat, NEW S, 0 \in S, \A i \in 0..(n - 1) : i \in S => i + 1 \in S
    PROVE  \A i \in 0..n : i \in S
<1> DEFINE missing == {i \in 0..n : i \notin S}
<1> SUFFICES ASSUME missing # {} PROVE FALSE
  OBVIOUS
<1>1. PICK k \in missing : \A i \in missing : k <= i
  <2>1. missing \subseteq Nat
    OBVIOUS
  <2> HIDE DEF missing
  <2> QED
    BY <2>1, LeastExists
<1>2. k \in 1..n
  BY <1>1
<1>3. k - 1 \in 0..n /\ k - 1 \notin missing
  BY <1>1, <1>2
<1> QED
  BY <1>1, <1>2, <1>3

-----------------------------------------------------------------------------
(* Sequences.                                                              *)

(* A sequence is one of its own members.                                   *)
LEMMA SequenceOfMembers ==
    ASSUME NEW S, NEW s \in Seq(S)
    PROVE  s \in Seq(ToSet(s))
<1>1. \A i \in 1..Len(s) : s[i] \in ToSet(s)
  BY DEF ToSet
<1> QED
  BY <1>1

LEMMA FunctionIsSequence ==
    ASSUME NEW n \in Nat, NEW S, NEW f \in [1..n -> S]
    PROVE  f \in Seq(ToSet(f))
<1>1. f \in Seq(S)
  OBVIOUS
<1> QED
  BY <1>1, SequenceOfMembers

(* The members of a finite set of numbers are told apart, and counted, by  *)
(* how many of them are not greater.                                       *)
LEMMA RankIsBijective ==
    ASSUME NEW I, I \subseteq Nat, IsFiniteSet(I)
    PROVE  LET Rank(i) == Cardinality({j \in I : j <= i})
           IN  /\ Cardinality(I) \in Nat
               /\ \A i \in I : Rank(i) \in 1..Cardinality(I)
               /\ \A i, l \in I : Rank(i) = Rank(l) => i = l
               /\ \A k \in 1..Cardinality(I) : \E i \in I : Rank(i) = k
<1> DEFINE UpTo(i) == {j \in I : j <= i}
           rank == [i \in I |-> Cardinality(UpTo(i))]
           n == Cardinality(I)
<1>1. n \in Nat
  BY FS_CardinalityType
<1>2. ASSUME NEW i \in I
      PROVE  IsFiniteSet(UpTo(i)) /\ Cardinality(UpTo(i)) \in 1..n
  <2>1. UpTo(i) \subseteq I /\ i \in UpTo(i)
    OBVIOUS
  <2>2. IsFiniteSet(UpTo(i)) /\ Cardinality(UpTo(i)) <= n
    BY <2>1, FS_Subset
  <2>3. Cardinality(UpTo(i)) \in Nat /\ Cardinality(UpTo(i)) # 0
    BY <2>1, <2>2, FS_CardinalityType, FS_EmptySet
  <2> QED
    BY <1>1, <2>2, <2>3
<1>3. ASSUME NEW i \in I, NEW l \in I, i < l
      PROVE  Cardinality(UpTo(i)) # Cardinality(UpTo(l))
  <2>1. i \in Nat /\ l \in Nat /\ \A j \in I : j \in Nat
    OBVIOUS
  <2>2. UpTo(i) \subseteq UpTo(l) /\ l \in UpTo(l) /\ l \notin UpTo(i)
    <3>1. l <= l /\ ~(l <= i) /\ \A j \in I : j <= i => j <= l
      BY <1>3, <2>1
    <3> QED
      BY <3>1
  <2>3. IsFiniteSet(UpTo(l))
    BY <1>2
  <2> HIDE DEF UpTo
  <2> QED
    BY <2>2, <2>3, FS_Subset
<1>4. \A i, l \in I : Cardinality(UpTo(i)) = Cardinality(UpTo(l)) => i = l
  <2>1. \A i, l \in I : i < l \/ l < i \/ i = l
    OBVIOUS
  <2> HIDE DEF UpTo
  <2> QED
    BY <1>3, <2>1
<1>5. rank \in Injection(I, 1..n)
  <2> HIDE DEF UpTo, n
  <2>1. rank \in [I -> 1..n]
    BY <1>2
  <2> QED
    BY <1>4, <2>1 DEF Injection, IsInjective
<1>6. rank \in Surjection(I, 1..n)
  <2>1. IsFiniteSet(1..n) /\ Cardinality(1..n) = n
    <3> HIDE DEF n
    <3> QED
      BY <1>1, FS_Interval
  <2> QED
    BY <1>5, <2>1, FS_Injection
<1>7. \A k \in 1..n : \E i \in I : Cardinality(UpTo(i)) = k
  <2> HIDE DEF UpTo, n
  <2> QED
    BY <1>6 DEF Surjection
<1> QED
  BY <1>1, <1>2, <1>4, <1>7

(* What is left of a sequence when only some positions are kept.           *)
LEMMA PickedMembers ==
    ASSUME NEW s, NEW I, I \subseteq Nat, IsFiniteSet(I)
    PROVE  /\ Picked(s, I) \in Seq({s[i] : i \in I})
           /\ ToSet(Picked(s, I)) = {s[i] : i \in I}
<1> DEFINE n == Cardinality(I)
           Rank(i) == Cardinality({j \in I : j <= i})
           nth(k) == CHOOSE i \in I : Rank(i) = k
<1>1. /\ n \in Nat
      /\ \A i \in I : Rank(i) \in 1..n
      /\ \A i, l \in I : Rank(i) = Rank(l) => i = l
      /\ \A k \in 1..n : \E i \in I : Rank(i) = k
  BY RankIsBijective
<1>2. Picked(s, I) = [k \in 1..n |-> s[nth(k)]]
  BY DEF Picked
<1> HIDE DEF Rank, n
<1>3. \A k \in 1..n : nth(k) \in I /\ Rank(nth(k)) = k
  BY <1>1
<1>4. \A i \in I : Rank(i) \in 1..n /\ nth(Rank(i)) = i
  BY <1>1, <1>3
<1> HIDE DEF nth
<1>5. Picked(s, I) \in Seq({s[i] : i \in I})
  <2>1. \A k \in 1..n : s[nth(k)] \in {s[i] : i \in I}
    BY <1>3
  <2> QED
    BY <1>1, <1>2, <2>1
<1>6. ToSet(Picked(s, I)) = {s[nth(k)] : k \in 1..n}
  BY <1>2 DEF ToSet
<1>7. {s[nth(k)] : k \in 1..n} = {s[i] : i \in I}
  BY <1>3, <1>4
<1> QED
  BY <1>5, <1>6, <1>7

(* Positions of a sequence are finitely many numbers.                      *)
LEMMA PositionsAreFinite ==
    ASSUME NEW S, NEW s \in Seq(S), NEW I \in SUBSET DOMAIN s
    PROVE  I \subseteq Nat /\ IsFiniteSet(I)
<1>1. Len(s) \in Nat /\ DOMAIN s = 1..Len(s)
  OBVIOUS
<1>2. IsFiniteSet(1..Len(s))
  BY <1>1, FS_Interval
<1>3. IsFiniteSet(I)
  BY <1>1, <1>2, FS_Subset
<1> QED
  BY <1>1, <1>3

LEMMA JoinedMembers ==
    ASSUME NEW S, NEW s \in Seq(S), NEW T, NEW t \in Seq(T)
    PROVE  ToSet(s \o t) = ToSet(s) \cup ToSet(t)
<1>1. /\ DOMAIN s = 1..Len(s) /\ DOMAIN t = 1..Len(t) /\ DOMAIN (s \o t) = 1..(Len(s) + Len(t))
      /\ Len(s) \in Nat /\ Len(t) \in Nat
  OBVIOUS
<1>2. \A i \in DOMAIN s : i \in DOMAIN (s \o t) /\ (s \o t)[i] = s[i]
  BY <1>1
<1>3. \A i \in DOMAIN t : Len(s) + i \in DOMAIN (s \o t) /\ (s \o t)[Len(s) + i] = t[i]
  BY <1>1
<1>4. ASSUME NEW i \in DOMAIN (s \o t)
      PROVE  (s \o t)[i] \in ToSet(s) \cup ToSet(t)
  <2>1. CASE i <= Len(s)
    BY <1>1, <1>2, <2>1 DEF ToSet
  <2>2. CASE i > Len(s)
    <3>1. i - Len(s) \in DOMAIN t /\ i = Len(s) + (i - Len(s))
      BY <1>1, <2>2
    <3> QED
      BY <1>3, <3>1 DEF ToSet
  <2> QED
    BY <1>1, <2>1, <2>2
<1>5. ToSet(s) \subseteq ToSet(s \o t) /\ ToSet(t) \subseteq ToSet(s \o t)
  BY <1>2, <1>3 DEF ToSet
<1> QED
  BY <1>4, <1>5 DEF ToSet

LEMMA JoinedSuffix ==
    ASSUME NEW S, NEW s \in Seq(S), NEW T, NEW t \in Seq(T)
    PROVE  IsSuffix(t, s \o t)
<1> DEFINE st == s \o t
           m == Len(s)
           n == Len(t)
<1>1. m \in Nat /\ n \in Nat /\ Len(st) = m + n
  OBVIOUS
<1>2. \A i \in 1..n : st[m + i] = t[i]
  OBVIOUS
<1>3. /\ Reverse(t) = [i \in 1..n |-> t[(n - i) + 1]]
      /\ Reverse(st) = [i \in 1..(m + n) |-> st[(m + n - i) + 1]]
  BY <1>1 DEF Reverse
<1> HIDE DEF st, m, n
<1>4. ASSUME NEW i \in 1..n
      PROVE  Reverse(st)[i] = Reverse(t)[i]
  <2>1. i \in 1..(m + n) /\ (n - i) + 1 \in 1..n /\ (m + n - i) + 1 = m + ((n - i) + 1)
    BY <1>1
  <2> QED
    BY <1>2, <1>3, <2>1
<1> DEFINE R == {t[(n - i) + 1] : i \in 1..n} \cup {st[(m + n - i) + 1] : i \in 1..(m + n)}
<1>5. /\ Reverse(t) \in Seq(R) /\ Len(Reverse(t)) = n
      /\ Reverse(st) \in Seq(R) /\ Len(Reverse(st)) = m + n
  <2>1. /\ \A i \in 1..n : t[(n - i) + 1] \in R
        /\ \A i \in 1..(m + n) : st[(m + n - i) + 1] \in R
    OBVIOUS
  <2>2. m + n \in Nat
    BY <1>1
  <2> HIDE DEF R
  <2> QED
    BY <1>1, <1>3, <2>1, <2>2
<1> HIDE DEF R
<1>6. SubSeq(Reverse(t), 1, n) = SubSeq(Reverse(st), 1, n)
  <2>1. /\ SubSeq(Reverse(t), 1, n) = [i \in 1..n |-> Reverse(t)[i]]
        /\ SubSeq(Reverse(st), 1, n) = [i \in 1..n |-> Reverse(st)[i]]
    BY <1>1, <1>5
  <2> QED
    BY <1>4, <2>1
<1> QED
  BY <1>1, <1>5, <1>6 DEF IsSuffix, IsPrefix, st, m, n

(* What is left keeps its order: Picked takes the positions one after the  *)
(* other, from the least, and leaves none of them out.                     *)
LEMMA PickedKeepsOrder ==
    ASSUME NEW s, NEW I, I \subseteq Nat, IsFiniteSet(I)
    PROVE  \E at \in [DOMAIN Picked(s, I) -> I] :
              /\ \A k \in DOMAIN Picked(s, I) : Picked(s, I)[k] = s[at[k]]
              /\ \A k, l \in DOMAIN Picked(s, I) : k < l => at[k] < at[l]
              /\ \A i \in I : \E k \in DOMAIN Picked(s, I) : at[k] = i
<1> DEFINE n == Cardinality(I)
           UpTo(i) == {j \in I : j <= i}
           Rank(i) == Cardinality(UpTo(i))
           nth(k) == CHOOSE i \in I : Rank(i) = k
           at == [k \in 1..n |-> nth(k)]
<1>1. /\ n \in Nat
      /\ \A i \in I : Rank(i) \in 1..n
      /\ \A i, l \in I : Rank(i) = Rank(l) => i = l
      /\ \A k \in 1..n : \E i \in I : Rank(i) = k
  BY RankIsBijective
<1>2. Picked(s, I) = [k \in 1..n |-> s[nth(k)]]
  BY DEF Picked
<1>3. \A i, l \in I : l <= i => Rank(l) <= Rank(i)
  <2> TAKE i, l \in I
  <2> HAVE l <= i
  <2>1. i \in Nat /\ l \in Nat /\ \A j \in I : j \in Nat
    OBVIOUS
  <2>2. UpTo(l) \subseteq UpTo(i) /\ UpTo(i) \subseteq I
    <3>1. \A j \in I : j <= l => j <= i
      BY <2>1
    <3> QED
      BY <3>1
  <2>3. IsFiniteSet(UpTo(i))
    BY <2>2, FS_Subset
  <2> HIDE DEF UpTo
  <2> QED
    BY <2>2, <2>3, FS_Subset
<1> HIDE DEF Rank, n
<1>4. \A k \in 1..n : nth(k) \in I /\ Rank(nth(k)) = k
  BY <1>1
<1>5. \A i \in I : Rank(i) \in 1..n /\ nth(Rank(i)) = i
  BY <1>1, <1>4
<1> HIDE DEF nth
<1>6. \A k \in 1..n : at[k] = nth(k)
  OBVIOUS
<1>7. at \in [1..n -> I]
  BY <1>4
<1> HIDE DEF at
<1>8. ASSUME NEW k \in 1..n, NEW l \in 1..n, k < l PROVE at[k] < at[l]
  <2>1. at[k] \in Nat /\ at[l] \in Nat
    BY <1>7
  <2>2. Rank(at[k]) = k /\ Rank(at[l]) = l
    BY <1>4, <1>6
  <2>3. ~(at[l] <= at[k])
    <3> SUFFICES ASSUME at[l] <= at[k] PROVE FALSE
      OBVIOUS
    <3>1. l <= k
      BY <1>3, <1>7, <2>2
    <3>2. k \in Nat /\ l \in Nat
      BY <1>1
    <3> QED
      BY <1>8, <3>1, <3>2
  <2> QED
    BY <2>1, <2>3
<1>9. \A i \in I : \E k \in 1..n : at[k] = i
  BY <1>5, <1>6
<1>10. DOMAIN Picked(s, I) = 1..n /\ \A k \in 1..n : Picked(s, I)[k] = s[at[k]]
  BY <1>2, <1>6
<1> DEFINE picked == Picked(s, I)
<1> HIDE DEF picked
<1>11. /\ at \in [DOMAIN picked -> I]
       /\ \A k \in DOMAIN picked : picked[k] = s[at[k]]
       /\ \A k, l \in DOMAIN picked : k < l => at[k] < at[l]
       /\ \A i \in I : \E k \in DOMAIN picked : at[k] = i
  BY <1>7, <1>8, <1>9, <1>10 DEF picked
<1> QED
  BY <1>11 DEF picked

(* Positions of different members give a sequence without repetition.      *)
LEMMA PickedInjective ==
    ASSUME NEW s, NEW I, I \subseteq Nat, IsFiniteSet(I),
           \A i, l \in I : s[i] = s[l] => i = l
    PROVE  IsInjective(Picked(s, I))
<1> DEFINE n == Cardinality(I)
           Rank(i) == Cardinality({j \in I : j <= i})
           nth(k) == CHOOSE i \in I : Rank(i) = k
<1>1. \A k \in 1..n : \E i \in I : Rank(i) = k
  BY RankIsBijective
<1>2. Picked(s, I) = [k \in 1..n |-> s[nth(k)]]
  BY DEF Picked
<1> HIDE DEF Rank, n
<1>3. \A k \in 1..n : nth(k) \in I /\ Rank(nth(k)) = k
  BY <1>1
<1> HIDE DEF nth
<1>4. ASSUME NEW j \in 1..n, NEW k \in 1..n, s[nth(j)] = s[nth(k)] PROVE j = k
  <2>1. nth(j) = nth(k)
    BY <1>3, <1>4
  <2> QED
    BY <1>3, <2>1
<1> QED
  BY <1>2, <1>4 DEF IsInjective

LEMMA NoMembers ==
    ASSUME NEW S, NEW s \in Seq(S)
    PROVE  s = <<>> <=> ToSet(s) = {}
<1>1. s # <<>> => 1 \in DOMAIN s
  OBVIOUS
<1>2. ToSet(<<>>) = {}
  BY DEF ToSet
<1> QED
  BY <1>1, <1>2 DEF ToSet

-----------------------------------------------------------------------------
(* FlattenSeq.                                                             *)

(* A function that joins sequences one after the other.                    *)
Joins(f, s, n) == \A i \in 1..n : f[i] = IF i = 1 THEN s[i] ELSE f[i - 1] \o s[i]

LEMMA JoinsExist ==
    ASSUME NEW s, NEW n \in Nat \ {0}
    PROVE  \E f : Joins(f, s, n)
<1> DEFINE S == {m \in 0..(n - 1) : \E f : Joins(f, s, m + 1)}
<1>1. \E f : Joins(f, s, 0 + 1)
  <2> DEFINE f == [i \in 1..1 |-> s[i]]
  <2>1. Joins(f, s, 0 + 1)
    BY DEF Joins
  <2> HIDE DEF f
  <2> QED
    BY <2>1
<1>2. ASSUME NEW m \in 0..(n - 2), NEW f, Joins(f, s, m + 1)
      PROVE  \E g : Joins(g, s, (m + 1) + 1)
  <2> DEFINE last == f[m + 1] \o s[m + 2]
             g == [i \in 1..(m + 2) |-> IF i = m + 2 THEN last ELSE f[i]]
  <2> HIDE DEF last
  <2>1. \A i \in 1..(m + 1) : g[i] = f[i]
    OBVIOUS
  <2>2. g[m + 2] = last
    OBVIOUS
  <2> HIDE DEF g
  <2>3. ASSUME NEW i \in 1..((m + 1) + 1)
        PROVE  g[i] = IF i = 1 THEN s[i] ELSE g[i - 1] \o s[i]
    <3>1. CASE i = m + 2
      <4>1. g[i - 1] = f[m + 1] /\ i # 1
        BY <2>1, <3>1
      <4> QED
        BY <2>2, <3>1, <4>1 DEF last
    <3>2. CASE i # m + 2
      <4>1. i \in 1..(m + 1) /\ (i # 1 => i - 1 \in 1..(m + 1))
        BY <3>2
      <4> QED
        BY <1>2, <2>1, <4>1 DEF Joins
    <3> QED
      BY <3>1, <3>2
  <2> QED
    BY <2>3 DEF Joins
<1>3. \A m \in 0..(n - 1) : m \in S
  <2>1. 0 \in S /\ \A m \in 0..((n - 1) - 1) : m \in S => m + 1 \in S
    BY <1>1, <1>2
  <2> HIDE DEF S
  <2> QED
    BY <2>1, AllUpTo
<1>4. n - 1 \in S /\ (n - 1) + 1 = n
  BY <1>3
<1> QED
  BY <1>4

LEMMA FlattenSeqJoins ==
    ASSUME NEW s, Len(s) \in Nat \ {0}
    PROVE  \E f : Joins(f, s, Len(s)) /\ FlattenSeq(s) = f[Len(s)]
<1> DEFINE n == Len(s)
           flatten == CHOOSE f : f = [i \in 1..n |-> IF i = 1 THEN s[i] ELSE f[i - 1] \o s[i]]
<1>1. FlattenSeq(s) = flatten[n]
  BY DEF FlattenSeq
<1>2. \E f : f = [i \in 1..n |-> IF i = 1 THEN s[i] ELSE f[i - 1] \o s[i]]
  <2>1. PICK f : Joins(f, s, n)
    BY JoinsExist
  <2> DEFINE g == [i \in 1..n |-> f[i]]
  <2>2. \A i \in 1..n : f[i] = IF i = 1 THEN s[i] ELSE g[i - 1] \o s[i]
    <3>1. \A i \in 1..n : i # 1 => g[i - 1] = f[i - 1]
      OBVIOUS
    <3> HIDE DEF g
    <3> QED
      BY <2>1, <3>1 DEF Joins
  <2>3. g = [i \in 1..n |-> IF i = 1 THEN s[i] ELSE g[i - 1] \o s[i]]
    BY <2>2
  <2> HIDE DEF g
  <2> QED
    BY <2>3
<1>3. flatten = [i \in 1..n |-> IF i = 1 THEN s[i] ELSE flatten[i - 1] \o s[i]]
  BY <1>2
<1> HIDE DEF flatten
<1>4. Joins(flatten, s, n)
  BY <1>3 DEF Joins
<1> QED
  BY <1>1, <1>4

(* The members of sequences that are joined.                               *)
LEMMA FlattenedMembers ==
    ASSUME NEW S, NEW s \in Seq(Seq(S))
    PROVE  /\ FlattenSeq(s) \in Seq(S)
           /\ ToSet(FlattenSeq(s)) = UNION {ToSet(s[i]) : i \in DOMAIN s}
<1> DEFINE n == Len(s)
           Members(m) == UNION {ToSet(s[i]) : i \in 1..m}
<1>1. n \in Nat /\ DOMAIN s = 1..n /\ \A i \in 1..n : s[i] \in Seq(S)
  OBVIOUS
<1>2. CASE n = 0
  <2>1. FlattenSeq(s) = s /\ s = <<>>
    BY <1>2 DEF FlattenSeq
  <2> QED
    BY <1>1, <1>2, <2>1 DEF ToSet
<1>3. CASE n # 0
  <2>1. PICK f : Joins(f, s, n) /\ FlattenSeq(s) = f[n]
    BY <1>1, <1>3, FlattenSeqJoins
  <2> DEFINE T == {m \in 0..(n - 1) :
                     f[m + 1] \in Seq(S) /\ ToSet(f[m + 1]) = Members(m + 1)}
  <2>2. 0 \in T
    <3>1. f[1] = s[1] /\ s[1] \in Seq(S)
      BY <1>1, <1>3, <2>1 DEF Joins
    <3>2. Members(1) = ToSet(s[1])
      OBVIOUS
    <3> QED
      BY <1>1, <1>3, <3>1, <3>2
  <2>3. ASSUME NEW m \in 0..((n - 1) - 1), m \in T PROVE m + 1 \in T
    <3>1. m + 2 \in 1..n /\ m + 1 \in 1..n /\ (m + 1) + 1 = m + 2 /\ m + 1 \in 0..(n - 1)
      BY <1>1
    <3>2. f[m + 2] = f[m + 1] \o s[m + 2]
      <4>1. m + 2 # 1 /\ (m + 2) - 1 = m + 1
        OBVIOUS
      <4> QED
        BY <2>1, <3>1, <4>1 DEF Joins
    <3>3. f[m + 1] \in Seq(S) /\ ToSet(f[m + 1]) = Members(m + 1) /\ s[m + 2] \in Seq(S)
      BY <1>1, <2>3, <3>1
    <3>4. f[m + 2] \in Seq(S) /\ ToSet(f[m + 2]) = Members(m + 1) \cup ToSet(s[m + 2])
      BY <3>2, <3>3, JoinedMembers
    <3>5. 1..(m + 2) = 1..(m + 1) \cup {m + 2}
      OBVIOUS
    <3>6. Members(m + 2) = Members(m + 1) \cup ToSet(s[m + 2])
      BY <3>5
    <3> QED
      BY <3>1, <3>4, <3>6
  <2>4. n - 1 \in T
    <3>1. n - 1 \in Nat
      BY <1>1, <1>3
    <3> HIDE DEF T, n
    <3> QED
      BY <2>2, <2>3, <3>1, AllUpTo
  <2> QED
    BY <1>1, <2>1, <2>4
<1> QED
  BY <1>2, <1>3
-----------------------------------------------------------------------------
(* What is read of a JSON value.                                           *)

(* Levels is what it is defined to be: each level opens the one before.    *)
LEMMA LevelsExist ==
    ASSUME NEW value
    PROVE  \E f : f = [depth \in 0..MaxTextDepth |->
                         IF depth = 0 THEN <<value>> ELSE Opened(f[depth - 1])]
<1> USE CardTextAssumption
<1> DEFINE Opens(f, n) == \A d \in 0..n : f[d] = IF d = 0 THEN <<value>> ELSE Opened(f[d - 1])
           S == {n \in 0..MaxTextDepth : \E f : Opens(f, n)}
<1>1. \E f : Opens(f, 0)
  <2> DEFINE f == [d \in {0} |-> <<value>>]
  <2>1. Opens(f, 0)
    OBVIOUS
  <2> HIDE DEF f
  <2> QED
    BY <2>1
<1>2. ASSUME NEW n \in 0..(MaxTextDepth - 1), NEW f, Opens(f, n)
      PROVE  \E g : Opens(g, n + 1)
  <2> DEFINE last == Opened(f[n])
             g == [d \in 0..(n + 1) |-> IF d = n + 1 THEN last ELSE f[d]]
  <2> HIDE DEF last
  <2>1. \A d \in 0..n : g[d] = f[d]
    OBVIOUS
  <2>2. g[n + 1] = last
    OBVIOUS
  <2> HIDE DEF g
  <2>3. ASSUME NEW d \in 0..(n + 1)
        PROVE  g[d] = IF d = 0 THEN <<value>> ELSE Opened(g[d - 1])
    <3>1. CASE d = n + 1
      <4>1. g[d - 1] = f[n] /\ d # 0
        BY <2>1, <3>1
      <4> QED
        BY <2>2, <3>1, <4>1 DEF last
    <3>2. CASE d # n + 1
      <4>1. d \in 0..n /\ (d # 0 => d - 1 \in 0..n)
        BY <3>2
      <4> QED
        BY <1>2, <2>1, <4>1
    <3> QED
      BY <3>1, <3>2
  <2>4. Opens(g, n + 1)
    BY <2>3
  <2> QED
    BY <2>4
<1> HIDE DEF Opens
<1>3. \A n \in 0..MaxTextDepth : n \in S
  <2>1. 0 \in S /\ \A n \in 0..(MaxTextDepth - 1) : n \in S => n + 1 \in S
    BY <1>1, <1>2
  <2> HIDE DEF S
  <2> QED
    BY <2>1, AllUpTo
<1>4. PICK f : Opens(f, MaxTextDepth)
  BY <1>3
<1> DEFINE g == [d \in 0..MaxTextDepth |-> f[d]]
<1>5. \A d \in 0..MaxTextDepth : f[d] = IF d = 0 THEN <<value>> ELSE Opened(g[d - 1])
  <2>1. \A d \in 0..MaxTextDepth : d # 0 => g[d - 1] = f[d - 1]
    OBVIOUS
  <2> HIDE DEF g
  <2> QED
    BY <1>4, <2>1 DEF Opens
<1>6. g = [d \in 0..MaxTextDepth |-> IF d = 0 THEN <<value>> ELSE Opened(g[d - 1])]
  BY <1>5
<1> HIDE DEF g
<1> QED
  BY <1>6

LEMMA LevelsOpen ==
    ASSUME NEW value
    PROVE  /\ Levels(value)[0] = <<value>>
           /\ \A d \in 0..(MaxTextDepth - 1) : Levels(value)[d + 1] = Opened(Levels(value)[d])
<1> DEFINE level == CHOOSE f : f = [depth \in 0..MaxTextDepth |->
                                      IF depth = 0 THEN <<value>> ELSE Opened(f[depth - 1])]
<1>1. Levels(value) = level
  BY DEF Levels
<1>2. level = [depth \in 0..MaxTextDepth |->
                 IF depth = 0 THEN <<value>> ELSE Opened(level[depth - 1])]
  BY LevelsExist
<1> HIDE DEF level
<1>3. \A d \in 0..MaxTextDepth : level[d] = IF d = 0 THEN <<value>> ELSE Opened(level[d - 1])
  BY <1>2
<1>4. ASSUME NEW d \in 0..(MaxTextDepth - 1) PROVE level[d + 1] = Opened(level[d])
  <2>1. d + 1 \in 0..MaxTextDepth /\ d + 1 # 0 /\ (d + 1) - 1 = d
    BY CardTextAssumption
  <2> QED
    BY <1>3, <2>1
<1> QED
  BY <1>1, <1>3, <1>4, CardTextAssumption

(* A set of JSON values that has all that is in them.                      *)
Json(V) == \A v \in V : Inside(v) \in Seq(V)

(* The values that are so many steps inside a value.                       *)
Reached(V, value, depth) ==
    {v \in V : \E path \in [0..depth -> V] :
                  /\ path[0] = value /\ path[depth] = v
                  /\ \A d \in 0..(depth - 1) : path[d + 1] \in ToSet(Inside(path[d]))}

Strings(V, value, depth) == {v \in Reached(V, value, depth) : v.kind = "string"}

LEMMA ReachedAtOnce ==
    ASSUME NEW V, NEW value \in V
    PROVE  Reached(V, value, 0) = {value}
<1> DEFINE path == [d \in 0..0 |-> value]
<1>1. path \in [0..0 -> V] /\ path[0] = value
  OBVIOUS
<1> HIDE DEF path
<1>2. value \in Reached(V, value, 0)
  BY <1>1 DEF Reached
<1> QED
  BY <1>2 DEF Reached

(* A value is reached through one that is reached a step before ...        *)
LEMMA ReachedAtLast ==
    ASSUME NEW V, Json(V), NEW value \in V, NEW n \in Nat
    PROVE  Reached(V, value, n + 1) = UNION {ToSet(Inside(u)) : u \in Reached(V, value, n)}
<1>1. ASSUME NEW v \in Reached(V, value, n + 1)
      PROVE  \E u \in Reached(V, value, n) : v \in ToSet(Inside(u))
  <2>1. PICK path \in [0..(n + 1) -> V] :
           /\ path[0] = value /\ path[n + 1] = v
           /\ \A d \in 0..((n + 1) - 1) : path[d + 1] \in ToSet(Inside(path[d]))
    BY DEF Reached
  <2> DEFINE front == [d \in 0..n |-> path[d]]
  <2>2. front \in [0..n -> V] /\ \A d \in 0..n : front[d] = path[d]
    OBVIOUS
  <2> HIDE DEF front
  <2>3. /\ front[0] = value /\ front[n] = path[n] /\ path[n] \in V
        /\ \A d \in 0..(n - 1) : front[d + 1] \in ToSet(Inside(front[d]))
    BY <2>1, <2>2
  <2>4. path[n] \in Reached(V, value, n)
    BY <2>2, <2>3 DEF Reached
  <2> QED
    BY <2>1, <2>4
<1>2. ASSUME NEW u \in Reached(V, value, n), NEW v \in ToSet(Inside(u))
      PROVE  v \in Reached(V, value, n + 1)
  <2>1. u \in V /\ v \in V
    BY DEF Reached, Json, ToSet
  <2>2. PICK path \in [0..n -> V] :
           /\ path[0] = value /\ path[n] = u
           /\ \A d \in 0..(n - 1) : path[d + 1] \in ToSet(Inside(path[d]))
    BY DEF Reached
  <2> DEFINE longer == [d \in 0..(n + 1) |-> IF d = n + 1 THEN v ELSE path[d]]
  <2>3. /\ longer \in [0..(n + 1) -> V]
        /\ longer[n + 1] = v
        /\ \A d \in 0..n : longer[d] = path[d]
    BY <2>1
  <2> HIDE DEF longer
  <2>4. ASSUME NEW d \in 0..((n + 1) - 1)
        PROVE  longer[d + 1] \in ToSet(Inside(longer[d]))
    <3>1. CASE d = n
      BY <2>2, <2>3, <3>1
    <3>2. CASE d # n
      BY <2>2, <2>3, <3>2
    <3> QED
      BY <3>1, <3>2
  <2> QED
    BY <2>1, <2>2, <2>3, <2>4 DEF Reached
<1> QED
  BY <1>1, <1>2

(* ... and from one that is directly inside.                               *)
LEMMA ReachedAtFirst ==
    ASSUME NEW V, Json(V), NEW value \in V, NEW n \in Nat
    PROVE  Reached(V, value, n + 1) = UNION {Reached(V, u, n) : u \in ToSet(Inside(value))}
<1>1. ASSUME NEW v \in Reached(V, value, n + 1)
      PROVE  \E u \in ToSet(Inside(value)) : v \in Reached(V, u, n)
  <2>1. PICK path \in [0..(n + 1) -> V] :
           /\ path[0] = value /\ path[n + 1] = v
           /\ \A d \in 0..((n + 1) - 1) : path[d + 1] \in ToSet(Inside(path[d]))
    BY DEF Reached
  <2> DEFINE rest == [d \in 0..n |-> path[d + 1]]
  <2>2. rest \in [0..n -> V] /\ \A d \in 0..n : rest[d] = path[d + 1]
    OBVIOUS
  <2> HIDE DEF rest
  <2>3. \A d \in 0..(n - 1) : rest[d + 1] \in ToSet(Inside(rest[d]))
    <3> TAKE d \in 0..(n - 1)
    <3>1. d \in 0..n /\ d + 1 \in 0..n /\ d + 1 \in 0..((n + 1) - 1)
      OBVIOUS
    <3> QED
      BY <2>1, <2>2, <3>1
  <2>4. rest[0] = path[1] /\ rest[n] = v /\ v \in V /\ path[1] \in ToSet(Inside(value))
    <3>1. 0 \in 0..((n + 1) - 1) /\ 0 + 1 = 1 /\ 0 \in 0..n /\ n \in 0..n
      OBVIOUS
    <3> QED
      BY <2>1, <2>2, <3>1 DEF Reached
  <2>5. v \in Reached(V, path[1], n)
    BY <2>2, <2>3, <2>4 DEF Reached
  <2> QED
    BY <2>4, <2>5
<1>2. ASSUME NEW u \in ToSet(Inside(value)), NEW v \in Reached(V, u, n)
      PROVE  v \in Reached(V, value, n + 1)
  <2>1. PICK path \in [0..n -> V] :
           /\ path[0] = u /\ path[n] = v
           /\ \A d \in 0..(n - 1) : path[d + 1] \in ToSet(Inside(path[d]))
    BY DEF Reached
  <2> DEFINE longer == [d \in 0..(n + 1) |-> IF d = 0 THEN value ELSE path[d - 1]]
  <2>2. longer \in [0..(n + 1) -> V] /\ longer[0] = value
    OBVIOUS
  <2>3. \A d \in 0..n : longer[d + 1] = path[d]
    OBVIOUS
  <2> HIDE DEF longer
  <2>4. ASSUME NEW d \in 0..((n + 1) - 1)
        PROVE  longer[d + 1] \in ToSet(Inside(longer[d]))
    <3>1. CASE d = 0
      BY <2>1, <2>2, <2>3, <3>1
    <3>2. CASE d # 0
      <4>1. d - 1 \in 0..(n - 1) /\ d - 1 \in 0..n /\ (d - 1) + 1 = d /\ d \in 0..n
        BY <3>2
      <4>2. longer[d] = path[d - 1] /\ longer[d + 1] = path[d]
        BY <2>3, <4>1
      <4>3. path[d] \in ToSet(Inside(path[d - 1]))
        BY <2>1, <4>1
      <4> QED
        BY <4>2, <4>3
    <3> QED
      BY <3>1, <3>2
  <2>5. longer[n + 1] = v /\ v \in V
    BY <2>1, <2>3 DEF Reached
  <2> QED
    BY <2>2, <2>4, <2>5 DEF Reached
<1> QED
  BY <1>1, <1>2
LEMMA StringsInside ==
    ASSUME NEW V, Json(V), NEW value \in V, NEW n \in Nat
    PROVE  Strings(V, value, n + 1) = UNION {Strings(V, u, n) : u \in ToSet(Inside(value))}
BY ReachedAtFirst DEF Strings

(* A string stays where it is found.                                       *)
LEMMA StringStays ==
    ASSUME NEW V, Json(V), NEW value \in V, value.kind = "string", NEW n \in Nat
    PROVE  Strings(V, value, n) = {value}
<1> DEFINE S == {d \in Nat : Strings(V, value, d) = {value}}
<1>1. 0 \in S
  BY ReachedAtOnce DEF Strings
<1>2. ToSet(Inside(value)) = {value}
  BY DEF Inside, ToSet
<1>3. \A d \in 0..(n - 1) : d \in S => d + 1 \in S
  BY <1>2, StringsInside
<1> HIDE DEF S
<1>4. n \in S
  BY <1>1, <1>3, AllUpTo
<1> QED
  BY <1>4 DEF S

(* A level has what is that many steps inside the value.                   *)
LEMMA OpenedMembers ==
    ASSUME NEW V, Json(V), NEW values \in Seq(V)
    PROVE  /\ Opened(values) \in Seq(V)
           /\ ToSet(Opened(values)) = UNION {ToSet(Inside(u)) : u \in ToSet(values)}
<1> DEFINE s == [i \in DOMAIN values |-> Inside(values[i])]
<1>1. s \in Seq(Seq(V)) /\ DOMAIN s = DOMAIN values
  <2>1. \A i \in 1..Len(values) : Inside(values[i]) \in Seq(V)
    BY DEF Json
  <2>2. Len(values) \in Nat /\ DOMAIN values = 1..Len(values)
    OBVIOUS
  <2> QED
    BY <2>1, <2>2
<1>2. \A i \in DOMAIN values : s[i] = Inside(values[i])
  OBVIOUS
<1>3. Opened(values) = FlattenSeq(s)
  BY DEF Opened
<1> HIDE DEF s
<1>4. /\ FlattenSeq(s) \in Seq(V)
      /\ ToSet(FlattenSeq(s)) = UNION {ToSet(s[i]) : i \in DOMAIN s}
  BY <1>1, FlattenedMembers
<1>5. UNION {ToSet(s[i]) : i \in DOMAIN s} = UNION {ToSet(Inside(u)) : u \in ToSet(values)}
  BY <1>1, <1>2 DEF ToSet
<1> QED
  BY <1>3, <1>4, <1>5

LEMMA LevelMembers ==
    ASSUME NEW V, Json(V), NEW value \in V
    PROVE  \A d \in 0..MaxTextDepth :
              /\ Levels(value)[d] \in Seq(V)
              /\ ToSet(Levels(value)[d]) = Reached(V, value, d)
<1> DEFINE level == Levels(value)
           S == {d \in 0..MaxTextDepth :
                   level[d] \in Seq(V) /\ ToSet(level[d]) = Reached(V, value, d)}
<1>1. 0 \in S
  <2>1. <<value>> \in Seq(V) /\ ToSet(<<value>>) = {value}
    BY DEF ToSet
  <2>2. level[0] = <<value>>
    BY LevelsOpen
  <2>3. Reached(V, value, 0) = {value}
    BY ReachedAtOnce
  <2>4. 0 \in 0..MaxTextDepth
    BY CardTextAssumption
  <2> HIDE DEF level
  <2> QED
    BY <2>1, <2>2, <2>3, <2>4
<1>2. ASSUME NEW d \in 0..(MaxTextDepth - 1), d \in S PROVE d + 1 \in S
  <2>1. level[d + 1] = Opened(level[d]) /\ d \in Nat /\ d + 1 \in 0..MaxTextDepth
    BY LevelsOpen, CardTextAssumption
  <2>2. /\ level[d + 1] \in Seq(V)
        /\ ToSet(level[d + 1]) = UNION {ToSet(Inside(u)) : u \in ToSet(level[d])}
    BY <1>2, <2>1, OpenedMembers
  <2>3. ToSet(level[d + 1]) = Reached(V, value, d + 1)
    BY <1>2, <2>1, <2>2, ReachedAtLast
  <2> QED
    BY <2>1, <2>2, <2>3
<1>3. \A d \in 0..MaxTextDepth : d \in S
  <2> HIDE DEF S
  <2> QED
    BY <1>1, <1>2, AllUpTo, CardTextAssumption
<1> QED
  BY <1>3

(* A Filter has the members that pass.                                     *)
LEMMA FilterStrings ==
    ASSUME NEW V, NEW values \in Seq(V)
    PROVE  LET strings == Filter(values, LAMBDA v : v.kind = "string")
           IN  /\ strings \in Seq(V)
               /\ ToSet(strings) = {v \in ToSet(values) : v.kind = "string"}
<1> DEFINE I == {i \in DOMAIN values : values[i].kind = "string"}
<1>1. Filter(values, LAMBDA v : v.kind = "string") = Picked(values, I)
  BY DEF Filter
<1>2. I \subseteq Nat /\ IsFiniteSet(I)
  BY PositionsAreFinite
<1>3. {values[i] : i \in I} \subseteq V
  OBVIOUS
<1>4. {values[i] : i \in I} = {v \in ToSet(values) : v.kind = "string"}
  BY DEF ToSet
<1> HIDE DEF I
<1>5. /\ Picked(values, I) \in Seq({values[i] : i \in I})
      /\ ToSet(Picked(values, I)) = {values[i] : i \in I}
  BY <1>2, PickedMembers
<1>6. Picked(values, I) \in Seq(V)
  BY <1>3, <1>5
<1> QED
  BY <1>1, <1>4, <1>5, <1>6

LEMMA FilterPresent ==
    ASSUME NEW T, NEW texts \in Seq(T)
    PROVE  LET present == Filter(texts, LAMBDA t : t # Absent)
           IN  present \in Seq(T) /\ ToSet(present) = ToSet(texts) \ {Absent}
<1> DEFINE I == {i \in DOMAIN texts : texts[i] # Absent}
<1>1. Filter(texts, LAMBDA t : t # Absent) = Picked(texts, I)
  BY DEF Filter
<1>2. I \subseteq Nat /\ IsFiniteSet(I)
  BY PositionsAreFinite
<1>3. {texts[i] : i \in I} \subseteq T
  OBVIOUS
<1>4. {texts[i] : i \in I} = ToSet(texts) \ {Absent}
  BY DEF ToSet
<1> HIDE DEF I
<1>5. /\ Picked(texts, I) \in Seq({texts[i] : i \in I})
      /\ ToSet(Picked(texts, I)) = {texts[i] : i \in I}
  BY <1>2, PickedMembers
<1>6. Picked(texts, I) \in Seq(T)
  BY <1>3, <1>5
<1> QED
  BY <1>1, <1>4, <1>5, <1>6

(* The texts found in a JSON value are those of the strings within reach,  *)
(* of all of them and of no others, whatever the value is: no key, no item *)
(* and no nesting short of the limit hides one (appendStructuredText).     *)
THEOREM TextsWithinReachAreRead ==
    ASSUME NEW V, Json(V), NEW value \in V
    PROVE  LET texts == {v.text : v \in Strings(V, value, MaxTextDepth)}
           IN  /\ Fragments(value) \in Seq(texts)
               /\ ToSet(Fragments(value)) = texts \ {Absent}
<1> DEFINE values == Levels(value)[MaxTextDepth]
           strings == Filter(values, LAMBDA v : v.kind = "string")
           texts == [i \in DOMAIN strings |-> strings[i].text]
           all == {v.text : v \in Strings(V, value, MaxTextDepth)}
<1>1. Fragments(value) = Filter(texts, LAMBDA t : t # Absent)
  BY DEF Fragments
<1>2. values \in Seq(V) /\ ToSet(values) = Reached(V, value, MaxTextDepth)
  BY LevelMembers, CardTextAssumption
<1> HIDE DEF values
<1>3. strings \in Seq(V) /\ ToSet(strings) = {v \in ToSet(values) : v.kind = "string"}
  BY <1>2, FilterStrings
<1> HIDE DEF strings
<1>4. ToSet(texts) = all
  BY <1>2, <1>3 DEF ToSet, Strings
<1>5. texts \in Seq(all)
  <2>1. Len(strings) \in Nat /\ DOMAIN strings = 1..Len(strings)
    BY <1>3
  <2>2. DOMAIN texts = 1..Len(strings) /\ \A i \in 1..Len(strings) : texts[i] \in all
    BY <1>4, <2>1 DEF ToSet
  <2>3. texts \in [1..Len(strings) -> all]
    BY <2>1, <2>2
  <2> HIDE DEF texts, all
  <2> QED
    BY <2>1, <2>3
<1> HIDE DEF texts, all
<1>6. /\ Filter(texts, LAMBDA t : t # Absent) \in Seq(all)
      /\ ToSet(Filter(texts, LAMBDA t : t # Absent)) = ToSet(texts) \ {Absent}
  BY <1>5, FilterPresent
<1> QED
  BY <1>1, <1>4, <1>6 DEF all

(* joinUniqueText keeps every text that is not blank, once.                *)
THEOREM TextsAreSaidOnce ==
    ASSUME NEW T, NEW texts \in Seq(T)
    PROVE  /\ JoinUnique(texts) \in Seq(T)
           /\ ToSet(JoinUnique(texts)) = ToSet(texts) \ {Absent}
           /\ IsInjective(JoinUnique(texts))
<1> DEFINE I == {i \in DOMAIN texts :
                   texts[i] # Absent /\ \A j \in 1..(i - 1) : texts[j] # texts[i]}
<1>1. JoinUnique(texts) = Picked(texts, I)
  BY DEF JoinUnique
<1>2. DOMAIN texts = 1..Len(texts) /\ Len(texts) \in Nat
  OBVIOUS
<1>3. I \subseteq Nat /\ IsFiniteSet(I)
  BY PositionsAreFinite
<1>4. {texts[i] : i \in I} = ToSet(texts) \ {Absent}
  <2>1. ASSUME NEW t \in ToSet(texts) \ {Absent} PROVE \E i \in I : texts[i] = t
    <3> DEFINE places == {i \in DOMAIN texts : texts[i] = t}
    <3>1. places \subseteq Nat /\ places # {}
      BY <1>2 DEF ToSet
    <3>2. PICK i \in places : \A j \in places : i <= j
      <4> HIDE DEF places
      <4> QED
        BY <3>1, LeastExists
    <3>3. \A j \in 1..(i - 1) : j \notin places
      BY <1>2, <3>2
    <3>4. \A j \in 1..(i - 1) : texts[j] # t
      BY <1>2, <3>2, <3>3
    <3> QED
      BY <3>2, <3>4
  <2>2. \A i \in I : texts[i] \in ToSet(texts) \ {Absent}
    BY DEF ToSet
  <2> HIDE DEF I
  <2> QED
    BY <2>1, <2>2
<1>5. ASSUME NEW i \in I, NEW l \in I, texts[i] = texts[l] PROVE i = l
  <2>1. ~(i < l) /\ ~(l < i)
    BY <1>2, <1>5
  <2> QED
    BY <1>2, <2>1
<1>6. {texts[i] : i \in I} \subseteq T
  OBVIOUS
<1> HIDE DEF I
<1>7. /\ Picked(texts, I) \in Seq({texts[i] : i \in I})
      /\ ToSet(Picked(texts, I)) = {texts[i] : i \in I}
  BY <1>3, PickedMembers
<1>8. IsInjective(Picked(texts, I))
  BY <1>3, <1>5, PickedInjective
<1>9. Picked(texts, I) \in Seq(T)
  BY <1>6, <1>7
<1> QED
  BY <1>1, <1>4, <1>7, <1>8, <1>9

(* joinUniqueText puts no text before another that was found first.        *)
THEOREM TextsKeepTheirOrder ==
    ASSUME NEW T, NEW texts \in Seq(T)
    PROVE  \E at \in [DOMAIN JoinUnique(texts) -> DOMAIN texts] :
              /\ \A k, l \in DOMAIN JoinUnique(texts) : k < l => at[k] < at[l]
              /\ \A k \in DOMAIN JoinUnique(texts) :
                    /\ JoinUnique(texts)[k] = texts[at[k]]
                    /\ \A j \in 1..(at[k] - 1) : texts[j] # texts[at[k]]
<1> DEFINE I == {i \in DOMAIN texts :
                   texts[i] # Absent /\ \A j \in 1..(i - 1) : texts[j] # texts[i]}
<1>1. JoinUnique(texts) = Picked(texts, I)
  BY DEF JoinUnique
<1>2. I \subseteq Nat /\ IsFiniteSet(I)
  BY PositionsAreFinite
<1>3. I \subseteq DOMAIN texts /\ \A i \in I : \A j \in 1..(i - 1) : texts[j] # texts[i]
  OBVIOUS
<1> HIDE DEF I
<1>4. PICK at \in [DOMAIN Picked(texts, I) -> I] :
         /\ \A k \in DOMAIN Picked(texts, I) : Picked(texts, I)[k] = texts[at[k]]
         /\ \A k, l \in DOMAIN Picked(texts, I) : k < l => at[k] < at[l]
  BY <1>2, PickedKeepsOrder
<1>5. at \in [DOMAIN Picked(texts, I) -> DOMAIN texts]
  BY <1>3
<1>6. \A k \in DOMAIN Picked(texts, I) : at[k] \in I
  OBVIOUS
<1> HIDE DEF JoinUnique
<1> QED
  BY <1>1, <1>3, <1>4, <1>5, <1>6

(* The text of an activity without one of its own: every text of its value *)
(* and of its attachments that is not blank, once.                         *)
LEMMA TextOfParts ==
    ASSUME NEW T, NEW act, act.text = <<>>, Fragments(act.value) \in Seq(T),
           NEW A, act.attachments \in Seq(A), \A a \in A : AttachmentText(a) \in Seq(T)
    PROVE  /\ ActivityText(act) \in Seq(T)
           /\ IsInjective(ActivityText(act))
           /\ ToSet(ActivityText(act)) =
                (ToSet(Fragments(act.value)) \cup
                 UNION {ToSet(AttachmentText(a)) : a \in ToSet(act.attachments)}) \ {Absent}
<1> DEFINE own == Fragments(act.value)
           parts == [i \in DOMAIN act.attachments |-> AttachmentText(act.attachments[i])]
           found == own \o FlattenSeq(parts)
<1>1. ActivityText(act) = JoinUnique(found)
  BY DEF ActivityText
<1>2. parts \in Seq(Seq(T)) /\ DOMAIN parts = DOMAIN act.attachments
  <2>1. \A i \in 1..Len(act.attachments) : AttachmentText(act.attachments[i]) \in Seq(T)
    OBVIOUS
  <2>2. Len(act.attachments) \in Nat /\ DOMAIN act.attachments = 1..Len(act.attachments)
    OBVIOUS
  <2> QED
    BY <2>1, <2>2
<1>3. \A i \in DOMAIN parts : parts[i] = AttachmentText(act.attachments[i])
  OBVIOUS
<1> HIDE DEF parts
<1>4. /\ FlattenSeq(parts) \in Seq(T)
      /\ ToSet(FlattenSeq(parts)) = UNION {ToSet(parts[i]) : i \in DOMAIN parts}
  BY <1>2, FlattenedMembers
<1>5. UNION {ToSet(parts[i]) : i \in DOMAIN parts} =
      UNION {ToSet(AttachmentText(a)) : a \in ToSet(act.attachments)}
  <2>1. \A a : a \in ToSet(act.attachments) <=>
               \E i \in DOMAIN parts : a = act.attachments[i]
    BY <1>2 DEF ToSet
  <2>2. {ToSet(parts[i]) : i \in DOMAIN parts} =
        {ToSet(AttachmentText(a)) : a \in ToSet(act.attachments)}
    BY <1>3, <2>1
  <2> QED
    BY <2>2
<1>6. found \in Seq(T) /\ ToSet(found) = ToSet(own) \cup ToSet(FlattenSeq(parts))
  <2> HIDE DEF own
  <2>1. own \in Seq(T)
    BY DEF own
  <2> QED
    BY <1>4, <2>1, JoinedMembers
<1> HIDE DEF found
<1>7. /\ JoinUnique(found) \in Seq(T)
      /\ ToSet(JoinUnique(found)) = ToSet(found) \ {Absent}
      /\ IsInjective(JoinUnique(found))
  BY <1>6, TextsAreSaidOnce
<1> QED
  BY <1>1, <1>4, <1>5, <1>6, <1>7
=============================================================================
