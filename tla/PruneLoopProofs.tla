--------------------------- MODULE PruneLoopProofs ---------------------------
(***************************************************************************)
(* Theorems about PruneLoop, for any finite set of keys, any stamps, any   *)
(* times and any limit: whatever order Go chooses, the loop leaves what    *)
(* TrackedState promises.                                                  *)
(***************************************************************************)
EXTENDS PruneLoop, FiniteSetTheorems, SequenceTheorems, TLAPS

-----------------------------------------------------------------------------
(* The operators of TrackedState. *)

Map == [Keys -> Stamps \cup {Absent}]

LEMMA HeldFinite ==
    ASSUME NEW m \in Map
    PROVE  Held(m) \subseteq Keys /\ IsFiniteSet(Held(m)) /\ Cardinality(Held(m)) \in Nat
<1>1. Held(m) \in SUBSET Keys
  BY DEF Map, Held
<1>2. QED  BY <1>1, PruneAssumption, FS_Subset, FS_CardinalityType

LEMMA AtType == ASSUME NEW stamp PROVE At(stamp) \in Nat
BY DEF At

(* Restricting a map to keys it holds leaves it those keys. *)
LEMMA RestrictedFacts ==
    ASSUME NEW m \in Map, NEW K \in SUBSET Held(m)
    PROVE  /\ RestrictedTo(m, K) \in Map
           /\ Held(RestrictedTo(m, K)) = K
           /\ \A k \in K : RestrictedTo(m, K)[k] = m[k]
BY DEF RestrictedTo, Held, Map

(* A key that a step deletes is one the restriction loses. *)
LEMMA DeletedFacts ==
    ASSUME NEW m \in Map, NEW K \in SUBSET Held(m), NEW k \in K
    PROVE  /\ [RestrictedTo(m, K) EXCEPT ![k] = Absent] = RestrictedTo(m, K \ {k})
           /\ [RestrictedTo(m, K) EXCEPT ![k] = Absent] \in Map
BY DEF RestrictedTo, Held, Map

LEMMA FreshIsHeld == ASSUME NEW m, NEW t PROVE Fresh(m, t) \subseteq Held(m)
BY DEF Fresh

(* A function that takes as many places as there are keys, without taking  *)
(* one twice, takes them all.                                              *)
LEMMA SortedFacts ==
    ASSUME NEW m \in Map, NEW s \in SortedByTime(m)
    PROVE  /\ s \in Seq(Keys)
           /\ DOMAIN s = 1..Cardinality(Held(m))
           /\ {s[i] : i \in DOMAIN s} = Held(m)
           /\ \A i, j \in DOMAIN s : i < j => s[i] # s[j] /\ At(m[s[i]]) <= At(m[s[j]])
<1> DEFINE n == Cardinality(Held(m))
<1>1. n \in Nat /\ IsFiniteSet(Held(m)) /\ Held(m) \subseteq Keys
  BY HeldFinite
<1>2. /\ s \in [1..n -> Held(m)]
      /\ \A i, j \in 1..n : i < j => s[i] # s[j] /\ At(m[s[i]]) <= At(m[s[j]])
  BY DEF SortedByTime
<1> HIDE DEF n
<1>3. s \in Injection(1..n, Held(m))
  <2>1. ASSUME NEW i \in 1..n, NEW j \in 1..n, s[i] = s[j] PROVE i = j
    BY <1>1, <1>2, <2>1
  <2>2. QED  BY <1>2, <2>1 DEF Injection, IsInjective
<1>4. Cardinality(1..n) = n
  BY <1>1, FS_Interval
<1>5. s \in Surjection(1..n, Held(m))
  BY <1>1, <1>3, <1>4, FS_Injection DEF n
<1>6. {s[i] : i \in 1..n} = Held(m)
  BY <1>2, <1>5 DEF Surjection
<1>7. s \in Seq(Keys)
  BY <1>1, <1>2, SeqDef
<1>8. QED  BY <1>2, <1>6, <1>7 DEF n

-----------------------------------------------------------------------------
(* The steps. *)

LEMMA PruneInvInit == ASSUME PruneInit PROVE PruneInv
<1>1. PruneTypeOK
  BY DEF PruneInit, PruneTypeOK, Held
<1>2. ExpireInv
  <2>1. Held(input) \cup Fresh(input, now) = Held(input)
    BY FreshIsHeld
  <2>2. values = RestrictedTo(input, Held(input))
    BY DEF PruneInit, RestrictedTo, Held
  <2>3. QED  BY <2>1, <2>2 DEF PruneInit, ExpireInv
<1>3. QED
  BY <1>1, <1>2 DEF PruneInit, PruneInv, EvictInv, EvictsFromFront, PrunedAsPromised

LEMMA ExpireOneInv == ASSUME PruneInv, NEW k \in Keys, ExpireOne(k) PROVE PruneInv'
<1> DEFINE K == unvisited \cup Fresh(input, now)
           K2 == (unvisited \ {k}) \cup Fresh(input, now)
<1>1. /\ PruneTypeOK /\ pc = "expire" /\ k \in unvisited /\ unvisited \subseteq Held(input)
      /\ values = RestrictedTo(input, K) /\ input \in Map
  BY DEF PruneInv, ExpireOne, ExpireInv, PruneTypeOK, Map
<1>2. K \in SUBSET Held(input) /\ k \in K
  BY <1>1, FreshIsHeld
<1>3. values[k] = input[k]
  BY <1>1, <1>2, RestrictedFacts
<1>4. values' = RestrictedTo(input, K2) /\ values' \in Map
  <2>1. CASE Expired(values[k], now)
    <3>1. K2 = K \ {k}
      BY <1>1, <1>3, <2>1 DEF Fresh
    <3>2. values' = [values EXCEPT ![k] = Absent]
      BY <2>1 DEF ExpireOne, Delete
    <3> HIDE DEF K, K2
    <3>3. QED  BY <1>1, <1>2, <3>1, <3>2, DeletedFacts
  <2>2. CASE ~Expired(values[k], now)
    <3>1. K2 = K
      BY <1>1, <1>3, <2>2 DEF Fresh
    <3>2. values' = values
      BY <2>2 DEF ExpireOne
    <3> HIDE DEF K, K2
    <3>3. QED  BY <1>1, <1>2, <3>1, <3>2, RestrictedFacts
  <2>3. QED  BY <2>1, <2>2
<1>5. pc' = "expire" /\ UNCHANGED <<input, now, items>> /\ unvisited' = unvisited \ {k}
  BY <1>1 DEF ExpireOne
<1>6. PruneTypeOK'
  BY <1>1, <1>4, <1>5 DEF PruneTypeOK, Map
<1>7. QED
  BY <1>1, <1>4, <1>5, <1>6 DEF PruneInv, ExpireInv, EvictInv, EvictsFromFront,
     PrunedAsPromised

(* When the range is over, what is left is what is fresh. *)
LEMMA RangeIsOver ==
    ASSUME PruneInv, pc = "expire", unvisited = {}
    PROVE  /\ input \in Map /\ values \in Map
           /\ values = RestrictedTo(input, Fresh(input, now))
           /\ Held(values) = Fresh(input, now)
<1>1. input \in Map /\ values \in Map
  BY DEF PruneInv, PruneTypeOK, Map
<1>2. values = RestrictedTo(input, Fresh(input, now))
  BY DEF PruneInv, ExpireInv
<1>3. QED  BY <1>1, <1>2, FreshIsHeld, RestrictedFacts

LEMMA WithinLimitInv == ASSUME PruneInv, WithinLimit PROVE PruneInv'
<1>1. /\ pc' = "done" /\ UNCHANGED <<input, now, values, unvisited, items>>
      /\ PruneTypeOK /\ pc = "expire" /\ unvisited = {}
      /\ Cardinality(Held(values)) <= MaxTrackedStateKeys
  BY DEF WithinLimit, PruneInv
<1>2. values \in Pruned(input, now)
  BY <1>1, RangeIsOver DEF Pruned, Kept
<1>3. QED
  BY <1>1, <1>2 DEF PruneInv, PruneTypeOK, ExpireInv, EvictInv, EvictsFromFront,
     PrunedAsPromised

LEMMA SortInv == ASSUME PruneInv, Sort PROVE PruneInv'
<1>1. /\ pc' = "evict" /\ UNCHANGED <<input, now, values, unvisited>>
      /\ PruneTypeOK /\ pc = "expire" /\ unvisited = {} /\ items' \in SortedByTime(values)
      /\ Cardinality(Held(values)) > MaxTrackedStateKeys
  BY DEF Sort, PruneInv
<1>2. /\ values \in Map /\ values = RestrictedTo(input, Fresh(input, now))
      /\ Held(values) = Fresh(input, now)
  BY <1>1, RangeIsOver
<1>3. Cardinality(Held(values)) \in Nat
  BY <1>2, HeldFinite
<1>4. /\ items' \in Seq(Keys)
      /\ {items'[i] : i \in DOMAIN items'} = Held(values)
      /\ \A i, j \in DOMAIN items' : i < j =>
           items'[i] # items'[j] /\ At(values[items'[i]]) <= At(values[items'[j]])
  BY <1>1, <1>2, SortedFacts
<1>5. PruneTypeOK'
  BY <1>1, <1>4 DEF PruneTypeOK
<1>6. EvictInv' /\ EvictsFromFront'
  BY <1>1, <1>2, <1>3, <1>4, TrackedAssumption DEF EvictInv, EvictsFromFront
<1>7. QED  BY <1>1, <1>5, <1>6 DEF PruneInv, ExpireInv, PrunedAsPromised

LEMMA EvictOneInv == ASSUME PruneInv, EvictOne PROVE PruneInv'
<1> DEFINE left == Held(values)
           h == items[1]
<1>1. /\ PruneTypeOK /\ pc = "evict" /\ EvictInv /\ EvictsFromFront
      /\ items # <<>> /\ Cardinality(left) > MaxTrackedStateKeys
      /\ input \in Map /\ values \in Map /\ items \in Seq(Keys)
  BY DEF EvictOne, PruneInv, PruneTypeOK, Map
<1>2. /\ DOMAIN items = 1..Len(items) /\ Len(items) \in Nat \ {0} /\ Head(items) = h
      /\ Tail(items) \in Seq(Keys) /\ DOMAIN Tail(items) = 1..(Len(items) - 1)
      /\ \A i \in DOMAIN Tail(items) : Tail(items)[i] = items[i + 1]
  BY <1>1, EmptySeq, LenProperties, HeadTailProperties
<1>3. /\ left \subseteq Fresh(input, now) /\ values = RestrictedTo(input, left)
      /\ left \in SUBSET Held(input) /\ h \in left
  BY <1>1, <1>2, FreshIsHeld DEF EvictInv, EvictsFromFront
<1>4. /\ items' = Tail(items) /\ values' = [values EXCEPT ![h] = Absent]
      /\ pc' = "evict" /\ UNCHANGED <<input, now, unvisited>>
  BY <1>1, <1>2 DEF EvictOne, Delete
<1>5. /\ values' = RestrictedTo(input, left \ {h}) /\ values' \in Map
      /\ Held(values') = left \ {h}
      /\ \A k \in left \ {h} : values'[k] = values[k] /\ values[k] = input[k]
  <2> HIDE DEF left, h
  <2> DEFINE kept == RestrictedTo(input, left)
  <2>1. /\ [kept EXCEPT ![h] = Absent] = RestrictedTo(input, left \ {h})
        /\ [kept EXCEPT ![h] = Absent] \in Map
    BY <1>1, <1>3, DeletedFacts
  <2>2. values' = [kept EXCEPT ![h] = Absent]
    BY <1>3, <1>4
  <2> HIDE DEF kept
  <2>3. values' = RestrictedTo(input, left \ {h}) /\ values' \in Map
    BY <2>1, <2>2
  <2>4. QED  BY <1>1, <1>3, <2>3, RestrictedFacts
<1>6. Cardinality(Held(values')) >= MaxTrackedStateKeys
  <2> HIDE DEF h
  <2>1. IsFiniteSet(left) /\ Cardinality(left) \in Nat
    BY <1>1, HeldFinite
  <2>2. Cardinality(left \ {h}) = Cardinality(left) - 1
    BY <1>3, <2>1, FS_RemoveElement
  <2> HIDE DEF left
  <2>3. Cardinality(left) - 1 >= MaxTrackedStateKeys
    BY <1>1, <2>1, TrackedAssumption
  <2>4. QED  BY <1>5, <2>2, <2>3
<1>7. {items'[i] : i \in DOMAIN items'} = Held(values')
  <2>1. ASSUME NEW i \in DOMAIN items' PROVE items'[i] \in left \ {h}
    <3>1. /\ i + 1 \in DOMAIN items /\ 1 \in DOMAIN items /\ 1 < i + 1
          /\ items'[i] = items[i + 1]
      BY <1>2, <1>4, <2>1
    <3>2. items[i + 1] # items[1] /\ items[i + 1] \in left
      BY <1>1, <3>1 DEF EvictInv, EvictsFromFront
    <3>3. QED  BY <3>1, <3>2
  <2>2. ASSUME NEW k \in left \ {h} PROVE \E i \in DOMAIN items' : k = items'[i]
    <3>1. PICK j \in 1..Len(items) : k = items[j]
      BY <1>1, <1>2, <2>2 DEF EvictsFromFront
    <3>2. j # 1 /\ j - 1 \in 1..(Len(items) - 1) /\ (j - 1) + 1 = j
      BY <1>2, <2>2, <3>1
    <3>3. items'[j - 1] = items[j]
      BY <1>2, <1>4, <3>2
    <3>4. QED  BY <1>2, <1>4, <3>1, <3>2, <3>3
  <2>3. QED  BY <1>5, <2>1, <2>2
<1>8. \A i, j \in DOMAIN items' : i < j =>
        items'[i] # items'[j] /\ At(values'[items'[i]]) <= At(values'[items'[j]])
  <2>1. SUFFICES ASSUME NEW i \in DOMAIN items', NEW j \in DOMAIN items', i < j
                 PROVE  /\ items'[i] # items'[j]
                        /\ At(values'[items'[i]]) <= At(values'[items'[j]])
    OBVIOUS
  <2>2. /\ i + 1 \in DOMAIN items /\ j + 1 \in DOMAIN items /\ i + 1 < j + 1
        /\ items'[i] = items[i + 1] /\ items'[j] = items[j + 1]
    BY <1>2, <1>4, <2>1
  <2>3. items[i + 1] # items[j + 1] /\ At(values[items[i + 1]]) <= At(values[items[j + 1]])
    BY <1>1, <2>2 DEF EvictInv, EvictsFromFront
  <2>4. items'[i] \in left \ {h} /\ items'[j] \in left \ {h}
    BY <1>5, <1>7, <2>1
  <2>5. QED  BY <1>5, <2>2, <2>3, <2>4
<1>9. ASSUME NEW k \in left \ {h}, NEW j \in Fresh(input, now) \ (left \ {h})
      PROVE  At(input[j]) <= At(input[k])
  <2>1. CASE j = h
    <3>1. PICK i \in DOMAIN items : k = items[i]
      BY <1>1, <1>9 DEF EvictsFromFront
    <3>2. 1 \in DOMAIN items /\ 1 < i
      BY <1>2, <1>9, <3>1
    <3>3. At(values[h]) <= At(values[k])
      BY <1>1, <3>1, <3>2 DEF EvictsFromFront
    <3>4. values[h] = input[h] /\ values[k] = input[k]
      BY <1>1, <1>3, <1>9, RestrictedFacts
    <3>5. QED  BY <2>1, <3>3, <3>4
  <2>2. CASE j # h
    BY <1>1, <1>9, <2>2 DEF EvictInv
  <2>3. QED  BY <2>1, <2>2
<1>10. EvictInv' /\ EvictsFromFront'
  <2>1. Cardinality(Fresh(input, now)) > MaxTrackedStateKeys
    BY <1>1 DEF EvictInv
  <2> HIDE DEF left, h
  <2>2. QED
    BY <1>3, <1>4, <1>5, <1>6, <1>7, <1>8, <1>9, <2>1 DEF EvictInv, EvictsFromFront
<1>11. PruneTypeOK'
  BY <1>1, <1>2, <1>4, <1>5 DEF PruneTypeOK, Map
<1>12. QED  BY <1>4, <1>10, <1>11 DEF PruneInv, ExpireInv, PrunedAsPromised

LEMMA EvictedInv == ASSUME PruneInv, Evicted PROVE PruneInv'
<1>1. /\ PruneTypeOK /\ pc = "evict" /\ EvictInv /\ EvictsFromFront /\ values \in Map
      /\ pc' = "done" /\ UNCHANGED <<input, now, values, unvisited, items>>
      /\ Cardinality(Held(values)) <= MaxTrackedStateKeys \/ items = <<>>
  BY DEF Evicted, PruneInv, PruneTypeOK, Map
<1>2. Cardinality(Held(values)) \in Nat
  BY <1>1, HeldFinite
<1>3. items # <<>>
  <2>1. SUFFICES ASSUME items = <<>> PROVE FALSE
    OBVIOUS
  <2>2. Held(values) = {}
    BY <1>1, <2>1 DEF EvictsFromFront
  <2>3. QED  BY <1>1, <2>2, FS_EmptySet, TrackedAssumption DEF EvictInv
<1>4. Cardinality(Held(values)) = MaxTrackedStateKeys
  BY <1>1, <1>2, <1>3, TrackedAssumption DEF EvictInv
<1>5. Held(values) \in Kept(input, now)
  <2>1. ~(Cardinality(Fresh(input, now)) <= MaxTrackedStateKeys)
    <3>1. /\ Cardinality(Fresh(input, now)) > MaxTrackedStateKeys
          /\ Fresh(input, now) \in SUBSET Held(input) /\ input \in Map
      BY <1>1, FreshIsHeld DEF EvictInv, PruneTypeOK, Map
    <3>2. Cardinality(Fresh(input, now)) \in Nat
      BY <3>1, HeldFinite, FS_Subset, FS_CardinalityType
    <3>3. QED  BY <3>1, <3>2, TrackedAssumption
  <2>2. QED  BY <1>1, <1>4, <2>1 DEF Kept, EvictInv
<1>6. values \in Pruned(input, now)
  BY <1>1, <1>5 DEF Pruned, EvictInv
<1>7. QED
  BY <1>1, <1>6 DEF PruneInv, PruneTypeOK, ExpireInv, EvictInv, EvictsFromFront,
     PrunedAsPromised

LEMMA PruneInvNext == ASSUME PruneInv, [PruneNext]_pruneVars PROVE PruneInv'
<1>1. CASE UNCHANGED pruneVars
  BY <1>1 DEF pruneVars, PruneInv, PruneTypeOK, ExpireInv, EvictInv, EvictsFromFront,
     PrunedAsPromised
<1>2. QED
  BY <1>1, ExpireOneInv, WithinLimitInv, SortInv, EvictOneInv, EvictedInv DEF PruneNext

(* The inductive invariant of the loop.                                    *)
THEOREM PruneInvariant == PruneSpec => []PruneInv
<1>1. PruneInit => PruneInv
  BY PruneInvInit
<1>2. PruneInv /\ [PruneNext]_pruneVars => PruneInv'
  BY PruneInvNext
<1>3. QED  BY <1>1, <1>2, PTL DEF PruneSpec

(* The loop leaves one of the maps that TrackedState promises: every other *)
(* module may take Pruned for what pruneTimestampMap does.                 *)
THEOREM LoopKeepsPromise == PruneSpec => []PrunedAsPromised
<1>1. PruneInv => PrunedAsPromised
  BY DEF PruneInv
<1>2. QED  BY <1>1, PruneInvariant, PTL

(* The sorted copy lists the keys that are left, oldest first, throughout. *)
THEOREM OldestGoFirst == PruneSpec => []EvictsFromFront
<1>1. PruneInv => EvictsFromFront
  BY DEF PruneInv
<1>2. QED  BY <1>1, PruneInvariant, PTL
=============================================================================
