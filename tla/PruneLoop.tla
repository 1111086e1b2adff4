------------------------------ MODULE PruneLoop ------------------------------
(***************************************************************************)
(* pruneTimestampMap as the code runs it: a range over the map that        *)
(* deletes from it, a copy sorted by time, and deletions from its front.   *)
(* The order of the range and, among equal stamps, of the sort is Go's to  *)
(* choose.  It must leave one of the maps that TrackedState promises.      *)
(***************************************************************************)
EXTENDS TrackedState, Sequences

CONSTANTS Keys,    \* keys of the map
          Stamps,  \* time stamps in it, some of them perhaps no times
          Nows     \* the times at which it is pruned

ASSUME PruneAssumption == IsFiniteSet(Keys)

VARIABLES input, now,  \* the arguments
          values,      \* the map
          unvisited,   \* the keys the range has still to visit
          items,       \* the sorted copy
          pc

pruneVars == <<input, now, values, unvisited, items, pc>>

PruneInit ==
    /\ input \in [Keys -> Stamps \cup {Absent}]
    /\ now \in Nows
    /\ values = input
    /\ unvisited = Held(input)
    /\ items = <<>>
    /\ pc = "expire"

Delete(k) == values' = [values EXCEPT ![k] = Absent]

(* Defect: the copy is not sorted. *)
SortedByTime_Not(vals) ==
    LET n == Cardinality(Held(vals)) IN
    {s \in [1..n -> Held(vals)] : \A i, j \in 1..n : i < j => s[i] # s[j]}

(* Every order in which sort.Slice may leave the keys of the map. *)
SortedByTime(vals) ==
    LET n == Cardinality(Held(vals)) IN
    {s \in [1..n -> Held(vals)] : \A i, j \in 1..n : i < j =>
        s[i] # s[j] /\ At(vals[s[i]]) <= At(vals[s[j]])}

(* Defect: what does not parse is dropped. *)
ExpireOne_Unparsable(k) ==
    /\ pc = "expire"
    /\ k \in unvisited
    /\ unvisited' = unvisited \ {k}
    /\ IF values[k] \notin Nat \/ Expired(values[k], now) THEN Delete(k) ELSE UNCHANGED values
    /\ UNCHANGED <<input, now, items, pc>>

ExpireOne(k) ==
    /\ pc = "expire"
    /\ k \in unvisited
    /\ unvisited' = unvisited \ {k}
    /\ IF Expired(values[k], now) THEN Delete(k) ELSE UNCHANGED values
    /\ UNCHANGED <<input, now, items, pc>>

WithinLimit ==
    /\ pc = "expire"
    /\ unvisited = {}
    /\ Cardinality(Held(values)) <= MaxTrackedStateKeys
    /\ pc' = "done"
    /\ UNCHANGED <<input, now, values, unvisited, items>>

Sort ==
    /\ pc = "expire"
    /\ unvisited = {}
    /\ Cardinality(Held(values)) > MaxTrackedStateKeys
    /\ items' \in SortedByTime(values)
    /\ pc' = "evict"
    /\ UNCHANGED <<input, now, values, unvisited>>

EvictOne ==
    /\ pc = "evict"
    /\ Cardinality(Held(values)) > MaxTrackedStateKeys
    /\ items # <<>>
    /\ Delete(Head(items))
    /\ items' = Tail(items)
    /\ UNCHANGED <<input, now, unvisited, pc>>

Evicted ==
    /\ pc = "evict"
    /\ Cardinality(Held(values)) <= MaxTrackedStateKeys \/ items = <<>>
    /\ pc' = "done"
    /\ UNCHANGED <<input, now, values, unvisited, items>>

PruneNext ==
    \/ \E k \in Keys : ExpireOne(k)
    \/ WithinLimit \/ Sort \/ EvictOne \/ Evicted

PruneSpec == PruneInit /\ [][PruneNext]_pruneVars

-----------------------------------------------------------------------------
(* Properties. *)

(* Whatever order the range and the sort take, what is left is what the    *)
(* promise allows: expired keys and, over the limit, oldest keys are gone, *)
(* and nothing else; text that is no time is never expired and goes first. *)
PrunedAsPromised == pc = "done" => values \in Pruned(input, now)

(* The keys to evict are those of the map, oldest first, at every step, so *)
(* the copy never runs out before the limit is reached.                    *)
EvictsFromFront ==
    pc = "evict" =>
        /\ {items[i] : i \in DOMAIN items} = Held(values)
        /\ \A i, j \in DOMAIN items : i < j => At(values[items[i]]) <= At(values[items[j]])

(***************************************************************************)
(* Why: the range leaves alone what it has still to visit and what is      *)
(* fresh, and each eviction takes the oldest key that is left.             *)
(***************************************************************************)
PruneTypeOK ==
    /\ input \in [Keys -> Stamps \cup {Absent}]
    /\ values \in [Keys -> Stamps \cup {Absent}]
    /\ now \in Nows
    /\ unvisited \in SUBSET Keys
    /\ items \in Seq(Keys)
    /\ pc \in {"expire", "evict", "done"}

ExpireInv ==
    pc = "expire" =>
        /\ unvisited \subseteq Held(input)
        /\ values = RestrictedTo(input, unvisited \cup Fresh(input, now))

EvictInv ==
    pc = "evict" =>
        LET left == Held(values)
            fresh == Fresh(input, now)
        IN /\ left \subseteq fresh
           /\ values = RestrictedTo(input, left)
           /\ Cardinality(left) >= MaxTrackedStateKeys
           /\ Cardinality(fresh) > MaxTrackedStateKeys
           /\ \A k \in left, j \in fresh \ left : At(input[j]) <= At(input[k])
           /\ \A i, j \in DOMAIN items : i < j => items[i] # items[j]

PruneInv == PruneTypeOK /\ ExpireInv /\ EvictInv /\ EvictsFromFront /\ PrunedAsPromised
=============================================================================
