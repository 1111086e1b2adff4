---------------------------- MODULE TrackedState ----------------------------
(***************************************************************************)
(* The bounded, expiring timestamp maps of an account's state              *)
(* (state/state.go).  A map is a total function from keys to time stamps;  *)
(* Absent stands for a key the Go map does not hold.  Times are natural    *)
(* numbers; a stamp that is neither Absent nor a natural number is text    *)
(* that time.Parse rejects.                                                *)
(***************************************************************************)
EXTENDS Naturals, FiniteSets

CONSTANTS MaxTrackedStateKeys,   \* the most keys a map keeps
          TrackedStateTTL,       \* the age above which a key is dropped
          Absent                 \* "not in the map"

ASSUME TrackedAssumption ==
    /\ MaxTrackedStateKeys \in Nat \ {0}
    /\ TrackedStateTTL \in Nat
    /\ Absent \notin Nat

(* The keys a map holds. *)
Held(values) == {k \in DOMAIN values : values[k] # Absent}

(* A stamp as the sort compares it: unparsable text is the zero time,      *)
(* before every other.                                                     *)
At(stamp) == IF stamp \in Nat THEN stamp + 1 ELSE 0

(* now.Sub(ts) > trackedStateTTL, for a stamp that parses. *)
Expired(stamp, now) == stamp \in Nat /\ stamp + TrackedStateTTL < now

Fresh(values, now) == {k \in Held(values) : ~Expired(values[k], now)}

(* Defects that the properties must detect have a name with an underscore. *)

(* The limit is never enforced. *)
Kept_NoLimit(values, now) == {Fresh(values, now)}

(* The keys over the limit are dropped without sorting them first. *)
Kept_Unsorted(values, now) ==
    LET fresh == Fresh(values, now) IN
    IF Cardinality(fresh) <= MaxTrackedStateKeys
    THEN {fresh}
    ELSE {K \in SUBSET fresh : Cardinality(K) = MaxTrackedStateKeys}

(***************************************************************************)
(* The key sets pruneTimestampMap may leave: every fresh key or, over the  *)
(* limit, exactly the limit, none of them older than a key it drops.  Go's *)
(* map order and unstable sort make any choice among equal stamps possible.*)
(***************************************************************************)
Kept(values, now) ==
    LET fresh == Fresh(values, now) IN
    IF Cardinality(fresh) <= MaxTrackedStateKeys
    THEN {fresh}
    ELSE {K \in SUBSET fresh :
            /\ Cardinality(K) = MaxTrackedStateKeys
            /\ \A k \in K, j \in fresh \ K : At(values[j]) <= At(values[k])}

RestrictedTo(values, K) ==
    [k \in DOMAIN values |-> IF k \in K THEN values[k] ELSE Absent]

(* The maps pruneTimestampMap(values, now) may leave. *)
Pruned(values, now) == {RestrictedTo(values, K) : K \in Kept(values, now)}
=============================================================================
