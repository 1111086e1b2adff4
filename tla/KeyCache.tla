------------------------------ MODULE KeyCache ------------------------------
(***************************************************************************)
(* The cache of Bot Framework signing keys (jwksProvider), one for all the *)
(* webhook requests of an HTTP client.                                     *)
(*                                                                         *)
(* A request that does not find its key in a fresh cache fetches the whole *)
(* key set, in two HTTP requests and without the mutex, and then replaces  *)
(* the cache by what it fetched.  Several requests may do so at once, and  *)
(* their answers may be installed in any order, an older set over a newer  *)
(* one.  The service publishes and withdraws keys at any time.             *)
(***************************************************************************)
EXTENDS Naturals, FiniteSets

CONSTANTS Requests,      \* webhook requests that verify a token
          Kids,          \* key ids that tokens name
          Initial,       \* the keys published at first
          CacheTTL,      \* jwksCacheTTL, 24 h
          FetchTimeout,  \* tokenFetchTimeout, for each of the two requests
          MaxRotations,  \* bound on changes of the published keys
          MaxFaults,     \* bound on failed fetches
          MaxLookups,    \* bound on lookups
          MaxClock,      \* bound on time
          NoKid, Never

ASSUME KeyAssumption ==
    /\ Initial \subseteq Kids
    /\ CacheTTL \in Nat \ {0}
    /\ {FetchTimeout, MaxRotations, MaxFaults, MaxLookups, MaxClock} \subseteq Nat
    /\ NoKid \notin Kids
    /\ Never \notin Nat

VARIABLES published,   \* the keys the service publishes
          withdrawn,   \* when each key was last withdrawn
          clock,
          rotations, faults, lookups,
          keys,        \* the cached key ids
          fetchedAt,   \* when they were installed
          pc,          \* where each request is
          kid,         \* the key its token names
          readAt,      \* when the HTTP request it waits for was sent, or answered
          fetched,     \* the key set it was sent
          steady       \* has its key been published since the lookup began?

serviceVars == <<published, withdrawn, rotations>>
cacheVars   == <<keys, fetchedAt>>
lookupVars  == <<pc, kid, readAt, fetched, steady>>
keyVars     == <<serviceVars, clock, faults, lookups, cacheVars, lookupVars>>

PCs == {"idle", "lookup", "config", "jwks", "install", "found", "unknown", "error"}

KeyInit ==
    /\ published = Initial
    /\ withdrawn = [k \in Kids |-> Never]
    /\ clock = 0
    /\ rotations = 0
    /\ faults = 0
    /\ lookups = 0
    /\ keys = {}
    /\ fetchedAt = Never
    /\ pc = [r \in Requests |-> "idle"]
    /\ kid = [r \in Requests |-> NoKid]
    /\ readAt = [r \in Requests |-> 0]
    /\ fetched = [r \in Requests |-> {}]
    /\ steady = [r \in Requests |-> FALSE]

-----------------------------------------------------------------------------
CacheFresh == fetchedAt # Never /\ clock - fetchedAt < CacheTTL

Goto(r, label) == pc' = [pc EXCEPT ![r] = label]

InFetch(r) == pc[r] \in {"config", "jwks", "install"}

(* A token that names a key id (an empty one is refused at once). *)
KeyFor(r, k) ==
    /\ pc[r] = "idle"
    /\ lookups < MaxLookups
    /\ lookups' = lookups + 1
    /\ kid' = [kid EXCEPT ![r] = k]
    /\ steady' = [steady EXCEPT ![r] = k \in published]
    /\ Goto(r, "lookup")
    /\ UNCHANGED <<serviceVars, clock, faults, cacheVars, readAt, fetched>>

(* The first critical section. *)
Hit(r) ==
    /\ pc[r] = "lookup"
    /\ CacheFresh
    /\ kid[r] \in keys
    /\ Goto(r, "found")
    /\ UNCHANGED <<serviceVars, clock, faults, lookups, cacheVars, kid, readAt, fetched, steady>>

Miss(r) ==
    /\ pc[r] = "lookup"
    /\ ~(CacheFresh /\ kid[r] \in keys)
    /\ readAt' = [readAt EXCEPT ![r] = clock]
    /\ Goto(r, "config")
    /\ UNCHANGED <<serviceVars, clock, faults, lookups, cacheVars, kid, fetched, steady>>

(* The OpenID configuration arrives and the key set is asked for. *)
FetchConfig(r) ==
    /\ pc[r] = "config"
    /\ readAt' = [readAt EXCEPT ![r] = clock]
    /\ Goto(r, "jwks")
    /\ UNCHANGED <<serviceVars, clock, faults, lookups, cacheVars, kid, fetched, steady>>

(* The service answers with what it publishes; a set without usable keys   *)
(* is an error.                                                            *)
FetchKeys(r) ==
    /\ pc[r] = "jwks"
    /\ readAt' = [readAt EXCEPT ![r] = clock]
    /\ fetched' = [fetched EXCEPT ![r] = published]
    /\ Goto(r, IF published = {} THEN "error" ELSE "install")
    /\ UNCHANGED <<serviceVars, clock, faults, lookups, cacheVars, kid, steady>>

(* Defect: a failed fetch keeps the old keys going. *)
FetchFails_Renews(r) ==
    /\ InFetch(r)
    /\ faults < MaxFaults
    /\ faults' = faults + 1
    /\ fetchedAt' = clock
    /\ Goto(r, IF kid[r] \in keys THEN "found" ELSE "error")
    /\ UNCHANGED <<serviceVars, clock, lookups, keys, kid, readAt, fetched, steady>>

(* Either HTTP request fails or times out: the cache stays as it is. *)
FetchFails(r) ==
    /\ InFetch(r)
    /\ faults < MaxFaults
    /\ faults' = faults + 1
    /\ Goto(r, "error")
    /\ UNCHANGED <<serviceVars, clock, lookups, cacheVars, kid, readAt, fetched, steady>>

(* Defect: the key is looked up in the cache of before. *)
Install_StaleLookup(r) ==
    /\ pc[r] = "install"
    /\ keys' = fetched[r]
    /\ fetchedAt' = clock
    /\ Goto(r, IF kid[r] \in keys THEN "found" ELSE "unknown")
    /\ UNCHANGED <<serviceVars, clock, faults, lookups, kid, readAt, fetched, steady>>

(* Defect: an unknown key is looked up and fetched again. *)
Install_Retries(r) ==
    /\ pc[r] = "install"
    /\ keys' = fetched[r]
    /\ fetchedAt' = clock
    /\ Goto(r, IF kid[r] \in keys' THEN "found" ELSE "lookup")
    /\ UNCHANGED <<serviceVars, clock, faults, lookups, kid, readAt, fetched, steady>>

(* The second critical section: replace the cache, then look up. *)
Install(r) ==
    /\ pc[r] = "install"
    /\ keys' = fetched[r]
    /\ fetchedAt' = clock
    /\ Goto(r, IF kid[r] \in keys' THEN "found" ELSE "unknown")
    /\ UNCHANGED <<serviceVars, clock, faults, lookups, kid, readAt, fetched, steady>>

(* The caller goes on; nothing of the lookup is left. *)
Finish(r) ==
    /\ pc[r] \in {"found", "unknown", "error"}
    /\ kid' = [kid EXCEPT ![r] = NoKid]
    /\ readAt' = [readAt EXCEPT ![r] = 0]
    /\ fetched' = [fetched EXCEPT ![r] = {}]
    /\ steady' = [steady EXCEPT ![r] = FALSE]
    /\ Goto(r, "idle")
    /\ UNCHANGED <<serviceVars, clock, faults, lookups, cacheVars>>

-----------------------------------------------------------------------------
(* The service and time. *)

Publish(k) ==
    /\ k \notin published
    /\ rotations < MaxRotations
    /\ rotations' = rotations + 1
    /\ published' = published \cup {k}
    /\ UNCHANGED <<withdrawn, clock, faults, lookups, cacheVars, lookupVars>>

Withdraw(k) ==
    /\ k \in published
    /\ rotations < MaxRotations
    /\ rotations' = rotations + 1
    /\ published' = published \ {k}
    /\ withdrawn' = [withdrawn EXCEPT ![k] = clock]
    /\ steady' = [r \in Requests |-> steady[r] /\ kid[r] # k]
    /\ UNCHANGED <<clock, faults, lookups, cacheVars, pc, kid, readAt, fetched>>

(* No HTTP request, and no lock, keeps a lookup longer than FetchTimeout. *)
Tick ==
    /\ clock < MaxClock
    /\ \A r \in Requests : InFetch(r) => clock < readAt[r] + FetchTimeout
    /\ clock' = clock + 1
    /\ UNCHANGED <<serviceVars, faults, lookups, cacheVars, lookupVars>>

Lookup(r) ==
    \/ Hit(r) \/ Miss(r) \/ FetchConfig(r) \/ FetchKeys(r) \/ FetchFails(r)
    \/ Install(r)

KeyNext ==
    \/ \E r \in Requests : (\E k \in Kids : KeyFor(r, k)) \/ Lookup(r) \/ Finish(r)
    \/ \E k \in Kids : Publish(k) \/ Withdraw(k)
    \/ Tick

KeySpec == KeyInit /\ [][KeyNext]_keyVars

-----------------------------------------------------------------------------
(* Properties. *)

KeyTypeOK ==
    /\ published \in SUBSET Kids
    /\ withdrawn \in [Kids -> Nat \cup {Never}]
    /\ clock \in Nat
    /\ rotations \in 0..MaxRotations
    /\ faults \in 0..MaxFaults
    /\ lookups \in 0..MaxLookups
    /\ keys \in SUBSET Kids
    /\ fetchedAt \in Nat \cup {Never}
    /\ pc \in [Requests -> PCs]
    /\ kid \in [Requests -> Kids \cup {NoKid}]
    /\ \A r \in Requests : pc[r] # "idle" => kid[r] \in Kids
    /\ readAt \in [Requests -> Nat]
    /\ fetched \in [Requests -> SUBSET Kids]
    /\ steady \in [Requests -> BOOLEAN]

(* A token signed with a key that the service has published all along is   *)
(* never refused for it, however many requests replace the cache meanwhile *)
(* and in whatever order; it fails only if a fetch does (comment of keyFor:*)
(* "otherwise it refreshes the key set").                                  *)
NoFalseReject ==
    \A r \in Requests : steady[r] =>
        /\ pc[r] # "unknown"
        /\ pc[r] = "error" => faults > 0

(* A withdrawn key is not trusted for longer than the cache may be old and *)
(* an answer under way, even if an old answer replaces a newer one.        *)
Trusted(k) ==
    \/ k \in published
    \/ withdrawn[k] # Never /\ clock < withdrawn[k] + CacheTTL + FetchTimeout

TrustExpires ==
    [][\A r \in Requests :
        pc'[r] = "found" /\ pc[r] # "found" => Trusted(kid[r])]_keyVars

(* When a key set was read, its keys were published.                       *)
SetInv ==
    \A r \in Requests :
        /\ InFetch(r) => readAt[r] <= clock /\ clock <= readAt[r] + FetchTimeout
        /\ pc[r] = "install" => \A k \in fetched[r] :
            k \in published \/ (withdrawn[k] # Never /\ readAt[r] <= withdrawn[k])

CacheInv ==
    /\ fetchedAt # Never => fetchedAt <= clock
    /\ keys # {} => fetchedAt # Never
    /\ \A k \in keys :
        \/ k \in published
        \/ /\ withdrawn[k] # Never
           /\ fetchedAt <= withdrawn[k] + FetchTimeout

SteadyInv ==
    \A r \in Requests : steady[r] =>
        /\ kid[r] \in published
        /\ pc[r] = "install" => kid[r] \in fetched[r]

(* The inductive invariant of the cache. *)
KeyInv == KeyTypeOK /\ SetInv /\ CacheInv /\ SteadyInv /\ NoFalseReject
=============================================================================
