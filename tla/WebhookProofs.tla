---------------------------- MODULE WebhookProofs ----------------------------
(***************************************************************************)
(* Theorems about Webhook, for any requests, posts, keys and bounds: the   *)
(* webhook uses the key cache as KeyCache says, and what it accepts and    *)
(* refuses is right although the time it checks is taken before the keys   *)
(* are fetched.                                                            *)
(***************************************************************************)
EXTENDS Webhook, TLAPS

-----------------------------------------------------------------------------
(* The key cache, for any number of requests and keys and any bounds: it   *)
(* never refuses a key that stays published, and trusts a withdrawn one    *)
(* only for the cache's life and one answer longer.                        *)

USE DEF InFetch, Goto

(* Helper: counters stay below their bounds. *)
LEMMA Bounded ==
    ASSUME NEW n, NEW m \in Nat, n \in 0..m, n < m
    PROVE  n + 1 \in 0..m
OBVIOUS

(* At the start nothing is cached and nobody asks. *)
LEMMA KeyInitially == KeyInit => KeyInv
<1> SUFFICES ASSUME KeyInit PROVE KeyInv
  OBVIOUS
<1> USE KeyAssumption DEF KeyInit
<1>1. KeyTypeOK
  BY DEF KeyTypeOK, PCs
<1>2. SetInv /\ CacheInv /\ SteadyInv /\ NoFalseReject
  BY DEF SetInv, CacheInv, SteadyInv, NoFalseReject
<1> QED
  BY <1>1, <1>2 DEF KeyInv

(* Every step keeps the types. *)
LEMMA KeyTypeStep == KeyTypeOK /\ [KeyNext]_keyVars => KeyTypeOK'
<1> SUFFICES ASSUME KeyTypeOK, [KeyNext]_keyVars PROVE KeyTypeOK'
  OBVIOUS
<1> USE KeyAssumption DEF KeyTypeOK, PCs, serviceVars, cacheVars, lookupVars
<1>1. ASSUME NEW r \in Requests, NEW k \in Kids, KeyFor(r, k) PROVE KeyTypeOK'
  BY <1>1, Bounded DEF KeyFor
<1>2. ASSUME NEW r \in Requests, Hit(r) PROVE KeyTypeOK'
  BY <1>2 DEF Hit
<1>3. ASSUME NEW r \in Requests, Miss(r) PROVE KeyTypeOK'
  BY <1>3 DEF Miss
<1>4. ASSUME NEW r \in Requests, FetchConfig(r) PROVE KeyTypeOK'
  BY <1>4 DEF FetchConfig
<1>5. ASSUME NEW r \in Requests, FetchKeys(r) PROVE KeyTypeOK'
  BY <1>5 DEF FetchKeys
<1>6. ASSUME NEW r \in Requests, FetchFails(r) PROVE KeyTypeOK'
  BY <1>6, Bounded DEF FetchFails
<1>7. ASSUME NEW r \in Requests, Install(r) PROVE KeyTypeOK'
  BY <1>7 DEF Install
<1>8. ASSUME NEW r \in Requests, Finish(r) PROVE KeyTypeOK'
  BY <1>8 DEF Finish
<1>9. ASSUME NEW k \in Kids, Publish(k) PROVE KeyTypeOK'
  BY <1>9, Bounded DEF Publish
<1>10. ASSUME NEW k \in Kids, Withdraw(k) PROVE KeyTypeOK'
  BY <1>10, Bounded DEF Withdraw
<1>11. CASE Tick
  BY <1>11 DEF Tick
<1>12. CASE UNCHANGED keyVars
  BY <1>12 DEF keyVars
<1> QED
  BY <1>1, <1>2, <1>3, <1>4, <1>5, <1>6, <1>7, <1>8, <1>9, <1>10, <1>11, <1>12
  DEF KeyNext, Lookup

(* Every step keeps what is known of each key set on its way: a set that   *)
(* is installed was published when it was read.                            *)
LEMMA SetStep == KeyInv /\ [KeyNext]_keyVars => SetInv'
<1> SUFFICES ASSUME KeyInv, [KeyNext]_keyVars PROVE SetInv'
  OBVIOUS
<1> USE KeyAssumption DEF KeyInv, KeyTypeOK, SetInv, serviceVars, cacheVars, lookupVars
<1>1. ASSUME NEW r \in Requests, NEW k \in Kids, KeyFor(r, k) PROVE SetInv'
  BY <1>1 DEF KeyFor
<1>2. ASSUME NEW r \in Requests, Hit(r) PROVE SetInv'
  BY <1>2 DEF Hit
<1>3. ASSUME NEW r \in Requests, Miss(r) PROVE SetInv'
  BY <1>3 DEF Miss
<1>4. ASSUME NEW r \in Requests, FetchConfig(r) PROVE SetInv'
  BY <1>4 DEF FetchConfig
<1>5. ASSUME NEW r \in Requests, FetchKeys(r) PROVE SetInv'
  BY <1>5 DEF FetchKeys
<1>6. ASSUME NEW r \in Requests, FetchFails(r) PROVE SetInv'
  BY <1>6 DEF FetchFails
<1>7. ASSUME NEW r \in Requests, Install(r) PROVE SetInv'
  BY <1>7 DEF Install
<1>8. ASSUME NEW r \in Requests, Finish(r) PROVE SetInv'
  BY <1>8 DEF Finish
<1>9. ASSUME NEW k \in Kids, Publish(k) PROVE SetInv'
  BY <1>9 DEF Publish
<1>10. ASSUME NEW k \in Kids, Withdraw(k) PROVE SetInv'
  BY <1>10 DEF Withdraw
<1>11. CASE Tick
  BY <1>11 DEF Tick
<1>12. CASE UNCHANGED keyVars
  BY <1>12 DEF keyVars
<1> QED
  BY <1>1, <1>2, <1>3, <1>4, <1>5, <1>6, <1>7, <1>8, <1>9, <1>10, <1>11, <1>12
  DEF KeyNext, Lookup

(* Every step keeps what is known of the cache; only Install, Withdraw and *)
(* Tick can disturb it.                                                    *)
LEMMA CacheStep == KeyInv /\ [KeyNext]_keyVars => CacheInv'
<1> SUFFICES ASSUME KeyInv, [KeyNext]_keyVars PROVE CacheInv'
  OBVIOUS
<1> USE KeyAssumption DEF KeyInv, KeyTypeOK, CacheInv, serviceVars, cacheVars, lookupVars
<1>1. ASSUME NEW r \in Requests, Install(r) PROVE CacheInv'
  <2>1. /\ keys' = fetched[r]
        /\ fetchedAt' = clock
        /\ UNCHANGED <<published, withdrawn, clock>>
    BY <1>1 DEF Install
  <2>2. clock <= readAt[r] + FetchTimeout
    BY <1>1 DEF Install, SetInv
  <2>3. ASSUME NEW k \in fetched[r], k \notin published
        PROVE  withdrawn[k] # Never /\ clock <= withdrawn[k] + FetchTimeout
    <3>1. withdrawn[k] # Never /\ readAt[r] <= withdrawn[k]
      BY <1>1, <2>3 DEF Install, SetInv
    <3>2. withdrawn[k] \in Nat
      BY <3>1
    <3> QED
      BY <2>2, <3>1, <3>2
  <2>4. fetchedAt' # Never /\ fetchedAt' <= clock'
    BY <2>1
  <2>5. ASSUME NEW k \in keys'
        PROVE  \/ k \in published'
               \/ /\ withdrawn'[k] # Never
                  /\ fetchedAt' <= withdrawn'[k] + FetchTimeout
    BY <2>1, <2>3, <2>4, <2>5
  <2> QED
    BY <2>4, <2>5
<1>2. ASSUME NEW k \in Kids, Withdraw(k) PROVE CacheInv'
  BY <1>2 DEF Withdraw
<1>3. ASSUME NEW k \in Kids, Publish(k) PROVE CacheInv'
  BY <1>3 DEF Publish
<1>4. CASE Tick
  BY <1>4 DEF Tick
<1>5. ASSUME UNCHANGED <<published, withdrawn, clock, keys, fetchedAt>> PROVE CacheInv'
  BY <1>5
<1>6. ASSUME NEW r \in Requests, NEW k \in Kids, KeyFor(r, k) PROVE CacheInv'
  BY <1>6, <1>5 DEF KeyFor
<1>7. ASSUME NEW r \in Requests, Hit(r) \/ Miss(r) PROVE CacheInv'
  BY <1>7, <1>5 DEF Hit, Miss
<1>8. ASSUME NEW r \in Requests, FetchConfig(r) \/ FetchKeys(r) \/ FetchFails(r)
      PROVE  CacheInv'
  BY <1>8, <1>5 DEF FetchConfig, FetchKeys, FetchFails
<1>9. ASSUME NEW r \in Requests, Finish(r) PROVE CacheInv'
  BY <1>9, <1>5 DEF Finish
<1>10. CASE UNCHANGED keyVars
  BY <1>10, <1>5 DEF keyVars
<1> QED
  BY <1>1, <1>2, <1>3, <1>4, <1>6, <1>7, <1>8, <1>9, <1>10 DEF KeyNext, Lookup

(* Every step keeps what is known of a lookup whose key stays published.   *)
LEMMA SteadyStep == KeyInv /\ [KeyNext]_keyVars => SteadyInv' /\ NoFalseReject'
<1> SUFFICES ASSUME KeyInv, [KeyNext]_keyVars PROVE SteadyInv' /\ NoFalseReject'
  OBVIOUS
<1> USE KeyAssumption
    DEF KeyInv, KeyTypeOK, SteadyInv, NoFalseReject, serviceVars, cacheVars, lookupVars
<1>1. ASSUME NEW r \in Requests, NEW k \in Kids, KeyFor(r, k)
      PROVE  SteadyInv' /\ NoFalseReject'
  BY <1>1 DEF KeyFor
<1>2. ASSUME NEW r \in Requests, Hit(r) PROVE SteadyInv' /\ NoFalseReject'
  BY <1>2 DEF Hit
<1>3. ASSUME NEW r \in Requests, Miss(r) PROVE SteadyInv' /\ NoFalseReject'
  BY <1>3 DEF Miss
<1>4. ASSUME NEW r \in Requests, FetchConfig(r) PROVE SteadyInv' /\ NoFalseReject'
  BY <1>4 DEF FetchConfig
<1>5. ASSUME NEW r \in Requests, FetchKeys(r) PROVE SteadyInv' /\ NoFalseReject'
  BY <1>5 DEF FetchKeys
<1>6. ASSUME NEW r \in Requests, FetchFails(r) PROVE SteadyInv' /\ NoFalseReject'
  <2>1. faults' > 0
    BY <1>6 DEF FetchFails
  <2> QED
    BY <1>6, <2>1 DEF FetchFails
<1>7. ASSUME NEW r \in Requests, Install(r) PROVE SteadyInv' /\ NoFalseReject'
  BY <1>7 DEF Install
<1>8. ASSUME NEW r \in Requests, Finish(r) PROVE SteadyInv' /\ NoFalseReject'
  BY <1>8 DEF Finish
<1>9. ASSUME NEW k \in Kids, Publish(k) PROVE SteadyInv' /\ NoFalseReject'
  BY <1>9 DEF Publish
<1>10. ASSUME NEW k \in Kids, Withdraw(k) PROVE SteadyInv' /\ NoFalseReject'
  BY <1>10 DEF Withdraw
<1>11. CASE Tick
  BY <1>11 DEF Tick
<1>12. CASE UNCHANGED keyVars
  BY <1>12 DEF keyVars
<1> QED
  BY <1>1, <1>2, <1>3, <1>4, <1>5, <1>6, <1>7, <1>8, <1>9, <1>10, <1>11, <1>12
  DEF KeyNext, Lookup

(* The inductive invariant of the key cache holds throughout.              *)
THEOREM KeyInvariant == KeySpec => []KeyInv
<1>1. KeyInv /\ [KeyNext]_keyVars => KeyInv'
  BY KeyTypeStep, SetStep, CacheStep, SteadyStep DEF KeyInv
<1> QED
  BY KeyInitially, <1>1, PTL DEF KeySpec

(* keyFor never refuses a token for a key published throughout the lookup, *)
(* unless a fetch failed.                                                  *)
THEOREM PublishedKeysAreFound == KeySpec => []NoFalseReject
<1>1. KeyInv => NoFalseReject
  BY DEF KeyInv
<1> QED
  BY KeyInvariant, <1>1, PTL

(* A lookup that finds its key finds one that is published, or was within  *)
(* the cache's life and the time of one answer.                            *)
LEMMA FoundIsTrusted ==
    ASSUME KeyInv, [KeyNext]_keyVars, NEW r \in Requests,
           pc'[r] = "found", pc[r] # "found"
    PROVE  Trusted(kid[r])
<1> USE KeyAssumption DEF KeyInv, KeyTypeOK
<1>1. Hit(r) \/ Install(r)
  BY DEF KeyNext, Lookup, KeyFor, Hit, Miss, FetchConfig, FetchKeys, FetchFails,
         Install, Finish, Publish, Withdraw, Tick, keyVars, lookupVars
<1>2. CASE Hit(r)
  BY <1>2 DEF Hit, CacheFresh, CacheInv, Trusted
<1>3. CASE Install(r)
  <2>1. kid[r] \in fetched[r] /\ kid[r] \in Kids
    BY <1>3 DEF Install
  <2>2. kid[r] \in published \/ (withdrawn[kid[r]] # Never /\ readAt[r] <= withdrawn[kid[r]])
    BY <1>3, <2>1 DEF Install, SetInv
  <2>3. clock <= readAt[r] + FetchTimeout
    BY <1>3 DEF Install, SetInv
  <2> QED
    BY <2>1, <2>2, <2>3 DEF Trusted
<1> QED
  BY <1>1, <1>2, <1>3

(* No withdrawn key is trusted after the cache's life and one answer.      *)
THEOREM WithdrawnKeysExpire == KeySpec => TrustExpires
<1>1. KeyInv /\ [KeyNext]_keyVars =>
        [\A r \in Requests : pc'[r] = "found" /\ pc[r] # "found" => Trusted(kid[r])]_keyVars
  BY FoundIsTrusted
<1> QED
  BY KeyInvariant, <1>1, PTL DEF KeySpec, TrustExpires

-----------------------------------------------------------------------------
(* The webhook.                                                            *)

(* The time of a check is no later than two time-outs before its use.      *)
LEMMA TickBound ==
    ASSUME NEW now \in Nat, NEW then \in Nat, now < then + 2 * FetchTimeout
    PROVE  now + 1 <= then + 2 * FetchTimeout
BY KeyAssumption

(* A request asks only for keys that exist, so each step of the webhook is *)
(* a step of the key cache, or none.                                       *)
LEMMA WebhookStepIsKeyStep ==
    WebhookInv /\ [WebhookNext]_webhookVars => [KeyNext]_keyVars
<1> SUFFICES ASSUME WebhookInv, [WebhookNext]_webhookVars PROVE [KeyNext]_keyVars
  OBVIOUS
<1>1. ASSUME NEW r \in Requests, AskForKey(r) PROVE KeyNext
  <2>1. post[r] \in Post
    BY <1>1, WebhookAssumption DEF AskForKey, WebhookInv, StageInv
  <2>2. post[r].kid \in Kids /\ KeyFor(r, post[r].kid)
    BY <1>1, <2>1 DEF AskForKey, Post
  <2> QED
    BY <2>2 DEF KeyNext
<1>2. ASSUME NEW r \in Requests, Lookup(r) \/ Accept(r) \/ RejectKey(r) PROVE KeyNext
  BY <1>2 DEF Accept, RejectKey, KeyNext
<1>3. ASSUME NEW r \in Requests, NEW p \in Posts, Receive(r, p) PROVE UNCHANGED keyVars
  BY <1>3 DEF Receive
<1>4. ASSUME NEW r \in Requests, RejectBody(r) \/ RejectClaims(r) \/ HandleWebhook(r)
      PROVE  UNCHANGED keyVars
  BY <1>4 DEF RejectBody, RejectClaims, HandleWebhook
<1>5. ASSUME NEW k \in Kids, Publish(k) \/ Withdraw(k) PROVE KeyNext
  BY <1>5 DEF KeyNext
<1>6. CASE WebhookTick
  BY <1>6 DEF WebhookTick, KeyNext
<1>7. CASE UNCHANGED webhookVars
  BY <1>7 DEF webhookVars
<1> QED
  BY <1>1, <1>2, <1>3, <1>4, <1>5, <1>6, <1>7 DEF WebhookNext, Respond

(* Every step keeps the types. *)
LEMMA WebhookTypeStep ==
    KeyInv /\ WebhookInv /\ [WebhookNext]_webhookVars => WebhookTypeOK'
<1> SUFFICES ASSUME KeyInv, WebhookInv, [WebhookNext]_webhookVars PROVE WebhookTypeOK'
  OBVIOUS
<1> USE WebhookAssumption DEF WebhookInv, WebhookTypeOK, Stages, Statuses
<1>0. clock \in Nat
  BY DEF KeyInv, KeyTypeOK
<1>1. ASSUME NEW r \in Requests, NEW p \in Posts, Receive(r, p) PROVE WebhookTypeOK'
  BY <1>1 DEF Receive
<1>2. ASSUME NEW r \in Requests, NEW status \in Statuses, Answer(r, status)
      PROVE  WebhookTypeOK'
  BY <1>2 DEF Answer
<1>3. ASSUME NEW r \in Requests, RejectBody(r) \/ RejectClaims(r) PROVE WebhookTypeOK'
  BY <1>3, <1>2 DEF RejectBody, RejectClaims, BodyStatus
<1>4. ASSUME NEW r \in Requests, RejectKey(r) \/ HandleWebhook(r) PROVE WebhookTypeOK'
  BY <1>4, <1>2 DEF RejectKey, HandleWebhook
<1>5. ASSUME NEW r \in Requests, AskForKey(r) PROVE WebhookTypeOK'
  BY <1>5, <1>0 DEF AskForKey
<1>6. ASSUME NEW r \in Requests, Accept(r) PROVE WebhookTypeOK'
  BY <1>6 DEF Accept
<1>7. ASSUME UNCHANGED hookVars PROVE WebhookTypeOK'
  BY <1>7 DEF hookVars
<1> QED
  BY <1>1, <1>3, <1>4, <1>5, <1>6, <1>7 DEF WebhookNext, Respond, WebhookTick, webhookVars

(* A key that is trusted stays so as long as no time passes.              *)
LEMMA TrustKept ==
    ASSUME KeyInv, [KeyNext]_keyVars, clock' = clock, NEW k \in Kids, Trusted(k)
    PROVE  Trusted(k)'
<1> USE KeyAssumption DEF KeyInv, KeyTypeOK, Trusted, serviceVars
<1>1. ASSUME NEW j \in Kids, Publish(j) \/ Withdraw(j) PROVE Trusted(k)'
  BY <1>1 DEF Publish, Withdraw
<1>2. ASSUME UNCHANGED serviceVars PROVE Trusted(k)'
  BY <1>2
<1>3. ASSUME NEW r \in Requests, Lookup(r) \/ Finish(r) PROVE Trusted(k)'
  BY <1>3, <1>2 DEF Lookup, Hit, Miss, FetchConfig, FetchKeys, FetchFails, Install, Finish
<1>4. ASSUME NEW r \in Requests, NEW j \in Kids, KeyFor(r, j) PROVE Trusted(k)'
  BY <1>4, <1>2 DEF KeyFor
<1>5. CASE Tick \/ UNCHANGED keyVars
  BY <1>5, <1>2 DEF Tick, keyVars
<1> QED
  BY <1>1, <1>3, <1>4, <1>5 DEF KeyNext

(* Only Finish ends a lookup, and a lookup is for one key.                 *)
LEMMA LookupKept ==
    ASSUME KeyInv, [KeyNext]_keyVars, NEW s \in Requests, pc[s] # "idle", ~Finish(s)
    PROVE  pc'[s] # "idle" /\ kid'[s] = kid[s]
<1> USE DEF KeyInv, KeyTypeOK, Goto, lookupVars
<1> DEFINE Kept == pc'[s] # "idle" /\ kid'[s] = kid[s]
<1>1. ASSUME NEW r \in Requests, NEW k \in Kids, KeyFor(r, k) PROVE Kept
  BY <1>1 DEF KeyFor
<1>2. ASSUME NEW r \in Requests, Hit(r) \/ Miss(r) \/ FetchConfig(r) PROVE Kept
  BY <1>2 DEF Hit, Miss, FetchConfig
<1>3. ASSUME NEW r \in Requests, FetchKeys(r) \/ FetchFails(r) \/ Install(r) PROVE Kept
  BY <1>3 DEF FetchKeys, FetchFails, Install
<1>4. ASSUME NEW r \in Requests, Finish(r) PROVE Kept
  BY <1>4 DEF Finish
<1>5. ASSUME NEW k \in Kids, Publish(k) \/ Withdraw(k) PROVE Kept
  BY <1>5 DEF Publish, Withdraw
<1>6. CASE Tick \/ UNCHANGED keyVars
  BY <1>6 DEF Tick, keyVars
<1> QED
  BY <1>1, <1>2, <1>3, <1>4, <1>5, <1>6 DEF KeyNext, Lookup

(* No lookup is found as it begins.                                       *)
LEMMA FoundWasBegun ==
    ASSUME KeyInv, [KeyNext]_keyVars, NEW s \in Requests, pc'[s] = "found"
    PROVE  pc[s] # "idle"
<1> USE DEF KeyInv, KeyTypeOK, Goto, lookupVars
<1>1. ASSUME NEW r \in Requests, NEW k \in Kids, KeyFor(r, k) PROVE pc[s] # "idle"
  BY <1>1 DEF KeyFor
<1>2. ASSUME NEW r \in Requests, Hit(r) \/ Miss(r) \/ FetchConfig(r) PROVE pc[s] # "idle"
  BY <1>2 DEF Hit, Miss, FetchConfig
<1>3. ASSUME NEW r \in Requests, FetchKeys(r) \/ FetchFails(r) \/ Install(r)
      PROVE  pc[s] # "idle"
  BY <1>3 DEF FetchKeys, FetchFails, Install, InFetch
<1>4. ASSUME NEW r \in Requests, Finish(r) PROVE pc[s] # "idle"
  BY <1>4 DEF Finish
<1>5. ASSUME NEW k \in Kids, Publish(k) \/ Withdraw(k) PROVE pc[s] # "idle"
  BY <1>5 DEF Publish, Withdraw
<1>6. CASE Tick \/ UNCHANGED keyVars
  BY <1>6 DEF Tick, keyVars
<1> QED
  BY <1>1, <1>2, <1>3, <1>4, <1>5, <1>6 DEF KeyNext, Lookup

(* Time does not pass in any step of a request or of the service.         *)
LEMMA ClockKept == [WebhookNext]_webhookVars => WebhookTick \/ clock' = clock
<1> SUFFICES ASSUME [WebhookNext]_webhookVars, ~WebhookTick PROVE clock' = clock
  OBVIOUS
<1>1. ASSUME UNCHANGED keyVars PROVE clock' = clock
  BY <1>1 DEF keyVars
<1>2. ASSUME NEW r \in Requests, NEW p \in Posts, Receive(r, p) PROVE clock' = clock
  BY <1>2, <1>1 DEF Receive
<1>3. ASSUME NEW r \in Requests, RejectBody(r) \/ RejectClaims(r) \/ HandleWebhook(r)
      PROVE  clock' = clock
  BY <1>3, <1>1 DEF RejectBody, RejectClaims, HandleWebhook
<1>4. ASSUME NEW r \in Requests, AskForKey(r) PROVE clock' = clock
  BY <1>4 DEF AskForKey, KeyFor
<1>5. ASSUME NEW r \in Requests, Accept(r) \/ RejectKey(r) PROVE clock' = clock
  BY <1>5 DEF Accept, RejectKey, Finish
<1>6. ASSUME NEW r \in Requests, Lookup(r) PROVE clock' = clock
  BY <1>6 DEF Lookup, Hit, Miss, FetchConfig, FetchKeys, FetchFails, Install
<1>7. ASSUME NEW k \in Kids, Publish(k) \/ Withdraw(k) PROVE clock' = clock
  BY <1>7 DEF Publish, Withdraw
<1>8. CASE UNCHANGED webhookVars
  BY <1>8, <1>1 DEF webhookVars
<1> QED
  BY <1>2, <1>3, <1>4, <1>5, <1>6, <1>7, <1>8 DEF WebhookNext, Respond

(* A key that was found stays trusted until the request goes on.          *)
LEMMA FoundStaysTrusted ==
    ASSUME KeyInv, WebhookInv, [WebhookNext]_webhookVars, NEW s \in Requests,
           pc'[s] = "found"
    PROVE  Trusted(kid[s])' /\ kid'[s] = kid[s]
<1> USE DEF KeyInv, KeyTypeOK
<1>1. [KeyNext]_keyVars
  BY WebhookStepIsKeyStep
<1>2. Trusted(kid[s])
  BY <1>1, FoundIsTrusted DEF WebhookInv, StageInv
<1>3. pc[s] # "idle"
  BY <1>1, FoundWasBegun
<1>4. kid[s] \in Kids
  BY <1>3
<1>5. kid'[s] = kid[s]
  BY <1>1, <1>3, LookupKept DEF Finish, Goto
<1>6. clock' = clock
  <2>1. ASSUME WebhookTick PROVE FALSE
    BY <2>1, <1>3 DEF WebhookTick, Tick, lookupVars, WebhookInv, StageInv, InFetch
  <2> QED
    BY <2>1, ClockKept
<1> QED
  BY <1>1, <1>2, <1>4, <1>5, <1>6, TrustKept

(* A step of one request keeps what holds of the others.                   *)
LEMMA OthersKeep ==
    ASSUME KeyInv, NEW r \in Requests, NEW s \in Requests, s # r,
           \/ Lookup(r) \/ Finish(r)
           \/ \E k \in Kids : KeyFor(r, k)
    PROVE  pc'[s] = pc[s] /\ kid'[s] = kid[s]
<1> USE DEF KeyInv, KeyTypeOK, Goto
<1>1. ASSUME NEW k \in Kids, KeyFor(r, k) PROVE pc'[s] = pc[s] /\ kid'[s] = kid[s]
  BY <1>1 DEF KeyFor
<1>2. CASE Hit(r) \/ Miss(r) \/ FetchConfig(r)
  BY <1>2 DEF Hit, Miss, FetchConfig
<1>3. CASE FetchKeys(r) \/ FetchFails(r) \/ Install(r)
  BY <1>3 DEF FetchKeys, FetchFails, Install
<1>4. CASE Finish(r)
  BY <1>4 DEF Finish
<1> QED
  BY <1>1, <1>2, <1>3, <1>4 DEF Lookup

(* What must be shown of a step for the request it is not a step of.       *)
LEMMA StageKept ==
    ASSUME KeyInv, WebhookInv, [WebhookNext]_webhookVars, NEW s \in Requests,
           clock' = clock, pc'[s] = "idle" <=> pc[s] = "idle",
           pc[s] # "idle" => kid'[s] = kid[s],
           stage'[s] = stage[s], post'[s] = post[s],
           checkedAt'[s] = checkedAt[s], reply'[s] = reply[s]
    PROVE  StageInv(s)'
<1>1. pc'[s] = "found" => Trusted(kid[s])'
  BY FoundStaysTrusted
<1>2. StageInv(s)
  BY DEF WebhookInv
<1> QED
  BY <1>1, <1>2 DEF StageInv

(* Every step keeps what holds at each stage.                              *)
LEMMA StageStep ==
    ASSUME KeyInv, WebhookInv, [WebhookNext]_webhookVars, NEW s \in Requests
    PROVE  StageInv(s)'
<1> USE WebhookAssumption DEF WebhookInv, WebhookTypeOK, Goto
<1>0. [KeyNext]_keyVars /\ clock \in Nat /\ checkedAt[s] \in Nat /\ StageInv(s)
  BY WebhookStepIsKeyStep DEF KeyInv, KeyTypeOK
<1>1. ASSUME NEW r \in Requests, NEW p \in Posts, Receive(r, p) PROVE StageInv(s)'
  BY <1>1, <1>0 DEF Receive, StageInv, keyVars, lookupVars, serviceVars, Trusted
<1>2. ASSUME NEW r \in Requests, RejectBody(r) \/ RejectClaims(r) \/ HandleWebhook(r)
      PROVE  StageInv(s)'
  BY <1>2, <1>0 DEF RejectBody, RejectClaims, HandleWebhook, Answer, StageInv,
                    keyVars, lookupVars, serviceVars, Trusted
<1>3. ASSUME NEW r \in Requests, AskForKey(r) PROVE StageInv(s)'
  <2>1. post[r].kid \in Kids /\ KeyFor(r, post[r].kid)
    BY <1>3, <1>0 DEF AskForKey, StageInv, Post
  <2>2. clock' = clock
    BY <2>1 DEF KeyFor
  <2>3. CASE s = r
    <3>1. /\ pc'[s] = "lookup" /\ kid'[s] = post[s].kid
          /\ stage'[s] = "verifying" /\ post' = post /\ reply' = reply
          /\ checkedAt'[s] = clock
      BY <1>3, <2>1, <2>3 DEF AskForKey, KeyFor, KeyInv, KeyTypeOK
    <3>2. post[s] \in Posts /\ reply[s] = Absent
      BY <1>3, <1>0, <2>3 DEF AskForKey, StageInv
    <3>3. BodyAccepted(post[s]) /\ ClaimsHold(post[s], clock)
      BY <1>3, <2>3 DEF AskForKey
    <3>4. clock <= clock + 2 * FetchTimeout
      BY <1>0, KeyAssumption
    <3> QED
      BY <2>2, <3>1, <3>2, <3>3, <3>4, <1>0 DEF StageInv
  <2>4. CASE s # r
    <3>1. pc'[s] = pc[s] /\ kid'[s] = kid[s]
      BY <2>1, <2>4, OthersKeep
    <3>2. UNCHANGED <<stage[s], post[s], checkedAt[s], reply[s]>>
      BY <1>3, <2>4 DEF AskForKey
    <3> QED
      BY <2>2, <3>1, <3>2, StageKept
  <2> QED
    BY <2>3, <2>4
<1>4. ASSUME NEW r \in Requests, Lookup(r), UNCHANGED hookVars PROVE StageInv(s)'
  <2>1. clock' = clock
    BY <1>4 DEF Lookup, Hit, Miss, FetchConfig, FetchKeys, FetchFails, Install
  <2>2. pc[r] # "idle" /\ ~Finish(s)
    BY <1>4 DEF Lookup, Hit, Miss, FetchConfig, FetchKeys, FetchFails, Install,
                Finish, InFetch, KeyInv, KeyTypeOK
  <2>3. /\ pc'[s] = "idle" <=> pc[s] = "idle"
        /\ pc[s] # "idle" => kid'[s] = kid[s]
    BY <1>4, <1>0, <2>2, OthersKeep, LookupKept
  <2> QED
    BY <1>4, <2>1, <2>3, StageKept DEF hookVars
<1>5. ASSUME NEW r \in Requests, Accept(r) \/ RejectKey(r) PROVE StageInv(s)'
  <2>1. clock' = clock /\ Finish(r)
    BY <1>5 DEF Accept, RejectKey, Finish
  <2>2. CASE s = r
    <3>1. pc'[s] = "idle"
      BY <2>1, <2>2 DEF Finish, KeyInv, KeyTypeOK
    <3>2. stage[s] = "verifying" /\ post[s] \in Posts /\ reply[s] = Absent
      BY <1>0, <2>1, <2>2 DEF Finish, StageInv
    <3>3. \/ stage'[s] = "idle"
          \/ stage'[s] = "handling" /\ post'[s] = post[s] /\ reply'[s] = reply[s]
      BY <1>5, <2>2 DEF Accept, RejectKey, Answer
    <3> QED
      BY <3>1, <3>2, <3>3 DEF StageInv
  <2>3. CASE s # r
    <3>1. pc'[s] = pc[s] /\ kid'[s] = kid[s]
      BY <2>1, <2>3, OthersKeep
    <3>2. UNCHANGED <<stage[s], post[s], checkedAt[s], reply[s]>>
      BY <1>5, <2>3 DEF Accept, RejectKey, Answer
    <3> QED
      BY <2>1, <3>1, <3>2, StageKept
  <2> QED
    BY <2>2, <2>3
<1>6. ASSUME NEW k \in Kids, Publish(k) \/ Withdraw(k), UNCHANGED hookVars
      PROVE  StageInv(s)'
  BY <1>6, StageKept DEF Publish, Withdraw, hookVars, lookupVars
<1>7. CASE WebhookTick
  <2>1. UNCHANGED <<pc, kid, published, withdrawn, stage, post, checkedAt, reply>>
    BY <1>7 DEF WebhookTick, Tick, hookVars, lookupVars, serviceVars
  <2>2. clock' = clock + 1
    BY <1>7 DEF WebhookTick, Tick
  <2>3. stage[s] = "verifying" => clock' <= checkedAt[s] + 2 * FetchTimeout
    BY <1>0, <1>7, <2>2, TickBound DEF WebhookTick
  <2>4. pc[s] # "found"
    BY <1>0, <1>7 DEF WebhookTick, StageInv, InFetch
  <2>5. stage[s] = "verifying" => checkedAt[s] <= clock'
    BY <1>0, <2>2 DEF StageInv
  <2> QED
    BY <1>0, <2>1, <2>3, <2>4, <2>5 DEF StageInv
<1>8. CASE UNCHANGED webhookVars
  BY <1>8, StageKept DEF webhookVars, keyVars, hookVars, lookupVars
<1> QED
  BY <1>1, <1>2, <1>3, <1>4, <1>5, <1>6, <1>7, <1>8 DEF WebhookNext, Respond

(* The inductive invariants of webhook and key cache hold throughout.      *)
THEOREM WebhookInvariant == WebhookSpec => [](KeyInv /\ WebhookInv)
<1>1. WebhookInit => KeyInv /\ WebhookInv
  <2> SUFFICES ASSUME WebhookInit PROVE KeyInv /\ WebhookInv
    OBVIOUS
  <2>1. KeyInv
    BY KeyInitially DEF WebhookInit
  <2>2. WebhookInv
    BY DEF WebhookInit, KeyInit, WebhookInv, WebhookTypeOK, StageInv, Stages
  <2> QED
    BY <2>1, <2>2
<1>2. KeyInv /\ WebhookInv /\ [WebhookNext]_webhookVars => (KeyInv /\ WebhookInv)'
  <2> SUFFICES ASSUME KeyInv, WebhookInv, [WebhookNext]_webhookVars
               PROVE  KeyInv' /\ WebhookInv'
    OBVIOUS
  <2>1. KeyInv'
    BY WebhookStepIsKeyStep, KeyTypeStep, SetStep, CacheStep, SteadyStep DEF KeyInv
  <2>2. WebhookInv'
    BY WebhookTypeStep, StageStep DEF WebhookInv
  <2> QED
    BY <2>1, <2>2
<1> QED
  BY <1>1, <1>2, PTL DEF WebhookSpec

(* The webhook uses the key cache as KeyCache specifies, so what is proved *)
(* of the cache by itself holds of it here.                                *)
THEOREM WebhookImplementsKeyCache == WebhookSpec => KeySpec
<1>1. WebhookInit => KeyInit
  BY DEF WebhookInit
<1> QED
  BY <1>1, WebhookInvariant, WebhookStepIsKeyStep, PTL DEF WebhookSpec, KeySpec

(* No withdrawn key is trusted for long by a webhook request.              *)
THEOREM WebhookKeysExpire == WebhookSpec => TrustExpires
BY WebhookImplementsKeyCache, WithdrawnKeysExpire, PTL

(* An honest post passes every check, although clocks differ by the skew.  *)
LEMMA HonestPasses ==
    ASSUME NEW p \in Post, NEW time \in Nat, Honest(p, time)
    PROVE  BodyAccepted(p) /\ ClaimsHold(p, time) /\ KeyAccepted(p)
<1> USE WebhookAssumption, KeyAssumption DEF Honest, Post
<1>1. BodyAccepted(p)
  BY DEF BodyAccepted, BytesRead
<1>2. PICK theirs \in Nat :
        /\ theirs <= time + ClockSkew /\ time <= theirs + ClockSkew
        /\ p.nbf # Never => p.nbf <= theirs
        /\ p.exp # Never /\ theirs <= p.exp
  BY DEF ValidAt
<1>3. ClaimsHold(p, time)
  BY <1>2 DEF ClaimsHold
<1> QED
  BY <1>1, <1>3 DEF KeyAccepted

(* A refusal is a step of the request that is refused.                     *)
LEMMA RefusedBy ==
    ASSUME WebhookInv, [WebhookNext]_webhookVars, NEW s \in Requests,
           reply'[s] # reply[s], reply'[s] \in {400, 403, 413}
    PROVE  RejectBody(s) \/ RejectClaims(s) \/ RejectKey(s)
<1> USE WebhookAssumption DEF WebhookInv, WebhookTypeOK, Answer
<1>1. ASSUME NEW r \in Requests, NEW p \in Posts, Receive(r, p) PROVE FALSE
  BY <1>1 DEF Receive
<1>2. ASSUME NEW r \in Requests, RejectBody(r) PROVE RejectBody(s)
  <2>1. s = r
    BY <1>2 DEF RejectBody
  <2> QED
    BY <1>2, <2>1
<1>3. ASSUME NEW r \in Requests, RejectClaims(r) PROVE RejectClaims(s)
  <2>1. s = r
    BY <1>3 DEF RejectClaims
  <2> QED
    BY <1>3, <2>1
<1>4. ASSUME NEW r \in Requests, RejectKey(r) PROVE RejectKey(s)
  <2>1. s = r
    BY <1>4 DEF RejectKey
  <2> QED
    BY <1>4, <2>1
<1>5. ASSUME NEW r \in Requests, AskForKey(r) \/ Accept(r) PROVE FALSE
  BY <1>5 DEF AskForKey, Accept
<1>6. ASSUME NEW r \in Requests, HandleWebhook(r) PROVE FALSE
  BY <1>6 DEF HandleWebhook
<1>7. ~UNCHANGED hookVars
  BY DEF hookVars
<1> QED
  BY <1>1, <1>2, <1>3, <1>4, <1>5, <1>6, <1>7
  DEF WebhookNext, Respond, WebhookTick, webhookVars

(* HandleWebhookRequest turns away an honest post only if a fetch of keys  *)
(* failed or the key was not published throughout.                         *)
THEOREM HonestPostsAreServed == WebhookSpec => HonestServed
<1> DEFINE Excuse(s) == \/ ~Honest(post[s], DecidedAt(s))
                        \/ faults > 0
                        \/ stage[s] = "verifying" /\ ~steady[s]
<1>1. ASSUME KeyInv, WebhookInv, [WebhookNext]_webhookVars, NEW s \in Requests,
             reply'[s] # reply[s], reply'[s] \in {400, 403, 413}
      PROVE  Excuse(s)
  <2>1. RejectBody(s) \/ RejectClaims(s) \/ RejectKey(s)
    BY <1>1, RefusedBy
  <2>2. StageInv(s) /\ clock \in Nat /\ checkedAt[s] \in Nat
    BY <1>1 DEF KeyInv, KeyTypeOK, WebhookInv, WebhookTypeOK
  <2>3. CASE RejectBody(s) \/ RejectClaims(s)
    <3>1. stage[s] = "received" /\ post[s] \in Post
      BY <2>2, <2>3, WebhookAssumption DEF RejectBody, RejectClaims, StageInv
    <3>2. ~BodyAccepted(post[s]) \/ ~ClaimsHold(post[s], clock) \/ post[s].kid = NoKid
      BY <2>3 DEF RejectBody, RejectClaims
    <3>3. ~Honest(post[s], clock)
      BY <2>2, <3>1, <3>2, HonestPasses DEF Honest
    <3> QED
      BY <3>1, <3>3 DEF DecidedAt
  <2>4. CASE RejectKey(s)
    <3>1. pc[s] \in {"unknown", "error", "found"}
      BY <2>4 DEF RejectKey
    <3>2. stage[s] = "verifying" /\ post[s] \in Post
      BY <2>2, <3>1, WebhookAssumption DEF StageInv
    <3>3. CASE pc[s] \in {"unknown", "error"}
      BY <1>1, <3>2, <3>3 DEF KeyInv, NoFalseReject
    <3>4. CASE pc[s] = "found"
      <4>1. ~KeyAccepted(post[s])
        BY <2>4, <3>4 DEF RejectKey
      <4> QED
        BY <2>2, <3>2, <4>1, HonestPasses DEF DecidedAt
    <3> QED
      BY <3>1, <3>3, <3>4
  <2> QED
    BY <2>1, <2>3, <2>4
<1>2. KeyInv /\ WebhookInv /\ [WebhookNext]_webhookVars =>
        [\A r \in Requests :
            reply'[r] # reply[r] /\ reply'[r] \in {400, 403, 413} =>
                \/ ~Honest(post[r], DecidedAt(r))
                \/ faults > 0
                \/ stage[r] = "verifying" /\ ~steady[r]]_webhookVars
  BY <1>1
<1> QED
  BY WebhookInvariant, <1>2, PTL DEF WebhookSpec, HonestServed

(* HandleWebhook is given an activity only whole, with a key that is       *)
(* trusted and a token free of other flaws that was within its window at   *)
(* most two time-outs ago.                                                 *)
THEOREM ActivitiesAreHandledInTime == WebhookSpec => HandledInTime
<1> DEFINE Handed(s) == stage[s] # "handling" /\ stage'[s] = "handling"
           Rightly(s) ==
             /\ post[s].readable /\ post[s].decodes /\ post[s].size <= MaxBody
             /\ ~post[s].flawed
             /\ clock <= post[s].exp + ClockSkew + 2 * FetchTimeout
             /\ post[s].nbf # Never => post[s].nbf <= clock + ClockSkew
             /\ KeyAccepted(post[s])
             /\ Trusted(post[s].kid)
<1>1. ASSUME KeyInv, WebhookInv, [WebhookNext]_webhookVars, NEW s \in Requests, Handed(s)
      PROVE  Rightly(s)
  <2>1. Accept(s)
    <3> USE DEF WebhookInv, WebhookTypeOK, Answer
    <3>1. ASSUME NEW r \in Requests, NEW p \in Posts, Receive(r, p) PROVE FALSE
      BY <1>1, <3>1 DEF Receive
    <3>2. ASSUME NEW r \in Requests,
                 RejectBody(r) \/ RejectClaims(r) \/ RejectKey(r) \/ HandleWebhook(r)
          PROVE  FALSE
      BY <1>1, <3>2 DEF RejectBody, RejectClaims, RejectKey, HandleWebhook
    <3>3. ASSUME NEW r \in Requests, AskForKey(r) PROVE FALSE
      BY <1>1, <3>3 DEF AskForKey
    <3>4. ASSUME NEW r \in Requests, Accept(r) PROVE Accept(s)
      BY <1>1, <3>4 DEF Accept
    <3>5. ~UNCHANGED hookVars
      BY <1>1 DEF hookVars
    <3> QED
      BY <1>1, <3>1, <3>2, <3>3, <3>4, <3>5
      DEF WebhookNext, Respond, WebhookTick, webhookVars
  <2>2. pc[s] = "found" /\ KeyAccepted(post[s])
    BY <2>1 DEF Accept
  <2>3. /\ post[s] \in Post /\ kid[s] = post[s].kid /\ Trusted(kid[s])
        /\ BodyAccepted(post[s]) /\ ClaimsHold(post[s], checkedAt[s])
        /\ checkedAt[s] <= clock /\ clock <= checkedAt[s] + 2 * FetchTimeout
    BY <1>1, <2>2, WebhookAssumption DEF WebhookInv, StageInv
  <2>4. clock \in Nat /\ checkedAt[s] \in Nat
    BY <1>1 DEF KeyInv, KeyTypeOK, WebhookInv, WebhookTypeOK
  <2>5. /\ post[s].readable /\ post[s].decodes /\ post[s].size <= MaxBody
        /\ ~post[s].flawed
    BY <2>3, WebhookAssumption DEF Post, BodyAccepted, BytesRead, ClaimsHold
  <2>6. clock <= post[s].exp + ClockSkew + 2 * FetchTimeout
    BY <2>3, <2>4, WebhookAssumption, KeyAssumption DEF Post, ClaimsHold
  <2>7. post[s].nbf # Never => post[s].nbf <= clock + ClockSkew
    BY <2>3, <2>4, WebhookAssumption, KeyAssumption DEF Post, ClaimsHold
  <2> QED
    BY <2>2, <2>3, <2>5, <2>6, <2>7
<1>2. KeyInv /\ WebhookInv /\ [WebhookNext]_webhookVars =>
        [\A r \in Requests : stage[r] # "handling" /\ stage'[r] = "handling" =>
            /\ post[r].readable /\ post[r].decodes /\ post[r].size <= MaxBody
            /\ ~post[r].flawed
            /\ clock <= post[r].exp + ClockSkew + 2 * FetchTimeout
            /\ post[r].nbf # Never => post[r].nbf <= clock + ClockSkew
            /\ KeyAccepted(post[r])
            /\ Trusted(post[r].kid)]_webhookVars
  BY <1>1
<1> QED
  BY WebhookInvariant, <1>2, PTL DEF WebhookSpec, HandledInTime
=============================================================================
