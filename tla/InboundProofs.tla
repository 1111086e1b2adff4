---------------------------- MODULE InboundProofs ----------------------------
(***************************************************************************)
(* Theorems about Inbound, for any sets of workers, accounts, activities,  *)
(* ids, chats and URLs and any limit, time-to-live and bound.              *)
(***************************************************************************)
EXTENDS Inbound, FiniteSetTheorems, TLAPS

-----------------------------------------------------------------------------
(* What the operations on a document keep. *)

(* Pruning only removes keys, and leaves no more than the limit. *)
LEMMA PrunedFacts ==
    ASSUME NEW seen \in [Ids -> Nat \cup {Absent}], NEW t \in Nat,
           NEW s \in Pruned(seen, t)
    PROVE  /\ s \in [Ids -> Nat \cup {Absent}]
           /\ Held(s) \subseteq Held(seen)
           /\ \A i \in Held(s) : s[i] = seen[i]
           /\ Cardinality(Held(s)) <= MaxTrackedStateKeys
<1>1. PICK K \in Kept(seen, t) : s = RestrictedTo(seen, K)
  BY DEF Pruned
<1>2. K \subseteq Held(seen) /\ Cardinality(K) <= MaxTrackedStateKeys
  <2>1. CASE Cardinality(Fresh(seen, t)) <= MaxTrackedStateKeys
    BY <1>1, <2>1 DEF Kept, Fresh
  <2>2. CASE ~(Cardinality(Fresh(seen, t)) <= MaxTrackedStateKeys)
    <3>1. Cardinality(K) = MaxTrackedStateKeys /\ K \subseteq Fresh(seen, t)
      BY <1>1, <2>2 DEF Kept
    <3>2. QED  BY <3>1, TrackedAssumption DEF Fresh
  <2>3. QED  BY <2>1, <2>2
<1>3. Held(s) = K
  BY <1>1, <1>2 DEF RestrictedTo, Held
<1>4. QED  BY <1>1, <1>2, <1>3 DEF RestrictedTo, Held

(* So does TouchAccount, and it changes nothing else. *)
LEMMA TouchedFacts ==
    ASSUME NEW b \in Blob, NEW t \in Nat, NEW c \in Touched(b, t)
    PROVE  /\ c \in Blob
           /\ Held(c.seen) \subseteq Held(b.seen)
           /\ Cardinality(Held(c.seen)) <= MaxTrackedStateKeys
           /\ c.urls = b.urls /\ c.sessions = b.sessions /\ c.linked = b.linked
<1>1. PICK s \in Pruned(b.seen, t) : c = [b EXCEPT !.seen = s]
  BY DEF Touched
<1>2. b.seen \in [Ids -> Nat \cup {Absent}]
  BY DEF Blob
<1>3. /\ s \in [Ids -> Nat \cup {Absent}]
      /\ Held(s) \subseteq Held(b.seen)
      /\ Cardinality(Held(s)) <= MaxTrackedStateKeys
  BY <1>1, <1>2, PrunedFacts
<1>4. QED  BY <1>1, <1>3 DEF Blob

LEMMA EmptyBlobFacts == EmptyBlob \in Blob /\ Held(EmptyBlob.seen) = {}
BY DEF EmptyBlob, Blob, Held

LEMMA WithReferenceFacts ==
    ASSUME NEW b \in Blob, NEW a \in Activities
    PROVE  /\ WithReference(b, a) \in Blob
           /\ WithReference(b, a).seen = b.seen
           /\ WithReference(b, a).sessions = b.sessions
           /\ \A c \in Chats : b.urls[c] # Absent => WithReference(b, a).urls[c] # Absent
           /\ HasReference(a) => WithReference(b, a).urls[a.chat] # Absent
<1>1. a \in Activity
  BY InboundAssumption
<1>2. CASE HasReference(a)
  <2>1. a.chat \in Chats /\ a.url \in Urls
    BY <1>1, <1>2 DEF Activity, HasReference
  <2>2. WithReference(b, a) = [b EXCEPT !.urls = [b.urls EXCEPT ![a.chat] = a.url]]
    BY <1>2 DEF WithReference
  <2>3. QED  BY <1>2, <2>1, <2>2, AccountAssumption DEF Blob, HasReference
<1>3. CASE ~HasReference(a)
  BY <1>3 DEF WithReference
<1>4. QED  BY <1>2, <1>3

LEMMA WithMessageFacts ==
    ASSUME NEW b \in Blob, NEW a \in Activities, NEW t \in Nat, a.kind = "text"
    PROVE  /\ WithMessage(b, a, t) \in Blob
           /\ Held(WithMessage(b, a, t).seen) \subseteq Held(b.seen) \cup {a.id}
           /\ WithMessage(b, a, t).urls = b.urls
           /\ WithMessage(b, a, t).sessions = b.sessions \cup {StateKey(a)}
<1>1. /\ a \in Activity
      /\ a.chat # Absent
  BY InboundAssumption
<1>2. a.id \in Ids /\ StateKey(a) \in StateKeys
  BY <1>1 DEF Activity, StateKey, StateKeys
<1> DEFINE seen == [b.seen EXCEPT ![a.id] = t]
           sessions == b.sessions \cup {StateKey(a)}
<1>3. WithMessage(b, a, t) = [b EXCEPT !.sessions = sessions, !.seen = seen]
  BY DEF WithMessage
<1>4. seen \in [Ids -> Nat \cup {Absent}]
  BY <1>2 DEF Blob
<1>5. Held(seen) \subseteq Held(b.seen) \cup {a.id}
  BY DEF Held, Blob
<1>6. sessions \in SUBSET StateKeys
  BY <1>2 DEF Blob
<1> HIDE DEF seen, sessions
<1>7. /\ WithMessage(b, a, t) \in Blob
      /\ WithMessage(b, a, t).seen = seen
      /\ WithMessage(b, a, t).urls = b.urls
      /\ WithMessage(b, a, t).sessions = sessions
  BY <1>3, <1>4, <1>6 DEF Blob
<1>8. QED  BY <1>5, <1>7 DEF sessions

-----------------------------------------------------------------------------
(* What keeps a document sound. *)

LEMMA EmptyBlobSound ==
    ASSUME NEW acct \in Accounts, NEW msgs PROVE Sound(acct, EmptyBlob, msgs)
BY EmptyBlobFacts DEF Sound, Consistent

(* Forgetting keys, and learning references and sessions, keep it sound. *)
LEMMA SoundKept ==
    ASSUME NEW acct \in Accounts, NEW msgs, NEW b \in Blob, NEW c \in Blob,
           Sound(acct, b, msgs),
           Held(c.seen) \subseteq Held(b.seen),
           b.sessions \subseteq c.sessions,
           \A chat \in Chats : b.urls[chat] # Absent => c.urls[chat] # Absent
    PROVE  Sound(acct, c, msgs)
<1> SUFFICES ASSUME NEW i \in Held(c.seen)
             PROVE  /\ msgs[<<acct, i>>] > 0
                    /\ \E a \in Activities :
                          /\ a.kind = "text"
                          /\ DedupeKey(a) = <<acct, i>>
                          /\ StateKey(a) \in c.sessions
                          /\ HasReference(a) => c.urls[a.chat] # Absent
  BY DEF Sound, Consistent
<1>1. PICK a \in Activities :
        /\ a.kind = "text"
        /\ DedupeKey(a) = <<acct, i>>
        /\ StateKey(a) \in b.sessions
        /\ HasReference(a) => b.urls[a.chat] # Absent
  BY DEF Sound, Consistent
<1>2. HasReference(a) => a.chat \in Chats
  BY InboundAssumption DEF HasReference, Activity
<1>3. QED  BY <1>1, <1>2 DEF Sound

LEMMA TouchedSound ==
    ASSUME NEW acct \in Accounts, NEW msgs, NEW b \in Blob, NEW t \in Nat,
           NEW c \in Touched(b, t), Sound(acct, b, msgs)
    PROVE  Sound(acct, c, msgs)
BY TouchedFacts, SoundKept

LEMMA WithReferenceSound ==
    ASSUME NEW acct \in Accounts, NEW msgs, NEW b \in Blob,
           NEW a \in Activities, Sound(acct, b, msgs)
    PROVE  Sound(acct, WithReference(b, a), msgs)
BY WithReferenceFacts, SoundKept

(* So does a message the gateway holds, once its reference is known. *)
LEMMA WithMessageSound ==
    ASSUME NEW msgs, NEW b \in Blob, NEW a \in Activities, NEW t \in Nat,
           a.kind = "text", msgs[DedupeKey(a)] > 0,
           HasReference(a) => b.urls[a.chat] # Absent,
           Sound(a.account, b, msgs)
    PROVE  Sound(a.account, WithMessage(b, a, t), msgs)
<1> DEFINE c == WithMessage(b, a, t)
<1>1. /\ Held(c.seen) \subseteq Held(b.seen) \cup {a.id}
      /\ c.urls = b.urls
      /\ c.sessions = b.sessions \cup {StateKey(a)}
  BY WithMessageFacts
<1> HIDE DEF c
<1> SUFFICES ASSUME NEW i \in Held(c.seen)
             PROVE  /\ msgs[<<a.account, i>>] > 0
                    /\ \E x \in Activities :
                          /\ x.kind = "text"
                          /\ DedupeKey(x) = <<a.account, i>>
                          /\ StateKey(x) \in c.sessions
                          /\ HasReference(x) => c.urls[x.chat] # Absent
  BY DEF Sound, Consistent, c
<1>2. CASE i = a.id
  BY <1>1, <1>2 DEF DedupeKey
<1>3. CASE i \in Held(b.seen)
  BY <1>1, <1>3 DEF Sound, Consistent
<1>4. QED  BY <1>1, <1>2, <1>3

(* A gateway never loses a message, so what was sound stays sound. *)
LEMMA SoundMonotonic ==
    ASSUME NEW acct \in Accounts, NEW b \in Blob,
           NEW msgs \in [Keys -> Nat], NEW more \in [Keys -> Nat],
           \A key \in Keys : msgs[key] <= more[key],
           Sound(acct, b, msgs)
    PROVE  Sound(acct, b, more)
<1> SUFFICES ASSUME NEW i \in Held(b.seen) PROVE more[<<acct, i>>] > 0
  BY DEF Sound
<1>1. i \in Ids /\ <<acct, i>> \in Keys
  BY DEF Held, Blob, Keys
<1>2. QED  BY <1>1 DEF Sound

-----------------------------------------------------------------------------
(***************************************************************************)
(* Type correctness.                                                       *)
(***************************************************************************)
LEMMA TypeInit == ASSUME Init PROVE TypeOK
BY EmptyBlobFacts, InboundAssumption DEF Init, TypeOK, PCs, Loaded

LEMMA KeyOfActivity ==
    ASSUME NEW a \in Activities
    PROVE  a.account \in Accounts /\ a.id \in Ids /\ DedupeKey(a) \in Keys
BY InboundAssumption DEF Activity, DedupeKey, Keys

LEMMA ClockType == ASSUME TypeOK PROVE clock \in Nat
<1>1. clock \in 0..MaxClock /\ MaxClock \in Nat
  BY InboundAssumption DEF TypeOK
<1>2. QED  BY <1>1

LEMMA TypeDrop ==
    ASSUME TypeOK, NEW W, Drop(W)
    PROVE  /\ pc' \in [Workers -> PCs]
           /\ act' \in [Workers -> Activities \cup {Absent}]
           /\ \A w \in Workers : pc'[w] # "idle" => act'[w] \in Activities
           /\ st' \in [Workers -> Blob]
           /\ now' \in [Workers -> Nat]
BY EmptyBlobFacts DEF TypeOK, Drop, PCs

LEMMA TypeFail ==
    ASSUME TypeOK, NEW w, Fail(w), store' \in [Accounts -> Blob],
           messages' \in [Keys -> Nat]
    PROVE  TypeOK'
<1>1. faults' \in 0..MaxFaults
  BY InboundAssumption DEF TypeOK, Fail
<1>2. QED  BY <1>1, TypeDrop DEF TypeOK, Fail

(* The store after a save of worker w's copy. *)
LEMMA TypeSave ==
    ASSUME TypeOK, NEW w \in Workers, pc[w] # "idle",
           NEW b \in Touched(st[w], clock), Save(act[w].account, b)
    PROVE  b \in Blob /\ store' \in [Accounts -> Blob]
<1>1. st[w] \in Blob /\ clock \in Nat
  BY InboundAssumption DEF TypeOK
<1>2. b \in Blob
  BY <1>1, TouchedFacts
<1>3. QED  BY <1>2 DEF TypeOK, Save

LEMMA TypeWorkerStep ==
    ASSUME TypeOK, NEW w \in Workers, pc[w] # "idle", NEW label \in PCs, Goto(w, label),
           UNCHANGED act
    PROVE  /\ pc' \in [Workers -> PCs]
           /\ act' \in [Workers -> Activities \cup {Absent}]
           /\ \A v \in Workers : pc'[v] # "idle" => act'[v] \in Activities
BY DEF TypeOK, Goto

LEMMA TypeNext == ASSUME InboundInv, [Next]_vars PROVE TypeOK'
<1> USE InboundAssumption DEF hostVars, envVars
<1> TypeOK
  BY DEF InboundInv
<1>1. ASSUME NEW w \in Workers, NEW a \in Activities, Receive(w, a) PROVE TypeOK'
  <2>1. repeats' \in 0..MaxRepeats
    BY <1>1 DEF Receive, TypeOK
  <2>2. pc' \in [Workers -> PCs] /\ act' \in [Workers -> Activities \cup {Absent}]
    BY <1>1 DEF Receive, TypeOK, Goto, PCs
  <2>3. \A v \in Workers : pc'[v] # "idle" => act'[v] \in Activities
    BY <1>1 DEF Receive, TypeOK, Goto
  <2>4. /\ store' = store /\ messages' = messages /\ acked' = acked
        /\ st' = st /\ now' = now /\ clock' = clock /\ faults' = faults
    BY <1>1 DEF Receive
  <2>5. QED  BY <2>1, <2>2, <2>3, <2>4 DEF TypeOK
<1>2. ASSUME NEW w \in Workers, Load(w) PROVE TypeOK'
  <2>1. WithReference(store[act[w].account], act[w]) \in Blob
    BY <1>2, KeyOfActivity, WithReferenceFacts DEF Load, TypeOK
  <2>2. st' = [st EXCEPT ![w] = WithReference(store[act[w].account], act[w])]
    BY <1>2 DEF Load
  <2>3. st' \in [Workers -> Blob]
    BY <2>1, <2>2 DEF TypeOK
  <2>4. now' \in [Workers -> Nat]
    <3>1. clock \in Nat
      BY DEF TypeOK
    <3>2. now' = [now EXCEPT ![w] = clock]
      BY <1>2 DEF Load
    <3>3. QED  BY <3>1, <3>2 DEF TypeOK
  <2>5. QED  BY <1>2, <2>3, <2>4, TypeWorkerStep DEF Load, TypeOK, PCs, Loaded
<1>3. ASSUME NEW w \in Workers, LoadFails(w) PROVE TypeOK'
  BY <1>3, TypeFail DEF LoadFails, TypeOK
<1>4. ASSUME NEW w \in Workers, SaveReference(w) PROVE TypeOK'
  <2>1. PICK b \in Touched(st[w], clock) :
          /\ Save(act[w].account, b)
          /\ st' = [st EXCEPT ![w] = b]
          /\ Goto(w, IF IsNew(b, act[w]) THEN "ensure session" ELSE "reply")
    BY <1>4 DEF SaveReference
  <2>2. b \in Blob /\ store' \in [Accounts -> Blob]
    BY <1>4, <2>1, TypeSave DEF SaveReference
  <2>3. QED
    BY <1>4, <2>1, <2>2, TypeWorkerStep DEF SaveReference, TypeOK, PCs, Loaded
<1>5. ASSUME NEW w \in Workers, SaveFails(w) PROVE TypeOK'
  <2>1. store' \in [Accounts -> Blob]
    BY <1>5, TypeSave DEF SaveFails, TypeOK
  <2>2. QED  BY <1>5, <2>1, TypeFail DEF SaveFails, TypeOK
<1>6. ASSUME NEW w \in Workers, EnsureChatSession(w) PROVE TypeOK'
  BY <1>6, TypeWorkerStep DEF EnsureChatSession, TypeOK, PCs, Loaded
<1>7. ASSUME NEW w \in Workers, EnsureChatSessionFails(w) PROVE TypeOK'
  BY <1>7, TypeFail DEF EnsureChatSessionFails, TypeOK
<1>8. ASSUME NEW w \in Workers, CreateMessage(w) PROVE TypeOK'
  <2>1. act[w] \in Activities /\ act[w].kind = "text" /\ st[w] \in Blob /\ now[w] \in Nat
    BY <1>8 DEF CreateMessage, TypeOK, InboundInv, WorkerInv
  <2>2. WithMessage(st[w], act[w], now[w]) \in Blob
    BY <2>1, WithMessageFacts
  <2>3. messages' \in [Keys -> Nat]
    <3>1. messages' = [messages EXCEPT ![DedupeKey(act[w])] = @ + 1]
      BY <1>8 DEF CreateMessage
    <3>2. QED  BY <2>1, <3>1, KeyOfActivity DEF TypeOK
  <2>4. QED
    BY <1>8, <2>2, <2>3, TypeWorkerStep DEF CreateMessage, TypeOK, PCs, Loaded
<1>9. ASSUME NEW w \in Workers, CreateMessageFails(w) PROVE TypeOK'
  <2>1. act[w] \in Activities
    BY <1>9 DEF CreateMessageFails, TypeOK
  <2>2. messages' \in [Keys -> Nat]
    BY <1>9, <2>1, KeyOfActivity DEF CreateMessageFails, TypeOK
  <2>3. QED  BY <1>9, <2>2, TypeFail DEF CreateMessageFails, TypeOK
<1>10. ASSUME NEW w \in Workers, SaveSeen(w) PROVE TypeOK'
  <2>1. PICK b \in Touched(st[w], clock) :
          Save(act[w].account, b) /\ st' = [st EXCEPT ![w] = b]
    BY <1>10 DEF SaveSeen
  <2>2. b \in Blob /\ store' \in [Accounts -> Blob]
    BY <1>10, <2>1, TypeSave DEF SaveSeen
  <2>3. QED  BY <1>10, <2>1, <2>2, TypeWorkerStep DEF SaveSeen, TypeOK, PCs, Loaded
<1>11. ASSUME NEW w \in Workers, Reply(w) PROVE TypeOK'
  BY <1>11, TypeDrop DEF Reply, TypeOK
<1>12. ASSUME NEW w \in Workers, ReplyLost(w) PROVE TypeOK'
  BY <1>12, TypeFail DEF ReplyLost, TypeOK
<1>13. CASE Crash
  <2>1. faults' \in 0..MaxFaults
    BY <1>13 DEF Crash, TypeOK
  <2>2. QED  BY <1>13, <2>1, TypeDrop DEF Crash, TypeOK
<1>14. CASE Tick
  BY <1>14 DEF Tick, workerVars, TypeOK
<1>15. CASE UNCHANGED vars
  BY <1>15 DEF vars, workerVars, TypeOK
<1>16. QED
  BY <1>1, <1>2, <1>3, <1>4, <1>5, <1>6, <1>7, <1>8, <1>9, <1>10, <1>11, <1>12,
     <1>13, <1>14, <1>15 DEF Next, Progress, Failure

-----------------------------------------------------------------------------
(***************************************************************************)
(* What carries the rest of the invariant over a step.                     *)
(***************************************************************************)
MessagesGrow ==
    /\ messages' \in [Keys -> Nat]
    /\ \A key \in Keys : messages[key] <= messages'[key]

LEMMA SameMessagesGrow ==
    ASSUME TypeOK, UNCHANGED messages PROVE MessagesGrow
BY DEF TypeOK, MessagesGrow

LEMMA OneMessageMore ==
    ASSUME TypeOK, NEW key \in Keys, messages' = [messages EXCEPT ![key] = @ + 1]
    PROVE  MessagesGrow /\ messages'[key] > 0
BY DEF TypeOK, MessagesGrow

LEMMA CreatedStays ==
    ASSUME TypeOK, MessagesGrow, NEW key \in Keys, Created(key)
    PROVE  Created(key)'
BY DEF TypeOK, MessagesGrow, Created

(* A worker that does not move. *)
LEMMA WorkerInvKept ==
    ASSUME InboundInv, MessagesGrow, NEW v \in Workers,
           pc'[v] = pc[v], act'[v] = act[v], st'[v] = st[v]
    PROVE  WorkerInv(v)'
<1>1. TypeOK /\ WorkerInv(v)
  BY DEF InboundInv
<1>2. CASE pc[v] \notin Loaded
  BY <1>2 DEF WorkerInv, Loaded
<1>3. CASE pc[v] \in Loaded
  <2>1. act[v] \in Activities /\ st[v] \in Blob
    BY <1>1, <1>3 DEF TypeOK, Loaded
  <2>2. act[v].account \in Accounts /\ DedupeKey(act[v]) \in Keys
    BY <2>1, KeyOfActivity
  <2>3. Sound(act[v].account, st[v], messages')
    BY <1>1, <1>3, <2>1, <2>2, SoundMonotonic DEF WorkerInv, TypeOK, MessagesGrow
  <2>4. Created(DedupeKey(act[v])) => messages'[DedupeKey(act[v])] > 0
    BY <1>1, <2>2 DEF Created, MessagesGrow, TypeOK
  <2>5. QED  BY <1>1, <2>3, <2>4 DEF WorkerInv, Created
<1>4. QED  BY <1>2, <1>3

LEMMA WorkerInvIdle ==
    ASSUME NEW v \in Workers, pc'[v] \in {"idle", "load"} PROVE WorkerInv(v)'
BY DEF WorkerInv, Loaded

(* Requests that end leave the others as they were. *)
LEMMA WorkerInvDrop ==
    ASSUME InboundInv, MessagesGrow, NEW W, Drop(W), NEW v \in Workers
    PROVE  WorkerInv(v)'
<1>1. CASE v \in W
  <2>1. pc'[v] = "idle"
    BY <1>1 DEF Drop
  <2>2. QED  BY <2>1, WorkerInvIdle
<1>2. CASE v \notin W
  <2>1. pc'[v] = pc[v] /\ act'[v] = act[v] /\ st'[v] = st[v]
    BY <1>2 DEF Drop
  <2>2. QED  BY <2>1, WorkerInvKept
<1>3. QED  BY <1>1, <1>2

LEMMA StoreKept ==
    ASSUME InboundInv, MessagesGrow, UNCHANGED store
    PROVE  /\ \A acct \in Accounts : Sound(acct, store[acct], messages)'
           /\ SeenBounded'
<1>1. TypeOK /\ HostInv
  BY DEF InboundInv
<1>2. ASSUME NEW acct \in Accounts PROVE Sound(acct, store[acct], messages')
  <2>1. store[acct] \in Blob
    BY <1>1 DEF TypeOK
  <2>2. QED  BY <1>1, <2>1, SoundMonotonic DEF HostInv, TypeOK, MessagesGrow
<1>3. QED  BY <1>1, <1>2 DEF HostInv, SeenBounded

(* A worker's copy is sound, so it may replace whatever is stored. *)
LEMMA StoreSaved ==
    ASSUME InboundInv, NEW w \in Workers, pc[w] \in Loaded,
           NEW b \in Touched(st[w], clock), Save(act[w].account, b), UNCHANGED messages
    PROVE  /\ \A acct \in Accounts : Sound(acct, store[acct], messages)'
           /\ SeenBounded'
           /\ Sound(act[w].account, b, messages)
<1>1. TypeOK /\ HostInv /\ WorkerInv(w)
  BY DEF InboundInv
<1>2. act[w].account \in Accounts /\ st[w] \in Blob
  BY <1>1, KeyOfActivity DEF TypeOK, Loaded
<1>3. clock \in Nat
  BY <1>1, InboundAssumption DEF TypeOK
<1>4. Sound(act[w].account, b, messages)
  BY <1>1, <1>2, <1>3, TouchedSound DEF WorkerInv
<1>5. Cardinality(Held(b.seen)) <= MaxTrackedStateKeys
  BY <1>2, <1>3, TouchedFacts
<1>6. store' = [store EXCEPT ![act[w].account] = b] /\ DOMAIN store = Accounts
  BY <1>1 DEF Save, TypeOK
<1>7. ASSUME NEW acct \in Accounts
      PROVE  /\ Sound(acct, store'[acct], messages')
             /\ Cardinality(Held(store'[acct].seen)) <= MaxTrackedStateKeys
  <2>1. CASE acct = act[w].account
    BY <1>4, <1>5, <1>6, <2>1
  <2>2. CASE acct # act[w].account
    BY <1>1, <1>6, <2>2 DEF HostInv, SeenBounded
  <2>3. QED  BY <2>1, <2>2
<1>8. QED  BY <1>4, <1>7 DEF SeenBounded

LEMMA AckedKept ==
    ASSUME InboundInv, MessagesGrow, UNCHANGED acked PROVE AckedImpliesCreated'
<1>1. TypeOK /\ AckedImpliesCreated
  BY DEF InboundInv, HostInv
<1>2. ASSUME NEW a \in acked, a.kind = "text" PROVE Created(DedupeKey(a))'
  <2>1. DedupeKey(a) \in Keys /\ Created(DedupeKey(a))
    BY <1>1, <1>2, KeyOfActivity DEF TypeOK, AckedImpliesCreated
  <2>2. QED  BY <1>1, <2>1, CreatedStays
<1>3. QED  BY <1>2 DEF AckedImpliesCreated

LEMMA OnlyTextKept ==
    ASSUME InboundInv, UNCHANGED messages PROVE OnlyTextCreated'
BY DEF InboundInv, HostInv, OnlyTextCreated, Created

(* A step that touches none of the host's variables. *)
LEMMA HostKept ==
    ASSUME InboundInv, UNCHANGED hostVars PROVE HostInv'
<1>1. UNCHANGED store /\ UNCHANGED messages /\ UNCHANGED acked /\ MessagesGrow
  BY SameMessagesGrow DEF hostVars, InboundInv
<1>2. QED  BY <1>1, StoreKept, AckedKept, OnlyTextKept DEF HostInv

-----------------------------------------------------------------------------
(***************************************************************************)
(* The invariant, one action at a time.                                    *)
(***************************************************************************)
LEMMA ReceiveInv ==
    ASSUME InboundInv, NEW w \in Workers, NEW a \in Activities, Receive(w, a)
    PROVE  HostInv' /\ \A v \in Workers : WorkerInv(v)'
<1>1. TypeOK /\ UNCHANGED hostVars /\ MessagesGrow
  BY SameMessagesGrow DEF Receive, hostVars, InboundInv
<1>2. pc'[w] = "load"
  BY <1>1 DEF Receive, Goto, TypeOK
<1>3. ASSUME NEW v \in Workers, v # w
      PROVE  pc'[v] = pc[v] /\ act'[v] = act[v] /\ st'[v] = st[v]
  BY <1>1, <1>3 DEF Receive, Goto, TypeOK
<1>4. QED  BY <1>1, <1>2, <1>3, HostKept, WorkerInvIdle, WorkerInvKept

LEMMA LoadInv ==
    ASSUME InboundInv, NEW w \in Workers, Load(w)
    PROVE  HostInv' /\ \A v \in Workers : WorkerInv(v)'
<1> DEFINE a == act[w]
           c == WithReference(store[a.account], a)
<1>1. TypeOK /\ HostInv /\ UNCHANGED hostVars /\ UNCHANGED messages /\ MessagesGrow
  BY SameMessagesGrow DEF Load, hostVars, InboundInv
<1>2. a \in Activities /\ a.account \in Accounts /\ store[a.account] \in Blob
  BY <1>1, KeyOfActivity DEF Load, TypeOK
<1>3. Sound(a.account, c, messages) /\ (HasReference(a) => c.urls[a.chat] # Absent)
  BY <1>1, <1>2, WithReferenceSound, WithReferenceFacts DEF HostInv
<1>4. pc'[w] = "save reference" /\ act' = act /\ st'[w] = c
  BY <1>1 DEF Load, Goto, TypeOK
<1> HIDE DEF c
<1>5. WorkerInv(w)'
  BY <1>1, <1>3, <1>4 DEF WorkerInv
<1>6. ASSUME NEW v \in Workers, v # w
      PROVE  pc'[v] = pc[v] /\ act'[v] = act[v] /\ st'[v] = st[v]
  BY <1>1, <1>6 DEF Load, Goto, TypeOK
<1>7. QED  BY <1>1, <1>5, <1>6, HostKept, WorkerInvKept

LEMMA SaveReferenceInv ==
    ASSUME InboundInv, NEW w \in Workers, SaveReference(w)
    PROVE  HostInv' /\ \A v \in Workers : WorkerInv(v)'
<1> DEFINE a == act[w]
<1>1. /\ TypeOK /\ HostInv /\ WorkerInv(w) /\ MessagesGrow
      /\ UNCHANGED messages /\ UNCHANGED acked /\ UNCHANGED act
      /\ pc[w] \in Loaded
  BY SameMessagesGrow DEF SaveReference, InboundInv, Loaded
<1>2. PICK b \in Touched(st[w], clock) :
        /\ Save(a.account, b)
        /\ st' = [st EXCEPT ![w] = b]
        /\ Goto(w, IF IsNew(b, a) THEN "ensure session" ELSE "reply")
  BY DEF SaveReference
<1>3. /\ \A acct \in Accounts : Sound(acct, store[acct], messages)'
      /\ SeenBounded'
      /\ Sound(a.account, b, messages)
  BY <1>1, <1>2, StoreSaved
<1>4. HostInv'
  BY <1>1, <1>3, AckedKept, OnlyTextKept DEF HostInv
<1>5. a \in Activities /\ a.id \in Ids /\ st[w] \in Blob /\ clock \in Nat
  BY <1>1, KeyOfActivity, ClockType DEF TypeOK, Loaded
<1>6. HasReference(a) => b.urls[a.chat] # Absent
  BY <1>1, <1>5, TouchedFacts DEF WorkerInv
<1>7. b.seen[a.id] # Absent => Created(DedupeKey(a))
  <2>1. b \in Blob
    BY <1>5, TouchedFacts
  <2>2. b.seen[a.id] # Absent => a.id \in Held(b.seen)
    BY <1>5, <2>1 DEF Held, Blob
  <2>3. QED  BY <1>3, <2>2 DEF Sound, Created, DedupeKey
<1>8. st'[w] = b /\ pc'[w] = IF IsNew(b, a) THEN "ensure session" ELSE "reply"
  BY <1>1, <1>2 DEF Goto, TypeOK
<1>9. WorkerInv(w)'
  BY <1>1, <1>3, <1>6, <1>7, <1>8 DEF WorkerInv, IsNew, Created
<1>10. ASSUME NEW v \in Workers, v # w
       PROVE  pc'[v] = pc[v] /\ act'[v] = act[v] /\ st'[v] = st[v]
  BY <1>1, <1>2, <1>10 DEF Goto, TypeOK
<1>11. QED  BY <1>1, <1>4, <1>9, <1>10, WorkerInvKept

LEMMA SaveSeenInv ==
    ASSUME InboundInv, NEW w \in Workers, SaveSeen(w)
    PROVE  HostInv' /\ \A v \in Workers : WorkerInv(v)'
<1> DEFINE a == act[w]
<1>1. /\ TypeOK /\ HostInv /\ WorkerInv(w) /\ MessagesGrow
      /\ UNCHANGED messages /\ UNCHANGED acked /\ UNCHANGED act
      /\ pc[w] = "save seen" /\ pc[w] \in Loaded /\ Goto(w, "reply")
  BY SameMessagesGrow DEF SaveSeen, InboundInv, Loaded
<1>2. PICK b \in Touched(st[w], clock) :
        Save(a.account, b) /\ st' = [st EXCEPT ![w] = b]
  BY DEF SaveSeen
<1>3. /\ \A acct \in Accounts : Sound(acct, store[acct], messages)'
      /\ SeenBounded'
      /\ Sound(a.account, b, messages)
  BY <1>1, <1>2, StoreSaved
<1>4. HostInv'
  BY <1>1, <1>3, AckedKept, OnlyTextKept DEF HostInv
<1>5. st[w] \in Blob /\ clock \in Nat
  BY <1>1, ClockType DEF TypeOK
<1>6. HasReference(a) => b.urls[a.chat] # Absent
  BY <1>1, <1>5, TouchedFacts DEF WorkerInv
<1>7. st'[w] = b /\ pc'[w] = "reply"
  BY <1>1, <1>2 DEF Goto, TypeOK
<1>8. WorkerInv(w)'
  BY <1>1, <1>3, <1>6, <1>7 DEF WorkerInv, Created
<1>9. ASSUME NEW v \in Workers, v # w
      PROVE  pc'[v] = pc[v] /\ act'[v] = act[v] /\ st'[v] = st[v]
  BY <1>1, <1>2, <1>9 DEF Goto, TypeOK
<1>10. QED  BY <1>1, <1>4, <1>8, <1>9, WorkerInvKept

LEMMA EnsureChatSessionInv ==
    ASSUME InboundInv, NEW w \in Workers, EnsureChatSession(w)
    PROVE  HostInv' /\ \A v \in Workers : WorkerInv(v)'
<1>1. /\ TypeOK /\ WorkerInv(w) /\ MessagesGrow
      /\ UNCHANGED hostVars /\ UNCHANGED messages /\ UNCHANGED act /\ UNCHANGED st
      /\ pc[w] = "ensure session" /\ Goto(w, "create")
  BY SameMessagesGrow DEF EnsureChatSession, hostVars, InboundInv
<1>2. pc'[w] = "create"
  BY <1>1 DEF Goto, TypeOK
<1>3. WorkerInv(w)'
  BY <1>1, <1>2 DEF WorkerInv, Loaded
<1>4. ASSUME NEW v \in Workers, v # w PROVE pc'[v] = pc[v]
  BY <1>1, <1>4 DEF Goto, TypeOK
<1>5. QED  BY <1>1, <1>3, <1>4, HostKept, WorkerInvKept

(* A message created for a text keeps OnlyTextCreated. *)
LEMMA OneTextMore ==
    ASSUME InboundInv, NEW a \in Activities, a.kind = "text",
           messages' = [messages EXCEPT ![DedupeKey(a)] = @ + 1]
    PROVE  /\ MessagesGrow
           /\ messages'[DedupeKey(a)] > 0
           /\ OnlyTextCreated'
<1>1. TypeOK /\ OnlyTextCreated /\ DedupeKey(a) \in Keys
  BY KeyOfActivity DEF InboundInv, HostInv
<1>2. MessagesGrow /\ messages'[DedupeKey(a)] > 0
  BY <1>1, OneMessageMore
<1>3. ASSUME NEW key \in Keys, Created(key)'
      PROVE  \E x \in Activities : x.kind = "text" /\ DedupeKey(x) = key
  <2>1. CASE key = DedupeKey(a)
    BY <2>1
  <2>2. CASE key # DedupeKey(a)
    <3>1. Created(key)
      BY <1>1, <1>3, <2>2 DEF Created, TypeOK
    <3>2. QED  BY <1>1, <3>1 DEF OnlyTextCreated
  <2>3. QED  BY <2>1, <2>2
<1>4. QED  BY <1>2, <1>3 DEF OnlyTextCreated

LEMMA CreateMessageInv ==
    ASSUME InboundInv, NEW w \in Workers, CreateMessage(w)
    PROVE  HostInv' /\ \A v \in Workers : WorkerInv(v)'
<1> DEFINE a == act[w]
           c == WithMessage(st[w], a, now[w])
<1>1. /\ TypeOK /\ WorkerInv(w) /\ pc[w] = "create" /\ pc[w] \in Loaded
      /\ UNCHANGED store /\ UNCHANGED acked /\ UNCHANGED act
      /\ messages' = [messages EXCEPT ![DedupeKey(a)] = @ + 1]
      /\ st' = [st EXCEPT ![w] = c]
      /\ Goto(w, "save seen")
  BY DEF CreateMessage, InboundInv, Loaded
<1>2. /\ a \in Activities /\ a.kind = "text" /\ a.account \in Accounts
      /\ st[w] \in Blob /\ now[w] \in Nat
  BY <1>1, KeyOfActivity DEF TypeOK, WorkerInv
<1>3. MessagesGrow /\ messages'[DedupeKey(a)] > 0 /\ OnlyTextCreated'
  BY <1>1, <1>2, OneTextMore
<1>4. HostInv'
  BY <1>1, <1>3, StoreKept, AckedKept DEF HostInv
<1>5. Sound(a.account, st[w], messages')
  BY <1>1, <1>2, <1>3, SoundMonotonic DEF TypeOK, MessagesGrow, WorkerInv
<1>6. HasReference(a) => st[w].urls[a.chat] # Absent
  BY <1>1 DEF WorkerInv
<1>7. Sound(a.account, c, messages')
  BY <1>2, <1>3, <1>5, <1>6, WithMessageSound
<1>8. c.urls = st[w].urls
  BY <1>2, WithMessageFacts
<1> HIDE DEF c
<1>9. st'[w] = c /\ pc'[w] = "save seen"
  BY <1>1 DEF Goto, TypeOK
<1>10. WorkerInv(w)'
  BY <1>1, <1>2, <1>3, <1>6, <1>7, <1>8, <1>9 DEF WorkerInv, Created
<1>11. ASSUME NEW v \in Workers, v # w
       PROVE  pc'[v] = pc[v] /\ act'[v] = act[v] /\ st'[v] = st[v]
  BY <1>1, <1>11 DEF Goto, TypeOK
<1>12. QED  BY <1>3, <1>4, <1>10, <1>11, WorkerInvKept

LEMMA ReplyInv ==
    ASSUME InboundInv, NEW w \in Workers, Reply(w)
    PROVE  HostInv' /\ \A v \in Workers : WorkerInv(v)'
<1>1. /\ TypeOK /\ WorkerInv(w) /\ MessagesGrow /\ pc[w] = "reply"
      /\ AckedImpliesCreated /\ acked' = acked \cup {act[w]}
      /\ UNCHANGED store /\ UNCHANGED messages /\ Drop({w})
  BY SameMessagesGrow DEF Reply, InboundInv, HostInv
<1>2. AckedImpliesCreated'
  BY <1>1 DEF AckedImpliesCreated, WorkerInv, Created
<1>3. HostInv'
  BY <1>1, <1>2, StoreKept, OnlyTextKept DEF HostInv
<1>4. QED  BY <1>1, <1>3, WorkerInvDrop

(* Every way a request can fail. *)
LEMMA FailureInv ==
    ASSUME InboundInv, NEW w \in Workers, Failure(w)
    PROVE  HostInv' /\ \A v \in Workers : WorkerInv(v)'
<1>1. TypeOK /\ WorkerInv(w) /\ UNCHANGED acked /\ Drop({w})
  BY DEF InboundInv, Failure, Fail, LoadFails, SaveFails, EnsureChatSessionFails,
         CreateMessageFails, ReplyLost
<1>2. CASE UNCHANGED store /\ UNCHANGED messages
  BY <1>1, <1>2, SameMessagesGrow, HostKept, WorkerInvDrop DEF hostVars
<1>3. CASE SaveFails(w)
  <2>1. UNCHANGED messages /\ MessagesGrow /\ pc[w] \in Loaded
    BY <1>1, <1>3, SameMessagesGrow DEF SaveFails, Loaded
  <2>2. (\A acct \in Accounts : Sound(acct, store[acct], messages)') /\ SeenBounded'
    BY <1>3, <2>1, StoreKept, StoreSaved DEF SaveFails
  <2>3. HostInv'
    BY <1>1, <2>1, <2>2, AckedKept, OnlyTextKept DEF HostInv
  <2>4. QED  BY <1>1, <2>1, <2>3, WorkerInvDrop
<1>4. CASE CreateMessageFails(w)
  <2>1. UNCHANGED store /\ pc[w] = "create" /\ act[w] \in Activities /\ act[w].kind = "text"
    BY <1>1, <1>4 DEF CreateMessageFails, TypeOK, WorkerInv
  <2>2. MessagesGrow /\ OnlyTextCreated'
    BY <1>1, <1>4, <2>1, OneTextMore, SameMessagesGrow, OnlyTextKept DEF CreateMessageFails
  <2>3. HostInv'
    BY <1>1, <2>1, <2>2, StoreKept, AckedKept DEF HostInv
  <2>4. QED  BY <1>1, <2>2, <2>3, WorkerInvDrop
<1>5. QED
  BY <1>2, <1>3, <1>4 DEF Failure, LoadFails, EnsureChatSessionFails, ReplyLost

LEMMA CrashInv ==
    ASSUME InboundInv, Crash
    PROVE  HostInv' /\ \A v \in Workers : WorkerInv(v)'
<1>1. UNCHANGED hostVars /\ MessagesGrow
  BY SameMessagesGrow DEF Crash, hostVars, InboundInv
<1>2. PICK W \in SUBSET Workers : Drop(W)
  BY DEF Crash
<1>3. QED  BY <1>1, <1>2, HostKept, WorkerInvDrop

LEMMA IdleInv ==
    ASSUME InboundInv, UNCHANGED hostVars, UNCHANGED workerVars
    PROVE  HostInv' /\ \A v \in Workers : WorkerInv(v)'
<1>1. MessagesGrow /\ UNCHANGED pc /\ UNCHANGED act /\ UNCHANGED st
  BY SameMessagesGrow DEF hostVars, workerVars, InboundInv
<1>2. QED  BY <1>1, HostKept, WorkerInvKept

LEMMA InvInit == ASSUME Init PROVE InboundInv
<1>1. TypeOK
  BY TypeInit
<1>2. \A acct \in Accounts : Sound(acct, store[acct], messages)
  BY EmptyBlobSound DEF Init
<1>3. SeenBounded
  <2>1. Cardinality({}) = 0
    BY FS_EmptySet
  <2>2. QED  BY <2>1, EmptyBlobFacts, TrackedAssumption DEF Init, SeenBounded
<1>4. AckedImpliesCreated /\ OnlyTextCreated
  BY DEF Init, AckedImpliesCreated, OnlyTextCreated, Created
<1>5. \A w \in Workers : WorkerInv(w)
  BY DEF Init, WorkerInv, Loaded
<1>6. QED  BY <1>1, <1>2, <1>3, <1>4, <1>5 DEF InboundInv, HostInv

LEMMA InvNext == ASSUME InboundInv, [Next]_vars PROVE InboundInv'
<1>1. TypeOK'
  BY TypeNext
<1>2. HostInv' /\ \A w \in Workers : WorkerInv(w)'
  <2>1. CASE \E w \in Workers : \E a \in Activities : Receive(w, a)
    BY <2>1, ReceiveInv
  <2>2. CASE \E w \in Workers : Progress(w)
    BY <2>2, LoadInv, SaveReferenceInv, EnsureChatSessionInv, CreateMessageInv,
       SaveSeenInv, ReplyInv DEF Progress
  <2>3. CASE \E w \in Workers : Failure(w)
    BY <2>3, FailureInv
  <2>4. CASE Crash
    BY <2>4, CrashInv
  <2>5. CASE Tick
    BY <2>5, IdleInv DEF Tick
  <2>6. CASE UNCHANGED vars
    BY <2>6, IdleInv DEF vars
  <2>7. QED  BY <2>1, <2>2, <2>3, <2>4, <2>5, <2>6 DEF Next
<1>3. QED  BY <1>1, <1>2 DEF InboundInv

(* The inductive invariant holds in every reachable state.                 *)
THEOREM InboundInvariant == Spec => []InboundInv
<1>1. Init => InboundInv
  BY InvInit
<1>2. InboundInv /\ [Next]_vars => InboundInv'
  BY InvNext
<1>3. QED  BY <1>1, <1>2, PTL DEF Spec

(* Every variable keeps its type: no request leaves a malformed document.  *)
THEOREM TypeCorrect == Spec => []TypeOK
<1>1. InboundInv => TypeOK
  BY DEF InboundInv
<1>2. QED  BY <1>1, InboundInvariant, PTL

(* An inbound text answered with 200 is a Beak message, however many       *)
(* requests overlap, fail, crash or are repeated.                          *)
THEOREM NoAckedTextLost == Spec => []AckedImpliesCreated
<1>1. InboundInv => AckedImpliesCreated
  BY DEF InboundInv, HostInv
<1>2. QED  BY <1>1, InboundInvariant, PTL

(* What a stored document remembers as processed really was created, so    *)
(* the dedupe check never drops a message Beak does not have.              *)
THEOREM SeenWereCreated == Spec => []SeenImpliesCreated
<1>1. InboundInv => SeenImpliesCreated
  BY DEF InboundInv, HostInv, Sound, SeenImpliesCreated, Created
<1>2. QED  BY <1>1, InboundInvariant, PTL

(* Only genuine inbound text becomes a Beak message.                       *)
THEOREM OnlyTextIsCreated == Spec => []OnlyTextCreated
<1>1. InboundInv => OnlyTextCreated
  BY DEF InboundInv, HostInv
<1>2. QED  BY <1>1, InboundInvariant, PTL

(* A stored document has the session and the reference of every message it *)
(* remembers: concurrent writers may lose a message's marks, never split   *)
(* them.                                                                   *)
THEOREM StoreIsConsistent == Spec => []StoreConsistent
<1>1. InboundInv => StoreConsistent
  BY DEF InboundInv, HostInv, Sound, StoreConsistent
<1>2. QED  BY <1>1, InboundInvariant, PTL

(* What is stored for an account stays within the limit of tracked keys.   *)
THEOREM SeenIsBounded == Spec => []SeenBounded
<1>1. InboundInv => SeenBounded
  BY DEF InboundInv, HostInv
<1>2. QED  BY <1>1, InboundInvariant, PTL

-----------------------------------------------------------------------------
(***************************************************************************)
(* Inbound implements Inbox: creating a message is a Create, the 200 an    *)
(* Ack, and everything else a stutter.                                     *)
(***************************************************************************)
LEMMA StutterStep ==
    ASSUME UNCHANGED messages, UNCHANGED acked
    PROVE  UNCHANGED Promise!inboxVars
BY DEF Promise!inboxVars, Created

LEMMA CreateStep ==
    ASSUME TypeOK, NEW a \in Activities, a.kind = "text", UNCHANGED acked,
           messages' = [messages EXCEPT ![DedupeKey(a)] = @ + 1]
    PROVE  Promise!Create(a)
<1>1. DedupeKey(a) \in Keys
  BY KeyOfActivity
<1>2. {key \in Keys : Created(key)}' = {key \in Keys : Created(key)} \cup {DedupeKey(a)}
  BY <1>1 DEF TypeOK, Created
<1>3. QED  BY <1>2 DEF Promise!Create

LEMMA AckStep ==
    ASSUME InboundInv, NEW w \in Workers, Reply(w)
    PROVE  act[w] \in Activities /\ Promise!Ack(act[w])
<1>1. /\ act[w] \in Activities /\ DedupeKey(act[w]) \in Keys
      /\ act[w].kind = "text" => Created(DedupeKey(act[w]))
      /\ acked' = acked \cup {act[w]} /\ UNCHANGED messages
  BY KeyOfActivity DEF Reply, InboundInv, TypeOK, WorkerInv
<1>2. {key \in Keys : Created(key)}' = {key \in Keys : Created(key)}
  BY <1>1 DEF Created
<1>3. QED  BY <1>1, <1>2 DEF Promise!Ack

LEMMA RefinementStep ==
    ASSUME InboundInv, [Next]_vars
    PROVE  [Promise!InboxNext]_Promise!inboxVars
<1>1. ASSUME NEW w \in Workers, CreateMessage(w) \/ CreateMessageFails(w)
      PROVE  [Promise!InboxNext]_Promise!inboxVars
  <2>1. act[w] \in Activities /\ act[w].kind = "text" /\ UNCHANGED acked
    BY <1>1 DEF CreateMessage, CreateMessageFails, Fail, InboundInv, TypeOK, WorkerInv
  <2>2. CASE UNCHANGED messages
    BY <2>1, <2>2, StutterStep
  <2>3. CASE messages' = [messages EXCEPT ![DedupeKey(act[w])] = @ + 1]
    BY <2>1, <2>3, CreateStep DEF InboundInv, Promise!InboxNext
  <2>4. QED  BY <1>1, <2>2, <2>3 DEF CreateMessage, CreateMessageFails
<1>2. ASSUME NEW w \in Workers, Reply(w) PROVE [Promise!InboxNext]_Promise!inboxVars
  BY <1>2, AckStep DEF Promise!InboxNext
<1>3. CASE UNCHANGED messages /\ UNCHANGED acked
  BY <1>3, StutterStep
<1>4. QED
  BY <1>1, <1>2, <1>3 DEF Next, Progress, Failure, Fail, Receive, Load, LoadFails,
     SaveReference, SaveFails, EnsureChatSession, EnsureChatSessionFails, SaveSeen,
     ReplyLost, Crash, Tick, vars, hostVars

(* The concurrent, failing implementation keeps Inbox's promise.           *)
THEOREM InboundImplementsInbox == Spec => RefinesInbox
<1>1. Init => Promise!InboxInit
  BY DEF Init, Promise!InboxInit, Created
<1>2. InboundInv /\ [Next]_vars => [Promise!InboxNext]_Promise!inboxVars
  BY RefinementStep
<1>3. QED
  BY <1>1, <1>2, InboundInvariant, PTL DEF Spec, RefinesInbox, Promise!InboxSafety
=============================================================================
