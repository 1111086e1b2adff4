--------------------------- MODULE ConnectorProofs ---------------------------
(***************************************************************************)
(* Theorems about Connector: Start and Send running beside the requests    *)
(* take nothing away from what InboundProofs shows of them, and messages   *)
(* are posted only where an activity of the same conversation said.        *)
(***************************************************************************)
EXTENDS Connector, InboundProofs

-----------------------------------------------------------------------------
(* Start's steps leave the inbound invariant alone. *)

(* A step that changes the store alone, and leaves it sound and bounded. *)
LEMMA InvOfStoreStep ==
    ASSUME InboundInv, NEW acct \in Accounts, NEW b \in Blob, Save(acct, b),
           Sound(acct, b, messages),
           Cardinality(Held(b.seen)) <= MaxTrackedStateKeys,
           UNCHANGED <<messages, acked>>, UNCHANGED workerVars,
           UNCHANGED <<clock, repeats>>, faults' \in 0..MaxFaults
    PROVE  InboundInv'
<1>1. /\ TypeOK /\ HostInv /\ MessagesGrow
      /\ UNCHANGED messages /\ UNCHANGED acked /\ UNCHANGED pc /\ UNCHANGED act /\ UNCHANGED st
  BY SameMessagesGrow DEF InboundInv, workerVars
<1>2. store' = [store EXCEPT ![acct] = b] /\ store \in [Accounts -> Blob]
  BY <1>1 DEF Save, TypeOK
<1>3. TypeOK'
  BY <1>1, <1>2 DEF TypeOK, workerVars
<1>4. ASSUME NEW x \in Accounts
      PROVE  /\ Sound(x, store'[x], messages')
             /\ Cardinality(Held(store'[x].seen)) <= MaxTrackedStateKeys
  <2>1. CASE x = acct
    BY <1>1, <1>2, <2>1
  <2>2. CASE x # acct
    BY <1>1, <1>2, <2>2 DEF HostInv, SeenBounded
  <2>3. QED  BY <2>1, <2>2
<1>5. HostInv'
  BY <1>1, <1>4, AckedKept, OnlyTextKept DEF HostInv, SeenBounded
<1>6. \A w \in Workers : WorkerInv(w)'
  BY <1>1, WorkerInvKept
<1>7. QED  BY <1>3, <1>5, <1>6 DEF InboundInv

(* A step that spends at most a fault. *)
LEMMA InvOfFault ==
    ASSUME InboundInv, UNCHANGED hostVars, UNCHANGED workerVars,
           UNCHANGED <<clock, repeats>>, faults' \in 0..MaxFaults
    PROVE  InboundInv'
<1>1. HostInv' /\ \A w \in Workers : WorkerInv(w)'
  BY IdleInv
<1>2. TypeOK'
  BY DEF InboundInv, TypeOK, hostVars, workerVars
<1>3. QED  BY <1>1, <1>2 DEF InboundInv

LEMMA Counted ==
    ASSUME NEW max \in Nat, NEW n \in 0..max, n < max PROVE n + 1 \in 0..max
OBVIOUS

LEMMA FaultSpent ==
    ASSUME TypeOK, faults < MaxFaults, faults' = faults + 1 PROVE faults' \in 0..MaxFaults
BY InboundAssumption DEF TypeOK

(* The document Start saves. *)
LEMMA StartSaves ==
    ASSUME InboundInv, StartInv, startPc = "save", NEW b \in Touched(startSt, clock)
    PROVE  /\ startAcct \in Accounts
           /\ b \in Blob
           /\ Sound(startAcct, b, messages)
           /\ UrlsGiven(startAcct, b)
           /\ Cardinality(Held(b.seen)) <= MaxTrackedStateKeys
<1>1. startAcct \in Accounts /\ startSt \in Blob /\ clock \in Nat
  BY ClockType DEF InboundInv, StartInv, StartTypeOK
<1>2. b \in Blob /\ b.urls = startSt.urls /\ Cardinality(Held(b.seen)) <= MaxTrackedStateKeys
  BY <1>1, TouchedFacts
<1>3. Sound(startAcct, b, messages)
  BY <1>1, TouchedSound DEF StartInv
<1>4. QED  BY <1>1, <1>2, <1>3 DEF StartInv, UrlsGiven

LEMMA StartKeepsInbound == ASSUME InboundInv, StartInv, Start PROVE InboundInv'
<1>1. CASE EnsureChannel \/ EnsureChannelLinkSession \/ LoadLink \/ StartDone
  <2>1. UNCHANGED vars
    BY <1>1 DEF EnsureChannel, EnsureChannelLinkSession, LoadLink, StartDone
  <2>2. QED  BY <2>1, InvNext
<1>2. CASE SaveLink
  <2>1. PICK b \in Touched(startSt, clock) : Save(startAcct, b)
    BY <1>2 DEF SaveLink
  <2>2. /\ UNCHANGED <<messages, acked>> /\ UNCHANGED workerVars
        /\ UNCHANGED <<clock, repeats>> /\ faults' \in 0..MaxFaults
    BY <1>2 DEF SaveLink, envVars, InboundInv, TypeOK
  <2>3. QED  BY <1>2, <2>1, <2>2, StartSaves, InvOfStoreStep DEF SaveLink
<1>3. CASE StartFails
  <2>1. /\ UNCHANGED <<messages, acked>> /\ UNCHANGED workerVars
        /\ UNCHANGED <<clock, repeats>> /\ faults' \in 0..MaxFaults
    BY <1>3, FaultSpent DEF StartFails, InboundInv
  <2>2. CASE UNCHANGED store
    BY <2>1, <2>2, InvOfFault DEF hostVars
  <2>3. CASE startPc = "save" /\ \E b \in Touched(startSt, clock) : Save(startAcct, b)
    BY <2>1, <2>3, StartSaves, InvOfStoreStep
  <2>4. QED  BY <1>3, <2>2, <2>3 DEF StartFails
<1>4. QED  BY <1>1, <1>2, <1>3 DEF Start

LEMMA SendKeepsInbound == ASSUME InboundInv, Send PROVE InboundInv'
<1>1. CASE UNCHANGED vars
  BY <1>1, InvNext
<1>2. CASE SendFails
  <2>1. /\ UNCHANGED hostVars /\ UNCHANGED workerVars
        /\ UNCHANGED <<clock, repeats>> /\ faults' \in 0..MaxFaults
    BY <1>2, FaultSpent DEF SendFails, InboundInv, TypeOK
  <2>2. QED  BY <2>1, InvOfFault
<1>3. QED  BY <1>1, <1>2 DEF Send, SendCalled, SendRefused, SendLoad, SendPost

LEMMA InboundInvNext ==
    ASSUME InboundInv, StartInv, [ConnectorNext]_connectorVars PROVE InboundInv'
<1>1. CASE Next \/ UNCHANGED vars
  BY <1>1, InvNext
<1>2. QED
  BY <1>1, StartKeepsInbound, SendKeepsInbound DEF ConnectorNext, connectorVars

-----------------------------------------------------------------------------
(* Where the URLs of a document come from. *)

LEMMA UrlsOfEmpty == ASSUME NEW acct PROVE UrlsGiven(acct, EmptyBlob)
BY DEF UrlsGiven, EmptyBlob

LEMMA UrlsWithReference ==
    ASSUME NEW b \in Blob, NEW a \in Activities, UrlsGiven(a.account, b)
    PROVE  UrlsGiven(a.account, WithReference(b, a))
<1>1. CASE HasReference(a)
  <2>1. a.chat \in Chats
    BY <1>1, InboundAssumption DEF HasReference, Activity
  <2>2. WithReference(b, a).urls = [b.urls EXCEPT ![a.chat] = a.url]
    BY <1>1 DEF WithReference, Blob
  <2>3. QED  BY <2>1, <2>2 DEF UrlsGiven, Given, Blob
<1>2. CASE ~HasReference(a)
  BY <1>2 DEF WithReference
<1>3. QED  BY <1>1, <1>2

LEMMA UrlsTouched ==
    ASSUME NEW acct, NEW b \in Blob, NEW t \in Nat, NEW c \in Touched(b, t),
           UrlsGiven(acct, b)
    PROVE  UrlsGiven(acct, c)
BY TouchedFacts DEF UrlsGiven

CopyUrls(w) == pc[w] \in Loaded => UrlsGiven(act[w].account, st[w])

LEMMA CopyUrlsKept ==
    ASSUME NEW v \in Workers, CopyUrls(v), pc[v] \in Loaded \/ pc'[v] \notin Loaded,
           pc'[v] \in Loaded => act'[v] = act[v] /\ st'[v] = st[v]
    PROVE  CopyUrls(v)'
BY DEF CopyUrls

LEMMA StoreUrlsSaved ==
    ASSUME TypeOK, UrlsInv, NEW acct \in Accounts, NEW b, UrlsGiven(acct, b), Save(acct, b)
    PROVE  \A x \in Accounts : UrlsGiven(x, store'[x])
BY DEF TypeOK, UrlsInv, Save

(* The URLs after one inbound step. *)
LEMMA InboundKeepsUrls ==
    ASSUME InboundInv, UrlsInv, Next
    PROVE  /\ \A x \in Accounts : UrlsGiven(x, store'[x])
           /\ \A v \in Workers : CopyUrls(v)'
<1> USE DEF UrlsInv
<1>1. TypeOK /\ clock \in Nat /\ \A v \in Workers : CopyUrls(v)
  BY ClockType DEF InboundInv, CopyUrls
<1>2. ASSUME NEW w \in Workers, pc[w] \in Loaded
      PROVE  /\ act[w] \in Activities /\ act[w].account \in Accounts
             /\ st[w] \in Blob
             /\ UrlsGiven(act[w].account, st[w])
             /\ \A b \in Touched(st[w], clock) : UrlsGiven(act[w].account, b)
  <2>1. act[w] \in Activities /\ act[w].account \in Accounts /\ st[w] \in Blob
    BY <1>1, <1>2, KeyOfActivity DEF TypeOK, Loaded
  <2>2. QED  BY <1>1, <1>2, <2>1, UrlsTouched DEF CopyUrls
<1>3. ASSUME NEW W, Drop(W), NEW v \in Workers PROVE CopyUrls(v)'
  <2>1. v \in W => pc'[v] = "idle"
    BY <1>3 DEF Drop
  <2>2. v \notin W => pc'[v] = pc[v] /\ act'[v] = act[v] /\ st'[v] = st[v]
    BY <1>3 DEF Drop
  <2>3. QED  BY <1>1, <2>1, <2>2 DEF CopyUrls, Loaded
<1>4. ASSUME NEW w \in Workers, NEW a \in Activities, Receive(w, a)
      PROVE  UNCHANGED store /\ \A v \in Workers : CopyUrls(v)'
  <2>1. UNCHANGED store /\ UNCHANGED st
    BY <1>4 DEF Receive, hostVars
  <2>2. ASSUME NEW v \in Workers PROVE CopyUrls(v)'
    <3>1. CASE v = w
      BY <1>1, <1>4, <3>1 DEF Receive, Goto, TypeOK, CopyUrls, Loaded
    <3>2. CASE v # w
      BY <1>1, <1>4, <2>1, <3>2 DEF Receive, Goto, TypeOK, CopyUrls
    <3>3. QED  BY <3>1, <3>2
  <2>3. QED  BY <2>1, <2>2
<1>5. ASSUME NEW w \in Workers, Load(w)
      PROVE  UNCHANGED store /\ \A v \in Workers : CopyUrls(v)'
  <2> DEFINE c == WithReference(store[act[w].account], act[w])
  <2>1. UNCHANGED store /\ UNCHANGED act
    BY <1>5 DEF Load, hostVars
  <2>2. act[w] \in Activities /\ act[w].account \in Accounts
    BY <1>1, <1>5, KeyOfActivity DEF Load, TypeOK
  <2>3. UrlsGiven(act[w].account, c)
    BY <1>1, <2>2, UrlsWithReference DEF TypeOK
  <2>4. st' = [st EXCEPT ![w] = c] /\ pc' = [pc EXCEPT ![w] = "save reference"]
    BY <1>5 DEF Load, Goto
  <2> HIDE DEF c
  <2>5. ASSUME NEW v \in Workers PROVE CopyUrls(v)'
    <3>1. CASE v = w
      BY <1>1, <2>1, <2>3, <2>4, <3>1 DEF TypeOK, CopyUrls
    <3>2. CASE v # w
      BY <1>1, <2>1, <2>4, <3>2 DEF TypeOK, CopyUrls
    <3>3. QED  BY <3>1, <3>2
  <2>6. QED  BY <2>1, <2>5
<1>6. ASSUME NEW w \in Workers, pc[w] \in Loaded, NEW label, Goto(w, label), UNCHANGED act,
             NEW b, st' = [st EXCEPT ![w] = b], UrlsGiven(act[w].account, b)
      PROVE  \A v \in Workers : CopyUrls(v)'
  <2>1. ASSUME NEW v \in Workers PROVE CopyUrls(v)'
    <3>1. CASE v = w
      BY <1>1, <1>6, <3>1 DEF TypeOK, CopyUrls
    <3>2. CASE v # w
      BY <1>1, <1>6, <3>2 DEF TypeOK, CopyUrls, Goto
    <3>3. QED  BY <3>1, <3>2
  <2>2. QED  BY <2>1
<1>7. ASSUME NEW w \in Workers, SaveReference(w) \/ SaveSeen(w)
      PROVE  /\ \A x \in Accounts : UrlsGiven(x, store'[x])
             /\ \A v \in Workers : CopyUrls(v)'
  <2>1. pc[w] \in Loaded /\ UNCHANGED act
    BY <1>7 DEF SaveReference, SaveSeen, Loaded
  <2>2. PICK b \in Touched(st[w], clock) :
          /\ Save(act[w].account, b)
          /\ st' = [st EXCEPT ![w] = b]
          /\ \E label : Goto(w, label)
    BY <1>7 DEF SaveReference, SaveSeen
  <2>3. act[w].account \in Accounts /\ UrlsGiven(act[w].account, b)
    BY <1>2, <2>1
  <2>4. QED  BY <1>1, <1>6, <2>1, <2>2, <2>3, StoreUrlsSaved
<1>8. ASSUME NEW w \in Workers, EnsureChatSession(w) \/ CreateMessage(w)
      PROVE  UNCHANGED store /\ \A v \in Workers : CopyUrls(v)'
  <2>1. /\ pc[w] \in Loaded /\ UNCHANGED act /\ UNCHANGED store
        /\ \E label : Goto(w, label)
    BY <1>8 DEF EnsureChatSession, CreateMessage, Loaded, hostVars
  <2>2. CASE UNCHANGED st
    <3>1. st' = [st EXCEPT ![w] = st[w]]
      BY <1>1, <2>2 DEF TypeOK
    <3>2. QED  BY <1>2, <1>6, <2>1, <3>1
  <2>3. CASE CreateMessage(w)
    <3>1. st' = [st EXCEPT ![w] = WithMessage(st[w], act[w], now[w])]
      BY <2>3 DEF CreateMessage
    <3>2. WithMessage(st[w], act[w], now[w]).urls = st[w].urls
      <4>1. act[w].kind = "text" /\ now[w] \in Nat
        BY <1>1, <2>3 DEF CreateMessage, InboundInv, WorkerInv, TypeOK
      <4>2. QED  BY <1>2, <2>1, <4>1, WithMessageFacts
    <3>3. UrlsGiven(act[w].account, WithMessage(st[w], act[w], now[w]))
      BY <1>2, <2>1, <3>2 DEF UrlsGiven
    <3>4. QED  BY <1>6, <2>1, <3>1, <3>3
  <2>4. QED  BY <1>8, <2>1, <2>2, <2>3 DEF EnsureChatSession
<1>9. ASSUME NEW w \in Workers, Reply(w) \/ Failure(w)
      PROVE  /\ \A x \in Accounts : UrlsGiven(x, store'[x])
             /\ \A v \in Workers : CopyUrls(v)'
  <2>1. Drop({w})
    BY <1>9 DEF Reply, Failure, Fail, LoadFails, SaveFails, EnsureChatSessionFails,
                CreateMessageFails, ReplyLost
  <2>2. CASE UNCHANGED store
    BY <1>3, <2>1, <2>2
  <2>3. CASE SaveFails(w)
    <3>1. pc[w] \in Loaded
      BY <2>3 DEF SaveFails, Loaded
    <3>2. \A x \in Accounts : UrlsGiven(x, store'[x])
      BY <1>1, <1>2, <2>2, <2>3, <3>1, StoreUrlsSaved DEF SaveFails
    <3>3. QED  BY <1>3, <2>1, <3>2
  <2>4. QED
    BY <1>9, <2>2, <2>3 DEF Reply, Failure, LoadFails, EnsureChatSessionFails,
                            CreateMessageFails, ReplyLost
<1>10. CASE Crash
  <2>1. PICK W : Drop(W)
    BY <1>10 DEF Crash
  <2>2. UNCHANGED store
    BY <1>10 DEF Crash, hostVars
  <2>3. QED  BY <1>3, <2>1, <2>2
<1>11. CASE Tick
  BY <1>1, <1>11 DEF Tick, hostVars, workerVars, CopyUrls
<1>12. QED
  BY <1>4, <1>5, <1>7, <1>8, <1>9, <1>10, <1>11 DEF Next, Progress

-----------------------------------------------------------------------------
(* The invariants of Start and Send. *)

LEMMA StartInvKept ==
    ASSUME InboundInv, StartInv, MessagesGrow, UNCHANGED startVars, UNCHANGED sendVars
    PROVE  StartInv'
<1>1. StartTypeOK'
  BY DEF StartInv, StartTypeOK, startVars, sendVars
<1>2. ASSUME startPc = "save"
      PROVE  Sound(startAcct, startSt, messages') /\ UrlsGiven(startAcct, startSt)
  <2>1. startAcct \in Accounts /\ startSt \in Blob
    BY <1>2 DEF StartInv, StartTypeOK
  <2>2. QED
    BY <1>2, <2>1, SoundMonotonic DEF StartInv, InboundInv, TypeOK, MessagesGrow
<1>3. QED  BY <1>1, <1>2 DEF StartInv, startVars

LEMMA NextGrows == ASSUME InboundInv, Next PROVE MessagesGrow
<1>1. ASSUME NEW w \in Workers, CreateMessage(w) \/ CreateMessageFails(w) PROVE MessagesGrow
  <2>1. act[w] \in Activities
    BY <1>1 DEF CreateMessage, CreateMessageFails, InboundInv, TypeOK
  <2>2. \/ UNCHANGED messages
        \/ messages' = [messages EXCEPT ![DedupeKey(act[w])] = @ + 1]
    BY <1>1 DEF CreateMessage, CreateMessageFails
  <2>3. QED
    BY <2>1, <2>2, KeyOfActivity, OneMessageMore, SameMessagesGrow DEF InboundInv
<1>2. CASE UNCHANGED messages
  BY <1>2, SameMessagesGrow DEF InboundInv
<1>3. QED
  BY <1>1, <1>2 DEF Next, Progress, Failure, Receive, Load, LoadFails, SaveReference,
     SaveFails, EnsureChatSession, EnsureChatSessionFails, SaveSeen, Reply, ReplyLost,
     Crash, Tick, hostVars

LEMMA StartKeepsStart == ASSUME InboundInv, StartInv, UrlsInv, Start PROVE StartInv'
<1>1. EmptyBlob \in Blob
  BY EmptyBlobFacts
<1>2. UNCHANGED messages /\ UNCHANGED sendVars
  BY DEF Start, EnsureChannel, EnsureChannelLinkSession, LoadLink, SaveLink, StartDone,
     StartFails, vars, hostVars
<1>3. StartTypeOK
  BY DEF StartInv
<1>4. CASE EnsureChannel
  <2>1. starts' \in 0..MaxStarts
    <3>1. starts \in 0..MaxStarts /\ starts < MaxStarts /\ starts' = starts + 1
      BY <1>3, <1>4 DEF EnsureChannel, StartTypeOK
    <3>2. QED  BY <3>1, Counted, ConnectorAssumption
  <2>2. QED
    BY <1>2, <1>3, <1>4, <2>1 DEF EnsureChannel, StartInv, StartTypeOK, sendVars
<1>5. CASE EnsureChannelLinkSession
  BY <1>2, <1>3, <1>5 DEF EnsureChannelLinkSession, StartInv, StartTypeOK, sendVars
<1>6. CASE LoadLink
  <2> DEFINE b == store[startAcct]
             c == [b EXCEPT !.linked = TRUE]
  <2>1. startAcct \in Accounts /\ b \in Blob
    BY <1>3, <1>6 DEF LoadLink, StartTypeOK, InboundInv, TypeOK
  <2>2. c \in Blob /\ c.seen = b.seen /\ c.sessions = b.sessions /\ c.urls = b.urls
    BY <2>1 DEF Blob
  <2>3. Sound(startAcct, c, messages)
    BY <2>1, <2>2, SoundKept DEF InboundInv, HostInv
  <2>4. UrlsGiven(startAcct, c)
    BY <2>1, <2>2 DEF UrlsInv, UrlsGiven
  <2>5. CASE b.linked
    BY <1>2, <1>3, <1>6, <2>5 DEF LoadLink, StartInv, StartTypeOK, sendVars
  <2>6. CASE ~b.linked
    <3>1. startSt' = c /\ startPc' = "save" /\ UNCHANGED <<todo, startAcct, started, starts>>
      BY <1>6, <2>6 DEF LoadLink
    <3> HIDE DEF c
    <3>2. StartTypeOK'
      BY <1>2, <1>3, <2>1, <2>2, <3>1 DEF StartTypeOK, sendVars
    <3>3. QED  BY <1>2, <2>3, <2>4, <3>1, <3>2 DEF StartInv
  <2>7. QED  BY <2>5, <2>6
<1>7. CASE SaveLink
  BY <1>1, <1>2, <1>3, <1>7 DEF SaveLink, StartInv, StartTypeOK, sendVars
<1>8. CASE StartDone
  BY <1>1, <1>2, <1>3, <1>8 DEF StartDone, StartReturns, StartInv, StartTypeOK, sendVars
<1>9. CASE StartFails
  BY <1>1, <1>2, <1>3, <1>9 DEF StartFails, StartReturns, StartInv, StartTypeOK, sendVars
<1>10. QED
  BY <1>4, <1>5, <1>6, <1>7, <1>8, <1>9 DEF Start

LEMMA SendIsMessage ==
    ASSUME TypeOK, UrlsInv, NEW acct \in Accounts, NEW chat \in Chats,
           store[acct].urls[chat] # Absent
    PROVE  /\ [account |-> acct, chat |-> chat, url |-> store[acct].urls[chat]] \in Message
           /\ Given(acct, chat, store[acct].urls[chat])
BY DEF TypeOK, UrlsInv, UrlsGiven, Blob, Message

LEMMA SendKeepsStart ==
    ASSUME InboundInv, StartInv, UrlsInv, PostedWhereGiven, Send
    PROVE  /\ StartInv' /\ PostedWhereGiven' /\ UNCHANGED <<store, messages, pc, act, st>>
           /\ sending' # Absent => Given(sending'.account, sending'.chat, sending'.url)
<1>1. UNCHANGED <<store, messages, pc, act, st>> /\ UNCHANGED startVars
  BY DEF Send, SendRefused, SendLoad, SendPost, SendFails, SendCalled, vars, hostVars,
     workerVars
<1>2. StartTypeOK /\ TypeOK
  BY DEF StartInv, InboundInv
<1>3. sends' \in 0..MaxSends
  <2>1. sends \in 0..MaxSends
    BY <1>2 DEF StartTypeOK
  <2>2. sends' = sends \/ (sends < MaxSends /\ sends' = sends + 1)
    BY DEF Send, SendRefused, SendLoad, SendPost, SendFails, SendCalled
  <2>3. QED  BY <2>1, <2>2, Counted, ConnectorAssumption
<1>4. /\ sending' \in Message \cup {Absent}
      /\ sending' # Absent => Given(sending'.account, sending'.chat, sending'.url)
  <2>1. ASSUME NEW acct \in Accounts, NEW chat \in Chats, SendLoad(acct, chat)
        PROVE  /\ sending' \in Message
               /\ Given(sending'.account, sending'.chat, sending'.url)
    BY <1>2, <2>1, SendIsMessage DEF SendLoad
  <2>2. CASE UNCHANGED sending
    BY <1>2, <2>2 DEF StartTypeOK, UrlsInv
  <2>3. CASE sending' = Absent
    BY <2>3
  <2>4. QED
    BY <2>1, <2>2, <2>3 DEF Send, SendRefused, SendPost, SendFails
<1>5. posted' \subseteq Message /\ PostedWhereGiven'
  BY <1>2
  DEF Send, SendRefused, SendLoad, SendPost, SendFails, SendCalled, StartTypeOK, UrlsInv,
      PostedWhereGiven
<1>6. StartInv'
  BY <1>1, <1>2, <1>3, <1>4, <1>5 DEF StartInv, StartTypeOK, startVars
<1>7. QED  BY <1>1, <1>4, <1>5, <1>6

LEMMA StartKeepsUrls ==
    ASSUME InboundInv, StartInv, UrlsInv, Start
    PROVE  (\A x \in Accounts : UrlsGiven(x, store'[x])) /\ UNCHANGED <<pc, act, st>>
<1>1. UNCHANGED <<pc, act, st>>
  BY DEF Start, EnsureChannel, EnsureChannelLinkSession, LoadLink, SaveLink, StartDone,
     StartFails, vars, workerVars
<1>2. CASE UNCHANGED store
  BY <1>1, <1>2 DEF UrlsInv
<1>3. CASE startPc = "save" /\ \E b \in Touched(startSt, clock) : Save(startAcct, b)
  BY <1>1, <1>3, StartSaves, StoreUrlsSaved DEF InboundInv
<1>4. QED
  BY <1>2, <1>3 DEF Start, EnsureChannel, EnsureChannelLinkSession, LoadLink, SaveLink,
     StartDone, StartFails, vars, hostVars

LEMMA ConnectorInvInit == ASSUME ConnectorInit PROVE ConnectorInv
<1>1. InboundInv
  BY InvInit DEF ConnectorInit
<1>2. StartTypeOK
  <2>1. 0 \in 0..MaxStarts /\ 0 \in 0..MaxSends
    BY ConnectorAssumption
  <2>2. QED  BY <2>1, EmptyBlobFacts DEF ConnectorInit, StartTypeOK
<1>3. UrlsInv
  BY UrlsOfEmpty DEF ConnectorInit, Init, UrlsInv, Loaded
<1>4. QED
  BY <1>1, <1>2, <1>3 DEF ConnectorInv, StartInv, ConnectorInit, PostedWhereGiven

LEMMA ConnectorInvNext ==
    ASSUME ConnectorInv, [ConnectorNext]_connectorVars PROVE ConnectorInv'
<1> USE DEF ConnectorInv
<1>1. InboundInv'
  BY InboundInvNext
<1>2. CASE Next /\ UNCHANGED <<startVars, sendVars>>
  <2>1. UNCHANGED startVars /\ UNCHANGED sendVars /\ UNCHANGED sending /\ UNCHANGED posted
    BY <1>2 DEF sendVars
  <2>2. StartInv'
    BY <1>2, <2>1, NextGrows, StartInvKept
  <2>3. UrlsInv'
    BY <1>2, <2>1, InboundKeepsUrls DEF UrlsInv, CopyUrls
  <2>4. PostedWhereGiven'
    BY <2>1 DEF PostedWhereGiven
  <2>5. QED  BY <1>1, <2>2, <2>3, <2>4
<1>3. CASE Start
  <2>1. UNCHANGED sending /\ UNCHANGED posted
    BY <1>3 DEF Start, EnsureChannel, EnsureChannelLinkSession, LoadLink, SaveLink,
       StartDone, StartFails, sendVars
  <2>2. UrlsInv'
    BY <1>3, <2>1, StartKeepsUrls DEF UrlsInv
  <2>3. QED  BY <1>1, <1>3, <2>1, <2>2, StartKeepsStart DEF PostedWhereGiven
<1>4. CASE Send
  <2>1. UrlsInv'
    BY <1>4, SendKeepsStart DEF UrlsInv
  <2>2. QED  BY <1>1, <1>4, <2>1, SendKeepsStart
<1>5. CASE UNCHANGED connectorVars
  <2>1. UNCHANGED vars /\ UNCHANGED startVars /\ UNCHANGED sendVars
    BY <1>5 DEF connectorVars
  <2>2. UNCHANGED <<store, messages, pc, act, st, sending, posted>>
    BY <2>1 DEF vars, hostVars, workerVars, sendVars
  <2>3. StartInv'
    BY <2>1, <2>2, StartInvKept, SameMessagesGrow DEF InboundInv
  <2>4. QED  BY <1>1, <2>2, <2>3 DEF UrlsInv, PostedWhereGiven
<1>6. QED  BY <1>2, <1>3, <1>4, <1>5 DEF ConnectorNext

(* The invariant of requests, Start and Send together.                     *)
THEOREM ConnectorInvariant == ConnectorSpec => []ConnectorInv
<1>1. ConnectorInit => ConnectorInv
  BY ConnectorInvInit
<1>2. ConnectorInv /\ [ConnectorNext]_connectorVars => ConnectorInv'
  BY ConnectorInvNext
<1>3. QED  BY <1>1, <1>2, PTL DEF ConnectorSpec

(* Messages are posted only to allowed hosts that an activity of the same  *)
(* account and conversation named.                                         *)
THEOREM PostsGoWhereGiven == ConnectorSpec => []PostedWhereGiven
<1>1. ConnectorInv => PostedWhereGiven
  BY DEF ConnectorInv
<1>2. QED  BY <1>1, ConnectorInvariant, PTL

(* Start and Send beside them, requests still lose no acknowledged text.   *)
THEOREM NoAckedTextLostByStart == ConnectorSpec => []AckedImpliesCreated
<1>1. ConnectorInv => AckedImpliesCreated
  BY DEF ConnectorInv, InboundInv, HostInv
<1>2. QED  BY <1>1, ConnectorInvariant, PTL

(* The whole connector keeps the promise of Inbox.                         *)
THEOREM ConnectorImplementsInbox == ConnectorSpec => RefinesInbox
<1>1. ConnectorInit => Promise!InboxInit
  BY DEF ConnectorInit, Init, Promise!InboxInit, Created
<1>2. ConnectorInv /\ [ConnectorNext]_connectorVars
        => [Promise!InboxNext]_Promise!inboxVars
  <2>1. ASSUME ConnectorInv, Next \/ UNCHANGED vars
        PROVE  [Promise!InboxNext]_Promise!inboxVars
    BY <2>1, RefinementStep DEF ConnectorInv
  <2>2. ASSUME Start \/ Send PROVE [Promise!InboxNext]_Promise!inboxVars
    <3>1. UNCHANGED messages /\ UNCHANGED acked
      BY <2>2 DEF Start, EnsureChannel, EnsureChannelLinkSession, LoadLink, SaveLink,
         StartDone, StartFails, Send, SendRefused, SendLoad, SendPost, SendFails,
         SendCalled, vars, hostVars
    <3>2. QED  BY <3>1, StutterStep
  <2>3. QED  BY <2>1, <2>2 DEF ConnectorNext, connectorVars
<1>3. QED
  BY <1>1, <1>2, ConnectorInvariant, PTL DEF ConnectorSpec, RefinesInbox, Promise!InboxSafety

-----------------------------------------------------------------------------
(***************************************************************************)
(* One call at a time (SerialSpec).                                        *)
(***************************************************************************)

(* A copy that has all that b has, and may have more. *)
Extends(copy, b) ==
    /\ b.linked => copy.linked
    /\ \A chat \in Chats : b.urls[chat] # Absent => copy.urls[chat] # Absent
    /\ \A i \in Held(b.seen) : copy.seen[i] = b.seen[i]

LEMMA WithReferenceExtends ==
    ASSUME NEW b \in Blob, NEW a \in Activities PROVE Extends(WithReference(b, a), b)
<1>1. WithReference(b, a).linked = b.linked
  BY DEF WithReference, Blob
<1>2. QED  BY <1>1, WithReferenceFacts DEF Extends

LEMMA WithMessageExtends ==
    ASSUME NEW b \in Blob, NEW a \in Activities, NEW t \in Nat, a.kind = "text",
           b.seen[a.id] = Absent
    PROVE  Extends(WithMessage(b, a, t), b)
<1>1. /\ WithMessage(b, a, t).seen = [b.seen EXCEPT ![a.id] = t]
      /\ WithMessage(b, a, t).linked = b.linked
  BY DEF WithMessage, Blob
<1>2. \A i \in Held(b.seen) : WithMessage(b, a, t).seen[i] = b.seen[i]
  BY <1>1 DEF Held
<1>3. QED  BY <1>1, <1>2, WithMessageFacts DEF Extends

(* A worker between its load and its reply. *)
LEMMA WorkerTypes ==
    ASSUME InboundInv, NEW w \in Workers, pc[w] \in Loaded
    PROVE  /\ act[w] \in Activities /\ act[w].account \in Accounts
           /\ st[w] \in Blob /\ store[act[w].account] \in Blob
           /\ now[w] \in Nat /\ clock \in Nat
BY KeyOfActivity, ClockType DEF InboundInv, TypeOK, Loaded

(* What a request is about to save has all that is stored. *)
LEMMA CopyExtends ==
    ASSUME InboundInv, NEW w \in Workers, CopyCurrent(w),
           pc[w] \in {"save reference", "save seen"}
    PROVE  Extends(st[w], store[act[w].account])
<1>1. /\ act[w] \in Activities
      /\ store[act[w].account] \in Blob
      /\ now[w] \in Nat
  BY WorkerTypes DEF Loaded
<1>2. CASE pc[w] = "save reference"
  BY <1>1, <1>2, WithReferenceExtends DEF CopyCurrent
<1>3. CASE pc[w] = "save seen"
  <2>1. act[w].kind = "text"
    BY <1>3 DEF InboundInv, WorkerInv
  <2>2. QED  BY <1>1, <1>3, <2>1, WithMessageExtends DEF CopyCurrent
<1>4. QED  BY <1>2, <1>3

LEMMA StartCopyExtends ==
    ASSUME InboundInv, StartInv, StartCurrent, startPc = "save"
    PROVE  Extends(startSt, store[startAcct])
<1>1. startAcct \in Accounts /\ store[startAcct] \in Blob
  BY DEF StartInv, StartTypeOK, InboundInv, TypeOK
<1>2. startSt = [store[startAcct] EXCEPT !.linked = TRUE]
  BY DEF StartCurrent
<1>3. QED  BY <1>1, <1>2 DEF Extends, Blob

(* Whatever writes the store saves a copy that has all that is stored. *)
SavesExtension ==
    \E acct \in Accounts, copy \in Blob :
        /\ Extends(copy, store[acct])
        /\ \E b \in Touched(copy, clock) : Save(acct, b)

LEMMA SerialSaves ==
    ASSUME ConnectorInv, SerialInv, ConnectorNext
    PROVE  UNCHANGED store \/ SavesExtension
<1>1. InboundInv /\ StartInv /\ StartCurrent /\ \A w \in Workers : CopyCurrent(w)
  BY DEF ConnectorInv, SerialInv
<1>2. ASSUME NEW w \in Workers, pc[w] \in {"save reference", "save seen"},
             \E b \in Touched(st[w], clock) : Save(act[w].account, b)
      PROVE  SavesExtension
  <2>1. act[w].account \in Accounts /\ st[w] \in Blob
    BY <1>1, <1>2, WorkerTypes DEF Loaded
  <2>2. Extends(st[w], store[act[w].account])
    BY <1>1, <1>2, CopyExtends
  <2>3. QED  BY <1>2, <2>1, <2>2 DEF SavesExtension
<1>3. ASSUME startPc = "save", \E b \in Touched(startSt, clock) : Save(startAcct, b)
      PROVE  SavesExtension
  <2>1. startAcct \in Accounts /\ startSt \in Blob
    BY <1>1, <1>3 DEF StartInv, StartTypeOK
  <2>2. Extends(startSt, store[startAcct])
    BY <1>1, <1>3, StartCopyExtends
  <2>3. QED  BY <1>3, <2>1, <2>2 DEF SavesExtension
<1>4. CASE Next
  <2>1. ASSUME NEW w \in Workers, SaveReference(w) \/ SaveSeen(w) \/ SaveFails(w)
        PROVE  UNCHANGED store \/ SavesExtension
    <3>1. /\ pc[w] \in {"save reference", "save seen"}
          /\ UNCHANGED store \/ \E b \in Touched(st[w], clock) : Save(act[w].account, b)
      BY <2>1 DEF SaveReference, SaveSeen, SaveFails
    <3>2. QED  BY <1>2, <3>1
  <2>2. QED
    BY <1>4, <2>1 DEF Next, Progress, Failure, Receive, Load, LoadFails,
       EnsureChatSession, EnsureChatSessionFails, CreateMessage, CreateMessageFails,
       Reply, ReplyLost, Crash, Tick, hostVars
<1>5. CASE Start
  BY <1>3, <1>5 DEF Start, EnsureChannel, EnsureChannelLinkSession, LoadLink, SaveLink,
     StartDone, StartFails, vars, hostVars
<1>6. CASE Send
  BY <1>6 DEF Send, SendCalled, SendRefused, SendLoad, SendPost, SendFails, vars, hostVars
<1>7. QED  BY <1>4, <1>5, <1>6 DEF ConnectorNext

(* So nothing but marks is ever lost. *)
LEMMA NothingButMarksLost ==
    ASSUME ConnectorInv, UNCHANGED store \/ SavesExtension, NEW acct \in Accounts
    PROVE  /\ store[acct].linked => store'[acct].linked
           /\ \A chat \in Chats :
                store[acct].urls[chat] # Absent => store'[acct].urls[chat] # Absent
<1>1. CASE UNCHANGED store
  BY <1>1
<1>2. CASE SavesExtension
  <2>1. PICK x \in Accounts, copy \in Blob :
          /\ Extends(copy, store[x])
          /\ \E b \in Touched(copy, clock) : Save(x, b)
    BY <1>2 DEF SavesExtension
  <2>2. PICK b \in Touched(copy, clock) : Save(x, b)
    BY <2>1
  <2>3. b.urls = copy.urls /\ b.linked = copy.linked
    BY TouchedFacts, ClockType DEF ConnectorInv, InboundInv
  <2>4. store \in [Accounts -> Blob]
    BY DEF ConnectorInv, InboundInv, TypeOK
  <2>5. CASE acct = x
    BY <2>1, <2>2, <2>3, <2>4, <2>5 DEF Save, Extends
  <2>6. CASE acct # x
    BY <2>2, <2>4, <2>6 DEF Save
  <2>7. QED  BY <2>5, <2>6
<1>3. QED  BY <1>1, <1>2

(* One call at a time: whoever is not at work has no copy to be stale. *)
LEMMA OthersIdle ==
    ASSUME TypeOK, OneCall, NEW w \in Workers, pc[w] # "idle", NEW v \in Workers, v # w
    PROVE  pc[v] = "idle"
BY DEF OneCall

LEMMA IdleIsCurrent == ASSUME NEW v, pc[v] \in {"idle", "load"} PROVE CopyCurrent(v)
BY DEF CopyCurrent

(* A worker that leaves the others alone need only care for its own copy.  *)
LEMMA OwnCopyOnly ==
    ASSUME InboundInv, OneCall, NEW w \in Workers, pc[w] # "idle", NEW label,
           Goto(w, label), CopyCurrent(w)'
    PROVE  \A v \in Workers : CopyCurrent(v)'
<1>1. ASSUME NEW v \in Workers, v # w PROVE pc'[v] = "idle"
  BY <1>1, OthersIdle DEF InboundInv, TypeOK, Goto
<1>2. ASSUME NEW v \in Workers, v # w PROVE CopyCurrent(v)'
  BY <1>1, <1>2 DEF CopyCurrent
<1>3. QED  BY <1>2

LEMMA CopiesAfterDrop ==
    ASSUME \A w \in Workers : CopyCurrent(w), NEW W, Drop(W),
           UNCHANGED store \/ \A v \in Workers : v \notin W => pc[v] = "idle"
    PROVE  \A v \in Workers : CopyCurrent(v)'
<1>1. ASSUME NEW v \in Workers, v \in W \/ pc[v] = "idle" PROVE CopyCurrent(v)'
  <2>1. pc'[v] = "idle"
    BY <1>1 DEF Drop
  <2>2. QED  BY <2>1 DEF CopyCurrent
<1>2. ASSUME NEW v \in Workers, v \notin W, UNCHANGED store PROVE CopyCurrent(v)'
  <2>1. pc'[v] = pc[v] /\ act'[v] = act[v] /\ st'[v] = st[v] /\ now'[v] = now[v]
    BY <1>2 DEF Drop
  <2>2. CopyCurrent(v)
    OBVIOUS
  <2>3. QED  BY <1>2, <2>1, <2>2 DEF CopyCurrent
<1>3. QED  BY <1>1, <1>2

LEMMA CopiesKept ==
    ASSUME \A w \in Workers : CopyCurrent(w), UNCHANGED store, UNCHANGED workerVars
    PROVE  \A v \in Workers : CopyCurrent(v)'
BY DEF CopyCurrent, workerVars

LEMMA InboundKeepsCopies ==
    ASSUME InboundInv, OneCall, \A w \in Workers : CopyCurrent(w), Next, OneCall'
    PROVE  \A v \in Workers : CopyCurrent(v)'
<1>1. TypeOK
  BY DEF InboundInv
<1>2. ASSUME NEW w \in Workers, NEW a \in Activities, Receive(w, a)
      PROVE  \A v \in Workers : CopyCurrent(v)'
  <2>1. pc'[w] = "load"
    BY <1>1, <1>2 DEF Receive, Goto, TypeOK
  <2>2. \A v \in Workers : v # w => pc'[v] = "idle"
    BY <2>1 DEF OneCall
  <2>3. QED  BY <2>1, <2>2 DEF CopyCurrent
<1>3. ASSUME NEW w \in Workers, Load(w) PROVE \A v \in Workers : CopyCurrent(v)'
  <2>1. /\ pc[w] # "idle" /\ Goto(w, "save reference")
        /\ pc'[w] = "save reference" /\ UNCHANGED store /\ act'[w] = act[w]
        /\ st'[w] = WithReference(store[act[w].account], act[w])
    BY <1>1, <1>3 DEF Load, Goto, TypeOK, hostVars
  <2>2. CopyCurrent(w)'
    BY <2>1 DEF CopyCurrent
  <2>3. QED  BY <2>1, <2>2, OwnCopyOnly
<1>4. ASSUME NEW w \in Workers, SaveReference(w) PROVE \A v \in Workers : CopyCurrent(v)'
  <2>1. PICK b \in Touched(st[w], clock) :
          /\ Save(act[w].account, b)
          /\ st' = [st EXCEPT ![w] = b]
          /\ Goto(w, IF IsNew(b, act[w]) THEN "ensure session" ELSE "reply")
    BY <1>4 DEF SaveReference
  <2>2. act[w].account \in Accounts /\ pc[w] # "idle" /\ UNCHANGED act
    BY <1>4, WorkerTypes DEF SaveReference, Loaded
  <2>3. store'[act[w].account] = b /\ st'[w] = b
    BY <1>1, <2>1, <2>2 DEF Save, TypeOK
  <2>4. /\ pc'[w] \in {"ensure session", "reply"}
        /\ pc'[w] = "ensure session" => b.seen[act[w].id] = Absent
    BY <1>1, <2>1 DEF Goto, TypeOK, IsNew
  <2>5. CopyCurrent(w)'
    BY <2>2, <2>3, <2>4 DEF CopyCurrent
  <2>6. QED  BY <2>1, <2>2, <2>5, OwnCopyOnly
<1>5. ASSUME NEW w \in Workers, EnsureChatSession(w)
      PROVE  \A v \in Workers : CopyCurrent(v)'
  <2>1. /\ pc[w] = "ensure session" /\ Goto(w, "create") /\ pc'[w] = "create"
        /\ UNCHANGED <<store, act, st>>
    BY <1>1, <1>5 DEF EnsureChatSession, Goto, TypeOK, hostVars
  <2>2. CopyCurrent(w)'
    BY <2>1 DEF CopyCurrent
  <2>3. QED  BY <2>1, <2>2, OwnCopyOnly
<1>6. ASSUME NEW w \in Workers, CreateMessage(w) PROVE \A v \in Workers : CopyCurrent(v)'
  <2>1. /\ pc[w] = "create" /\ Goto(w, "save seen") /\ pc'[w] = "save seen"
        /\ UNCHANGED <<store, act, now>>
        /\ st'[w] = WithMessage(st[w], act[w], now[w])
    BY <1>1, <1>6 DEF CreateMessage, Goto, TypeOK
  <2>2. CopyCurrent(w)'
    BY <2>1 DEF CopyCurrent
  <2>3. QED  BY <2>1, <2>2, OwnCopyOnly
<1>7. ASSUME NEW w \in Workers, SaveSeen(w) PROVE \A v \in Workers : CopyCurrent(v)'
  <2>1. PICK b \in Touched(st[w], clock) :
          Save(act[w].account, b) /\ st' = [st EXCEPT ![w] = b]
    BY <1>7 DEF SaveSeen
  <2>2. /\ act[w].account \in Accounts /\ pc[w] # "idle" /\ UNCHANGED act
        /\ Goto(w, "reply") /\ pc'[w] = "reply"
    BY <1>1, <1>7, WorkerTypes DEF SaveSeen, Loaded, Goto, TypeOK
  <2>3. store'[act[w].account] = b /\ st'[w] = b
    BY <1>1, <2>1, <2>2 DEF Save, TypeOK
  <2>4. CopyCurrent(w)'
    BY <2>2, <2>3 DEF CopyCurrent
  <2>5. QED  BY <2>2, <2>4, OwnCopyOnly
<1>8. ASSUME NEW w \in Workers, Reply(w) \/ Failure(w)
      PROVE  \A v \in Workers : CopyCurrent(v)'
  <2>1. Drop({w}) /\ pc[w] # "idle"
    BY <1>8 DEF Reply, Failure, Fail, LoadFails, SaveFails, EnsureChatSessionFails,
                CreateMessageFails, ReplyLost
  <2>2. \A v \in Workers : v \notin {w} => pc[v] = "idle"
    BY <1>1, <2>1, OthersIdle
  <2>3. QED  BY <2>1, <2>2, CopiesAfterDrop
<1>9. CASE Crash
  <2>1. PICK W : Drop(W)
    BY <1>9 DEF Crash
  <2>2. QED  BY <1>9, <2>1, CopiesAfterDrop DEF Crash, hostVars
<1>10. CASE Tick
  BY <1>10, CopiesKept DEF Tick, hostVars
<1>11. QED
  BY <1>2, <1>3, <1>4, <1>5, <1>6, <1>7, <1>8, <1>9, <1>10 DEF Next, Progress

(* Nothing is stored, and nobody is at work, beside a call of Start. *)
LEMMA NothingBesideStart ==
    ASSUME TypeOK, OneCall, startPc # "idle", Next, OneCall', UNCHANGED startVars
    PROVE  UNCHANGED store
<1>1. \A w \in Workers : pc[w] = "idle"
  BY DEF OneCall
<1>2. QED
  BY <1>1 DEF Next, Progress, Failure, Receive, Load, LoadFails, SaveReference, SaveFails,
     EnsureChatSession, EnsureChatSessionFails, CreateMessage, CreateMessageFails, SaveSeen,
     Reply, ReplyLost, Crash, Tick, hostVars

LEMMA StartKeepsCopies ==
    ASSUME TypeOK, OneCall, \A w \in Workers : CopyCurrent(w), Start
    PROVE  \A v \in Workers : CopyCurrent(v)'
<1>1. UNCHANGED workerVars
  BY DEF Start, EnsureChannel, EnsureChannelLinkSession, LoadLink, SaveLink, StartDone,
     StartFails, vars
<1>2. CASE UNCHANGED store
  BY <1>1, <1>2, CopiesKept
<1>3. CASE startPc # "idle"
  <2>1. \A w \in Workers : pc'[w] = "idle"
    BY <1>1, <1>3 DEF OneCall, workerVars
  <2>2. QED  BY <2>1 DEF CopyCurrent
<1>4. QED
  BY <1>2, <1>3 DEF Start, EnsureChannel, EnsureChannelLinkSession, LoadLink, SaveLink,
     StartDone, StartFails, vars, hostVars

(* Start's own progress: what it leaves behind is linked. *)
LEMMA StartKeepsCurrent ==
    ASSUME ConnectorInv, SerialInv, Start PROVE StartCurrent'
<1>1. StartTypeOK /\ StartCurrent /\ store \in [Accounts -> Blob] /\ clock \in Nat
  BY ClockType DEF ConnectorInv, StartInv, SerialInv, InboundInv, TypeOK
<1>2. CASE EnsureChannel
  BY <1>2 DEF EnsureChannel, StartCurrent
<1>3. CASE EnsureChannelLinkSession
  BY <1>1, <1>3 DEF EnsureChannelLinkSession, StartCurrent, vars, hostVars
<1>4. CASE LoadLink
  BY <1>1, <1>4 DEF LoadLink, StartCurrent, vars, hostVars
<1>5. CASE SaveLink
  <2>1. PICK b \in Touched(startSt, clock) : Save(startAcct, b)
    BY <1>5 DEF SaveLink
  <2>2. startAcct \in Accounts /\ startSt \in Blob /\ startSt.linked
    BY <1>1, <1>5 DEF SaveLink, StartTypeOK, StartCurrent, Blob
  <2>3. b.linked
    BY <1>1, <2>2, TouchedFacts
  <2>4. /\ startPc = "save" /\ startPc' = "next account" /\ UNCHANGED todo
        /\ store' = [store EXCEPT ![startAcct] = b]
    BY <1>5, <2>1 DEF SaveLink, Save
  <2>5. ASSUME NEW acct \in Accounts \ todo PROVE store'[acct].linked
    <3>1. CASE acct = startAcct
      BY <1>1, <2>3, <2>4, <3>1
    <3>2. CASE acct # startAcct
      BY <1>1, <2>4, <2>5, <3>2 DEF StartCurrent
    <3>3. QED  BY <3>1, <3>2
  <2>6. QED  BY <2>4, <2>5 DEF StartCurrent
<1>6. CASE StartDone \/ StartFails
  BY <1>6 DEF StartDone, StartFails, StartReturns, StartCurrent
<1>7. QED  BY <1>2, <1>3, <1>4, <1>5, <1>6 DEF Start

LEMMA SerialStartCurrent ==
    ASSUME ConnectorInv, SerialInv, ConnectorNext, OneCall' PROVE StartCurrent'
<1>1. TypeOK /\ OneCall /\ StartCurrent
  BY DEF ConnectorInv, InboundInv, SerialInv
<1>2. CASE UNCHANGED store /\ UNCHANGED startVars
  BY <1>1, <1>2 DEF StartCurrent, startVars
<1>3. CASE Next /\ UNCHANGED startVars
  <2>1. CASE startPc = "idle"
    BY <1>3, <2>1 DEF StartCurrent, startVars
  <2>2. CASE startPc # "idle"
    BY <1>1, <1>2, <1>3, <2>2, NothingBesideStart
  <2>3. QED  BY <2>1, <2>2
<1>4. CASE Start
  BY <1>4, StartKeepsCurrent
<1>5. CASE Send
  BY <1>2, <1>5 DEF Send, SendCalled, SendRefused, SendLoad, SendPost, SendFails, vars,
     hostVars
<1>6. QED  BY <1>3, <1>4, <1>5 DEF ConnectorNext

LEMMA SerialCopies ==
    ASSUME ConnectorInv, SerialInv, ConnectorNext, OneCall'
    PROVE  \A w \in Workers : CopyCurrent(w)'
<1>1. InboundInv /\ TypeOK /\ OneCall /\ \A w \in Workers : CopyCurrent(w)
  BY DEF ConnectorInv, InboundInv, SerialInv
<1>2. CASE Next
  BY <1>1, <1>2, InboundKeepsCopies
<1>3. CASE Start
  BY <1>1, <1>3, StartKeepsCopies
<1>4. CASE Send
  BY <1>1, <1>4, CopiesKept DEF Send, SendCalled, SendRefused, SendLoad, SendPost,
     SendFails, vars, hostVars
<1>5. QED  BY <1>2, <1>3, <1>4 DEF ConnectorNext

LEMMA SerialReferences ==
    ASSUME ConnectorInv, SerialInv, ConnectorNext PROVE ReferenceStored'
<1>1. TypeOK /\ ReferenceStored /\ (UNCHANGED store \/ SavesExtension)
  BY SerialSaves DEF ConnectorInv, InboundInv, SerialInv
<1>2. ASSUME NEW a \in acked, HasReference(a) PROVE store'[a.account].urls[a.chat] # Absent
  <2>1. a \in Activities
    BY <1>2 DEF ConnectorInv, InboundInv, TypeOK
  <2>2. a.account \in Accounts /\ a.chat \in Chats
    BY <1>2, <2>1, InboundAssumption DEF Activity, HasReference
  <2>3. store[a.account].urls[a.chat] # Absent
    BY <1>2 DEF SerialInv, ReferenceStored
  <2>4. UNCHANGED store \/ SavesExtension
    BY SerialSaves
  <2>5. QED  BY <2>2, <2>3, <2>4, NothingButMarksLost
<1>3. ASSUME NEW w \in Workers, Reply(w) PROVE ReferenceStored'
  <2>1. pc[w] = "reply" /\ UNCHANGED store /\ acked' = acked \cup {act[w]}
    BY <1>3 DEF Reply
  <2>2. HasReference(act[w]) => store[act[w].account].urls[act[w].chat] # Absent
    BY <2>1 DEF ConnectorInv, InboundInv, WorkerInv, Loaded, SerialInv, CopyCurrent
  <2>3. QED  BY <1>2, <2>1, <2>2 DEF ReferenceStored
<1>4. CASE UNCHANGED acked
  BY <1>2, <1>4 DEF ReferenceStored
<1>5. QED
  BY <1>3, <1>4 DEF ConnectorNext, Next, Progress, Failure, Fail, Receive, Load, LoadFails,
     SaveReference, SaveFails, EnsureChatSession, EnsureChatSessionFails, CreateMessage,
     CreateMessageFails, SaveSeen, ReplyLost, Crash, Tick, Start, EnsureChannel,
     EnsureChannelLinkSession, LoadLink, SaveLink, StartDone, StartFails, Send, SendCalled,
     SendRefused, SendLoad, SendPost, SendFails, vars, hostVars

LEMMA SerialLinks ==
    ASSUME ConnectorInv, SerialInv, ConnectorNext PROVE LinkStored'
<1>1. CASE started
  <2>1. \A acct \in Accounts : store[acct].linked
    BY <1>1 DEF SerialInv, LinkStored
  <2>2. QED  BY <2>1, SerialSaves, NothingButMarksLost DEF LinkStored
<1>2. CASE StartDone
  <2>1. startPc = "next account" /\ todo = {} /\ UNCHANGED store
    BY <1>2 DEF StartDone, vars, hostVars
  <2>2. QED  BY <2>1 DEF SerialInv, StartCurrent, LinkStored
<1>3. CASE ~started /\ ~StartDone
  <2>1. ~started'
    BY <1>3 DEF ConnectorNext, Start, EnsureChannel, EnsureChannelLinkSession, LoadLink,
       SaveLink, StartFails, StartReturns, Send, SendCalled, SendRefused, SendLoad,
       SendPost, SendFails, startVars
  <2>2. QED  BY <2>1 DEF LinkStored
<1>4. QED  BY <1>1, <1>2, <1>3

LEMMA SerialInvInit == ASSUME ConnectorInit PROVE SerialInv
BY DEF ConnectorInit, Init, SerialInv, OneCall, CopyCurrent, StartCurrent, ReferenceStored,
       LinkStored

LEMMA SerialInvNext ==
    ASSUME ConnectorInv, SerialInv, [ConnectorNext /\ OneCall']_connectorVars
    PROVE  SerialInv'
<1>1. CASE ConnectorNext /\ OneCall'
  BY <1>1, SerialCopies, SerialStartCurrent, SerialReferences, SerialLinks DEF SerialInv
<1>2. CASE UNCHANGED connectorVars
  BY <1>2 DEF SerialInv, OneCall, CopyCurrent, StartCurrent, ReferenceStored, LinkStored,
     connectorVars, vars, hostVars, workerVars, startVars, sendVars
<1>3. QED  BY <1>1, <1>2

(* One call at a time, every copy of a document is current, and what       *)
(* requests and Start have stored stays stored.                            *)
THEOREM SerialInvariant == SerialSpec => [](ConnectorInv /\ SerialInv)
<1>1. ConnectorInit => ConnectorInv /\ SerialInv
  BY ConnectorInvInit, SerialInvInit
<1>2. ConnectorInv /\ SerialInv /\ [ConnectorNext /\ OneCall']_connectorVars
        => (ConnectorInv /\ SerialInv)'
  BY ConnectorInvNext, SerialInvNext
<1>3. QED  BY <1>1, <1>2, PTL DEF SerialSpec

(* Once a Start has returned without error, the link session of every      *)
(* account is stored, whatever requests and failed Starts follow.          *)
THEOREM LinksAreStored == SerialSpec => []LinkStored
<1>1. SerialInv => LinkStored
  BY DEF SerialInv
<1>2. QED  BY <1>1, SerialInvariant, PTL

(* The reference of every acknowledged activity is stored.                 *)
THEOREM ReferencesAreStored == SerialSpec => []ReferenceStored
<1>1. SerialInv => ReferenceStored
  BY DEF SerialInv
<1>2. QED  BY <1>1, SerialInvariant, PTL

(* No message is created that the store remembers: the dedupe check reads  *)
(* a copy, but the copy is current.                                        *)
THEOREM RememberedIsNotCreated == SerialSpec => NoCreateWhileRemembered
<1> DEFINE OnlyNew == \A acct \in Accounts, i \in Ids :
              messages'[<<acct, i>>] # messages[<<acct, i>>] => store[acct].seen[i] = Absent
<1>1. ASSUME ConnectorInv, SerialInv, ConnectorNext PROVE OnlyNew
  <2>1. ASSUME NEW w \in Workers, CreateMessage(w) \/ CreateMessageFails(w) PROVE OnlyNew
    <3>1. /\ UNCHANGED messages
             \/ messages' = [messages EXCEPT ![DedupeKey(act[w])] = @ + 1]
          /\ pc[w] = "create"
      BY <2>1 DEF CreateMessage, CreateMessageFails
    <3>2. store[act[w].account].seen[act[w].id] = Absent
      BY <1>1, <3>1 DEF SerialInv, CopyCurrent
    <3>3. messages \in [Keys -> Nat]
      BY <1>1 DEF ConnectorInv, InboundInv, TypeOK
    <3>4. QED  BY <3>1, <3>2, <3>3 DEF DedupeKey, Keys
  <2>2. CASE UNCHANGED messages
    BY <2>2
  <2>3. QED
    BY <1>1, <2>1, <2>2 DEF ConnectorNext, Next, Progress, Failure, Receive, Load, LoadFails,
       SaveReference, SaveFails, EnsureChatSession, EnsureChatSessionFails, SaveSeen, Reply,
       ReplyLost, Crash, Tick, Start, EnsureChannel, EnsureChannelLinkSession, LoadLink,
       SaveLink, StartDone, StartFails, Send, SendCalled, SendRefused, SendLoad, SendPost,
       SendFails, vars, hostVars
<1>2. UNCHANGED connectorVars => UNCHANGED vars
  BY DEF connectorVars
<1>3. ConnectorInv /\ SerialInv /\ [ConnectorNext /\ OneCall']_connectorVars
        => [OnlyNew]_vars
  BY <1>1, <1>2
<1> HIDE DEF OnlyNew
<1>4. SerialSpec => [][OnlyNew]_vars
  BY <1>3, SerialInvariant, PTL DEF SerialSpec
<1>5. QED  BY <1>4 DEF NoCreateWhileRemembered, OnlyNew

(* What pruning forgets of the marks a copy shares with another map.       *)
LEMMA PrunedForgets ==
    ASSUME NEW seen \in [Ids -> Nat \cup {Absent}], NEW before \in [Ids -> Nat \cup {Absent}],
           \A i \in Held(before) : seen[i] = before[i],
           NEW t \in Nat, NEW after \in Pruned(seen, t), NEW i \in Held(before)
    PROVE  \/ after[i] # Absent
           \/ t - before[i] > TrackedStateTTL
           \/ /\ Cardinality(Held(after)) = MaxTrackedStateKeys
              /\ \A j \in Held(after) : after[j] >= before[i]
<1>1. PICK K \in Kept(seen, t) : after = RestrictedTo(seen, K)
  BY DEF Pruned
<1>2. i \in Ids /\ before[i] \in Nat /\ seen[i] = before[i] /\ i \in Held(seen)
  BY DEF Held
<1>3. CASE i \in K
  BY <1>1, <1>2, <1>3, TrackedAssumption DEF RestrictedTo
<1>4. CASE i \notin Fresh(seen, t)
  BY <1>2, <1>4, TrackedAssumption DEF Fresh, Expired
<1>5. CASE i \in Fresh(seen, t) \ K
  <2>1. /\ K \subseteq Fresh(seen, t) /\ Cardinality(K) = MaxTrackedStateKeys
        /\ \A k \in K : At(seen[i]) <= At(seen[k])
    BY <1>1, <1>5 DEF Kept
  <2>2. \A k \in K : k \in Ids /\ seen[k] \in Nat
    BY <2>1 DEF Fresh, Held
  <2>3. Held(after) = K
    BY <1>1, <2>1 DEF RestrictedTo, Held, Fresh
  <2>4. ASSUME NEW j \in K PROVE after[j] >= before[i]
    <3>1. after[j] = seen[j] /\ seen[j] \in Nat /\ At(seen[i]) <= At(seen[j])
      BY <1>1, <2>1, <2>2, <2>4 DEF RestrictedTo
    <3>2. QED  BY <1>2, <3>1 DEF At
  <2>5. QED  BY <2>1, <2>3, <2>4
<1>6. QED  BY <1>3, <1>4, <1>5

(* The store forgets only expired marks or, at the limit, the oldest.      *)
THEOREM OnlyOldestIsForgotten == SerialSpec => ForgetsOnlyOldest
<1> DEFINE Forgets(acct, i) ==
         LET before == store[acct].seen
             after == store'[acct].seen
         IN \/ after[i] # Absent
            \/ clock - before[i] > TrackedStateTTL
            \/ /\ Cardinality(Held(after)) = MaxTrackedStateKeys
               /\ \A j \in Held(after) : after[j] >= before[i]
       OnlyOldest == \A acct \in Accounts : \A i \in Held(store[acct].seen) : Forgets(acct, i)
<1>1. ASSUME ConnectorInv, SerialInv, ConnectorNext,
             NEW acct \in Accounts, NEW i \in Held(store[acct].seen)
      PROVE  Forgets(acct, i)
  <2>1. store \in [Accounts -> Blob] /\ clock \in Nat
    BY <1>1, ClockType DEF ConnectorInv, InboundInv, TypeOK
  <2>2. store[acct].seen \in [Ids -> Nat \cup {Absent}] /\ store[acct].seen[i] # Absent
    BY <2>1 DEF Blob, Held
  <2>3. CASE store'[acct] = store[acct]
    BY <2>2, <2>3
  <2>4. CASE SavesExtension
    <3>1. PICK x \in Accounts, copy \in Blob :
            /\ Extends(copy, store[x])
            /\ \E b \in Touched(copy, clock) : Save(x, b)
      BY <2>4 DEF SavesExtension
    <3>2. PICK s \in Pruned(copy.seen, clock) : Save(x, [copy EXCEPT !.seen = s])
      BY <3>1 DEF Touched
    <3>3. CASE acct = x
      <4>1. /\ copy.seen \in [Ids -> Nat \cup {Absent}]
            /\ \A j \in Held(store[acct].seen) : copy.seen[j] = store[acct].seen[j]
        BY <3>1, <3>3 DEF Blob, Extends
      <4>2. store'[acct].seen = s
        BY <2>1, <3>2, <3>3 DEF Save, Blob
      <4>3. QED  BY <2>1, <2>2, <4>1, <4>2, PrunedForgets
    <3>4. CASE acct # x
      BY <2>1, <2>3, <3>2, <3>4 DEF Save
    <3>5. QED  BY <3>3, <3>4
  <2>5. QED  BY <1>1, <2>3, <2>4, SerialSaves
<1>2. UNCHANGED connectorVars => UNCHANGED vars
  BY DEF connectorVars
<1>3. ConnectorInv /\ SerialInv /\ [ConnectorNext /\ OneCall']_connectorVars
        => [OnlyOldest]_vars
  BY <1>1, <1>2
<1> HIDE DEF OnlyOldest
<1>4. SerialSpec => [][OnlyOldest]_vars
  BY <1>3, SerialInvariant, PTL DEF SerialSpec
<1>5. QED  BY <1>4 DEF ForgetsOnlyOldest, OnlyOldest
=============================================================================
