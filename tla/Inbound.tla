------------------------------- MODULE Inbound -------------------------------
(***************************************************************************)
(* Inbound activities, from the post of Teams to its answer                *)
(* (Connector.HandleWebhookRequest after the token check, HandleWebhook,   *)
(* processMessageEvent).                                                   *)
(*                                                                         *)
(* Each request runs in a worker (the host's request goroutine, in any     *)
(* process) that loads the account's document, saves it with the           *)
(* conversation reference, decides on its own copy whether the activity is *)
(* new text, asks the gateway for the session and the message, and saves   *)
(* its copy again.  The connector's cache and mutex are per request, so    *)
(* nothing orders the steps of two workers.  Every call may fail, and a    *)
(* failed write may still have been done.  Teams posts an activity again   *)
(* until it is answered with 200, and may post it when it need not.        *)
(***************************************************************************)
EXTENDS AccountState

CONSTANTS Workers,     \* requests that may run at the same time
          Accounts,    \* bot accounts, each with its own webhook
          Activities,  \* what Teams posts
          MaxFaults,   \* bound on failed calls, lost replies and crashes
          MaxRepeats,  \* bound on posts Teams need not have made
          MaxClock     \* bound on time

(* What processMessageEvent makes of an activity, in the order it decides; *)
(* only "text" can become a message.                                       *)
Kinds == {"conversationUpdate", "unsupported", "selfEcho", "incomplete", "text"}

Activity == [account : Accounts, kind : Kinds, id : Ids,
             chat : Chats \cup {Absent}, chatType : ChatTypes,
             url : Urls \cup {Absent}]

ASSUME InboundAssumption ==
    /\ Activities \subseteq Activity
    /\ \A a \in Activities : a.kind = "text" => a.chat # Absent
    /\ Absent \notin Activities
    /\ MaxFaults \in Nat
    /\ MaxRepeats \in Nat
    /\ MaxClock \in Nat

VARIABLES store,     \* the host's account store: account -> document
          messages,  \* the gateway: how many messages each dedupe key created
          acked,     \* the activities Teams got a 200 for
          pc,        \* what each worker does next
          act,       \* the activity it handles
          st,        \* its copy of the account's document
          now,       \* the time it took when it loaded the document
          clock,
          faults,
          repeats

hostVars    == <<store, messages, acked>>
workerVars  == <<pc, act, st, now>>
envVars     == <<clock, faults, repeats>>
vars        == <<hostVars, workerVars, envVars>>

Keys == Accounts \X Ids

(* Defect: accounts share their dedupe keys. *)
DedupeKey_NoAccount(a) == <<CHOOSE acct \in Accounts : TRUE, a.id>>

DedupeKey(a) == <<a.account, a.id>>
StateKey(a) == <<a.chatType, a.chat>>
HasReference(a) == a.chat # Absent /\ a.url # Absent

(* A worker at any of these works for an activity with a copy of its own. *)
Loaded == {"save reference", "ensure session", "create", "save seen", "reply"}
PCs == {"idle", "load"} \cup Loaded

Init ==
    /\ store = [acct \in Accounts |-> EmptyBlob]
    /\ messages = [k \in Keys |-> 0]
    /\ acked = {}
    /\ pc = [w \in Workers |-> "idle"]
    /\ act = [w \in Workers |-> Absent]
    /\ st = [w \in Workers |-> EmptyBlob]
    /\ now = [w \in Workers |-> 0]
    /\ clock = 0
    /\ faults = 0
    /\ repeats = 0

-----------------------------------------------------------------------------
(* Helpers of the actions. *)

Goto(w, label) == pc' = [pc EXCEPT ![w] = label]

(* The request ends and its local variables are gone. *)
Drop(W) ==
    /\ pc' = [w \in Workers |-> IF w \in W THEN "idle" ELSE pc[w]]
    /\ act' = [w \in Workers |-> IF w \in W THEN Absent ELSE act[w]]
    /\ st' = [w \in Workers |-> IF w \in W THEN EmptyBlob ELSE st[w]]
    /\ now' = [w \in Workers |-> IF w \in W THEN 0 ELSE now[w]]

(* A call of w returns an error: w answers 500 and Teams gets no 200. *)
Fail(w) ==
    /\ faults < MaxFaults
    /\ faults' = faults + 1
    /\ Drop({w})
    /\ UNCHANGED <<acked, clock, repeats>>

InFlight == {act[w] : w \in {v \in Workers : pc[v] # "idle"}}

(* The conversation reference, written into the copy before any filter. *)
WithReference(b, a) ==
    IF HasReference(a) THEN [b EXCEPT !.urls = [@ EXCEPT ![a.chat] = a.url]] ELSE b

(* Defect: the session is not recorded. *)
WithMessage_NoSession(b, a, time) == [b EXCEPT !.seen = [@ EXCEPT ![a.id] = time]]

(* The marks of a processed message. *)
WithMessage(b, a, time) ==
    [b EXCEPT !.sessions = @ \cup {StateKey(a)}, !.seen = [@ EXCEPT ![a.id] = time]]

(* Defect: the dedupe check is skipped. *)
IsNew_NoDedupe(b, a) == a.kind = "text"

(* The filters and the dedupe check pass. *)
IsNew(b, a) == a.kind = "text" /\ b.seen[a.id] = Absent

(* Defect: the document is saved for every account. *)
Save_AllAccounts(acct, b) == store' = [x \in Accounts |-> b]

Save(acct, b) == store' = [store EXCEPT ![acct] = b]

-----------------------------------------------------------------------------
(* Defect: the 200 is sent before the activity is handled. *)
Receive_AnswersFirst(w, a) ==
    /\ pc[w] = "idle"
    /\ a \notin acked
    /\ acked' = acked \cup {a}
    /\ Goto(w, "load")
    /\ act' = [act EXCEPT ![w] = a]
    /\ UNCHANGED <<store, messages, st, now, envVars>>

(* Teams posts a: because it has no 200 for it and is not waiting for one, *)
(* or needlessly (a time-out at its end, a duplicated request).            *)
Receive(w, a) ==
    /\ pc[w] = "idle"
    /\ IF a \in acked \cup InFlight
       THEN repeats < MaxRepeats /\ repeats' = repeats + 1
       ELSE UNCHANGED repeats
    /\ Goto(w, "load")
    /\ act' = [act EXCEPT ![w] = a]
    /\ UNCHANGED <<hostVars, st, now, clock, faults>>

(* Defect: the conversation reference is left to the end. *)
Load_NoReference(w) ==
    /\ pc[w] = "load"
    /\ st' = [st EXCEPT ![w] = store[act[w].account]]
    /\ now' = [now EXCEPT ![w] = clock]
    /\ Goto(w, "save reference")
    /\ UNCHANGED <<hostVars, act, envVars>>

(* What is stored always decodes: only the connector writes it. *)
Load(w) ==
    /\ pc[w] = "load"
    /\ st' = [st EXCEPT ![w] = WithReference(store[act[w].account], act[w])]
    /\ now' = [now EXCEPT ![w] = clock]
    /\ Goto(w, "save reference")
    /\ UNCHANGED <<hostVars, act, envVars>>

LoadFails(w) ==
    /\ pc[w] = "load"
    /\ Fail(w)
    /\ UNCHANGED <<store, messages>>

(* Defect: a duplicate is answered with an error. *)
SaveReference_DuplicateFails(w) ==
    /\ pc[w] = "save reference"
    /\ \E b \in Touched(st[w], clock) :
        /\ Save(act[w].account, b)
        /\ IF IsNew(b, act[w])
           THEN /\ st' = [st EXCEPT ![w] = b]
                /\ Goto(w, "ensure session")
                /\ UNCHANGED <<act, now>>
           ELSE Drop({w})
    /\ UNCHANGED <<messages, acked, envVars>>

(* The first save, then the filters and the dedupe check on the saved copy. *)
SaveReference(w) ==
    /\ pc[w] = "save reference"
    /\ \E b \in Touched(st[w], clock) :
        /\ Save(act[w].account, b)
        /\ st' = [st EXCEPT ![w] = b]
        /\ Goto(w, IF IsNew(b, act[w]) THEN "ensure session" ELSE "reply")
    /\ UNCHANGED <<messages, acked, act, now, envVars>>

(* Either save: its error says nothing about whether it was done. *)
SaveFails(w) ==
    /\ pc[w] \in {"save reference", "save seen"}
    /\ \/ UNCHANGED store
       \/ \E b \in Touched(st[w], clock) : Save(act[w].account, b)
    /\ Fail(w)
    /\ UNCHANGED messages

EnsureChatSession(w) ==
    /\ pc[w] = "ensure session"
    /\ Goto(w, "create")
    /\ UNCHANGED <<hostVars, act, st, now, envVars>>

EnsureChatSessionFails(w) ==
    /\ pc[w] = "ensure session"
    /\ Fail(w)
    /\ UNCHANGED <<store, messages>>

CreateMessage(w) ==
    /\ pc[w] = "create"
    /\ messages' = [messages EXCEPT ![DedupeKey(act[w])] = @ + 1]
    /\ st' = [st EXCEPT ![w] = WithMessage(@, act[w], now[w])]
    /\ Goto(w, "save seen")
    /\ UNCHANGED <<store, acked, act, now, envVars>>

(* Defect: the error of CreateMessage is ignored. *)
CreateMessageFails_Ignored(w) ==
    /\ pc[w] = "create"
    /\ faults < MaxFaults
    /\ faults' = faults + 1
    /\ st' = [st EXCEPT ![w] = WithMessage(@, act[w], now[w])]
    /\ Goto(w, "save seen")
    /\ UNCHANGED <<hostVars, act, now, clock, repeats>>

CreateMessageFails(w) ==
    /\ pc[w] = "create"
    /\ \/ UNCHANGED messages
       \/ messages' = [messages EXCEPT ![DedupeKey(act[w])] = @ + 1]
    /\ Fail(w)
    /\ UNCHANGED store

(* The second save, of a copy loaded before the gateway was called. *)
SaveSeen(w) ==
    /\ pc[w] = "save seen"
    /\ \E b \in Touched(st[w], clock) :
        /\ Save(act[w].account, b)
        /\ st' = [st EXCEPT ![w] = b]
    /\ Goto(w, "reply")
    /\ UNCHANGED <<messages, acked, act, now, envVars>>

(* 200: for a new message, a duplicate and an ignored activity alike. *)
Reply(w) ==
    /\ pc[w] = "reply"
    /\ acked' = acked \cup {act[w]}
    /\ Drop({w})
    /\ UNCHANGED <<store, messages, envVars>>

ReplyLost(w) ==
    /\ pc[w] = "reply"
    /\ Fail(w)
    /\ UNCHANGED <<store, messages>>

(* A host process dies: every request in it is gone, whatever it did.   *)
Crash ==
    /\ faults < MaxFaults
    /\ faults' = faults + 1
    /\ \E W \in SUBSET {w \in Workers : pc[w] # "idle"} : W # {} /\ Drop(W)
    /\ UNCHANGED <<hostVars, clock, repeats>>

Tick ==
    /\ clock < MaxClock
    /\ clock' = clock + 1
    /\ UNCHANGED <<hostVars, workerVars, faults, repeats>>

(* What a request does when nothing goes wrong. *)
Progress(w) ==
    \/ Load(w) \/ SaveReference(w) \/ EnsureChatSession(w)
    \/ CreateMessage(w) \/ SaveSeen(w) \/ Reply(w)

Failure(w) ==
    \/ LoadFails(w) \/ SaveFails(w) \/ EnsureChatSessionFails(w)
    \/ CreateMessageFails(w) \/ ReplyLost(w)

Next ==
    \/ \E w \in Workers : (\E a \in Activities : Receive(w, a)) \/ Progress(w) \/ Failure(w)
    \/ Crash
    \/ Tick

Spec == Init /\ [][Next]_vars

(***************************************************************************)
(* A request's goroutine runs until it returns, and Teams posts again what *)
(* it has no answer for.  Nothing is assumed of faults, repeats and time.  *)
(***************************************************************************)
Repost(a) == a \notin acked \cup InFlight /\ \E w \in Workers : Receive(w, a)

Fairness ==
    /\ \A w \in Workers : WF_vars(Progress(w))
    /\ \A a \in Activities : WF_vars(Repost(a))

FairSpec == Spec /\ Fairness

-----------------------------------------------------------------------------
(* Properties. *)

TypeOK ==
    /\ store \in [Accounts -> Blob]
    /\ messages \in [Keys -> Nat]
    /\ acked \in SUBSET Activities
    /\ pc \in [Workers -> PCs]
    /\ act \in [Workers -> Activities \cup {Absent}]
    /\ \A w \in Workers : pc[w] # "idle" => act[w] \in Activities
    /\ st \in [Workers -> Blob]
    /\ now \in [Workers -> Nat]
    /\ clock \in 0..MaxClock
    /\ faults \in 0..MaxFaults
    /\ repeats \in 0..MaxRepeats

Created(key) == messages[key] > 0

(* A document remembers only messages that were really created: whichever  *)
(* stale copy was written last, a later delivery is never dropped as a     *)
(* duplicate of a message Beak does not have.                              *)
SeenImpliesCreated ==
    \A acct \in Accounts : \A i \in Held(store[acct].seen) : Created(<<acct, i>>)

(* An inbound text answered with 200 is in Beak: whatever failed, crashed, *)
(* overlapped or was repeated, Teams is never told to stop posting a       *)
(* message before it was created.                                          *)
AckedImpliesCreated ==
    \A a \in acked : a.kind = "text" => Created(DedupeKey(a))

(* Beak messages are created only for genuine inbound text: never for an   *)
(* echo of the bot, a conversation update or an incomplete activity.       *)
OnlyTextCreated ==
    \A key \in Keys : Created(key) =>
        \E a \in Activities : a.kind = "text" /\ DedupeKey(a) = key

(* A document that remembers a message also has the session of its chat    *)
(* and, if the activity carried one, the service URL to answer it: lost    *)
(* updates lose these together, never one of them.                         *)
Consistent(acct, b) ==
    \A i \in Held(b.seen) : \E a \in Activities :
        /\ a.kind = "text"
        /\ DedupeKey(a) = <<acct, i>>
        /\ StateKey(a) \in b.sessions
        /\ HasReference(a) => b.urls[a.chat] # Absent

StoreConsistent == \A acct \in Accounts : Consistent(acct, store[acct])

(* What is stored never holds more keys than the limit, although every     *)
(* copy in flight may hold one more.                                       *)
SeenBounded ==
    \A acct \in Accounts : Cardinality(Held(store[acct].seen)) <= MaxTrackedStateKeys

(***************************************************************************)
(* Why those hold at every step: what each worker knows at each place.     *)
(***************************************************************************)
Sound(acct, b, msgs) ==
    /\ \A i \in Held(b.seen) : msgs[<<acct, i>>] > 0
    /\ Consistent(acct, b)

WorkerInv(w) ==
    /\ pc[w] \in Loaded =>
        /\ Sound(act[w].account, st[w], messages)
        /\ HasReference(act[w]) => st[w].urls[act[w].chat] # Absent
    /\ pc[w] \in {"ensure session", "create", "save seen"} => act[w].kind = "text"
    /\ pc[w] \in {"save seen", "reply"} /\ act[w].kind = "text" =>
        Created(DedupeKey(act[w]))

HostInv ==
    /\ \A acct \in Accounts : Sound(acct, store[acct], messages)
    /\ AckedImpliesCreated
    /\ OnlyTextCreated
    /\ SeenBounded

(* The inductive invariant: every copy a request holds is as sound as what *)
(* is stored, so it may be written over anything; and a request reaches    *)
(* its reply only with the message created.                                *)
InboundInv == TypeOK /\ HostInv /\ \A w \in Workers : WorkerInv(w)

(* The conversation reference of every acknowledged activity is stored, so *)
(* that the bot can send to that chat (comment of processMessageEvent).    *)
(* True of one request at a time.                                          *)
ReferenceStored ==
    \A a \in acked : HasReference(a) => store[a.account].urls[a.chat] # Absent

(* Replaying an activity does not create a second message (scenario test   *)
(* of duplicates).                                                         *)
CreatedOnce == \A key \in Keys : messages[key] <= 1

(* A message the store remembers is not created again.  True of one        *)
(* request at a time.                                                      *)
NoCreateWhileRemembered ==
    [][\A acct \in Accounts, i \in Ids :
         messages'[<<acct, i>>] # messages[<<acct, i>>] => store[acct].seen[i] = Absent]_vars

(* The store forgets a message only when its stamp has expired, or when    *)
(* the limit is reached by messages at least as new.  True of one request  *)
(* at a time.                                                              *)
ForgetsOnlyOldest ==
    [][\A acct \in Accounts : \A i \in Held(store[acct].seen) :
         LET before == store[acct].seen
             after == store'[acct].seen
         IN \/ after[i] # Absent
            \/ clock - before[i] > TrackedStateTTL
            \/ /\ Cardinality(Held(after)) = MaxTrackedStateKeys
               /\ \A j \in Held(after) : after[j] >= before[i]]_vars

(* Every activity Teams posts is answered with 200 in the end.             *)
EventuallyAcked == \A a \in Activities : <>(a \in acked)

(* The inbound side keeps the promise of Inbox.                            *)
Promise == INSTANCE Inbox WITH
    Posted <- Activities,
    Genuine <- {a \in Activities : a.kind = "text"},
    MessageOf <- DedupeKey,
    messages <- {key \in Keys : Created(key)}

RefinesInbox == Promise!InboxSafety
RefinesInboxFairly == Promise!InboxSpec
=============================================================================
