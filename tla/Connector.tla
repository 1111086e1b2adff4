------------------------------ MODULE Connector ------------------------------
(***************************************************************************)
(* The connector's three users of an account's document together: the      *)
(* inbound requests of Inbound, Connector.Start, which records the link    *)
(* session of every account, and Connector.Send, which looks up where to   *)
(* post a message.  The host calls them as it likes: they run in different *)
(* goroutines, or processes, and share nothing but the account store.      *)
(***************************************************************************)
EXTENDS Inbound

CONSTANTS AllowedUrls,  \* service URLs validateServiceURL accepts
          MaxStarts,    \* bound on calls of Start
          MaxSends      \* bound on calls of Send

ASSUME ConnectorAssumption ==
    /\ AllowedUrls \subseteq Urls
    /\ MaxStarts \in Nat
    /\ MaxSends \in Nat

VARIABLES startPc,    \* what Start does next
          todo,       \* accounts it has still to visit
          startAcct,  \* the account it visits
          startSt,    \* its copy of that account's document
          started,    \* a Start has returned without error
          starts,     \* calls of Start so far
          sending,    \* the message Send is about to post, or Absent
          posted,     \* where messages were posted
          sends       \* calls of Send so far

startVars == <<startPc, todo, startAcct, startSt, started, starts>>
sendVars  == <<sending, posted, sends>>
connectorVars == <<vars, startVars, sendVars>>

Message == [account : Accounts, chat : Chats, url : Urls]

ASSUME NoMessageIsAbsent == Absent \notin Message

ConnectorInit ==
    /\ Init
    /\ startPc = "idle"
    /\ todo = {}
    /\ startAcct = Absent
    /\ startSt = EmptyBlob
    /\ started = FALSE
    /\ starts = 0
    /\ sending = Absent
    /\ posted = {}
    /\ sends = 0

-----------------------------------------------------------------------------
(* Start *)

StartReturns(ok) ==
    /\ startPc' = "idle"
    /\ todo' = {}
    /\ startAcct' = Absent
    /\ startSt' = EmptyBlob
    /\ started' = (started \/ ok)

(* Start is called and EnsureChannel succeeds. *)
EnsureChannel ==
    /\ startPc = "idle"
    /\ starts < MaxStarts
    /\ starts' = starts + 1
    /\ startPc' = "next account"
    /\ todo' = Accounts
    /\ UNCHANGED <<vars, startAcct, startSt, started, sendVars>>

EnsureChannelLinkSession ==
    /\ startPc = "next account"
    /\ \E acct \in todo :
        /\ startAcct' = acct
        /\ todo' = todo \ {acct}
    /\ startPc' = "load"
    /\ UNCHANGED <<vars, startSt, started, starts, sendVars>>

(* Load; a link session that is recorded already is not saved again. *)
LoadLink ==
    /\ startPc = "load"
    /\ LET b == store[startAcct] IN
        IF b.linked
        THEN /\ startPc' = "next account"
             /\ startAcct' = Absent
             /\ UNCHANGED startSt
        ELSE /\ startPc' = "save"
             /\ startSt' = [b EXCEPT !.linked = TRUE]
             /\ UNCHANGED startAcct
    /\ UNCHANGED <<vars, todo, started, starts, sendVars>>

(* Defect: the document of one account is saved as another's. *)
SaveLink_WrongAccount ==
    /\ startPc = "save"
    /\ \E acct \in Accounts \ {startAcct} : Save(acct, startSt)
    /\ startPc' = "next account"
    /\ startAcct' = Absent
    /\ startSt' = EmptyBlob
    /\ UNCHANGED <<messages, acked, workerVars, envVars, todo, started, starts, sendVars>>

SaveLink ==
    /\ startPc = "save"
    /\ \E b \in Touched(startSt, clock) : Save(startAcct, b)
    /\ startPc' = "next account"
    /\ startAcct' = Absent
    /\ startSt' = EmptyBlob
    /\ UNCHANGED <<messages, acked, workerVars, envVars, todo, started, starts, sendVars>>

StartDone ==
    /\ startPc = "next account"
    /\ todo = {}
    /\ StartReturns(TRUE)
    /\ UNCHANGED <<vars, starts, sendVars>>

(* Defect: Start goes on after a failed save. *)
StartFails_Ignored ==
    /\ startPc = "save"
    /\ faults < MaxFaults
    /\ faults' = faults + 1
    /\ startPc' = "next account"
    /\ startAcct' = Absent
    /\ startSt' = EmptyBlob
    /\ UNCHANGED <<hostVars, workerVars, clock, repeats, todo, started, starts, sendVars>>

(* A call of Start returns an error, or its process dies; an error of the  *)
(* save says nothing about whether it was done.                            *)
StartFails ==
    /\ startPc # "idle"
    /\ faults < MaxFaults
    /\ faults' = faults + 1
    /\ \/ UNCHANGED store
       \/ /\ startPc = "save"
          /\ \E b \in Touched(startSt, clock) : Save(startAcct, b)
    /\ StartReturns(FALSE)
    /\ UNCHANGED <<messages, acked, workerVars, clock, repeats, starts, sendVars>>

Start ==
    \/ EnsureChannel \/ EnsureChannelLinkSession \/ LoadLink \/ SaveLink
    \/ StartDone \/ StartFails

-----------------------------------------------------------------------------
(* Send *)

SendCalled ==
    /\ sending = Absent
    /\ sends < MaxSends
    /\ sends' = sends + 1
    /\ UNCHANGED <<vars, startVars, posted>>

(* No conversation reference: the caller gets an error. *)
SendRefused(acct, chat) ==
    /\ SendCalled
    /\ store[acct].urls[chat] = Absent
    /\ UNCHANGED sending

(* Defect: the service URL is looked up for the chat in any account. *)
SendLoad_AnyAccount(acct, chat) ==
    /\ SendCalled
    /\ \E x \in Accounts :
        /\ store[x].urls[chat] # Absent
        /\ sending' = [account |-> acct, chat |-> chat, url |-> store[x].urls[chat]]

SendLoad(acct, chat) ==
    /\ SendCalled
    /\ store[acct].urls[chat] # Absent
    /\ sending' = [account |-> acct, chat |-> chat, url |-> store[acct].urls[chat]]

SendPost ==
    /\ sending # Absent
    /\ sending.url \in AllowedUrls
    /\ posted' = posted \cup {sending}
    /\ sending' = Absent
    /\ UNCHANGED <<vars, startVars, sends>>

(* The URL is refused, or the token or the post fails (perhaps late). *)
SendFails ==
    /\ sending # Absent
    /\ sending' = Absent
    /\ IF sending.url \in AllowedUrls
       THEN /\ faults < MaxFaults
            /\ faults' = faults + 1
            /\ posted' \in {posted, posted \cup {sending}}
       ELSE UNCHANGED <<faults, posted>>
    /\ UNCHANGED <<hostVars, workerVars, clock, repeats, startVars, sends>>

Send ==
    \/ \E acct \in Accounts, chat \in Chats : SendRefused(acct, chat) \/ SendLoad(acct, chat)
    \/ SendPost
    \/ SendFails

-----------------------------------------------------------------------------
ConnectorNext ==
    \/ Next /\ UNCHANGED <<startVars, sendVars>>
    \/ Start
    \/ Send

ConnectorSpec == ConnectorInit /\ [][ConnectorNext]_connectorVars

(* At most one call of the connector is running. *)
OneCall ==
    /\ \A v, w \in Workers : pc[v] # "idle" /\ pc[w] # "idle" => v = w
    /\ (\E w \in Workers : pc[w] # "idle") => startPc = "idle" /\ sending = Absent
    /\ startPc # "idle" => sending = Absent

(* A host that runs one call of the connector at a time. *)
SerialSpec == ConnectorInit /\ [][ConnectorNext /\ OneCall']_connectorVars

-----------------------------------------------------------------------------
(* Properties. *)

StartTypeOK ==
    /\ startPc \in {"idle", "next account", "load", "save"}
    /\ todo \in SUBSET Accounts
    /\ startAcct \in Accounts \cup {Absent}
    /\ startPc \in {"load", "save"} => startAcct \in Accounts
    /\ startSt \in Blob
    /\ started \in BOOLEAN
    /\ starts \in 0..MaxStarts
    /\ sending \in Message \cup {Absent}
    /\ posted \in SUBSET Message
    /\ sends \in 0..MaxSends

(* A service URL of an account's document came with an activity posted to  *)
(* that account's webhook in that conversation.                            *)
Given(acct, chat, url) ==
    \E a \in Activities : a.account = acct /\ a.chat = chat /\ a.url = url

UrlsGiven(acct, b) ==
    \A chat \in Chats : b.urls[chat] # Absent => Given(acct, chat, b.urls[chat])

(* Messages, and the token in them, are posted only to Bot Framework hosts *)
(* that an activity of the same account and conversation named, whatever   *)
(* stale document was written in between (validateServiceURL and the       *)
(* reference lookup of Send).                                              *)
PostedWhereGiven ==
    \A m \in posted : m.url \in AllowedUrls /\ Given(m.account, m.chat, m.url)

(* What Start writes back is as sound as what a request writes back.       *)
StartInv ==
    /\ StartTypeOK
    /\ startPc = "save" =>
        /\ Sound(startAcct, startSt, messages)
        /\ UrlsGiven(startAcct, startSt)

UrlsInv ==
    /\ \A acct \in Accounts : UrlsGiven(acct, store[acct])
    /\ \A w \in Workers : pc[w] \in Loaded => UrlsGiven(act[w].account, st[w])
    /\ sending # Absent => Given(sending.account, sending.chat, sending.url)

ConnectorInv == InboundInv /\ StartInv /\ UrlsInv /\ PostedWhereGiven

(* The link session of every account is stored once Start has returned     *)
(* (test of Start).  True when nothing else runs meanwhile.                *)
LinkStored == started => \A acct \in Accounts : store[acct].linked

(***************************************************************************)
(* Why those hold of one call at a time: every copy is current, it differs *)
(* from the stored document by what the call has added since its last      *)
(* save; and Start has linked the accounts it has been to.                 *)
(***************************************************************************)
CopyCurrent(w) ==
    LET stored == store[act[w].account] IN
    /\ pc[w] = "save reference" => st[w] = WithReference(stored, act[w])
    /\ pc[w] \in {"ensure session", "create", "reply"} => st[w] = stored
    /\ pc[w] = "save seen" => st[w] = WithMessage(stored, act[w], now[w])
    /\ pc[w] \in {"ensure session", "create", "save seen"} =>
        stored.seen[act[w].id] = Absent

StartCurrent ==
    /\ startPc = "save" => startSt = [store[startAcct] EXCEPT !.linked = TRUE]
    /\ startPc # "idle" =>
        \A acct \in Accounts \ todo :
            store[acct].linked \/ (acct = startAcct /\ startPc \in {"load", "save"})

SerialInv ==
    /\ OneCall
    /\ \A w \in Workers : CopyCurrent(w)
    /\ StartCurrent
    /\ ReferenceStored
    /\ LinkStored
=============================================================================
