------------------------------- MODULE Webhook -------------------------------
(***************************************************************************)
(* The webhook entry point (HandleWebhookRequest, VerifyWebhookToken):     *)
(* from the post of an activity to its HTTP status.                        *)
(*                                                                         *)
(* A request reads and decodes the body, checks what the token says, with  *)
(* the time taken before the keys are asked for, then looks its key up in  *)
(* the cache that all requests share (KeyCache, whose steps are the steps  *)
(* of keyFor here), and hands the activity to HandleWebhook.               *)
(***************************************************************************)
EXTENDS KeyCache

CONSTANTS Posts,      \* what is posted
          Channels,   \* channel ids of activities
          Endorsed,   \* the channels each key is endorsed for
          MaxBody,    \* maxWebhookBodyBytes, 4 MiB
          ClockSkew,  \* clockSkew, 5 min
          Absent      \* an empty string, no answer

(* A post: its body, what VerifyWebhookToken finds of its token, and the   *)
(* channel its activity names.  "flawed": a check fails that needs neither *)
(* the time nor the key (scheme, segments, alg, iss, aud, serviceurl).     *)
(* "signed": the signature is that of the key named by kid.                *)
Post == [size : Nat, readable : BOOLEAN, decodes : BOOLEAN, flawed : BOOLEAN,
         nbf : Nat \cup {Never}, exp : Nat \cup {Never},
         kid : Kids \cup {NoKid}, signed : BOOLEAN,
         channel : Channels \cup {Absent}]

ASSUME WebhookAssumption ==
    /\ Posts \subseteq Post
    /\ Absent \notin Posts \cup Channels \cup Nat
    /\ Endorsed \in [Kids -> SUBSET Channels]
    /\ {MaxBody, ClockSkew} \subseteq Nat

VARIABLES stage,      \* where each request is
          post,       \* what it handles
          checkedAt,  \* the time its token was checked for
          reply       \* its last answer

hookVars    == <<stage, post, checkedAt, reply>>
webhookVars == <<keyVars, hookVars>>

Stages == {"idle", "received", "verifying", "handling"}
Statuses == {200, 400, 403, 413, 500}

WebhookInit ==
    /\ KeyInit
    /\ stage = [r \in Requests |-> "idle"]
    /\ post = [r \in Requests |-> Absent]
    /\ checkedAt = [r \in Requests |-> 0]
    /\ reply = [r \in Requests |-> Absent]

-----------------------------------------------------------------------------
(* The checks. *)

(* The reader is limited to one byte more than a body may have. *)
BytesRead(p) == IF p.size < MaxBody + 1 THEN p.size ELSE MaxBody + 1

BodyAccepted(p) == p.readable /\ BytesRead(p) <= MaxBody /\ p.decodes

BodyStatus(p) == IF p.readable /\ BytesRead(p) > MaxBody THEN 413 ELSE 400

(* Defect: the window is not widened where it ends. *)
ClaimsHold_Strict(p, time) ==
    /\ ~p.flawed
    /\ p.exp # Never
    /\ time <= p.exp
    /\ p.nbf # Never => p.nbf <= time + ClockSkew

(* What the token says, up to its key id: an expiry is required, a start   *)
(* is not, and both ends of the window are widened and belong to it.       *)
ClaimsHold(p, time) ==
    /\ ~p.flawed
    /\ p.exp # Never
    /\ time <= p.exp + ClockSkew
    /\ p.nbf # Never => p.nbf <= time + ClockSkew

KeyAccepted(p) ==
    /\ p.channel # Absent => p.channel \in Endorsed[p.kid]
    /\ p.signed

-----------------------------------------------------------------------------
(* The steps of a request. *)

(* Defect: the handler goes on after its error. *)
Answer_NoReturn(r, status) ==
    /\ reply' = [reply EXCEPT ![r] = status]
    /\ UNCHANGED <<stage, post, checkedAt>>

Answer(r, status) ==
    /\ stage' = [stage EXCEPT ![r] = "idle"]
    /\ reply' = [reply EXCEPT ![r] = status]
    /\ post' = [post EXCEPT ![r] = Absent]
    /\ checkedAt' = [checkedAt EXCEPT ![r] = 0]

(* Posts that wait to be checked; each may need one of MaxLookups lookups. *)
Waiting == {s \in Requests : stage[s] = "received"}

Receive(r, p) ==
    /\ stage[r] = "idle"
    /\ lookups + Cardinality(Waiting) < MaxLookups
    /\ stage' = [stage EXCEPT ![r] = "received"]
    /\ post' = [post EXCEPT ![r] = p]
    /\ reply' = [reply EXCEPT ![r] = Absent]
    /\ UNCHANGED <<keyVars, checkedAt>>

RejectBody(r) ==
    /\ stage[r] = "received"
    /\ ~BodyAccepted(post[r])
    /\ Answer(r, BodyStatus(post[r]))
    /\ UNCHANGED keyVars

(* Refused before the keys are asked for; keyFor refuses an empty kid. *)
RejectClaims(r) ==
    /\ stage[r] = "received"
    /\ BodyAccepted(post[r])
    /\ ~ClaimsHold(post[r], clock) \/ post[r].kid = NoKid
    /\ Answer(r, 403)
    /\ UNCHANGED keyVars

AskForKey(r) ==
    /\ stage[r] = "received"
    /\ BodyAccepted(post[r])
    /\ ClaimsHold(post[r], clock)
    /\ post[r].kid # NoKid
    /\ KeyFor(r, post[r].kid)
    /\ stage' = [stage EXCEPT ![r] = "verifying"]
    /\ checkedAt' = [checkedAt EXCEPT ![r] = clock]
    /\ UNCHANGED <<post, reply>>

(* Defect: a key set that could not be fetched is not held against a token. *)
Accept_OnError(r) ==
    /\ pc[r] \in {"found", "error"}
    /\ KeyAccepted(post[r])
    /\ Finish(r)
    /\ stage' = [stage EXCEPT ![r] = "handling"]
    /\ checkedAt' = [checkedAt EXCEPT ![r] = 0]
    /\ UNCHANGED <<post, reply>>

Accept(r) ==
    /\ pc[r] = "found"
    /\ KeyAccepted(post[r])
    /\ Finish(r)
    /\ stage' = [stage EXCEPT ![r] = "handling"]
    /\ checkedAt' = [checkedAt EXCEPT ![r] = 0]
    /\ UNCHANGED <<post, reply>>

(* An unknown key, a failed fetch, and a key or a signature that does not  *)
(* fit are all answered alike.                                             *)
RejectKey(r) ==
    /\ \/ pc[r] \in {"unknown", "error"}
       \/ pc[r] = "found" /\ ~KeyAccepted(post[r])
    /\ Finish(r)
    /\ Answer(r, 403)

(* What HandleWebhook returns is the subject of Inbound. *)
HandleWebhook(r) ==
    /\ stage[r] = "handling"
    /\ \E status \in {200, 500} : Answer(r, status)
    /\ UNCHANGED keyVars

(* Time passes only while a request waits, and while it waits for keys no  *)
(* longer than its two HTTP requests may take; the checks take none.       *)
WebhookTick ==
    /\ Tick
    /\ \A r \in Requests : stage[r] = "verifying" =>
        InFetch(r) /\ clock < checkedAt[r] + 2 * FetchTimeout
    /\ UNCHANGED hookVars

Respond(r) ==
    \/ RejectBody(r) \/ RejectClaims(r) \/ AskForKey(r)
    \/ Lookup(r) /\ UNCHANGED hookVars
    \/ Accept(r) \/ RejectKey(r) \/ HandleWebhook(r)

WebhookNext ==
    \/ \E r \in Requests : (\E p \in Posts : Receive(r, p)) \/ Respond(r)
    \/ \E k \in Kids : (Publish(k) \/ Withdraw(k)) /\ UNCHANGED hookVars
    \/ WebhookTick

WebhookSpec == WebhookInit /\ [][WebhookNext]_webhookVars

(* The goroutine of a request runs; an HTTP request it sends ends.         *)
WebhookFairSpec == WebhookSpec /\ \A r \in Requests : WF_webhookVars(Respond(r))

-----------------------------------------------------------------------------
(* Properties. *)

WebhookTypeOK ==
    /\ stage \in [Requests -> Stages]
    /\ post \in [Requests -> Posts \cup {Absent}]
    /\ checkedAt \in [Requests -> Nat]
    /\ reply \in [Requests -> Statuses \cup {Absent}]

(* What holds at each stage.  A request looks its key up exactly while it  *)
(* verifies, for the key its own token names; the token was good when it   *)
(* was checked, which is at most two time-outs ago.                        *)
StageInv(r) ==
    /\ stage[r] # "idle" => post[r] \in Posts /\ reply[r] = Absent
    /\ stage[r] = "verifying" <=> pc[r] # "idle"
    /\ stage[r] = "verifying" =>
        /\ kid[r] = post[r].kid
        /\ BodyAccepted(post[r])
        /\ ClaimsHold(post[r], checkedAt[r])
        /\ checkedAt[r] <= clock
        /\ clock <= checkedAt[r] + 2 * FetchTimeout
    /\ pc[r] = "found" => Trusted(kid[r])

(* The inductive invariant of the webhook, beside that of the key cache.   *)
WebhookInv == WebhookTypeOK /\ \A r \in Requests : StageInv(r)

(* A post that its sender may expect to be accepted at a time: whole, not  *)
(* too large, signed with a key endorsed for its channel, and valid by a   *)
(* clock that differs from ours by at most the skew.                       *)
ValidAt(p, time) ==
    \E theirs \in 0..(time + ClockSkew) :
        /\ time <= theirs + ClockSkew
        /\ p.nbf # Never => p.nbf <= theirs
        /\ p.exp # Never /\ theirs <= p.exp

Honest(p, time) ==
    /\ p.readable /\ p.decodes /\ p.size <= MaxBody
    /\ ~p.flawed
    /\ p.kid # NoKid /\ p.signed
    /\ p.channel # Absent => p.channel \in Endorsed[p.kid]
    /\ ValidAt(p, time)

DecidedAt(r) == IF stage[r] = "verifying" THEN checkedAt[r] ELSE clock

(* An honest post is turned away with 400, 403 or 413 only if a fetch of   *)
(* keys failed, or if its key was not published throughout: not because    *)
(* clocks differ by the skew, requests overlap, or old key sets come late. *)
HonestServed ==
    [][\A r \in Requests :
        reply'[r] # reply[r] /\ reply'[r] \in {400, 403, 413} =>
            \/ ~Honest(post[r], DecidedAt(r))
            \/ faults > 0
            \/ stage[r] = "verifying" /\ ~steady[r]]_webhookVars

(* Although the time is taken before the keys are fetched and the key may  *)
(* come from the cache, HandleWebhook is given an activity only whole,     *)
(* with a token free of other flaws, within its window, two time-outs more *)
(* at its end, and signed with an endorsed key that is published, or was   *)
(* within the life of the cache and one answer.                            *)
HandledInTime ==
    [][\A r \in Requests : stage[r] # "handling" /\ stage'[r] = "handling" =>
        /\ post[r].readable /\ post[r].decodes /\ post[r].size <= MaxBody
        /\ ~post[r].flawed
        /\ clock <= post[r].exp + ClockSkew + 2 * FetchTimeout
        /\ post[r].nbf # Never => post[r].nbf <= clock + ClockSkew
        /\ KeyAccepted(post[r])
        /\ Trusted(post[r].kid)]_webhookVars

(* Every post is answered, whatever fails and whoever else looks keys up.  *)
EveryPostAnswered ==
    \A r \in Requests : stage[r] = "received" ~> reply[r] # Absent
=============================================================================
