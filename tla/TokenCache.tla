----------------------------- MODULE TokenCache -----------------------------
(***************************************************************************)
(* The process-wide cache of app tokens (Client.acquireToken).             *)
(*                                                                         *)
(* There is one entry per credential, with a mutex that a caller holds     *)
(* across its token request, so the callers of one credential queue behind *)
(* one request and mostly find its token.  A token the platform issues     *)
(* lives from then on; the entry's expiry is counted from when the answer  *)
(* arrives, and shortened by a skew to make up for it.  The platform may   *)
(* stop accepting a credential at any time, and may fail in the ways the   *)
(* client tells apart (doForm, errors.go).                                 *)
(***************************************************************************)
EXTENDS Integers, FiniteSets

CONSTANTS Callers,          \* goroutines that call acquireToken
          Creds,            \* credentials
          Incomplete,       \* the ones without a client id or secret
          Registered,       \* the ones the platform accepts at first
          Grants,           \* the lifetimes of tokens and what is said of them
          Refusals,         \* how the platform answers for the others
          Faults,           \* how it answers when it fails
          MaxFaults,        \* bound on failed requests
          MaxCancels,       \* bound on cancelled contexts
          Times,            \* the instants at which something may happen
          LongSkew,         \* 60 s off the expiry of ordinary tokens
          ShortLifetime,    \* 120 s, up to which a token is short-lived,
          SkewDivisor,      \* and a tenth of its life is taken off
          DefaultLifetime,  \* 3600 s, when expires_in is missing
          RequestTimeout,   \* 15 s for one token request
          Nobody, NoToken, NoAnswer, NoCred

Statuses == {"2xx", "400", "401", "403", "408", "429", "5xx"}
Bodies == {"token", "no token", "empty", "garbled",
           "rejecting code", "transient code", "other code"}
Failure == {a \in [status : Statuses, body : Bodies] :
              ~(a.status = "2xx" /\ a.body = "token")}

Grant == [lifetime : Nat, expiresIn : Int]
Token == [cred : Creds, validUntil : Nat]
Entry == [token : Token \cup {NoToken}, expiresAt : Int]
Answer == [status : {"2xx"}, body : {"token"}, token : Token, expiresIn : Int]

(* Errors without an answer: the request or its answer is lost, or late;   *)
(* the answer breaks off in its body; the context is cancelled; nothing    *)
(* was asked because the credential lacks its id or secret.                *)
NoAnswerFor(why) == [status |-> "none", body |-> why]

Lost      == NoAnswerFor("lost")
CutOff    == NoAnswerFor("cut off")
Cancelled == NoAnswerFor("cancelled")
Unasked   == NoAnswerFor("incomplete")
NoError   == NoAnswerFor("none")

Error == Failure \cup {Lost, CutOff, Cancelled, Unasked}

Classes == {"none", "token", "rejected", "retryable", "failed"}
Result == [class : Classes, token : Token \cup {NoToken}, error : Error \cup {NoError}]

ASSUME TokenAssumption ==
    /\ Incomplete \subseteq Creds
    /\ Registered \subseteq Creds \ Incomplete
    /\ Grants \subseteq Grant
    /\ Refusals \cup Faults \subseteq Failure
    /\ MaxFaults \in Nat
    /\ MaxCancels \in Nat
    /\ Times \subseteq Nat
    /\ {LongSkew, ShortLifetime, DefaultLifetime, RequestTimeout} \subseteq Nat
    /\ SkewDivisor \in Nat \ {0}
    /\ Nobody \notin Callers
    /\ NoToken \notin Token
    /\ NoAnswer \notin Answer \cup Failure
    /\ NoCred \notin Creds

VARIABLES accepted,   \* the credentials the platform accepts
          clock,
          faults,
          cancelled,  \* the callers whose context is cancelled
          cancels,
          holder,     \* who holds the mutex of each entry
          entry,      \* the entries
          pc,         \* where each caller is
          cred,       \* the credential it asks for
          sentAt,     \* when it sent its request
          answer,     \* the answer on its way to it
          result      \* what its last call returned

-----------------------------------------------------------------------------
(* The client's reading of errors, and what it returns. *)

(* IsCredentialRejected.  The body of an answer is decoded before its      *)
(* status is looked at, and a 401 or 403 with any code rejects.            *)
Rejected(e) ==
    \/ e.body \in {"rejecting code", "incomplete"}
    \/ e.status \in {"401", "403"} /\ e.body # "garbled"

(* Defect: a network error is final. *)
Retryable_NotLost(e) ==
    \/ e.body \in {"garbled", "transient code"}
    \/ e.status = "2xx" /\ e.body \in {"no token", "empty"}
    \/ e.status \in {"408", "429", "5xx"} /\ e.body # "rejecting code"

(* IsRetryableError.  What Client.Do returns is a net.Error or the         *)
(* context's own error; what reading the body returns need be neither.     *)
Retryable(e) ==
    \/ e.body \in {"garbled", "transient code", "lost"}
    \/ e.status = "2xx" /\ e.body \in {"no token", "empty"}
    \/ e.status \in {"408", "429", "5xx"} /\ e.body # "rejecting code"

Granted(a) == a.status = "2xx" /\ a.body = "token"

(* Defect: every answer with another status than 2xx is a rejection. *)
ClassOf_ByStatus(e) ==
    IF Rejected(e) \/ e.status \notin {"2xx", "none"} THEN "rejected"
    ELSE IF Retryable(e) THEN "retryable" ELSE "failed"

ClassOf(e) ==
    IF Rejected(e) THEN "rejected" ELSE IF Retryable(e) THEN "retryable" ELSE "failed"

Idle      == [class |-> "none", token |-> NoToken, error |-> NoError]
Got(t)    == [class |-> "token", token |-> t, error |-> NoError]
Failed(e) == [class |-> ClassOf(e), token |-> NoToken, error |-> e]

-----------------------------------------------------------------------------
envVars    == <<accepted, clock, faults, cancelled, cancels>>
cacheVars  == <<holder, entry>>
callerVars == <<pc, cred, sentAt, answer, result>>
tokenVars  == <<envVars, cacheVars, callerVars>>

TokenInit ==
    /\ accepted = Registered
    /\ clock = 0
    /\ faults = 0
    /\ cancelled = {}
    /\ cancels = 0
    /\ holder = [k \in Creds |-> Nobody]
    /\ entry = [k \in Creds |-> [token |-> NoToken, expiresAt |-> 0]]
    /\ pc = [c \in Callers |-> "idle"]
    /\ cred = [c \in Callers |-> NoCred]
    /\ sentAt = [c \in Callers |-> 0]
    /\ answer = [c \in Callers |-> NoAnswer]
    /\ result = [c \in Callers |-> Idle]


(* Defect: the secret is no part of the key. *)
CacheKey_NoSecret(cr) == CHOOSE k \in Creds : TRUE

CacheKey(cr) == cr

Lived(expiresIn) == IF expiresIn <= 0 THEN DefaultLifetime ELSE expiresIn

(* Defect: nothing is taken off. *)
Skew_None(life) == 0

Skew(life) == IF life <= ShortLifetime THEN life \div SkewDivisor ELSE LongSkew

(* Defect: expired tokens are served. *)
Usable_EvenExpired(e, time) == e.token # NoToken

Usable(e, time) == e.token # NoToken /\ time < e.expiresAt

Mine(c) == CacheKey(cred[c])

Goto(c, label) == pc' = [pc EXCEPT ![c] = label]

(* Defect: the mutex is not released on return. *)
Return_Locked(c, r) ==
    /\ result' = [result EXCEPT ![c] = r]
    /\ sentAt' = [sentAt EXCEPT ![c] = 0]
    /\ answer' = [answer EXCEPT ![c] = NoAnswer]
    /\ Goto(c, "returned")
    /\ UNCHANGED holder

(* acquireToken returns r and releases the mutex. *)
Return(c, r) ==
    /\ result' = [result EXCEPT ![c] = r]
    /\ sentAt' = [sentAt EXCEPT ![c] = 0]
    /\ answer' = [answer EXCEPT ![c] = NoAnswer]
    /\ Goto(c, "returned")
    /\ holder' = [holder EXCEPT ![Mine(c)] = Nobody]

-----------------------------------------------------------------------------
(* acquireToken *)

Begin(c, cr) ==
    /\ pc[c] = "idle"
    /\ cred' = [cred EXCEPT ![c] = cr]
    /\ UNCHANGED <<envVars, cacheVars, sentAt, answer>>

(* A credential without id or secret is rejected before the cache. *)
CallIncomplete(c, cr) ==
    /\ cr \in Incomplete
    /\ Begin(c, cr)
    /\ result' = [result EXCEPT ![c] = Failed(Unasked)]
    /\ Goto(c, "returned")

Call(c, cr) ==
    /\ cr \notin Incomplete
    /\ Begin(c, cr)
    /\ UNCHANGED result
    /\ Goto(c, "lock")

(* Defect: the mutex is not waited for. *)
Lock_Free(c) ==
    /\ pc[c] = "lock"
    /\ holder' = [holder EXCEPT ![Mine(c)] = c]
    /\ Goto(c, "locked")
    /\ UNCHANGED <<envVars, entry, cred, sentAt, answer, result>>

Lock(c) ==
    /\ pc[c] = "lock"
    /\ holder[Mine(c)] = Nobody
    /\ holder' = [holder EXCEPT ![Mine(c)] = c]
    /\ Goto(c, "locked")
    /\ UNCHANGED <<envVars, entry, cred, sentAt, answer, result>>

Hit(c) ==
    /\ pc[c] = "locked"
    /\ Usable(entry[Mine(c)], clock)
    /\ Return(c, Got(entry[Mine(c)].token))
    /\ UNCHANGED <<envVars, entry, cred>>

Request(c) ==
    /\ pc[c] = "locked"
    /\ ~Usable(entry[Mine(c)], clock)
    /\ sentAt' = [sentAt EXCEPT ![c] = clock]
    /\ Goto(c, "asked")
    /\ UNCHANGED <<envVars, cacheVars, cred, answer, result>>

Store(k, a) ==
    LET life == Lived(a.expiresIn) IN
    entry' = [entry EXCEPT ![k] =
        [token |-> a.token, expiresAt |-> clock + life - Skew(life)]]

(* A token arrives: it is cached and returned. *)
Response(c) ==
    /\ pc[c] = "answered"
    /\ Granted(answer[c])
    /\ Store(Mine(c), answer[c])
    /\ Return(c, Got(answer[c].token))
    /\ UNCHANGED <<envVars, cred>>

(* An error arrives: the entry stays as it is. *)
ErrorResponse(c) ==
    /\ pc[c] = "answered"
    /\ ~Granted(answer[c])
    /\ Return(c, Failed(answer[c]))
    /\ UNCHANGED <<envVars, entry, cred>>

(* The request ends without a whole answer: it is lost, it times out, its  *)
(* answer breaks off, or the caller's context is cancelled or past its     *)
(* deadline (which reads like a time-out).                                 *)
RequestFails(c) ==
    /\ pc[c] \in {"asked", "answered"}
    /\ \/ /\ faults < MaxFaults
          /\ faults' = faults + 1
          /\ \E e \in {Lost, CutOff} : Return(c, Failed(e))
       \/ /\ c \in cancelled
          /\ \E e \in {Lost, Cancelled} : Return(c, Failed(e))
          /\ UNCHANGED faults
    /\ UNCHANGED <<accepted, clock, cancelled, cancels, entry, cred>>

-----------------------------------------------------------------------------
(* The platform, the caller's context, and time. *)

Answered(c, a) ==
    /\ pc[c] = "asked"
    /\ answer' = [answer EXCEPT ![c] = a]
    /\ Goto(c, "answered")
    /\ UNCHANGED <<accepted, clock, cancelled, cancels, cacheVars, cred, sentAt, result>>

Issue(c) ==
    /\ cred[c] \in accepted
    /\ \E g \in Grants :
        Answered(c, [status |-> "2xx", body |-> "token",
                     token |-> [cred |-> cred[c], validUntil |-> clock + g.lifetime],
                     expiresIn |-> g.expiresIn])
    /\ UNCHANGED faults

Refuse(c) ==
    /\ cred[c] \notin accepted
    /\ \E r \in Refusals : Answered(c, r)
    /\ UNCHANGED faults

FaultyAnswer(c) ==
    /\ faults < MaxFaults
    /\ faults' = faults + 1
    /\ \E f \in Faults : Answered(c, f)

(* A secret expires, is replaced or is revoked. *)
Revoke(cr) ==
    /\ cr \in accepted
    /\ accepted' = accepted \ {cr}
    /\ UNCHANGED <<clock, faults, cancelled, cancels, cacheVars, callerVars>>

(* Who waits for the mutex does not notice. *)
Cancel(c) ==
    /\ pc[c] # "idle"
    /\ c \notin cancelled
    /\ cancels < MaxCancels
    /\ cancels' = cancels + 1
    /\ cancelled' = cancelled \cup {c}
    /\ UNCHANGED <<accepted, clock, faults, cacheVars, callerVars>>

(* No request lasts longer than RequestTimeout. *)
Tick(time) ==
    /\ clock < time
    /\ \A c \in Callers :
        pc[c] \in {"asked", "answered"} => time <= sentAt[c] + RequestTimeout
    /\ clock' = time
    /\ UNCHANGED <<accepted, faults, cancelled, cancels, cacheVars, callerVars>>

(* What SendText does with the outcome is no concern of the cache; its     *)
(* context goes with the call.                                             *)
Done(c) ==
    /\ pc[c] = "returned"
    /\ Goto(c, "idle")
    /\ cred' = [cred EXCEPT ![c] = NoCred]
    /\ result' = [result EXCEPT ![c] = Idle]
    /\ cancelled' = cancelled \ {c}
    /\ UNCHANGED <<accepted, clock, faults, cancels, cacheVars, sentAt, answer>>

RequestEnds(c) ==
    \/ Issue(c) \/ Refuse(c) \/ FaultyAnswer(c)
    \/ Response(c) \/ ErrorResponse(c) \/ RequestFails(c)

Acquire(c) == Lock(c) \/ Hit(c) \/ Request(c) \/ RequestEnds(c)

Environment ==
    \/ \E cr \in Creds : Revoke(cr)
    \/ \E c \in Callers : Cancel(c)
    \/ \E time \in Times : Tick(time)

TokenNext ==
    \/ \E c \in Callers, cr \in Creds : CallIncomplete(c, cr) \/ Call(c, cr)
    \/ \E c \in Callers : Acquire(c) \/ Done(c)
    \/ Environment

TokenSpec == TokenInit /\ [][TokenNext]_tokenVars

(* Every request ends (its context has a time-out), a goroutine goes on,   *)
(* and a mutex that is released again and again is given in the end to     *)
(* whoever waits for it (sync.Mutex serves a starving waiter first).       *)
AcquireFairness ==
    \A c \in Callers :
        /\ SF_tokenVars(Lock(c))
        /\ WF_tokenVars(Hit(c) \/ Request(c) \/ RequestEnds(c))

TokenFairSpec == TokenSpec /\ AcquireFairness

-----------------------------------------------------------------------------
(* Properties. *)

TokenTypeOK ==
    /\ accepted \in SUBSET Creds
    /\ clock \in Nat
    /\ faults \in 0..MaxFaults
    /\ cancelled \in SUBSET Callers
    /\ cancels \in 0..MaxCancels
    /\ holder \in [Creds -> Callers \cup {Nobody}]
    /\ entry \in [Creds -> Entry]
    /\ pc \in [Callers -> {"idle", "lock", "locked", "asked", "answered", "returned"}]
    /\ cred \in [Callers -> Creds \cup {NoCred}]
    /\ sentAt \in [Callers -> Nat]
    /\ answer \in [Callers -> Answer \cup Failure \cup {NoAnswer}]
    /\ result \in [Callers -> Result]
    /\ \A c \in Callers :
        /\ pc[c] # "idle" => cred[c] \in Creds
        /\ pc[c] = "answered" <=> answer[c] # NoAnswer

InCall(c) == pc[c] \in {"locked", "asked", "answered"}
InRequest(c) == pc[c] \in {"asked", "answered"}

(* The callers of one credential send one request between them: none is    *)
(* sent, or still under way, while a usable token is cached (test          *)
(* TestClientAppTokenCacheIsSharedAcrossClients, for concurrent callers).  *)
NoNeedlessRequest ==
    \A c \in Callers : InRequest(c) => ~Usable(entry[Mine(c)], clock)

(* A caller gets a token only of its own credential, one the platform has  *)
(* accepted: whoever shares the cache, a wrong or incomplete credential    *)
(* gets none.                                                              *)
OwnToken ==
    \A c \in Callers : result[c].class = "token" =>
        /\ result[c].token.cred = cred[c]
        /\ cred[c] \in Registered

(* A token that is returned is still valid at the platform, however late   *)
(* its answer came (comment of AppToken: "a valid Bot Framework access     *)
(* token").  True when the skew covers the time-out.                       *)
ReturnedValid ==
    [][\A c \in Callers :
        result'[c] # result[c] /\ result'[c].class = "token" =>
            clock < result'[c].token.validUntil]_tokenVars

(* Whoever holds the mutex of an entry, and nobody else, is in the middle  *)
(* of a call for it.                                                       *)
MutexInv ==
    \A c \in Callers, k \in Creds : holder[k] = c <=> InCall(c) /\ Mine(c) = k

TokensInv ==
    /\ accepted \subseteq Registered
    /\ \A k \in Creds : entry[k].token # NoToken =>
        /\ entry[k].token.cred = k
        /\ k \in Registered
    /\ \A c \in Callers : pc[c] = "answered" /\ Granted(answer[c]) =>
        /\ answer[c].token.cred = cred[c]
        /\ cred[c] \in Registered
    /\ \A c \in Callers : result[c].class = "token" => pc[c] = "returned"

(* The grants for which the skew covers the time-out. *)
SafeGrants ==
    \A g \in Grants :
        /\ Lived(g.expiresIn) <= g.lifetime
        /\ RequestTimeout <= Skew(Lived(g.expiresIn))
        /\ RequestTimeout < g.lifetime

(* A cached token is dropped before it expires, and one on its way back    *)
(* has lost no more of its life than the request has taken.                *)
LifetimeInv ==
    /\ \A k \in Creds : entry[k].token # NoToken =>
        entry[k].expiresAt <= entry[k].token.validUntil
    /\ \A c \in Callers : InRequest(c) =>
        sentAt[c] <= clock /\ clock <= sentAt[c] + RequestTimeout
    /\ \A c \in Callers : pc[c] = "answered" /\ Granted(answer[c]) =>
        \E g \in Grants :
            /\ answer[c].expiresIn = g.expiresIn
            /\ sentAt[c] + g.lifetime <= answer[c].token.validUntil

TokenInv == TokenTypeOK /\ MutexInv /\ TokensInv /\ NoNeedlessRequest /\ OwnToken

(* Every call returns: no error path keeps the mutex, and no caller waits  *)
(* behind others for ever.                                                 *)
EventuallyReturns == \A c \in Callers : pc[c] = "lock" ~> pc[c] = "returned"
=============================================================================
