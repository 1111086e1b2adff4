-------------------------- MODULE TokenCacheProofs --------------------------
(***************************************************************************)
(* Theorems about TokenCache, for any number of callers and credentials,   *)
(* any timing and any failures: one request per credential, tokens only of *)
(* the own credential, and no expired token when the skew covers the       *)
(* time-out of a request.                                                  *)
(***************************************************************************)
EXTENDS TokenCache, TLAPS

(* Counters stay below their bounds. *)
LEMMA Bounded ==
    ASSUME NEW n, NEW m \in Nat, n \in 0..m, n < m
    PROVE  n + 1 \in 0..m
OBVIOUS

(* The life of a token and what is taken off it are whole seconds.         *)
LEMMA SkewType ==
    ASSUME NEW e \in Int
    PROVE  Lived(e) \in Nat /\ Skew(Lived(e)) \in Nat
<1>1. Lived(e) \in Nat
  BY TokenAssumption DEF Lived
<1>2. ASSUME NEW life \in Nat PROVE life \div SkewDivisor \in Nat
  BY TokenAssumption
<1> QED
  BY <1>1, <1>2, TokenAssumption DEF Skew

(* Only an answer with a token grants one.                                 *)
LEMMA GrantedIsAnswer ==
    ASSUME NEW a \in Answer \cup Failure
    PROVE  /\ Granted(a) <=> a \in Answer
           /\ Granted(a) => a.token \in Token /\ a.expiresIn \in Int
<1>1. ASSUME a \in Answer PROVE Granted(a) /\ a.token \in Token /\ a.expiresIn \in Int
  BY <1>1 DEF Answer, Granted
<1>2. ASSUME a \in Failure PROVE ~Granted(a)
  BY <1>2 DEF Failure, Granted
<1> QED
  BY <1>1, <1>2

(* What a call returns is a token, or an error and its class.              *)
LEMMA ResultTypes ==
    /\ \A t \in Token : Got(t) \in Result /\ Got(t).class = "token" /\ Got(t).token = t
    /\ \A e \in Error : Failed(e) \in Result
    /\ \A e : Failed(e).class = ClassOf(e) /\ Failed(e).error = e
    /\ \A e : ClassOf(e) \in {"rejected", "retryable", "failed"}
<1>1. \A e : ClassOf(e) \in {"rejected", "retryable", "failed"}
  BY DEF ClassOf
<1>2. \A e \in Error : Failed(e) \in Result
  BY <1>1 DEF Failed, Result, Classes
<1> QED
  BY <1>1, <1>2 DEF Got, Failed, Result, Classes

(* A request that fails says so, and leaves the entry as it is.            *)
LEMMA RequestFailure ==
    ASSUME NEW c \in Callers, RequestFails(c)
    PROVE  /\ \E e \in {Lost, CutOff, Cancelled} : e \in Error /\ Return(c, Failed(e))
           /\ faults' = faults \/ (faults < MaxFaults /\ faults' = faults + 1)
BY DEF RequestFails, Error

(* At the start nothing is cached and nobody asks.                         *)
LEMMA TokenInitially == TokenInit => TokenInv
<1> SUFFICES ASSUME TokenInit PROVE TokenInv
  OBVIOUS
<1> USE TokenAssumption DEF TokenInit
<1>1. TokenTypeOK
  BY DEF TokenTypeOK, Entry, Result, Classes, Idle
<1>2. MutexInv /\ TokensInv /\ NoNeedlessRequest /\ OwnToken
  BY DEF MutexInv, TokensInv, NoNeedlessRequest, OwnToken, InCall, InRequest, Idle
<1> QED
  BY <1>1, <1>2 DEF TokenInv

(* Every step keeps the types. *)
LEMMA TokenTypeStep == TokenTypeOK /\ [TokenNext]_tokenVars => TokenTypeOK'
<1> SUFFICES ASSUME TokenTypeOK, [TokenNext]_tokenVars PROVE TokenTypeOK'
  OBVIOUS
<1> USE TokenAssumption DEF TokenTypeOK, Goto, Mine, CacheKey, Idle, Result, Classes,
       Entry, envVars, cacheVars, callerVars
<1>1. ASSUME NEW c \in Callers, NEW cr \in Creds, CallIncomplete(c, cr) PROVE TokenTypeOK'
  <2>1. Failed(Unasked) \in Result
    BY ResultTypes DEF Error
  <2> QED
    BY <1>1, <2>1 DEF CallIncomplete, Begin
<1>2. ASSUME NEW c \in Callers, NEW cr \in Creds, Call(c, cr) PROVE TokenTypeOK'
  BY <1>2 DEF Call, Begin
<1>3. ASSUME NEW c \in Callers, Lock(c) PROVE TokenTypeOK'
  BY <1>3 DEF Lock
<1>4. ASSUME NEW c \in Callers, Hit(c) PROVE TokenTypeOK'
  BY <1>4 DEF Hit, Return, Got
<1>5. ASSUME NEW c \in Callers, Request(c) PROVE TokenTypeOK'
  BY <1>5 DEF Request
<1>6. ASSUME NEW c \in Callers, Issue(c) PROVE TokenTypeOK'
  <2>1. PICK g \in Grants :
          Answered(c, [status |-> "2xx", body |-> "token",
                       token |-> [cred |-> cred[c], validUntil |-> clock + g.lifetime],
                       expiresIn |-> g.expiresIn])
    BY <1>6 DEF Issue
  <2> DEFINE t == [cred |-> cred[c], validUntil |-> clock + g.lifetime]
             a == [status |-> "2xx", body |-> "token", token |-> t, expiresIn |-> g.expiresIn]
  <2>2. g.lifetime \in Nat /\ g.expiresIn \in Int
    BY DEF Grant
  <2>3. clock + g.lifetime \in Nat
    BY <2>2
  <2>4. cred[c] \in Creds
    BY <1>6 DEF Issue
  <2>5. a \in Answer
    BY <2>2, <2>3, <2>4 DEF Answer, Token
  <2>6. Answered(c, a) /\ UNCHANGED faults
    BY <1>6, <2>1 DEF Issue
  <2> HIDE DEF a
  <2> QED
    BY <2>5, <2>6 DEF Answered
<1>7. ASSUME NEW c \in Callers, Refuse(c) PROVE TokenTypeOK'
  BY <1>7 DEF Refuse, Answered
<1>8. ASSUME NEW c \in Callers, FaultyAnswer(c) PROVE TokenTypeOK'
  BY <1>8 DEF FaultyAnswer, Answered
<1>9. ASSUME NEW c \in Callers, Response(c) PROVE TokenTypeOK'
  <2>1. answer[c] \in Answer
    BY <1>9, GrantedIsAnswer DEF Response
  <2>2. answer[c].token \in Token /\ answer[c].expiresIn \in Int
    BY <2>1 DEF Answer
  <2> DEFINE life == Lived(answer[c].expiresIn)
             expiry == clock + life - Skew(life)
  <2>3. expiry \in Int
    <3>1. life \in Nat /\ Skew(life) \in Nat
      BY <2>2, SkewType
    <3> HIDE DEF life
    <3> QED
      BY <3>1
  <2>4. [token |-> answer[c].token, expiresAt |-> expiry] \in Entry
    BY <2>2, <2>3
  <2>5. entry' = [entry EXCEPT ![Mine(c)] = [token |-> answer[c].token, expiresAt |-> expiry]]
    BY <1>9 DEF Response, Store
  <2> HIDE DEF expiry
  <2>6. Got(answer[c].token) \in Result
    BY <2>2, ResultTypes
  <2>7. entry' \in [Creds -> Entry]
    BY <2>4, <2>5
  <2> QED
    BY <1>9, <2>6, <2>7 DEF Response, Return
<1>10. ASSUME NEW c \in Callers, ErrorResponse(c) PROVE TokenTypeOK'
  <2>1. answer[c] \in Error
    BY <1>10, GrantedIsAnswer DEF ErrorResponse, Error
  <2>2. Failed(answer[c]) \in Result
    BY <2>1, ResultTypes
  <2> QED
    BY <1>10, <2>2 DEF ErrorResponse, Return
<1>11. ASSUME NEW c \in Callers, RequestFails(c) PROVE TokenTypeOK'
  <2>1. PICK e \in Error : Return(c, Failed(e))
    BY <1>11, RequestFailure
  <2>2. Failed(e) \in Result
    BY ResultTypes
  <2>3. faults' \in 0..MaxFaults
    BY <1>11, RequestFailure, Bounded
  <2> QED
    BY <1>11, <2>1, <2>2, <2>3 DEF RequestFails, Return
<1>12. ASSUME NEW c \in Callers, Done(c) PROVE TokenTypeOK'
  BY <1>12 DEF Done
<1>13. ASSUME NEW cr \in Creds, Revoke(cr) PROVE TokenTypeOK'
  BY <1>13 DEF Revoke
<1>14. ASSUME NEW c \in Callers, Cancel(c) PROVE TokenTypeOK'
  BY <1>14 DEF Cancel
<1>15. ASSUME NEW time \in Times, Tick(time) PROVE TokenTypeOK'
  BY <1>15 DEF Tick
<1>16. CASE UNCHANGED tokenVars
  BY <1>16 DEF tokenVars
<1> QED
  BY <1>1, <1>2, <1>3, <1>4, <1>5, <1>6, <1>7, <1>8,
     <1>9, <1>10, <1>11, <1>12, <1>13, <1>14, <1>15, <1>16
  DEF TokenNext, Acquire, RequestEnds, Environment

(* Every step keeps the mutex in the hands of who is in the call. *)
LEMMA MutexStep == TokenInv /\ [TokenNext]_tokenVars => MutexInv'
<1> SUFFICES ASSUME TokenInv, [TokenNext]_tokenVars PROVE MutexInv'
  OBVIOUS
<1> USE TokenAssumption DEF TokenInv, TokenTypeOK, MutexInv, InCall, Goto, Mine, CacheKey,
       envVars, cacheVars, callerVars
<1>1. ASSUME NEW c \in Callers, NEW cr \in Creds, CallIncomplete(c, cr) PROVE MutexInv'
  BY <1>1 DEF CallIncomplete, Begin
<1>2. ASSUME NEW c \in Callers, NEW cr \in Creds, Call(c, cr) PROVE MutexInv'
  BY <1>2 DEF Call, Begin
<1>3. ASSUME NEW c \in Callers, Lock(c) PROVE MutexInv'
  BY <1>3 DEF Lock
<1>4. ASSUME NEW c \in Callers, Hit(c) PROVE MutexInv'
  BY <1>4 DEF Hit, Return, Got
<1>5. ASSUME NEW c \in Callers, Request(c) PROVE MutexInv'
  BY <1>5 DEF Request
<1>6. ASSUME NEW c \in Callers, Issue(c) PROVE MutexInv'
  BY <1>6 DEF Issue, Answered
<1>7. ASSUME NEW c \in Callers, Refuse(c) PROVE MutexInv'
  BY <1>7 DEF Refuse, Answered
<1>8. ASSUME NEW c \in Callers, FaultyAnswer(c) PROVE MutexInv'
  BY <1>8 DEF FaultyAnswer, Answered
<1>9. ASSUME NEW c \in Callers, Response(c) PROVE MutexInv'
  BY <1>9 DEF Response, Return, Got, Store
<1>10. ASSUME NEW c \in Callers, ErrorResponse(c) PROVE MutexInv'
  BY <1>10 DEF ErrorResponse, Return, Failed
<1>11. ASSUME NEW c \in Callers, RequestFails(c) PROVE MutexInv'
  BY <1>11 DEF RequestFails, Return, Failed
<1>12. ASSUME NEW c \in Callers, Done(c) PROVE MutexInv'
  BY <1>12 DEF Done
<1>13. ASSUME NEW cr \in Creds, Revoke(cr) PROVE MutexInv'
  BY <1>13 DEF Revoke
<1>14. ASSUME NEW c \in Callers, Cancel(c) PROVE MutexInv'
  BY <1>14 DEF Cancel
<1>15. ASSUME NEW time \in Times, Tick(time) PROVE MutexInv'
  BY <1>15 DEF Tick
<1>16. CASE UNCHANGED tokenVars
  BY <1>16 DEF tokenVars
<1> QED
  BY <1>1, <1>2, <1>3, <1>4, <1>5, <1>6, <1>7, <1>8,
     <1>9, <1>10, <1>11, <1>12, <1>13, <1>14, <1>15, <1>16
  DEF TokenNext, Acquire, RequestEnds, Environment

(* Every step keeps tokens with the credential they were issued for. *)
LEMMA TokensStep == TokenInv /\ [TokenNext]_tokenVars => (TokensInv /\ OwnToken)'
<1> SUFFICES ASSUME TokenInv, [TokenNext]_tokenVars PROVE (TokensInv /\ OwnToken)'
  OBVIOUS
<1> USE TokenAssumption DEF TokenInv, TokenTypeOK, TokensInv, OwnToken, Goto, Mine,
       CacheKey, Idle, envVars, cacheVars, callerVars
<1>1. ASSUME NEW c \in Callers, NEW cr \in Creds, CallIncomplete(c, cr)
      PROVE (TokensInv /\ OwnToken)'
  <2>1. Failed(Unasked).class # "token"
    BY ResultTypes
  <2> QED
    BY <1>1, <2>1 DEF CallIncomplete, Begin
<1>2. ASSUME NEW c \in Callers, NEW cr \in Creds, Call(c, cr) PROVE (TokensInv /\ OwnToken)'
  BY <1>2 DEF Call, Begin
<1>3. ASSUME NEW c \in Callers, Lock(c) PROVE (TokensInv /\ OwnToken)'
  BY <1>3 DEF Lock
<1>4. ASSUME NEW c \in Callers, Hit(c) PROVE (TokensInv /\ OwnToken)'
  <2> DEFINE k == cred[c]
  <2>1. k \in Creds /\ entry[k].token # NoToken /\ entry[k].token \in Token
    BY <1>4 DEF Hit, Usable, Entry
  <2>2. entry[k].token.cred = k /\ k \in Registered
    BY <2>1
  <2>3. Got(entry[k].token).token = entry[k].token
    BY <2>1, ResultTypes
  <2>4. Return(c, Got(entry[k].token)) /\ UNCHANGED <<accepted, entry, cred>>
    BY <1>4 DEF Hit
  <2>5. OwnToken'
    BY <2>2, <2>3, <2>4 DEF Return
  <2>6. TokensInv'
    BY <2>4 DEF Return
  <2> QED
    BY <2>5, <2>6
<1>5. ASSUME NEW c \in Callers, Request(c) PROVE (TokensInv /\ OwnToken)'
  BY <1>5 DEF Request
<1>6. ASSUME NEW c \in Callers, Issue(c) PROVE (TokensInv /\ OwnToken)'
  BY <1>6 DEF Issue, Answered
<1>7. ASSUME NEW c \in Callers, Refuse(c) PROVE (TokensInv /\ OwnToken)'
  <2>1. PICK r \in Refusals : Answered(c, r)
    BY <1>7 DEF Refuse
  <2>2. ~Granted(r)
    BY DEF Failure, Granted
  <2> QED
    BY <1>7, <2>1, <2>2 DEF Refuse, Answered
<1>8. ASSUME NEW c \in Callers, FaultyAnswer(c) PROVE (TokensInv /\ OwnToken)'
  <2>1. PICK r \in Faults : Answered(c, r)
    BY <1>8 DEF FaultyAnswer
  <2>2. ~Granted(r)
    BY DEF Failure, Granted
  <2> QED
    BY <1>8, <2>1, <2>2 DEF FaultyAnswer, Answered
<1>9. ASSUME NEW c \in Callers, Response(c) PROVE (TokensInv /\ OwnToken)'
  BY <1>9 DEF Response, Return, Got, Store
<1>10. ASSUME NEW c \in Callers, ErrorResponse(c) PROVE (TokensInv /\ OwnToken)'
  <2>1. Failed(answer[c]).class # "token"
    BY ResultTypes
  <2> QED
    BY <1>10, <2>1 DEF ErrorResponse, Return
<1>11. ASSUME NEW c \in Callers, RequestFails(c) PROVE (TokensInv /\ OwnToken)'
  <2>1. PICK e \in Error : Return(c, Failed(e))
    BY <1>11, RequestFailure
  <2>2. Failed(e).class # "token"
    BY ResultTypes
  <2> QED
    BY <1>11, <2>1, <2>2 DEF RequestFails, Return
<1>12. ASSUME NEW c \in Callers, Done(c) PROVE (TokensInv /\ OwnToken)'
  BY <1>12 DEF Done
<1>13. ASSUME NEW cr \in Creds, Revoke(cr) PROVE (TokensInv /\ OwnToken)'
  BY <1>13 DEF Revoke
<1>14. ASSUME NEW c \in Callers, Cancel(c) PROVE (TokensInv /\ OwnToken)'
  BY <1>14 DEF Cancel
<1>15. ASSUME NEW time \in Times, Tick(time) PROVE (TokensInv /\ OwnToken)'
  BY <1>15 DEF Tick
<1>16. CASE UNCHANGED tokenVars
  BY <1>16 DEF tokenVars
<1> QED
  BY <1>1, <1>2, <1>3, <1>4, <1>5, <1>6, <1>7, <1>8,
     <1>9, <1>10, <1>11, <1>12, <1>13, <1>14, <1>15, <1>16
  DEF TokenNext, Acquire, RequestEnds, Environment

(* Every step keeps requests away from usable tokens. *)
LEMMA NeedlessStep == TokenInv /\ [TokenNext]_tokenVars => NoNeedlessRequest'
<1> SUFFICES ASSUME TokenInv, [TokenNext]_tokenVars PROVE NoNeedlessRequest'
  OBVIOUS
<1> USE TokenAssumption DEF TokenInv, TokenTypeOK, NoNeedlessRequest, InRequest, Usable,
       Entry, Goto, Mine, CacheKey, envVars, cacheVars, callerVars
<1>1. ASSUME NEW c \in Callers, NEW cr \in Creds, CallIncomplete(c, cr)
      PROVE NoNeedlessRequest'
  BY <1>1 DEF CallIncomplete, Begin
<1>2. ASSUME NEW c \in Callers, NEW cr \in Creds, Call(c, cr) PROVE NoNeedlessRequest'
  BY <1>2 DEF Call, Begin
<1>3. ASSUME NEW c \in Callers, Lock(c) PROVE NoNeedlessRequest'
  BY <1>3 DEF Lock
<1>4. ASSUME NEW c \in Callers, Hit(c) PROVE NoNeedlessRequest'
  BY <1>4 DEF Hit, Return, Got
<1>5. ASSUME NEW c \in Callers, Request(c) PROVE NoNeedlessRequest'
  BY <1>5 DEF Request
<1>6. ASSUME NEW c \in Callers, Issue(c) PROVE NoNeedlessRequest'
  BY <1>6 DEF Issue, Answered
<1>7. ASSUME NEW c \in Callers, Refuse(c) PROVE NoNeedlessRequest'
  BY <1>7 DEF Refuse, Answered
<1>8. ASSUME NEW c \in Callers, FaultyAnswer(c) PROVE NoNeedlessRequest'
  BY <1>8 DEF FaultyAnswer, Answered
<1>9. ASSUME NEW c \in Callers, Response(c) PROVE NoNeedlessRequest'
  BY <1>9 DEF Response, Return, Got, Store, MutexInv, InCall
<1>10. ASSUME NEW c \in Callers, ErrorResponse(c) PROVE NoNeedlessRequest'
  BY <1>10 DEF ErrorResponse, Return, Failed
<1>11. ASSUME NEW c \in Callers, RequestFails(c) PROVE NoNeedlessRequest'
  BY <1>11 DEF RequestFails, Return, Failed
<1>12. ASSUME NEW c \in Callers, Done(c) PROVE NoNeedlessRequest'
  BY <1>12 DEF Done
<1>13. ASSUME NEW cr \in Creds, Revoke(cr) PROVE NoNeedlessRequest'
  BY <1>13 DEF Revoke
<1>14. ASSUME NEW c \in Callers, Cancel(c) PROVE NoNeedlessRequest'
  BY <1>14 DEF Cancel
<1>15. ASSUME NEW time \in Times, Tick(time) PROVE NoNeedlessRequest'
  BY <1>15 DEF Tick
<1>16. CASE UNCHANGED tokenVars
  BY <1>16 DEF tokenVars
<1> QED
  BY <1>1, <1>2, <1>3, <1>4, <1>5, <1>6, <1>7, <1>8,
     <1>9, <1>10, <1>11, <1>12, <1>13, <1>14, <1>15, <1>16
  DEF TokenNext, Acquire, RequestEnds, Environment

(* The inductive invariant of the token cache holds throughout. *)
THEOREM TokenInvariant == TokenSpec => []TokenInv
<1>1. TokenInv /\ [TokenNext]_tokenVars => TokenInv'
  BY TokenTypeStep, MutexStep, TokensStep, NeedlessStep DEF TokenInv
<1> QED
  BY TokenInitially, <1>1, PTL DEF TokenSpec

(* The callers of one credential send one request between them: none is    *)
(* under way while a usable token is cached.                               *)
THEOREM OneRequestServesAll == TokenSpec => []NoNeedlessRequest
<1>1. TokenInv => NoNeedlessRequest
  BY DEF TokenInv
<1> QED
  BY TokenInvariant, <1>1, PTL

(* A caller gets a token only of its own, registered credential.           *)
THEOREM TokensAreOwn == TokenSpec => []OwnToken
<1>1. TokenInv => OwnToken
  BY DEF TokenInv
<1> QED
  BY TokenInvariant, <1>1, PTL

(***************************************************************************)
(* Lifetimes, for grants whose skew covers the time-out of a request.      *)
(***************************************************************************)

(* At the start no token is cached or on its way.                          *)
LEMMA LifetimeInitially == TokenInit => LifetimeInv
BY DEF TokenInit, LifetimeInv, InRequest

(* An answer that has arrived in time is cached for no longer than the     *)
(* token lives: the skew makes up for the time the answer took.            *)
LEMMA StoredInTime ==
    ASSUME SafeGrants, TokenTypeOK, LifetimeInv,
           NEW c \in Callers, pc[c] = "answered", Granted(answer[c])
    PROVE  LET life == Lived(answer[c].expiresIn) IN
           /\ clock + life - Skew(life) <= answer[c].token.validUntil
           /\ clock < answer[c].token.validUntil
<1> DEFINE life == Lived(answer[c].expiresIn)
<1>1. PICK g \in Grants : /\ answer[c].expiresIn = g.expiresIn
                         /\ sentAt[c] + g.lifetime <= answer[c].token.validUntil
  BY DEF LifetimeInv
<1>2. /\ life <= g.lifetime
      /\ RequestTimeout <= Skew(life)
      /\ RequestTimeout < g.lifetime
  BY <1>1 DEF SafeGrants
<1>3. clock <= sentAt[c] + RequestTimeout
  BY DEF LifetimeInv, InRequest
<1>4. /\ g.lifetime \in Nat
      /\ life \in Nat /\ Skew(life) \in Nat
  BY <1>1, SkewType, TokenAssumption DEF Grant
<1>5. answer[c].token.validUntil \in Nat
  BY GrantedIsAnswer, TokenAssumption DEF TokenTypeOK, Token
<1>6. clock \in Nat /\ sentAt[c] \in Nat /\ RequestTimeout \in Nat
  BY TokenAssumption DEF TokenTypeOK
<1> HIDE DEF life
<1>7. /\ clock + life - Skew(life) <= answer[c].token.validUntil
      /\ clock < answer[c].token.validUntil
  BY <1>1, <1>2, <1>3, <1>4, <1>5, <1>6
<1> QED
  BY <1>7 DEF life

(* Every step keeps cached tokens and answers on their way within their    *)
(* lives.                                                                  *)
LEMMA LifetimeStep ==
    SafeGrants /\ TokenTypeOK /\ LifetimeInv /\ [TokenNext]_tokenVars => LifetimeInv'
<1> SUFFICES ASSUME SafeGrants, TokenTypeOK, LifetimeInv, [TokenNext]_tokenVars
             PROVE  LifetimeInv'
  OBVIOUS
<1> USE TokenAssumption
    DEF TokenTypeOK, LifetimeInv, InRequest, Goto, Mine, CacheKey, envVars, cacheVars, callerVars
<1>1. ASSUME NEW c \in Callers, NEW cr \in Creds, CallIncomplete(c, cr) PROVE LifetimeInv'
  BY <1>1 DEF CallIncomplete, Begin
<1>2. ASSUME NEW c \in Callers, NEW cr \in Creds, Call(c, cr) PROVE LifetimeInv'
  BY <1>2 DEF Call, Begin
<1>3. ASSUME NEW c \in Callers, Lock(c) PROVE LifetimeInv'
  BY <1>3 DEF Lock
<1>4. ASSUME NEW c \in Callers, Hit(c) PROVE LifetimeInv'
  BY <1>4 DEF Hit, Return
<1>5. ASSUME NEW c \in Callers, Request(c) PROVE LifetimeInv'
  BY <1>5 DEF Request
<1>6. ASSUME NEW c \in Callers, Issue(c) PROVE LifetimeInv'
  <2>1. PICK g \in Grants :
          Answered(c, [status |-> "2xx", body |-> "token",
                       token |-> [cred |-> cred[c], validUntil |-> clock + g.lifetime],
                       expiresIn |-> g.expiresIn])
    BY <1>6 DEF Issue
  <2>2. /\ answer'[c].expiresIn = g.expiresIn
        /\ answer'[c].token.validUntil = clock + g.lifetime
    BY <2>1 DEF Answered
  <2>3. g.lifetime \in Nat
    BY DEF Grant
  <2>4. sentAt[c] + g.lifetime <= clock + g.lifetime
    <3>1. sentAt[c] <= clock
      BY <2>1 DEF Answered
    <3> QED
      BY <3>1, <2>3
  <2>5. UNCHANGED <<entry, clock, sentAt>>
    BY <2>1 DEF Answered
  <2>6. \A d \in Callers \ {c} : pc'[d] = pc[d] /\ answer'[d] = answer[d]
    BY <2>1 DEF Answered
  <2>7. pc[c] = "asked"
    BY <2>1 DEF Answered
  <2> QED
    BY <2>2, <2>4, <2>5, <2>6, <2>7
<1>7. ASSUME NEW c \in Callers, Refuse(c) PROVE LifetimeInv'
  <2>1. PICK r \in Refusals : Answered(c, r)
    BY <1>7 DEF Refuse
  <2>2. ~Granted(r)
    BY DEF Failure, Granted
  <2> QED
    BY <1>7, <2>1, <2>2 DEF Refuse, Answered
<1>8. ASSUME NEW c \in Callers, FaultyAnswer(c) PROVE LifetimeInv'
  <2>1. PICK r \in Faults : Answered(c, r)
    BY <1>8 DEF FaultyAnswer
  <2>2. ~Granted(r)
    BY DEF Failure, Granted
  <2> QED
    BY <1>8, <2>1, <2>2 DEF FaultyAnswer, Answered
<1>9. ASSUME NEW c \in Callers, Response(c) PROVE LifetimeInv'
  <2> DEFINE life == Lived(answer[c].expiresIn)
             new == [token |-> answer[c].token, expiresAt |-> clock + life - Skew(life)]
  <2>1. new.expiresAt <= new.token.validUntil
    BY <1>9, StoredInTime DEF Response
  <2>2. entry' = [entry EXCEPT ![cred[c]] = new]
    BY <1>9 DEF Response, Store
  <2> HIDE DEF new
  <2>3. \A k \in Creds : entry'[k].token # NoToken =>
          entry'[k].expiresAt <= entry'[k].token.validUntil
    BY <2>1, <2>2
  <2>4. /\ UNCHANGED clock
        /\ pc'[c] = "returned"
        /\ \A d \in Callers \ {c} :
            pc'[d] = pc[d] /\ answer'[d] = answer[d] /\ sentAt'[d] = sentAt[d]
    BY <1>9 DEF Response, Return
  <2> QED
    BY <2>3, <2>4
<1>10. ASSUME NEW c \in Callers, ErrorResponse(c) PROVE LifetimeInv'
  BY <1>10 DEF ErrorResponse, Return
<1>11. ASSUME NEW c \in Callers, RequestFails(c) PROVE LifetimeInv'
  BY <1>11 DEF RequestFails, Return
<1>12. ASSUME NEW c \in Callers, Done(c) PROVE LifetimeInv'
  BY <1>12 DEF Done
<1>13. ASSUME NEW cr \in Creds, Revoke(cr) PROVE LifetimeInv'
  BY <1>13 DEF Revoke
<1>14. ASSUME NEW c \in Callers, Cancel(c) PROVE LifetimeInv'
  BY <1>14 DEF Cancel
<1>15. ASSUME NEW time \in Times, Tick(time) PROVE LifetimeInv'
  BY <1>15 DEF Tick
<1>16. CASE UNCHANGED tokenVars
  BY <1>16 DEF tokenVars
<1> QED
  BY <1>1, <1>2, <1>3, <1>4, <1>5, <1>6, <1>7, <1>8,
     <1>9, <1>10, <1>11, <1>12, <1>13, <1>14, <1>15, <1>16
  DEF TokenNext, Acquire, RequestEnds, Environment

(* A step that returns a token returns one that is still valid.            *)
LEMMA ReturnedInTime ==
    ASSUME SafeGrants, TokenInv, LifetimeInv, TokenNext, NEW c \in Callers,
           result'[c] # result[c], result'[c].class = "token"
    PROVE  clock < result'[c].token.validUntil
<1> USE TokenAssumption DEF TokenInv, TokenTypeOK, Mine, CacheKey
<1>1. CASE Hit(c)
  <2>1. /\ entry[cred[c]].token \in Token
        /\ entry[cred[c]].token # NoToken
        /\ entry[cred[c]].expiresAt \in Int
        /\ clock < entry[cred[c]].expiresAt
    BY <1>1 DEF Hit, Usable, Entry
  <2>2. entry[cred[c]].expiresAt <= entry[cred[c]].token.validUntil
    BY <1>1, <2>1 DEF Hit, LifetimeInv
  <2>3. result'[c].token = entry[cred[c]].token
    BY <1>1 DEF Hit, Return, Got
  <2> QED
    BY <2>1, <2>2, <2>3 DEF Token
<1>2. CASE Response(c)
  <2>1. clock < answer[c].token.validUntil
    BY <1>2, StoredInTime DEF Response
  <2>2. result'[c].token = answer[c].token
    BY <1>2 DEF Response, Return, Got
  <2> QED
    BY <2>1, <2>2
<1>3. Hit(c) \/ Response(c)
  <2>1. ASSUME NEW d \in Callers, d # c, Acquire(d) PROVE FALSE
    BY <2>1 DEF Acquire, RequestEnds, Lock, Hit, Request, Issue, Refuse, FaultyAnswer,
       Answered, Response, ErrorResponse, RequestFails, Return
  <2>2. ASSUME Acquire(c), ~Hit(c), ~Response(c) PROVE FALSE
    <3>1. \A e : Failed(e).class # "token"
      BY ResultTypes
    <3>2. ~(Lock(c) \/ Request(c) \/ Issue(c) \/ Refuse(c) \/ FaultyAnswer(c))
      BY DEF Lock, Request, Issue, Refuse, FaultyAnswer, Answered
    <3>3. ~ErrorResponse(c)
      BY <3>1 DEF ErrorResponse, Return
    <3>4. ~RequestFails(c)
      BY <3>1 DEF RequestFails, Return
    <3> QED
      BY <2>2, <3>2, <3>3, <3>4 DEF Acquire, RequestEnds
  <2>3. ASSUME NEW d \in Callers, NEW cr \in Creds, CallIncomplete(d, cr) \/ Call(d, cr)
        PROVE  FALSE
    <3>1. Failed(Unasked).class # "token"
      BY ResultTypes
    <3> QED
      BY <2>3, <3>1 DEF CallIncomplete, Call
  <2>4. ASSUME NEW d \in Callers, Done(d) PROVE FALSE
    BY <2>4 DEF Done, Idle
  <2>5. ~Environment
    BY DEF Environment, Revoke, Cancel, Tick, callerVars
  <2> QED
    BY <2>1, <2>2, <2>3, <2>4, <2>5 DEF TokenNext
<1> QED
  BY <1>1, <1>2, <1>3

(* A cached token is dropped before it expires, and an answer on its way   *)
(* is no older than the time-out, if the skew of every grant covers it.    *)
THEOREM CachedTokensAreAlive ==
    ASSUME SafeGrants
    PROVE  TokenSpec => []LifetimeInv
<1>1. TokenInv /\ LifetimeInv /\ [TokenNext]_tokenVars => LifetimeInv'
  BY LifetimeStep DEF TokenInv
<1> QED
  BY TokenInvariant, LifetimeInitially, <1>1, PTL DEF TokenSpec

(* AppToken returns only tokens the platform still honours, however long   *)
(* the answer took and the token was cached, if the skew of every grant    *)
(* covers the time-out of a request.                                       *)
THEOREM ReturnedTokensAreValid ==
    ASSUME SafeGrants
    PROVE  TokenSpec => ReturnedValid
<1>1. TokenInv /\ LifetimeInv /\ [TokenNext]_tokenVars =>
        [\A c \in Callers : result'[c] # result[c] /\ result'[c].class = "token" =>
            clock < result'[c].token.validUntil]_tokenVars
  BY ReturnedInTime
<1> QED
  BY TokenInvariant, CachedTokensAreAlive, <1>1, PTL DEF TokenSpec, ReturnedValid
=============================================================================
