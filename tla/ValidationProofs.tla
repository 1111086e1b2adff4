-------------------------- MODULE ValidationProofs --------------------------
(***************************************************************************)
(* The verdicts of credential validation, for any number of callers and    *)
(* attempts.  A step of validation is a step of the token cache, but for   *)
(* Retry, which calls it again with the caller's credential; the token     *)
(* cache's invariant survives that too.                                    *)
(***************************************************************************)
EXTENDS Validation, TokenCacheProofs

LEMMA TokenInvNext == TokenInv /\ [TokenNext]_tokenVars => TokenInv'
BY TokenTypeStep, MutexStep, TokensStep, NeedlessStep DEF TokenInv

(* What each step of validation is to the token cache.                     *)
LEMMA ValidationIsTokenStep ==
    [ValidationNext]_validationVars => [TokenNext]_tokenVars \/ \E c \in Callers : Retry(c)
<1> SUFFICES ASSUME [ValidationNext]_validationVars
             PROVE  [TokenNext]_tokenVars \/ \E c \in Callers : Retry(c)
  OBVIOUS
<1>1. ASSUME NEW c \in Callers, NEW cr \in Creds, ValidateCredential(c, cr) PROVE TokenNext
  BY <1>1 DEF ValidateCredential, TokenNext
<1>2. ASSUME NEW c \in Callers, Finish(c) \/ RetryCancelled(c) PROVE TokenNext
  BY <1>2 DEF Finish, RetryCancelled, Conclude, TokenNext
<1>3. ASSUME NEW c \in Callers, NEW cr \in Creds, CallIncomplete(c, cr) \/ Call(c, cr) PROVE TokenNext
  BY <1>3 DEF TokenNext
<1>4. ASSUME NEW c \in Callers, Acquire(c) \/ (~Validating(c) /\ Done(c)) PROVE TokenNext
  BY <1>4 DEF TokenNext
<1>5. ASSUME Environment PROVE TokenNext
  BY <1>5 DEF TokenNext
<1>6. CASE UNCHANGED validationVars
  BY <1>6 DEF validationVars
<1> QED
  BY <1>1, <1>2, <1>3, <1>4, <1>5, <1>6 DEF ValidationNext

(* Another attempt: the caller waits for the mutex again, with nothing in  *)
(* its hands.                                                              *)
LEMMA RetryKeepsTokens ==
    ASSUME TokenInv, NEW c \in Callers, Retry(c)
    PROVE  TokenInv'
<1> USE DEF TokenInv, TokenTypeOK, Retry, Goto, Idle, envVars, cacheVars
<1>1. TokenTypeOK'
  <2>1. Idle \in Result
    BY DEF Result, Classes
  <2> QED
    BY <2>1
<1>2. MutexInv'
  BY DEF MutexInv, InCall, Mine, CacheKey
<1>3. TokensInv' /\ OwnToken'
  <2>1. \A x \in Callers : result'[x].class = "token" => x # c /\ result'[x] = result[x]
    OBVIOUS
  <2> QED
    BY <2>1 DEF TokensInv, OwnToken
<1>4. NoNeedlessRequest'
  BY DEF NoNeedlessRequest, InRequest, Mine, CacheKey, Usable
<1> QED
  BY <1>1, <1>2, <1>3, <1>4

LEMMA TokenInvValidation == TokenInv /\ [ValidationNext]_validationVars => TokenInv'
BY TokenInvNext, ValidationIsTokenStep, RetryKeepsTokens

(* The token cache keeps its promises under validation with its retries.   *)
THEOREM TokensUnderValidation == ValidationSpec => []TokenInv
<1>1. ValidationInit => TokenInv
  BY TokenInitially DEF ValidationInit
<1> QED
  BY <1>1, TokenInvValidation, PTL DEF ValidationSpec

(* No validation makes more attempts than it may.                          *)
THEOREM ValidationTypeCorrect == ValidationSpec => []ValidationTypeOK
<1>1. ValidationInit => ValidationTypeOK
  BY ValidationAssumption DEF ValidationInit, ValidationTypeOK, Verdicts
<1>2. ValidationTypeOK /\ [ValidationNext]_validationVars => ValidationTypeOK'
  <2> SUFFICES ASSUME ValidationTypeOK, [ValidationNext]_validationVars PROVE ValidationTypeOK'
    OBVIOUS
  <2> USE ValidationAssumption DEF ValidationTypeOK, Verdicts
  <2>1. ASSUME NEW c \in Callers, NEW cr \in Creds, ValidateCredential(c, cr) PROVE ValidationTypeOK'
    BY <2>1 DEF ValidateCredential
  <2>2. ASSUME NEW c \in Callers, Finish(c) PROVE ValidationTypeOK'
    BY <2>2 DEF Finish, Conclude, VerdictOf
  <2>3. ASSUME NEW c \in Callers, Retry(c) PROVE ValidationTypeOK'
    BY <2>3 DEF Retry, Retries
  <2>4. ASSUME NEW c \in Callers, RetryCancelled(c) PROVE ValidationTypeOK'
    BY <2>4 DEF RetryCancelled, Conclude
  <2>5. CASE UNCHANGED <<attempt, verdict, knownGood, validations>>
    BY <2>5
  <2>6. CASE UNCHANGED validationVars
    BY <2>6 DEF validationVars
  <2> QED
    BY <2>1, <2>2, <2>3, <2>4, <2>5, <2>6 DEF ValidationNext
<1> QED
  BY <1>1, <1>2, PTL DEF ValidationSpec

(* A verdict is new only where a validation finishes, or is cut short.     *)
LEMMA NewVerdict ==
    ASSUME ValidationTypeOK, [ValidationNext]_validationVars, NEW c \in Callers,
           verdict'[c] # verdict[c], verdict'[c] \in {"valid", "invalid"}
    PROVE  verdict'[c] = VerdictOf(result[c].class)
<1> USE DEF ValidationTypeOK
<1>1. ASSUME NEW d \in Callers, NEW cr \in Creds, ValidateCredential(d, cr) PROVE FALSE
  BY <1>1 DEF ValidateCredential
<1>2. ASSUME NEW d \in Callers, Finish(d) PROVE verdict'[c] = VerdictOf(result[c].class)
  BY <1>2 DEF Finish, Conclude
<1>3. ASSUME NEW d \in Callers, Retry(d) PROVE FALSE
  BY <1>3 DEF Retry
<1>4. ASSUME NEW d \in Callers, RetryCancelled(d) PROVE FALSE
  BY <1>4 DEF RetryCancelled, Conclude
<1>5. CASE UNCHANGED <<attempt, verdict, knownGood, validations>>
  BY <1>5
<1>6. CASE UNCHANGED validationVars
  BY <1>6 DEF validationVars
<1> QED
  BY <1>1, <1>2, <1>3, <1>4, <1>5, <1>6 DEF ValidationNext

(* A credential found valid was registered: its token is its own.          *)
THEOREM ValidOnlyIfRegistered == ValidationSpec => ValidWasRegistered
<1>1. ASSUME TokenInv, ValidationTypeOK, [ValidationNext]_validationVars
      PROVE  [\A c \in Callers : verdict'[c] = "valid" /\ verdict[c] # "valid" =>
                 cred[c] \in Registered]_validationVars
  <2>1. ASSUME NEW c \in Callers, verdict'[c] = "valid", verdict[c] # "valid"
        PROVE  cred[c] \in Registered
    <3>1. VerdictOf(result[c].class) = "valid"
      BY <1>1, <2>1, NewVerdict
    <3>2. result[c].class = "token"
      BY <3>1 DEF VerdictOf
    <3> QED
      BY <1>1, <3>2 DEF TokenInv, OwnToken
  <2> QED
    BY <2>1
<1> QED
  BY <1>1, TokensUnderValidation, ValidationTypeCorrect, PTL DEF ValidationSpec, ValidWasRegistered

-----------------------------------------------------------------------------
(* An invalid verdict.  A rejection is on its way to a caller, or in its   *)
(* hands, only if its credential is not accepted, which stays so, or if a  *)
(* failure reads like a refusal, which the caller's error still shows.     *)

RefusedInv ==
    \A c \in Callers :
        /\ pc[c] = "answered" /\ Rejected(answer[c]) =>
            cred[c] \notin accepted \/ Misread(answer[c])
        /\ result[c].class = "rejected" =>
            /\ pc[c] = "returned"
            /\ cred[c] \notin accepted \/ Misread(result[c].error)

LEMMA RefusedInitially == TokenInit => RefusedInv
BY DEF TokenInit, RefusedInv, Idle

LEMMA UnansweredIsNoRefusal ==
    \A e \in {Lost, CutOff, Cancelled} : ClassOf(e) # "rejected"
<1>1. Lost.status = "none" /\ CutOff.status = "none" /\ Cancelled.status = "none"
  BY DEF Lost, CutOff, Cancelled, NoAnswerFor
<1>2. Lost.body = "lost" /\ CutOff.body = "cut off" /\ Cancelled.body = "cancelled"
  BY DEF Lost, CutOff, Cancelled, NoAnswerFor
<1>3. ~Rejected(Lost) /\ ~Rejected(CutOff) /\ ~Rejected(Cancelled)
  BY <1>1, <1>2 DEF Rejected
<1> QED
  BY <1>3 DEF ClassOf

LEMMA RefusedStep ==
    ASSUME TokenInv, RefusedInv, [TokenNext]_tokenVars
    PROVE  RefusedInv'
<1> USE DEF TokenInv, TokenTypeOK, RefusedInv, Goto, Mine, CacheKey, Idle, Got,
            envVars, cacheVars, callerVars
<1>1. ASSUME NEW c \in Callers, NEW cr \in Creds, CallIncomplete(c, cr) PROVE RefusedInv'
  <2>1. cr \notin accepted
    BY <1>1, TokenAssumption DEF CallIncomplete, TokensInv
  <2> QED
    BY <1>1, <2>1, ResultTypes DEF CallIncomplete, Begin
<1>2. ASSUME NEW c \in Callers, NEW cr \in Creds, Call(c, cr) PROVE RefusedInv'
  BY <1>2 DEF Call, Begin
<1>3. ASSUME NEW c \in Callers, Lock(c) PROVE RefusedInv'
  BY <1>3 DEF Lock
<1>4. ASSUME NEW c \in Callers, Hit(c) PROVE RefusedInv'
  BY <1>4 DEF Hit, Return
<1>5. ASSUME NEW c \in Callers, Request(c) PROVE RefusedInv'
  BY <1>5 DEF Request
<1>6. ASSUME NEW c \in Callers, Issue(c) PROVE RefusedInv'
  <2>1. PICK g \in Grants :
          Answered(c, [status |-> "2xx", body |-> "token",
                       token |-> [cred |-> cred[c], validUntil |-> clock + g.lifetime],
                       expiresIn |-> g.expiresIn])
    BY <1>6 DEF Issue
  <2>2. ~Rejected(answer'[c])
    BY <2>1 DEF Answered, Rejected
  <2> QED
    BY <2>1, <2>2 DEF Answered
<1>7. ASSUME NEW c \in Callers, Refuse(c) PROVE RefusedInv'
  BY <1>7 DEF Refuse, Answered
<1>8. ASSUME NEW c \in Callers, FaultyAnswer(c) PROVE RefusedInv'
  <2>1. PICK f \in Faults : Answered(c, f)
    BY <1>8 DEF FaultyAnswer
  <2>2. Rejected(f) => Misread(f)
    <3>1. f \in Failure /\ f.body # "incomplete"
      BY TokenAssumption DEF Failure, Bodies
    <3> QED
      BY <3>1 DEF Rejected, Misread
  <2>3. UNCHANGED <<accepted, cred, result>> /\ answer' = [answer EXCEPT ![c] = f]
        /\ pc' = [pc EXCEPT ![c] = "answered"] /\ pc[c] = "asked"
    BY <2>1 DEF Answered
  <2> HIDE DEF Rejected, Misread
  <2> QED
    BY <2>2, <2>3
<1>9. ASSUME NEW c \in Callers, Response(c) PROVE RefusedInv'
  BY <1>9 DEF Response, Return
<1>10. ASSUME NEW c \in Callers, ErrorResponse(c) PROVE RefusedInv'
  <2>1. Failed(answer[c]).class = "rejected" => cred[c] \notin accepted \/ Misread(answer[c])
    BY <1>10, ResultTypes DEF ErrorResponse, ClassOf
  <2> QED
    BY <1>10, <2>1, ResultTypes DEF ErrorResponse, Return
<1>11. ASSUME NEW c \in Callers, RequestFails(c) PROVE RefusedInv'
  <2>1. PICK e \in {Lost, CutOff, Cancelled} : Return(c, Failed(e))
    BY <1>11, RequestFailure
  <2>2. Failed(e).class # "rejected"
    BY UnansweredIsNoRefusal, ResultTypes
  <2> QED
    BY <1>11, <2>1, <2>2 DEF RequestFails, Return
<1>12. ASSUME NEW cr \in Creds, Revoke(cr) PROVE RefusedInv'
  BY <1>12 DEF Revoke
<1>13. ASSUME NEW c \in Callers, Cancel(c) PROVE RefusedInv'
  BY <1>13 DEF Cancel
<1>14. ASSUME NEW time \in Times, Tick(time) PROVE RefusedInv'
  BY <1>14 DEF Tick
<1>15. ASSUME NEW c \in Callers, Done(c) PROVE RefusedInv'
  BY <1>15 DEF Done
<1>16. CASE UNCHANGED tokenVars
  BY <1>16 DEF tokenVars
<1> QED
  BY <1>1, <1>2, <1>3, <1>4, <1>5, <1>6, <1>7, <1>8, <1>9, <1>10, <1>11, <1>12, <1>13,
     <1>14, <1>15, <1>16 DEF TokenNext, Acquire, RequestEnds, Environment

(* A credential is found invalid only if the platform refuses it, or if    *)
(* what fails answers with a 401, a 403 or a code that rejects.            *)
THEOREM InvalidMeansRefused == ValidationSpec => InvalidOnlyIfRefused
<1>1. ValidationInit => RefusedInv
  BY RefusedInitially DEF ValidationInit
<1>2. TokenInv /\ RefusedInv /\ [ValidationNext]_validationVars => RefusedInv'
  <2> SUFFICES ASSUME TokenInv, RefusedInv, [ValidationNext]_validationVars PROVE RefusedInv'
    OBVIOUS
  <2>1. CASE [TokenNext]_tokenVars
    BY <2>1, RefusedStep
  <2>2. ASSUME NEW c \in Callers, Retry(c) PROVE RefusedInv'
    BY <2>2 DEF TokenInv, TokenTypeOK, RefusedInv, Retry, Goto, Idle, envVars, cacheVars
  <2> QED
    BY <2>1, <2>2, ValidationIsTokenStep
<1>3. ASSUME RefusedInv, ValidationTypeOK, [ValidationNext]_validationVars
      PROVE  [\A c \in Callers : verdict'[c] = "invalid" /\ verdict[c] # "invalid" =>
                 cred[c] \notin accepted \/ Misread(result[c].error)]_validationVars
  <2>1. ASSUME NEW c \in Callers, verdict'[c] = "invalid", verdict[c] # "invalid"
        PROVE  cred[c] \notin accepted \/ Misread(result[c].error)
    <3>1. VerdictOf(result[c].class) = "invalid"
      BY <1>3, <2>1, NewVerdict
    <3>2. result[c].class = "rejected"
      BY <3>1 DEF VerdictOf
    <3> QED
      BY <1>3, <3>2 DEF RefusedInv
  <2> QED
    BY <2>1
<1> QED
  BY <1>1, <1>2, <1>3, TokensUnderValidation, ValidationTypeCorrect, PTL
  DEF ValidationSpec, InvalidOnlyIfRefused

-----------------------------------------------------------------------------
(* An error.  The answers of a platform that refuses must not ask for      *)
(* another attempt; every further attempt then costs a fault.              *)

LEMMA FaultInitially == ValidationInit => FaultInv
BY DEF ValidationInit, TokenInit, FaultInv, Validating, Idle

LEMMA UnaskedIsRejected ==
    /\ Failed(Unasked).class = "rejected"
    /\ Failed(Unasked).class = ClassOf(Failed(Unasked).error)
BY ResultTypes DEF ClassOf, Rejected, Unasked, NoAnswerFor

(* A step of the token cache that neither begins nor ends a validation. *)
LEMMA FaultTokenStep ==
    ASSUME PlainRefusals, TokenInv, ValidationTypeOK, FaultInv, [TokenNext]_tokenVars,
           UNCHANGED attempt, \A c \in Callers : Done(c) => ~Validating(c)
    PROVE  FaultInv'
<1> USE TokenAssumption
    DEF TokenInv, TokenTypeOK, ValidationTypeOK, FaultInv, RetryableEnd, Validating, Goto,
        Mine, CacheKey, Idle, envVars, cacheVars, callerVars
<1>1. ASSUME NEW c \in Callers, NEW cr \in Creds, CallIncomplete(c, cr) PROVE FaultInv'
  <2>1. /\ result' = [result EXCEPT ![c] = Failed(Unasked)]
        /\ Failed(Unasked).class = "rejected"
        /\ Failed(Unasked).class = ClassOf(Failed(Unasked).error)
    BY <1>1, UnaskedIsRejected DEF CallIncomplete
  <2> QED
    BY <1>1, <2>1 DEF CallIncomplete, Begin
<1>2. ASSUME NEW c \in Callers, NEW cr \in Creds, Call(c, cr) PROVE FaultInv'
  BY <1>2 DEF Call, Begin
<1>3. ASSUME NEW c \in Callers, Lock(c) PROVE FaultInv'
  BY <1>3 DEF Lock
<1>4. ASSUME NEW c \in Callers, Hit(c) PROVE FaultInv'
  BY <1>4 DEF Hit, Return, Got
<1>5. ASSUME NEW c \in Callers, Request(c) PROVE FaultInv'
  BY <1>5 DEF Request
<1>6. ASSUME NEW c \in Callers, Issue(c) PROVE FaultInv'
  <2>1. PICK g \in Grants :
          Answered(c, [status |-> "2xx", body |-> "token",
                       token |-> [cred |-> cred[c], validUntil |-> clock + g.lifetime],
                       expiresIn |-> g.expiresIn])
    BY <1>6 DEF Issue
  <2>2. Granted(answer'[c])
    BY <2>1 DEF Answered, Granted
  <2> QED
    BY <1>6, <2>1, <2>2 DEF Issue, Answered
<1>7. ASSUME NEW c \in Callers, Refuse(c) PROVE FaultInv'
  <2>1. PICK r \in Refusals : Answered(c, r)
    BY <1>7 DEF Refuse
  <2>2. ClassOf(answer'[c]) # "retryable"
    BY <2>1 DEF Answered, PlainRefusals
  <2> QED
    BY <1>7, <2>1, <2>2 DEF Refuse, Answered
<1>8. ASSUME NEW c \in Callers, FaultyAnswer(c) PROVE FaultInv'
  BY <1>8 DEF FaultyAnswer, Answered
<1>9. ASSUME NEW c \in Callers, Response(c) PROVE FaultInv'
  BY <1>9 DEF Response, Return, Got
<1>10. ASSUME NEW c \in Callers, ErrorResponse(c) PROVE FaultInv'
  <2>1. /\ result' = [result EXCEPT ![c] = Failed(answer[c])]
        /\ Failed(answer[c]).class = ClassOf(answer[c])
        /\ Failed(answer[c]).error = answer[c]
        /\ ClassOf(answer[c]) \in {"rejected", "retryable", "failed"}
    BY <1>10, ResultTypes DEF ErrorResponse, Return
  <2> QED
    BY <1>10, <2>1 DEF ErrorResponse, Return
<1>11. ASSUME NEW c \in Callers, RequestFails(c) PROVE FaultInv'
  <2>1. PICK e : Return(c, Failed(e))
    BY <1>11, RequestFailure
  <2>2. /\ Failed(e).class = ClassOf(Failed(e).error)
        /\ Failed(e).class \in {"rejected", "retryable", "failed"}
    BY ResultTypes
  <2>3. faults' = faults + 1 \/ (c \in cancelled /\ faults' = faults)
    BY <1>11 DEF RequestFails
  <2> QED
    BY <1>11, <2>1, <2>2, <2>3 DEF RequestFails, Return
<1>12. ASSUME NEW cr \in Creds, Revoke(cr) PROVE FaultInv'
  BY <1>12 DEF Revoke
<1>13. ASSUME NEW c \in Callers, Cancel(c) PROVE FaultInv'
  BY <1>13 DEF Cancel
<1>14. ASSUME NEW time \in Times, Tick(time) PROVE FaultInv'
  BY <1>14 DEF Tick
<1>15. CASE UNCHANGED tokenVars
  BY <1>15 DEF tokenVars
<1>16. ASSUME NEW c \in Callers, Done(c) PROVE FaultInv'
  <2>1. ~Validating(c)
    BY <1>16
  <2> QED
    BY <1>16, <2>1 DEF Done
<1> QED
  BY <1>1, <1>2, <1>3, <1>4, <1>5, <1>6, <1>7, <1>8, <1>9, <1>10, <1>11, <1>12, <1>13,
     <1>14, <1>15, <1>16 DEF TokenNext, Acquire, RequestEnds, Environment

LEMMA FaultStep ==
    ASSUME PlainRefusals, TokenInv, ValidationTypeOK, FaultInv,
           [ValidationNext]_validationVars
    PROVE  FaultInv'
<1> USE DEF TokenInv, TokenTypeOK, ValidationTypeOK, FaultInv, RetryableEnd, Validating, Goto,
            Idle, envVars, cacheVars, callerVars
<1>1. ASSUME NEW c \in Callers, NEW cr \in Creds, ValidateCredential(c, cr) PROVE FaultInv'
  <2>1. \/ pc'[c] = "lock" /\ result'[c] = result[c]
        \/ pc'[c] = "returned" /\ result'[c] = Failed(Unasked)
    BY <1>1 DEF ValidateCredential, CallIncomplete, Call, Begin
  <2>2. UNCHANGED envVars /\ \A d \in Callers \ {c} :
          pc'[d] = pc[d] /\ answer'[d] = answer[d] /\ result'[d] = result[d]
    BY <1>1 DEF ValidateCredential, CallIncomplete, Call, Begin
  <2>3. attempt' = [attempt EXCEPT ![c] = 1]
    BY <1>1 DEF ValidateCredential
  <2> QED
    BY <2>1, <2>2, <2>3, UnaskedIsRejected, TokenAssumption
<1>2. ASSUME NEW c \in Callers, Finish(c) \/ RetryCancelled(c) PROVE FaultInv'
  BY <1>2 DEF Finish, RetryCancelled, Conclude, Done
<1>3. ASSUME NEW c \in Callers, Retry(c) PROVE FaultInv'
  BY <1>3, TokenAssumption, ValidationAssumption DEF Retry, Retries
<1>4. ASSUME NEW c \in Callers, NEW cr \in Creds, CallIncomplete(c, cr) \/ Call(c, cr),
             UNCHANGED attempt
      PROVE  FaultInv'
  <2>1. TokenNext
    BY <1>4 DEF TokenNext
  <2>2. \A d \in Callers : ~Done(d)
    BY <1>4 DEF CallIncomplete, Call, Begin, Done
  <2> QED
    BY <1>4, <2>1, <2>2, FaultTokenStep
<1>5. ASSUME NEW c \in Callers, Acquire(c), UNCHANGED attempt PROVE FaultInv'
  <2>1. TokenNext
    BY <1>5 DEF TokenNext
  <2>2. \A d \in Callers : ~Done(d)
    BY <1>5 DEF Acquire, RequestEnds, Lock, Hit, Request, Issue, Refuse, FaultyAnswer,
       Answered, Response, ErrorResponse, RequestFails, Return, Done
  <2> QED
    BY <1>5, <2>1, <2>2, FaultTokenStep
<1>6. ASSUME NEW c \in Callers, ~Validating(c), Done(c), UNCHANGED attempt PROVE FaultInv'
  <2>1. TokenNext
    BY <1>6 DEF TokenNext
  <2>2. \A d \in Callers \ {c} : ~Done(d)
    BY <1>6 DEF Done
  <2> QED
    BY <1>6, <2>1, <2>2, FaultTokenStep
<1>7. ASSUME Environment \/ UNCHANGED tokenVars, UNCHANGED attempt PROVE FaultInv'
  <2>1. [TokenNext]_tokenVars
    BY <1>7 DEF TokenNext
  <2>2. \A d \in Callers : ~Done(d)
    BY <1>7 DEF Environment, Revoke, Cancel, Tick, Done, tokenVars
  <2> QED
    BY <1>7, <2>1, <2>2, FaultTokenStep
<1> QED
  BY <1>1, <1>2, <1>3, <1>4, <1>5, <1>6, <1>7 DEF ValidationNext, validationVars

(* The client takes no error for final that may be over soon.              *)
LEMMA FailuresAreFinal == \A e : ClassOf(e) = "failed" => ~Transient(e)
BY DEF ClassOf, Rejected, Retryable, Transient

(* Where an error is the verdict: the last attempt was worth another. *)
LEMMA NewError ==
    ASSUME TokenInv, ValidationTypeOK, FaultInv, [ValidationNext]_validationVars,
           NEW c \in Callers, verdict'[c] = "error", verdict[c] # "error"
    PROVE  faults >= Attempts \/ ~Transient(result[c].error) \/ c \in cancelled
<1> USE DEF ValidationTypeOK
<1>1. ASSUME NEW d \in Callers, NEW cr \in Creds, ValidateCredential(d, cr) PROVE FALSE
  BY <1>1 DEF ValidateCredential
<1>2. ASSUME NEW d \in Callers, Finish(d)
      PROVE  faults >= Attempts \/ ~Transient(result[c].error) \/ c \in cancelled
  <2>1. /\ d = c /\ VerdictOf(result[c].class) = "error"
        /\ Validating(c) /\ ~Retries(c) /\ pc[c] = "returned"
    BY <1>2 DEF Finish, Conclude, Done
  <2>2. result[c].class \in {"retryable", "failed"}
    <3>1. result[c].class \in Classes /\ result[c].class # "none"
      BY <2>1 DEF TokenInv, TokenTypeOK, Result, FaultInv
    <3> QED
      BY <2>1, <3>1 DEF VerdictOf, Classes
  <2>3. CASE result[c].class = "retryable"
    <3>1. attempt[c] >= Attempts
      BY <2>1, <2>3, ValidationAssumption DEF Retries
    <3>2. c \notin cancelled => attempt[c] <= faults
      BY <2>1, <2>3 DEF FaultInv, RetryableEnd
    <3>3. attempt[c] \in Nat /\ faults \in Nat /\ Attempts \in Nat
      BY TokenAssumption, ValidationAssumption DEF TokenInv, TokenTypeOK
    <3> QED
      BY <3>1, <3>2, <3>3
  <2>4. CASE result[c].class = "failed"
    <3>1. ClassOf(result[c].error) = "failed"
      BY <2>4 DEF FaultInv
    <3> QED
      BY <3>1, FailuresAreFinal
  <2> QED
    BY <2>2, <2>3, <2>4
<1>3. ASSUME NEW d \in Callers, Retry(d) PROVE FALSE
  BY <1>3 DEF Retry
<1>4. ASSUME NEW d \in Callers, RetryCancelled(d) PROVE c \in cancelled
  BY <1>4 DEF RetryCancelled, Conclude
<1>5. CASE UNCHANGED <<attempt, verdict, knownGood, validations>>
  BY <1>5
<1>6. CASE UNCHANGED validationVars
  BY <1>6 DEF validationVars
<1> QED
  BY <1>1, <1>2, <1>3, <1>4, <1>5, <1>6 DEF ValidationNext

(* Under that hypothesis fewer faults than attempts fail no validation,    *)
(* unless the error it ends with is not one that may be over soon, or its  *)
(* context is cancelled.                                                   *)
THEOREM FaultsAreSurvived ==
    ASSUME PlainRefusals
    PROVE  ValidationSpec => OneFaultSurvived
<1> DEFINE Survived == \A c \in Callers : verdict'[c] = "error" /\ verdict[c] # "error" =>
                         \/ faults >= Attempts
                         \/ ~Transient(result[c].error)
                         \/ c \in cancelled
<1>1. TokenInv /\ ValidationTypeOK /\ FaultInv /\ [ValidationNext]_validationVars => FaultInv'
  BY FaultStep
<1>2. TokenInv /\ ValidationTypeOK /\ FaultInv /\ [ValidationNext]_validationVars
        => [Survived]_validationVars
  BY NewError
<1> HIDE DEF Survived
<1>3. ValidationSpec => [][Survived]_validationVars
  BY <1>1, <1>2, FaultInitially, TokensUnderValidation, ValidationTypeCorrect, PTL
  DEF ValidationSpec
<1> QED
  BY <1>3 DEF OneFaultSurvived, Survived
-----------------------------------------------------------------------------
(* What a valid verdict proves.  While nothing is revoked, a token in the  *)
(* cache is as good as an answer of the platform.                          *)

ProvenInv ==
    /\ accepted = Registered
    /\ \A c \in Callers :
          /\ Validating(c) => pc[c] # "idle" /\ knownGood[c] = (cred[c] \in Registered)
          /\ verdict[c] = "valid" => knownGood[c]

(* A call under way keeps its credential until it is done. *)
LEMMA CallsKeepTheirCredential ==
    ASSUME TokenTypeOK, [TokenNext]_tokenVars, NEW c \in Callers, pc[c] # "idle", ~Done(c)
    PROVE  pc'[c] # "idle" /\ cred'[c] = cred[c]
<1> USE DEF TokenTypeOK, Goto, envVars, cacheVars, callerVars
<1>1. ASSUME NEW d \in Callers, NEW cr \in Creds, CallIncomplete(d, cr) \/ Call(d, cr)
      PROVE  pc'[c] # "idle" /\ cred'[c] = cred[c]
  BY <1>1 DEF CallIncomplete, Call, Begin
<1>2. ASSUME NEW d \in Callers, Lock(d) \/ Hit(d) \/ Request(d)
      PROVE  pc'[c] # "idle" /\ cred'[c] = cred[c]
  BY <1>2 DEF Lock, Hit, Request, Return
<1>3. ASSUME NEW d \in Callers, Issue(d) \/ Refuse(d) \/ FaultyAnswer(d)
      PROVE  pc'[c] # "idle" /\ cred'[c] = cred[c]
  <2>1. pc' = [pc EXCEPT ![d] = "answered"] /\ cred' = cred
    BY <1>3 DEF Issue, Refuse, FaultyAnswer, Answered
  <2> QED
    BY <2>1
<1>4. ASSUME NEW d \in Callers, Response(d) \/ ErrorResponse(d) \/ RequestFails(d)
      PROVE  pc'[c] # "idle" /\ cred'[c] = cred[c]
  <2>1. pc' = [pc EXCEPT ![d] = "returned"] /\ cred' = cred
    BY <1>4 DEF Response, ErrorResponse, RequestFails, Return
  <2> QED
    BY <2>1
<1>5. ASSUME Environment \/ UNCHANGED tokenVars
      PROVE  pc'[c] # "idle" /\ cred'[c] = cred[c]
  BY <1>5 DEF Environment, Revoke, Cancel, Tick, tokenVars
<1>6. ASSUME NEW d \in Callers, Done(d)
      PROVE  pc'[c] # "idle" /\ cred'[c] = cred[c]
  BY <1>6 DEF Done
<1> QED
  BY <1>1, <1>2, <1>3, <1>4, <1>5, <1>6 DEF TokenNext, Acquire, RequestEnds

LEMMA ProvenStep ==
    ASSUME TokenInv, ValidationTypeOK, ProvenInv, accepted' = accepted,
           [ValidationNext]_validationVars
    PROVE  ProvenInv'
<1> USE DEF ProvenInv, ValidationTypeOK, Validating
<1>0. TokenTypeOK
  BY DEF TokenInv
<1>1. ASSUME NEW c \in Callers, NEW cr \in Creds, ValidateCredential(c, cr) PROVE ProvenInv'
  <2>1. /\ pc'[c] # "idle" /\ cred'[c] = cr
        /\ \A d \in Callers \ {c} : pc'[d] = pc[d] /\ cred'[d] = cred[d]
    BY <1>0, <1>1 DEF ValidateCredential, CallIncomplete, Call, Begin, Goto, TokenTypeOK
  <2>2. /\ attempt' = [attempt EXCEPT ![c] = 1]
        /\ verdict' = [verdict EXCEPT ![c] = "none"]
        /\ knownGood' = [knownGood EXCEPT ![c] = cr \in accepted]
    BY <1>1 DEF ValidateCredential
  <2>3. ASSUME NEW d \in Callers
        PROVE  /\ Validating(d)' => pc'[d] # "idle" /\ knownGood'[d] = (cred'[d] \in Registered)
               /\ verdict'[d] = "valid" => knownGood'[d]
    <3>1. CASE d = c
      BY <2>1, <2>2, <3>1
    <3>2. CASE d # c
      BY <2>1, <2>2, <3>2
    <3> QED
      BY <3>1, <3>2
  <2> QED
    BY <2>3
<1>2. ASSUME NEW c \in Callers, Conclude(c, VerdictOf(result[c].class)), Validating(c)
      PROVE  ProvenInv'
  <2>1. VerdictOf(result[c].class) = "valid" => knownGood[c]
    <3>1. VerdictOf(result[c].class) = "valid" => result[c].class = "token"
      BY DEF VerdictOf
    <3>2. result[c].class = "token" => cred[c] \in Registered
      BY DEF TokenInv, OwnToken
    <3> QED
      BY <1>2, <3>1, <3>2
  <2> QED
    BY <1>0, <1>2, <2>1 DEF Conclude, Done, Goto, TokenTypeOK
<1>3. ASSUME NEW c \in Callers, Conclude(c, "error") PROVE ProvenInv'
  BY <1>0, <1>3 DEF Conclude, Done, Goto, TokenTypeOK
<1>4. ASSUME NEW c \in Callers, Retry(c) PROVE ProvenInv'
  BY <1>0, <1>4 DEF Retry, Goto, TokenTypeOK, envVars
<1>5. ASSUME [TokenNext]_tokenVars, UNCHANGED <<attempt, verdict, knownGood>>,
             \A c \in Callers : Done(c) => ~Validating(c)
      PROVE  ProvenInv'
  <2>1. ASSUME NEW c \in Callers, Validating(c)
        PROVE  pc'[c] # "idle" /\ cred'[c] = cred[c]
    BY <1>0, <1>5, <2>1, CallsKeepTheirCredential
  <2> QED
    BY <1>5, <2>1
<1>6. ASSUME NEW c \in Callers, Finish(c) \/ RetryCancelled(c) PROVE ProvenInv'
  BY <1>2, <1>3, <1>6 DEF Finish, RetryCancelled
<1>7. ASSUME NEW c \in Callers, NEW cr \in Creds, CallIncomplete(c, cr) \/ Call(c, cr),
             UNCHANGED <<attempt, verdict, knownGood>>
      PROVE  ProvenInv'
  <2>1. \A d \in Callers : ~Done(d)
    BY <1>0, <1>7 DEF CallIncomplete, Call, Begin, Done, TokenTypeOK, Goto
  <2>2. TokenNext
    BY <1>7 DEF TokenNext
  <2> QED
    BY <1>5, <1>7, <2>1, <2>2
<1>8. ASSUME NEW c \in Callers, Acquire(c), UNCHANGED <<attempt, verdict, knownGood>>
      PROVE  ProvenInv'
  <2>1. \A d \in Callers : ~Done(d)
    BY <1>0, <1>8 DEF Acquire, RequestEnds, Lock, Hit, Request, Issue, Refuse, FaultyAnswer,
       Answered, Response, ErrorResponse, RequestFails, Return, Done, TokenTypeOK, Goto
  <2>2. TokenNext
    BY <1>8 DEF TokenNext
  <2> QED
    BY <1>5, <1>8, <2>1, <2>2
<1>9. ASSUME NEW c \in Callers, ~Validating(c), Done(c),
             UNCHANGED <<attempt, verdict, knownGood>>
      PROVE  ProvenInv'
  <2>1. \A d \in Callers \ {c} : ~Done(d)
    BY <1>0, <1>9 DEF Done, TokenTypeOK, Goto
  <2>2. TokenNext
    BY <1>9 DEF TokenNext
  <2> QED
    BY <1>5, <1>9, <2>1, <2>2
<1>10. ASSUME Environment \/ UNCHANGED tokenVars, UNCHANGED <<attempt, verdict, knownGood>>
       PROVE  ProvenInv'
  <2>1. \A d \in Callers : ~Done(d)
    BY <1>0, <1>10 DEF Environment, Revoke, Cancel, Tick, Done, tokenVars, callerVars,
       TokenTypeOK, Goto
  <2>2. [TokenNext]_tokenVars
    BY <1>10 DEF TokenNext
  <2> QED
    BY <1>5, <1>10, <2>1, <2>2
<1> QED
  BY <1>1, <1>4, <1>6, <1>7, <1>8, <1>9, <1>10 DEF ValidationNext, validationVars

(* While no credential is revoked, one that is found valid was accepted    *)
(* when its validation began, whoever fetched the token: a revocation is   *)
(* the one cause of a wrong valid verdict (run validation_cached).         *)
THEOREM ValidUnlessRevoked ==
    ValidationSpec /\ [][accepted' = accepted]_validationVars => []ValidIsProven
<1>1. ValidationInit => ProvenInv
  BY DEF ValidationInit, TokenInit, ProvenInv, Validating
<1>2. TokenInv /\ ValidationTypeOK /\ ProvenInv /\ [accepted' = accepted]_validationVars
        /\ [ValidationNext]_validationVars => ProvenInv'
  <2>1. [accepted' = accepted]_validationVars => accepted' = accepted
    BY DEF validationVars, tokenVars, envVars
  <2> QED
    BY <2>1, ProvenStep
<1>3. ProvenInv => ValidIsProven
  BY DEF ProvenInv, ValidIsProven
<1> QED
  BY <1>1, <1>2, <1>3, TokensUnderValidation, ValidationTypeCorrect, PTL DEF ValidationSpec
=============================================================================
