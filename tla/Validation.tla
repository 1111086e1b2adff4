----------------------------- MODULE Validation -----------------------------
(***************************************************************************)
(* Credential validation (Connector.ValidateCredential,                    *)
(* validateTeamsCredential, Client.Validate): up to Attempts calls of      *)
(* acquireToken, the cached one, with a pause in between.  A caller of     *)
(* TokenCache is here either a validation or any other use of a token.     *)
(***************************************************************************)
EXTENDS TokenCache

CONSTANTS Attempts,      \* credentialValidationAttempts, 2
          MaxValidations \* bound on validations begun

ASSUME ValidationAssumption == Attempts \in Nat \ {0} /\ MaxValidations \in Nat

VARIABLES attempt,     \* calls made by each validation; 0 for other callers
          verdict,     \* what the last validation of each caller returned
          knownGood,   \* was its credential accepted when it began?
          validations

validationVars == <<tokenVars, attempt, verdict, knownGood, validations>>

(* "valid" and "invalid" are results, "error" is a Go error. *)
Verdicts == {"none", "valid", "invalid", "error"}

ValidationInit ==
    /\ TokenInit
    /\ attempt = [c \in Callers |-> 0]
    /\ verdict = [c \in Callers |-> "none"]
    /\ knownGood = [c \in Callers |-> FALSE]
    /\ validations = 0

Validating(c) == attempt[c] > 0

ValidateCredential(c, cr) ==
    /\ validations < MaxValidations
    /\ validations' = validations + 1
    /\ CallIncomplete(c, cr) \/ Call(c, cr)
    /\ attempt' = [attempt EXCEPT ![c] = 1]
    /\ verdict' = [verdict EXCEPT ![c] = "none"]
    /\ knownGood' = [knownGood EXCEPT ![c] = cr \in accepted]

Retries(c) == result[c].class = "retryable" /\ attempt[c] < Attempts

VerdictOf(class) ==
    IF class = "token" THEN "valid"
    ELSE IF class = "rejected" THEN "invalid" ELSE "error"

Conclude(c, v) ==
    /\ Done(c)
    /\ verdict' = [verdict EXCEPT ![c] = v]
    /\ attempt' = [attempt EXCEPT ![c] = 0]
    /\ UNCHANGED <<knownGood, validations>>

(* The loop ends with the outcome of its last call. *)
Finish(c) ==
    /\ Validating(c)
    /\ ~Retries(c)
    /\ Conclude(c, VerdictOf(result[c].class))

(* waitForCredentialRetry, then the next call. *)
Retry(c) ==
    /\ pc[c] = "returned"
    /\ Validating(c)
    /\ Retries(c)
    /\ attempt' = [attempt EXCEPT ![c] = @ + 1]
    /\ result' = [result EXCEPT ![c] = Idle]
    /\ Goto(c, "lock")
    /\ UNCHANGED <<envVars, cacheVars, cred, sentAt, answer, verdict, knownGood, validations>>

(* The context is done while it waits. *)
RetryCancelled(c) ==
    /\ Validating(c)
    /\ Retries(c)
    /\ c \in cancelled
    /\ Conclude(c, "error")

ValidationNext ==
    \/ \E c \in Callers, cr \in Creds : ValidateCredential(c, cr)
    \/ \E c \in Callers : Finish(c) \/ Retry(c) \/ RetryCancelled(c)
    \/ /\ \/ \E c \in Callers, cr \in Creds : CallIncomplete(c, cr) \/ Call(c, cr)
          \/ \E c \in Callers : Acquire(c) \/ (~Validating(c) /\ Done(c))
          \/ Environment
       /\ UNCHANGED <<attempt, verdict, knownGood, validations>>

ValidationSpec == ValidationInit /\ [][ValidationNext]_validationVars

(* The fairness of TokenCache for the calls; the timer of the pause fires. *)
ValidationFairness ==
    \A c \in Callers :
        /\ SF_validationVars(Lock(c) /\ UNCHANGED <<attempt, verdict, knownGood, validations>>)
        /\ WF_validationVars(/\ Hit(c) \/ Request(c) \/ RequestEnds(c)
                             /\ UNCHANGED <<attempt, verdict, knownGood, validations>>)
        /\ WF_validationVars(Finish(c) \/ Retry(c) \/ RetryCancelled(c))

ValidationFairSpec == ValidationSpec /\ ValidationFairness

-----------------------------------------------------------------------------
(* Properties. *)

ValidationTypeOK ==
    /\ attempt \in [Callers -> 0..Attempts]
    /\ verdict \in [Callers -> Verdicts]
    /\ knownGood \in [Callers -> BOOLEAN]
    /\ validations \in 0..MaxValidations

(* A failure of the platform, or of a proxy, that reads like a refusal. *)
Misread(e) == e \in Faults /\ (e.status \in {"401", "403"} \/ e.body = "rejecting code")

(* A host that is told a credential is invalid may disable the account:    *)
(* that happens only to a credential the platform refuses, or that a       *)
(* failing platform or proxy answers for as if it did.  No lost, late or   *)
(* broken answer, no unreadable body, no 5xx and no transient code does it *)
(* in any attempt, but with a 401 or 403 (errors.go; test                  *)
(* TestValidateCredential_TransientOAuthResponseReturnsGoError, where the  *)
(* status is 400).                                                         *)
InvalidOnlyIfRefused ==
    [][\A c \in Callers : verdict'[c] = "invalid" /\ verdict[c] # "invalid" =>
         cred[c] \notin accepted \/ Misread(result[c].error)]_validationVars

(* A credential the platform never accepted is never found valid, whatever *)
(* the cache holds for others.                                             *)
ValidWasRegistered ==
    [][\A c \in Callers : verdict'[c] = "valid" /\ verdict[c] # "valid" =>
         cred[c] \in Registered]_validationVars

(* A failure that may be over soon: no answer comes, or one that says, or  *)
(* shows, that the platform is in trouble itself.  An answer that breaks   *)
(* off in its body would be one, but the code makes its error final        *)
(* (io.ErrUnexpectedEOF), as it does a code of the platform's that it does *)
(* not know; those two are left out.                                       *)
Transient(e) ==
    \/ e.body \in {"lost", "garbled", "transient code"}
    \/ e.status \in {"408", "429", "5xx"}
    \/ e.status = "2xx" /\ e.body \in {"no token", "empty"}

(* A single failure that may be over soon does not fail a validation,      *)
(* unless its context is cancelled (test                                   *)
(* TestValidateCredential_TransientErrorCanRecover): an error then takes   *)
(* as many failures as there are attempts.                                 *)
OneFaultSurvived ==
    [][\A c \in Callers : verdict'[c] = "error" /\ verdict[c] # "error" =>
         \/ faults >= Attempts
         \/ ~Transient(result[c].error)
         \/ c \in cancelled]_validationVars

(* A credential that is found valid was accepted by the platform when the  *)
(* validation began (comment of Validate: "proves the app registration is  *)
(* valid by acquiring a Bot Framework token").                             *)
ValidIsProven ==
    \A c \in Callers : verdict[c] = "valid" => knownGood[c]

(* Every validation comes to a verdict. *)
EventuallyVerdict == \A c \in Callers : Validating(c) ~> verdict[c] # "none"

(***************************************************************************)
(* Why one fault is survived: unless its context is cancelled, a           *)
(* validation makes another attempt only after a fault of its own, and     *)
(* what would be worth a further one has cost it another.                  *)
(***************************************************************************)
RetryableEnd(c) ==
    \/ pc[c] = "answered" /\ ~Granted(answer[c]) /\ ClassOf(answer[c]) = "retryable"
    \/ pc[c] = "returned" /\ result[c].class = "retryable"

FaultInv ==
    \A c \in Callers :
        /\ pc[c] = "returned" => result[c].class # "none"
        /\ result[c].class \notin {"none", "token"} =>
            result[c].class = ClassOf(result[c].error)
        /\ Validating(c) /\ c \notin cancelled =>
            /\ attempt[c] <= faults + 1
            /\ RetryableEnd(c) => attempt[c] <= faults

(* Refusals that do not ask for another attempt. *)
PlainRefusals == \A r \in Refusals : ClassOf(r) # "retryable"
=============================================================================
