---------------------------- MODULE MCValidation ----------------------------
(* Answers for the runs of Validation. *)
EXTENDS Validation

CONSTANTS good, bad, blank,   \* a right, a wrong and an incomplete credential
          a, b                \* callers

Hours == {[lifetime |-> 3600, expiresIn |-> 3600]}

Refused == {[status |-> "400", body |-> "rejecting code"],
            [status |-> "401", body |-> "empty"]}

(* Two failures worth another attempt, for different reasons, and one that *)
(* reads like a refusal while it says that the platform is unavailable.    *)
(* Errors not worth another attempt come from answers that break off.      *)
Unavailable == {[status |-> "5xx", body |-> "garbled"],
                [status |-> "400", body |-> "transient code"],
                [status |-> "403", body |-> "transient code"]}

(* The answers of this instance are those the theorems speak of. *)
ASSUME AnswersAssumption == SafeGrants /\ PlainRefusals
=============================================================================
