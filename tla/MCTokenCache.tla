---------------------------- MODULE MCTokenCache ----------------------------
(* Grants, answers and instants for the runs of TokenCache.  The numbers   *)
(* of seconds are those of the code.                                       *)
EXTENDS TokenCache

CONSTANTS good, bad, blank,   \* a right, a wrong and an incomplete credential
          a, b                \* callers

Ordinary == {[lifetime |-> 3600, expiresIn |-> 3600],
             [lifetime |-> 3600, expiresIn |-> 0],
             [lifetime |-> 121, expiresIn |-> 121]}

Refused == {[status |-> "400", body |-> "rejecting code"],
            [status |-> "401", body |-> "empty"]}

Unavailable == {[status |-> "5xx", body |-> "garbled"],
                [status |-> "400", body |-> "transient code"],
                [status |-> "2xx", body |-> "no token"],
                [status |-> "400", body |-> "other code"]}

(* Around the time-out, the skew and the end of a token's life. *)
Moments == {15, 61, 76, 121, 3555, 3600}
=============================================================================
