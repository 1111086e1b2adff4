----------------------------- MODULE MCWebhook -----------------------------
(* Keys, requests and posts for the run of Webhook. *)
EXTENDS Webhook

CONSTANTS old, new,  \* the key in use and the one that replaces it
          r1, r2,    \* requests
          msteams    \* a channel

Token(k, nbf, exp) ==
    [size |-> MaxBody, readable |-> TRUE, decodes |-> TRUE, flawed |-> FALSE,
     nbf |-> nbf, exp |-> exp, kid |-> k, signed |-> TRUE, channel |-> msteams]

(* Tokens of either key whose windows open and close while the clock runs, *)
(* and posts with one thing wrong.                                         *)
SomePosts ==
    LET good == Token(old, Never, 1)
    IN {good, Token(new, 3, 4),
        [good EXCEPT !.size = MaxBody + 1, !.channel = Absent],
        [good EXCEPT !.decodes = FALSE],
        [good EXCEPT !.flawed = TRUE],
        [good EXCEPT !.kid = NoKid],
        [good EXCEPT !.signed = FALSE]}

EndorsedForTeams == [k \in Kids |-> {msteams}]
=============================================================================
