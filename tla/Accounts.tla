------------------------------ MODULE Accounts ------------------------------
(***************************************************************************)
(* Bot accounts: how they are named, what ValidateCredential adds to them, *)
(* how an activity of the bot itself is told from others, and how a        *)
(* request to send picks an account.                                       *)
(*                                                                         *)
(* An identifier is a pair of prefix and body, compared without case: the  *)
(* app id of a bot, bare, or its id in a chat, "28:" and the app id; the   *)
(* id of a person has other prefixes.                                      *)
(***************************************************************************)
EXTENDS Naturals, Sequences, FiniteSets

CONSTANTS Apps,    \* app registrations (client ids) of bots
          UUIDs,   \* account_uuids given by the host
          Absent   \* an empty string

Bare(x)    == <<"bare", x>>
InChat(x)  == <<"28:", x>>
HasColon(id) == id[1] # "bare"

BotIds == {Bare(x) : x \in Apps} \cup {InChat(x) : x \in Apps}

(* The credential and the host's State of an account.  "identities" are    *)
(* the bot_user_id, bot_identity and bot_identities of State; its bot_id   *)
(* is the only one that the connector's own document (st.BotID) keeps.     *)
Account == [uuid : UUIDs \cup {Absent},
            client_id : {Bare(x) : x \in Apps},
            account_id : BotIds \cup {Absent},
            bot_id : BotIds \cup {Absent},
            bot_user_id : BotIds \cup {Absent},
            state_bot_id : BotIds \cup {Absent},
            identities : SUBSET BotIds]

ASSUME AccountsAssumption ==
    /\ Absent \notin Apps \cup UUIDs \cup BotIds
    /\ UUIDs \cap BotIds = {}

(* As the credential form leaves it. *)
Registered(uuid, app) ==
    [uuid |-> uuid, client_id |-> Bare(app), account_id |-> Absent, bot_id |-> Absent,
     bot_user_id |-> Absent, state_bot_id |-> Absent, identities |-> {}]

FirstString(s) ==
    LET filled == {i \in DOMAIN s : s[i] # Absent}
    IN IF filled = {} THEN Absent
       ELSE s[CHOOSE i \in filled : \A j \in filled : i <= j]

(* What a successful ValidateCredential returns of an account. *)
ValidateCredential(a) ==
    LET inChat == InChat(a.client_id[2])
    IN [a EXCEPT !.account_id = a.client_id, !.bot_id = a.client_id,
                 !.bot_user_id = inChat, !.state_bot_id = a.client_id,
                 !.identities = {inChat, a.client_id}]

(* SaveAccount writes the connector's document over State. *)
StateAfterSave(a) == [a EXCEPT !.identities = {}]

-----------------------------------------------------------------------------
(* Identity.  The from and the recipient of an activity are each [id, aad]. *)

(* Defect: a bare id is not taken for the id in a chat. *)
BotIDs_AsGiven(act, acct) ==
    ({act.recipient.id, act.recipient.aad, acct.state_bot_id,
      acct.client_id, acct.bot_id, acct.bot_user_id}
     \cup acct.identities) \ {Absent}

(* teamsBotIDs: all that is known of the bot, and each bare id prefixed.   *)
BotIDs(act, acct) ==
    LET given == ({act.recipient.id, act.recipient.aad, acct.state_bot_id,
                   acct.client_id, acct.bot_id, acct.bot_user_id}
                  \cup acct.identities) \ {Absent}
    IN given \cup {InChat(id[2]) : id \in {g \in given : ~HasColon(g)}}

IsBot(who, act, acct) == {who.id, who.aad} \cap BotIDs(act, acct) # {}

SelfEcho(act, acct) ==
    \/ IsBot(act.from, act, acct)
    \/ act.recipient.id # Absent /\ act.from.id = act.recipient.id

-----------------------------------------------------------------------------
(* Selection.  A runtime is the sequence of its Account and its Accounts.  *)

AccountKey(a) == FirstString(<<a.uuid, a.account_id, a.bot_id>>)

AccountMatches(a, id) == id \in {a.uuid, a.account_id, a.bot_id}

(* The first account of each key. *)
Candidates(runtime) ==
    {i \in DOMAIN runtime :
        /\ AccountKey(runtime[i]) # Absent
        /\ \A j \in DOMAIN runtime :
            j < i => AccountKey(runtime[j]) # AccountKey(runtime[i])}

(* Defect: without a match the first account sends. *)
Selected_AnyAccount(runtime, id) == {i \in Candidates(runtime) : \A j \in Candidates(runtime) : i <= j}

(* The account that sends, none if the choice is refused: the first that   *)
(* matches, or the only one if the request does not name any.              *)
Selected(runtime, id) ==
    LET matching == {i \in Candidates(runtime) : AccountMatches(runtime[i], id)}
    IN IF id # Absent
       THEN {i \in matching : \A j \in matching : i <= j}
       ELSE {i \in Candidates(runtime) : Candidates(runtime) = {i}}
=============================================================================
