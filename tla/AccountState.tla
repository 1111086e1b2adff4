---------------------------- MODULE AccountState ----------------------------
(***************************************************************************)
(* The state the connector keeps for one bot account: a single document in *)
(* the host's account store, always read and written whole                 *)
(* (state.AccountState, connectorStateStore).                              *)
(*                                                                         *)
(*   seen      inbound_seen: message id -> when it was processed.  The Go  *)
(*             key also carries the account, which is the same for every   *)
(*             key of one document                                         *)
(*   urls      service_urls and conversation_references, which one         *)
(*             assignment block always writes together: chat -> service URL*)
(*   sessions  the keys of peer_sessions (their value is the one session   *)
(*             the gateway has for that account and chat)                  *)
(*   linked    channel_link_session holds the account's link session       *)
(*                                                                         *)
(* Tenant, stream health and the maps nothing writes are left out: no      *)
(* decision of the connector reads them.                                   *)
(***************************************************************************)
EXTENDS TrackedState

CONSTANTS Ids,      \* message ids
          Chats,    \* conversation ids
          Urls      \* service URLs

ASSUME AccountAssumption == Absent \notin Ids \cup Chats \cup Urls

ChatTypes == {"direct", "group"}

(* What a conversation's session is filed under. *)
StateKeys == ChatTypes \X Chats

Blob == [seen     : [Ids -> Nat \cup {Absent}],
         urls     : [Chats -> Urls \cup {Absent}],
         sessions : SUBSET StateKeys,
         linked   : BOOLEAN]

(* An account nothing was stored for: zero value plus EnsureMaps. *)
EmptyBlob == [seen     |-> [i \in Ids |-> Absent],
              urls     |-> [c \in Chats |-> Absent],
              sessions |-> {},
              linked   |-> FALSE]

(* TouchAccount, which every save runs first: the documents it may leave. *)
Touched(b, now) == {[b EXCEPT !.seen = s] : s \in Pruned(b.seen, now)}
=============================================================================
