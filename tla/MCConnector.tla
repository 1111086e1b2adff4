----------------------------- MODULE MCConnector -----------------------------
(* Small sets of activities for the runs of Connector. *)
EXTENDS Connector

CONSTANTS acct1, acct2, m1, m2, m3, chat1, chat2, url1, url2

Post(acct, kind, id, chat, url) ==
    [account |-> acct, kind |-> kind, id |-> id, chat |-> chat,
     chatType |-> "group", url |-> url]

(* Two bots in one chat, each posted from a service of its own. *)
TwoBots == {Post(acct1, "text", m1, chat1, url1), Post(acct2, "text", m1, chat1, url2)}

(* Texts of one chat, so that the map of marks overflows, and an update    *)
(* of another conversation.                                                *)
TextsAndUpdate == {Post(acct1, "text", m1, chat1, url1),
                   Post(acct1, "text", m2, chat1, url1),
                   Post(acct1, "text", m3, chat1, url1),
                   Post(acct1, "conversationUpdate", m2, chat2, url2)}
=============================================================================
