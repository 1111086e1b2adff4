------------------------------ MODULE MCInbound ------------------------------
(* Small sets of activities for the runs of Inbound. *)
EXTENDS Inbound

CONSTANTS acct1,          \* an account
          m1, m2, m3,     \* message ids
          chat1, chat2,   \* conversations
          url1            \* a service URL

Text(acct, id, chat, url) ==
    [account |-> acct, kind |-> "text", id |-> id, chat |-> chat,
     chatType |-> IF chat = chat1 THEN "group" ELSE "direct", url |-> url]

Echo(acct, id, chat, url) == [Text(acct, id, chat, url) EXCEPT !.kind = "selfEcho"]

(* Two users' texts in two chats. *)
TwoTexts == {Text(acct1, m1, chat1, url1), Text(acct1, m2, chat2, url1)}

(* A text, another one in the same chat without a URL, and an echo. *)
Mixed == {Text(acct1, m1, chat1, url1), Text(acct1, m2, chat1, Absent),
          Echo(acct1, m3, chat2, url1)}

OneText == {Text(acct1, m1, chat1, url1)}

=============================================================================
