-------------------------------- MODULE Inbox --------------------------------
(***************************************************************************)
(* What the inbound side promises, with no handler, store or failure in    *)
(* sight: Teams posts activities; a genuine text becomes a Beak message    *)
(* before its delivery is acknowledged, nothing else becomes a message,    *)
(* and every activity is acknowledged in the end.                          *)
(***************************************************************************)
CONSTANTS Posted,       \* the activities Teams posts
          Genuine,      \* those that are new text from a user
          MessageOf(_)  \* the message an activity stands for

VARIABLES messages,     \* messages Beak holds
          acked         \* activities answered with 200

inboxVars == <<messages, acked>>

InboxInit == messages = {} /\ acked = {}

Create(a) ==
    /\ a \in Genuine
    /\ messages' = messages \cup {MessageOf(a)}
    /\ UNCHANGED acked

Ack(a) ==
    /\ a \in Genuine => MessageOf(a) \in messages
    /\ acked' = acked \cup {a}
    /\ UNCHANGED messages

InboxNext == \E a \in Posted : Create(a) \/ Ack(a)

InboxSafety == InboxInit /\ [][InboxNext]_inboxVars

InboxSpec == /\ InboxSafety
             /\ \A a \in Posted : WF_inboxVars(Create(a)) /\ WF_inboxVars(Ack(a))
=============================================================================
