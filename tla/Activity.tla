------------------------------ MODULE Activity ------------------------------
(***************************************************************************)
(* What processMessageEvent makes of an activity, and what SendText makes  *)
(* of a message: mentions and text.                                        *)
(*                                                                         *)
(* A text is a sequence of words and of mention tags <at>name</at>, which  *)
(* the code looks for and deletes whole.                                   *)
(***************************************************************************)
EXTENDS CardText

CONSTANTS People,     \* who is not a bot
          Names,      \* display names
          Escaped,    \* html.EscapeString of each name
          Everyone,   \* the id and the name that stand for all members
          AllowedUrls \* service URLs of Bot Framework hosts

ASSUME ActivityAssumption ==
    /\ Everyone \in Names
    /\ Escaped \in [Names -> Names]

Person(p) == <<"29:", p>>
At(name)  == <<"at", name>>

-----------------------------------------------------------------------------
(* Inbound.  An activity has: type, id, chat, from and recipient (each     *)
(* [id, aad, name]), entities (the mentions, each [id, aad, name, tag]),    *)
(* text, value and attachments (CardText), and the activity it replies to. *)

MentionsOfMe(act, acct) == {e \in ToSet(act.entities) : IsBot(e, act, acct)}

(* Defect: only the tag made of the name is deleted. *)
StrippedText_ByName(act, acct) ==
    LET tags == {At(e.name) : e \in MentionsOfMe(act, acct)}
    IN Filter(ActivityText(act), LAMBDA t : t \notin tags)

(* stripTeamsMention: the tag the entity gives, and the one of its name.   *)
StrippedText(act, acct) ==
    LET mine == MentionsOfMe(act, acct)
        tags == {e.tag : e \in mine} \cup {At(e.name) : e \in mine}
    IN Filter(ActivityText(act), LAMBDA t : t \notin tags)

MentionAll(act) ==
    \E e \in ToSet(act.entities) : FirstString(<<e.aad, e.id>>) = Everyone \/ e.name = Everyone

SenderID(act) == FirstString(<<act.from.aad, act.from.id>>)

(* Defect: a message that only mentions the bot has no text. *)
Incomplete_NoText(act, acct) ==
    Absent \in {act.chat, act.id, SenderID(act)} \/ StrippedText(act, acct) = <<>>

Incomplete(act, acct) ==
    \/ Absent \in {act.chat, act.id, SenderID(act)}
    \/ StrippedText(act, acct) = <<>> /\ MentionsOfMe(act, acct) = {}

(* The kinds of Inbound, in the order of the code. *)
Kind(act, acct) ==
    CASE act.type = "conversationUpdate" -> "conversationUpdate"
      [] act.type \notin {"conversationUpdate", "message"} -> "unsupported"
      [] act.type = "message" /\ SelfEcho(act, acct) -> "selfEcho"
      [] act.type = "message" /\ ~SelfEcho(act, acct) /\ Incomplete(act, acct) -> "incomplete"
      [] OTHER -> "text"

(* The mentions of Inbound: the entities that name somebody.               *)
Mentions(act) ==
    LET ids == [i \in DOMAIN act.entities |->
                  LET e == act.entities[i]
                  IN [id |-> FirstString(<<e.aad, e.id>>), all |-> FALSE, name |-> e.name]]
    IN Filter(ids, LAMBDA m : m.id # Absent)

(* The InboundMessage of a text; raw is its Raw["reply_to_id"].            *)
InboundMessage(act, acct) ==
    [account |-> AccountKey(acct), sender |-> SenderID(act), senderName |-> act.from.name,
     thread |-> act.replyTo, raw |-> act.replyTo, text |-> StrippedText(act, acct),
     mentions |-> Mentions(act), mentionedMe |-> MentionsOfMe(act, acct) # {},
     mentionAll |-> MentionAll(act)]

-----------------------------------------------------------------------------
(* Outbound.  A mention of a message to send has: id, all (is its id_type  *)
(* mention_all?), name.                                                    *)

Complete(m) == m.id # Absent /\ m.name # Absent

(* The mentions that become entities: complete ones, the first of each id. *)
Mentioned(mentions) ==
    Picked(mentions,
           {i \in DOMAIN mentions :
               /\ Complete(mentions[i])
               /\ \A j \in 1..(i - 1) :
                     Complete(mentions[j]) => mentions[j].id # mentions[i].id})

Visible(m) == At(Escaped[m.name])

Entities(mentions) ==
    {[id |-> m.id, aad |-> Absent, name |-> m.name, tag |-> Visible(m)] :
        m \in ToSet(Mentioned(mentions))}

(* Defect: a tag is searched for with the name as it is given. *)
MentionText_Unescaped(text, mentions) ==
    LET missing == Filter(Mentioned(mentions), LAMBDA m : At(m.name) \notin ToSet(text))
    IN [i \in DOMAIN missing |-> Visible(missing[i])] \o text

(* Tags that the text does not have yet go before it. *)
MentionText(text, mentions) ==
    LET missing == Filter(Mentioned(mentions), LAMBDA m : Visible(m) \notin ToSet(text))
    IN [i \in DOMAIN missing |-> Visible(missing[i])] \o text

HasMentionAllIdentity(mentions) ==
    \E m \in ToSet(mentions) : m.all \/ m.id = Everyone \/ m.name = Everyone

(* What SendText posts; nothing if it refuses before it asks for a token.  *)
SendText(url, req) ==
    IF \/ req.text = <<>>
       \/ url \notin AllowedUrls
       \/ req.mentionAll /\ ~HasMentionAllIdentity(req.mentions)
    THEN {}
    ELSE {[text |-> MentionText(req.text, req.mentions),
           entities |-> Entities(req.mentions),
           replyTo |-> FirstString(<<req.thread, req.raw>>)]}
=============================================================================
