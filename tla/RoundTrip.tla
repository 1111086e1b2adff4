----------------------------- MODULE RoundTrip -----------------------------
(***************************************************************************)
(* A conversation of people with the bots of one host: what a person says  *)
(* becomes activities, the connector makes inbound messages of them, the   *)
(* host answers some, and what SendText posts may come back as an activity *)
(* of the bot itself.  Credentials are validated, and the State of an      *)
(* account is replaced by the document the connector saved, at any time.   *)
(*                                                                         *)
(* Repeated deliveries, failures and the order of saves are Inbound's and  *)
(* Connector's subject; here an activity is delivered once and at once.    *)
(***************************************************************************)
EXTENDS Activity

CONSTANTS Words,
          Registrations, \* the accounts of the host, a sequence of <<UUID, app>>
          Sayings,       \* what people post: [said, attached], see Said
          NameOf,        \* the display name of everybody who can be mentioned
          AnswerTexts,   \* sequences of words and tags
          Threads,       \* ids of activities that others reply to
          MaxAnswers

(* What can be attached: a card, or nothing but a name.                    *)
Texts    == Words \cup Names \cup {Absent}
Attached == [name : Texts, card : Seq([text : Texts, path : Seq(ToSet(TextKeys))])]

ASSUME RoundTripAssumption ==
    /\ Registrations \in Seq((UUIDs \cup {Absent}) \X Apps)
    /\ People \cap Apps = {}
    /\ Absent \notin People \cup {Person(p) : p \in People} \cup {Bare(p) : p \in People}
    /\ Absent \notin {"chat", "id"}
    /\ NameOf \in [DOMAIN NameOf -> Names]
    /\ \A saying \in Sayings :
          /\ saying.said \in Seq(Words \cup DOMAIN NameOf)
          /\ saying.attached \in Seq(Attached)
    /\ AnswerTexts \subseteq Seq(Words \cup {At(name) : name \in Names})
    \* Teams mentions bots by their ids in the chat; words are not ids or tags.
    /\ DOMAIN NameOf \cap {Bare(x) : x \in Apps} = {}
    /\ Words \cap (DOMAIN NameOf \cup BotIds \cup {Everyone, Absent}) = {}
    /\ {At(name) : name \in Names} \cap (Words \cup {Absent}) = {}

VARIABLES runtime,    \* the host's accounts
          references, \* the accounts' service URL of the chat, by account key
          wire,       \* posts on their way to the webhook
          handled,    \* posts answered 200, with what became of them
          sent        \* posts of SendText

vars == <<runtime, references, wire, handled, sent>>

InChatOf(i) == InChat(Registrations[i][2])
AccountKeys == UUIDs \cup BotIds

-----------------------------------------------------------------------------
(* What Teams makes of a message: a tag for each mention, escaped and      *)
(* repeated in its entity, or plain and in the text alone.                 *)

Tag(who, escaped) == At(IF escaped THEN Escaped[NameOf[who]] ELSE NameOf[who])

TextOf(said, escaped) ==
    [k \in DOMAIN said |-> IF said[k] \in Words THEN said[k] ELSE Tag(said[k], escaped)]

(* A card is a sequence of texts, each in its place: within arrays under   *)
(* the keys of a path, the innermost first ("items" for a container,       *)
(* "items" and "columns" for a column set).                                *)
Array(items) == [kind |-> "array", items |-> items]
Object(key, x) == [kind |-> "object", fields |-> [k \in {key} |-> x]]
Block(b) ==
    LET nested[n \in 0..Len(b.path)] ==
            IF n = 0 THEN Object("text", [kind |-> "string", text |-> b.text])
            ELSE Object(b.path[n], Array(<<nested[n - 1]>>))
    IN nested[Len(b.path)]
Attachment(a) ==
    [name |-> a.name,
     content |-> IF a.card = <<>> THEN Null
                 ELSE Object("body", Array([k \in DOMAIN a.card |-> Block(a.card[k])]))]

EntitiesOf(said, escaped) ==
    LET whom == Filter(said, LAMBDA x : x \notin Words)
    IN [k \in DOMAIN whom |->
          [id |-> whom[k], aad |-> Absent, name |-> NameOf[whom[k]],
           tag |-> IF escaped THEN Tag(whom[k], TRUE) ELSE Absent]]

(* What is said: a sequence of words and of who is mentioned, and the      *)
(* attachments.                                                            *)
Said(said, attached) == [said |-> said, attached |-> attached]

Post(i, type, author, from, recipient, saying, escaped, thread) ==
    [to |-> i, author |-> author, said |-> saying.said, attached |-> saying.attached,
     escaped |-> escaped,
     act |-> [type |-> type, id |-> "id", chat |-> "chat", from |-> from,
              recipient |-> [id |-> recipient, aad |-> Absent, name |-> Absent],
              entities |-> EntitiesOf(saying.said, escaped),
              text |-> TextOf(saying.said, escaped), value |-> Null,
              attachments |-> [k \in DOMAIN saying.attached |-> Attachment(saying.attached[k])],
              replyTo |-> thread]]

Init ==
    /\ runtime = [i \in DOMAIN Registrations |->
                    Registered(Registrations[i][1], Registrations[i][2])]
    /\ references = [k \in AccountKeys |-> Absent]
    /\ wire = {} /\ handled = {} /\ sent = {}

(* The host stores what ValidateCredential returns.                        *)
Validate(i) ==
    /\ runtime' = [runtime EXCEPT ![i] = ValidateCredential(@)]
    /\ UNCHANGED <<references, wire, handled, sent>>

(* The host takes the document saved for the account as its State.         *)
Reload(i) ==
    /\ AccountKey(runtime[i]) # Absent
    /\ references[AccountKey(runtime[i])] # Absent
    /\ runtime' = [runtime EXCEPT ![i] = StateAfterSave(@)]
    /\ UNCHANGED <<references, wire, handled, sent>>

(* A person posts: every bot gets a copy; or members of the chat change.   *)
UserPosts ==
    /\ wire = {} /\ handled = {}
    /\ \E p \in People, aad \in BOOLEAN, saying \in Sayings, escaped \in BOOLEAN,
          thread \in Threads \cup {Absent}, type \in {"message", "conversationUpdate"} :
        LET from == [id |-> Person(p), aad |-> IF aad THEN Bare(p) ELSE Absent,
                     name |-> NameOf[Person(p)]]
        IN wire' = {Post(i, type, p, from, InChatOf(i), saying, escaped, thread) :
                       i \in DOMAIN runtime}
    /\ UNCHANGED <<runtime, references, handled, sent>>

(* processMessageEvent without its failures: an account without a key is   *)
(* an error, and the post stays for another try.                           *)
Deliver(post, url) ==
    LET acct == runtime[post.to]
        key  == AccountKey(acct)
        kind == Kind(post.act, acct)
    IN /\ key # Absent
       /\ references' = [references EXCEPT ![key] = url]
       /\ wire' = wire \ {post}
       /\ handled' = handled \cup
            {[post |-> post, kind |-> kind,
              msg |-> IF kind = "text" THEN InboundMessage(post.act, acct) ELSE Absent]}
       /\ UNCHANGED <<runtime, sent>>

Heard == {done \in handled : done.kind = "text"}

(* The host answers a message: it names the account or leaves the choice   *)
(* to Send, and mentions the sender, those the sender mentioned, and all,  *)
(* with or without a name for it.                                          *)
Requests(msg) ==
    LET sender == [id |-> msg.sender, all |-> FALSE, name |-> msg.senderName]
        toAll  == [id |-> Everyone, all |-> TRUE, name |-> Everyone]
    IN [account : {msg.account, Absent}, text : AnswerTexts, thread : {msg.thread, Absent},
        raw : {msg.raw}, mentionAll : BOOLEAN,
        mentions : {<<>>, <<sender, toAll>>, <<sender>> \o msg.mentions,
                    <<sender, [toAll EXCEPT !.name = Absent]>>}]

(* Send: nothing happens when the account, the reference or SendText       *)
(* refuses.  Teams may post the message back, from either form of the      *)
(* bot's id, to the bot or to a member of the chat.                        *)
Answer(done, req) ==
    /\ Cardinality(sent) < MaxAnswers
    /\ \E i \in Selected(runtime, req.account) :
        LET url == references[AccountKey(runtime[i])]
            app == Registrations[i][2]
        IN /\ url # Absent
           /\ \E message \in SendText(url, req) :
                sent' = sent \cup {[by |-> i, for |-> done, req |-> req, message |-> message]}
           /\ \E id \in {Bare(app), InChat(app)},
                 recipient \in {InChat(app)} \cup {Person(p) : p \in People} :
                LET from  == [id |-> id, aad |-> Absent, name |-> Absent]
                    words == Filter(req.text, LAMBDA x : x \in Words)
                IN wire' = wire \cup {Post(i, "message", Absent, from, recipient,
                                           Said(words, <<>>), FALSE, Absent)}
    /\ UNCHANGED <<runtime, references, handled>>

Next ==
    \/ \E i \in DOMAIN runtime : Validate(i) \/ Reload(i)
    \/ UserPosts
    \/ \E post \in wire, url \in AllowedUrls : Deliver(post, url)
    \/ \E done \in Heard : \E req \in Requests(done.msg) : Answer(done, req)

Spec == Init /\ [][Next]_vars

-----------------------------------------------------------------------------
ByUser(done) == done.post.author # Absent

(* The texts of a card that are within reach: a body, a block and two more *)
(* values for each key of its path around a text, in eight levels at most  *)
(* two keys.  Of a card without any only the attachment's name is left.    *)
Readable(a) ==
    LET near == {b \in ToSet(a.card) : b.text # Absent /\ 3 + 2 * Len(b.path) <= MaxTextDepth}
    IN (IF near = {} THEN {a.name} ELSE {b.text : b \in near}) \ {Absent}

ReadIn(post) == UNION {Readable(a) : a \in ToSet(post.attached)}

(* A message the bot posted itself is never taken for a user's, in either  *)
(* form of its id and whatever the host knows of the account by then: the  *)
(* bot never answers itself (the self-echo filter of processMessageEvent). *)
NoReplyLoop == \A done \in handled : ~ByUser(done) => done.kind = "selfEcho"

(* What a person says to the bot becomes a message, a bare mention of the  *)
(* bot and a card with a text within reach included; nothing else does.    *)
UsersHeard ==
    \A done \in handled : ByUser(done) =>
        (done.kind = "text" <=> /\ done.post.act.type = "message"
                                /\ done.post.said # <<>> \/ ReadIn(done.post) # {})

(* The message says who was mentioned and keeps what was said: all of it   *)
(* but the mentions of the bot (and of others that go by its name), however *)
(* tags were written and in whatever state the account is.                 *)
Arrived(done) ==
    LET said == done.post.said
        me   == InChatOf(done.post.to)
        toMe == me \in ToSet(said)
        kept == Filter(said, LAMBDA x : ~toMe \/ x \in Words \/ NameOf[x] # NameOf[me])
    IN /\ done.msg.mentionedMe = toMe
       /\ done.msg.mentionAll = (Everyone \in ToSet(said))
       /\ done.msg.text = TextOf(kept, done.post.escaped)

MentionsArrive == \A done \in {d \in Heard : d.post.said # <<>>} : Arrived(done)

(* A message without a text of its own has every text within reach of its  *)
(* cards, once each, whatever the other texts and attachments are.         *)
CardsRead ==
    \A done \in {d \in Heard : d.post.said = <<>>} :
        ToSet(done.msg.text) = ReadIn(done.post) /\ IsInjective(done.msg.text)

(* Every complete mention of a request is an entity of the posted message, *)
(* one for each id, and the tag of every entity is in the text: Teams      *)
(* refuses or ignores a mention that lacks either.                         *)
TagsMatch ==
    \A s \in sent :
        /\ \A e \in s.message.entities : e.tag \in ToSet(s.message.text)
        /\ \A e, f \in s.message.entities : e.id = f.id => e = f
        /\ \A m \in ToSet(s.req.mentions) :
              Complete(m) => \E e \in s.message.entities : e.id = m.id
        /\ IsSuffix(s.req.text, s.message.text)

(* The bot that was spoken to answers, in the thread it was spoken to in,  *)
(* even when the account got its identifiers in between.                   *)
AnswersFromReceiver ==
    \A s \in sent : s.by = s.for.post.to /\ s.message.replyTo = s.for.msg.thread
-----------------------------------------------------------------------------
(* Why the bot knows its own posts and answers in its own name: parts of   *)
(* an inductive invariant.                                                 *)

(* An account as the credential form or a validation leaves it: it knows   *)
(* no ids but its own.                                                     *)
Own(a) ==
    /\ a.account_id \in {Absent, a.client_id}
    /\ a.bot_id = a.account_id
    /\ {a.bot_user_id, a.state_bot_id} \cup a.identities
          \subseteq {Absent, a.client_id, InChat(a.client_id[2])}

(* Whatever was stored for an account, it is the one that was registered.  *)
AccountsInv ==
    /\ runtime \in [DOMAIN Registrations -> Account]
    /\ \A i \in DOMAIN Registrations :
          /\ runtime[i].uuid = Registrations[i][1]
          /\ runtime[i].client_id = Bare(Registrations[i][2])
          /\ Own(runtime[i])

(* A post is for an account of the host, and it is what was said.  One     *)
(* that no person wrote is a message that the bot it is for posted itself. *)
PostsInv ==
    \A post \in wire \cup {done.post : done \in handled} :
        /\ post.to \in DOMAIN Registrations
        /\ post.said \in Seq(Words \cup DOMAIN NameOf)
        /\ post.act.text = TextOf(post.said, post.escaped)
        /\ post.act.entities = EntitiesOf(post.said, post.escaped)
        /\ post.attached \in Seq(Attached)
        /\ post.act.value = Null
        /\ post.act.attachments =
              [k \in DOMAIN post.attached |-> Attachment(post.attached[k])]
        /\ post.author # Absent =>
              /\ post.author \in People
              /\ post.act.type \in {"message", "conversationUpdate"}
              /\ post.act.id = "id" /\ post.act.chat = "chat"
              /\ post.act.from.id = Person(post.author)
              /\ post.act.from.aad \in {Absent, Bare(post.author)}
              /\ post.act.recipient.id = InChatOf(post.to)
              /\ post.act.recipient.aad = Absent
        /\ post.author = Absent =>
              LET app == Registrations[post.to][2]
              IN post.act.type = "message" /\ post.act.from.id \in {Bare(app), InChat(app)}

(* The account a message names is still the key of the one it was for.     *)
HeardInv ==
    \A done \in Heard :
        /\ done.msg.account # Absent
        /\ done.msg.account = AccountKey(runtime[done.post.to])
        /\ done.msg.raw = done.msg.thread
        /\ done.msg.mentions = Mentions(done.post.act)

RoundTripInv == AccountsInv /\ PostsInv /\ HeardInv /\ NoReplyLoop

(* No account goes by the key of another: a UUID is given once, and two    *)
(* accounts share an app only if both have one.                            *)
DistinctAccounts ==
    \A i, j \in DOMAIN Registrations : i # j =>
        LET r == Registrations[i]
            t == Registrations[j]
        IN /\ r[1] = t[1] => r[1] = Absent
           /\ r[2] = t[2] => Absent \notin {r[1], t[1]}

(* Names can be told apart in a text: no name on display reads, escaped or *)
(* not, like another that is escaped, and only Everyone is called so.      *)
PlainNames ==
    \A x, y \in DOMAIN NameOf :
        /\ Escaped[NameOf[x]] \in {NameOf[y], Escaped[NameOf[y]]} => NameOf[x] = NameOf[y]
        /\ NameOf[x] = Everyone => x = Everyone
=============================================================================
