--------------------------- MODULE RoundTripProofs --------------------------
(***************************************************************************)
(* That a bot never answers itself and that the bot that was spoken to is  *)
(* the one that answers, whichever accounts the host has; and what that    *)
(* rests on: a request reaches the account whose key it carries,           *)
(* validation takes no key away, and the bot's own activities, and no      *)
(* others, are taken for echoes.                                           *)
(***************************************************************************)
EXTENDS RoundTrip, CardTextProofs

(* An account goes by its key: the key is one of what accountMatches       *)
(* compares with.                                                          *)
LEMMA KeyMatches ==
    ASSUME NEW a, AccountKey(a) # Absent
    PROVE  AccountMatches(a, AccountKey(a))
<1> DEFINE s == <<a.uuid, a.account_id, a.bot_id>>
           filled == {i \in DOMAIN s : s[i] # Absent}
           least == CHOOSE i \in filled : \A j \in filled : i <= j
<1>1. filled # {} /\ AccountKey(a) = s[least]
  BY DEF AccountKey, FirstString
<1>2. filled \subseteq Nat
  BY DOMAIN s = 1..3
<1>3. \E i \in filled : \A j \in filled : i <= j
  BY <1>1, <1>2, LeastExists
<1>4. least \in filled
  BY <1>3
<1>5. least \in {1, 2, 3}
  BY <1>4, DOMAIN s = 1..3
<1> QED
  BY <1>1, <1>5 DEF AccountMatches

(* What AccountKey is, case by case.                                       *)
LEMMA KeyIsUuid ==
    ASSUME NEW a, a.uuid # Absent
    PROVE  AccountKey(a) = a.uuid
<1> DEFINE s == <<a.uuid, a.account_id, a.bot_id>>
           filled == {i \in DOMAIN s : s[i] # Absent}
<1>1. DOMAIN s = 1..3 /\ 1 \in filled
  OBVIOUS
<1>2. \A i \in filled : (\A j \in filled : i <= j) <=> i = 1
  BY <1>1
<1>3. (CHOOSE i \in filled : \A j \in filled : i <= j) = 1
  BY <1>1, <1>2
<1> QED
  BY <1>1, <1>3 DEF AccountKey, FirstString

LEMMA KeyIsAccountId ==
    ASSUME NEW a, a.uuid = Absent, a.account_id # Absent
    PROVE  AccountKey(a) = a.account_id
<1> DEFINE s == <<a.uuid, a.account_id, a.bot_id>>
           filled == {i \in DOMAIN s : s[i] # Absent}
<1>1. DOMAIN s = 1..3 /\ 2 \in filled /\ 1 \notin filled
  OBVIOUS
<1>2. \A i \in filled : (\A j \in filled : i <= j) <=> i = 2
  BY <1>1
<1>3. (CHOOSE i \in filled : \A j \in filled : i <= j) = 2
  BY <1>1, <1>2
<1> QED
  BY <1>1, <1>3 DEF AccountKey, FirstString

LEMMA NoKey ==
    ASSUME NEW a, a.uuid = Absent, a.account_id = Absent, a.bot_id = Absent
    PROVE  AccountKey(a) = Absent
BY DEF AccountKey, FirstString

(* A request that carries the key of an account of the host goes to an  *)
(* account of that key, and only to one, provided that no account goes by  *)
(* the key of another (selectRuntimeAccount with accountMatches): the      *)
(* first candidate that matches is the account that was meant.             *)
THEOREM RequestsReachTheirAccount ==
    ASSUME NEW n \in Nat, NEW accts \in [1..n -> Account], NEW i \in 1..n,
           AccountKey(accts[i]) # Absent,
           \A j \in 1..n : AccountMatches(accts[j], AccountKey(accts[i]))
                            => AccountKey(accts[j]) = AccountKey(accts[i])
    PROVE  \E k \in 1..n : /\ Selected(accts, AccountKey(accts[i])) = {k}
                          /\ AccountKey(accts[k]) = AccountKey(accts[i])
<1> DEFINE key == AccountKey(accts[i])
           same == {j \in 1..n : AccountKey(accts[j]) = key}
           matching == {j \in Candidates(accts) : AccountMatches(accts[j], key)}
<1>1. DOMAIN accts = 1..n
  OBVIOUS
<1>2. PICK k \in same : \A j \in same : k <= j
  <2>1. same \subseteq Nat /\ same # {}
    OBVIOUS
  <2> QED
    BY <2>1, LeastExists
<1>3. k \in 1..n /\ AccountKey(accts[k]) = key
  OBVIOUS
<1>4. k \in Candidates(accts)
  <2>1. ASSUME NEW j \in 1..n, j < k PROVE AccountKey(accts[j]) # key
    BY <1>2, <1>3, <2>1
  <2> QED
    BY <1>1, <1>3, <2>1 DEF Candidates
<1>5. AccountMatches(accts[k], key)
  BY <1>3, KeyMatches
<1>6. matching = {k}
  <2>1. ASSUME NEW j \in matching PROVE j = k
    <3>1. j \in 1..n
      BY <1>1 DEF Candidates
    <3>2. AccountKey(accts[j]) = key
      BY <3>1
    <3>3. k <= j
      BY <1>2, <3>1, <3>2
    <3>4. ~(k < j)
      BY <1>1, <1>3, <3>2 DEF Candidates
    <3> QED
      BY <1>3, <3>1, <3>3, <3>4
  <2> QED
    BY <1>4, <1>5, <2>1
<1>7. Selected(accts, key) = {j \in matching : \A l \in matching : j <= l}
  BY DEF Selected
<1>8. Selected(accts, key) = {k}
  BY <1>3, <1>6, <1>7
<1> QED
  BY <1>3, <1>8

(* Validation takes no key away: an account that had one keeps it, so that *)
(* a request made before still finds the account and its document after    *)
(* ValidateCredential rewrote account_id and bot_id.                       *)
THEOREM ValidationKeepsTheKey ==
    ASSUME NEW a \in Account, Own(a), AccountKey(a) # Absent
    PROVE  /\ Own(ValidateCredential(a))
           /\ AccountKey(ValidateCredential(a)) = AccountKey(a)
<1> DEFINE v == ValidateCredential(a)
<1>1. a.client_id \in BotIds /\ a.client_id # Absent
  BY AccountsAssumption DEF Account, BotIds
<1>2. v.uuid = a.uuid /\ v.account_id = a.client_id /\ v.bot_id = a.client_id
  BY DEF ValidateCredential, Account
<1>3. v.client_id = a.client_id
  BY DEF ValidateCredential, Account
<1>4. Own(v)
  BY <1>2, <1>3 DEF Own, ValidateCredential, Account
<1>5. CASE a.uuid # Absent
  BY <1>2, <1>4, <1>5, KeyIsUuid
<1>6. CASE a.uuid = Absent
  <2>1. a.account_id # Absent
    BY <1>6, NoKey DEF Own
  <2>2. AccountKey(a) = a.client_id
    BY <1>6, <2>1, KeyIsAccountId DEF Own
  <2>3. AccountKey(v) = a.client_id
    BY <1>1, <1>2, <1>6, KeyIsAccountId
  <2> QED
    BY <1>4, <2>2, <2>3
<1> QED
  BY <1>5, <1>6

(* The bot's own post is an echo in either form of its id, whoever it is   *)
(* addressed to and whatever else the host knows of the account (the       *)
(* self-echo filter of processMessageEvent with teamsBotIDs).              *)
THEOREM OwnPostsAreEchoes ==
    ASSUME NEW a \in Account, NEW act,
           act.from.id \in {a.client_id, InChat(a.client_id[2])}
    PROVE  SelfEcho(act, a)
<1>1. a.client_id # Absent
  BY AccountsAssumption DEF Account, BotIds
<1>2. PICK x \in Apps : a.client_id = Bare(x)
  BY DEF Account
<1>3. ~HasColon(a.client_id)
  BY <1>2 DEF Bare, HasColon
<1>4. {a.client_id, InChat(a.client_id[2])} \subseteq BotIDs(act, a)
  BY <1>1, <1>3 DEF BotIDs
<1> QED
  BY <1>4 DEF SelfEcho, IsBot

(* What somebody else posts to a bot is no echo, as long as the activity   *)
(* names its recipient by an id of a bot.                                  *)
THEOREM OthersAreHeard ==
    ASSUME NEW a \in Account, NEW act,
           act.recipient.id \in BotIds \cup {Absent}, act.recipient.aad = Absent,
           act.from.id \notin BotIds, act.from.id # Absent, act.from.aad \notin BotIds
    PROVE  ~SelfEcho(act, a)
<1> DEFINE given == ({act.recipient.id, act.recipient.aad, a.state_bot_id,
                      a.client_id, a.bot_id, a.bot_user_id} \cup a.identities) \ {Absent}
<1>1. given \subseteq BotIds
  BY DEF Account, BotIds
<1>2. ASSUME NEW id \in given, ~HasColon(id) PROVE InChat(id[2]) \in BotIds
  <2>1. CASE \E x \in Apps : id = Bare(x)
    BY <2>1 DEF Bare, BotIds
  <2>2. CASE \E x \in Apps : id = InChat(x)
    BY <1>2, <2>2 DEF InChat, HasColon
  <2> QED
    BY <1>1, <2>1, <2>2 DEF BotIds
<1>3. BotIDs(act, a) \subseteq BotIds
  BY <1>1, <1>2 DEF BotIDs
<1>4. ~IsBot(act.from, act, a)
  BY <1>3 DEF IsBot
<1>5. ~(act.recipient.id # Absent /\ act.from.id = act.recipient.id)
  OBVIOUS
<1> QED
  BY <1>4, <1>5 DEF SelfEcho
-----------------------------------------------------------------------------
(* What SendText makes of the mentions.                                    *)

(* What SendText posts, whatever is to be said and whoever to be mentioned: *)
(* every entity has its tag in the text, no id has two, every mention with *)
(* an id and a name has one, and the text ends with what was to be said    *)
(* (buildMentionEntities).                                                 *)
THEOREM PostedMentionsMatch ==
    ASSUME NEW url, NEW req, NEW message \in SendText(url, req),
           req.text \in Seq(ToSet(req.text)), req.mentions \in Seq(ToSet(req.mentions))
    PROVE  /\ \A e \in message.entities : e.tag \in ToSet(message.text)
           /\ \A e, f \in message.entities : e.id = f.id => e = f
           /\ \A m \in ToSet(req.mentions) :
                 Complete(m) => \E e \in message.entities : e.id = m.id
           /\ IsSuffix(req.text, message.text)
<1> DEFINE s == req.mentions
           I == {i \in DOMAIN s :
                   /\ Complete(s[i])
                   /\ \A j \in 1..(i - 1) : Complete(s[j]) => s[j].id # s[i].id}
           Entity(m) == [id |-> m.id, aad |-> Absent, name |-> m.name, tag |-> Visible(m)]
           named == Mentioned(s)
           J == {k \in DOMAIN named : Visible(named[k]) \notin ToSet(req.text)}
           missing == Picked(named, J)
           tags == [k \in DOMAIN missing |-> Visible(missing[k])]
<1>1. message.text = tags \o req.text /\ message.entities = {Entity(m) : m \in ToSet(named)}
  <2>1. message.text = MentionText(req.text, s) /\ message.entities = Entities(s)
    BY DEF SendText
  <2>2. MentionText(req.text, s) = tags \o req.text
    BY DEF MentionText, Filter
  <2>3. Entities(s) = {Entity(m) : m \in ToSet(named)}
    BY DEF Entities
  <2> QED
    BY <2>1, <2>2, <2>3
<1>2. DOMAIN s = 1..Len(s) /\ Len(s) \in Nat
  OBVIOUS
<1>3. named \in Seq({s[i] : i \in I}) /\ ToSet(named) = {s[i] : i \in I}
  <2>1. I \subseteq Nat /\ IsFiniteSet(I)
    BY PositionsAreFinite
  <2>2. named = Picked(s, I)
    BY DEF Mentioned
  <2> HIDE DEF I
  <2> QED
    BY <2>1, <2>2, PickedMembers
<1>4. missing \in Seq({named[k] : k \in J}) /\ ToSet(missing) = {named[k] : k \in J}
  <2>1. J \subseteq Nat /\ IsFiniteSet(J)
    BY <1>3, PositionsAreFinite
  <2> HIDE DEF J
  <2> QED
    BY <2>1, PickedMembers
<1>5. tags \in Seq({Visible(m) : m \in ToSet(missing)})
  <2> HIDE DEF missing
  <2> QED
    BY <1>4 DEF ToSet
<1>6. ToSet(tags) = {Visible(m) : m \in ToSet(missing)}
  <2> HIDE DEF missing
  <2> QED
    BY DEF ToSet
<1>7. ToSet(message.text) = ToSet(tags) \cup ToSet(req.text)
  <2> HIDE DEF tags
  <2> QED
    BY <1>1, <1>5, JoinedMembers
<1>8. IsSuffix(req.text, message.text)
  <2> HIDE DEF tags
  <2> QED
    BY <1>1, <1>5, JoinedSuffix
<1>9. ASSUME NEW e \in message.entities
      PROVE  e.tag \in ToSet(message.text)
  <2>1. PICK k \in DOMAIN named : e = Entity(named[k])
    BY <1>1 DEF ToSet
  <2>2. e.tag = Visible(named[k])
    BY <2>1
  <2>3. CASE k \in J
    BY <1>4, <1>6, <1>7, <2>2, <2>3
  <2>4. CASE k \notin J
    BY <1>7, <2>2, <2>4
  <2> QED
    BY <2>3, <2>4
<1>10. ASSUME NEW e \in message.entities, NEW f \in message.entities, e.id = f.id
       PROVE  e = f
  <2>1. PICK i \in I : e = Entity(s[i])
    BY <1>1, <1>3
  <2>2. PICK j \in I : f = Entity(s[j])
    BY <1>1, <1>3
  <2>3. s[i].id = s[j].id /\ Complete(s[i]) /\ Complete(s[j])
    BY <1>10, <2>1, <2>2
  <2>4. ~(i < j) /\ ~(j < i)
    BY <1>2, <2>3
  <2> QED
    BY <1>2, <2>1, <2>2, <2>4
<1>11. ASSUME NEW m \in ToSet(s), Complete(m)
       PROVE  \E e \in message.entities : e.id = m.id
  <2> DEFINE K == {i \in DOMAIN s : Complete(s[i]) /\ s[i].id = m.id}
  <2>1. K \subseteq Nat /\ K # {}
    <3>1. PICK i \in DOMAIN s : s[i] = m
      BY DEF ToSet
    <3>2. i \in K
      BY <1>11, <3>1
    <3> QED
      BY <1>2, <3>2
  <2>2. PICK i \in K : \A j \in K : i <= j
    BY <2>1, LeastExists
  <2>3. i \in I
    BY <1>2, <2>2
  <2>4. Entity(s[i]) \in message.entities /\ Entity(s[i]).id = m.id
    BY <1>1, <1>3, <2>3
  <2> QED
    BY <2>4
<1> QED
  BY <1>8, <1>9, <1>10, <1>11

(* Entities of a post and mentions of a message are sequences.             *)
LEMMA EntitiesAreSequence ==
    ASSUME NEW S, NEW said \in Seq(S), NEW escaped
    PROVE  EntitiesOf(said, escaped) \in Seq(ToSet(EntitiesOf(said, escaped)))
<1> DEFINE I == {i \in DOMAIN said : said[i] \notin Words}
           whom == Picked(said, I)
           entity(x) == [id |-> x, aad |-> Absent, name |-> NameOf[x],
                         tag |-> IF escaped THEN Tag(x, TRUE) ELSE Absent]
           entities == [k \in DOMAIN whom |-> entity(whom[k])]
<1>1. EntitiesOf(said, escaped) = entities
  BY DEF EntitiesOf, Filter
<1>2. I \subseteq Nat /\ IsFiniteSet(I)
  BY PositionsAreFinite
<1>3. whom \in Seq({said[i] : i \in I})
  <2> HIDE DEF I
  <2> QED
    BY <1>2, PickedMembers
<1>4. DOMAIN whom = 1..Len(whom) /\ Len(whom) \in Nat
  BY <1>3
<1>5. entities \in [1..Len(whom) -> {entity(whom[k]) : k \in DOMAIN whom}]
  <2> HIDE DEF whom, entity
  <2> QED
    BY <1>4
<1> HIDE DEF entities, whom, entity
<1> QED
  BY <1>1, <1>4, <1>5, FunctionIsSequence

LEMMA MentionsAreSequence ==
    ASSUME NEW act, act.entities \in Seq(ToSet(act.entities))
    PROVE  Mentions(act) \in Seq(ToSet(Mentions(act)))
<1> DEFINE es == act.entities
           mention(e) == [id |-> FirstString(<<e.aad, e.id>>), all |-> FALSE, name |-> e.name]
           ids == [i \in DOMAIN es |-> mention(es[i])]
           I == {i \in DOMAIN ids : ids[i].id # Absent}
<1>1. Mentions(act) = Picked(ids, I)
  BY DEF Mentions, Filter
<1>2. I \in SUBSET DOMAIN es
  OBVIOUS
<1>3. I \subseteq Nat /\ IsFiniteSet(I)
  <2> HIDE DEF I
  <2> QED
    BY <1>2, PositionsAreFinite
<1> HIDE DEF ids, I
<1> QED
  BY <1>1, <1>3, PickedMembers, SequenceOfMembers

-----------------------------------------------------------------------------
(* The conversation.                                                       *)

(* Both ways to store an account leave it the account it was.              *)
LEMMA ValidatedIsAccount ==
    ASSUME NEW a \in Account
    PROVE  /\ ValidateCredential(a) \in Account
           /\ ValidateCredential(a).uuid = a.uuid
           /\ ValidateCredential(a).client_id = a.client_id
           /\ Own(ValidateCredential(a))
<1>1. PICK x \in Apps : a.client_id = Bare(x)
  BY DEF Account
<1>2. InChat(a.client_id[2]) \in BotIds /\ a.client_id \in BotIds
  BY <1>1 DEF Bare, BotIds
<1> QED
  BY <1>2 DEF ValidateCredential, Account, Own

LEMMA SavedIsAccount ==
    ASSUME NEW a \in Account
    PROVE  /\ StateAfterSave(a) \in Account
           /\ StateAfterSave(a).uuid = a.uuid
           /\ StateAfterSave(a).client_id = a.client_id
           /\ AccountKey(StateAfterSave(a)) = AccountKey(a)
           /\ Own(a) => Own(StateAfterSave(a))
<1>1. StateAfterSave(a) = [a EXCEPT !.identities = {}]
  BY DEF StateAfterSave
<1>2. /\ StateAfterSave(a).uuid = a.uuid
      /\ StateAfterSave(a).account_id = a.account_id
      /\ StateAfterSave(a).bot_id = a.bot_id
      /\ StateAfterSave(a).client_id = a.client_id
      /\ StateAfterSave(a).bot_user_id = a.bot_user_id
      /\ StateAfterSave(a).state_bot_id = a.state_bot_id
      /\ StateAfterSave(a).identities = {}
  BY <1>1 DEF Account
<1>3. AccountKey(StateAfterSave(a)) = AccountKey(a)
  BY <1>2 DEF AccountKey
<1>4. StateAfterSave(a) \in Account
  BY <1>1 DEF Account
<1> QED
  BY <1>2, <1>3, <1>4 DEF Own

(* An account may be replaced by any that has its names and keeps its key. *)
LEMMA StoringAnAccount ==
    ASSUME RoundTripInv, NEW i \in DOMAIN Registrations, NEW a \in Account,
           a.uuid = runtime[i].uuid, a.client_id = runtime[i].client_id, Own(a),
           AccountKey(runtime[i]) # Absent => AccountKey(a) = AccountKey(runtime[i]),
           runtime' = [runtime EXCEPT ![i] = a],
           UNCHANGED <<references, wire, handled, sent>>
    PROVE  RoundTripInv'
<1>1. AccountsInv'
  BY DEF RoundTripInv, AccountsInv
<1>2. PostsInv' /\ NoReplyLoop'
  BY DEF RoundTripInv, PostsInv, NoReplyLoop, ByUser
<1>3. HeardInv'
  <2> SUFFICES ASSUME NEW done \in Heard
               PROVE  /\ done.msg.account # Absent
                      /\ done.msg.account = AccountKey(runtime'[done.post.to])
                      /\ done.msg.raw = done.msg.thread
                      /\ done.msg.mentions = Mentions(done.post.act)
    BY DEF HeardInv, Heard
  <2>1. done.post.to \in DOMAIN Registrations
    BY DEF RoundTripInv, PostsInv, Heard
  <2>2. /\ done.msg.account # Absent
        /\ done.msg.account = AccountKey(runtime[done.post.to])
        /\ done.msg.raw = done.msg.thread
        /\ done.msg.mentions = Mentions(done.post.act)
    BY DEF RoundTripInv, HeardInv
  <2>3. runtime \in [DOMAIN Registrations -> Account]
    BY DEF RoundTripInv, AccountsInv
  <2>4. CASE done.post.to = i
    BY <2>2, <2>3, <2>4
  <2>5. CASE done.post.to # i
    BY <2>1, <2>2, <2>3, <2>5
  <2> QED
    BY <2>4, <2>5
<1> QED
  BY <1>1, <1>2, <1>3 DEF RoundTripInv

LEMMA InitRoundTrip ==
    ASSUME Init
    PROVE  RoundTripInv
<1>1. AccountsInv
  <2>1. ASSUME NEW i \in DOMAIN Registrations
        PROVE  /\ Registrations[i][1] \in UUIDs \cup {Absent}
               /\ Registrations[i][2] \in Apps
    BY RoundTripAssumption
  <2>2. runtime = [i \in DOMAIN Registrations |->
                     Registered(Registrations[i][1], Registrations[i][2])]
    BY DEF Init
  <2>3. ASSUME NEW u \in UUIDs \cup {Absent}, NEW x \in Apps
        PROVE  /\ Registered(u, x) \in Account
               /\ Registered(u, x).uuid = u
               /\ Registered(u, x).client_id = Bare(x)
               /\ Own(Registered(u, x))
    BY DEF Registered, Account, Own
  <2> QED
    BY <2>1, <2>2, <2>3 DEF AccountsInv
<1>2. wire = {} /\ handled = {}
  BY DEF Init
<1> QED
  BY <1>1, <1>2 DEF RoundTripInv, PostsInv, HeardInv, Heard, NoReplyLoop

LEMMA ValidateKeeps ==
    ASSUME RoundTripInv, NEW i \in DOMAIN runtime, Validate(i)
    PROVE  RoundTripInv'
<1>1. i \in DOMAIN Registrations /\ runtime[i] \in Account /\ Own(runtime[i])
  BY DEF RoundTripInv, AccountsInv
<1>2. AccountKey(runtime[i]) # Absent
         => AccountKey(ValidateCredential(runtime[i])) = AccountKey(runtime[i])
  BY <1>1, ValidationKeepsTheKey
<1>3. /\ runtime' = [runtime EXCEPT ![i] = ValidateCredential(runtime[i])]
      /\ UNCHANGED <<references, wire, handled, sent>>
  BY DEF Validate
<1> QED
  BY <1>1, <1>2, <1>3, ValidatedIsAccount, StoringAnAccount

LEMMA ReloadKeeps ==
    ASSUME RoundTripInv, NEW i \in DOMAIN runtime, Reload(i)
    PROVE  RoundTripInv'
<1>1. i \in DOMAIN Registrations /\ runtime[i] \in Account /\ Own(runtime[i])
  BY DEF RoundTripInv, AccountsInv
<1>2. /\ runtime' = [runtime EXCEPT ![i] = StateAfterSave(runtime[i])]
      /\ UNCHANGED <<references, wire, handled, sent>>
  BY DEF Reload
<1> QED
  BY <1>1, <1>2, SavedIsAccount, StoringAnAccount

LEMMA UserPostsKeeps ==
    ASSUME RoundTripInv, UserPosts
    PROVE  RoundTripInv'
<1>1. UNCHANGED <<runtime, references, handled, sent>>
  BY DEF UserPosts
<1>2. ASSUME NEW post \in wire'
      PROVE  /\ post.to \in DOMAIN runtime
             /\ post.author \in People
             /\ post.said \in Seq(Words \cup DOMAIN NameOf)
             /\ post.act.text = TextOf(post.said, post.escaped)
             /\ post.act.entities = EntitiesOf(post.said, post.escaped)
             /\ post.attached \in Seq(Attached)
             /\ post.act.value = Null
             /\ post.act.attachments =
                   [k \in DOMAIN post.attached |-> Attachment(post.attached[k])]
             /\ post.act.type \in {"message", "conversationUpdate"}
             /\ post.act.id = "id" /\ post.act.chat = "chat"
             /\ post.act.from.id = Person(post.author)
             /\ post.act.from.aad \in {Absent, Bare(post.author)}
             /\ post.act.recipient.id = InChatOf(post.to)
             /\ post.act.recipient.aad = Absent
  <2>1. PICK i \in DOMAIN runtime, p \in People, aad \in BOOLEAN, saying \in Sayings,
             escaped \in BOOLEAN, type \in {"message", "conversationUpdate"},
             thread \in Threads \cup {Absent} :
           post = Post(i, type, p,
                       [id |-> Person(p), aad |-> IF aad THEN Bare(p) ELSE Absent,
                        name |-> NameOf[Person(p)]],
                       InChatOf(i), saying, escaped, thread)
    BY DEF UserPosts
  <2> DEFINE from == [id |-> Person(p), aad |-> IF aad THEN Bare(p) ELSE Absent,
                      name |-> NameOf[Person(p)]]
  <2>2. from.id = Person(p) /\ from.aad \in {Absent, Bare(p)}
    OBVIOUS
  <2>3. post = Post(i, type, p, from, InChatOf(i), saying, escaped, thread)
    BY <2>1
  <2> HIDE DEF from
  <2>4. /\ post.to = i /\ post.author = p /\ post.said = saying.said
        /\ post.attached = saying.attached /\ post.escaped = escaped
    BY <2>3 DEF Post
  <2>5. /\ post.act.type = type /\ post.act.id = "id" /\ post.act.chat = "chat"
        /\ post.act.from = from
        /\ post.act.recipient = [id |-> InChatOf(i), aad |-> Absent, name |-> Absent]
    BY <2>3 DEF Post
  <2>6. /\ post.act.entities = EntitiesOf(saying.said, escaped)
        /\ post.act.text = TextOf(saying.said, escaped)
    BY <2>3 DEF Post
  <2>7. saying.said \in Seq(Words \cup DOMAIN NameOf) /\ saying.attached \in Seq(Attached)
    BY RoundTripAssumption
  <2>8. /\ post.act.value = Null
        /\ post.act.attachments =
              [k \in DOMAIN saying.attached |-> Attachment(saying.attached[k])]
    BY <2>3 DEF Post
  <2> QED
    BY <2>2, <2>4, <2>5, <2>6, <2>7, <2>8
<1>3. PostsInv'
  BY <1>1, <1>2, RoundTripAssumption DEF RoundTripInv, AccountsInv, PostsInv
<1> QED
  BY <1>1, <1>3 DEF RoundTripInv, AccountsInv, HeardInv, Heard, NoReplyLoop, ByUser

(* A post without an author is an echo when it is delivered, whatever is   *)
(* known of the account by then.                                           *)
LEMMA DeliveredEcho ==
    ASSUME RoundTripInv, NEW post \in wire, post.author = Absent
    PROVE  Kind(post.act, runtime[post.to]) = "selfEcho"
<1>1. post.to \in DOMAIN Registrations
  BY DEF RoundTripInv, PostsInv
<1> DEFINE a == runtime[post.to]
           app == Registrations[post.to][2]
<1>2. a \in Account /\ a.client_id = Bare(app)
  BY <1>1 DEF RoundTripInv, AccountsInv
<1>3. post.act.type = "message" /\ post.act.from.id \in {Bare(app), InChat(app)}
  BY DEF RoundTripInv, PostsInv
<1>4. Bare(app)[2] = app
  BY DEF Bare
<1>5. SelfEcho(post.act, a)
  BY <1>2, <1>3, <1>4, OwnPostsAreEchoes
<1> QED
  BY <1>3, <1>5 DEF Kind

LEMMA DeliverKeeps ==
    ASSUME RoundTripInv, NEW post \in wire, NEW url \in AllowedUrls, Deliver(post, url)
    PROVE  RoundTripInv'
<1> DEFINE acct == runtime[post.to]
           kind == Kind(post.act, acct)
           new == [post |-> post, kind |-> kind,
                   msg |-> IF kind = "text" THEN InboundMessage(post.act, acct) ELSE Absent]
<1>1. /\ AccountKey(acct) # Absent
      /\ wire' = wire \ {post}
      /\ handled' = handled \cup {new}
      /\ UNCHANGED <<runtime, sent>>
  BY DEF Deliver
<1>2. new.post = post /\ new.kind = kind
  OBVIOUS
<1>3. PostsInv'
  <2>1. ASSUME NEW p \in wire' \cup {done.post : done \in handled'}
        PROVE  p \in wire \cup {done.post : done \in handled}
    BY <1>1, <1>2
  <2> QED
    BY <2>1 DEF RoundTripInv, PostsInv
<1>4. NoReplyLoop'
  <2>1. post.author = Absent => kind = "selfEcho"
    BY DeliveredEcho
  <2> QED
    BY <1>1, <1>2, <2>1 DEF RoundTripInv, NoReplyLoop, ByUser
<1>5. HeardInv'
  <2>1. kind = "text" => /\ new.msg.account = AccountKey(acct)
                         /\ new.msg.raw = new.msg.thread
                         /\ new.msg.mentions = Mentions(post.act)
    BY DEF InboundMessage
  <2>2. ASSUME NEW done \in handled', done.kind = "text"
        PROVE  /\ done.msg.account # Absent
               /\ done.msg.account = AccountKey(runtime[done.post.to])
               /\ done.msg.raw = done.msg.thread
               /\ done.msg.mentions = Mentions(done.post.act)
    <3>1. CASE done \in handled
      BY <2>2, <3>1 DEF RoundTripInv, HeardInv, Heard
    <3>2. CASE done = new
      BY <1>1, <1>2, <2>1, <2>2, <3>2
    <3> QED
      BY <1>1, <3>1, <3>2
  <2> QED
    BY <1>1, <2>2 DEF HeardInv, Heard
<1>6. AccountsInv'
  BY <1>1 DEF RoundTripInv, AccountsInv
<1> QED
  BY <1>3, <1>4, <1>5, <1>6 DEF RoundTripInv

LEMMA AnswerKeeps ==
    ASSUME RoundTripInv, NEW done, NEW req \in Requests(done.msg), Answer(done, req)
    PROVE  RoundTripInv'
<1> DEFINE words == Filter(req.text, LAMBDA x : x \in Words)
           said == Said(words, <<>>)
<1>1. UNCHANGED <<runtime, references, handled>>
  BY DEF Answer
<1>2. PICK i \in Selected(runtime, req.account) :
         \E id \in {Bare(Registrations[i][2]), InChat(Registrations[i][2])} : \E recipient :
            wire' = wire \cup
               {Post(i, "message", Absent, [id |-> id, aad |-> Absent, name |-> Absent],
                     recipient, said, FALSE, Absent)}
  BY DEF Answer
<1>3. i \in DOMAIN Registrations
  BY DEF Selected, Candidates, RoundTripInv, AccountsInv
<1>4. words \in Seq(Words \cup DOMAIN NameOf)
  <2> DEFINE I == {k \in DOMAIN req.text : req.text[k] \in Words}
  <2>1. req.text \in Seq(Words \cup {At(name) : name \in Names})
    BY RoundTripAssumption DEF Requests
  <2>2. words = Picked(req.text, I)
    BY DEF Filter
  <2>3. I \subseteq Nat /\ IsFiniteSet(I)
    BY <2>1, PositionsAreFinite
  <2>4. \A k \in I : req.text[k] \in Words
    OBVIOUS
  <2> HIDE DEF I, words
  <2>5. words \in Seq({req.text[k] : k \in I})
    BY <2>2, <2>3, PickedMembers
  <2> QED
    BY <2>4, <2>5
<1>5. ASSUME NEW post \in wire' \ wire
      PROVE  /\ post.to = i
             /\ post.act.type = "message"
             /\ post.act.from.id \in {Bare(Registrations[i][2]), InChat(Registrations[i][2])}
             /\ post.author = Absent
             /\ post.said = words
             /\ post.act.text = TextOf(post.said, post.escaped)
             /\ post.act.entities = EntitiesOf(post.said, post.escaped)
             /\ post.attached = <<>>
             /\ post.act.value = Null
             /\ post.act.attachments =
                   [k \in DOMAIN post.attached |-> Attachment(post.attached[k])]
  <2> HIDE DEF said
  <2>1. PICK id \in {Bare(Registrations[i][2]), InChat(Registrations[i][2])} :
           \E recipient : wire' = wire \cup
              {Post(i, "message", Absent, [id |-> id, aad |-> Absent, name |-> Absent],
                    recipient, said, FALSE, Absent)}
    BY <1>2
  <2>2. PICK recipient : wire' = wire \cup
           {Post(i, "message", Absent, [id |-> id, aad |-> Absent, name |-> Absent],
                 recipient, said, FALSE, Absent)}
    BY <2>1
  <2> DEFINE from == [id |-> id, aad |-> Absent, name |-> Absent]
  <2>3. post = Post(i, "message", Absent, from, recipient, said, FALSE, Absent)
    BY <2>2
  <2>4. from.id = id
    OBVIOUS
  <2> HIDE DEF from
  <2>5. post.to = i /\ post.author = Absent /\ post.said = said.said /\ post.escaped = FALSE
    BY <2>3 DEF Post
  <2>6. post.act.type = "message" /\ post.act.from = from
    BY <2>3 DEF Post
  <2>7. /\ post.act.entities = EntitiesOf(said.said, FALSE)
        /\ post.act.text = TextOf(said.said, FALSE)
    BY <2>3 DEF Post
  <2>8. said.said = words /\ said.attached = <<>>
    BY DEF said, Said
  <2>9. /\ post.attached = said.attached
        /\ post.act.value = Null
        /\ post.act.attachments =
              [k \in DOMAIN said.attached |-> Attachment(said.attached[k])]
    BY <2>3 DEF Post
  <2> QED
    BY <2>4, <2>5, <2>6, <2>7, <2>8, <2>9
<1>6. PostsInv'
  <2>1. <<>> \in Seq(Attached)
    OBVIOUS
  <2> QED
    BY <1>1, <1>3, <1>4, <1>5, <2>1 DEF RoundTripInv, PostsInv
<1> QED
  BY <1>1, <1>6 DEF RoundTripInv, AccountsInv, HeardInv, Heard, NoReplyLoop, ByUser

(* Accounts stay who they are, and every post of a bot is recognised.      *)
THEOREM RoundTripInvariant == Spec => []RoundTripInv
<1>1. Init => RoundTripInv
  BY InitRoundTrip
<1>2. RoundTripInv /\ [Next]_vars => RoundTripInv'
  <2> SUFFICES ASSUME RoundTripInv, [Next]_vars
               PROVE  RoundTripInv'
    OBVIOUS
  <2>1. ASSUME NEW i \in DOMAIN runtime, Validate(i) \/ Reload(i)
        PROVE  RoundTripInv'
    BY <2>1, ValidateKeeps, ReloadKeeps
  <2>2. CASE UserPosts
    BY <2>2, UserPostsKeeps
  <2>3. ASSUME NEW post \in wire, NEW url \in AllowedUrls, Deliver(post, url)
        PROVE  RoundTripInv'
    BY <2>3, DeliverKeeps
  <2>4. ASSUME NEW done \in Heard, NEW req \in Requests(done.msg), Answer(done, req)
        PROVE  RoundTripInv'
    BY <2>4, AnswerKeeps
  <2>5. CASE UNCHANGED vars
    BY <2>5 DEF vars, RoundTripInv, AccountsInv, PostsInv, HeardInv, Heard, NoReplyLoop, ByUser
  <2> QED
    BY <2>1, <2>2, <2>3, <2>4, <2>5 DEF Next
<1> QED
  BY <1>1, <1>2, PTL DEF Spec

(* The bot never answers itself: whatever SendText posts, and in whichever *)
(* form Teams gives the bot's id when the post comes back, the self-echo   *)
(* filter of processMessageEvent stops it.                                 *)
THEOREM NoBotAnswersItself == Spec => []NoReplyLoop
<1>1. RoundTripInv => NoReplyLoop
  BY DEF RoundTripInv
<1> QED
  BY <1>1, RoundTripInvariant, PTL

(* The first of two strings that is not empty.                             *)
LEMMA FirstOfTwo ==
    ASSUME NEW x, NEW y
    PROVE  FirstString(<<x, y>>) = IF x # Absent THEN x ELSE y
<1> DEFINE s == <<x, y>>
           filled == {i \in DOMAIN s : s[i] # Absent}
           least == CHOOSE i \in filled : \A j \in filled : i <= j
<1>1. DOMAIN s = 1..2 /\ s[1] = x /\ s[2] = y
  OBVIOUS
<1>2. CASE x # Absent
  <2>1. 1 \in filled /\ \A i \in filled : (\A j \in filled : i <= j) <=> i = 1
    BY <1>1, <1>2
  <2>2. least = 1
    BY <2>1
  <2> QED
    BY <1>1, <1>2, <2>1, <2>2 DEF FirstString
<1>3. CASE x = Absent /\ y # Absent
  <2>1. filled = {2}
    BY <1>1, <1>3
  <2>2. least = 2
    BY <2>1
  <2> QED
    BY <1>1, <1>3, <2>1, <2>2 DEF FirstString
<1>4. CASE x = Absent /\ y = Absent
  <2>1. filled = {}
    BY <1>1, <1>4
  <2> QED
    BY <1>4, <2>1 DEF FirstString
<1> QED
  BY <1>2, <1>3, <1>4

(* With distinct accounts none goes by the key of another.                 *)
LEMMA KeysAreDistinct ==
    ASSUME RoundTripInv, DistinctAccounts,
           NEW i \in DOMAIN Registrations, NEW j \in DOMAIN Registrations,
           AccountKey(runtime[i]) # Absent,
           AccountMatches(runtime[j], AccountKey(runtime[i]))
    PROVE  i = j
<1> DEFINE a == runtime[i]
           b == runtime[j]
<1> SUFFICES ASSUME i # j PROVE FALSE
  OBVIOUS
<1>1. /\ a \in Account /\ a.uuid = Registrations[i][1]
      /\ a.client_id = Bare(Registrations[i][2]) /\ Own(a)
      /\ b \in Account /\ b.uuid = Registrations[j][1]
      /\ b.client_id = Bare(Registrations[j][2]) /\ Own(b)
  BY DEF RoundTripInv, AccountsInv
<1>2. /\ {a.client_id, b.client_id} \subseteq BotIds
      /\ {a.uuid, b.uuid} \subseteq UUIDs \cup {Absent}
  BY <1>1 DEF Account, BotIds
<1>3. AccountKey(a) \in {b.uuid, b.client_id}
  BY <1>1 DEF AccountMatches, Own
<1>4. CASE a.uuid # Absent
  <2>1. AccountKey(a) = a.uuid
    BY <1>4, KeyIsUuid
  <2>2. AccountKey(a) # b.client_id
    BY <1>2, <1>4, <2>1, AccountsAssumption
  <2> QED
    BY <1>1, <1>3, <1>4, <2>1, <2>2 DEF DistinctAccounts
<1>5. CASE a.uuid = Absent
  <2>1. a.account_id = a.client_id
    BY <1>1, <1>5, NoKey DEF Own
  <2>2. AccountKey(a) = a.client_id
    BY <1>2, <1>5, <2>1, KeyIsAccountId, AccountsAssumption
  <2>3. AccountKey(a) # b.uuid
    BY <1>2, <2>2, AccountsAssumption
  <2>4. Registrations[i][2] = Registrations[j][2]
    BY <1>1, <1>3, <2>2, <2>3 DEF Bare
  <2> QED
    BY <1>1, <1>5, <2>4 DEF DistinctAccounts
<1> QED
  BY <1>4, <1>5

(* Then every account with a key is a candidate: no other hides it.        *)
LEMMA KeyedIsCandidate ==
    ASSUME RoundTripInv, DistinctAccounts,
           NEW j \in DOMAIN Registrations, AccountKey(runtime[j]) # Absent
    PROVE  j \in Candidates(runtime)
<1>1. DOMAIN runtime = DOMAIN Registrations
  BY DEF RoundTripInv, AccountsInv
<1>2. ASSUME NEW k \in DOMAIN runtime, AccountKey(runtime[k]) = AccountKey(runtime[j])
      PROVE  k = j
  BY <1>1, <1>2, KeyMatches, KeysAreDistinct
<1>3. \A k \in DOMAIN runtime : k < j => AccountKey(runtime[k]) # AccountKey(runtime[j])
  <2>1. j \in Nat
    BY RoundTripAssumption
  <2> QED
    BY <1>2, <2>1
<1> QED
  BY <1>1, <1>3 DEF Candidates

(* A request for the account of a key, or for the only account of the      *)
(* host, is sent by no other account.                                      *)
LEMMA SelectedIsMeant ==
    ASSUME RoundTripInv, DistinctAccounts,
           NEW j \in DOMAIN Registrations, AccountKey(runtime[j]) # Absent,
           NEW id \in {AccountKey(runtime[j]), Absent},
           NEW i \in Selected(runtime, id)
    PROVE  i = j
<1>1. DOMAIN runtime = DOMAIN Registrations
  BY DEF RoundTripInv, AccountsInv
<1>2. i \in Candidates(runtime)
  BY DEF Selected
<1>3. CASE id # Absent
  <2>1. AccountMatches(runtime[i], AccountKey(runtime[j]))
    BY <1>3 DEF Selected
  <2> QED
    BY <1>1, <1>2, <2>1, KeysAreDistinct DEF Candidates
<1>4. CASE id = Absent
  <2>1. Candidates(runtime) = {i}
    BY <1>4 DEF Selected
  <2>2. j \in Candidates(runtime)
    BY KeyedIsCandidate
  <2> QED
    BY <2>1, <2>2
<1> QED
  BY <1>3, <1>4

(* When no account goes by the key of another, the bot that was spoken to  *)
(* answers, in the thread it was spoken to in, even when the account got   *)
(* its identifiers after the message came (Send with selectRuntimeAccount, *)
(* and the reply target of SendText).                                      *)
THEOREM ReceiverAnswers ==
    ASSUME DistinctAccounts
    PROVE  Spec => []AnswersFromReceiver
<1>1. Init => AnswersFromReceiver
  BY DEF Init, AnswersFromReceiver
<1>2. RoundTripInv /\ AnswersFromReceiver /\ [Next]_vars => AnswersFromReceiver'
  <2> SUFFICES ASSUME RoundTripInv, AnswersFromReceiver, [Next]_vars
               PROVE  AnswersFromReceiver'
    OBVIOUS
  <2>1. CASE UNCHANGED sent
    BY <2>1 DEF AnswersFromReceiver
  <2>2. ASSUME NEW done \in Heard, NEW req \in Requests(done.msg), Answer(done, req)
        PROVE  AnswersFromReceiver'
    <3>1. PICK i \in Selected(runtime, req.account) :
             \E url : \E message \in SendText(url, req) :
                sent' = sent \cup {[by |-> i, for |-> done, req |-> req, message |-> message]}
      BY <2>2 DEF Answer
    <3>2. /\ done.msg.account = AccountKey(runtime[done.post.to])
          /\ done.msg.account # Absent
          /\ done.msg.raw = done.msg.thread
      BY DEF RoundTripInv, HeardInv
    <3>3. done.post.to \in DOMAIN Registrations
      BY DEF RoundTripInv, PostsInv, Heard
    <3>4. /\ req.account \in {done.msg.account, Absent}
          /\ req.thread \in {done.msg.thread, Absent}
          /\ req.raw = done.msg.raw
      BY DEF Requests
    <3>5. i = done.post.to
      BY <3>2, <3>3, <3>4, SelectedIsMeant
    <3>6. ASSUME NEW url, NEW message \in SendText(url, req)
          PROVE  message.replyTo = done.msg.thread
      <4>1. message.replyTo = FirstString(<<req.thread, req.raw>>)
        BY <3>6 DEF SendText
      <4> QED
        BY <3>2, <3>4, <4>1, FirstOfTwo
    <3>7. PICK message :
             /\ message.replyTo = done.msg.thread
             /\ sent' = sent \cup {[by |-> i, for |-> done, req |-> req, message |-> message]}
      BY <3>1, <3>6
    <3> QED
      BY <3>5, <3>7 DEF AnswersFromReceiver
  <2>3. CASE \E i \in DOMAIN runtime : Validate(i) \/ Reload(i)
    BY <2>1, <2>3 DEF Validate, Reload
  <2>4. CASE UserPosts
    BY <2>1, <2>4 DEF UserPosts
  <2>5. CASE \E post \in wire, url \in AllowedUrls : Deliver(post, url)
    BY <2>1, <2>5 DEF Deliver
  <2>6. CASE UNCHANGED vars
    BY <2>1, <2>6 DEF vars
  <2> QED
    BY <2>2, <2>3, <2>4, <2>5, <2>6 DEF Next
<1> QED
  BY <1>1, <1>2, RoundTripInvariant, PTL DEF Spec

(* And it is not refused: for an answer that names the account of the      *)
(* message Send finds that account, though validations and saves came in   *)
(* between, as long as no account goes by the key of another.              *)
THEOREM AnswersFindTheirAccount ==
    ASSUME DistinctAccounts
    PROVE  Spec => [](\A done \in Heard :
                         Selected(runtime, done.msg.account) = {done.post.to})
<1> DEFINE Found == \A done \in Heard : Selected(runtime, done.msg.account) = {done.post.to}
<1>1. RoundTripInv => Found
  <2> SUFFICES ASSUME RoundTripInv, NEW done \in Heard
               PROVE  Selected(runtime, done.msg.account) = {done.post.to}
    OBVIOUS
  <2> DEFINE j == done.post.to
  <2>1. j \in DOMAIN Registrations
    BY DEF RoundTripInv, PostsInv, Heard
  <2>2. done.msg.account = AccountKey(runtime[j]) /\ AccountKey(runtime[j]) # Absent
    BY DEF RoundTripInv, HeardInv
  <2>3. j \in Candidates(runtime) /\ AccountMatches(runtime[j], AccountKey(runtime[j]))
    BY <2>1, <2>2, KeyedIsCandidate, KeyMatches
  <2>4. ASSUME NEW k \in Candidates(runtime),
               AccountMatches(runtime[k], AccountKey(runtime[j]))
        PROVE  k = j
    <3>1. k \in DOMAIN Registrations
      BY DEF Candidates, RoundTripInv, AccountsInv
    <3> QED
      BY <2>1, <2>2, <2>4, <3>1, KeysAreDistinct
  <2>5. j \in Nat
    BY <2>1, RoundTripAssumption
  <2> QED
    BY <2>2, <2>3, <2>4, <2>5 DEF Selected
<1> HIDE DEF Found
<1>2. Spec => []Found
  BY <1>1, RoundTripInvariant, PTL
<1> QED
  BY <1>2 DEF Found

(* What is asked for is a sequence of words and one of mentions.           *)
LEMMA RequestsAreSequences ==
    ASSUME RoundTripInv, NEW done \in Heard, NEW req \in Requests(done.msg)
    PROVE  /\ req.text \in Seq(ToSet(req.text))
           /\ req.mentions \in Seq(ToSet(req.mentions))
<1> DEFINE sender == [id |-> done.msg.sender, all |-> FALSE, name |-> done.msg.senderName]
           toAll  == [id |-> Everyone, all |-> TRUE, name |-> Everyone]
           unnamed == [toAll EXCEPT !.name = Absent]
           given  == done.msg.mentions
<1>1. req.text \in Seq(Words \cup {At(name) : name \in Names})
  BY RoundTripAssumption DEF Requests
<1>2. req.mentions \in {<<>>, <<sender, toAll>>, <<sender>> \o given, <<sender, unnamed>>}
  BY DEF Requests
<1>3. given \in Seq(ToSet(given))
  <2>1. given = Mentions(done.post.act)
    BY DEF RoundTripInv, HeardInv
  <2>2. done.post.act.entities \in Seq(ToSet(done.post.act.entities))
    <3>1. /\ done.post.said \in Seq(Words \cup DOMAIN NameOf)
          /\ done.post.act.entities = EntitiesOf(done.post.said, done.post.escaped)
      BY DEF RoundTripInv, PostsInv, Heard
    <3> QED
      BY <3>1, EntitiesAreSequence
  <2> QED
    BY <2>1, <2>2, MentionsAreSequence
<1> HIDE DEF sender, toAll, unnamed, given
<1> DEFINE All == {sender, toAll, unnamed} \cup ToSet(given)
<1>4. req.mentions \in Seq(All)
  <2>1. given \in Seq(All) /\ sender \in All /\ toAll \in All /\ unnamed \in All
    BY <1>3
  <2> HIDE DEF All
  <2>2. <<sender>> \in Seq(All)
    BY <2>1
  <2>3. /\ <<>> \in Seq(All) /\ <<sender, toAll>> \in Seq(All)
        /\ <<sender>> \o given \in Seq(All) /\ <<sender, unnamed>> \in Seq(All)
    BY <2>1, <2>2
  <2> QED
    BY <1>2, <2>3
<1> QED
  BY <1>1, <1>4, SequenceOfMembers

(* In every message SendText posts, mentions and text agree: Teams finds   *)
(* the tag of each entity in the text, and no mention that has an id and a *)
(* name is lost, however many are asked for and whatever the text has of   *)
(* their tags already.                                                     *)
THEOREM PostedTagsMatch == Spec => []TagsMatch
<1>1. Init => TagsMatch
  BY DEF Init, TagsMatch
<1>2. RoundTripInv /\ TagsMatch /\ [Next]_vars => TagsMatch'
  <2> SUFFICES ASSUME RoundTripInv, TagsMatch, [Next]_vars
               PROVE  TagsMatch'
    OBVIOUS
  <2>1. CASE UNCHANGED sent
    BY <2>1 DEF TagsMatch
  <2>2. ASSUME NEW done \in Heard, NEW req \in Requests(done.msg), Answer(done, req)
        PROVE  TagsMatch'
    <3>1. PICK i, url, message :
             /\ message \in SendText(url, req)
             /\ sent' = sent \cup {[by |-> i, for |-> done, req |-> req, message |-> message]}
      BY <2>2 DEF Answer
    <3> DEFINE Matches(s) ==
                  /\ \A e \in s.message.entities : e.tag \in ToSet(s.message.text)
                  /\ \A e, f \in s.message.entities : e.id = f.id => e = f
                  /\ \A m \in ToSet(s.req.mentions) :
                        Complete(m) => \E e \in s.message.entities : e.id = m.id
                  /\ IsSuffix(s.req.text, s.message.text)
    <3> DEFINE new == [by |-> i, for |-> done, req |-> req, message |-> message]
    <3>2. Matches(new)
      <4>1. new.req = req /\ new.message = message
        OBVIOUS
      <4>2. req.text \in Seq(ToSet(req.text)) /\ req.mentions \in Seq(ToSet(req.mentions))
        BY RequestsAreSequences
      <4> HIDE DEF new
      <4> QED
        BY <3>1, <4>1, <4>2, PostedMentionsMatch
    <3>3. \A s \in sent : Matches(s)
      BY DEF TagsMatch
    <3>4. \A s \in sent' : Matches(s)
      <4>1. sent' = sent \cup {new}
        BY <3>1
      <4> HIDE DEF Matches, new
      <4> QED
        BY <3>2, <3>3, <4>1
    <3> QED
      BY <3>4 DEF TagsMatch
  <2>3. CASE \E i \in DOMAIN runtime : Validate(i) \/ Reload(i)
    BY <2>1, <2>3 DEF Validate, Reload
  <2>4. CASE UserPosts
    BY <2>1, <2>4 DEF UserPosts
  <2>5. CASE \E post \in wire, url \in AllowedUrls : Deliver(post, url)
    BY <2>1, <2>5 DEF Deliver
  <2>6. CASE UNCHANGED vars
    BY <2>1, <2>6 DEF vars
  <2> QED
    BY <2>2, <2>3, <2>4, <2>5, <2>6 DEF Next
<1> QED
  BY <1>1, <1>2, RoundTripInvariant, PTL DEF Spec

-----------------------------------------------------------------------------
(* What arrives of what a person says.                                     *)

(* Each mention in what is said becomes an entity, and nothing else does.  *)
LEMMA EntitiesOfMentions ==
    ASSUME NEW S, NEW said \in Seq(S), NEW escaped
    PROVE  ToSet(EntitiesOf(said, escaped)) =
             {[id |-> x, aad |-> Absent, name |-> NameOf[x],
               tag |-> IF escaped THEN Tag(x, TRUE) ELSE Absent] : x \in ToSet(said) \ Words}
<1> DEFINE I == {i \in DOMAIN said : said[i] \notin Words}
           whom == Picked(said, I)
           entity(x) == [id |-> x, aad |-> Absent, name |-> NameOf[x],
                         tag |-> IF escaped THEN Tag(x, TRUE) ELSE Absent]
<1>1. EntitiesOf(said, escaped) = [k \in DOMAIN whom |-> entity(whom[k])]
  BY DEF EntitiesOf, Filter
<1>2. ToSet(whom) = {said[i] : i \in I}
  <2>1. I \subseteq Nat /\ IsFiniteSet(I)
    BY PositionsAreFinite
  <2> HIDE DEF I
  <2> QED
    BY <2>1, PickedMembers
<1>3. {said[i] : i \in I} = ToSet(said) \ Words
  BY DEF ToSet
<1> HIDE DEF whom, I, entity
<1>4. ToSet(EntitiesOf(said, escaped)) = {entity(x) : x \in ToSet(whom)}
  BY <1>1 DEF ToSet
<1>5. ToSet(EntitiesOf(said, escaped)) = {entity(x) : x \in ToSet(said) \ Words}
  BY <1>2, <1>3, <1>4
<1> QED
  BY <1>5 DEF entity

(* To leave words out of what is said and to leave them out of the text is *)
(* the same.                                                               *)
LEMMA PickedText ==
    ASSUME NEW S, NEW said \in Seq(S), NEW escaped, NEW I \in SUBSET DOMAIN said
    PROVE  Picked(TextOf(said, escaped), I) = TextOf(Picked(said, I), escaped)
<1> DEFINE n == Cardinality(I)
           Rank(i) == Cardinality({j \in I : j <= i})
           nth(k) == CHOOSE i \in I : Rank(i) = k
           written(x) == IF x \in Words THEN x ELSE Tag(x, escaped)
<1>1. I \subseteq Nat /\ IsFiniteSet(I)
  BY PositionsAreFinite
<1>2. \A k \in 1..n : \E i \in I : Rank(i) = k
  BY <1>1, RankIsBijective
<1>3. /\ Picked(said, I) = [k \in 1..n |-> said[nth(k)]]
      /\ Picked(TextOf(said, escaped), I) = [k \in 1..n |-> TextOf(said, escaped)[nth(k)]]
  BY DEF Picked
<1> HIDE DEF Rank
<1>4. \A k \in 1..n : nth(k) \in I
  BY <1>2
<1> HIDE DEF nth, n
<1>5. \A i \in DOMAIN said : TextOf(said, escaped)[i] = written(said[i])
  BY DEF TextOf
<1>6. TextOf(Picked(said, I), escaped) = [k \in 1..n |-> written(said[nth(k)])]
  BY <1>3 DEF TextOf
<1>7. \A k \in 1..n : TextOf(said, escaped)[nth(k)] = written(said[nth(k)])
  BY <1>4, <1>5
<1> HIDE DEF written
<1> QED
  BY <1>3, <1>6, <1>7

(* The ids by which the bot is known when a person's post is delivered.    *)
LEMMA BotIDsAreOwn ==
    ASSUME RoundTripInv, NEW post \in wire, post.author # Absent
    PROVE  BotIDs(post.act, runtime[post.to])
             = {Bare(Registrations[post.to][2]), InChat(Registrations[post.to][2])}
<1> DEFINE a == runtime[post.to]
           app == Registrations[post.to][2]
           given == ({post.act.recipient.id, post.act.recipient.aad, a.state_bot_id,
                      a.client_id, a.bot_id, a.bot_user_id} \cup a.identities) \ {Absent}
<1>1. post.to \in DOMAIN Registrations
  BY DEF RoundTripInv, PostsInv
<1>2. a \in Account /\ a.client_id = Bare(app) /\ Own(a)
  BY <1>1 DEF RoundTripInv, AccountsInv
<1>3. post.act.recipient.id = InChat(app) /\ post.act.recipient.aad = Absent
  BY DEF RoundTripInv, PostsInv, InChatOf
<1>4. Bare(app)[2] = app /\ ~HasColon(Bare(app)) /\ HasColon(InChat(app))
  BY DEF Bare, InChat, HasColon
<1>5. Bare(app) # Absent /\ InChat(app) # Absent
  <2>1. app \in Apps
    BY <1>1, RoundTripAssumption
  <2> QED
    BY <2>1, AccountsAssumption DEF BotIds
<1>6. given = {Bare(app), InChat(app)}
  <2>1. /\ a.bot_id \in {Absent, Bare(app)}
        /\ {a.bot_user_id, a.state_bot_id} \cup a.identities
               \subseteq {Absent, Bare(app), InChat(app)}
    BY <1>2, <1>4 DEF Own
  <2> QED
    BY <1>2, <1>3, <1>5, <2>1
<1>7. BotIDs(post.act, a) = given \cup {InChat(id[2]) : id \in {g \in given : ~HasColon(g)}}
  BY DEF BotIDs
<1>8. {g \in given : ~HasColon(g)} = {Bare(app)}
  BY <1>4, <1>6
<1> QED
  BY <1>4, <1>6, <1>7, <1>8

(* The mentions of the bot are the entities that say its id.               *)
LEMMA MentionsOfMeAreOwn ==
    ASSUME RoundTripInv, NEW post \in wire, post.author # Absent
    PROVE  MentionsOfMe(post.act, runtime[post.to])
             = {e \in ToSet(post.act.entities) : e.id = InChatOf(post.to)}
<1> DEFINE a == runtime[post.to]
           app == Registrations[post.to][2]
<1>1. BotIDs(post.act, a) = {Bare(app), InChat(app)}
  BY BotIDsAreOwn
<1>2. ASSUME NEW e \in ToSet(post.act.entities)
      PROVE  IsBot(e, post.act, a) <=> e.id = InChat(app)
  <2>1. /\ post.to \in DOMAIN Registrations
        /\ post.said \in Seq(Words \cup DOMAIN NameOf)
        /\ post.act.entities = EntitiesOf(post.said, post.escaped)
    BY DEF RoundTripInv, PostsInv
  <2>2. PICK x \in ToSet(post.said) \ Words :
           e = [id |-> x, aad |-> Absent, name |-> NameOf[x],
                tag |-> IF post.escaped THEN Tag(x, TRUE) ELSE Absent]
    <3> DEFINE entity(x) == [id |-> x, aad |-> Absent, name |-> NameOf[x],
                             tag |-> IF post.escaped THEN Tag(x, TRUE) ELSE Absent]
    <3>1. ToSet(post.act.entities) = {entity(x) : x \in ToSet(post.said) \ Words}
      BY <2>1, EntitiesOfMentions
    <3> HIDE DEF entity
    <3>2. PICK x \in ToSet(post.said) \ Words : e = entity(x)
      BY <3>1
    <3> QED
      BY <3>2 DEF entity
  <2>3. e.id = x /\ e.aad = Absent
    BY <2>2
  <2>4. x \in DOMAIN NameOf
    BY <2>1, <2>2 DEF ToSet
  <2>5. app \in Apps
    BY <2>1, RoundTripAssumption
  <2>6. x # Bare(app) /\ Absent \notin {Bare(app), InChat(app)}
    BY <2>4, <2>5, RoundTripAssumption, AccountsAssumption DEF BotIds
  <2> QED
    BY <1>1, <2>3, <2>6 DEF IsBot
<1> QED
  BY <1>2 DEF MentionsOfMe, InChatOf

(* The tags that are deleted are those of the bot's name, as it is or      *)
(* escaped like the rest of the text, and only if the bot is mentioned.    *)
LEMMA DeletedTags ==
    ASSUME RoundTripInv, PlainNames, NEW post \in wire, post.author # Absent,
           NEW k \in DOMAIN post.said
    PROVE  LET mine == MentionsOfMe(post.act, runtime[post.to])
               x    == post.said[k]
               me   == InChatOf(post.to)
           IN  TextOf(post.said, post.escaped)[k]
                 \notin {e.tag : e \in mine} \cup {At(e.name) : e \in mine}
               <=> \/ me \notin ToSet(post.said)
                   \/ x \in Words
                   \/ NameOf[x] # NameOf[me]
<1> DEFINE said == post.said
           x == said[k]
           me == InChatOf(post.to)
           mine == MentionsOfMe(post.act, runtime[post.to])
           tags == {e.tag : e \in mine} \cup {At(e.name) : e \in mine}
           entity(y) == [id |-> y, aad |-> Absent, name |-> NameOf[y],
                         tag |-> IF post.escaped THEN Tag(y, TRUE) ELSE Absent]
<1>1. /\ post.to \in DOMAIN Registrations
      /\ said \in Seq(Words \cup DOMAIN NameOf)
      /\ post.act.entities = EntitiesOf(said, post.escaped)
  BY DEF RoundTripInv, PostsInv
<1>2. me \in BotIds /\ me \notin Words
  <2>1. Registrations[post.to][2] \in Apps
    BY <1>1, RoundTripAssumption
  <2>2. me \in BotIds
    BY <2>1 DEF InChatOf, BotIds
  <2> QED
    BY <2>2, RoundTripAssumption
<1>3. mine = {e \in {entity(y) : y \in ToSet(said) \ Words} : e.id = me}
  <2>1. ToSet(post.act.entities) = {entity(y) : y \in ToSet(said) \ Words}
    BY <1>1, EntitiesOfMentions
  <2>2. mine = {e \in ToSet(post.act.entities) : e.id = me}
    BY MentionsOfMeAreOwn
  <2> HIDE DEF entity, mine
  <2> QED
    BY <2>1, <2>2
<1>4. \A y : entity(y).id = y
  OBVIOUS
<1>5. x \in Words \cup DOMAIN NameOf /\ x \in ToSet(said)
  BY <1>1 DEF ToSet
<1>6. TextOf(said, post.escaped)[k] = IF x \in Words THEN x ELSE Tag(x, post.escaped)
  BY DEF TextOf
<1>7. CASE me \notin ToSet(said)
  <2>1. mine = {}
    <3> HIDE DEF entity, mine
    <3> QED
      BY <1>3, <1>4, <1>7
  <2>2. tags = {}
    BY <2>1
  <2> HIDE DEF tags, me, x
  <2> QED
    BY <1>7, <2>2 DEF tags, me, x
<1>8. CASE me \in ToSet(said)
  <2>1. mine = {entity(me)}
    <3> HIDE DEF entity, mine
    <3> QED
      BY <1>2, <1>3, <1>4, <1>8
  <2>2. /\ entity(me).tag = IF post.escaped THEN Tag(me, TRUE) ELSE Absent
        /\ entity(me).name = NameOf[me]
    OBVIOUS
  <2>3. tags = {IF post.escaped THEN At(Escaped[NameOf[me]]) ELSE Absent, At(NameOf[me])}
    <3> HIDE DEF entity, mine
    <3> QED
      BY <2>1, <2>2 DEF Tag
  <2>4. me \in DOMAIN NameOf
    BY <1>1, <1>2, <1>8 DEF ToSet
  <2>5. /\ NameOf[me] \in Names /\ Escaped[NameOf[me]] \in Names
    BY <2>4, RoundTripAssumption, ActivityAssumption
  <2> HIDE DEF tags, mine, entity, me, x
  <2>6. CASE x \in Words
    <3>1. x # Absent /\ x # At(NameOf[me]) /\ x # At(Escaped[NameOf[me]])
      BY <2>5, <2>6, RoundTripAssumption
    <3> QED
      BY <1>6, <2>3, <2>6, <3>1 DEF tags, x, me, mine
  <2>7. CASE x \notin Words
    <3>1. x \in DOMAIN NameOf
      BY <1>5, <2>7
    <3>2. NameOf[x] \in Names /\ Escaped[NameOf[x]] \in Names
      BY <3>1, RoundTripAssumption, ActivityAssumption
    <3>3. \A name, other : At(name) = At(other) <=> name = other
      BY DEF At
    <3>4. TextOf(said, post.escaped)[k] \in tags <=> NameOf[x] = NameOf[me]
      <4>1. CASE post.escaped
        <5>1. TextOf(said, post.escaped)[k] = At(Escaped[NameOf[x]])
          BY <1>6, <2>7, <4>1 DEF Tag
        <5>2. tags = {At(Escaped[NameOf[me]]), At(NameOf[me])}
          BY <2>3, <4>1
        <5>3. Escaped[NameOf[x]] \in {Escaped[NameOf[me]], NameOf[me]} <=> NameOf[x] = NameOf[me]
          BY <2>4, <3>1 DEF PlainNames
        <5> QED
          BY <3>3, <5>1, <5>2, <5>3
      <4>2. CASE ~post.escaped
        <5>1. TextOf(said, post.escaped)[k] = At(NameOf[x])
          BY <1>6, <2>7, <4>2 DEF Tag
        <5>2. tags = {Absent, At(NameOf[me])}
          BY <2>3, <4>2
        <5>3. At(NameOf[x]) # Absent
          BY <3>2, RoundTripAssumption
        <5> QED
          BY <3>3, <5>1, <5>2, <5>3
      <4> QED
        BY <4>1, <4>2
    <3> QED
      BY <1>8, <2>7, <3>4 DEF tags, x, me, mine
  <2> QED
    BY <2>6, <2>7
<1> QED
  BY <1>7, <1>8

(* The message of a post in which something is said.                       *)
LEMMA ArrivedMessage ==
    ASSUME RoundTripInv, PlainNames, NEW post \in wire, post.author # Absent,
           post.said # <<>>
    PROVE  Arrived([post |-> post, kind |-> "text",
                    msg |-> InboundMessage(post.act, runtime[post.to])])
<1> DEFINE said == post.said
           act == post.act
           acct == runtime[post.to]
           me == InChatOf(post.to)
           msg == InboundMessage(act, acct)
           entity(y) == [id |-> y, aad |-> Absent, name |-> NameOf[y],
                         tag |-> IF post.escaped THEN Tag(y, TRUE) ELSE Absent]
<1>1. /\ post.to \in DOMAIN Registrations
      /\ said \in Seq(Words \cup DOMAIN NameOf)
      /\ act.entities = EntitiesOf(said, post.escaped)
      /\ act.text = TextOf(said, post.escaped)
  BY DEF RoundTripInv, PostsInv
<1>2. ToSet(act.entities) = {entity(y) : y \in ToSet(said) \ Words}
  BY <1>1, EntitiesOfMentions
<1>3. \A y : entity(y).id = y /\ entity(y).aad = Absent /\ entity(y).name = NameOf[y]
  OBVIOUS
<1> HIDE DEF entity
<1>4. msg.mentionedMe = (me \in ToSet(said))
  <2>1. msg.mentionedMe = (MentionsOfMe(act, acct) # {})
    BY DEF InboundMessage
  <2>2. MentionsOfMe(act, acct) = {e \in ToSet(act.entities) : e.id = me}
    BY MentionsOfMeAreOwn
  <2>3. me \notin Words
    <3>1. Registrations[post.to][2] \in Apps
      BY <1>1, RoundTripAssumption
    <3>2. me \in BotIds
      BY <3>1 DEF InChatOf, BotIds
    <3> QED
      BY <3>2, RoundTripAssumption
  <2>4. MentionsOfMe(act, acct) # {} <=> me \in ToSet(said)
    BY <1>2, <1>3, <2>2, <2>3
  <2> QED
    BY <2>1, <2>4
<1>5. msg.mentionAll = (Everyone \in ToSet(said))
  <2>1. msg.mentionAll = MentionAll(act)
    BY DEF InboundMessage
  <2>2. ASSUME NEW y \in ToSet(said) \ Words
        PROVE  (\/ FirstString(<<entity(y).aad, entity(y).id>>) = Everyone
                \/ entity(y).name = Everyone)
               <=> y = Everyone
    <3>1. FirstString(<<entity(y).aad, entity(y).id>>) = y
      BY <1>3, FirstOfTwo
    <3>2. y \in DOMAIN NameOf
      BY <1>1 DEF ToSet
    <3> QED
      BY <1>3, <3>1, <3>2 DEF PlainNames
  <2>3. Everyone \notin Words
    BY RoundTripAssumption
  <2>4. MentionAll(act) <=> \E y \in ToSet(said) \ Words : y = Everyone
    BY <1>2, <2>2 DEF MentionAll
  <2>5. MentionAll(act) \in BOOLEAN
    BY DEF MentionAll
  <2> QED
    BY <2>1, <2>3, <2>4, <2>5
<1>6. ActivityText(act) = TextOf(said, post.escaped)
  <2>1. 1 \in DOMAIN said
    BY <1>1
  <2>2. DOMAIN TextOf(said, post.escaped) = DOMAIN said
    BY DEF TextOf
  <2>3. DOMAIN <<>> = {}
    OBVIOUS
  <2>4. TextOf(said, post.escaped) # <<>>
    BY <2>1, <2>2, <2>3
  <2> QED
    BY <1>1, <2>4 DEF ActivityText
<1> DEFINE mine == MentionsOfMe(act, acct)
           tags == {e.tag : e \in mine} \cup {At(e.name) : e \in mine}
           I == {k \in DOMAIN said : \/ ~(me \in ToSet(said))
                                     \/ said[k] \in Words
                                     \/ NameOf[said[k]] # NameOf[me]}
           J == {k \in DOMAIN TextOf(said, post.escaped) :
                    TextOf(said, post.escaped)[k] \notin tags}
<1>7. msg.text = Picked(TextOf(said, post.escaped), J)
  <2>1. msg.text = StrippedText(act, acct)
    BY DEF InboundMessage
  <2>2. StrippedText(act, acct) = Filter(ActivityText(act), LAMBDA t : t \notin tags)
    BY DEF StrippedText
  <2> HIDE DEF tags
  <2> QED
    BY <1>6, <2>1, <2>2 DEF Filter
<1>8. I = J
  <2>1. DOMAIN TextOf(said, post.escaped) = DOMAIN said
    BY DEF TextOf
  <2>2. \A k \in DOMAIN said :
           TextOf(said, post.escaped)[k] \notin tags
           <=> (me \notin ToSet(said) \/ said[k] \in Words \/ NameOf[said[k]] # NameOf[me])
    BY DeletedTags
  <2> HIDE DEF tags, me
  <2> QED
    BY <2>1, <2>2
<1>9. Picked(TextOf(said, post.escaped), I) = TextOf(Picked(said, I), post.escaped)
  BY <1>1, PickedText
<1>10. msg.text = TextOf(Picked(said, I), post.escaped)
  <2> HIDE DEF I, J
  <2> QED
    BY <1>7, <1>8, <1>9
<1> DEFINE done == [post |-> post, kind |-> "text", msg |-> msg]
<1>11. done.post = post /\ done.msg = msg
  OBVIOUS
<1> HIDE DEF done, msg
<1>12. Arrived(done)
  BY <1>4, <1>5, <1>10, <1>11 DEF Arrived, Filter
<1> QED
  BY <1>12 DEF done, msg

(* When the names on display can be told apart, a message says who was     *)
(* mentioned and keeps all that was said but the mentions of the bot: in   *)
(* whatever state the account is, however the tags were written, and       *)
(* whoever else was mentioned (stripTeamsMention, teamsBotIDs).            *)
THEOREM SaidAndMentionedArrives ==
    ASSUME PlainNames
    PROVE  Spec => []MentionsArrive
<1>1. MentionsArrive <=>
         \A done \in handled : done.kind = "text" /\ done.post.said # <<>> => Arrived(done)
  BY DEF MentionsArrive, Heard
<1>2. Init => MentionsArrive
  BY <1>1 DEF Init
<1>3. RoundTripInv /\ MentionsArrive /\ [Next]_vars => MentionsArrive'
  <2> SUFFICES ASSUME RoundTripInv, MentionsArrive, [Next]_vars
               PROVE  MentionsArrive'
    OBVIOUS
  <2>1. CASE UNCHANGED handled
    BY <2>1 DEF MentionsArrive, Heard
  <2>2. ASSUME NEW post \in wire, NEW url \in AllowedUrls, Deliver(post, url)
        PROVE  MentionsArrive'
    <3> DEFINE kind == Kind(post.act, runtime[post.to])
               new == [post |-> post, kind |-> kind,
                       msg |-> IF kind = "text" THEN InboundMessage(post.act, runtime[post.to])
                               ELSE Absent]
    <3>1. handled' = handled \cup {new}
      BY <2>2 DEF Deliver
    <3>2. new.kind = "text" /\ new.post.said # <<>> => Arrived(new)
      <4> SUFFICES ASSUME kind = "text", post.said # <<>>
                   PROVE  Arrived(new)
        OBVIOUS
      <4>1. post.author # Absent
        BY DeliveredEcho
      <4>2. new = [post |-> post, kind |-> "text",
                   msg |-> InboundMessage(post.act, runtime[post.to])]
        OBVIOUS
      <4> HIDE DEF new
      <4> QED
        BY <4>1, <4>2, ArrivedMessage
    <3>3. \A done \in handled' : done.kind = "text" /\ done.post.said # <<>> => Arrived(done)
      <4> HIDE DEF new
      <4> QED
        BY <1>1, <3>1, <3>2
    <3> QED
      BY <3>3 DEF MentionsArrive, Heard
  <2>3. CASE \E i \in DOMAIN runtime : Validate(i) \/ Reload(i)
    BY <2>1, <2>3 DEF Validate, Reload
  <2>4. CASE UserPosts
    BY <2>1, <2>4 DEF UserPosts
  <2>5. ASSUME NEW done, NEW req, Answer(done, req)
        PROVE  MentionsArrive'
    BY <2>1, <2>5 DEF Answer
  <2>6. CASE UNCHANGED vars
    BY <2>1, <2>6 DEF vars
  <2> QED
    BY <2>2, <2>3, <2>4, <2>5, <2>6 DEF Next
<1> QED
  BY <1>2, <1>3, RoundTripInvariant, PTL DEF Spec

(* The echo filter takes no person for a bot, and a person's post has all  *)
(* that a message needs but perhaps a text.                                *)
LEMMA PersonsPost ==
    ASSUME RoundTripInv, NEW post \in wire, post.author # Absent
    PROVE  /\ post.act.type \in {"message", "conversationUpdate"}
           /\ ~SelfEcho(post.act, runtime[post.to])
           /\ Absent \notin {post.act.chat, post.act.id, SenderID(post.act)}
<1> DEFINE act == post.act
           acct == runtime[post.to]
<1>1. /\ post.to \in DOMAIN Registrations
      /\ post.author \in People
      /\ act.type \in {"message", "conversationUpdate"}
      /\ act.id = "id" /\ act.chat = "chat"
      /\ act.from.id = Person(post.author) /\ act.from.aad \in {Absent, Bare(post.author)}
      /\ act.recipient.id = InChatOf(post.to) /\ act.recipient.aad = Absent
  BY DEF RoundTripInv, PostsInv
<1>2. Registrations[post.to][2] \in Apps /\ acct \in Account
  BY <1>1, RoundTripAssumption DEF RoundTripInv, AccountsInv
<1>3. ~SelfEcho(act, acct)
  <2>1. act.recipient.id \in BotIds
    BY <1>1, <1>2 DEF InChatOf, BotIds
  <2>2. Person(post.author) \notin BotIds /\ Bare(post.author) \notin BotIds
    BY <1>1, RoundTripAssumption DEF BotIds, Person, Bare, InChat
  <2>3. Absent \notin BotIds /\ Person(post.author) # Absent
    BY <1>1, RoundTripAssumption, AccountsAssumption
  <2> HIDE DEF act, acct
  <2> QED
    BY <1>1, <1>2, <2>1, <2>2, <2>3, OthersAreHeard
<1>4. Absent \notin {act.chat, act.id, SenderID(act)}
  <2>1. SenderID(act) \in {Person(post.author), Bare(post.author)}
    BY <1>1, FirstOfTwo DEF SenderID
  <2> QED
    BY <1>1, <2>1, RoundTripAssumption
<1> QED
  BY <1>1, <1>3, <1>4

(* Where something is said there is a text, or a mention of the bot.       *)
LEMMA SaidIsNotEmpty ==
    ASSUME RoundTripInv, NEW post \in wire, post.said # <<>>,
           MentionsOfMe(post.act, runtime[post.to]) = {}
    PROVE  StrippedText(post.act, runtime[post.to]) # <<>>
<1> DEFINE act == post.act
           acct == runtime[post.to]
           text == TextOf(post.said, post.escaped)
<1>1. post.said \in Seq(Words \cup DOMAIN NameOf) /\ act.text = text
  BY DEF RoundTripInv, PostsInv
<1>2. 1 \in DOMAIN post.said /\ DOMAIN text = DOMAIN post.said
  BY <1>1 DEF TextOf
<1>3. DOMAIN <<>> = {}
  OBVIOUS
<1>4. text # <<>>
  BY <1>2, <1>3
<1>5. ActivityText(act) = text
  BY <1>1, <1>4 DEF ActivityText
<1>6. StrippedText(act, acct) = Filter(text, LAMBDA t : t \notin {})
  BY <1>5 DEF StrippedText, Filter
<1>7. StrippedText(act, acct) = Picked(text, DOMAIN text)
  BY <1>6 DEF Filter
<1>8. DOMAIN text \subseteq Nat /\ IsFiniteSet(DOMAIN text)
  BY <1>1, <1>2, PositionsAreFinite
<1> HIDE DEF text, act, acct
<1>9. ToSet(Picked(text, DOMAIN text)) = {text[i] : i \in DOMAIN text}
  BY <1>8, PickedMembers
<1>10. text[1] \in {text[i] : i \in DOMAIN text}
  BY <1>2
<1>11. ToSet(<<>>) = {}
  BY DEF ToSet
<1>12. StrippedText(act, acct) # <<>>
  BY <1>7, <1>9, <1>10, <1>11
<1> QED
  BY <1>12 DEF act, acct
-----------------------------------------------------------------------------
(* What is read of cards.                                                  *)

(* An object with one key has one value in it.                             *)
LEMMA InsideObject ==
    ASSUME NEW key \in ToSet(TextKeys), NEW x
    PROVE  Inside(Object(key, x)) \in Seq({x}) /\ ToSet(Inside(Object(key, x))) = {x}
<1> DEFINE object == Object(key, x)
           I == {i \in DOMAIN TextKeys : TextKeys[i] \in DOMAIN object.fields}
           keys == Picked(TextKeys, I)
<1>1. object.kind = "object" /\ object.fields = [k \in {key} |-> x]
  BY DEF Object
<1> HIDE DEF object
<1>2. Inside(object) = [i \in DOMAIN keys |-> object.fields[keys[i]]]
  BY <1>1 DEF Inside, Filter
<1>3. DOMAIN TextKeys = 1..12
  BY DEF TextKeys
<1>4. I \subseteq Nat /\ IsFiniteSet(I)
  <2>1. PICK n \in Int : DOMAIN TextKeys = 1..n
    BY <1>3
  <2>2. I \in SUBSET (1..n)
    BY <2>1
  <2>3. IsFiniteSet(1..n)
    BY FS_Interval
  <2> HIDE DEF I
  <2>4. I \subseteq Nat
    BY <2>2
  <2>5. IsFiniteSet(I)
    BY <2>2, <2>3, FS_Subset
  <2> QED
    BY <2>4, <2>5
<1>5. {TextKeys[i] : i \in I} = {key}
  BY <1>1 DEF ToSet
<1> HIDE DEF I
<1>6. keys \in Seq({key}) /\ ToSet(keys) = {key}
  BY <1>4, <1>5, PickedMembers
<1> HIDE DEF keys
<1>7. \A i \in DOMAIN keys : object.fields[keys[i]] = x
  BY <1>1, <1>6
<1>8. DOMAIN keys = 1..Len(keys) /\ Len(keys) \in Nat /\ DOMAIN keys # {}
  BY <1>6 DEF ToSet
<1>9. Inside(object) \in Seq({x}) /\ DOMAIN Inside(object) = DOMAIN keys
  BY <1>2, <1>7, <1>8
<1>10. ToSet(Inside(object)) = {x}
  BY <1>2, <1>7, <1>8 DEF ToSet
<1> QED
  BY <1>9, <1>10 DEF object

LEMMA InsideArray ==
    ASSUME NEW items
    PROVE  Inside(Array(items)) = items /\ Array(items).kind = "array"
BY DEF Inside, Array

(* The text of a block, and the values around it, from the inside out.     *)
String(text) == [kind |-> "string", text |-> text]

Nests(f, b) ==
    /\ f[0] = Object("text", String(b.text))
    /\ \A n \in 1..Len(b.path) : f[n] = Object(b.path[n], Array(<<f[n - 1]>>))

LEMMA NestsExist ==
    ASSUME NEW b, Len(b.path) \in Nat
    PROVE  \E f : /\ f = [n \in 0..Len(b.path) |->
                            IF n = 0 THEN Object("text", [kind |-> "string", text |-> b.text])
                            ELSE Object(b.path[n], Array(<<f[n - 1]>>))]
<1> DEFINE L == Len(b.path)
           Around(n, v) == Object(b.path[n], Array(<<v>>))
           first == Object("text", [kind |-> "string", text |-> b.text])
           Built(f, m) == \A n \in 0..m : f[n] = IF n = 0 THEN first ELSE Around(n, f[n - 1])
           S == {m \in 0..L : \E f : Built(f, m)}
<1> HIDE DEF first, Around
<1>1. \E f : Built(f, 0)
  <2> DEFINE f == [n \in {0} |-> first]
  <2>1. Built(f, 0)
    OBVIOUS
  <2> HIDE DEF f
  <2> QED
    BY <2>1
<1>2. ASSUME NEW m \in 0..(L - 1), NEW f, Built(f, m)
      PROVE  \E g : Built(g, m + 1)
  <2> DEFINE last == Around(m + 1, f[m])
             g == [n \in 0..(m + 1) |-> IF n = m + 1 THEN last ELSE f[n]]
  <2> HIDE DEF last
  <2>1. \A n \in 0..m : g[n] = f[n]
    OBVIOUS
  <2>2. g[m + 1] = last
    OBVIOUS
  <2> HIDE DEF g
  <2>3. ASSUME NEW n \in 0..(m + 1)
        PROVE  g[n] = IF n = 0 THEN first ELSE Around(n, g[n - 1])
    <3>1. CASE n = m + 1
      <4>1. g[n - 1] = f[m] /\ n # 0
        BY <2>1, <3>1
      <4> QED
        BY <2>2, <3>1, <4>1 DEF last
    <3>2. CASE n # m + 1
      <4>1. n \in 0..m /\ (n # 0 => n - 1 \in 0..m)
        BY <3>2
      <4> QED
        BY <1>2, <2>1, <4>1
    <3> QED
      BY <3>1, <3>2
  <2>4. Built(g, m + 1)
    BY <2>3
  <2> QED
    BY <2>4
<1> HIDE DEF Built
<1>3. \A m \in 0..L : m \in S
  <2>1. 0 \in S /\ \A m \in 0..(L - 1) : m \in S => m + 1 \in S
    BY <1>1, <1>2
  <2> HIDE DEF S
  <2> QED
    BY <2>1, AllUpTo
<1>4. PICK f : Built(f, L)
  BY <1>3
<1> DEFINE g == [n \in 0..L |-> f[n]]
<1>5. \A n \in 0..L : f[n] = IF n = 0 THEN first ELSE Around(n, g[n - 1])
  <2>1. \A n \in 0..L : n # 0 => g[n - 1] = f[n - 1]
    OBVIOUS
  <2> HIDE DEF g
  <2> QED
    BY <1>4, <2>1 DEF Built
<1>6. g = [n \in 0..L |-> IF n = 0 THEN first ELSE Around(n, g[n - 1])]
  BY <1>5
<1> HIDE DEF g
<1> QED
  BY <1>6 DEF first, Around

LEMMA BlockNests ==
    ASSUME NEW b, Len(b.path) \in Nat
    PROVE  \E f : Nests(f, b) /\ Block(b) = f[Len(b.path)]
<1> DEFINE nested == CHOOSE f : f = [n \in 0..Len(b.path) |->
                            IF n = 0 THEN Object("text", [kind |-> "string", text |-> b.text])
                            ELSE Object(b.path[n], Array(<<f[n - 1]>>))]
<1>1. Block(b) = nested[Len(b.path)]
  BY DEF Block
<1>2. nested = [n \in 0..Len(b.path) |->
                  IF n = 0 THEN Object("text", [kind |-> "string", text |-> b.text])
                  ELSE Object(b.path[n], Array(<<nested[n - 1]>>))]
  BY NestsExist
<1> HIDE DEF nested
<1>3. nested[0] = Object("text", String(b.text))
  BY <1>2 DEF String
<1>4. ASSUME NEW n \in 1..Len(b.path)
      PROVE  nested[n] = Object(b.path[n], Array(<<nested[n - 1]>>))
  <2>1. n \in 0..Len(b.path) /\ n # 0
    OBVIOUS
  <2> QED
    BY <1>2, <2>1
<1> QED
  BY <1>1, <1>3, <1>4 DEF Nests

(* A value that only has one other in it.                                  *)
LEMMA StringsOfOne ==
    ASSUME NEW V, Json(V), NEW value \in V, value.kind # "string",
           NEW u, ToSet(Inside(value)) = {u}
    PROVE  /\ Strings(V, value, 0) = {}
           /\ \A d \in Nat : Strings(V, value, d + 1) = Strings(V, u, d)
<1>1. Strings(V, value, 0) = {}
  BY ReachedAtOnce DEF Strings
<1>2. ASSUME NEW d \in Nat PROVE Strings(V, value, d + 1) = Strings(V, u, d)
  <2>1. Strings(V, value, d + 1) = UNION {Strings(V, w, d) : w \in {u}}
    BY StringsInside
  <2> QED
    BY <2>1
<1> QED
  BY <1>1, <1>2

(* The text of a block is two values deeper for each key of its path.      *)
LEMMA BlockStrings ==
    ASSUME NEW V, Json(V), NEW b, Len(b.path) \in Nat,
           \A n \in 1..Len(b.path) : b.path[n] \in ToSet(TextKeys),
           NEW f, Nests(f, b), String(b.text) \in V,
           \A n \in 0..Len(b.path) : f[n] \in V,
           \A n \in 1..Len(b.path) : Array(<<f[n - 1]>>) \in V
    PROVE  \A d \in Nat : Strings(V, f[Len(b.path)], d) =
                             IF d >= 2 * Len(b.path) + 1 THEN {String(b.text)} ELSE {}
<1> DEFINE L == Len(b.path)
           string == String(b.text)
           Deep(n) == \A d \in Nat : Strings(V, f[n], d) =
                                       IF d >= 2 * n + 1 THEN {string} ELSE {}
<1>1. Deep(0)
  <2>1. f[0] \in V /\ f[0].kind = "object" /\ ToSet(Inside(f[0])) = {string}
    <3>1. "text" \in ToSet(TextKeys)
      <4>1. 2 \in DOMAIN TextKeys /\ TextKeys[2] = "text"
        BY DEF TextKeys
      <4> QED
        BY <4>1 DEF ToSet
    <3>2. f[0] = Object("text", string)
      BY DEF Nests
    <3> HIDE DEF string
    <3>3. f[0].kind = "object"
      BY <3>2 DEF Object
    <3>4. f[0] \in V
      OBVIOUS
    <3> QED
      BY <3>1, <3>2, <3>3, <3>4, InsideObject
  <2>2. string \in V /\ string.kind = "string"
    BY DEF String
  <2> HIDE DEF string
  <2>3. \A d \in Nat : Strings(V, string, d) = {string}
    BY <2>2, StringStays
  <2>4. /\ Strings(V, f[0], 0) = {}
        /\ \A d \in Nat : Strings(V, f[0], d + 1) = Strings(V, string, d)
    BY <2>1, StringsOfOne
  <2>5. ASSUME NEW d \in Nat
        PROVE  Strings(V, f[0], d) = IF d >= 2 * 0 + 1 THEN {string} ELSE {}
    <3>1. CASE d = 0
      BY <2>4, <3>1
    <3>2. CASE d # 0
      <4>1. d - 1 \in Nat /\ (d - 1) + 1 = d /\ d >= 2 * 0 + 1
        BY <3>2
      <4> QED
        BY <2>3, <2>4, <4>1
    <3> QED
      BY <3>1, <3>2
  <2> QED
    BY <2>5
<1>2. ASSUME NEW n \in 0..(L - 1), Deep(n) PROVE Deep(n + 1)
  <2>1. n + 1 \in 1..L /\ n + 1 \in 0..L /\ (n + 1) - 1 = n /\ n \in 0..L /\ n \in Nat
    OBVIOUS
  <2> DEFINE array == Array(<<f[n]>>)
  <2>2. f[n + 1] \in V /\ array \in V /\ f[n] \in V
    BY <2>1
  <2>3. f[n + 1] = Object(b.path[n + 1], array)
    BY <2>1 DEF Nests
  <2>4. array.kind = "array" /\ ToSet(Inside(array)) = {f[n]}
    BY InsideArray DEF ToSet
  <2> HIDE DEF array
  <2>5. f[n + 1].kind = "object" /\ ToSet(Inside(f[n + 1])) = {array}
    <3>1. b.path[n + 1] \in ToSet(TextKeys)
      BY <2>1
    <3>2. f[n + 1].kind = "object"
      BY <2>3 DEF Object
    <3> QED
      BY <2>3, <3>1, <3>2, InsideObject
  <2>6. /\ Strings(V, f[n + 1], 0) = {}
        /\ \A d \in Nat : Strings(V, f[n + 1], d + 1) = Strings(V, array, d)
    BY <2>2, <2>5, StringsOfOne
  <2>7. /\ Strings(V, array, 0) = {}
        /\ \A d \in Nat : Strings(V, array, d + 1) = Strings(V, f[n], d)
    BY <2>2, <2>4, StringsOfOne
  <2>8. \A d \in Nat : Strings(V, f[n], d) = IF d >= 2 * n + 1 THEN {string} ELSE {}
    BY <1>2
  <2> HIDE DEF string
  <2>9. ASSUME NEW d \in Nat
        PROVE  Strings(V, f[n + 1], d) = IF d >= 2 * (n + 1) + 1 THEN {string} ELSE {}
    <3>1. CASE d = 0
      <4>1. Strings(V, f[n + 1], d) = {}
        BY <2>6, <3>1
      <4>2. ~(d >= 2 * (n + 1) + 1)
        BY <2>1, <3>1
      <4> QED
        BY <4>1, <4>2
    <3>2. CASE d = 1
      <4>1. d = 0 + 1
        BY <3>2
      <4>2. Strings(V, f[n + 1], d) = {}
        BY <2>6, <2>7, <4>1
      <4>3. ~(d >= 2 * (n + 1) + 1)
        BY <2>1, <3>2
      <4> QED
        BY <4>2, <4>3
    <3>3. CASE d > 1
      <4>1. /\ d - 1 \in Nat /\ (d - 1) + 1 = d
            /\ d - 2 \in Nat /\ (d - 2) + 1 = d - 1
            /\ d >= 2 * (n + 1) + 1 <=> d - 2 >= 2 * n + 1
        BY <2>1, <3>3
      <4>2. Strings(V, f[n + 1], d) = Strings(V, f[n], d - 2)
        BY <2>6, <2>7, <4>1
      <4> QED
        BY <2>8, <4>1, <4>2
    <3> QED
      BY <3>1, <3>2, <3>3
  <2> QED
    BY <2>9
<1> HIDE DEF Deep
<1>3. Deep(L)
  <2> DEFINE S == {n \in 0..L : Deep(n)}
  <2>1. 0 \in S /\ \A n \in 0..(L - 1) : n \in S => n + 1 \in S
    BY <1>1, <1>2
  <2> HIDE DEF S
  <2>2. \A n \in 0..L : n \in S
    BY <2>1, AllUpTo
  <2> QED
    BY <2>2 DEF S
<1> QED
  BY <1>3 DEF Deep

(* All the values of a card.                                               *)
CardContent(card) ==
    Object("body", Array([k \in DOMAIN card |-> Block(card[k])]))

BlockValues(b, f) ==
    {f[n] : n \in 0..Len(b.path)} \cup {Array(<<f[n - 1]>>) : n \in 1..Len(b.path)}
    \cup {String(b.text)}

CardValues(card, f) ==
    {CardContent(card), Array([k \in DOMAIN card |-> Block(card[k])])}
    \cup UNION {BlockValues(card[k], f[k]) : k \in DOMAIN card}

(* The blocks of a card, with the values in them.                          *)
Built(card, f) ==
    \A k \in DOMAIN card : Nests(f[k], card[k]) /\ Block(card[k]) = f[k][Len(card[k].path)]

Blocks == [text : Texts, path : Seq(ToSet(TextKeys))]

LEMMA BlocksOfCard ==
    ASSUME NEW T, NEW K, NEW card \in Seq([text : T, path : Seq(K)]), NEW k \in DOMAIN card
    PROVE  /\ card[k].text \in T /\ card[k].path \in Seq(K) /\ Len(card[k].path) \in Nat
           /\ \A n \in 1..Len(card[k].path) : card[k].path[n] \in K
<1> DEFINE B == [text : T, path : Seq(K)]
<1>1. card[k] \in B
  <2>1. card \in Seq(B)
    OBVIOUS
  <2> HIDE DEF B
  <2> QED
    BY <2>1
<1>2. card[k].text \in T /\ card[k].path \in Seq(K)
  BY <1>1
<1> QED
  BY <1>2

LEMMA CardIsBuilt ==
    ASSUME NEW card \in Seq(Blocks)
    PROVE  \E f : Built(card, f)
<1>1. \A k \in DOMAIN card : Len(card[k].path) \in Nat
  BY BlocksOfCard DEF Blocks
<1> DEFINE Fits(g, k) == Nests(g, card[k]) /\ Block(card[k]) = g[Len(card[k].path)]
           f == [k \in DOMAIN card |-> CHOOSE g : Fits(g, k)]
<1>2. \A k \in DOMAIN card : \E g : Fits(g, k)
  BY <1>1, BlockNests
<1> HIDE DEF Fits
<1>3. \A k \in DOMAIN card : Fits(f[k], k)
  BY <1>2
<1> HIDE DEF f
<1>4. Built(card, f)
  BY <1>3 DEF Fits, Built
<1> QED
  BY <1>4

LEMMA CardValuesAreJson ==
    ASSUME NEW card \in Seq(Blocks), NEW f, Built(card, f)
    PROVE  /\ Json(CardValues(card, f))
           /\ CardContent(card) \in CardValues(card, f)
           /\ Inside(CardContent(card)) \in Seq(CardValues(card, f))
           /\ ToSet(Inside(CardContent(card)))
                 = {Array([k \in DOMAIN card |-> Block(card[k])])}
           /\ \A k \in DOMAIN card : BlockValues(card[k], f[k]) \subseteq CardValues(card, f)
<1> DEFINE items == [k \in DOMAIN card |-> Block(card[k])]
           body == Array(items)
           content == CardContent(card)
           V == CardValues(card, f)
           B(k) == BlockValues(card[k], f[k])
<1>1. content \in V /\ body \in V /\ \A k \in DOMAIN card : B(k) \subseteq V
  <2> HIDE DEF content, body, B
  <2>1. V = {content, body} \cup UNION {B(k) : k \in DOMAIN card}
    BY DEF CardValues, B, content, body
  <2> HIDE DEF V
  <2> QED
    BY <2>1
<1>2. \A k \in DOMAIN card :
         /\ Len(card[k].path) \in Nat
         /\ \A n \in 1..Len(card[k].path) : card[k].path[n] \in ToSet(TextKeys)
  BY BlocksOfCard DEF Blocks
<1>3. "body" \in ToSet(TextKeys) /\ "text" \in ToSet(TextKeys)
  <2>1. 8 \in DOMAIN TextKeys /\ TextKeys[8] = "body" /\ 2 \in DOMAIN TextKeys /\ TextKeys[2] = "text"
    BY DEF TextKeys
  <2> QED
    BY <2>1 DEF ToSet
<1>4. Inside(content) \in Seq(V) /\ ToSet(Inside(content)) = {body}
  <2>1. content = Object("body", body)
    BY DEF CardContent
  <2> HIDE DEF body, V, content
  <2>2. Inside(content) \in Seq({body}) /\ ToSet(Inside(content)) = {body}
    BY <1>3, <2>1, InsideObject
  <2> QED
    BY <1>1, <2>2
<1>5. ASSUME NEW k \in DOMAIN card
      PROVE  /\ \A n \in 0..Len(card[k].path) : f[k][n] \in V
             /\ \A n \in 1..Len(card[k].path) : Array(<<f[k][n - 1]>>) \in V
             /\ String(card[k].text) \in V
  <2>1. B(k) \subseteq V
    BY <1>1
  <2> HIDE DEF V
  <2> QED
    BY <2>1 DEF BlockValues
<1>6. Inside(body) \in Seq(V)
  <2>1. Inside(body) = items
    BY InsideArray
  <2>2. DOMAIN card = 1..Len(card) /\ Len(card) \in Nat
    OBVIOUS
  <2>3. \A k \in DOMAIN card : Block(card[k]) \in V
    <3> TAKE k \in DOMAIN card
    <3>1. Block(card[k]) = f[k][Len(card[k].path)]
      BY DEF Built
    <3>2. Len(card[k].path) \in 0..Len(card[k].path)
      BY <1>2
    <3> HIDE DEF V
    <3> QED
      BY <1>5, <3>1, <3>2
  <2> HIDE DEF V
  <2>4. items \in Seq(V)
    BY <2>2, <2>3
  <2> QED
    BY <2>1, <2>4
<1>7. ASSUME NEW k \in DOMAIN card, NEW v \in B(k)
      PROVE  Inside(v) \in Seq(V)
  <2>0. Nests(f[k], card[k]) /\ Len(card[k].path) \in Nat
    BY <1>2 DEF Built
  <2>1. \/ v = f[k][0]
        \/ \E n \in 1..Len(card[k].path) : v = f[k][n]
        \/ \E n \in 1..Len(card[k].path) : v = Array(<<f[k][n - 1]>>)
        \/ v = String(card[k].text)
    BY <2>0 DEF BlockValues
  <2>2. CASE v = f[k][0]
    <3>1. v = Object("text", String(card[k].text))
      BY <2>0, <2>2 DEF Nests
    <3>2. Inside(v) \in Seq({String(card[k].text)})
      BY <1>3, <3>1, InsideObject
    <3> HIDE DEF V
    <3> QED
      BY <1>5, <3>2
  <2>3. ASSUME NEW n \in 1..Len(card[k].path), v = f[k][n] PROVE Inside(v) \in Seq(V)
    <3>1. v = Object(card[k].path[n], Array(<<f[k][n - 1]>>))
      BY <2>0, <2>3 DEF Nests
    <3>2. card[k].path[n] \in ToSet(TextKeys)
      BY <1>2
    <3>3. Inside(v) \in Seq({Array(<<f[k][n - 1]>>)})
      BY <3>1, <3>2, InsideObject
    <3> HIDE DEF V
    <3> QED
      BY <1>5, <3>3
  <2>4. ASSUME NEW n \in 1..Len(card[k].path), v = Array(<<f[k][n - 1]>>)
        PROVE  Inside(v) \in Seq(V)
    <3> DEFINE u == f[k][n - 1]
    <3>1. n - 1 \in 0..Len(card[k].path)
      BY <2>0
    <3>2. Inside(v) = <<u>>
      BY <2>4, InsideArray
    <3> HIDE DEF V
    <3>3. u \in V
      BY <1>5, <3>1
    <3> HIDE DEF u
    <3> QED
      BY <3>2, <3>3
  <2>5. CASE v = String(card[k].text)
    <3>1. Inside(v) = <<v>>
      BY <2>5 DEF Inside, String
    <3> HIDE DEF V
    <3> QED
      BY <1>5, <2>5, <3>1
  <2> QED
    BY <2>1, <2>2, <2>3, <2>4, <2>5
<1> HIDE DEF content, body, B
<1>8. \A v \in V : v = content \/ v = body \/ \E k \in DOMAIN card : v \in B(k)
  BY DEF CardValues, B, content, body
<1> HIDE DEF V
<1>9. \A v \in V : Inside(v) \in Seq(V)
  BY <1>4, <1>6, <1>7, <1>8
<1> QED
  BY <1>1, <1>4, <1>9 DEF Json, V, B, content, body

(* The texts of a card that so many steps lead to: a body, its array and   *)
(* the object of a text are three.                                         *)
LEMMA CardStrings ==
    ASSUME NEW card \in Seq(Blocks), NEW f, Built(card, f), NEW d \in Nat
    PROVE  {v.text : v \in Strings(CardValues(card, f), CardContent(card), d)}
              = {b.text : b \in {b \in ToSet(card) : 3 + 2 * Len(b.path) <= d}}
<1> DEFINE items == [k \in DOMAIN card |-> Block(card[k])]
           body == Array(items)
           content == CardContent(card)
           V == CardValues(card, f)
           near == {b \in ToSet(card) : 3 + 2 * Len(b.path) <= d}
<1>1. /\ Json(V) /\ content \in V /\ Inside(content) \in Seq(V)
      /\ ToSet(Inside(content)) = {body}
      /\ \A k \in DOMAIN card : BlockValues(card[k], f[k]) \subseteq V
  BY CardValuesAreJson
<1>2. content.kind = "object" /\ body.kind = "array" /\ Inside(body) = items
  BY InsideArray DEF CardContent, Object
<1>3. ToSet(items) = {Block(card[k]) : k \in DOMAIN card}
  BY DEF ToSet
<1>4. \A k \in DOMAIN card :
         /\ Len(card[k].path) \in Nat
         /\ \A n \in 1..Len(card[k].path) : card[k].path[n] \in ToSet(TextKeys)
  BY BlocksOfCard DEF Blocks
<1>5. body \in V
  <2> HIDE DEF V, body, content
  <2> QED
    BY <1>1 DEF ToSet
<1> HIDE DEF V, content, body, items
<1>6. /\ Strings(V, content, 0) = {}
      /\ \A e \in Nat : Strings(V, content, e + 1) = Strings(V, body, e)
  BY <1>1, <1>2, StringsOfOne
<1>7. /\ Strings(V, body, 0) = {}
      /\ \A e \in Nat : Strings(V, body, e + 1)
                          = UNION {Strings(V, Block(card[k]), e) : k \in DOMAIN card}
  <2>1. Strings(V, body, 0) = {}
    BY <1>2, <1>5, ReachedAtOnce DEF Strings
  <2>2. ASSUME NEW e \in Nat
        PROVE  Strings(V, body, e + 1)
                 = UNION {Strings(V, Block(card[k]), e) : k \in DOMAIN card}
    <3>1. Strings(V, body, e + 1) = UNION {Strings(V, u, e) : u \in ToSet(items)}
      BY <1>1, <1>2, <1>5, StringsInside
    <3>2. {Strings(V, u, e) : u \in ToSet(items)}
            = {Strings(V, Block(card[k]), e) : k \in DOMAIN card}
      BY <1>3
    <3> QED
      BY <3>1, <3>2
  <2> QED
    BY <2>1, <2>2
<1>8. ASSUME NEW k \in DOMAIN card, NEW e \in Nat
      PROVE  Strings(V, Block(card[k]), e) =
                IF e >= 2 * Len(card[k].path) + 1 THEN {String(card[k].text)} ELSE {}
  <2>1. Nests(f[k], card[k]) /\ Block(card[k]) = f[k][Len(card[k].path)]
    BY DEF Built
  <2>2. /\ String(card[k].text) \in V
        /\ \A n \in 0..Len(card[k].path) : f[k][n] \in V
        /\ \A n \in 1..Len(card[k].path) : Array(<<f[k][n - 1]>>) \in V
    <3>1. BlockValues(card[k], f[k]) \subseteq V
      BY <1>1
    <3> QED
      BY <3>1 DEF BlockValues
  <2> QED
    BY <1>1, <1>4, <2>1, <2>2, BlockStrings
<1>9. ASSUME NEW v
      PROVE  v \in Strings(V, content, d) <=>
                \E k \in DOMAIN card : 3 + 2 * Len(card[k].path) <= d /\ v = String(card[k].text)
  <2>1. CASE d \in {0, 1}
    <3>1. Strings(V, content, d) = {}
      <4>1. Strings(V, content, 0) = {} /\ Strings(V, content, 0 + 1) = {}
        BY <1>6, <1>7
      <4>2. 0 + 1 = 1
        OBVIOUS
      <4> QED
        BY <2>1, <4>1, <4>2
    <3>2. \A k \in DOMAIN card : ~(3 + 2 * Len(card[k].path) <= d)
      BY <1>4, <2>1
    <3> QED
      BY <3>1, <3>2
  <2>2. CASE d > 1
    <3> DEFINE e == d - 2
    <3>1. e \in Nat /\ d = (e + 1) + 1 /\ e + 1 \in Nat
      BY <2>2
    <3>2. Strings(V, content, d) = UNION {Strings(V, Block(card[k]), e) : k \in DOMAIN card}
      <4> HIDE DEF e
      <4> QED
        BY <1>6, <1>7, <3>1
    <3>3. v \in Strings(V, content, d)
            <=> \E k \in DOMAIN card : v \in Strings(V, Block(card[k]), e)
      <4> HIDE DEF e
      <4> QED
        BY <3>2
    <3>4. \A k \in DOMAIN card : v \in Strings(V, Block(card[k]), e) <=>
              3 + 2 * Len(card[k].path) <= d /\ v = String(card[k].text)
      <4> TAKE k \in DOMAIN card
      <4>1. e >= 2 * Len(card[k].path) + 1 <=> 3 + 2 * Len(card[k].path) <= d
        BY <1>4, <3>1
      <4>2. Strings(V, Block(card[k]), e) =
                IF e >= 2 * Len(card[k].path) + 1 THEN {String(card[k].text)} ELSE {}
        BY <1>8, <3>1
      <4> HIDE DEF e
      <4> QED
        BY <4>1, <4>2
    <3> QED
      BY <3>3, <3>4
  <2> QED
    BY <2>1, <2>2
<1>10. \A b : b \in near <=> \E k \in DOMAIN card : 3 + 2 * Len(card[k].path) <= d /\ b = card[k]
  BY DEF ToSet
<1> HIDE DEF near
<1>11. ASSUME NEW t
       PROVE  t \in {v.text : v \in Strings(V, content, d)} <=> t \in {b.text : b \in near}
  <2>1. \A k \in DOMAIN card : String(card[k].text).text = card[k].text
    BY DEF String
  <2> QED
    BY <1>9, <1>10, <2>1
<1>12. {v.text : v \in Strings(V, content, d)} = {b.text : b \in near}
  BY <1>11
<1> QED
  BY <1>12 DEF V, content, near

(* No JSON has no text.                                                    *)
LEMMA NullIsSilent ==
    Fragments(Null) = <<>>
<1> USE CardTextAssumption
<1> DEFINE V == {Null}
<1>1. Inside(Null) = <<>>
  BY DEF Inside, Null
<1>2. Json(V) /\ ToSet(Inside(Null)) = {}
  BY <1>1 DEF Json, ToSet
<1> HIDE DEF V
<1>3. Null \in V
  BY DEF V
<1>4. Strings(V, Null, MaxTextDepth) = {}
  <2>1. CASE MaxTextDepth = 0
    <3>1. Reached(V, Null, 0) = {Null} /\ Null.kind # "string"
      BY <1>3, ReachedAtOnce DEF Null
    <3> QED
      BY <2>1, <3>1 DEF Strings
  <2>2. CASE MaxTextDepth # 0
    <3>1. PICK n \in Nat : MaxTextDepth = n + 1
      <4>1. MaxTextDepth - 1 \in Nat /\ MaxTextDepth = (MaxTextDepth - 1) + 1
        BY <2>2
      <4> QED
        BY <4>1
    <3>2. Strings(V, Null, n + 1) = UNION {Strings(V, u, n) : u \in {}}
      BY <1>2, <1>3, StringsInside
    <3> QED
      BY <3>1, <3>2
  <2> QED
    BY <2>1, <2>2
<1>5. Fragments(Null) \in Seq({})
  <2>1. {v.text : v \in Strings(V, Null, MaxTextDepth)} = {}
    BY <1>4
  <2>2. Fragments(Null) \in Seq({v.text : v \in Strings(V, Null, MaxTextDepth)})
    BY <1>2, <1>3, TextsWithinReachAreRead
  <2> QED
    BY <2>1, <2>2
<1> QED
  BY <1>5

(* What is read of an attachment: the texts within reach, or its name.     *)
LEMMA AttachmentIsRead ==
    ASSUME NEW a \in Attached
    PROVE  /\ AttachmentText(Attachment(a)) \in Seq(Texts)
           /\ ToSet(AttachmentText(Attachment(a))) \ {Absent} = Readable(a)
<1> USE CardTextAssumption
<1> DEFINE content == Attachment(a).content
           found == Fragments(content)
           within == {b \in ToSet(a.card) : 3 + 2 * Len(b.path) <= MaxTextDepth}
           near == {b \in ToSet(a.card) : b.text # Absent /\ 3 + 2 * Len(b.path) <= MaxTextDepth}
           said == {b.text : b \in near}
<1>1. a.card \in Seq(Blocks) /\ a.name \in Texts
  BY DEF Attached, Blocks
<1>2. said = {b.text : b \in within} \ {Absent} /\ (said = {} <=> near = {})
  OBVIOUS
<1>3. found \in Seq(Texts) /\ ToSet(found) = said
  <2>1. CASE a.card = <<>>
    <3>1. content = Null
      BY <2>1 DEF Attachment
    <3>2. found = <<>>
      BY <3>1, NullIsSilent
    <3>3. said = {} /\ ToSet(<<>>) = {}
      BY <2>1 DEF ToSet
    <3> HIDE DEF found, said
    <3> QED
      BY <3>2, <3>3
  <2>2. CASE a.card # <<>>
    <3>1. content = CardContent(a.card)
      BY <2>2 DEF Attachment, CardContent
    <3>2. PICK f : Built(a.card, f)
      BY <1>1, CardIsBuilt
    <3> DEFINE V == CardValues(a.card, f)
               texts == {v.text : v \in Strings(V, content, MaxTextDepth)}
    <3>3. Json(V) /\ content \in V
      <4> HIDE DEF content
      <4> QED
        BY <1>1, <3>1, <3>2, CardValuesAreJson
    <3>4. texts = {b.text : b \in within}
      <4> HIDE DEF content
      <4> QED
        BY <1>1, <3>1, <3>2, CardStrings
    <3>5. found \in Seq(texts) /\ ToSet(found) = texts \ {Absent}
      <4> HIDE DEF content, V
      <4> QED
        BY <3>3, TextsWithinReachAreRead
    <3>6. texts \subseteq Texts
      <4>1. \A b \in within : b.text \in Texts
        <5>1. \A k \in DOMAIN a.card : a.card[k].text \in Texts
          BY <1>1, BlocksOfCard DEF Blocks
        <5> QED
          BY <5>1 DEF ToSet
      <4> HIDE DEF texts, within, V
      <4> QED
        BY <3>4, <4>1
    <3> HIDE DEF found, texts, said, within
    <3> QED
      BY <1>2, <3>4, <3>5, <3>6
  <2> QED
    BY <2>1, <2>2
<1>4. AttachmentText(Attachment(a)) = IF found = <<>> THEN <<a.name>> ELSE found
  BY DEF AttachmentText, Attachment
<1>5. Readable(a) = (IF near = {} THEN {a.name} ELSE said) \ {Absent}
  BY DEF Readable
<1> HIDE DEF found, near, said
<1>6. found = <<>> <=> near = {}
  BY <1>2, <1>3, NoMembers
<1>7. <<a.name>> \in Seq(Texts) /\ ToSet(<<a.name>>) = {a.name}
  BY <1>1 DEF ToSet
<1> QED
  BY <1>3, <1>4, <1>5, <1>6, <1>7

(* Nobody is mentioned where nothing is said.                              *)
LEMMA NothingSaid ==
    ASSUME NEW escaped
    PROVE  TextOf(<<>>, escaped) = <<>> /\ ToSet(EntitiesOf(<<>>, escaped)) = {}
<1>1. TextOf(<<>>, escaped) \in Seq({})
  <2>1. DOMAIN <<>> = 1..0
    OBVIOUS
  <2>2. TextOf(<<>>, escaped) \in [1..0 -> {}]
    BY <2>1 DEF TextOf
  <2> QED
    BY <2>2
<1>2. ToSet(EntitiesOf(<<>>, escaped)) = {}
  <2>1. <<>> \in Seq(Words \cup DOMAIN NameOf) /\ ToSet(<<>>) = {}
    BY DEF ToSet
  <2> QED
    BY <2>1, EntitiesOfMentions
<1> QED
  BY <1>1, <1>2

(* The text of a post in which nothing is said: that of its attachments.   *)
LEMMA CardsAreText ==
    ASSUME RoundTripInv, NEW post \in wire, post.said = <<>>
    PROVE  /\ MentionsOfMe(post.act, runtime[post.to]) = {}
           /\ ToSet(StrippedText(post.act, runtime[post.to])) = ReadIn(post)
           /\ IsInjective(StrippedText(post.act, runtime[post.to]))
           /\ StrippedText(post.act, runtime[post.to]) = <<>> <=> ReadIn(post) = {}
<1> DEFINE act == post.act
           acct == runtime[post.to]
           text == ActivityText(act)
           attached == post.attached
           A == {Attachment(a) : a \in Attached}
<1>1. /\ attached \in Seq(Attached)
      /\ act.text = <<>> /\ ToSet(act.entities) = {} /\ act.value = Null
      /\ act.attachments = [k \in DOMAIN attached |-> Attachment(attached[k])]
  BY NothingSaid DEF RoundTripInv, PostsInv
<1>2. MentionsOfMe(act, acct) = {}
  BY <1>1 DEF MentionsOfMe
<1> HIDE DEF act, acct, attached
<1>3. /\ \A k \in DOMAIN attached : attached[k] \in Attached
      /\ DOMAIN attached = 1..Len(attached) /\ Len(attached) \in Nat
  <2> HIDE DEF Attached
  <2> QED
    BY <1>1 
<1>4. act.attachments \in Seq(A)
  <2>1. \A k \in DOMAIN attached : Attachment(attached[k]) \in A
    BY <1>3
  <2> HIDE DEF A
  <2> QED
    BY <1>1, <1>3, <2>1
<1>5. ToSet(act.attachments) = {Attachment(a) : a \in ToSet(attached)}
  BY <1>1 DEF ToSet
<1>6. \A x \in A : AttachmentText(x) \in Seq(Texts)
  BY AttachmentIsRead
<1>7. Fragments(act.value) = <<>> /\ <<>> \in Seq(Texts) /\ ToSet(<<>>) = {}
  BY <1>1, NullIsSilent DEF ToSet
<1> HIDE DEF A
<1>8. /\ text \in Seq(Texts) /\ IsInjective(text)
      /\ ToSet(text) = (UNION {ToSet(AttachmentText(x)) : x \in ToSet(act.attachments)}) \ {Absent}
  BY <1>1, <1>4, <1>6, <1>7, TextOfParts
<1>9. ToSet(text) = ReadIn(post)
  <2>1. \A a \in ToSet(attached) :
           ToSet(AttachmentText(Attachment(a))) \ {Absent} = Readable(a)
    <3>1. \A a \in ToSet(attached) : a \in Attached
      BY <1>3 DEF ToSet
    <3> QED
      BY <3>1, AttachmentIsRead
  <2>2. ReadIn(post) = UNION {Readable(a) : a \in ToSet(attached)}
    BY DEF ReadIn, attached
  <2>3. ASSUME NEW t
        PROVE  t \in ToSet(text) <=> t \in ReadIn(post)
    <3>1. t \in ToSet(text) <=> /\ t # Absent
                                /\ \E a \in ToSet(attached) :
                                      t \in ToSet(AttachmentText(Attachment(a)))
      BY <1>5, <1>8
    <3>2. t \in ReadIn(post) <=> \E a \in ToSet(attached) : t \in Readable(a)
      BY <2>2
    <3> QED
      BY <2>1, <3>1, <3>2
  <2> QED
    BY <2>3
<1>10. StrippedText(act, acct) = Picked(text, DOMAIN text)
  <2>1. StrippedText(act, acct) = Filter(text, LAMBDA t : t \notin {})
    BY <1>2 DEF StrippedText, Filter
  <2> HIDE DEF text
  <2> QED
    BY <2>1 DEF Filter
<1> HIDE DEF text
<1>11. DOMAIN text \subseteq Nat /\ IsFiniteSet(DOMAIN text)
  BY <1>8, PositionsAreFinite
<1>12. /\ StrippedText(act, acct) \in Seq({text[i] : i \in DOMAIN text})
       /\ ToSet(StrippedText(act, acct)) = {text[i] : i \in DOMAIN text}
  BY <1>10, <1>11, PickedMembers
<1>13. ToSet(StrippedText(act, acct)) = ReadIn(post)
  BY <1>9, <1>12 DEF ToSet
<1>14. IsInjective(StrippedText(act, acct))
  <2>1. \A i, l \in DOMAIN text : text[i] = text[l] => i = l
    BY <1>8 DEF IsInjective
  <2> QED
    BY <1>10, <1>11, <2>1, PickedInjective
<1>15. StrippedText(act, acct) = <<>> <=> ReadIn(post) = {}
  BY <1>12, <1>13, NoMembers
<1> QED
  BY <1>2, <1>13, <1>14, <1>15 DEF act, acct
-----------------------------------------------------------------------------
(* What a person says to the bot becomes a message, in whatever state the  *)
(* account is: words, a bare mention of the bot, or nothing but a card     *)
(* with a text within reach; a change of members or a post without any     *)
(* text never does.                                                        *)
THEOREM PeopleAreHeard == Spec => []UsersHeard
<1>1. Init => UsersHeard
  BY DEF Init, UsersHeard
<1>2. RoundTripInv /\ UsersHeard /\ [Next]_vars => UsersHeard'
  <2> SUFFICES ASSUME RoundTripInv, UsersHeard, [Next]_vars
               PROVE  UsersHeard'
    OBVIOUS
  <2>1. CASE UNCHANGED handled
    BY <2>1 DEF UsersHeard, ByUser
  <2>2. ASSUME NEW post \in wire, NEW url \in AllowedUrls, Deliver(post, url)
        PROVE  UsersHeard'
    <3> DEFINE act == post.act
               acct == runtime[post.to]
               kind == Kind(act, acct)
               new == [post |-> post, kind |-> kind,
                       msg |-> IF kind = "text" THEN InboundMessage(act, acct) ELSE Absent]
    <3>1. handled' = handled \cup {new}
      BY <2>2 DEF Deliver
    <3>2. ASSUME post.author # Absent
          PROVE  kind = "text" <=> /\ act.type = "message"
                                   /\ post.said # <<>> \/ ReadIn(post) # {}
      <4>1. /\ act.type \in {"message", "conversationUpdate"}
            /\ ~SelfEcho(act, acct)
            /\ Absent \notin {act.chat, act.id, SenderID(act)}
        BY <3>2, PersonsPost
      <4>2. kind = "text" <=> act.type = "message" /\ ~Incomplete(act, acct)
        BY <4>1 DEF Kind
      <4>3. Incomplete(act, acct)
              <=> StrippedText(act, acct) = <<>> /\ MentionsOfMe(act, acct) = {}
        BY <4>1 DEF Incomplete
      <4>4. post.said # <<>> => ~Incomplete(act, acct)
        BY <4>3, SaidIsNotEmpty
      <4>5. post.said = <<>> => (Incomplete(act, acct) <=> ReadIn(post) = {})
        BY <4>3, CardsAreText
      <4> QED
        BY <4>2, <4>4, <4>5
    <3>3. new.post = post /\ new.kind = kind
      OBVIOUS
    <3> HIDE DEF new, kind
    <3> QED
      BY <3>1, <3>2, <3>3 DEF UsersHeard, ByUser
  <2>3. CASE \E i \in DOMAIN runtime : Validate(i) \/ Reload(i)
    BY <2>1, <2>3 DEF Validate, Reload
  <2>4. CASE UserPosts
    BY <2>1, <2>4 DEF UserPosts
  <2>5. ASSUME NEW done, NEW req, Answer(done, req)
        PROVE  UsersHeard'
    BY <2>1, <2>5 DEF Answer
  <2>6. CASE UNCHANGED vars
    BY <2>1, <2>6 DEF vars
  <2> QED
    BY <2>2, <2>3, <2>4, <2>5, <2>6 DEF Next
<1> QED
  BY <1>1, <1>2, RoundTripInvariant, PTL DEF Spec

(* A message in which nothing is said has every text within reach of its   *)
(* cards, or the name of an attachment without any, each of them once:     *)
(* however many attachments there are, however deep their texts lie, and   *)
(* whatever the depth up to which they are looked for.                     *)
THEOREM CardsAreRead == Spec => []CardsRead
<1>1. CardsRead <=>
         \A done \in handled : done.kind = "text" /\ done.post.said = <<>> =>
             ToSet(done.msg.text) = ReadIn(done.post) /\ IsInjective(done.msg.text)
  BY DEF CardsRead, Heard
<1>2. Init => CardsRead
  BY <1>1 DEF Init
<1>3. RoundTripInv /\ CardsRead /\ [Next]_vars => CardsRead'
  <2> SUFFICES ASSUME RoundTripInv, CardsRead, [Next]_vars
               PROVE  CardsRead'
    OBVIOUS
  <2>1. CASE UNCHANGED handled
    BY <2>1 DEF CardsRead, Heard
  <2>2. ASSUME NEW post \in wire, NEW url \in AllowedUrls, Deliver(post, url)
        PROVE  CardsRead'
    <3> DEFINE act == post.act
               acct == runtime[post.to]
               kind == Kind(act, acct)
               new == [post |-> post, kind |-> kind,
                       msg |-> IF kind = "text" THEN InboundMessage(act, acct) ELSE Absent]
    <3>1. handled' = handled \cup {new}
      BY <2>2 DEF Deliver
    <3>2. ASSUME kind = "text", post.said = <<>>
          PROVE  ToSet(new.msg.text) = ReadIn(post) /\ IsInjective(new.msg.text)
      <4>1. new.msg.text = StrippedText(act, acct)
        BY <3>2 DEF InboundMessage
      <4>2. ToSet(StrippedText(act, acct)) = ReadIn(post)
            /\ IsInjective(StrippedText(act, acct))
        BY <3>2, CardsAreText
      <4> HIDE DEF new
      <4> QED
        BY <4>1, <4>2
    <3>3. new.post = post /\ new.kind = kind
      OBVIOUS
    <3> HIDE DEF new, kind
    <3>4. \A done \in handled' : done.kind = "text" /\ done.post.said = <<>> =>
             ToSet(done.msg.text) = ReadIn(done.post) /\ IsInjective(done.msg.text)
      BY <1>1, <3>1, <3>2, <3>3
    <3> QED
      BY <3>4 DEF CardsRead, Heard
  <2>3. CASE \E i \in DOMAIN runtime : Validate(i) \/ Reload(i)
    BY <2>1, <2>3 DEF Validate, Reload
  <2>4. CASE UserPosts
    BY <2>1, <2>4 DEF UserPosts
  <2>5. ASSUME NEW done, NEW req, Answer(done, req)
        PROVE  CardsRead'
    BY <2>1, <2>5 DEF Answer
  <2>6. CASE UNCHANGED vars
    BY <2>1, <2>6 DEF vars
  <2> QED
    BY <2>2, <2>3, <2>4, <2>5, <2>6 DEF Next
<1> QED
  BY <1>2, <1>3, RoundTripInvariant, PTL DEF Spec
=============================================================================
