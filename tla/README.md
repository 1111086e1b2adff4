# Verification of the Teams connector for Beak

TLA+ models of `src/` (a Go connector between Microsoft Teams and the Beak
platform), the TLC runs that check them on small instances, and theorems about
them whose proofs TLAPS checks.

## 1. Inventory

| Component | State it keeps | Operations | Interacts with |
|---|---|---|---|
| Inbound activity flow (`connector.go` `HandleWebhook`, `processMessageEvent`) | nothing across requests; a copy of the account document per request | load, save reference, filter and dedupe, ensure session, create message, save | account store, gateway, Teams |
| Account state (`state/state.go`, `connectorStateStore`) | one document per account in the host's store: seen messages, service URLs, sessions, link session | `LoadAccount`, `SaveAccount` (`TouchAccount`, `pruneTimestampMap`) | every handler, whole documents |
| Lifecycle (`Start`, `Stop`) | nothing | ensure channel, per account ensure link session, load, save | gateway, account store |
| Outbound (`Send`, `client.SendText`) | nothing | select account, load, look up service URL, token, POST | account store, token cache, Teams |
| Token cache (`client.go` `acquireToken`) | process-wide: per key a token, its expiry and a mutex | get or fetch | identity platform |
| Credential validation (`ValidateCredential`, `errors.go`) | nothing | two attempts, classification of errors | token cache |
| JWKS cache (`webhook_security.go` `keyFor`) | process-wide: keys and fetch time | look up, refresh | Bot Framework metadata |
| Webhook token check (`VerifyWebhookToken`, `HandleWebhookRequest`) | nothing | ordered checks, HTTP status | JWKS cache |
| Activity filter and text (`teamsBotIDs`, mentions, `activityText`) | nothing | pure | - |
| Account selection (`selectRuntimeAccount`, `accountKey`) | nothing | pure | - |
| `sdk/`, `plugin.go`, `conformance/`, `examples/` | declarations, JSON fixtures, a demonstration host | - | - |

What is hard here, and what correctness means:

* **Requests overlap and share whole documents.** The mutex and cache of
  `connectorStateStore` live for one request, so two requests of one account
  interleave load and save freely and each save replaces the document. Correct:
  a message is acknowledged only after it was created; a document never
  remembers a message that does not exist; a document is never torn.
* **Two external effects with no transaction.** Creating the message and
  marking it are separate calls, each of which may fail, be done although it
  reports an error, or be cut off by a crash. Teams posts again until it gets
  a 200. Correct: no acknowledged text is lost; replays are recognised as long
  as the store remembers.
* **Bounded memory.** Marks expire after 7 days and the map holds 4096 keys.
  Correct: only expired or oldest marks go.
* **Shared caches with time.** The token cache holds its mutex across an HTTP
  call; the JWKS cache drops its mutex around one. Correct: one fetch at a
  time per credential, no token returned past its end; no published key refused
  and no withdrawn key trusted for long, in whatever order key sets arrive.
* **Bounded retries over a shared cache.** Validation makes at most two calls,
  each of which may be served by somebody else's token. Correct: a host is told
  "invalid" only of a credential the platform refuses, or of one it got an answer
  for that reads like a refusal; one failure that may be over soon is survived;
  every call returns.
* **A token is checked at one time and used at another.** The clock is read
  before the keys are asked for, which may take two HTTP requests. Correct: an
  honest post is not turned away because clocks differ within the tolerance,
  and what reaches `HandleWebhook` was valid at most two time-outs earlier.
* **One bot has many names.** Its app id, the same with `28:` before it, the
  account's UUID, and ids in `State` that the connector's own save drops.
  Correct: the bot never takes its own post for a user's, takes nobody else's
  for its own, knows when it is mentioned, and an answer is sent by the account
  that was spoken to.
* **Text is taken apart and put together.** Mention tags are deleted on the way
  in and added on the way out, escaped or not; cards nest. Correct: what was
  said arrives, whole and once; a tag in the text for every mention posted.

Where each of these bites in the source is listed, line by line, under
`hazards` in `PROJECT.json`.

## 2. Modules

```
TrackedState  <-- PruneLoop            pruneTimestampMap: promise / loop
     ^
AccountState                           the stored document
     ^
  Inbound  --implements-->  Inbox      requests / what they promise
     ^
 Connector                             requests + Start + Send

TokenCache                             app tokens
     ^
 Validation                            credential validation over the cache

KeyCache                               signing keys
     ^
 Webhook                               from the post to its HTTP status

Accounts                               identifiers, echoes, selection
     ^
 CardText                              the text in cards
     ^
 Activity                              activity to message, message to post
     ^
 RoundTrip                             people, two bots and the host
```

An arrow `A <-- B` means B EXTENDS A. `MC...` modules give the constants small
values; `...Proofs` modules hold the theorems (those of `KeyCache` are in
`WebhookProofs`, those of `CardText` in `CardTextProofs`, which `RoundTripProofs`
extends). A definition with an underscore
in its name (`Install_StaleLookup`) is a plausible defect of the definition
that follows it: substituted for it, the property named in `PROJECT.json` must
fail.

| Module | Models | State | Actions and the code they stand for |
|---|---|---|---|
| `TrackedState` | `pruneTimestampMap`, as its result | a map from keys to stamps, total, with `Absent` | `Pruned` is the set of maps the code may leave: expired keys go, then the oldest down to the limit, in any order among equal stamps |
| `PruneLoop` | the same, statement by statement | the map, the keys `range` has left, the sorted copy | `ExpireOne`, `WithinLimit`, `Sort`, `EvictOne`, `Evicted` |
| `AccountState` | the document and `TouchAccount` | `seen`, `urls`, `sessions`, `linked` | `Touched` runs in every save |
| `Inbox` | what the inbound side promises | messages, acknowledged activities | `Create`, `Ack` |
| `Inbound` | `HandleWebhook`, `processMessageEvent`, with the host and Teams around them | per worker: place, activity, document copy, `now`; the store, messages and 200s | `Receive`, `Load`, `SaveReference` (with the filters and the dedupe check on the saved copy), `EnsureChatSession`, `CreateMessage`, `SaveSeen`, `Reply`; one failure of each; `Crash`; `Tick` |
| `Connector` | `Start` and `Send` against the requests | Start: place, accounts to visit, document copy. Send: the message it is about to post | `EnsureChannel`, `EnsureChannelLinkSession`, `LoadLink`, `SaveLink`, `StartDone`, `StartFails`; `SendLoad`, `SendRefused`, `SendPost`, `SendFails`. `SerialSpec` is the same with at most one call under way |
| `TokenCache` | `acquireToken`, `doForm`, error classes | per credential: entry and mutex holder; per caller: place, credential, answer, result; the platform's accepted credentials and clock | `Call`, `CallIncomplete`, `Lock`, `Hit`, `Request`, `Response`, `ErrorResponse`, `RequestFails`, `Done`; the platform's `Issue`, `Refuse`, `FaultyAnswer`, `Revoke`; `Cancel`; `Tick` |
| `Validation` | `ValidateCredential`, `validateTeamsCredential` | per caller: attempts, verdict | `ValidateCredential`, `Retry`, `RetryCancelled`, `Finish` |
| `KeyCache` | `keyFor`, `fetchKeys`, the part of `Webhook` that requests share | cached keys and when installed; per request: place, key, what it was sent | `KeyFor`, `Hit`, `Miss`, `FetchConfig`, `FetchKeys`, `FetchFails`, `Install`, `Finish`; the service's `Publish`, `Withdraw`; `Tick` |
| `Webhook` | `HandleWebhookRequest`, `VerifyWebhookToken` | per request: stage, post, the time it was checked for, last status | `Receive`, `RejectBody` (400, 413), `RejectClaims`, `RejectKey` (403), `AskForKey`, `Accept`, `HandleWebhook` (200, 500), with the steps of `KeyCache` between `AskForKey` and `Accept` or `RejectKey` |
| `Accounts` | `teamsBotIDs`, `matchesTeamsBot`, the echo filter, `accountKey`, `accountMatches`, `selectRuntimeAccount`, what `ValidateCredential` writes into an account | none | operators |
| `CardText` | `activityText`, `appendStructuredText`, `joinUniqueText` | none | operators; a JSON value is opened level by level, in place |
| `Activity` | the rest of `processMessageEvent` up to the inbound message; `SendText`, `buildMentionEntities`, `hasMentionAllIdentity` | none | operators |
| `RoundTrip` | a conversation through all of these | the host's accounts, their references, posts under way, what became of them, what was sent | `UserPosts`, `Deliver` (the filters), `Answer` (`Send`), `Validate`, `Reload` (the host takes the saved document for the account's `State`) |

How data is abstracted: an activity is a record of its account, message id,
chat, URL and the *kind* `processMessageEvent` finds it to be, in the order
in which the code decides; a URL, a token, a key set and an HTTP answer are
likewise values that differ only in what the code tells apart. Steps are as
fine as the code's calls to anything shared: between two of them a request
only touches its own copy, so it may run in one step. A call that changes
something outside may fail with its effect done or not done.

In `Webhook` a post is a record of what the checks find in it: size, window,
key, whether the signature is that key's, and one attribute for the checks that
need neither the time nor a key. An identifier is a prefix and a body; a text is a
sequence of words and mention tags, since the code deletes and looks for tags
whole; JSON values keep their nesting.

What is true of the code and easily overlooked:

* `connectorStateStore` has a mutex and a cache, but a new one is made for each
  request, so neither orders two requests. That is why `Load` reads the host's
  store and `SaveReference` replaces it.
* The mark of a message has the time taken at `Load`, while pruning takes the
  time of the save.
* The expiry of a token is counted from when its answer arrives, its validity
  from when it was issued.
* A token request that fails is classified by what failed. A lost or late answer is
  worth another attempt; one that breaks off in its body is not, since
  `io.ErrUnexpectedEOF` is none of the errors `IsRetryableError` knows
  (`client.go:347`, `errors.go:69`): that one failure ends a validation in an error.
  `CutOff` follows the code, and `OneFaultSurvived` excepts it (`Transient`).
* A 401 or 403 is a refusal whatever its body says, also with
  `temporarily_unavailable` or from a proxy (`client.go:146` wraps the `HTTPError`,
  `errors.go:61` finds it). A platform in trouble can so have a good credential
  reported invalid. The run has such a failure and `InvalidOnlyIfRefused` names
  the exception (`Misread`). The tests have the transient codes with status 400
  only, where they become Go errors.
* The comment at `client.go:87`, that HTTP and parse failures become `Valid=false`,
  is older than the retries: what is retryable becomes a Go error.
* A key is looked up in the set just fetched, inside the critical section that
  installs it; the cache a second request then replaces does not matter to it.
* The window of a token is widened at both ends, and its `nbf` is optional while
  its `exp` is not.
* `accountMatches` compares with three identifiers, while an account is filed
  under the first of the three that it has. `ValidateCredential` writes two of
  them; an account without UUID keeps its key because both were empty or the
  client id before (`ValidationKeepsTheKey`).
* The tag of a mention is removed under the text its entity gives and under the
  plain display name. A person who goes by the bot's own name loses the tag too,
  when the bot is mentioned beside them; `MentionsArrive` says so.
* A mention without a display name is left out of a sent message without an
  error, even where `hasMentionAllIdentity` has just accepted it as the explicit
  identity of `mention_all`. `TagsMatch` asks for complete mentions only.
* A person whose display name reads like the escaped form of the bot's would lose
  the tag as well, even without being called the same: `MentionsArrive` fails for
  such names, and the theorem about it excludes them (`PlainNames`).
* A card's text is read to a depth of 8, and an array and an object are two values: a
  text in two containers or in one column set of the card's body is found, one in
  a column set within a container is not. A text that nobody reads leaves the
  attachment's name in its place, if it has one.

## 3. Runs

All bounds are constants of the configurations and appear in guards only:
`MaxFaults` (failed calls and crashes), `MaxRepeats` (needless posts),
`MaxClock`, `MaxStarts`, `MaxSends`, `MaxCancels`, `MaxRotations`,
`MaxLookups` (also of posts), `MaxValidations`, `MaxAnswers`. Where a theorem exists (section 6) it holds
for all of their values.

| Run | Instance | Shows |
|---|---|---|
| `inbound_safety` | 2 workers, 1 account, two texts of one chat (one without URL) and an echo, 1 failure, 1 repeat, a map of 1 key, expiry at once | documents are never torn; nothing is acknowledged before it is created; the inductive invariant; `Inbox` is implemented |
| `inbound_live` | 2 workers, two texts in two chats, 1 failure, 1 repeat | every activity is acknowledged in the end; `Inbox` is implemented with its liveness |
| `connector_safety` | 1 worker, 2 accounts in one chat that receive the same message id, one Start, one Send, 1 failure, 1 repeat | the same with Start writing documents back; documents remember only created messages; a message of one account never hides the other's; a bearer token goes only to allowed hosts that an activity of that account and chat named (the second account's host is not allowed, and gets none) |
| `connector_serial` | each call of the connector alone (`OneCall`): three texts and an update, two Starts, one Send, 2 failures, 1 repeat, 2 ticks, a map of 2 keys | no reference or link session is lost, a remembered message is not created again, only expired or oldest marks go |
| `inbound_lost_reference` | 2 workers, two texts, no failure | a **violation**: section 5 |
| `inbound_overlap` | 2 workers, one text, posted twice | a **violation**: section 5 |
| `token_cache` | 2 callers; a right, a wrong and an incomplete credential; 1 failure, 1 cancelled context, revocation | one request per credential, own tokens only, no expired token returned, every call returns |
| `validation` | one validation beside another caller of the cache, 2 failures (lost, cut off, a 5xx with an unreadable body, a transient code with 400 and with 403), 1 cancelled context | only refused credentials, or those a failure answers 403 for, are found invalid; one failure that may be over soon is survived; a verdict is reached |
| `validation_cached` | the same, with a revocation before the validation | a **violation**: section 5 |
| `webhook` | 2 requests, 2 keys, 2 posts at a time out of seven (one valid from the start, one valid later, one too large, one that does not decode, one with another flaw, one without key id, one signed wrongly), 2 rotations, 1 failed fetch, skew 1, cache life 2, HTTP time-out 1, clock to 4 | honest posts are accepted, what is accepted is whole, within its window and signed with a trusted key, every post is answered, in whatever order key sets arrive |
| `round_trip` | 2 bots in one chat, one with a UUID and a name that needs escaping, the other without; 2 people, one with the first bot's name; bare mentions, mentions of both, of a person and of everyone, nested cards, an attachment without text; 1 answer | no reply loop, users are heard with their mentions and cards, posted tags and entities fit, the bot that was spoken to answers |
| `prune_all` | every map of 4 keys over 5 stamps (before, at and after the age limit, in the future, unparsable), limit 2 | the loop leaves one of the maps `TrackedState` promises, and its sorted copy never runs out early |

Why the bounds are enough for what they are to show:

* Two workers suffice for a lost update or an overlap, since each involves one
  load and one save of another request. The map is always smaller than the
  number of texts, so it overflows; with two keys and three texts a recent mark
  could be dropped for an old one.
* One failure may be a crash between any two steps, an error with its effect
  done, or a lost reply; the repost that follows is not counted as a repeat.
* The token runs use the code's own numbers of seconds (60, 120, 10, 3600,
  15) and let time jump between chosen instants, which lie before, at and after
  the time-out, the skewed expiry and the real expiry. The grants are an hour,
  an hour with no `expires_in` (the default applies), and 121 s, one above the
  threshold of short-lived tokens.
* In `webhook` a clock of 4 lets a key be withdrawn, an answer that still has it
  be installed late and the cache outlive it, and lets each window open, be used
  within the skew of either end, and close. Two requests are the fewest of which
  one replaces the cache while the other waits. An older set that replaces a newer one
  is then hit by a third lookup only, which the run does not have; `CacheInv`, a part of
  `KeyInv`, bounds what such a hit could find, and `WithdrawnKeysExpire` covers
  any number of lookups.
* `round_trip` has every pair of forms the filters compare: either form of the
  bot's id, sender with and without AAD id, tags escaped and plain, an account
  before and after validation and before and after its `State` is replaced. One
  post by a person reaches both bots, and one answer comes back to be filtered;
  a second answer would meet the same operators.

## 4. Fairness

* `Inbound`: `WF(Progress(w))`, a request's goroutine runs until it returns;
  `WF(Repost(a))`, Teams posts again what has no 200. Failures, repeats and
  time are not fair: they may happen, never must. As failures are finite, a
  request succeeds in the end; the code itself bounds nothing here.
* `TokenCache`: a request ends because `http.Client` calls carry a context with
  a time-out of 15 s; a caller that may go on does. `Lock` is strongly fair:
  the mutex is free again and again but may be taken by others in between, and
  `sync.Mutex` hands it to a waiter that has starved for 1 ms.
* `Validation`: in addition the timer of the pause fires.
* `Webhook`: the goroutine of a request runs, an HTTP request ends, and the
  mutex of the key cache is never held across one, so weak fairness of each
  request is enough. Nobody must post, and no key must be published.
* `RoundTrip` has no liveness: it asks what becomes of a post, not whether.

## 5. Where the code differs from what its text says

Each of these is a run whose one property TLC refutes; `findings` in
`PROJECT.json` quotes the lines.

* **A conversation reference is lost** (`inbound_lost_reference`). Two requests
  of one account each load the document, add their reference and save it whole;
  the later save removes the earlier one's reference although both activities
  were answered with 200. `Send` to that chat fails until it posts again. A
  request that loaded the document before Start saved it removes the link
  session in the same way (`LinkStored` holds only in `connector_serial`).
* **A replay creates a second message** (`inbound_overlap`), when it is loaded
  before the first request's last save. The connector passes a `DedupeKey` to
  the gateway, which may then drop the second; the model counts what the
  connector asks for. Even one at a time, a replay creates a second message
  when the first request failed, or its process died, between `CreateMessage`
  and the save (`CreatedOnce` with `Workers = {w1}`, `MaxFaults = 1`). What
  does hold then is `NoCreateWhileRemembered`.
* **A revoked credential is found valid** (`validation_cached`), from a token
  the process still holds. Revocation is the only cause: without one, what is
  found valid was accepted when the validation began (`ValidUnlessRevoked`).

`ReturnedValid` needs a condition the source does not state (`SafeGrants`):
below an `expires_in` of 121 the skew is a tenth of the life, which an answer
as late as the time-out of 15 s exceeds. A token of 20 s whose answer takes 5 s
is then returned from the cache after it has expired. Microsoft's tokens live
for about an hour.

## 6. Proofs

The `...Proofs` modules prove, for every value of the constants that satisfies the named assumptions
of the modules:

| Theorem | States |
|---|---|
| `InboundInvariant`, `TypeCorrect`, `SeenWereCreated`, `NoAckedTextLost`, `OnlyTextIsCreated`, `StoreIsConsistent`, `SeenIsBounded` | `Spec => []I` for the invariants of `inbound_safety`, and that documents remember only created messages |
| `InboundImplementsInbox` | `Spec => Promise!InboxSafety` |
| `ConnectorInvariant`, `PostsGoWhereGiven`, `NoAckedTextLostByStart`, `ConnectorImplementsInbox` | the same with Start and Send beside the requests |
| `SerialInvariant`, `LinksAreStored`, `ReferencesAreStored`, `RememberedIsNotCreated`, `OnlyOldestIsForgotten` | the properties of `connector_serial`, of `SerialSpec` |
| `PruneInvariant`, `LoopKeepsPromise`, `OldestGoFirst` | the loop of `pruneTimestampMap` leaves a map that `TrackedState` promises |
| `TokenInvariant`, `OneRequestServesAll`, `TokensAreOwn` | mutual exclusion, no needless request, own tokens |
| `CachedTokensAreAlive`, `ReturnedTokensAreValid` | `SafeGrants` implies that cached tokens are dropped in time and that no expired token is returned |
| `TokensUnderValidation`, `ValidationTypeCorrect`, `ValidOnlyIfRegistered`, `InvalidMeansRefused` | the token cache's invariant with retries; both verdicts are right |
| `ValidUnlessRevoked` | `ValidIsProven` of every behaviour in which no credential is revoked |
| `FaultsAreSurvived` | if the platform's refusals are none of the retryable errors, fewer failures than attempts fail no validation, unless it ends with an error that is not `Transient` or is cancelled |
| `KeyInvariant`, `PublishedKeysAreFound`, `WithdrawnKeysExpire` | the key cache |
| `WebhookImplementsKeyCache` | `WebhookSpec => KeySpec` |
| `WebhookInvariant`, `WebhookKeysExpire`, `HonestPostsAreServed`, `ActivitiesAreHandledInTime` | the webhook over the key cache; what is handled is whole, trusted and in time |
| `RequestsReachTheirAccount`, `ValidationKeepsTheKey`, `OwnPostsAreEchoes`, `OthersAreHeard` | accounts and identities, of any runtime and any activity |
| `PostedMentionsMatch` | what `SendText` makes of any text and any mentions |
| `RoundTripInvariant`, `NoBotAnswersItself`, `PostedTagsMatch` | accounts stay who they are; `NoReplyLoop`; `TagsMatch` |
| `ReceiverAnswers`, `AnswersFindTheirAccount` | `DistinctAccounts` implies `AnswersFromReceiver`, and that an answer to a message is never refused for want of its account |
| `SaidAndMentionedArrives` | `PlainNames` implies `MentionsArrive` |
| `PeopleAreHeard`, `CardsAreRead` | `UsersHeard`, `CardsRead` |
| `TextsWithinReachAreRead` | `appendStructuredText` finds exactly the strings that at most `MaxTextDepth` steps lead to, in any JSON value |
| `TextsAreSaidOnce`, `TextsKeepTheirOrder` | `joinUniqueText` keeps every text that is not blank, once, in the order in which each is first found |

**Inbound.** `SeenImpliesCreated` is not inductive: a save writes a copy that
was loaded long before. `InboundInv` says that every *copy* a request holds is
sound by itself (`Sound`: its marks are of created messages, whose session and
reference it has). Messages are never taken back, so a copy stays sound however
long it is held, and writing it over anything leaves a sound document; that is
the whole reason why lost updates do no worse than forget. Pruning only removes
marks, so it keeps soundness, and it leaves at most the limit (`SeenBounded`,
which needs nothing of the copy). A request reaches its reply with a text only
after creating it or finding its mark, which gives `AckedImpliesCreated`, and
with it each step of `Inbound` is a step of `Inbox` or none.

**Connector.** `ConnectorInv` adds that Start's copy is sound too, and that
every URL in a document or copy came with an activity of that account and chat.
`InboundInv` is preserved by a request's step as before (the lemmas of
`InboundProofs` are cited), and by Start's save because its copy is sound.

**One call at a time.** With calls one after another the state between two of
them is only the store, so the whole argument is about copies. `SerialInv` says
that the copy a request or Start holds is the stored document, with exactly
what that call has added so far and not saved; a save therefore takes nothing
back that another call stored. `ReferenceStored` and `LinkStored` are parts of the
invariant: the second also needs that Start's copy of an account it has visited
is linked. `NoCreateWhileRemembered` is the
dedupe check on a copy that is current: on the way to `CreateMessage` the stored
document has no mark of the message. Nothing here holds of calls that overlap;
section 5 has the counterexamples.

**PruneLoop.** `PruneInv` describes the map between two iterations: while
expired keys go, it is the input restricted to the fresh keys and those `range`
has not reached; while the oldest go, it is the input restricted to the keys
left, none of which is older than a key that went, and the sorted copy begins
with them. The only assumption is that the keys are finitely many. The
other modules use `Pruned`, not the loop; this is what lets them.

**TokenCache.** `MutexInv` ties the holder of an entry's mutex to the one
caller in the middle of a call, so nobody else changes the entry while a
request is under way: a caller that found no usable token finds none until it
stores its own (`NoNeedlessRequest`; time only makes tokens unusable).
`LifetimeInv` bounds an answer's age by the time-out, so with `SafeGrants` the
skewed expiry is no later than the real one. `LifetimeInv` needs `SafeGrants`
and is a theorem under it, from which `ReturnedValid` follows.

**KeyCache.** `SetInv` says of a set on its way that each of its keys is
published or was withdrawn after the set was read; `CacheInv` turns that, at
`Install`, into a bound on how long after its withdrawal a key can be taken for
fresh. `SteadyInv` says that a set fetched during a lookup has every key that
was published throughout.

**Validation.** Every step but `Retry` is a step of the token cache, or none;
`Retry` sends a caller back to the mutex with empty hands, and `TokenInv`
survives that too. A valid verdict then rests on a token of the caller's own
credential. `RefusedInv` says that a rejection, on its way or in a caller's
hands, is of a credential the platform does not accept or comes from a failure that
was answered with a 401, a 403 or a rejecting code (`Misread`): the classifiers take
nothing else for a refusal. Nothing is assumed of the failures. Accepted credentials are only
ever revoked in the model, so a rejection does not age. `FaultInv` counts: an
attempt after the first was paid for by a failure of the caller's own request, and
an error that is worth another attempt has cost one more. `PlainRefusals` is the
hypothesis that a refusal is not classified as retryable, as none is by
`ClassOf` for the answers of the runs. `ProvenInv` remembers, as long as nothing is
revoked, that a validation's credential was accepted at its start exactly if it is
registered, whichever call of the cache its token came from.

**Webhook.** Each of its steps is a step of `KeyCache` or leaves it alone, so
`KeySpec` and with it `KeyInv` and `TrustExpires` hold. `WebhookInv` ties a
request's lookup to its post: it looks up, exactly while it verifies, the key
of the token that it checked, at most two time-outs ago; a key it has found
is still trusted. From there `HandledInTime` adds up the two delays, and
`HonestServed` follows from `NoFalseReject` and from the two widened ends of
the window being those that clocks within the skew need.

**Accounts.** `RequestsReachTheirAccount` needs that no account of the host
goes by the key of another: the first candidate that matches is then the one
that was meant. It fails for one app registered twice, once with a UUID and once
without: both have the client id as `account_id` once validated, and the
first of them answers for both.

**RoundTrip.** `AccountsInv` says that whatever `ValidateCredential` returned and
whatever document replaced `State`, an account has the UUID and the client id it
was registered with and knows no ids but its own (`Own`). `PostsInv` says that a
post on its way is what was said, by a person or by the bot it goes to, and
`HeardInv` that the account named in a message is still the key of the account
it was for, since neither kind of replacement changes a key. `NoReplyLoop`
follows: when the bot's post is delivered, its client id is known whatever else
was lost, and with it both forms of its id (`OwnPostsAreEchoes`). No hypothesis
about the accounts is needed.
`DistinctAccounts` (a UUID is given once, accounts of one app all have one) makes
the account of a key the only one that matches it, so an answer
reaches it and no other; without it `AnswersFromReceiver` fails for one app
registered twice without UUID.
`TagsMatch` is proved of `SendText` for any mentions whatever: the first complete
mention of each id becomes an entity, and its tag was in the text or goes before
it. `MentionsArrive` rests on `BotIDsAreOwn`: when a person's post is delivered,
`teamsBotIDs` yields the two forms of the account's own id and nothing else, in
whatever state the account is, so the entities taken for mentions of the bot are
those of its id, and the tags deleted are those of its name. Whether a tag is of
its name is then a question about names, and `PlainNames` answers it.

**Cards.** `UsersHeard` and `CardsRead` also speak of posts in which nothing is said
and a card speaks, so the proof has to say what is found in a JSON value of any
size. `CardTextProofs` takes a set of values that has what is inside each of its
members (`Json`), and calls a string reached from a value in `d` steps when a path
of `d` steps, each to something directly inside, leads to it; a string stands for
itself, so one reached earlier stays. `LevelMembers` says that the level `d` of a value
holds what is reached in `d` steps, and `TextsWithinReachAreRead` follows. On the
other side `BlockNests` unfolds a card: its texts lie within objects and arrays,
two more for each key of their path, so exactly those with
`3 + 2 * Len(path) <= MaxTextDepth` are reached from its content (`CardStrings`),
which is what `Readable` expects. An attachment without any goes by its name
(`AttachmentIsRead`), and `joinUniqueText` drops repetitions alone. Cards of any
length with paths of any length and any depth limit are covered; the runs have
eight levels and paths of up to three keys.

Each of these steps is an induction on a number (a depth, a length). The provers
cannot use the library's induction theorems, which take a predicate as a
parameter, but they can use a set: `AllUpTo` says that a set that has 0 and with
each number below `n` the next one has all of `0..n`, and rests on the
well-foundedness of `<` (`LeastExists`). A recursive function is a `CHOOSE`, so
that one exists is proved first, in the same way (`LevelsExist`, `JoinsExist`,
`NestsExist`). `FlattenSeq` of the community modules is treated likewise.

The proofs speak of what is left of a sequence by the positions kept (`Picked`,
`Filter`), as the provers know nothing of `SelectSeq`; `MCRoundTrip` has TLC
compare the two on all sequences of up to 4 names. It also compares `Fragments`,
which opens a value level by level, with `appendStructuredText` written as in the
code (`StructuredText`, a recursion into one value after the other), on small
values within up to `MaxTextDepth + 1` arrays.

The hypotheses some theorems have beside the assumptions on the constants
(`SafeGrants`, `PlainRefusals`, `DistinctAccounts`, `PlainNames`) are
asserted of the instances of `validation` and `round_trip`, in `MCValidation` and
`MCRoundTrip`.

**Only model-checked.** All liveness (`EventuallyAcked`, `RefinesInboxFairly`,
`EventuallyReturns`, `EventuallyVerdict`, `EveryPostAnswered`): it needs fairness
and `ENABLED`, which are out of the provers' reach. Every other property of
the passing runs is a theorem.

## 7. Not modelled

* Tenant and stream health in the account's document: no decision reads them.
  A host without an account store (`nil`): nothing is kept then.
* A stored document that does not decode. `LoadAccount` ignores the error
  (`connector.go:820`) and goes on with what could be read, at worst an empty
  document, which the next save makes permanent. What the connector saves does
  decode; what else may write the host's store is outside this repository.
* `pruneTimestampMap` of `sent_beak_messages` and `stream_cursors`: nothing
  writes those maps.
* A write that a dead process sent and that takes effect much later.
* Which JWKs are usable, and overflow of `expires_in`.
* Which of the checks that need neither time nor key a forged token fails, RSA,
  and the JSON of a body: one attribute each.
* The display names and chat identity of an inbound message, and the message it
  refers to: they are copied, nothing reads them.
* How names are escaped and ids compared without case; the model's names and ids
  are such that what differs, differs in this comparison.
* The payload's `textFormat` and the path of the URL `SendText` posts to.
* One app registered twice, with and without UUID (section 6).
* The gateway's own use of `DedupeKey`; whether Teams uses one message id in
  two chats (the key has none, so they would be taken for one message).
* `sdk/` (declarations), `plugin.go` (static data), `conformance/` and
  `examples/` (test and demonstration hosts).

## 8. Plan

What is left, in this order:

1. A theorem that the webhook's and the token cache's bounds are met together: an
   activity handled in time is answered with a token that is still valid.
2. A refinement of `RoundTrip` by `Connector`: `Deliver` and `Answer` as what a request
   and a `Send` of `Connector` amount to when none of their calls fails.
