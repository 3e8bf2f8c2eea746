# A verification of PingMe in TLA+

PingMe is an instant-messaging server in Go: gin HTTP handlers and a WebSocket
gateway in front of GORM/MySQL, Redis for presence and Kafka for asynchronous
persistence.  This directory models the parts of it whose correctness depends
on the order in which goroutines, processes and brokers take their steps, checks
them with TLC and proves the main results with TLAPS.  Paths below are relative
to the repository (`src/`).

Contents: [inventory](#1-inventory), [plan](#2-plan), [modules](#3-modules),
[runs](#4-runs-and-what-they-show), [proofs](#5-proofs),
[what is not modelled](#6-what-is-not-modelled).

## 1. Inventory

| Component | State | Operations | Talks to |
|---|---|---|---|
| REST send path: `handler/message`, `MessageService.SendMessage`, `GroupService.SendGroupMessage` | a request's local state; nothing is kept | validate, look up or create the conversation, produce to Kafka or write the row, answer, start a group broadcast | Kafka producer, message repository, hub |
| Kafka producer `pkg/kafka/producer.go` | `closed` flag, sarama producer | `SendMessage`, `Close` | broker |
| Kafka consumer `pkg/kafka/consumer.go` | session, claim position, `retryCount`, marked offsets, DLQ producer | `Start`, `Stop`, `ConsumeClaim`, `sendToDLQ`, `HandleMessage` | broker, repository, hub |
| Server process `cmd/server/main.go` | which clients exist, shutdown phase | start, serve, signal, close in order, exit | all of the above |
| WebSocket hub `gateway/gateway.go` | `Connections`, `UserConns`, per connection `UserID`, `Send`, socket, two goroutines | register, unregister, authenticate, read, write, push, heartbeat check, shut down | Redis presence, message service, clients |
| Presence `pkg/redis/redis.go` and the hub's cleanup task | Redis key per user with TTL, 5 s local cache | `SetUserOnline`, `SetUserOffline`, `GetUserPresence`, `RefreshUserTTL`, cleanup | hub, group service |
| Receipts: `ProcessACK`, `MarkAsRead`, `SyncACKs`, `CleanupOldACKs` and their repository functions | `message_acks`, `messages.status`, `user_cursors` | acknowledge, mark read, count unread, synchronise, clean up | hub frames, REST |
| Offline pull and history | cursors of client and server | `PullOfflineMessages`, `PullOfflineMessagesV2`, `GetHistory`, `sendOfflineMessages` | repository |
| Conversations and groups | `conversations`, `conversation_members` | get or create a private conversation, create, join, leave, list | repository |
| Users and authentication: `UserService`, `pkg/jwt`, `pkg/password`, middleware | `users` | register, log in, profile, check a token | repository |
| Rate limiter (`gateway.RateLimiter`) | token bucket of a connection | `Allow` | ReadPump |
| Deduplication and cursors `gateway/dedupe.go` | seen message ids with times, cursor map | `IsDuplicate`, cleanup, cursor get/set | not called by the server |
| Circuit breaker `circuit/` | state, counters, fallback cache | `Execute`, state changes, fallback | not called by the server |
| Resource manager `resource/`, alert manager `alert/` | pools and statistics; rules and alert history | acquire, release, stop; evaluate, stop | not called by the server |
| Configuration, logging, metrics, error codes, responses, database connection | settings | read once, write out | everything |

How they interact.  A send call looks up the conversation and hands a record to
Kafka; when the producer is missing or fails it writes the row itself.  A
consumer of the group reads the partition of the conversation, writes the row
unless it exists, and pushes to the recipient's local connections through
`Hub.SendToUser`; failures are retried with a delay and finally given to
`sendToDLQ`.  Group messages are also broadcast by a goroutine of the sender.
A WebSocket client authenticates by a frame, pulls its offline messages, sends
acknowledgements that update three tables, and is shown as online in Redis.

What makes each part correct, and what is hard about it:

* **Pipeline** - a push only of stored messages and only once, although a
  record may be repeated by the producer, redelivered, handled by two members at
  once and also written by the fallback; offsets committed only past records
  that were dealt with; order within a conversation; a sender told "success" only
  for a durable message; a record that can never be written does not block the
  partition.  Hard: ambiguous producer errors and the producer's own retries,
  crashes between insert, push and commit, shutdown inside a retry delay,
  rebalances.
* **Hub** - the two maps agree; a channel is closed once and nobody sends on
  a closed one; a slow client holds up neither `Run` nor a push; a timed out
  connection goes away.  Hard: five kinds of goroutines share a channel that
  one of them closes, and `UserID` and the inner maps are used without a lock.
* **Receipts** - one receipt per (message, user, type); status never goes from
  read back to delivered; the read cursor never moves back; a synchronisation
  returns what the client missed.  Hard: every one is check-then-act without a
  transaction or a unique index.
* **Presence** - a user with an open connection is shown online, one without
  is shown offline after the TTL.  Hard: asynchronous set/delete reordered, two
  connections of a user, several instances sharing one key, a stale cache.
* **Pull and history** - following the returned cursor visits every message.
  Hard: per-conversation limits, late-stored messages with an older timestamp.
* **Circuit breaker** - open for the timeout, a bounded number of trial calls.
* **Groups** - a user is in a group at most once; a private conversation exists
  once per pair.  Hard: check-then-create by concurrent requests.

`PROJECT.json` lists each hazard with the line where it bites and the
properties that cover it, or why none does.

## 2. Plan

One module per component, in the order of what the system's users depend on
most; all seven are written, checked and proved about.

1. `MessagePipeline` with its abstract specification `DeliveryContract`:
   everything between a send call and the stored, pushed, committed message.
2. `Hub`: connections, goroutines and channels.
3. `Receipts` with its abstract specification `ReceiptBook`: overlapping
   `ProcessACK`, `MarkAsRead`, `SyncACKs` and cleanup calls, one action per
   database access.
4. `Presence`: the Redis calls of `Run`, key expiry, refresh task, local cache.
5. `OfflinePull`: history pages, the pull by cursor and the WebSocket pull while
   messages are stored late.
6. `Groups` with its abstract specification `Roster`: overlapping join, leave,
   send and read requests, the broadcast of a message, the creation of a private
   conversation.
7. `CircuitBreaker`: every load and store of `Execute` and `Reset`.

`XMC` gives `X` its symmetry (and, for the pulls, function-valued constants) for
TLC, `XProofs` holds its theorems; the breaker needs no `MC` module.  The
components meet where one's history is another's input: the pipeline decides
*that* a group broadcast runs and `Groups` *whom* it reaches, the hub *when* a
connection joins the maps and `Presence` what Redis is told of it, the pipeline
in which order rows appear and `OfflinePull` what a reader makes of that.  Each
module leaves the other's part a free choice, so that it holds for any
behaviour of its neighbour.

Left to do: abstract specifications of the hub (a switchboard) and of the pulls (a
feed), and the refinements to them; a hub that carries the frames of `Receipts`
and `OfflinePull` instead of a free choice "answers or not".

## 3. Modules

### MessagePipeline

One partition of the message topic, a set of server instances with a consumer
each, and one handler goroutine per message.

| Variables | Code |
|---|---|
| `log`, `committed`, `owner`, `dlq` | the partition, the group's committed offset, the coordinator's assignment, the DLQ topic |
| `rows`, `consumed`, `dropped`, `pushed` | number of rows with the message's `msg_id` and who wrote it; records `sendToDLQ` gave up; the `SendToUser` calls of `HandleMessage` |
| `phase`, `producer`, `consumer` | `main`'s progress and its `kafkaProducer`, `kafkaConsumer` |
| `cpc`, `pos`, `mark`, `retry` | where `ConsumeClaim` stands, its record, the marked offset, `retryCount` |
| `spc`, `at`, `requests`, `bcast` | where a `SendMessage`/`SendGroupMessage` call stands, its server, how often the producer asked the broker to append its record, its broadcast goroutine |

Actions follow the calls that can be interleaved: `CheckProducer`, `Produce`,
`ProduceReturns`, `CreateDirect`, `Respond`, `BroadcastGroupMessage` for a send
call, `AppendRecord` for the broker that carries out its requests; `Assign`,
`Fetch`, `CheckExisting`, `CreateFromRecord`, `Deliver`, `RetryAfterDelay`,
`SendToDLQ`, `AutoCommit`, `EndSession` for a consumer; `Start`, `Crash`,
`Shutdown`, `CloseProducer`, `Exit` for a process.  Each database or broker
call may fail; an insert or a produce may also take effect and report an error.
`consumed`, `dropped` and `pushed` are records of what happened that no guard
reads.

`NewProducer` waits for all replicas, allows three retries (`MaxResends`) and does
not make the producer idempotent.  A request whose answer is an error or is lost
is therefore made again, and the broker may carry out both: the same record
comes to stand in the log twice, the second time behind records of later
messages, or after `SendMessage` has returned.  `Produce` makes a request and
`AppendRecord` carries one out, so that the log may be `m1, m2, m1`.

Abstractions.  All messages share a partition, because the key of a record is
its conversation; two conversations do not interact.  Payloads are left out, so
a record always parses (every record is written by `Producer.SendMessage`).
The delay of `CalculateDelay` is a step that may happen at any time.  sarama's
group protocol is `owner`: a member whose session is current or that was
evicted and does not know it yet; only the current one can commit.  At least
one attempt is assumed (`MaxAttempts # 0`), as `GetRetryMaxAttempts` turns zero
and less into three.

### DeliveryContract

The abstract specification: a queue, which may hold a message more than once, that
is settled from its head, rows written
by the queue or by the handler, an acknowledged prefix that is settled, answers
only for messages that cannot vanish, deliveries only of rows written from the
queue and once.  `MessagePipeline!Contract` instantiates it: `queue` is `log`,
`store` is computed from `rows` and `consumed`, `buried` is `dlq` and `dropped`,
`acked` is `committed`, `answered` are the calls that returned success,
`delivered` is `pushed`.

### Hub

`Run`, the two pumps of each connection, pushers and the heartbeat checker.

| Variables | Code |
|---|---|
| `run`, `conn` | the `select` of `Run` and the connection its case handles |
| `connections`, `keys`, `index` | `Hub.Connections`; the outer keys of `Hub.UserConns` and its entries |
| `uid`, `send`, `queued`, `socket` | `Connection.UserID`, its `Send` channel (open or closed, and its length) and socket |
| `reader`, `writer` | where `ReadPump` and `WritePump` stand |
| `pushUser`, `pushTodo` | a running `SendToUser` and the connections its `range` may still reach |
| `timedOut` | the copy `checkHeartbeatTimeout` works through |
| `panic` | the cause that ended the process: `Next` requires that there is none |

A send on a closed channel, a second close, a write to a nil map and concurrent
use of a map end the process, since no goroutine of the gateway recovers; the
model records the cause and the connection instead of forbidding the step.  The
register case of `Run` is two actions because `handleAuth` writes `UserID` in
between, without the lock; `Unlocked` keeps the map readers out of that gap.  A
`range` over a map that `Run` changes may see the change, miss it or abort.

Abstractions.  Frames are reduced to "a handler that answers" and "a valid
authentication"; the number of answers of `sendOfflineMessages` is at most one
here.  A handler that does not answer changes nothing the model keeps.
Connection ids do not collide, the Redis calls belong to the presence module,
and frames the peer sent before the socket closed are not read after it.

### Receipts

The receipts and cursors of one conversation, and the clients of its members.

| Variables | Code |
|---|---|
| `acks`, `nextId` | table `message_acks` with its primary key; no unique index |
| `cursors` | table `user_cursors`, a sequence by primary key; no unique index |
| `stored`, `status` | rows of `messages` and their `status` |
| `pc`, `req`, `ts`, `row` | a request that is served: its next database access, its parameters, its `serverTS`, what its last look-up found |
| `seen` | history: was the request's receipt in the table ever since it began? |
| `known`, `last`, `unsynced` | receipts a client was answered for, its `last_ack_ts` and `last_ack_msg_id`, what its last synchronisation missed |
| `begun`, `cleaned` | history: receipts a client asked for, receipts a cleanup removed |

`ProcessACK` goes through `CheckDuplicate`, `LookupACK`, `TouchACK` or
`CreateACK`, `UpdateMessageStatus` and, for a read receipt, `LookupCursor` and
`MoveCursor` or `CreateCursor`, to `Answer`; `MarkAsRead` starts at the cursor
and ends with the status.  The two callers differ in what a failed cursor
means (`CursorFailed`), as in the code.  Each access may fail, a write may take
effect and report an error, a request may end in the middle (`Crash`), and an
answer may be lost.  GORM's `First` and `FirstOrCreate` order by primary key,
`GetConversationUnreadCounts` keeps the last row it reads: with duplicates they
see different cursors (`FirstCursor`, `LastCursor`).

Abstractions.  The membership and existence checks are a guard, since a request
that fails them changes nothing.  A cursor keeps the message and not its
timestamp, which the message determines.  The cleanup removes receipts created
days ago: no request that still runs had begun by then.  The users modelled are
recipients; messages they sent themselves never count as unread for them.

### ReceiptBook

The abstract specification of the receipts, for clients that wait for their
answers and acknowledge in order: a book in which nothing is struck out, clients
that are told only what is in it, positions that move on, and a status that
follows both, forwards when one member alone decides it.  `Receipts!Book`
instantiates it: `book` is the receipts in `acks` and those `cleaned` up, `told`
is `known`, `position` is the time of the cursor `GetConversationUnreadCounts`
reads (`LastReadTS`), `stored` and `status` are themselves.  Calls, rows and
the half-done work of a crashed request have no counterpart.

### Presence

One user's key in Redis, as several instances write, extend and read it.

| Variables | Code |
|---|---|
| `up`, `conns` | running processes; how many connections of the user `Hub.UserConns` of each has |
| `ttl` | what is left of the key `pingme:presence:<id>`, 0 without one |
| `cached`, `fresh` | instances whose `localCache` has an entry, and the time to its expiry |
| `calls` | the goroutines in which `Run` calls `SetUserOnline` and `SetUserOffline` |
| `due`, `task` | the ticker of `StartCleanupTask`, and where `RefreshLocalUsersTTL` stands for the user |
| `reader` | a `GetUserPresence` between its read and its entry in the cache |
| `slow` | tasks and readers that began before the last tick |
| `gone`, `kept`, `missed` | history: how long there has been no connection; instances that hold the key for a connection; whose last refresh failed |
| `events` | counts what `MaxEvents` bounds |

`Register`, `Unregister` and `UnregisterForAuth` are the hub's cases, which start
a goroutine; `SetUserOnline`, `SetUserOffline` and `ClearLocalCache` are what
these do, in any order, and each may fail.  `CleanupTick`, `RefreshUserTTL`
and `ExtendCache` are one pass of the cleanup task, `GetUserPresence` and
`FillCache` a read, `KeyExpires` and `EntryExpires` the ends of the two lives,
`Stop` and `Start` a process.  `IsUserOnline`,
`GetUsersOnline` and `GetOnlineUsers` are the answers an instance can give.

A unit of time is the five seconds of the cache; the key lives six, the ticker
has two.  What happens within a unit happens at any moment of it: a key that is
set in one unit and lives six expires in the sixth after it, at any moment of
that one.  So `ttl` and `fresh` are set to one more than the life and the last of
their units may be cut short (`KeyExpires`, `EntryExpires`).  Rounding this down to
whole units would shorten the lives, and with them the time a user who left is
shown online.  A Redis call is over before the second tick after it began: for
setting and deleting, the code has a deadline of five seconds; for refreshes and
reads this is an assumption, and so is that no two refreshes of an instance in a
row fail.  Without the former no bound could be given at all, without the latter
nothing would keep the key.  Users do not interact.

### OfflinePull

The messages of a user's conversations and the three ways of reading them.

| Variables | Code |
|---|---|
| `rows` | table `messages`, its index the primary key: conversation and `server_ts` |
| `kind` | which of the three readers the behaviour has: they share only the table |
| `over`, `pos`, `seen`, `pager` | a client of `GetHistory` or `PullOfflineMessagesV2`: conversations, cursor, messages it was given, progress |
| `cursor` | the user's `LastMsgTS` in the `CursorManager` |
| `pull`, `from`, `todo`, `batch`, `final` | a `PullOfflineMessages` of a connection: start time, conversations left, messages found, last of the list |
| `sent` | messages put into the channel of a connection |
| `had`, `newest` | history: what was stored when the client began |

`GetHistory` looks up the message of its cursor first and drops the error of that
look-up together with the filter: the page is then the newest.  The queries of the repository (`GetMessagesByConversation`,
`GetMessagesByCursor`, `GetMessagesAfter`) are operators on sets of messages:
the order by `server_ts` and id, and the limit.  `CreateMessage` stores a
message at any time with any `server_ts`, since a consumer stores it later than
it was accepted.  A cursor stands for the message it encodes.  `GetHistory`
returns as `next_cursor` a time, which the request does not understand; the
model's client does what the parameter's description says.  `PullOfflineMessagesV2`
never sets `has_more`; its client goes on until a page is not full.  Over
WebSocket, `UpdateCursor` sets the cursor to the last message of the list, also
when that is older, or was found in another conversation.

### Groups

One group, one private conversation of a pair, and the requests that change or
ask who is a member.

| Variables | Code |
|---|---|
| `group`, `rows` | the group's row of `conversations`; how many rows of `conversation_members` each user has (there is no unique index) |
| `req` | the requests under way: operation, user, next database access |
| `private`, `pairRows`, `tx` | the pair's conversation, how often its member rows were stored, the open transaction that has inserted it |
| `bcast`, `sender`, `todo`, `online`, `pushed`, `dropped` | `broadcastGroupMessage` of a message: where it stands, the members read, `onlineMembers`, the pushes, the users none of whose channels took the message |
| `local` | users with a connection to the instance |
| `left`, `barred`, `stayed`, `twice`, `req[r].late` | history: confirmed leaves, those before a message or a request, members connected since a message was sent, users with overlapping joins |

`JoinGroup` is `BeginJoin`, `FindGroup`, `JoinCheck`, `AddGroupMember`;
`LeaveGroup` is `BeginLeave`, `FindGroup`, `LeaveCheck`, `RemoveGroupMember`; the
handlers that ask for membership are `BeginSend` or `BeginRead`,
`IsGroupMember`, then `SendGroupMessage` or `ReadGroup`.  A request may fail at
every access.  Commits whose error the code ignores may be lost
(`CreateGroup`, `InsertMembersAndCommit`).  The insert of a private conversation
waits for another transaction that has inserted the same id, and fails when
that has committed: this is the unique index on `conversation_id`.

`PushToMember` finds a user's connections and sends to each without waiting; a
channel that is full drops the message, and all of a user's may be full.  What
fills them is `Hub`'s business and a free choice here.

Abstractions.  What a broadcast asks Redis is a free choice (`CheckOnline`).  The
other lists of groups and conversations only read.

### Roster

The abstract specification of a group: a set of members that changes at once and
always holds the owner; a broadcast that is addressed to the members of one
moment, is shown to none but them, and by its end has passed over only those
without a connection, or without room in any, when their turn came; a private
conversation that comes to be once.  `Groups!Roster` instantiates it: `members` are the users with a row,
`audience` those on the broadcast's lists `todo` and `online`, `shown` those it
was `pushed` to, `full` is `dropped`, `pair` is `pairRows`, and `phase` summarises `bcast`.
Duplicate rows, the checks before an insert or a delete, and the question to
Redis have no counterpart.

### CircuitBreaker

| Variables | Code |
|---|---|
| `state`, `failureCount`, `successCount`, `halfOpenCalls` | the atomics of `Breaker` |
| `pc` | the next load, store or swap of each goroutine |
| `health` | of what is called: unknown, or failing or succeeding for good |

`Execute` is `IsOpen`, `TryOpenHalf`, `NeedPermit`, `TakePermit`, `GivePermit`,
`Call` and the steps of `recordFailure`/`open` or `recordSuccess`/`close`; `Reset`
is three stores.  A counter is counted up to its threshold, with which alone it
is compared.  Two things of the code shape the model: `lastStateChange` is
written in milliseconds and read as nanoseconds, so that an open breaker is
always old enough for a trial, and the timeout is not in the model; and the
deferred decrement of `acquireHalfOpenPermit` gives the permit back before the
call is made.  The server does not call the breaker: the model has any number
of goroutines that do.

## 4. Runs and what they show

| Run | Instance | Distinct states | Shows |
|---|---|---|---|
| `pipeline_order` | 2 private messages, 2 servers, 1 retry, 1 disruption or repeated record, DLQ as the code sets it up | 1.6 million | order and commits; the contract |
| `pipeline_retry` | 1 group message, 2 servers, 1 retry, 2 disruptions or a repeated record and one, working DLQ, start-up may fail, fair | 480 thousand | pushed once; under retries, missing clients and the fallback: success means durable; a record gets its attempts and no more; every record is committed past |
| `pipeline_loss` | 1 message, 3 retries, no disruption, DLQ as the code sets it up | violation | a message answered with success is lost |
| `hub_sessions` | 2 connections, 1 user, 1 pusher, channels of 1 | 441 thousand | the maps agree, channels are closed once, own replies are safe |
| `hub_progress` | 2 connections of a preset user, 1 pusher, fair | 110 thousand | a push returns, `Run` serves |
| `hub_auth` | 1 connection that starts unauthenticated | violation | the first authentication meets a closed channel |
| `receipts_concurrent` | 1 user, 1 message, 2 overlapping requests, 1 cleanup, clock to 2 | 2.5 million | rows are bounded, an answered receipt vanishes only by a cleanup |
| `receipts_orderly` | 1 orderly user, 2 messages, 2 calls, failing accesses, 1 crash, synchronisations | 153 thousand | one row per receipt, a repetition adds none, what was read stays read; the book |
| `presence` | 2 instances, 2 connections each, 2 calls under way, 2 events | 1.0 million | a user who left is forgotten after 45 s, a held key lasts |
| `pull` | 2 conversations, pages of 2, 3 times; 5 messages for the pages, 3 and 2 connections for the cursor of the server | 1.2 million | pages miss nothing but the newest, cursors skip only what is explained |
| `groups` | the owner and a user, 2 requests, 1 message | 1.3 million | who is a member, how often, and whom a broadcast reaches |
| `breaker` | 3 goroutines, thresholds of 2, 2 permits, fair | 283 thousand | permits are returned, failure is noticed, recovery is final |

Bounds of the pipeline.  `MaxDisruptions` counts crashes, shutdowns, forced
rebalances and repeated produce requests.  One is enough to have a record handled
by two members, redelivered, or in the log twice; two allow a crash during the
redelivery of a record whose first consumer was shut down within a retry, and a
repeated record that meets a crash, a shutdown or a second member.  Two messages
are the least for an order, and for a repeat behind a later record; two servers
for concurrent handling.  One repeat (`MaxResends`; the code has three) makes the
log `m1, m2, m1`.  With one retry a record has two attempts, so that the loop, its
delay and its end are all reached.  `pipeline_order` and `pipeline_loss` have the
DLQ as the code sets it up; `pipeline_retry` sets `DLQReturnSuccesses` to TRUE, which
the code does not, so that the branch that writes to the DLQ is explored as
well.  The theorems are for every value of these bounds, repeats and disruptions
together.

Bounds of the hub.  Two connections of one user are the least that share an
inner map; a capacity of one makes both "full" and "room" common (the code has
256, which only postpones "full").  `NewUsers` holds the empty user that
`HandleWebSocket` passes and, in two runs, a user preset as in
`gateway_test.go` (`hub_progress` only the latter): without it almost every path
ends in the panic of `hub_auth`.

Bounds of the receipts.  Two overlapping requests are the least that race; users
do not share a row of either table, so one is enough, and the row of one message
is where they meet.  Two messages are needed for an order of acknowledgements.
That orderly users do not disturb each other is proved, not checked
(`OneReceiptHolds`, `ImplementsBookHolds`).
The clock needs two values for a receipt to be renewed, for a cleanup to find
an old one, and for one receipt to be newer than another.

Bounds of presence.  Two instances are the least that share a key behind each
other's back; two calls are enough for an online and an offline call in the
wrong order, two events (registrations, re-registrations, stops; a departure
is none) for two connections of one instance or of two, or for one that is
re-registered or whose instance stops.  The times are those of the code.  The clock of
`gone` stops at 10 units, one past the 9 the property allows, from where on
nothing changes with it.

Bounds of the pulls.  Pages of two are the least for which `GetHistory` can make
progress; five messages fill two pages and begin a third, and three times let
messages be stored before, at and after a cursor.  The pulls through the server's
cursor interleave two connections; three messages are one more than a page.

Bounds of the groups and the breaker.  Two requests are the least that overlap
in a check and an insert; the owner differs from the one other user, and other
users are alike.  Three goroutines are one more than the two permits, and one
more than each threshold.  TLC also agrees with `ImplementsRoster` on this instance;
the run leaves it out, because it takes more than twice as long with it and the
theorem covers it.

Properties.  They are described at their definitions, and are stated as strong
as the code keeps them, which is less than one might wish:

* *Pipeline.*  A message may be stored and never pushed (a crash after the insert
  makes the redelivered record a duplicate), two members may push out of log
  order, and `SettledInOrder` speaks of what consumers did, not of the fallback.
* *Hub.*  The properties except handleAuth's re-registration, which `hub_auth`
  shows to end in a panic.  Behind that panic the WebSocket pulls and the
  presence of authenticated users are reached only by connections that the hub
  was given with their user, as its tests do; `Presence` and `OfflinePull`
  describe what the code does for those, and for the others once the
  re-registration is repaired.
* *Receipts.*  `OneReceipt` and `UnreadNeverGrows` hold for a client that sends
  one request at a time and in order (`InOrder`), and for no other: two
  overlapping requests of one receipt leave two rows, and an older receipt that
  arrives later moves the cursor back.  A request that ends between the insert
  and the cursor is not repaired by its repetition, which is taken for a
  duplicate.  A synchronisation need not return all that a client missed.
* *Presence.*  `GoneIsForgotten` allows 45 seconds, not the key's 30: an online call
  may reach Redis five seconds after the last departure, the key lives 30 from
  then, a read may be under way when it expires, and fills the cache five seconds
  later for five more.  `HeldKeyLasts` does not say that a connected user has a key: the
  end of one connection deletes the key of the other, and the refresh only
  extends what is there.
* *Pulls.*  `HistoryComplete` excepts the newest message, which `GetHistory` cuts
  off its first page and never gives, and needs pages of two: with one message
  per page it returns the cursor it was asked for.  `CursorSkipsExplained` says
  of which kinds the messages are that the one cursor of a user with several
  conversations skips: these do exist.
* *Groups.*  A member who is connected all along may still miss a push, when every
  channel is full: `BroadcastReaches` and the roster say that this is the only way.
  Two overlapping joins of one user leave two rows and two pushes;
  `OncePerMember` is for all others.  A leave that overlaps a join need not be
  final.
* *Breaker.*  Any number of trial calls may run at once, as a permit is given back
  before its call; the liveness properties say that the breaker reacts all the
  same.

Every property of a passing run is also run against a changed definition
(`...Upsert`, `...KeepsMap` and so on, marked "Mutant" in the modules)
that it must refute.

Fairness.  `MessagePipeline!Fairness`: goroutines are scheduled, the
coordinator assigns an orphaned partition, sarama's commit timer fires, and a
stopped server is started again (docker-compose restarts it); requests, crashes
and shutdowns are never forced.  `Hub!Fairness`: goroutines run, a read on a
closed socket fails, and so does a write or the periodic ping; neither frames
nor the arrival of a read error on an open socket are assumed.
`CircuitBreaker!FairSpec`: each goroutine that is inside the breaker takes its
next step, and what it calls returns; that calls keep coming (`CallsKeepComing`)
and that no `Reset` stops midway for ever (`ResetsEnd`) are hypotheses of the two
properties, not fairness.  Checking of deadlock is off where the system may
stop: all messages sent and handled, all pages read, or the process ended.

Two disagreements with the repository's own words have a run and are findings in
`PROJECT.json`: `pipeline_loss` and `hub_auth`.  Two more concern the circuit
breaker and are only described here.  `docs/chaos-testing.md:147` gives a half-open
timeout of 30 seconds, but the time of a state change is stored in milliseconds
and read as nanoseconds, so that no timeout passes; and the number of trial calls
is not limited by `HalfOpenMaxCalls`, as a permit goes back before its call.  The
model has neither a clock nor a limit to violate - it does what the code does -
and the server does not call the breaker.

## 5. Proofs

All for any sets of messages, servers, connections, users, pushers, requests,
instances, conversations and goroutines, and any bounds and thresholds, from the
named assumptions of the modules alone (`ConstantsAssumption`, `HubAssumption`,
`ReceiptsAssumption`, `PresenceAssumption`, `PullAssumption`,
`GroupsAssumption`, `BreakerAssumption`), which say that numbers are numbers
and, of requests and the breaker's goroutines, that they are finitely many.  Of
the presence times they demand what the code's values have to spare:
`PresenceTTL > 2 * RefreshPeriod + 1`.

Each module proves an inductive invariant, `IInv`, one lemma per part and one
step per action, and from it the properties.

`MessagePipelineProofs`:
* `TypeCorrect`, from lemmas with one step per action.
* `Invariance`: `IInv` adds to the properties what makes them inductive: the
  unique index, and that `consumed` messages have a row (`RowInv`); that every
  record before a claim's position is settled (`ClaimInv`); that consumers write and
  bury only what is in the log (`OrderInv`); that a consumer standing at `push` wrote
  the row and has not pushed (`PushInv`); that a call on its way to success has
  made its message durable (`DurableInv`).  The unique index is what `PushInv`
  rests on: two members that handle records of the same message cannot both come
  to `push`.  Nothing is said of how often a message is in the log.
* `CommittedIsSettledHolds`, `SettledInOrderHolds`, `PushedOnceHolds`,
  `AcceptedIsDurableHolds` follow from it.  `SettledInOrder` is about the first
  record of each message: a later one may stand behind records that are not
  settled although its message long is.
* `Refinement`: every step is a step of `DeliveryContract` or leaves its
  variables alone.
* `NothingUndoneHolds`, from the refinement: no step takes back what others rely
  on - records and pushes keep their places, the committed offset never moves
  back, answers and buried records stay, a row keeps its writer.
* `AttemptsAreBoundedHolds`, by `GiveUpInv` (only after all attempts does a record
  go to `sendToDLQ`): per session at most `MaxAttempts + 1` attempts, and a
  record is left only stored or after all of them.  This is the part of
  `RecordsGetCommitted` that is not about fairness: no loop in `ConsumeClaim`
  lasts.

`HubProofs`:
* `TypeCorrect`.
* `Invariance`: `IInv` says, while nobody panicked, in which positions of
  `ReadPump` a connection is registered with an open channel - a panic step then
  can only have one of the admitted causes.
* `ClosedOnceHolds`, `OwnRepliesSafeHolds` follow from it.
* `IndexesAgreeHolds`, by `MapsInv`: where each connection is placed in the two
  maps, for every position of its `ReadPump` and of `Run`, and (`KeysInv`) that the
  map of users has no key without a connection, but for the entry `Run` is about
  to make.  A connection that `handleAuth` is moving between two users is left out
  of the claim, as it is in the property.
* `ChangeOfUserIsTheCause`: in behaviours in which no frame changes a connection's
  user (`NoChangeOfUser`), authentication completes, the maps agree without
  exception, no channel is closed twice and a `ReadPump` meets a closed channel
  only after the shutdown.  So the re-registration in `handleAuth` is the one
  cause of what `hub_auth` finds, and of the exceptions in the theorems above.
  The hypothesis holds of connections that are created with their user, as in
  `gateway_test.go`; the server's are not, as `HandleWebSocket` passes the empty
  user.

`ReceiptsProofs`:
* `TypeCorrect`; that `First` returns a row of the receipt rests on the least
  element of a set of primary keys (`LeastNatural`).
* `Invariance`: `IInv` says which positions of a request imply that its receipt
  was stored, and bounds the rows of a receipt *plus* the requests that found
  none and are about to insert (`ReceiptBound`, `CursorBound`).  The bound on
  the rows alone is not inductive: it does not say who may still insert.
* `RetryAddsNothingHolds`, `AnsweredIsStoredHolds`, `DuplicatesBoundedHolds`
  follow from it.
* `UnreadNeverGrowsHolds`, for orderly clients (`InOrder`), by `OrderInv`: a user's
  requests come one after the other, the one under way is about the latest message
  reported as read, and the user's only cursor is at a message reported as read.
  So the row that is set never moves back.
* `OneReceiptHolds`, for clients that wait for their answers, by `OneRowInv`: a
  request comes to insert only while its receipt has no row, and no other request
  of its user is under way.  Requests of different users overlap at will.
* `ImplementsBookHolds`, for such clients, by `BookInv`: a request is about a stored
  message, a client does not report as delivered what it reported as read, and
  `MarkAsRead` has moved the cursor before it sets the status.  Each access is a
  step of `ReceiptBook` or changes nothing in it.

`PresenceProofs`:
* `TypeCorrect`.
* `Forgotten`, by `GoneInv`: what is left of a call, a task, the key, a read and a
  cache entry, each added to the time the user has been gone, is bounded, along
  the chain in which one can renew the other.  A life of n units counts n + 1, so
  each link of the chain costs the unit it may be late: 1 for the call, then
  `PresenceTTL`, 1 for the read and `CacheTime`.  The chain has no circle: a refresh
  extends only what a connection held when it began, and a cache entry never
  makes a key.
* `KeyLasts`, by `KeptInv`: a held key is not in its last unit, nor will be within
  `Need(i)`, the ticks that can pass until the holder's next refresh that cannot fail
  is through (`ttl > Need(i) + 1`).

`OfflinePullProofs`:
* `TypeCorrect`; lemmas that `server_ts` and id order the messages totally, that
  finite sets of messages have a first and a last one, and what a full and a
  page that is not full leave out.
* `PullGivesAll` and `PullGivesOnce`, by `PullInv`: what was given is not after the
  cursor, and what was stored at the beginning and not given is.
* `HistoryGivesAll`, by `HistoryInv`: what has not been given yet, but for the
  newest message, has a neighbour between itself and the cursor - the message
  the next page cuts off.  That is why a page needs two.  A look-up that fails only
  repeats the newest page.
* `SkipsExplained`, by `TimesInv` (the cursor is the time of a sent message) and
  `SentInv`: whatever is in front of a sent message in its conversation, in both
  orders, was sent, or stands behind a message that explains it.

`GroupsProofs`:
* `TypeCorrect`, by `BoundInv`: a user's rows plus the joins past their check.
* `OwnerIsMember` (`OwnerInv`), `OneRowOnePush` (`JoinInv`, `CastInv`: a row is on
  one of the broadcast's lists or pushed), `LeavingEnds` (`LeftInv`),
  `StayersReached` (`ReachInv`: who stays is on a list, pushed, or found with full
  channels), `PairStoredOnce` (`PairInv`: the open transaction
  is that of the one request that inserts the members).  `FoundInv` says that no
  request begins before the group is there, which `OwnerInv` needs: else the
  owner could join before the members are stored.
* `ImplementsRosterHolds`, by `StageInv` (no rows and no accepted message before the
  group is stored, nobody left to ask about when the pushes begin): each access
  is a step of `Roster` or changes nothing in it, a push into full channels its
  `Overflow`.  A second join of a member, a
  repeated delete and a second push to a user's second row are the stutters.

`CircuitBreakerProofs`:
* `TypeCorrect` and `NoPermitLost` are inductive together: that a permit given
  back was counted is what keeps the counter from going below zero.
* `RecoveryLastsHolds` and `AlarmLastsHolds`: once calls succeed and no goroutine
  still carries a failure, no step takes the breaker away from closed; once calls
  fail and none still carries a success, no step but a `Reset` closes it.

Only model-checked: the liveness properties (`RecordsGetCommitted`,
`PushReturns`, `HubServes`, `DownIsNoticed`, `RecoversWhenHealthy`), as temporal
reasoning under fairness is out of the prover's reach, and the violations.  Of
three of these five the safety half is proved - what is reached does not go away
again (`NothingUndoneHolds` with `AttemptsAreBoundedHolds`, `AlarmLastsHolds`,
`RecoveryLastsHolds`) - and TLC shows that it is reached.

## 6. What is not modelled

* User registration and login, JWT and password hashing, middleware: a call is
  one or two database accesses; the unique index on the user name decides.
* The rate limiter: one method under a mutex, called by one goroutine.
* `Deduplicator`: it is started and stopped, but no message is ever given to it.
* `circuit.Manager` and `FallbackManager` (maps under a mutex), the resource
  manager and the alert manager: not called by the server, and nothing in them
  interleaves beyond a critical section.
* Configuration, logging, metrics, error codes, response formatting, database
  set-up, migrations, the stress-test client: no state that the properties
  tell apart.
* Receipt statistics (`GetACKStats`, `GetLastACK`), lists of conversations and
  groups, which only read, and `GetUnreadCount`, which has no caller.
* `MessageService.deliverMessage` and `Hub.RouteMessage` are not called by the
  running server.
* The REST pull by time, which is a WebSocket pull with an explicit start and
  without the server's cursor.
