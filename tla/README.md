# A TLA+ specification of IMY

IMY is an instant-messaging server written in Go: an HTTP and WebSocket API over
a relational database (`internal/`, `imy.go`), a gateway in front of it
(`cmd/gateway`), a notification hub (`pkg/websocket`) and a block store for
message timelines with its distributed-storage layer (`pkg/storage`). This
directory specifies the parts of it that change shared state, checks them with
TLC on small instances and proves the most important properties with TLAPS for
instances of every size. `PROJECT.json` says, definition by definition, which
lines of the source a definition stands for; paths below are relative to the
repository.

## 1. The system

| Part | Source | State | Operations | Specified in |
|---|---|---|---|---|
| Timeline store | `pkg/storage/timeline.go` | `Store` (SeqID counter, capacity, maps of timelines, checkpoints), block and metadata files | `AddMessage`, `GetMessagesAfterCheckpoint`, `UpdateUserCheckpoint`, loading, `GetConvMessages` | `TimelineStore` |
| Push connections | `internal/svc/service_context.go`, `internal/handler/chat/ws_handler.go` | `byUUID`, `locks`, the connections | `Register`, `Unregister`, `WithConnWrite`, `SendJSON`, `ChatWsHandler`, its ping loop | `WsHub` |
| Notification hub | `pkg/websocket/hub.go`, `client.go`, `internal/handler/wsroutes.go` | `clients`, `userClients`, a channel per client | `Run`, `Broadcast`, `SendToUser`, `ServeWs`, `readPump`, `writePump` | `Hub` |
| Lock manager | `pkg/storage/distributed_lock.go` | table of locks with expiry | `AcquireLock`, `RenewLock`, `ReleaseLock`, cleanup, `WithLock`, `TryWithLock`, `WithAutoRenewLock` | `LockTable`, `LockManager` |
| Transaction coordinator | `pkg/storage/distributed_transaction.go` | table of transactions | begin, prepare, commit, abort, `ExecuteTransaction`, timeout cleanup | `TxnCoordinator` |
| Chat messages | `internal/logic/chat` (send, read, recall, settings) | tables `chat_message`, `chat_conversation_member`, `chat_conversation` | the four handlers and the broadcast goroutine of `SendMessage` | `ChatMessages` |
| Chat membership | `internal/logic/chat` (create, add, remove) | tables `chat_conversation`, `chat_conversation_member` | four handlers | `ChatCalls`, `ChatMembers` |
| Friends, verification | `internal/logic/friend`, `internal/logic/v2` | tables `friend`, `friend_verify`, `verify`, `friend_v2` | request, accept, refuse | `ChatCalls`, `Friends` |
| Accounts and tokens | `internal/logic/auth`, `pkg/jwt` | table `user`, sessions in Redis | register, login, token check | `Accounts` |
| Gateway | `cmd/gateway/main.go` | limiter table | the request handler | `Gateway` |
| API documentation page | `internal/handler/swagroutes.go`, `swagger/index.html`, `swagger/swagger-initializer.js` | embedded files, the page in a browser | open, fetch, initialize | `DocsPage` |
| Global index | `pkg/storage/global_index.go` | four index maps, watchers | add, remove, update, migrate, watch | `GlobalIndex` |
| Cross-store access, migration | `pkg/storage/cross_store_access.go`, `migration_manager.go` | timeline cache, tasks | create, add, read; start, run, cancel | `Migration` |
| Registry, discovery | `pkg/storage/registry.go`, `discovery.go` | store table, watchers, the manager's mirror | register, heartbeat, health check, events | `Registry` |
| Routers | `pkg/storage/router.go` | hash ring, loads | add, remove, route, replicas | `Router` |
| Shard manager | `pkg/storage/shard_manager.go` | running flag, stop channel, loops | start, stop, rebalance | `AutoRebalance` |
| Caches | `pkg/storage/cache_*.go` | cache levels, batch queue | get, set, delete, evict, promote, flush | `CacheManager` |
| Pool, breaker, query cache | `pkg/storage/performance_optimizer.go` | idle connections, failure count | get, release; call, record | not modelled, section 7 |
| Store RPC | `pkg/storage/rpc_client.go`, `rpc_server.go` | connection flag, handler table | connect, call with retries, nine handlers | not modelled, section 7 |
| Handlers, routes, `dao`, `dbgen`, AI, e-mail, file server, utilities, examples | the rest | none of their own | encoding, generated queries, remote calls | not modelled |

How the parts meet: the chat handlers change the database statement by statement
and then call `WsHub.SendJSON` from a goroutine; the transaction coordinator and
the migration manager take locks from the lock manager; migration reads and
writes timelines through the cross-store accessor and moves them in the global
index; the shard manager starts migrations; the gateway reads the identity from the
token, puts it into a header and forwards the request to the API server, also for the
documentation page; the RPC server wraps a timeline store, but nothing starts it.
`pkg/websocket` is a second, separate push path.

What makes it hard: no chat handler opens a transaction, so every row a handler
read may be stale when it writes it back; broadcast goroutines outlive their
request and use its context; `Timeline.AddMessage` releases its lock in the middle
to write a file; blocks reach the disk only when they are full and metadata is
written separately; SeqIDs are drawn outside every lock; the hub is one goroutine
that also sends to its own unbuffered channel; locks expire under their owners;
the mutex of a connection can be deleted while others are about to use it.
`PROJECT.json` lists these hazards one by one with the line where each bites.

## 2. The modules

`MC…` modules give constants a value; `MCChatTables`, `MCStorageIndex` and `MCServices` also
put modules that share no state side by side, so that a behaviour exercises one
of them. Definitions named in a comment
`Mutant:` are deliberate errors: each shows that the property it is paired with
in `PROJECT.json` really depends on the code it changes.

**TimelineStore** — one process whose writers call `Store.AddMessage` while
readers synchronise a user. A step is what happens between two points where
another goroutine can see a difference: `AddMessage` (counter), `GetTimeline` /
`LoadTimeline` / `RaiseAndLoad` (get-or-create under `s.mu`, with the non-atomic
raise of the SeqID counter), `AppendMessage` / `AppendAndFill` (under `tl.mu`),
`SaveBlock` with `tl.mu` released, the two halves of the capacity update,
`Relock`, `SaveMetadata`. Files are `blockFile` and `metaFile`. `Crash` empties the
memory; with `TornWrites` the write in progress may leave a file that does not
decode. `Fault` actions make a write return an error. Left out: `NextBlock`,
`Offset` and `StoreIndex`, which the program writes and never reads, and
`GetConvMessages`, a read.

**MessageLog, TimelineLog** — what the timelines promise (append-only logs that
lose messages only in the step that restarts the store), and the refinement mapping:
the log is what a reader would find, in memory or by loading the files.

**WsHub** — `SendJSON` reads the set of connections under `h.mu` and ranges over
that map object after unlocking (`setNo` tells map objects apart);
`WithConnWrite` looks up or creates the mutex and locks it; the cleanup of a broken
connection runs inside `fn`. The Go runtime may stop the program when a map is
written during the range: `ConcurrentMapWrite`. `CancelOnClose` says whether the
request context ends with the connection; section 5 explains the two values.

**Hub** — `Run` receives from one of four unbuffered channels at a time. A delivery
is a loop over `todo`; finding a full channel, `Run` sends to its own `unregister`
(`blocked`). Clients have a read pump and a write pump that joins queued messages in
one frame.

**LockTable, LockManager, TxnCoordinator** — `LockTable` holds the operations on the
table, shared by the two others. Time is a counter; expiry is compared with it as
the code does. `LockManager` adds the three kinds of callers and the renewing
goroutine; `TxnCoordinator` the two-phase protocol over participants whose handlers
may be missing or fail, and the cleanup goroutine with the mutexes `c.mu` and
`txn.mu`.

**ChatMessages** — the rows of one conversation (all queries filter on it). One step
per SQL statement; the row a call has read is kept with the call and may be stale.
Statements may fail, the context of a request ends at any point after its
handler returned, the server may stop, members may be added (`AddMembers`, the repair of
a private conversation) and removed. Two steps join
statements whose order nobody can observe; the comments beside them say why.

**ChatCalls, ChatMembers, Friends** — `ChatCalls` declares what the two others share: the
users, the calls in progress and the bounds. One step per SQL statement, as in
`ChatMessages`, with statements that fail and restarts. `ChatMembers` has the
conversations with their member rows (deleted rows keep the unique key) and the four
handlers; `Friends` the requests and friendships of both versions of the API.

**GlobalIndex, Migration** — `GlobalIndex` has the block list, the map of stores, the
store index, the load table and one watcher with its bounded channel; each operation
is one step under the mutex of the index. The maps of a store exist only once they were
made, so that an update that names a store the index does not know can end in the panic
of the code. `GetRebalanceRecommendations` of the shard manager is there too, because it
writes sizes into the load table through the pointers it was given. `Migration` extends it by the timeline of a
local store, the accessor with its two caches, the lock of the timeline, which one
task at a time holds and which may expire, and the tasks: `StartMigration`, the goroutine
of `executeMigration` in its steps (running, lock, source, target, one message at a
time with the context checked before each, index, deletion, outcome) and
`CancelMigration`. Remote stores answer with the error of the stubs in
`cross_store_access.go`.

**Registry** — the table, the client with its heartbeat goroutine and `UpdateMetadata`,
which registers without a heartbeat, the health check, and
the `StoreManager`, which loads the table and then follows a bounded event channel.
A store is fresh or stale by the age of its last heartbeat.

**Router** — the ring as the code has it: a sorted sequence of points, with repetitions,
and a map from points to stores. `GetNodes` walks one point per step, so that a walk
that does not end can be seen.

**AutoRebalance** — the loops started by `StartAutoRebalance`; a loop reads the field
with the stop channel at each turn, without a lock.

**CacheManager** — the LRU levels as sequences of entries with sizes, where an entry holds
the bytes `processValue` makes of a value, JSON or compressed JSON; two concurrent
`Get`s whose lookups and promotion are separate steps, `Set` under the three
write policies, `Delete`, `Clear`, expiry and the batch worker.

**Gateway, DocsPage** — the gateway handler from preflight to forwarding, with
token buckets that are refilled by an external step; `DocsPage` extends it by a
browser that loads the page through it: the files of `index.html` in the order it names
them, the initializer on the load event, and the specification it fetches. Each file is
answered by `addSwagger` according to the file type its route gives it and to what the build
has embedded (a panic if it is missing, or if `openapi.json` does not parse), unless the
limiter refuses it or the proxy finds no upstream. In what order the answers come does not
matter, since the load event waits for all of them.

**Accounts** — registration, login and token check, a step per query of MySQL or Redis.

## 3. What TLC checks

All runs take less than five minutes with two workers.

| Run | States | Instance | Shows |
|---|---|---|---|
| `timeline_sync` | 155 520 | 2 writers, 3 calls, blocks of 2, 1 reader with 2 synchronisations, 1 restart | an acknowledged message is in each of its timelines exactly once and indexed, logs only grow, a reader of an ordered timeline misses nothing |
| `timeline_returns` | 34 535 | 2 writers, 2 calls, 1 reader with 2 synchronisations, 1 restart, 1 failing write, fair | `AddMessage` returns |
| `timeline_restart` | 122 060 | 2 writers, 5 calls, 1 restart with torn files, 1 failing write, a store that can be full | a block being saved has one writer and does not change, what was saved is found again, `TimelineStore` implements `MessageLog` |
| `timeline_sync_race` | | 2 writers, 2 calls, 1 reader | **violated**: a reader can pass over a message for good |
| `wshub` | 812 046 | 2 connections of one user, 1 sender with 2 calls | exclusive writes, delivery to all connections that stay |
| `wshub_handler` | | 1 connection, 2 senders, fair | **violated**: the handler of a closed connection never returns |
| `hub_delivery` | 152 632 | 2 clients, channels of 1, 3 messages, fair | no closed channel is used, order and completeness for a live client; unless `Run` has stopped, a client that left is removed |
| `txn_coordinator` | 127 076 | 2 transactions sharing a key, a store without a handler, timeout 2, clock to 5, fair | committed means applied, a transaction has its keys exactly as long as it runs if nobody is late, every call returns |
| `chat_messages` | 1 011 444 | 2 concurrent calls out of 3, 2 users, 1 of them a member at first, 1 client id, 1 addition, 1 removal | repeated sends agree, every listed member is told once, read positions go back only by a race of readers, unread counts exact at rest for members that were counted |
| `chat_tables` | 323 317 | 3 users, 2 concurrent calls out of 3, 1 failing statement or restart; the member tables and the friend tables each by themselves | one private conversation per pair with both in it unless removed, member counts right unless two calls raced; friendships come from accepted requests and the other way round in the first version of the API, from answered ones in the second, and rows are doubled only by a race |
| `storage_index` | 608 396 | 2 timelines, 2 stores, 2 block ids, 3 changes, a watcher with a channel of 1; 2 migrations of one timeline, of which one is interrupted and one loses its lock, 2 messages, 1 creation; 3 lock callers of one key, TTL 2, clock to 6; each by itself | the views of the index agree and loads are true, a watcher that applies the events has the list of blocks; a task's outcome is what its status says and lasts, cancellation is honoured; locks exclude, only the owner ends a lock, auto-renewal keeps it |
| `services` | 939 785 | services, each by itself, see below | the properties of the next paragraph |

`services` checks, side by side, services that share no state. The registry and
the manager's mirror of it say what is so (`RegistryAgrees`). Routing finds a healthy
store, and a walk for replicas finds each store once (`RoutesToHealthy`,
`ReplicaWalk`). A stop reaches every rebalancing loop (`StopReachesEveryLoop`). A cache
hit is what was made of the latest value (`HitIsLatest`). The gateway forwards the identity of the
token, answers, and keeps to the rate across concurrent requests
(`RequestsServedRight`); the documentation page behind it comes up unless the limiter or
an absent upstream cost it a file, or the build lacks one (`BrokenHasCause`). A session holds the newest token
(`SessionIsNewest`). The exceptions in these properties are those of section 6.

Why these bounds: blocks of two messages are the smallest where a block can be
partly filled; the restart run needs five calls so that a saved block can
lie behind one that was lost. One client channel slot makes a channel full at once. Three lock callers
allow owner, successor and late owner. In the chat run two calls overlap and the
third comes before or after them, which lets a client repeat a message around
another user's read. Three stores with two points each let a ring have neighbours of the
same store, and stores fewer or more than the two replicas; the caches hold two units
and values of size one and two, so that two keys fit or one evicts the other, and three writes
and expiries let a key become stale and be written again; the
bucket of one user starts with one token, so that the second of two requests at once is
refused, and the address of the page, whose load takes nine requests, starts with eight and
may be given one more, so that another request or its absence decides. Two migrations of a timeline
overlap and wait for each other's lock; a watcher channel of one is full
after one event. `CHECK_DEADLOCK FALSE` is set everywhere because calls are
bounded and a server without requests rests; waiting for ever is caught by the
liveness properties.

Symmetry is used for the writers of `timeline_sync` and `timeline_restart`, the two
connections of `wshub`, the call slots of the chat runs and the tasks of `storage_index`,
which no definition tells apart, and never together with a liveness property: that is
why `timeline_returns` is a run of its own.

## 4. What is proved

TLAPS checks the following for every number of processes, users, keys, connections,
timelines, stores and messages, every block size, channel size, timeout and time to
live. Each proof has one lemma or one step per action. The theorems that name a
property of a run are the general form of what that run shows on its instance; the
others are the type invariants and facts the runs need not repeat.

* **TimelineStoreProofs** `TypeCorrect`, `BlocksStayWellFormed` (no block outgrows its
  size and only the last is open), `SaversOwnTheirBlock`, `LogsOnlyGrow`. Types alone are not inductive:
  indexing `targets[p][pos[p]]` and `blocks[tl][blk[p]]` must be defined. `InCall` adds
  where a goroutine inside a call may be: at one of its timelines, which is loaded from
  the append on, with a block number of that timeline while it saves, and holding
  `s.mu` while it raises the counter. The two facts about blocks are proved together,
  with a bound on what files hold (`FilesBounded`): a loaded list is well formed because
  files are, a saver's block does not change because it is full, and it is full because
  only the writer that filled it saves it. That logs only grow is then a fact about
  each step: an append changes one block at its end, and a load only a timeline that is
  not in memory, which for the load that raised the counter is part of `InCall`.
* **WsHubProofs** `TypeCorrect`, `WritesExclusive`, `MutexesReleased` (a mutex is locked
  exactly while a goroutine is inside `fn` with it), `SendReachesAll`.
  The invariant says that a registered connection has a mutex, that every goroutine that
  has or waits for a mutex of a *registered* connection has that one (`LockInv`), what a
  running `SendJSON` still owes (`SendInv`): a connection it began with and that is still
  registered is still in its map object, and either was written or is being written.
* **ChannelProofs**, three components that hand work over channels.
  The hub: `TypeCorrect`, `UserMapExact`, `ClosedNeverUsed`, `DeliveryInOrder`. A channel is
  closed only for a client that has been served, and nobody is served twice
  (`ServedInv`), so a closed channel never comes back into the maps. For the order,
  `Queue` says that the frame under construction, the channel and the message in
  delivery are together what is owed to the client, and that a pump waiting at its
  select has an empty frame; the steps are then facts about concatenation.
  The rebalancing: `StopReachesLoops`. `RebalanceInv` says that the channels of all
  earlier starts are closed and that a loop waits on the channel of its own start or of
  a later one.
  The registry: `RegistryIsRight`. The mirror of a manager is behind by exactly the
  events in its channel: the last event of a store that registers or removes it tells
  whether it is registered, and where there is none the mirror is right (`MirrorInv`).
* **StorageProofs**, locks and migrations. `LockTypeCorrect`, `LocksExclude`,
  `OwnerEndsLock`, `AutoRenewHolds`: every entry is a copy of the handle of a caller in
  its function, owner ids are unique, and an unexpired handle is in the table
  (`OwnerInv`, `EntryInv`); for `AutoRenewHolds` also, the next tick of the renewing
  goroutine comes before the expiry while no tick was handled late and its context lives.
  `CancelIsHonoured`, `OutcomesAreTrue`: `ValidTask` says of a task at
  each place what it has done (`Outcome`) and what it can still do once its context is over
  (`Honours`). That the target of a completed task stays the primary store depends on all tasks
  (`HomeInv`): as long as no lock has expired under a task, the timeline leaves the local
  store once and for good, and a task about to move it finds it there, because tasks
  exclude each other by the lock (`LockedInv`).
* **ServiceProofs**, services their callers share.
  The transaction coordinator: `TypeCorrect`, `CommitsAreApplied`, `KeysHeldWhileRunning`.
  `Progress` says how far the prepare and commit loops have come, participant by
  participant; `LockInv` that an entry of the lock table belongs to a transaction that
  has the key and, as long as no transaction has overrun its timeout, that each key a
  transaction has is locked for it until then.
  Accounts: `SessionsAreNewest`; a token check goes on with the token it has read.
  Gateway and documentation page: `GatewayServesRight`, `PageBreaksWithCause`. For each
  limiter, the tokens left and the requests let through add up to the burst and what
  time has added (`LimitInv`); `addSwagger` answers with every file the page needs if the
  build has it (`NeededServed`), so a page that lacks one has a cause (`PageInv`).
* **FriendsProofs** `FriendsWereAnswered`, `OnlyRacesDouble`. A call on a request knows the
  pair of that request (`CallOK`); a pair on which no two calls overlapped has at most
  one row and one waiting request, and the call that is about to insert finds none
  (`RaceInv`).
* **ChatMembersProofs** `PrivateIsShared`. A call that repairs a conversation still has in
  its list each of the two users that has no row in it (`RepairOK`), unless the INSERT whose
  error the code drops has failed; a row that is there is live or was deleted.
* **ChatMessagesProofs** `RetryAnsweredAlike`, `ListedMembersNotified`, `CountsExactAtRest`,
  `OnlyRacingReadGoesBack`. The unique key makes the message of a sender and client id one
  (`KeysInv`); a stored message is carried by one call at most, which has sent it to nobody
  it has still to send it to (`CarryInv`); a read that goes on to write moves the mark it
  has seen (`ReadInv`); and `CountInv` says, while one call runs undisturbed, which members'
  counts are exact already and which the call has still to write.

The assumptions are the `ASSUME`s of the modules, and TLC evaluates each of them:
disjoint names (`ProcsAssumption`, `KeysAssumption`, `NamesAssumption`, `TasksAssumption`),
maps over the right sets (`ClientsAssumption`, `OwnersAssumption`, `PagesAssumption`,
`TxnsAssumption`), positive sizes and times, user ids that are positive numbers, a list of
users without repetitions, and limiters that start with at most a burst
(`LimiterAssumption`). The bounds on calls, crashes, messages and time are arbitrary
naturals. Exceptions in the properties that a theorem states are those of section 6.

Only model-checked:

* liveness, which needs fairness: `AddMessageReturns`, `GoneClientLeaves`, `ExecuteReturns`;
* the refinement `ImplementsMessageLog`, which joins blocks into one log, an induction
  over data;
* what follows one message through memory, files and loading: `AckedExactlyOnce` (which
  counts its places), `SyncInOrder`, `SavedSurvives`; the proofs above give them only the
  shape of the blocks, not the history of a message;
* sums and counts over tables and histories: `ViewsAgree` (the loads),
  `CountRightUnlessRaced`; and `WatcherFollows`, which replays a channel;
* sorting, the ring walk and eviction, which work on sequences with the library's
  folds and recursive operators: `RoutesToHealthy`, `ReplicaWalk`, `HitIsLatest`.

## 5. Fairness

Weak fairness on the steps of a goroutine says that the Go scheduler runs what can
run; nothing is assumed of callers, peers, faults, restarts or time, except `Tick` in
`TxnCoordinator`, without which no timeout would be. Strong fairness is used where
a goroutine competes: for a `sync.Mutex`, which serves a starved waiter first
(`LockConn`; the coordinator's mutexes), and for a `select`, which picks at random
among ready cases (`HubStep`, `ContextDone`).

`ChatWsHandler` waits at its end for the ping goroutine, and that one for the
request context. For a hijacked connection `net/http` ends the context only when the
handler returns (`CancelOnClose = FALSE`), so `wshub_handler` finds that neither ever
does. The safety run uses `TRUE`: the context may then end or not, which includes
every behaviour of `FALSE` and also exercises the deferred `Unregister` and `Close`.

## 6. Where code and documentation disagree

* `timeline_sync_race`: `README.md:32` promises all messages after the checkpoint; a
  message whose SeqID was drawn first and appended last falls below it.
* `wshub_handler`: "register and ensure unregister on exit" (`ws_handler.go:59`);
  the handler does not exit.

Further disagreements, which the models contain and the properties except:

* `pkg/storage/timeline_test.go:125` (`TestBlockPersistence`) and `pkg/storage/ARCHITECTURE_GUIDE.md:285` expect a
  partly filled block to be written when the store shuts down; there is no shutdown, and
  the block is lost with the process (`timeline.go:279`). `ImplementsMessageLog` allows a restart to
  lose messages for this reason, and `SavedSurvives` says which ones it keeps.
* "确保两个成员都在会话内" (`create_private_conversation_logic.go:78`: both members are to be in
  the conversation). For a member who was removed the INSERT fails on the unique key of the
  deleted row; the error is dropped, the call succeeds, and `member_count` goes up by one
  although nobody came in: `InUnlessRemoved`.
* v2 `DealVerify` makes the friend row whatever the answer is (`deal_verify_logic.go:42-58`), so
  also for a refusal, with the text "对方已经同意了你的验证" (the other side has agreed);
  `schema/insert.sql:27` has status 3 for a request that failed: `FriendsByAnswer` can ask no more of v2
  than an answer.
* `migration_manager.go:196` says that the messages go to the target and `:226-229` that the source
  is cleaned up. They are added a second time to the store the index still names, which is
  the source, and the target gets none. No property says that messages arrive: none does.
* `USAGE_GUIDE.md:305-321` sets a value and prints what `Get` returns as that value. `Get` returns the
  bytes `processValue` made of it, JSON or compressed JSON, and nothing tells the caller which
  (`cache_manager.go:153`, `:307`): `HitIsLatest` speaks of those bytes.

Behaviour the models contain, and for which the properties make an exception:

* After a restart the SeqID counter starts below numbers already given out to
  timelines not yet loaded (`timeline.go:155`, `:510`), so they are given out twice; no
  property compares SeqIDs across a restart.
* A block file that does not decode hides the blocks behind it (`timeline.go:541`):
  `SavedSurvives`.
* `CurrentCapacity` loses updates (`timeline.go:387`, `:306`); no property relies on it.
* Once unregistered, a connection may have two writers, each with a mutex of its own
  (`service_context.go:73`): `ExclusiveWhileRegistered`.
* `releaseLocks` frees keys by name, also when another transaction has taken them over
  after expiry (`distributed_transaction.go:433`): `KeysWhileRunning` is about
  transactions in time. A failed commit undoes nothing (`:272`). The timeout cleanup
  locks a mutex it holds (`:389`): `ExecuteReturns` excepts it.
* `SendMessage` may skip its broadcast when the request context ends first
  (`send_message_logic.go:110`): `ListedNotifiedOnce` starts at the list.
* `Run` blocks itself at `h.unregister <- client` once a client channel is full
  (`hub.go:119`), and with it every read pump: `GoneClientLeaves` excepts it.
* Two overlapping `ReadMessages` calls can move a read position back
  (`read_messages_logic.go:89`), which `schema/README.md:306` excludes:
  `ReadBackOnlyByRace`.
* A member that `AddMembers` (`add_members_logic.go:76-79`) or the repair of a private
  conversation (`create_private_conversation_logic.go:87`) inserts starts with `UnreadCount` 0 and
  `LastReadMessageID` 0 while there are messages. The count becomes right with the next broadcast or
  read: `UnreadExactAtRest` is about members that had one.
* The renewing of `WithAutoRenewLock` ends with the context of its caller
  (`distributed_lock.go:301`, `:316`), also while the function runs on: `AutoRenewKeepsLock`.
* `UpdateMetadata` registers a store without looking whether its client is registered and starts no
  heartbeat (`discovery.go:94-102`), so it brings a stopped store back: `RegistryAgrees`.
* A soft-deleted member row keeps the unique key, so adding the user again fails, and with
  it the whole batch (`add_members_logic.go:79`).
* After a migration to another store every accessor call fails, because the remote half is a
  stub; the timeline cache is not emptied by it (`cross_store_access.go:106`). A cancelled status is
  overwritten by the outcome (`migration_manager.go:245`).
* `ViewsAgree` excepts timelines with two entries of one block id (`CreateTimeline` twice makes
  them) and timelines with a block that `UpdateIndex` put on another store
  (`global_index.go:255-286` leaves the old store's entry and the store map); the store map of a
  target that had blocks is overwritten (`:323`); and `GetRebalanceRecommendations` writes the
  sizes it expects into the load table (`shard_manager.go:433` through the pointer of
  `global_index.go:356`), where they stay until the next change of the store.
* A store added twice has its points twice on the ring, and its removal leaves orphans
  (`router.go:114`): `RoutesToHealthy`. `GetNodes` goes round for ever with fewer stores than
  replicas (`:162`): `ReplicaWalk`. A score that is not a number is never chosen.
* A rebalancing loop that was busy during `StopAutoRebalance` survives a later start
  beside the new one (`shard_manager.go:534`); the running flag stays set after the
  context has ended: `StopReachesEveryLoop`.
* `WriteAround` leaves an old value in the first level, `WriteBack` one in the second, and a
  write-back executed after a later `Set` or `Delete` of its key brings an old or deleted value back
  (`cache_manager.go:221`): `HitIsLatest` excepts the keys this happened to. Replacing a value
  evicts nothing (`cache_implementations.go:88`).
* The gateway slices 20 bytes of a token for its log before it tests it
  (`cmd/gateway/main.go:165`), so a shorter one ends in a panic: `RequestsServedRight`. The
  limiter table never shrinks.
* `addSwagger` prints an icon as the decimal numbers of its bytes (`swagroutes.go:57`) and
  gives `index.css` no content type (it is registered as HTML); neither keeps the page from
  coming up: `BrokenHasCause`.
* `AuthCheck` writes back the session it read (`auth_check_logic.go:78`), over a newer one:
  `SessionIsNewest`. No key makes e-mails unique: two racing registrations make two accounts.
  An address without `@` ends registration in a panic before the row is made
  (`email_password_register_logic.go:63`).

## 7. Not modelled

* Store RPC. `Connect` holds the write lock of the client (`rpc_client.go:41`) while its
  health check takes the read lock of the same mutex, so the first connection waits for
  ever and no request is sent. The retries and the handlers of `rpc_server.go` have no
  behaviour to check; what the handlers would call is `TimelineStore`. For the same reason
  the remote participants of a transaction are stores whose handler may be missing or fail.
* The pool, breaker and query cache of `performance_optimizer.go`: only the usage example
  creates them, and nothing takes a connection or asks the breaker.
* In the shard manager and the routers: what is recommended or scored, floating-point
  arithmetic over the load table. `Router` has the scores as an order with a value for
  not-a-number; `AutoRebalance` leaves the recommendations open, and `GlobalIndex` has of them the
  comparison of two stores and what they write. `LoadBalancingRouter` and
  `RouterManager` hold a choice from a map and a table of names.
* Of the timeline store: `GetConvMessages`, which reads a page; `NextBlock`, `Offset` and
  `StoreIndex`, which the program writes and never reads.
* Of the cache: hit counters; the contents of what is serialized; the third level and the
  prefetcher, which never find anything.
* Of the second API version of accounts: registration is one insert under a fresh number and
  login stores nothing, so there are no steps to interleave. Cryptography and the contents of
  tokens are opaque.
* Chat readers and the other queries: they change no state.
* HTTP handlers, routes and configuration (encoding), `dao` and `dbgen` (generated; one
  statement is one step of the modules that issue it), AI helpers, e-mail, file server and
  utilities (stateless), examples, and the bundles of Swagger UI (third-party code).
