# TLA+ models of GameServer

This directory holds TLA+ models of the C++ game server under `src/`. Each
module is written from the code: `PROJECT.json` "map" names the lines that each
definition translates. TLC checks the models with the configurations listed
below.

## 1. The system

The server is a Boost.Asio TCP server (`src/server/main.cc`) with these parts:

| Part | Code | State | Operations |
|---|---|---|---|
| Acceptor | `GameServer.cc` | none | `start_accept` builds a `Session` and starts it |
| Session | `Session.cc`, `Session.h` | socket, `buffer_`, `heartnum_`, `timer_`, `write_queue_`, `id_`, `uid_` | `start`, `do_read` callback, `get_message`, `heart_beat` callback, `send` (posts to the strand), `do_write` callback, `close` |
| Wire codec | `SessionManager::buildMsg`, `Session::get_message` | none | BE32 length (msgid + body), BE16 msgid, body; lengths outside [2, 10 MiB] are "abnormal" |
| SessionManager | `SessionManager.cc` | `sessions_` (id → session, under `mtx_`), `online_users_` (uid → session, under `Users_mtx_`) | `add`, `del`, `getSession`, `AddUser`, `RemoveUser`, `getOnlineUser`, `guangbo` |
| MessageDispatcher | `MessageDispatcher.cc` | handler table | `Dispatch` enqueues the handler keyed by session id; handlers for login, chat, room entry, ready, battle action, and DB-only ones (register, backpack, add exp) |
| ThreadPool | `ThreadPool.h`, `ThreadPool.cc` | N sharded queues, each with a mutex and a condition variable; `stop_`; `next_queue_index_` | `enqueue_with_key` (queue `key % N`), `enqueue` (round-robin), `worker_loop`, destructor |
| Room | `Room.cc` | `players_`, `readyState_` under the Room mutex | `addPlayer`, `setReady`, `isAllReady`, `getPlayersSnapshot` (`removePlayer` has no caller) |
| RoomManager | `RoomManager.cc` | `rooms_`, `battles_` under `mtx_` | `getOrCreateRoom`, `getRoom`, `startBattle` (builds and starts a BattleRoom while holding `mtx_`), `getBattleRoom`, `broadcastRoom` |
| BattleRoom | `BattleRoom.cc` | `states_` (uid → hp, mp), `running_`, `timer_` | `start` (loads hp from Redis/MySQL, arms the timer), `applyDelta`, the timer callback (`broadcastSync` then `checkFinish`, re-arm while running), `stop` |
| PlayerDataManager | `PlayerDataManager.cc` | Redis hashes `player:<uid>` (the cache), per-uid mutexes | `getPlayer` (cache-aside read), `updateExepAndLevel` (level-up, hset exp and level, produce Kafka messages), `batchLoadFromRedis`/`batchLoadFromMySQL` (battle start), `syncToMySQL` (called by the consumer) |
| UserDatamodel, Usermodel | `UserDatamodel.cc`, `Usermodel.cc` | MySQL tables `Player`, `User` | `QueryUserData`, `UpdateUserData`, `InsertUserData`; `zhuce` (inserts a `User` row only), `Login` |
| Client | `src/client/client.cc` | `msgid_counter`, `pending_requests` (msgid + 1 → promise), `isLoggedIn`, the socket | the menu loop (`send_request` then `future.get()`), the read loop (`do_read_header`, `do_read_body`, `handle_message`: fulfil the waiter whose msgid matches, else treat the frame as a push) |
| Kafka consumer | `main.cc` | topic `playerdata_update` | a thread polling the topic and calling `syncToMySQL`; its only catch is outside its loop |

**How the parts interact.**
- Four io threads run the `io_context`.
- Each session's completion handlers are bound to its strand, so they run one at a time.
- A decoded frame goes to `Dispatch`. Dispatch enqueues the handler on the pool, keyed by session id, so one session's handlers run in order on one worker.
- Handlers call into SessionManager, RoomManager, Room and BattleRoom, each with its own mutex, and reply through `Session::send`, which posts to the session's strand.
- `Session::close` closes the socket and enqueues an unkeyed cleanup task. The task calls `RemoveUser(uid_)` and then `del(id_)`.
- A BattleRoom's timer callback runs on an io thread and is not bound to any strand.
- `AddExp_handle` and `Backpack_handle` go through PlayerDataManager, which keeps Redis as a write-behind cache: an update writes Redis and produces Kafka messages, and the consumer thread later copies the Redis hash to MySQL. `BattleRoom::start` loads hp through the same cache.

**The hard behaviours.**
- Handlers of different sessions run concurrently on different workers. The calls inside one handler take and release several different locks, so the handler as a whole is not atomic.
- The cleanup task is unkeyed, so it races the session's own queued handlers.
- Reads arrive split at arbitrary points: frames are sticky or partial across reads.
- The heartbeat timer races reads. `close()` can be called more than once.
- The pool's destructor stores `stop_` without holding any queue mutex.
- A battle's timer races the battle-action handlers.
- `guangbo` iterates `online_users_` holding the wrong mutex.
- Redis, Kafka and the consumer thread can each fail on their own; an exception type nobody catches ends the consumer thread.

## 2. Modules

| Module | Models | State ↔ code | Actions ↔ code |
|---|---|---|---|
| `ThreadPool` | the affinity pool | `queues` = `sharded_queues_`, `wpc` = each worker's place in `worker_loop` (`prewait` = predicate evaluated false, lock still held), `stop` = `stop_`, `rr` = `next_queue_index_ % N`, `dpc` = the destructor's progress; `keyOf`/`done` are history | `EnqueueWithKey`, `Enqueue` (both via `Push`), `Check` (predicate, exit or pop), `EnterWait`, `Finish` (task returns or throws), `SetStop`, `NotifyAll`, `JoinAll` |
| `Framing` | the codec | none | `Encode` = `buildMsg`; the RECURSIVE `GetMessage(buf)` = the loop of `get_message`: frames handed on, bytes left, stopped on an abnormal length |
| `Session` | one connection's strand | `buffer` = `buffer_`, `heartnum`, `armed` (timer wait outstanding), `reading`, `posted` (send lambdas), `wq` = `write_queue_`, `writes` (outstanding `async_write`), `open`, `closes` (calls to `close()`), `readLive` (the outstanding read was started on an open socket, so it may still complete with data: the callback checks no open flag); `stream`/`pos` is the peer's byte stream; `dispatched`, `delivered`, `sent` are history | `ReadSome(k)` (read callback, k bytes, `get_message`, re-read; possible after `close()` when the read was issued before it), `ReadFail`, `TimerFire`, `Send`, `RunSend` (the posted lambda), `WriteDone` (success or failure → close) |
| `KeyedScheduler` | the scheduler contract of spec 4.1 (abstract) | `submitted` (keys in submission order), `running`, `finished`, `accepting`, `joined` | `Submit`, `Begin` (only after every earlier task of its key finished), `End`, `Shutdown`, `Join` (only when all finished). `ThreadPool` maps onto it: `KS == INSTANCE KeyedScheduler WITH submitted <- keyOf, running <- ids in current, finished <- done, accepting <- ~stop, joined <- dpc = "joined"` |
| `SessionRegistry` | `sessions_` and `online_users_` across sessions, login, chat and cleanup | `sessions`, `online` (uid → session, `Null` or `Absent`), `uidOf` = `uid_`, `inbox` (queued login and chat handlers), `cleanups` (queued cleanup tasks), `iterating`/`visited` (a `guangbo` loop in progress), `nCloses` (calls to `close()`, at most `MaxCloses`) | `Accept`, `DispatchLogin`, `DispatchChat`, `HandleLogin` (`Denglu_handle`, with a nondeterministic MySQL verdict), `HandlePrivate`, `GuangboBegin`/`GuangboStep`/`GuangboEnd` (one step per map entry), `Close` (unguarded, as `Session::close()`: every call posts a cleanup task), `Cleanup` |
| `RoomBattle` | rooms, the room manager, battles, and the room handlers | `rooms`, `members`, `ready` (members whose `readyState_` flag is true), `battle[r]` (created, players, hp, `running_`, winner, BattleEnd count), `pc` (a handler between its critical sections) | `EnterRoom` (+`AddPlayer`), `SetReady` (+`RoomSetReady`), `CheckAllReady`, `StartBattle`, `BattleAction` (+`ApplyDelta`), `Tick` (timer callback + `CheckFinish`). `StartBattle(c, partial)` takes the players whose Redis hash lacks hp: `start` throws on them after setting `running_`, leaving `ticking` false. Run alone, the module starts with complete records; `BattleStore` supplies the real ones |
| `PlayerData` | the Redis/MySQL/Kafka pipeline | `redis` (uid → level, exp, whether all eight fields are there), `mysql` (uid → level, exp of the `Player` row), `topic`, `consumer` (thread polling or ended), `losses` (hashes Redis lost), `loading` (uids a battle start has yet to load from MySQL); `acked`, `unsent` are history | `AddExp` (`updateExepAndLevel`, + `LevelUp`, `Filled`), `GetPlayer`, `BattleLoadRedis` (`batchLoadFromRedis`: the pipelined HGETALLs, which pick the misses) and `BattleLoadMySQL(u)` (`batchLoadFromMySQL` for one miss: query, then `hset` of the whole row, so an AddExp can land in between), `Consume` (+`SyncToMySQL`, `UpdateUserData`), `CacheLost` (fault) |
| `FrameChannel` | what a connection promises (spec 4.2), abstract | `expected`, `received`, `queued`, `written`, `open`, `pending` (a receive may still complete) | `Receive` (the next n frames in order; after close only while `pending`), `ReadEnd` (the last receive is abandoned), `Queue(f)`, `Write` (the next queued frame), `Close` |
| `BattleStore` | `RoomBattle` and `PlayerData` composed | the variables of both | each component's steps, with the other's variables unchanged; `StartBattleLoaded` = `RoomManager::startBattle` with `BattleRoom::start` loading the players through `PlayerData`'s `BattleLoadRedis` and `BattleLoadMySQL`, so the partial records are the Redis hashes that `PartialHashes` finds incomplete |
| `Client` | the console client against one server connection | `pc` (menu loop place), `req`, `counter` = `msgid_counter`, `waiters` = `pending_requests`, `promise`, `currentId` = `current_user_id` (`loggedIn` = it is set), `rd` (read loop place), `toServer`/`toClient` (the TCP byte streams as frames), `conn`; server side `rooms`, `member`, `battles`, `online`, and `users` (the MySQL `User` table: index = uid, value = password), `partial` (uids whose `player:` hash AddExp left partial); `dropped`, `actions`, `pushes` are history and bounds | `SendRequest`, `Choose` (menu items 1-6), `Return` (`future.get()` returns), `BattleAct`, `Exit`; `ReadHeader`, `ReadBody` (+ `HandleMessage`); the server's `Serve` (the MessageDispatcher handlers `ServeRegister` (+ `Zhuce` = `Usermodel::zhuce`, an AUTO_INCREMENT insert that may fail), `ServeLogin` (+ `Login` = `Usermodel::Login`: the uid's row and a password comparison, false on any MySQL failure), `ServeBackpack` (no reply when `stoi` throws on a partial hash), `ServeAddExp` (leaves a partial hash for a uid without a `Player` row), `ServeEnter`, `ServeReady`, `ServeBattleAction`); environment `OtherCreates`, `Push` (chat or BattleSync), `ServerClose` (heartbeat timeout or error) |

`MC*` modules and `*.cfg` files instantiate these for TLC. Mutant operators (named
`...` before the definition they mutate, e.g. `PushNoNotify` before `Push`) are
in the modules and are used only by the mutation check in `PROJECT.json`.

## 3. Runs

| Run | Config | Expect | What it shows |
|---|---|---|---|
| threadpool | `MCThreadPool.cfg` | pass | It checks two things. **KeyOrder:** a keyed task starts only after every earlier task with the same key has completed, with two workers and keys 1 and 3 sharing a queue. **NoTaskLost and DrainedOnJoin:** every accepted task eventually runs, including across shutdown. **KSSpec:** the pool implements `KeyedScheduler` under the refinement mapping, liveness of every task included. |
| threadpool_shutdown | `MCThreadPoolShutdown.cfg` | violation | **ShutdownCompletes** fails. The trace: a worker evaluates its predicate, the destructor sets `stop_` and notifies, and only then does the worker block. The join hangs. |
| session | `MCSession.cfg` | pass | **FramingCorrect:** whatever the read sizes, frames are dispatched in order and exactly once. **WriteOrder:** at most one write is outstanding, and frames go out in send order. **IdleSessionCloses:** once the peer stops sending, the session is closed. **FrameChannelSpec:** `Session` implements `FrameChannel` under the mapping received = dispatched, queued = sent, written = delivered. |
| registry_online_live | `MCSessionRegistry_OnlineUsersLive.cfg` | violation | **OnlineUsersLive** fails: `online_users_` should name a uid's session only while it is live. `uid_` is never assigned, so the cleanup's `RemoveUser(uid_)` removes nothing and the entry keeps naming a deleted session (accept, login, close, cleanup). The same property catches the cleanup overtaking the queued login handler, which then stores a nullptr that `guangbo` dereferences. |
| rooms | `MCRoomBattle.cfg` | pass | **RoomWellFormed:** capacity is respected. **OneBattlePerRoom:** two ready handlers that race still build one BattleRoom. **FightingRoomFrozen:** a fighting room keeps the battle's players as its members, and is full. **BattleEndsOnce:** BattleEnd is broadcast once. **BattleEndsWhenDecided:** a battle whose result is decided ends. |
| battlestore_partial_record | `MCBattleStore.cfg` (`MCBattleStore`) | violation | **BattleEndsWhenDecided** fails in the composition. u2 is registered but has no `Player` row. Its AddExp creates `player:u2` with only exp and level. When u2's room starts, `start` throws after `running_ = true` and no timer is armed, so the decided battle never ends. |
| registry_guangbo_race | `MCSessionRegistry_GuangboExclusive.cfg` | violation | A login on another worker adds to `online_users_` while `guangbo` is iterating it. |
| client | `MCClient.cfg` | pass | **RequestAnsweredUnlessDropped:** a waiting call returns unless the server dropped the request or the connection closed. The server drops Ready for a missing room, and Backpack for a user whose AddExp left a partial hash (`stoi` throws in the handler, and no reply is sent). |
| client_request_hang | `MCClient_RequestAnswered.cfg` | violation | **RequestAnswered** fails: the server closes the connection (its heartbeat closes a client that sends none), the header callback returns on EOF without failing `pending_requests`, and `future.get()` waits forever. |
| playerdata | `MCPlayerData.cfg` | pass | u1 has a `Player` row, u2 has none, and Redis may lose one hash. **SyncedWhenDrained:** once the consumer catches up, MySQL equals the cache for every uid whose last update reached Kafka, even if only its exp message did. |
| playerdata_consumer_dies | `MCPlayerData_QueueDrains.cfg` | violation | **QueueDrains** fails. AddExp for u2 creates `player:u2` with only exp and level; the consumer syncs it, `stoi` throws `invalid_argument`, and the thread ends, so later messages are never consumed. |
| playerdata_lost_update | `MCPlayerData_AckedExpKept.cfg` | violation | **AckedExpKept** fails: the cached level and exp should add up to the exp the replies acknowledged. A battle start misses u1 in Redis; an AddExp for u1 then creates the hash and is acknowledged; the battle's `batchLoadFromMySQL` then writes the old `Player` row over it, and the acknowledged exp is gone. |

Some disagreements met while modelling are kept as hazards in
`PROJECT.json` without a run of their own, to keep the runs to the questions
that matter most. Each names the holding properties that bound it:
- A peer trickling bytes of an incomplete frame resets `heartnum_` and is never closed.
- `startBattle` does not recheck `isAllReady`, so a Ready(false) in the window still starts the battle. Membership cannot change in that window (**FightingRoomFrozen**).
- `BattleAction` still changes the hp of a finished battle. Its outcome does not change (**BattleEndsOnce**).
- An oversized length header leaves the session open with a buffer it can never parse (`Session.cc:170`).
- A waiting room whose member disconnected stays full forever, because `removePlayer` has no caller (`Room.cc:25`).

Every violation run has a finding in `PROJECT.json`. Every property of a
passing run has a mutant: a plausible bug in the mapped code, under which TLC
finds that property violated.

## 4. Bounds, and why they are enough

**ThreadPool.**
- N = 2 and keys {1, 2, 3}: two keys share a queue and one key has a queue of its own.
- MaxTasks = 4 allows two tasks of one key plus interleaved others, a shutdown with tasks still queued, and a round-robin task landing on either queue.
- The shutdown run uses MaxTasks = 1 so that the lost-wakeup trace is short.

**Session.**
- Four streams, each cut into reads of every possible size:
  - two frames back to back, 13 bytes;
  - a length-1 header followed by a frame;
  - a header one above 10 MiB;
  - a header of exactly 10 MiB, the largest legal value.
- Together these cover sticky packets, partial packets, and both length bounds with their off-by-one neighbours.
- Two frames are sent out, with MaxSends = 2, so a second write queues behind the first.

**SessionRegistry.**
- Two sessions and two uids, with up to two logins and two `close()` calls per session (the read error and the heartbeat can both close).
- This covers two sessions logging into the same uid, and a login queued behind a close.

**PlayerData.**
- Two uids: u1 with a `Player` row, u2 without one (what `zhuce` produces). So both the cache-aside fill and the partial hash happen.
- Gains {60, 150} with three requests: a gain without a level-up, one with a level-up (two Kafka messages), and 150 + 150 from level 1, which ends exactly at the level-3 threshold (`exp == 100 * level`).
- A produce may fail after any prefix of its messages. Redis loses at most one hash (`MaxLosses = 1`); the violation runs have none, so their traces need no fault. The lost-update run needs one AddExp and u1 only in MySQL.

**SessionRegistry, chat.** One chat request per session (WORLD or PRIVATE), so one session can broadcast while the other logs in or is cleaned up.

**Client.**
- Two rooms, so entering a missing room creates it and Ready on a room another client created or never created both happen.
- Five requests: register, login and then three more, enough for enter, ready and a battle action, or for a request after a close.
- One battle action and two pushes (chat or BattleSync), so a push lands between a request and its ack.
- The violation run uses one room and four requests, which keeps the trace short.

**BattleStore.**
- Two uids: u1 with a `Player` row, u2 without one. One AddExp (gain 60, no Redis loss), two clients and one room of capacity 2, with hp values {20, 100}.
- That is the smallest store in which a partial hash can exist when the room starts.

**Client, users.** Two passwords, and logins by uids 1 and 2. So a login can name a registered uid with the right password, a registered uid with the wrong one, or a uid not yet registered.

**RoomBattle.**
- Two clients, three player ids and one room of capacity 2.
- This covers a full room, a duplicate uid, and a third player being refused.
- Hp values are {20, 100} with damage 10, so a battle can be decided by a few actions.
- A second room would only multiply the state space: rooms share no state except the RoomManager lock, and the model already makes each lock's section an atomic step.

## 5. Fairness

- **ThreadPool:** weak fairness on every worker step and on the destructor's steps. Each is an OS thread.
- **Session:** weak fairness on the timer callback, on the posted send lambda, on write completion, and on the read completion after close (`operation_aborted`). The io threads run every ready completion. Reads of peer data are not fair, because the peer may go silent.
- **SessionRegistry:** (no liveness run now) weak fairness on queued handlers and cleanup tasks, since workers run every queued task.
- **PlayerData:** weak fairness on `Consume` and on each `BattleLoadMySQL(u)`: the battle start holds `mtx_` and loads its misses before returning. The consumer thread polls in a loop for as long as it lives. Clients are not obliged to send anything.
- **KeyedScheduler:** weak fairness on starting and ending each task, which the pool's worker fairness delivers (the refinement run checks this). Join is not fair in the abstraction: the pool's shutdown can hang (threadpool_shutdown).
- **Client:** weak fairness on the read loop's callbacks (`ReadHeader`, `ReadBody`), on the server serving a queued request, and on `future.get()` returning once its promise is set. None on the user's menu choices, on pushes or on the server closing the connection: the user may stop, and the server may never close.
- **BattleStore:** the components' own fairness, on the consumer, `CheckAllReady`, the joint start and the timer.
- **RoomBattle:** weak fairness on a handler finishing the critical sections it has started, and on the battle timer. Clients are never obliged to send anything.

## 6. Not modelled, and why

- **Redis, MySQL and Kafka** are modelled in `PlayerData` only as far as level, exp and record completeness. In `RoomBattle` the loaded hp is a nondeterministic choice; hp, mp, coin and position are never changed by any caller. The login verdict (`Usermodel::Login`) is a nondeterministic choice.
- **`loadPlayerData`, `updatePlayerAttr`**: no caller. **`InsertUserData`** (the new-player row of `getPlayer`'s MySQL miss) is not modelled: the `Player` rows are the constant `Rows`. `zhuce` inserts only `User` rows, which is why a registered uid can have no `Player` row. `SessionRegistry` keeps a nondeterministic login verdict; `Client` derives it from its `users` table.
- **`getAllStates`**: it reads `states_` without the lock. Its one caller copies it into a BattleSync reply, so the race changes what is sent, not any state the model keeps.
- **CoroutinesServer and CoroutinesSession** are an echo prototype: `main` never starts it and no other code refers to it, so it has no effect on the server's behaviour.
- **The client's output and input parsing** (prompts, `cin` handling, printing of replies) are left out; the menu choice is a nondeterministic choice.
- **Payload contents and formatting:** protobuf payloads are abstracted to frame ids and small bodies, and log output is left out.
- **Mana** is left out: no handler changes it.
- **`BattleRoom::stop`** is left out. Only the destructor calls it, and the destructor never runs while `battles_` holds the room.
- **`Room::removePlayer`** is left out because nothing calls it.

## 7. Further work

- **Composition of sessions and rooms.** A `GameServer` module could compose Session close and cleanup, the ThreadPool ordering of keyed handlers against the unkeyed cleanup, `SessionRegistry` and `RoomBattle`. It would check that a session's departure never leaves its room or battle waiting on it. Today this is the `Room.cc:25` hazard, with no run.
