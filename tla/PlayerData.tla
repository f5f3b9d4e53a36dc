----------------------------- MODULE PlayerData -----------------------------
(***************************************************************************)
(* The player-attribute pipeline: src/server/PlayerDataManager.cc over     *)
(* Redis (the cache, hash "player:<uid>"), MySQL (table Player, through     *)
(* src/server/UserDatamodel.cc) and the Kafka topic "playerdata_update"    *)
(* consumed by the thread main() starts.                                   *)
(*                                                                         *)
(* Every PlayerDataManager method runs its Redis and MySQL calls for one   *)
(* uid under that uid's mutex from player_mutex_map_, so each call is one  *)
(* atomic step per uid; the handlers that call them run on pool workers.   *)
(* A Redis hash is abstracted to its level and exp and to whether it has   *)
(* all eight fields (hp, mp, coin, x, y, z are never changed by any        *)
(* caller); a MySQL row to its level and exp.  A Kafka message carries the *)
(* uid and the field name; syncToMySQL ignores the value.                  *)
(***************************************************************************)
EXTENDS Naturals, Sequences

CONSTANTS
  Uids,       \* uids the requests name
  Rows,       \* uids with a row in table Player (registration makes none)
  Gains,      \* exp amounts an AddExpReq carries
  MaxAdds,    \* bound on AddExp requests
  MaxLosses,  \* bound on hashes the Redis server loses
  Absent      \* model value: no Redis hash or no MySQL row

ASSUME Rows \subseteq Uids /\ Gains \subseteq Nat /\ MaxAdds \in Nat /\ MaxLosses \in Nat

\* The row every uid starts with: the defaults of loadPlayerData, level 1.
FirstRow == [level |-> 1, exp |-> 0]

VARIABLES
  redis,      \* uid -> Absent or [level, exp, full]
  mysql,      \* uid -> Absent or [level, exp]
  topic,      \* the Kafka topic: messages produced, not yet consumed
  consumer,   \* the Kafka consumer thread: "polling" or "ended"
  adds,       \* AddExp requests handled so far
  losses,     \* hashes lost by the Redis server so far
  acked,      \* history: exp gained by each uid, as acknowledged
  lost,       \* history: acknowledged exp not yet in MySQL when Redis lost it
  unsent,     \* history: uids whose last update produced no message
  loading     \* uids the battle start in progress has yet to load from MySQL

vars == <<redis, mysql, topic, consumer, adds, losses, acked, lost, unsent, loading>>

Init ==
  /\ redis    = [u \in Uids |-> Absent]
  /\ mysql    = [u \in Uids |-> IF u \in Rows THEN FirstRow ELSE Absent]
  /\ topic    = <<>>
  /\ consumer = "polling"
  /\ adds     = 0
  /\ losses   = 0
  /\ acked    = [u \in Uids |-> 0]
  /\ lost     = [u \in Uids |-> 0]
  /\ unsent   = {}
  /\ loading  = {}

\* Exp a player at (level, exp) has gained since level 1, exp 0.
TotalExp(r) == 100 * ((r.level * (r.level - 1)) \div 2) + r.exp

\* The level and exp a reader falls back to without a hash: the Player
\* row, or the defaults of updateExepAndLevel.
CurrentRow(u) == IF mysql[u] /= Absent THEN mysql[u] ELSE FirstRow

\* Mutant of LevelUp: the threshold subtracted is the next level's.
RECURSIVE LevelUpNextThreshold(_, _)
LevelUpNextThreshold(level, exp) ==
  IF exp >= 100 * level THEN LevelUpNextThreshold(level + 1, exp - 100 * (level + 1))
  ELSE [level |-> level, exp |-> exp]

\* The level-up loop of updateExepAndLevel: while exp >= 100 * level,
\* exp -= 100 * level and level++.
RECURSIVE LevelUp(_, _)
LevelUp(level, exp) ==
  IF exp >= 100 * level THEN LevelUp(level + 1, exp - 100 * level)
  ELSE [level |-> level, exp |-> exp]

\* UserDatamodel::QueryUserData: SELECT the Player row of uid; false when
\* there is none.
QueryUserData(u) == mysql[u]

\* UserDatamodel::UpdateUserData: UPDATE Player SET ... WHERE uid, which
\* changes nothing (and still reports success) when there is no row.
UpdateUserData(u, r) ==
  IF mysql[u] /= Absent THEN [mysql EXCEPT ![u] = r] ELSE mysql

\* The cache-aside fill of getPlayer and batchLoadFromMySQL: on a Redis
\* miss, QueryUserData, and on a hit in MySQL hset all eight fields.
Filled(u) ==
  IF redis[u] = Absent /\ QueryUserData(u) /= Absent
    THEN [level |-> QueryUserData(u).level, exp |-> QueryUserData(u).exp, full |-> TRUE]
    ELSE redis[u]

\* AddExp_handle -> updateExepAndLevel under the player mutex: fill the
\* cache from MySQL on a miss (nothing if MySQL has no row either); hget
\* exp and level (0 and 1 when absent); run the level-up loop; hset exp and
\* level, which creates a hash with only these two fields when there was
\* none; produce an "exp" message and, on a level-up, a "level" message,
\* then flush.  A produce that throws (local queue full, broker down) is
\* caught and logged: any prefix of the messages may reach the topic.  The
\* reply acknowledges the new exp and level whatever happened.
AddExp(u, d) ==
  LET base == Filled(u)
      cur  == IF base /= Absent THEN base ELSE FirstRow
      new  == LevelUp(cur.level, cur.exp + d)
      msgs == IF new.level > cur.level
                THEN <<[uid |-> u, field |-> "exp"], [uid |-> u, field |-> "level"]>>
                ELSE <<[uid |-> u, field |-> "exp"]>>
  IN
  /\ adds < MaxAdds
  /\ adds' = adds + 1
  /\ redis' = [redis EXCEPT ![u] = [level |-> new.level, exp |-> new.exp,
                                     full |-> base /= Absent /\ base.full]]
  /\ \E k \in 0 .. Len(msgs) :
       /\ topic'  = topic \o SubSeq(msgs, 1, k)
       /\ unsent' = IF k = 0 THEN unsent \cup {u} ELSE unsent \ {u}
  /\ acked' = [acked EXCEPT ![u] = @ + d]
  /\ UNCHANGED <<mysql, consumer, losses, lost, loading>>

\* Backpack_handle -> getPlayer under the player mutex: a hit is parsed
\* with stoi on every field (a hash without hp throws invalid_argument,
\* caught by the worker, no reply); a miss is filled from MySQL.
GetPlayer(u) ==
  /\ redis' = [redis EXCEPT ![u] = Filled(u)]
  /\ UNCHANGED <<mysql, topic, consumer, adds, losses, acked, lost, unsent, loading>>

\* BattleRoom::start -> batchLoadFromRedis(uids), called from
\* RoomManager::startBattle under mtx_, so one battle start runs at a
\* time.  The loop takes each uid's mutex in turn and only reads; it
\* parses every hit with stoi, so a hash without hp throws out of start
\* before any MySQL load.  Otherwise the misses are left to
\* batchLoadFromMySQL, whose loop is BattleLoadMySQL.
BattleLoadRedis(S) ==
  /\ loading = {}
  /\ IF \E u \in S : redis[u] /= Absent /\ ~redis[u].full
       THEN UNCHANGED loading
       ELSE loading' = {u \in S : redis[u] = Absent}
  /\ UNCHANGED <<redis, mysql, topic, consumer, adds, losses, acked, lost, unsent>>

\* One iteration of batchLoadFromMySQL, under u's mutex taken anew:
\* QueryUserData, and on a row hset all eight fields of the row, whatever
\* the handlers have written to player:<uid> since batchLoadFromRedis
\* found it missing.
BattleLoadMySQL(u) ==
  /\ u \in loading
  /\ loading' = loading \ {u}
  /\ redis' = IF QueryUserData(u) /= Absent
                THEN [redis EXCEPT ![u] = [level |-> QueryUserData(u).level,
                                           exp |-> QueryUserData(u).exp, full |-> TRUE]]
                ELSE redis
  /\ UNCHANGED <<mysql, topic, consumer, adds, losses, acked, lost, unsent>>

\* Mutant of Consume: only the field named in the message is written.
ConsumeFieldOnly ==
  LET m == Head(topic) IN
  /\ consumer = "polling"
  /\ topic /= <<>>
  /\ topic' = Tail(topic)
  /\ IF redis[m.uid] /= Absent /\ redis[m.uid].full /\ mysql[m.uid] /= Absent
       THEN mysql' = [mysql EXCEPT ![m.uid] =
                        IF m.field = "exp" THEN [@ EXCEPT !.exp = redis[m.uid].exp]
                        ELSE [@ EXCEPT !.level = redis[m.uid].level]]
       ELSE UNCHANGED mysql
  /\ UNCHANGED <<redis, consumer, adds, losses, acked, lost, unsent, loading>>

\* PlayerDataManager::syncToMySQL(uid, field, value) under the player
\* mutex, field and value unused: skip when Redis has no hash; else
\* hgetall and stoi every field, then UpdateUserData with the whole
\* record.  A hash without hp makes stoi throw invalid_argument, which the
\* catch (sw::redis::Error) does not catch: the consumer thread's loop is
\* left and its outer catch ends the thread.
SyncToMySQL(u) ==
  \/ /\ redis[u] = Absent
     /\ UNCHANGED <<mysql, consumer>>
  \/ /\ redis[u] /= Absent /\ redis[u].full
     /\ mysql' = UpdateUserData(u, [level |-> redis[u].level, exp |-> redis[u].exp])
     /\ UNCHANGED consumer
  \/ /\ redis[u] /= Absent /\ ~redis[u].full
     /\ consumer' = "ended"
     /\ UNCHANGED mysql

\* The consumer thread of main(): poll one message of playerdata_update
\* (auto-commit), split uid|field|value, call syncToMySQL.  Any exception
\* escaping the loop body reaches the catch outside while (true).
Consume ==
  /\ consumer = "polling"
  /\ topic /= <<>>
  /\ topic' = Tail(topic)
  /\ SyncToMySQL(Head(topic).uid)
  /\ UNCHANGED <<redis, adds, losses, acked, lost, unsent, loading>>

\* The Redis server loses a hash (a restart without persistence, eviction
\* under maxmemory).  No code deletes one; the code copes with the loss by
\* refilling from MySQL on a miss and by syncToMySQL skipping a missing key.
CacheLost(u) ==
  /\ losses < MaxLosses
  /\ redis[u] /= Absent
  /\ redis' = [redis EXCEPT ![u] = Absent]
  /\ losses' = losses + 1
  /\ lost' = [lost EXCEPT ![u] = @ + TotalExp(redis[u]) - TotalExp(CurrentRow(u))]
  /\ UNCHANGED <<mysql, topic, consumer, adds, acked, unsent, loading>>

Next ==
  \/ \E u \in Uids, d \in Gains : AddExp(u, d)
  \/ \E u \in Uids : GetPlayer(u)
  \/ \E S \in SUBSET Uids \ {{}} : BattleLoadRedis(S)
  \/ \E u \in Uids : BattleLoadMySQL(u)
  \/ Consume
  \/ \E u \in Uids : CacheLost(u)

\* The consumer thread polls for ever while it runs; the thread inside
\* BattleRoom::start finishes its loop.
Fairness == WF_vars(Consume) /\ \A u \in Uids : WF_vars(BattleLoadMySQL(u))

Spec == Init /\ [][Next]_vars /\ Fairness
-----------------------------------------------------------------------------
Record == [level : Nat \ {0}, exp : Nat]

TypeOK ==
  /\ redis    \in [Uids -> {Absent} \cup [level : Nat \ {0}, exp : Nat, full : BOOLEAN]]
  /\ mysql    \in [Uids -> {Absent} \cup Record]
  /\ topic    \in Seq([uid : Uids, field : {"exp", "level"}])
  /\ consumer \in {"polling", "ended"}
  /\ adds     \in 0 .. MaxAdds
  /\ losses   \in 0 .. MaxLosses
  /\ acked    \in [Uids -> Nat]
  /\ lost     \in [Uids -> Nat]
  /\ unsent   \subseteq Uids
  /\ loading  \subseteq Uids

\* An acknowledged AddExp is never undone except by Redis losing the hash:
\* the cached level and exp of every player amount to exactly the exp its
\* AddExp replies acknowledged, less what had not reached MySQL when
\* Redis lost the hash, whatever order the handlers, battle loads and the
\* consumer ran in.  batchLoadFromMySQL's hset of the stored row breaks it
\* when an AddExp of the same uid runs between the two loops of start.
AckedExpKept ==
  \A u \in Uids : redis[u] /= Absent => TotalExp(redis[u]) = acked[u] - lost[u]

\* Write-behind: once the consumer has caught up, MySQL holds the cached
\* level and exp of every player whose last update reached Kafka, even
\* when only the first of its two messages did.
SyncedWhenDrained ==
  consumer = "polling" /\ topic = <<>> =>
    \A u \in Uids \ unsent :
      redis[u] /= Absent /\ redis[u].full /\ mysql[u] /= Absent =>
        mysql[u] = [level |-> redis[u].level, exp |-> redis[u].exp]

\* Spec 7: a failure in one handler never takes down the others: every
\* message produced to playerdata_update is eventually consumed.
QueueDrains == <>[](topic = <<>>)
=============================================================================
