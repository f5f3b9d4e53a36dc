----------------------------- MODULE BattleStore -----------------------------
(***************************************************************************)
(* Battles and the player store together: RoomBattle's BattleRoom::start  *)
(* loads its players through PlayerData's batchLoadFromRedis and          *)
(* batchLoadFromMySQL, so which records are partial (a Redis hash without *)
(* hp, which makes start throw) is no longer a constant but whatever the  *)
(* AddExp handlers, the battle loads and the consumer have left in Redis. *)
(*                                                                         *)
(* The two components share only the Redis hashes: each other step of     *)
(* one leaves the other's variables alone, and the RoomManager::          *)
(* startBattle step is one joint step, since start runs inside it.        *)
(***************************************************************************)
EXTENDS Naturals

CONSTANTS
  Uids, Rows, Gains, MaxAdds, MaxLosses, Absent,            \* PlayerData
  Clients, RoomIds, MaxPlayers, Damage, HpValues, NoPlayer   \* RoomBattle

VARIABLES
  redis, mysql, topic, consumer, adds, losses, acked, lost, unsent, loading,
  rooms, members, ready, battle, nBattles, pc

storeVars  == <<redis, mysql, topic, consumer, adds, losses, acked, lost, unsent, loading>>
battleVars == <<rooms, members, ready, battle, nBattles, pc>>
vars == <<storeVars, battleVars>>

PD == INSTANCE PlayerData

\* The uids whose Redis hash has exp and level but no hp: the ones
\* batchLoadFromRedis's stoi throws on.
PartialHashes == {u \in Uids : redis[u] /= Absent /\ ~redis[u].full}

\* The partial records are not a constant here: StartBattleLoaded passes
\* PartialHashes to StartBattle.
RB == INSTANCE RoomBattle WITH Players <- Uids, PartialRecords <- {}

Init == PD!Init /\ RB!Init

\* RoomManager::startBattle: nothing if the room has a battle; else
\* BattleRoom::start with the room's players, whose batchLoadFromRedis
\* runs in the same step; the misses it leaves are loaded from MySQL by
\* the later BattleLoadMySQL steps.  mtx_ is held throughout, so no other
\* start begins before they are done.
StartBattleLoaded(c) ==
  LET r == pc[c].room IN
  /\ \E partial \in {PartialHashes} : RB!StartBattle(c, partial)
  /\ IF battle[r].created THEN UNCHANGED storeVars
                          ELSE \E S \in {members[r]} : PD!BattleLoadRedis(S)

\* The steps of one component, the other's variables left alone.
StoreStep(A) == A /\ UNCHANGED battleVars
BattleStep(A) == A /\ UNCHANGED storeVars

Next ==
  \/ \E u \in Uids : \/ \E d \in Gains : StoreStep(PD!AddExp(u, d))
                     \/ StoreStep(PD!GetPlayer(u))
                     \/ StoreStep(PD!CacheLost(u))
                     \/ StoreStep(PD!BattleLoadMySQL(u))
  \/ StoreStep(PD!Consume)
  \/ \E c \in Clients, r \in RoomIds, u \in Uids :
       \/ BattleStep(RB!EnterRoom(c, r, u))
       \/ \E flag \in BOOLEAN : BattleStep(RB!SetReady(c, r, u, flag))
       \/ BattleStep(RB!BattleAction(c, r, u))
  \/ \E c \in Clients : BattleStep(RB!CheckAllReady(c)) \/ StartBattleLoaded(c)
  \/ \E r \in RoomIds : BattleStep(RB!Tick(r))

\* The components' own fairness: workers finish the handlers they started,
\* the io_context runs armed timers, the consumer thread polls.
Fairness ==
  /\ WF_vars(StoreStep(PD!Consume))
  /\ \A u \in Uids : WF_vars(StoreStep(PD!BattleLoadMySQL(u)))
  /\ \A c \in Clients : WF_vars(BattleStep(RB!CheckAllReady(c))) /\ WF_vars(StartBattleLoaded(c))
  /\ \A r \in RoomIds : WF_vars(BattleStep(RB!Tick(r)))

Spec == Init /\ [][Next]_vars /\ Fairness
-----------------------------------------------------------------------------
\* Spec 4.6, the battle loop terminates: once at most one player is
\* alive, the timer callback eventually ends the battle, whatever the
\* AddExp handlers have done to the players' Redis hashes first.
BattleEndsWhenDecided == RB!BattleEndsWhenDecided
=============================================================================
