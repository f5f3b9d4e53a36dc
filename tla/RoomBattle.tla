----------------------------- MODULE RoomBattle -----------------------------
(***************************************************************************)
(* Rooms, the room manager and battles: src/server/Room.cc,                *)
(* src/server/RoomManager.cc, src/server/BattleRoom.cc, driven by the      *)
(* room handlers of src/server/MessageDispatcher.cc.                       *)
(*                                                                         *)
(* Each client's handlers run one after another (they are queued with the  *)
(* session id as affinity key, see ThreadPool), handlers of different      *)
(* clients run at once on different workers.  A handler is split into one  *)
(* action per critical section: the Room mutex, the RoomManager mutex and  *)
(* the BattleRoom mutex are each released between the calls that take     *)
(* them.  The battle timer callback runs on an io_context thread.          *)
(*                                                                         *)
(* Abstracted: the payload codec and the replies and broadcasts (their     *)
(* ordering is the Session module's business); mp, which no handler ever  *)
(* changes (mpDelta is always 0); sessions stay registered here.           *)
(***************************************************************************)
EXTENDS Naturals, FiniteSets

CONSTANTS
  Clients,    \* sessions sending requests
  Players,    \* uids a request may name
  RoomIds,    \* room ids a request may name
  MaxPlayers, \* Room::maxPlayers_ (default 2)
  Damage,     \* BattleAction_handle: hpDelta = -10
  HpValues,   \* hp a battle may load for a player: store values and 100
  PartialRecords, \* uids whose Redis hash lacks hp (see PlayerData)
  NoPlayer    \* model value: winner -1

ASSUME MaxPlayers \in Nat \ {0}
ASSUME Damage \in Nat \ {0}
ASSUME HpValues \subseteq Nat

\* Player::baseHp, the hp the BattleRoom constructor gives every player.
BaseHp == 100

NoBattle == [created |-> FALSE, players |-> {}, hp |-> [u \in {} |-> 0],
             running |-> FALSE, ticking |-> FALSE, winner |-> NoPlayer, ends |-> 0]

VARIABLES
  rooms,      \* RoomManager::rooms_: the ids with a Room
  members,    \* Room::players_ (as a set of uids; uids are unique)
  ready,      \* Room::readyState_: the members whose flag is true
  battle,     \* RoomManager::battles_ and each BattleRoom's state
  nBattles,   \* history: BattleRoom objects constructed per room
  pc          \* where each client's current handler is

vars == <<rooms, members, ready, battle, nBattles, pc>>

Idle == [at |-> "idle", room |-> NoPlayer]

Init ==
  /\ rooms    = {}
  /\ members  = [r \in RoomIds |-> {}]
  /\ ready    = [r \in RoomIds |-> {}]
  /\ battle   = [r \in RoomIds |-> NoBattle]
  /\ nBattles = [r \in RoomIds |-> 0]
  /\ pc       = [c \in Clients |-> Idle]

\* Mutant of IsAllReady: the occupancy test is left out.
IsAllReadyFlagsOnly(r) ==
  ready[r] = members[r]

\* Room::isAllReady: full, and every readyState_ flag is true.
IsAllReady(r) ==
  /\ Cardinality(members[r]) >= MaxPlayers
  /\ ready[r] = members[r]

Alive(r) == {u \in battle[r].players : battle[r].hp[u] > 0}

\* Mutant of AddPlayer: the capacity test is off by one.
AddPlayerOffByOne(r, u) ==
  IF Cardinality(members[r]) <= MaxPlayers /\ u \notin members[r]
    THEN members' = [members EXCEPT ![r] = @ \cup {u}]
    ELSE UNCHANGED members

\* Room::addPlayer under the Room mutex: refuses a full room and a uid
\* already in it; a new member's readyState_ flag is false.
AddPlayer(r, u) ==
  IF Cardinality(members[r]) < MaxPlayers /\ u \notin members[r]
    THEN members' = [members EXCEPT ![r] = @ \cup {u}]
    ELSE UNCHANGED members

\* EnterRoom_handle: getOrCreateRoom, then Room::addPlayer; the ack is
\* sent whatever the outcome.
EnterRoom(c, r, u) ==
  /\ pc[c] = Idle
  /\ rooms' = rooms \cup {r}
  /\ AddPlayer(r, u)
  /\ UNCHANGED <<ready, battle, nBattles, pc>>

\* Room::setReady: a no-op for a uid without a readyState_ entry.
RoomSetReady(r, u, flag) ==
  ready' = [ready EXCEPT ![r] =
              IF u \notin members[r] THEN @
              ELSE IF flag THEN @ \cup {u} ELSE @ \ {u}]

\* Ready_handle up to the ack: getRoom (returns if none), then
\* Room::setReady.
SetReady(c, r, u, flag) ==
  /\ pc[c] = Idle
  /\ r \in rooms
  /\ RoomSetReady(r, u, flag)
  /\ pc' = [pc EXCEPT ![c] = [at |-> "check", room |-> r]]
  /\ UNCHANGED <<rooms, members, battle, nBattles>>

\* Ready_handle, after the ack: room->isAllReady() under the Room mutex.
CheckAllReady(c) ==
  LET r == pc[c].room IN
  /\ pc[c].at = "check"
  /\ pc' = [pc EXCEPT ![c] = IF IsAllReady(r) THEN [at |-> "start", room |-> r]
                                              ELSE Idle]
  /\ UNCHANGED <<rooms, members, ready, battle, nBattles>>

\* BattleRoom::start with its players: every player gets the hp of the
\* cache, of MySQL, or 100; running_ is set and the first tick is armed
\* (ticking).  start sets running_ first; when batchLoadFromRedis meets a
\* hash without hp its stoi throws out of start (and out of startBattle,
\* to the worker's catch), leaving the constructor's baseHp for everyone
\* and no timer armed.  partial: the uids whose hash lacks hp when start
\* runs (PartialRecords here, the store's state in BattleStore).
StartedBattle(ps, partial) ==
  IF ps \cap partial /= {}
    THEN {[created |-> TRUE, players |-> ps, hp |-> [u \in ps |-> BaseHp],
           running |-> TRUE, ticking |-> FALSE, winner |-> NoPlayer, ends |-> 0]}
    ELSE {[created |-> TRUE, players |-> ps, hp |-> h, running |-> TRUE,
           ticking |-> TRUE, winner |-> NoPlayer, ends |-> 0] : h \in [ps -> HpValues]}

\* Mutant of StartBattle: the battles_.count(roomid) test is left out.
StartBattleUnguarded(c, partial) ==
  LET r == pc[c].room IN
  /\ pc[c].at = "start"
  /\ \E b \in StartedBattle(members[r], partial) : battle' = [battle EXCEPT ![r] = b]
  /\ nBattles' = [nBattles EXCEPT ![r] = @ + 1]
  /\ pc' = [pc EXCEPT ![c] = Idle]
  /\ UNCHANGED <<rooms, members, ready>>

\* RoomManager::startBattle, all under the RoomManager mutex: nothing if
\* the room has a battle already, else construct and start one with a
\* snapshot of the room's players, partial as for StartedBattle.
StartBattle(c, partial) ==
  LET r == pc[c].room IN
  /\ pc[c].at = "start"
  /\ IF battle[r].created
       THEN UNCHANGED <<battle, nBattles>>
       ELSE /\ \E b \in StartedBattle(members[r], partial) : battle' = [battle EXCEPT ![r] = b]
            /\ nBattles' = [nBattles EXCEPT ![r] = @ + 1]
  /\ pc' = [pc EXCEPT ![c] = Idle]
  /\ UNCHANGED <<rooms, members, ready>>

\* Mutant of ApplyDelta: hp is not clamped at 0.
ApplyDeltaUnclamped(r, target) ==
  battle' = [battle EXCEPT ![r].hp[target] = @ - Damage]

\* BattleRoom::applyDelta(target, -10, 0) under the BattleRoom mutex:
\* hp = max(0, hp - 10).
ApplyDelta(r, target) ==
  battle' = [battle EXCEPT ![r].hp[target] = IF @ > Damage THEN @ - Damage ELSE 0]

\* BattleAction_handle: getBattleRoom (returns if none), then applyDelta,
\* which ignores a uid that is not in the battle.  The battle is found
\* whether or not it has finished.
BattleAction(c, r, target) ==
  /\ pc[c] = Idle
  /\ battle[r].created
  /\ target \in battle[r].players
  /\ ApplyDelta(r, target)
  /\ UNCHANGED <<rooms, members, ready, nBattles, pc>>

\* Mutant of CheckFinish: running_ is not cleared.
CheckFinishKeepsRunning(r) ==
  IF Cardinality(Alive(r)) <= 1
    THEN battle' = [battle EXCEPT
                      ![r].winner = IF Alive(r) = {} THEN NoPlayer
                                    ELSE CHOOSE u \in Alive(r) : TRUE,
                      ![r].ends   = @ + 1]
    ELSE UNCHANGED battle

\* Mutant of CheckFinish: the battle ends only when nobody is alive.
CheckFinishStrict(r) ==
  IF Cardinality(Alive(r)) < 1
    THEN battle' = [battle EXCEPT
                      ![r].running = FALSE,
                      ![r].ticking = FALSE,
                      ![r].winner  = NoPlayer,
                      ![r].ends    = @ + 1]
    ELSE UNCHANGED battle

\* BattleRoom::checkFinish, under the BattleRoom mutex: with at most one
\* player alive it clears running_, cancels the timer and broadcasts
\* BattleEnd naming the survivor (or -1); otherwise nothing changes.  The
\* callback then re-arms the timer only while running_ is set.
CheckFinish(r) ==
  IF Cardinality(Alive(r)) <= 1
    THEN battle' = [battle EXCEPT
                      ![r].running = FALSE,
                      ![r].ticking = FALSE,
                      ![r].winner  = IF Alive(r) = {} THEN NoPlayer
                                     ELSE CHOOSE u \in Alive(r) : TRUE,
                      ![r].ends    = @ + 1]
    ELSE UNCHANGED battle

\* The doHeartbeat timer callback on an io_context thread: broadcastSync,
\* checkFinish, and the timer is armed again if running_ is still set.
Tick(r) ==
  /\ battle[r].ticking
  /\ CheckFinish(r)
  /\ UNCHANGED <<rooms, members, ready, nBattles, pc>>

Next ==
  \/ \E c \in Clients, r \in RoomIds, u \in Players :
        \/ EnterRoom(c, r, u)
        \/ \E flag \in BOOLEAN : SetReady(c, r, u, flag)
        \/ BattleAction(c, r, u)
  \/ \E c \in Clients : CheckAllReady(c) \/ StartBattle(c, PartialRecords)
  \/ \E r \in RoomIds : Tick(r)

\* Worker threads finish the handler they started; the io_context runs an
\* armed timer's callback.  Clients are never obliged to send anything.
Fairness ==
  /\ \A c \in Clients : WF_vars(CheckAllReady(c)) /\ WF_vars(StartBattle(c, PartialRecords))
  /\ \A r \in RoomIds : WF_vars(Tick(r))

Spec == Init /\ [][Next]_vars /\ Fairness
-----------------------------------------------------------------------------
TypeOK ==
  /\ rooms \subseteq RoomIds
  /\ members \in [RoomIds -> SUBSET Players]
  /\ ready \in [RoomIds -> SUBSET Players]
  /\ nBattles \in [RoomIds -> Nat]
  /\ \A r \in RoomIds :
       /\ battle[r].players \subseteq Players
       /\ battle[r].hp \in [battle[r].players -> Nat]
       /\ battle[r].running \in BOOLEAN
       /\ battle[r].ticking \in BOOLEAN
       /\ battle[r].winner \in Players \cup {NoPlayer}
  /\ \A c \in Clients : pc[c].at \in {"idle", "check", "start"}

\* Room::addPlayer under concurrent EnterRoom handlers: a room never holds
\* more than maxPlayers_ players, and only members have a ready flag.
RoomWellFormed ==
  \A r \in RoomIds :
    /\ Cardinality(members[r]) <= MaxPlayers
    /\ ready[r] \subseteq members[r]

\* Two Ready_handle calls that both see isAllReady() both call
\* startBattle: still at most one BattleRoom is ever built per room.
OneBattlePerRoom ==
  \A r \in RoomIds : nBattles[r] <= 1

\* checkFinish stops the battle once: whatever ticks and battle actions
\* follow, BattleEnd is broadcast at most once per battle.
BattleEndsOnce ==
  \A r \in RoomIds : battle[r].ends <= 1

\* Spec 3 (Room): a room that has moved to FIGHTING keeps the membership
\* its battle started with.  The code has no such state: it holds because
\* startBattle is reached only through isAllReady (occupancy included),
\* addPlayer refuses a full room, and removePlayer is never called.
FightingRoomFrozen ==
  \A r \in RoomIds :
    battle[r].created =>
      /\ battle[r].players = members[r]
      /\ Cardinality(members[r]) = MaxPlayers

\* The battle loop terminates (spec 4.6): once at most one player is
\* alive, the timer callback eventually ends the battle.  Checked here
\* with complete records, and in BattleStore with the records the store
\* really holds.
BattleEndsWhenDecided ==
  \A r \in RoomIds :
    (battle[r].running /\ Cardinality(Alive(r)) <= 1) ~> ~battle[r].running
=============================================================================
