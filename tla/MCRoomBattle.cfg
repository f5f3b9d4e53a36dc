CONSTANTS
  Clients = {c1, c2}
  Players = {p1, p2, p3}
  RoomIds = {r1}
  MaxPlayers = 2
  Damage = 10
  HpValues <- MCHpValues
  PartialRecords = {}
  NoPlayer = NoPlayer

SPECIFICATION Spec

INVARIANT TypeOK
INVARIANT RoomWellFormed
INVARIANT OneBattlePerRoom
INVARIANT BattleEndsOnce
INVARIANT FightingRoomFrozen

PROPERTY BattleEndsWhenDecided
