\* An AddExp for u2 before its battle leaves a hash without hp in Redis.
CONSTANTS
  Uids = {u1, u2}
  Rows = {u1}
  Gains <- MCGains
  MaxAdds = 1
  MaxLosses = 0
  Absent = Absent
  Clients = {c1, c2}
  RoomIds = {r1}
  MaxPlayers = 2
  Damage = 10
  HpValues <- MCHpValues
  NoPlayer = NoPlayer

SPECIFICATION Spec

\* A decided, stopped battle with an empty topic may stay as it is.
CHECK_DEADLOCK FALSE

PROPERTY BattleEndsWhenDecided
