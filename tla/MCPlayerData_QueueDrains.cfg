\* u2 registered through zhuce, which inserts into User but not Player.
CONSTANTS
  Uids = {u1, u2}
  Rows = {u1}
  Gains <- MCGains
  MaxAdds = 3
  MaxLosses = 0
  Absent = Absent

SPECIFICATION Spec
CHECK_DEADLOCK FALSE

PROPERTY QueueDrains
