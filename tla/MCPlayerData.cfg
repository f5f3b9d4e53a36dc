\* u1 has a Player row; u2 registered through zhuce, which inserts into
\* User but not Player.  Redis may lose one hash.
CONSTANTS
  Uids = {u1, u2}
  Rows = {u1}
  Gains <- MCGains
  MaxAdds = 3
  MaxLosses = 1
  Absent = Absent

SPECIFICATION Spec

\* With MaxAdds requests handled and the topic drained or the consumer
\* thread ended, nothing can happen.
CHECK_DEADLOCK FALSE

INVARIANT TypeOK
INVARIANT SyncedWhenDrained
