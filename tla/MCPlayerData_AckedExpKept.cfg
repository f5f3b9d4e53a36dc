\* u1 has a Player row; a battle start finds player:u1 missing and an
\* AddExp of u1 runs before batchLoadFromMySQL reaches u1.
CONSTANTS
  Uids = {u1, u2}
  Rows = {u1}
  Gains <- MCGains
  MaxAdds = 1
  MaxLosses = 0
  Absent = Absent

SPECIFICATION Spec
CHECK_DEADLOCK FALSE

INVARIANT AckedExpKept
