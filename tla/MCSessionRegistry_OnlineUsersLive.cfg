\* A session logs in and closes; the cleanup runs before or after its login handler.
CONSTANTS
  Clients = {s1, s2}
  Uids = {u1, u2}
  MaxLogins = 2
  MaxChats = 1
  MaxCloses = 2
  Null = Null
  Absent = Absent
  NoUid = NoUid

SPECIFICATION Spec

INVARIANT OnlineUsersLive

\* Every behaviour ends once each session has closed and been cleaned up.
CHECK_DEADLOCK FALSE
