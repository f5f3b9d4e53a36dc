\* One session logs in while the other broadcasts a WORLD chat message.
CONSTANTS
  Clients = {s1, s2}
  Uids = {u1, u2}
  MaxLogins = 2
  MaxChats = 1
  MaxCloses = 2
  Null = Null
  Absent = Absent
  NoUid = NoUid

SPECIFICATION Spec

\* Every behaviour ends once each session has closed and been cleaned up.
CHECK_DEADLOCK FALSE

PROPERTY GuangboExclusive
