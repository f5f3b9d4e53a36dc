CONSTANTS
  Rooms = {r1, r2}
  Passwords = {pw1, pw2}
  LoginUids = {1, 2}
  MaxRequests = 5
  MaxActions = 1
  MaxPushes = 2
  None = None

SPECIFICATION Spec

\* The user may exit, and a request may wait forever.
CHECK_DEADLOCK FALSE

INVARIANT TypeOK
PROPERTY RequestAnsweredUnlessDropped
