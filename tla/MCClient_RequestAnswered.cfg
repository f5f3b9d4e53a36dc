CONSTANTS
  Rooms = {r1}
  Passwords = {pw1, pw2}
  LoginUids = {1, 2}
  MaxRequests = 4
  MaxActions = 1
  MaxPushes = 1
  None = None

SPECIFICATION Spec
CHECK_DEADLOCK FALSE

PROPERTY RequestAnswered
