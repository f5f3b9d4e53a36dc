CONSTANTS
  N = 2
  Keys <- MCKeys
  MaxTasks = 1
  NoTask = NoTask

SPECIFICATION Spec

PROPERTY ShutdownCompletes

CHECK_DEADLOCK FALSE
