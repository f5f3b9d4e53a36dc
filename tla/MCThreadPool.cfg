CONSTANTS
  N = 2
  Keys <- MCKeys
  MaxTasks = 4
  NoTask = NoTask

SPECIFICATION Spec

INVARIANT TypeOK
INVARIANT KeyOrder
INVARIANT DrainedOnJoin

PROPERTY NoTaskLost
PROPERTY KSSpec

\* The pool stops for good once the destructor has joined its workers, and
\* the task bound ends every other behaviour.
CHECK_DEADLOCK FALSE
