CONSTANTS
  Streams <- MCStreams
  OutFrames = {o1, o2}
  MaxSends = 2

SPECIFICATION Spec

INVARIANT TypeOK
INVARIANT FramingCorrect
INVARIANT WriteOrder

PROPERTY IdleSessionCloses

\* A session stops for good once it is closed, its timer has expired past
\* the limit and its read and writes have completed.
CHECK_DEADLOCK FALSE
PROPERTY FrameChannelSpec
