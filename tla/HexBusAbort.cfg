SPECIFICATION FairSpec
CONSTANTS
  Device = {u1, u2}
  Host = host
  Everyone = everyone
  Nobody = nobody
  PabLen = 2
  ReplyLen = 1
  Messages <- LeakyMessages
  Chunk = 1
  MayAbort = TRUE
  Hurry = FALSE
  Blink <- MCBlink
\* A handler that returns with HSK low stops the bus for good.
CHECK_DEADLOCK FALSE
INVARIANTS
  OneTalker
  AllInOrder
PROPERTIES
  ReplyInTime
  BusFreed
