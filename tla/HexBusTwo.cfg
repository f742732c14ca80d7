SPECIFICATION FairSpec
CONSTANTS
  Device = {u1, u2}
  Host = host
  Everyone = everyone
  Nobody = nobody
  PabLen = 9
  ReplyLen = 3
  Messages <- AllMessages
  Chunk = 1
  MayAbort = FALSE
  Hurry = TRUE
  Blink <- MCBlink
INVARIANTS
  OnlyTheNamedTalks
  AllInOrder
PROPERTIES
  StableLines
  Transactions
  Answered
