SPECIFICATION Spec
CONSTANTS
  Device = {u1, u2}
  Host = host
  Everyone = everyone
  Nobody = nobody
  PabLen = 2
  ReplyLen = 1
  Messages <- WriteMessages
  Chunk = 1
  MayAbort = TRUE
  Hurry = TRUE
  Blink <- MCBlink
PROPERTIES
  ReplyInTime
