CONSTANTS
  Kind = {"MMC", "MMCA", "SD", "SDHC", "LowVoltage"}
  Sectors = 2
  RETRIES = 3
  Half = 3
  Slow = 3
  Noisy = {"GO_IDLE_STATE", "SEND_IF_COND", "SEND_OP_COND", "CRC_ON_OFF", "SET_BLOCKLEN",
           "READ_SINGLE_BLOCK", "WRITE_BLOCK", "block"}
  Hands = {"idle", "GO_IDLE_STATE", "SEND_IF_COND", "APP_CMD", "SD_SEND_OP_COND", "READ_OCR",
           "SEND_OP_COND", "CRC_ON_OFF", "SET_BLOCKLEN",
           "READ_SINGLE_BLOCK", "receive", "WRITE_BLOCK", "send", "busy"}
SPECIFICATION Spec
INVARIANTS
  CardUsable
PROPERTIES
  OkMeansMoved
  OnlyAsked
  CallsReturn
