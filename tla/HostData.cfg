SPECIFICATION MCSpec
CONSTANTS
  Char = {10, 34, 65}
  MaxValue = 3
  MaxOther = 2
  Buflen = 5
  Half = 2
  Word = 32
  MaxValues = 3
  RecordHabits = {}
  Letter = {3, 4}
  MaxName = 3
  MaxEntries = 2
  FileSize = {99999, 100000, 1023999, 1024000, 40000000}
  ListingHabits = {}
  Chip = {"soft", "ds1307", "ds3231", "pcf8583"}
  Dates = {20231231, 20240228, 20230630, 20241231, 20920229}
  Build = 20240620
  MaxDays = 4
  MaxAway = 2
  CalendarHabits = {}
  PabLen = 9
  Hands = {"sleep", "recv"}
  Settled = TRUE
  Flaky = TRUE
INVARIANTS
  ReadsValues
  VerifyTells
  LaidOut
  ListingRight
  DatesRight
  YearFollows
  FreshMount
PROPERTIES
  NoNeedlessInit
