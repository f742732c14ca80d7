CONSTANTS
  SIZE = 2
  MaxMsg = 2
  Chars = {10, 200}
  Rate = 1
  Flush = TRUE
SPECIFICATION Spec
INVARIANTS
  SleepIsSafe
PROPERTIES
  CarriesAll
  AllSent
