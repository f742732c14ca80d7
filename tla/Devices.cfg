CONSTANTS
  BUFSIZE = 2
  TextLen = 3
  Numbers = {21}
  MaxOpen = 1
  GoesOn = FALSE
  Habits = {}
SPECIFICATION Spec
INVARIANTS
  HostAgrees
  NumbersAgree
  DataTaken
PROPERTIES
  EveryOneAnswered
  ConfigKept
