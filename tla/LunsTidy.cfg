SPECIFICATION Spec
CONSTANTS
  MaxOpen = 3
  Lun = {l1, l2, l3}
  CmdLun = cmd
  Card = {c1}
  Habits = {"catalog"}
INVARIANTS
  NothingLost
PROPERTIES
  LunsAreFiles
