SPECIFICATION Spec
CONSTANTS
  MaxOpen = 2
  Lun = {l1, l2}
  CmdLun = cmd
  Card = {c1, c2}
  Habits = {"swap", "ioError", "relative"}
INVARIANTS
  TableAgrees
  NoClobber
