SPECIFICATION Spec
CONSTANTS
  MaxOpen = 2
  Lun = {l1, l2}
  CmdLun = cmd
  Card = {c1}
  Habits = {"reopen", "overflow", "catalog", "badCatalog", "command", "stray"}
INVARIANTS
  ResetReachesAll
