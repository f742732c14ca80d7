CONSTANTS
  Width = 3
  csize = 2
  max_clust = 4
  n_fats = 2
  n_rootdir = 6
  Root = Root
  Name = {a, b}
  Long = {b}
  Lun = {1}
  Chunk = {4}
  MaxLen = 8
  MaxCuts = 0
  MaxCalls = 10
  Habits = {"writesOn"}
SPECIFICATION Spec
INVARIANT DataKept
CHECK_DEADLOCK FALSE
