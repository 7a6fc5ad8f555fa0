SPECIFICATION Spec
CONSTANTS
  Program = {"alloc.c", "alloc2.c"}
  H = 2
  INCREMENT = 8
  Limit = {8, 16, 24}
  Request = {1, 2, 9}
  Algs = {"FIRST_FIT", "BEST_FIT", "WORST_FIT"}
  MaxTests = 2
  MaxLive = 3
  Memory = 16
INVARIANTS TypeOK Tiling NoNeighbours AllFreed
PROPERTY LiveUntouched
CHECK_DEADLOCK FALSE
