SPECIFICATION ProgramsSpec
CONSTANTS
  Program = {"alloc.c"}
  H = 16
  INCREMENT = 256
  Limit = {256, 768, 1024}
  Request = {1}
  Algs = {"FIRST_FIT", "BEST_FIT", "WORST_FIT"}
  MaxTests = 12
  MaxLive = 40
  Memory = 3584
  Data = {0, 1, 2, 3, 4, 5}
  Modulus = 8
  MaxInserts = 6
  Word = {1, 2, 3}
  MaxWords = 5
  THREAD_COUNT = 3
INVARIANTS TestsPass InsertsExact CountsExact
CHECK_DEADLOCK FALSE
