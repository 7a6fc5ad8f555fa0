------------------------------ MODULE MCPrograms ------------------------------
(* Three small programs, of which a behaviour runs one.                    *)
EXTENDS AllocatorTests, SortedList, WordCount

VARIABLE running

programVars == <<vars, testVars, listVars, countVars, running>>

ProgramsInit ==
  /\ running \in {"main2.c", "lab6.c", "lab8.c"}
  /\ IF running = "main2.c" THEN TestsInit
     ELSE /\ program = "alloc.c" /\ tests = 0 /\ limit = 0 /\ algs = "FIRST_FIT" /\ free = <<>>
          /\ origin = NULL /\ heap = 0 /\ deallocCalled = FALSE /\ brk = 0 /\ size = <<>>
          /\ live = {} /\ fault = "none" /\ slips = {}
          /\ only = <<>> /\ todo = AllSuites /\ suite = None /\ step = 0 /\ p = <<>> /\ base = 0
          /\ cases = 0 /\ SUCCESS_CASES = 0
  /\ ListInit
  /\ IF running = "lab8.c" THEN CountInit
     ELSE /\ words = <<>> /\ where = "done" /\ launched = 0 /\ place = <<>> /\ next = <<>>
          /\ entry = <<>> /\ lock = Nobody /\ map = <<>> /\ printed = <<>>

ProgramsNext ==
  /\ UNCHANGED running
  /\ \/ running = "main2.c" /\ TestsNext /\ UNCHANGED <<listVars, countVars>>
     \/ running = "lab6.c" /\ ListNext /\ UNCHANGED <<vars, testVars, countVars>>
     \/ running = "lab8.c" /\ CountNext /\ UNCHANGED <<vars, testVars, listVars>>

ProgramsSpec == ProgramsInit /\ [][ProgramsNext]_programVars
=============================================================================
