---------------------------- MODULE AllocatorTests ----------------------------
(***************************************************************************)
(* The test program of the allocator, src/lecture/test2/main2.c: twelve    *)
(* suites, all in one process and in this order, or the one named by the   *)
(* arguments.  A suite begins with allocopt(), which takes the break back  *)
(* but clears no memory: what a suite finds there depends on those before. *)
(***************************************************************************)
EXTENDS Allocator

VARIABLES
  only,          \* <<algopt, i>>, the suite asked for, or <<>>: all of them
  todo,          \* the suites still to run
  suite,         \* the suite that runs
  step,          \* how many of its calls were made
  p,             \* the blocks that alloc() returned
  base,          \* sbrk(0) when the suite began
  cases,         \* how often TEST() was called
  SUCCESS_CASES

testVars == <<only, todo, suite, step, p, base, cases, SUCCESS_CASES>>

TOTAL_CASES == 246
None == <<"none", 0>>
AllAlgs == <<"FIRST_FIT", "BEST_FIT", "WORST_FIT">>

(* The limit a suite gives to allocopt().                                  *)
Bytes(i) == CASE i \in {0, 1} -> 256 [] i = 2 -> 1024 [] i = 3 -> 768

-----------------------------------------------------------------------------
(* The calls of a suite, in order: [i, n] is p[i] = alloc(n), and          *)
(* [i, n |-> -1] is dealloc(p[i]).                                         *)
Alloc(i, n) == [i |-> i, n |-> n]
Dealloc(i) == [i |-> i, n |-> -1]
Allocs(k, sizes) == [m \in 1..k |-> Alloc(m - 1, sizes[m])]
Deallocs(s) == [m \in 1..Len(s) |-> Dealloc(s[m])]
Same(k, n) == [m \in 1..k |-> n]
UpTo(k) == [m \in 1..k |-> m]

test_correct_space_allocation == Allocs(11, Same(11, 8)) \o Deallocs([m \in 1..11 |-> m - 1])
test_grow == Allocs(40, Same(40, 8)) \o Deallocs([m \in 1..40 |-> m - 1])
test_sbrk == Allocs(5, <<1, 1, 256, 256, 1>>)

test_first_fit_algorithm ==
  Allocs(11, Same(11, 4)) \o Deallocs(<<1, 3, 5>>) \o <<Alloc(11, 3), Alloc(12, 3), Alloc(13, 3)>>
test_best_fit_algorithm ==
  Allocs(11, UpTo(11)) \o Deallocs(<<1, 3, 5, 7>>) \o <<Alloc(11, 7), Alloc(12, 5), Alloc(13, 3)>>
test_worst_fit_algorithm ==
  Allocs(11, UpTo(11)) \o Deallocs(<<1, 3, 5, 7>>) \o <<Alloc(11, 3), Alloc(12, 3), Alloc(13, 3)>>

Calls(s) ==
  CASE s[2] = 0 -> test_correct_space_allocation
    [] s[2] = 1 -> (CASE s[1] = "FIRST_FIT" -> test_first_fit_algorithm
                      [] s[1] = "BEST_FIT"  -> test_best_fit_algorithm
                      [] s[1] = "WORST_FIT" -> test_worst_fit_algorithm)
    [] s[2] = 2 -> test_grow
    [] s[2] = 3 -> test_sbrk
    [] OTHER -> <<>>

(* Which of the freed blocks the last three calls are to get.              *)
Reused(algopt) ==
  CASE algopt = "FIRST_FIT" -> <<5, 3, 1>>
    [] algopt = "BEST_FIT"  -> <<7, 5, 3>>
    [] algopt = "WORST_FIT" -> <<7, 5, 3>>

-----------------------------------------------------------------------------
(* What is tested once the first `step' calls were made.                   *)

(* ptr[0] == 0 and ptr[1] == 1: nothing was written over them.             *)
Intact(b) == \A x \in (b + H)..(b + H + 7) : size[x] = Junk
Contents(b) == <<Intact(b), Intact(b)>>

SpaceTests ==
  LET i == step - 1
  IN  CASE i \in 0..3 \cup {9} /\ p[i] # NULL ->
             <<size[p[i]] = IF i = 9 THEN 40 ELSE 8 + H,
               allocinfo.free_size = INCREMENT - H - (8 + H) * (i + 1)>>
        [] i = 10 ->
             [k \in 1..6 |-> IF k < 6 THEN p[k + 4] # NULL ELSE p[10] = NULL]
             \o <<allocinfo.free_size = 0>>
             \o FlattenSeq([k \in 1..6 |-> IF p[k + 4] # NULL THEN Contents(p[k + 4]) ELSE <<>>])
        [] i = 21 -> <<allocinfo.free_size = 240>>
        [] OTHER -> <<>>

GrowTests ==
  LET i == step - 1
  IN  (IF i \in 30..39
         THEN <<size[p[i]] = IF i = 39 THEN 40 ELSE 8 + H,
                allocinfo.free_size = INCREMENT - H - (8 + H) * ((i % 10) + 1)>>
         ELSE <<>>)
      \o (IF i = 39 THEN FlattenSeq([k \in 1..5 |-> <<p[k + 34] # NULL>> \o Contents(p[k + 34])])
                    ELSE <<>>)
      \o (IF i = 79 THEN <<allocinfo.free_size = 1008>> ELSE <<>>)

(* The results of the last two calls are not kept: ptr is the one of the   *)
(* third.                                                                  *)
SbrkTests ==
  <<p[IF step <= 3 THEN step - 1 ELSE 2] # NULL
      /\ brk = base + INCREMENT * <<1, 1, 2, 3, 3>>[step]>>

FitTests ==
  CASE step = 11 -> [k \in 1..10 |-> p[k] - p[k - 1] =
                       IF suite[1] = "FIRST_FIT" THEN 20 ELSE H + k]
    [] Calls(suite)[step].i > 10 ->
         LET k == Calls(suite)[step].i IN <<p[k] = p[Reused(suite[1])[k - 10]]>>
    [] OTHER -> <<>>

Tests ==
  CASE suite[2] = 0 -> SpaceTests [] suite[2] = 1 -> FitTests
    [] suite[2] = 2 -> GrowTests  [] suite[2] = 3 -> SbrkTests

TEST ==
  /\ cases' = cases + Len(Tests')
  /\ SUCCESS_CASES' = SUCCESS_CASES + Cardinality({k \in DOMAIN Tests' : Tests'[k]})

-----------------------------------------------------------------------------
(* The steps.                                                              *)

AllSuites == [k \in 1..12 |-> <<AllAlgs[((k - 1) % 3) + 1], (k - 1) \div 3>>]

TestsInit ==
  /\ Init /\ program = "alloc.c"
  /\ only \in {<<>>} \cup {<<algopt, i>> : algopt \in Algs, i \in 0..4}
  /\ todo = IF only = <<>> THEN AllSuites ELSE <<only>>
  /\ suite = None /\ step = 0 /\ p = [i \in 0..40 |-> NULL] /\ base = 0
  /\ cases = 0 /\ SUCCESS_CASES = 0

SuiteOver == suite = None \/ step = Len(Calls(suite))

(* A suite that there is none of does nothing.                             *)
NextSuite ==
  /\ SuiteOver /\ todo # <<>>
  /\ IF Head(todo)[2] \in 0..3 THEN allocopt(Head(todo)[1], Bytes(Head(todo)[2]))
                               ELSE UNCHANGED vars
  /\ suite' = IF Head(todo)[2] \in 0..3 THEN Head(todo) ELSE None
  /\ todo' = Tail(todo) /\ step' = 0 /\ base' = brk' /\ p' = [i \in 0..40 |-> NULL]
  /\ UNCHANGED <<only, cases, SUCCESS_CASES>>

Returned == IF live' = live THEN NULL ELSE (CHOOSE b \in live' \ live : TRUE).at

CallAlloc ==
  /\ ~SuiteOver
  /\ LET c == Calls(suite)[step + 1]
     IN  c.n > 0 /\ alloc(c.n) /\ p' = [p EXCEPT ![c.i] = Returned]
  /\ step' = step + 1 /\ UNCHANGED <<only, todo, suite, base>>
  /\ TEST

(* The first suite leaves out the NULL it got; the others write to every   *)
(* block before they free it.                                              *)
CallDealloc ==
  /\ ~SuiteOver
  /\ LET c == Calls(suite)[step + 1]
     IN  /\ c.n < 0
         /\ \/ \E b \in live : b.at = p[c.i] /\ dealloc(b)
            \/ p[c.i] = NULL /\ suite[2] = 0 /\ UNCHANGED vars
         /\ p' = IF suite[2] = 1 THEN p ELSE [p EXCEPT ![c.i] = NULL]
  /\ step' = step + 1 /\ UNCHANGED <<only, todo, suite, base>>
  /\ TEST

TestsNext == fault = "none" /\ (NextSuite \/ CallAlloc \/ CallDealloc)

-----------------------------------------------------------------------------
(* Every case succeeds, for each suite alone and for all of them on the    *)
(* memory the others left, and then there were as many as main2.c says.    *)
TestsPass ==
  /\ fault = "none" /\ SUCCESS_CASES = cases
  /\ todo = <<>> /\ SuiteOver /\ only = <<>> => cases = TOTAL_CASES
=============================================================================
