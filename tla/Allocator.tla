------------------------------ MODULE Allocator ------------------------------
(***************************************************************************)
(* The allocator of src/lecture/test2: alloc.c, and alloc2.c, an earlier   *)
(* version with another dealloc().  A chunk starts with a header of H      *)
(* bytes (its size and the next pointer of the free list) and the caller   *)
(* gets the bytes behind it.                                               *)
(*                                                                         *)
(* `size' is the size field found at an address: 0 in memory nobody wrote  *)
(* to, Junk where the bytes were overwritten in part by something else.    *)
(* The caller fills what it is given.  The free list is the sequence of    *)
(* its addresses.  Undefined behaviour (a NULL or a junk header            *)
(* dereferenced, a header written past the break) ends a behaviour with    *)
(* `fault' set.  Printing is left out.                                     *)
(***************************************************************************)
EXTENDS Integers, Sequences, SequencesExt

CONSTANTS Program,      \* subset of {"alloc.c", "alloc2.c"}: the file compiled in
          H,            \* sizeof(struct header)
          INCREMENT,    \* what one sbrk() obtains
          Limit,        \* the sizes allocopt() is given
          Request,      \* the sizes alloc() is given
          Algs,         \* subset of {"FIRST_FIT", "BEST_FIT", "WORST_FIT"}
          MaxTests,     \* bound: calls of allocopt()
          MaxLive,      \* bound: blocks the caller holds
          Memory        \* sbrk() fails beyond this break (the process's data limit)

Junk == -1
NULL == -1
Addr == 0..(Memory + H)

ASSUME AllocatorAssumption ==
  /\ Program \subseteq {"alloc.c", "alloc2.c"} /\ H \in Nat \ {0}
  /\ INCREMENT \in Nat \ {0} /\ Limit \subseteq Nat /\ Request \subseteq Nat
  /\ Algs \subseteq {"FIRST_FIT", "BEST_FIT", "WORST_FIT"}
  /\ Memory \in Nat /\ MaxTests \in Nat /\ MaxLive \in Nat

VARIABLES
  program,        \* the file compiled in
  limit, algs,    \* the options
  tests,          \* calls of allocopt() so far
  free,           \* the free list from `head'; <<>> when head is NULL
  size,           \* the size field at each address
  origin,         \* heap_origin
  heap,           \* heap_end - heap_origin
  deallocCalled,
  brk,            \* the program break, relative to the first one
  live,           \* the blocks the caller holds: header address and request
  fault,          \* "none", or how the program left defined behaviour
  slips           \* history: where a size field stopped being true

options == <<program, limit, algs, tests>>
vars == <<options, free, size, origin, heap, deallocCalled, brk, live, fault, slips>>

-----------------------------------------------------------------------------
(* Memory.                                                                 *)

(* A header written at a, or n bytes written from a on.                    *)
Header(s, a, v) ==
  [x \in Addr |-> IF x = a THEN v ELSE IF x - a \in (1 - H)..(H - 1) THEN Junk ELSE s[x]]

Filled(s, a, n) == [x \in Addr |-> IF x + H > a /\ x < a + n THEN Junk ELSE s[x]]

(* Where a chunk ends.  The size field of the rest of the heap does not    *)
(* count its own header; every other one does.                             *)
Starts == {b.at : b \in live} \cup ToSet(free)

End(a) == a + size[a] + IF a + size[a] = brk - H /\ brk - H \notin Starts THEN H ELSE 0

Fault(f) ==
  /\ fault' = f
  /\ UNCHANGED <<options, free, size, origin, heap, deallocCalled, brk, live, slips>>

(* alloc() returns the block at a.                                         *)
Give(a, n) == live' = live \cup {[at |-> a, n |-> n]}

-----------------------------------------------------------------------------
(* alloc() before the first dealloc(): the free list is the rest of the    *)
(* heap.                                                                   *)

head == free[1]

(* No rest: a new region, even when the limit has been reached.            *)
FirstBlock(n) ==
  /\ free = <<>> /\ brk + INCREMENT <= Memory
  /\ LET next_block == brk + H + n
     IN  IF next_block + H > brk + INCREMENT
           THEN Fault("overrun")
           ELSE /\ size' = Filled(Header(Header(size, brk, n + H), next_block,
                                         INCREMENT - 2 * H - n), brk + H, n)
                /\ free' = <<next_block>>
                /\ origin' = brk /\ heap' = INCREMENT /\ brk' = brk + INCREMENT
                /\ Give(brk, n)
                /\ UNCHANGED <<options, deallocCalled, fault, slips>>

(* The rest is handed out whole: below the limit its size field is         *)
(* corrected, at the limit it is not.                                      *)
Whole(n) ==
  /\ size[head] > n
  /\ \/ heap < limit /\ size[head] < n + 2 * H
     \/ heap = limit /\ size[head] < n + H

LastBlock(n) ==
  /\ size' = Filled(IF heap < limit THEN [size EXCEPT ![head] = @ + H] ELSE size, head + H, n)
  /\ slips' = slips \cup (IF heap < limit THEN {} ELSE {"size not corrected"})
  /\ free' = <<>> /\ Give(head, n)
  /\ UNCHANGED <<options, origin, heap, deallocCalled, brk, fault>>

(* The rest is split, after growing it by one increment, of which sbrk()   *)
(* obtained `got' bytes.  If nothing is left head points past the end.     *)
Grows(n) == heap < limit /\ size[head] < n + H

Split(n, got) ==
  LET next_block == head + H + n
      left == size[head] + (IF Grows(n) THEN INCREMENT ELSE 0) - n - H
      block == Header(Header(size, next_block, left), head, n + H)
  IN  IF next_block + H > brk + got
        THEN Fault("overrun")
        ELSE /\ size' = Filled(IF left = 0 THEN [block EXCEPT ![head] = @ + H] ELSE block,
                               head + H, n)
             /\ free' = <<IF left = 0 THEN next_block + H ELSE next_block>>
             /\ brk' = brk + got /\ heap' = heap + got
             /\ slips' = slips \cup
                  (IF Grows(n) /\ head = brk THEN {"grown past the end"} ELSE {})
                  \cup (IF left = 0 /\ size[next_block + H] # 0 THEN {"stale head"} ELSE {})
             /\ Give(head, n)
             /\ UNCHANGED <<options, origin, deallocCalled, fault>>

OutOfMemory(n) == size[head] < n /\ heap = limit

(* The cases in the order the code tests them.                             *)
FromRest(n) ==
  \/ free = <<>> /\ FirstBlock(n)
  \/ /\ free # <<>>
     /\ \/ size[head] = Junk /\ Fault("junk")
        \/ /\ size[head] # Junk
           /\ \/ OutOfMemory(n) /\ UNCHANGED vars
              \/ ~OutOfMemory(n) /\ Whole(n) /\ LastBlock(n)
              \/ /\ ~OutOfMemory(n) /\ ~Whole(n)
                 /\ \/ ~Grows(n) /\ Split(n, 0)
                    \/ Grows(n) /\ brk + INCREMENT <= Memory /\ Split(n, INCREMENT)

(* sbrk() fails: alloc.c returns NULL, alloc2.c does not look.             *)
NeedsBreak(n) ==
  brk + INCREMENT > Memory /\
  (free # <<>> => size[head] # Junk /\ ~OutOfMemory(n) /\ ~Whole(n) /\ Grows(n))

SbrkUnchecked(n) ==
  NeedsBreak(n) /\ IF free = <<>> THEN Fault("overrun") ELSE Split(n, 0)

-----------------------------------------------------------------------------
(* alloc() after it.                                                       *)

(* As if the header of the rest were forgotten.                            *)
Fits_NoHeader(need) == {k \in DOMAIN free : size[free[k]] + H >= need}
Fits(need) == {k \in DOMAIN free : size[free[k]] >= need}

find_first_fit(need) == IF Fits(need) = {} THEN 0 ELSE CHOOSE k \in Fits(need) :
                          \A j \in Fits(need) : k <= j

find_best_fit(need) == IF Fits(need) = {} THEN 0 ELSE CHOOSE k \in Fits(need) :
  \A j \in Fits(need) : IF j < k THEN size[free[k]] < size[free[j]]
                                 ELSE size[free[k]] <= size[free[j]]

find_worst_fit(need) == IF Fits(need) = {} THEN 0 ELSE CHOOSE k \in Fits(need) :
  \A j \in Fits(need) : IF j < k THEN size[free[k]] > size[free[j]]
                                 ELSE size[free[k]] >= size[free[j]]

find_fit(need) == CASE algs = "FIRST_FIT" -> find_first_fit(need)
                    [] algs = "BEST_FIT"  -> find_best_fit(need)
                    [] algs = "WORST_FIT" -> find_worst_fit(need)

(* Where the search stops; it reads every header up to there.              *)
Searched(k) == 1..(IF algs = "FIRST_FIT" /\ k # 0 THEN k ELSE Len(free))

(* What is left of a chunk takes its place in the list: at the head, or    *)
(* behind the chunk that get_last() finds before it.                       *)
Relinked(k, new_block) == [free EXCEPT ![k] = new_block]

(* The chunk found is always split, so that a header is written behind the *)
(* block even where the chunk has no room left for one.                    *)
FromList(n) ==
  LET k == find_fit(n + H)
      temp == free[k]
      new_block == temp + H + n
  IN  IF \E j \in Searched(k) : size[free[j]] = Junk THEN Fault("junk")
      ELSE IF k = 0 THEN Fault("null")
      ELSE IF new_block + H > brk THEN Fault("overrun")
      ELSE IF \E j \in DOMAIN free : free[j] = new_block THEN Fault("junk")
      ELSE /\ size' = Filled(Header(Header(size, new_block, size[temp] - n - H), temp, n + H),
                             temp + H, n)
           /\ free' = Relinked(k, new_block)
           /\ slips' = slips \cup (IF new_block + H > End(temp) THEN {"short split"} ELSE {})
           /\ Give(temp, n)
           /\ UNCHANGED <<options, origin, heap, deallocCalled, brk, fault>>

alloc(n) ==
  /\ program = "alloc.c"
  /\ \/ ~deallocCalled /\ (FromRest(n) \/ (NeedsBreak(n) /\ UNCHANGED vars))
     \/ deallocCalled /\ FromList(n)

alloc2(n) ==
  /\ program = "alloc2.c"
  /\ \/ ~deallocCalled /\ (FromRest(n) \/ SbrkUnchecked(n))
     \/ deallocCalled /\ FromList(n)

-----------------------------------------------------------------------------
(* dealloc().                                                              *)

(* coalesce_unsorted() merges the first pair of chunks, in list order,     *)
(* that touch, and starts again until there is none.  The one in front     *)
(* keeps its place in the list.                                            *)
Touch(s, a, b) == a # b /\ a + s[a] = b

MergeWith(h, header) ==
  LET f == h.free
      s == h.size
      P == {p \in (DOMAIN f) \X (DOMAIN f) :
                                                  Touch(s, f[p[1]], f[p[2]])
                                                  \/ Touch(s, f[p[2]], f[p[1]])}
      p == CHOOSE p \in P : \A q \in P : p[1] < q[1] \/ (p[1] = q[1] /\ p[2] <= q[2])
      kept == IF Touch(s, f[p[1]], f[p[2]]) THEN p[1] ELSE p[2]
      gone == IF kept = p[1] THEN p[2] ELSE p[1]
  IN  IF P = {} THEN h
      ELSE [free |-> RemoveAt(f, gone),
            size |-> [s EXCEPT ![f[kept]] = @ + header + s[f[gone]]]]

(* As if merging counted the header of the chunk behind once more.         *)
MergeCountsHeader(h) == MergeWith(h, H)
MergeOnce(h) == MergeWith(h, 0)

(* As if it did not start again.                                           *)
CoalesceOnce(h) == MergeOnce(h)
coalesce_unsorted(h) ==
  LET M[i \in 0..Len(h.free)] == IF i = 0 THEN h ELSE MergeOnce(M[i - 1])
  IN  M[Len(h.free)]

(* alloc2.c walks the list comparing neighbours in the list only, and      *)
(* takes every size field to leave out the header.                         *)
Behind(s, a, b) == a + H + s[a] = b

WalkForward(w) ==
  IF w.i < Len(w.free) /\ Behind(w.size, w.free[w.i], w.free[w.i + 1])
    THEN [w EXCEPT !.size[w.free[w.i]] = @ + H + w.size[w.free[w.i + 1]],
                   !.free = RemoveAt(@, w.i + 1), !.coal = TRUE]
    ELSE w

WalkBack(w) ==
  IF w.i > 1 /\ Behind(w.size, w.free[w.i], w.free[w.i - 1])
    THEN LET f == IF w.i = 2 THEN Tail(w.free) ELSE w.free
             s == [w.size EXCEPT ![w.free[w.i]] = @ + H + w.size[w.free[w.i - 1]]]
             tail == Len(f) > 1 /\ s[f[2]] = 0 /\ Behind(s, f[1], f[2])
         IN  [w EXCEPT !.size = IF tail THEN [s EXCEPT ![f[1]] = @ + H] ELSE s,
                       !.free = IF tail THEN <<f[1]>> ELSE f,
                       !.i = IF w.i = 2 THEN 1 ELSE w.i, !.coal = TRUE]
    ELSE w

Walk(h) ==
  LET W[n \in 0..((Len(h.free) + 2) * (Len(h.free) + 2))] ==
        LET w == W[n - 1] IN
          IF n = 0 THEN [free |-> h.free, size |-> h.size, i |-> 1, coal |-> FALSE]
          ELSE IF w.i <= Len(w.free)
            THEN LET v == WalkBack(WalkForward(w)) IN [v EXCEPT !.i = @ + 1]
          ELSE IF w.coal THEN [w EXCEPT !.i = 1, !.coal = FALSE]
          ELSE w
  IN  W[(Len(h.free) + 2) * (Len(h.free) + 2)]

dealloc(b) ==
  LET freed == <<b.at>> \o free
      h == [free |-> freed, size |-> size]
      merged == IF program = "alloc.c" THEN coalesce_unsorted(h) ELSE Walk(h)
  IN  /\ b \in live
      /\ IF \E k \in DOMAIN freed : size[freed[k]] = Junk
           THEN Fault("junk")
           ELSE /\ free' = merged.free /\ size' = merged.size
                /\ live' = live \ {b} /\ deallocCalled' = TRUE
                /\ slips' = slips \cup
                     (IF program = "alloc2.c" /\ <<merged.free, merged.size>> # <<freed, size>>
                        THEN {"false merge"} ELSE {})
                /\ UNCHANGED <<options, origin, heap, brk, fault>>

-----------------------------------------------------------------------------
(* The other operations.                                                   *)

Info(reserve) ==
  LET sizes == [k \in DOMAIN free |-> size[free[k]]]
      temp == FoldLeft(+, 0, sizes)
  IN  [free_size |-> IF temp = limit THEN temp - reserve ELSE temp, free_chunks |-> Len(free)]

(* As if allocinfo() added up the sizes only.                              *)
InfoRaw == Info(0)
allocinfo == Info(H)

(* The break goes back to the start of the last region obtained, and the   *)
(* memory above it keeps its contents.                                     *)
resetalloc ==
  /\ brk' = IF origin = NULL THEN brk ELSE origin
  /\ free' = <<>> /\ live' = {} /\ deallocCalled' = FALSE /\ slips' = {}
  /\ UNCHANGED <<program, size, fault>>

Options(algopt, n) ==
  /\ tests < MaxTests /\ tests' = tests + 1
  /\ algs' = algopt /\ limit' = n /\ origin' = brk' /\ heap' = n

allocopt(algopt, n) == program = "alloc.c" /\ resetalloc /\ Options(algopt, n)
allocopt2(algopt, n) == program = "alloc2.c" /\ resetalloc /\ Options(algopt, n)

Init ==
  /\ program \in Program
  /\ tests = 0 /\ limit = 0 /\ algs = "FIRST_FIT" /\ free = <<>> /\ origin = NULL /\ heap = 0
  /\ deallocCalled = FALSE /\ brk = 0 /\ size = [a \in Addr |-> 0]
  /\ live = {} /\ fault = "none" /\ slips = {}

(* Nothing more is requested after a slip: what follows from it is seen    *)
(* when the blocks are freed.                                              *)
Next ==
  /\ fault = "none"
  /\ \/ /\ slips = {} /\ Cardinality(live) < MaxLive
        /\ \E n \in Request : alloc(n) \/ alloc2(n)
     \/ \E b \in live : dealloc(b)
     \/ slips = {} /\ \E a \in Algs, n \in Limit : allocopt(a, n) \/ allocopt2(a, n)

Spec == Init /\ [][Next]_vars

-----------------------------------------------------------------------------
TypeOK ==
  /\ tests \in 0..MaxTests /\ program \in Program /\ limit \in Limit \cup {0}
  /\ algs \in Algs \cup {"FIRST_FIT"} /\ free \in Seq(Addr)
  /\ size \in [Addr -> Nat \cup {Junk}] /\ origin \in Addr \cup {NULL}
  /\ heap \in Nat /\ deallocCalled \in BOOLEAN /\ brk \in 0..Memory
  /\ live \subseteq [at : Addr, n : Request]
  /\ fault \in {"none", "null", "junk", "overrun"}
  /\ slips \subseteq {"size not corrected", "grown past the end", "stale head",
                    "short split", "false merge"}

(* As long as none of the slips has happened, the blocks the caller holds  *)
(* and the free chunks tile the heap by their size fields: nothing         *)
(* overlaps, nothing is lost, and every request lies inside its block.     *)
Tiling ==
  slips = {} =>
    /\ \A a \in Starts : /\ size[a] # Junk /\ End(a) \in Starts \cup {brk}
                         /\ \A c \in Starts : c <= a \/ c >= End(a)
    /\ \A b \in live : b.at + H + b.n <= End(b.at) /\ b.at \notin ToSet(free)

(* dealloc() of alloc.c leaves no two free chunks that touch.              *)
NoNeighbours ==
  program = "alloc.c" /\ slips = {} =>
    \A j, k \in DOMAIN free : ~Touch(size, free[j], free[k])

(* When everything was freed, in any order, allocinfo() reports all of a   *)
(* heap at its limit but one header (main2.c:89 and 129 expect 240 of 256  *)
(* and 1008 of 1024), and alloc.c has made one chunk of it.                *)
AllFreed ==
  slips = {} /\ deallocCalled /\ live = {} =>
    /\ program = "alloc.c" => allocinfo.free_chunks = 1
    /\ brk - Min(Starts) = limit => allocinfo.free_size = limit - H

(* No operation changes the header of a block it was not given.            *)
LiveUntouched ==
  [][slips' = {} => \A b \in live \cap live' : size'[b.at] = size[b.at]]_vars
=============================================================================
