----------------------------- MODULE MapReduce -----------------------------
(***************************************************************************)
(* The map-reduce library of lecture/test3/src/interface.c: mr_exec splits *)
(* the input among mapper threads, joins them, splits the keys they emitted *)
(* among reducer threads, joins those and copies the final table out.      *)
(*                                                                         *)
(* The map and reduce functions are the caller's: all that matters of them *)
(* is which pairs they emit, in which order.  A thread takes the mutex of  *)
(* the table in one step, and adds the pair and gives it back in another.  *)
(*                                                                         *)
(* A definition whose name continues that of the one after it (X_Bug, X) is *)
(* not used: it is X with a mistake that X could have, and is there to see *)
(* that a property notices it.                                             *)
(***************************************************************************)
EXTENDS Integers, Sequences, FiniteSets

CONSTANTS
  Key, Value,
  Item,            \* input pairs
  Inputs,          \* the input lists that mr_exec may be given
  Map(_),          \* Map(x): the pairs that the map function emits for x
  Reduce(_, _),    \* Reduce(k, vs): those the reduce function emits for a key
  MaxThreads,      \* bound on mapper_count and on reducer_count
  MaxIntermediate, \* MAX_INTERMEDIATE
  MaxCalls         \* bound: calls of mr_exec, one after the other

ASSUME MapReduceAssumption ==
  /\ Inputs \subseteq Seq(Item)
  /\ \A x \in Item : Map(x) \in Seq(Key \X Value)
  /\ MaxThreads \in Nat \ {0} /\ MaxIntermediate \in Nat \ {0} /\ MaxCalls \in Nat

VARIABLES
  pc,              \* where mr_exec is
  t,               \* its loop counter
  calls,           \* how many calls have begun
  input, mapper_count, reducer_count,       \* the arguments
  thread,          \* the threads of the current phase
  intermediate,    \* intermediate[0 .. intermediate_count-1]
  intermediate_mutex,
  final_table,     \* the values of each key; a key that is not there has none
  final_mutex,
  output,          \* what the last call gave back
  refused          \* history: the pairs for which mr_emit_i returned -1

args  == <<calls, input, mapper_count, reducer_count>>
store == <<intermediate, intermediate_mutex, final_table, final_mutex, refused>>
vars  == <<pc, t, args, thread, store, output>>

Threads == 0..(MaxThreads - 1)
Free == -1           \* a mutex that no thread holds
NoThread == [task |-> "none", start |-> 0, end |-> 0, i |-> 0, emits |-> 0]

Init ==
  /\ pc = "idle" /\ t = 0 /\ calls = 0
  /\ input = <<>> /\ mapper_count = 1 /\ reducer_count = 1
  /\ thread = [n \in Threads |-> NoThread]
  /\ intermediate = <<>> /\ intermediate_mutex = Free
  /\ final_table = [k \in Key |-> <<>>] /\ final_mutex = Free
  /\ output = [k \in Key |-> <<>>]
  /\ refused = <<>>

-----------------------------------------------------------------------------
(* mr_exec.                                                                *)

(* The share of thread n when `count' elements go to `threads' threads; for *)
(* the last threads it may be empty, with a start past its end.            *)
Chunk_RoundedDown(count, threads) == count \div threads

Chunk(count, threads) == (count + threads - 1) \div threads

Share(task, n, count, threads) ==
  LET first == n * Chunk(count, threads)
      past  == (n + 1) * Chunk(count, threads)
  IN  [task |-> task, start |-> first, end |-> IF past > count THEN count ELSE past,
       i |-> first, emits |-> 0]

mr_exec(in, mappers, reducers) ==
  /\ pc = "idle" /\ calls < MaxCalls
  /\ calls' = calls + 1
  /\ input' = in /\ mapper_count' = mappers /\ reducer_count' = reducers
  /\ intermediate' = <<>> /\ refused' = <<>>
  /\ thread' = [n \in Threads |-> NoThread]
  /\ pc' = "map" /\ t' = 0
  /\ UNCHANGED <<intermediate_mutex, final_table, final_mutex, output>>

CreateMapper ==
  /\ pc = "map" /\ t < mapper_count
  /\ thread' = [thread EXCEPT ![t] = Share("map", t, Len(input), mapper_count)]
  /\ t' = t + 1
  /\ UNCHANGED <<pc, args, store, output>>

CreateReducer ==
  /\ pc = "reduce" /\ t < reducer_count
  /\ thread' = [thread EXCEPT ![t] = Share("reduce", t, Len(intermediate), reducer_count)]
  /\ t' = t + 1
  /\ UNCHANGED <<pc, args, store, output>>

(* The threads of a phase are created; then they are joined in order.      *)
AllCreated ==
  /\ \/ pc = "map" /\ t = mapper_count /\ pc' = "join mappers"
     \/ pc = "reduce" /\ t = reducer_count /\ pc' = "join reducers"
  /\ t' = 0
  /\ UNCHANGED <<args, thread, store, output>>

Finished(n) == thread[n].i >= thread[n].end

Join_Detached ==
  /\ pc \in {"join mappers", "join reducers"}
  /\ t < IF pc = "join mappers" THEN mapper_count ELSE reducer_count
  /\ t' = t + 1
  /\ UNCHANGED <<pc, args, thread, store, output>>

Join ==
  /\ pc \in {"join mappers", "join reducers"}
  /\ t < IF pc = "join mappers" THEN mapper_count ELSE reducer_count
  /\ Finished(t)
  /\ t' = t + 1
  /\ UNCHANGED <<pc, args, thread, store, output>>

AllJoined ==
  /\ \/ pc = "join mappers" /\ t = mapper_count /\ pc' = "reduce"
     \/ pc = "join reducers" /\ t = reducer_count /\ pc' = "output"
  /\ t' = 0
  /\ thread' = [n \in Threads |-> NoThread]
  /\ UNCHANGED <<args, store, output>>

(* The table is sorted and copied; it is not emptied.                      *)
WriteOutput ==
  /\ pc = "output"
  /\ output' = final_table
  /\ pc' = "idle"
  /\ UNCHANGED <<t, args, thread, store>>

-----------------------------------------------------------------------------
(* The emits, once thread n has the mutex.                                 *)

Entry(k) == {n \in 1..Len(intermediate) : intermediate[n].key = k}

Stored_Replaced(k, v) ==
  IF Entry(k) # {}
    THEN [n \in 1..Len(intermediate) |->
            IF n \in Entry(k) THEN [intermediate[n] EXCEPT !.value = <<v>>] ELSE intermediate[n]]
    ELSE Append(intermediate, [key |-> k, value |-> <<v>>])

Stored(k, v) ==
  IF Entry(k) # {}
    THEN [n \in 1..Len(intermediate) |->
            IF n \in Entry(k) THEN [intermediate[n] EXCEPT !.value = Append(@, v)]
                              ELSE intermediate[n]]
    ELSE Append(intermediate, [key |-> k, value |-> <<v>>])

mr_emit_i_LockKept(n, k, v) ==
  /\ intermediate_mutex = n
  /\ IF Entry(k) = {} /\ Len(intermediate) >= MaxIntermediate
       THEN /\ refused' = Append(refused, <<k, v>>)
            /\ UNCHANGED <<intermediate, intermediate_mutex>>
       ELSE intermediate' = Stored(k, v) /\ intermediate_mutex' = Free /\ UNCHANGED refused
  /\ UNCHANGED <<final_table, final_mutex>>

mr_emit_i_Unlimited(n, k, v) ==
  /\ intermediate_mutex = n
  /\ intermediate' = Stored(k, v)
  /\ intermediate_mutex' = Free
  /\ UNCHANGED <<final_table, final_mutex, refused>>

(* -1 is returned, and the pair lost, when the table is full.              *)
mr_emit_i(n, k, v) ==
  /\ intermediate_mutex = n
  /\ IF Entry(k) = {} /\ Len(intermediate) >= MaxIntermediate
       THEN refused' = Append(refused, <<k, v>>) /\ UNCHANGED intermediate
       ELSE intermediate' = Stored(k, v) /\ UNCHANGED refused
  /\ intermediate_mutex' = Free
  /\ UNCHANGED <<final_table, final_mutex>>

mr_emit_f(n, k, v) ==
  /\ final_mutex = n
  /\ final_table' = [final_table EXCEPT ![k] = Append(@, v)]
  /\ final_mutex' = Free
  /\ UNCHANGED <<intermediate, intermediate_mutex, refused>>

-----------------------------------------------------------------------------
(* map_thread and reduce_thread: the element at i, emit by emit.           *)

Emits(n) ==
  IF thread[n].task = "map" THEN Map(input[thread[n].i + 1])
  ELSE Reduce(intermediate[thread[n].i + 1].key, intermediate[thread[n].i + 1].value)

HasEmit(n) ==
  thread[n].task # "none" /\ ~Finished(n) /\ thread[n].emits < Len(Emits(n))

ThreadLock(n) ==
  /\ HasEmit(n)
  /\ \/ /\ thread[n].task = "map"
        /\ intermediate_mutex = Free /\ intermediate_mutex' = n
        /\ UNCHANGED final_mutex
     \/ /\ thread[n].task = "reduce"
        /\ final_mutex = Free /\ final_mutex' = n
        /\ UNCHANGED intermediate_mutex
  /\ UNCHANGED <<pc, t, args, thread, intermediate, final_table, refused, output>>

ThreadEmit(n) ==
  /\ HasEmit(n)
  /\ LET p == Emits(n)[thread[n].emits + 1]
     IN  IF thread[n].task = "map" THEN mr_emit_i(n, p[1], p[2]) ELSE mr_emit_f(n, p[1], p[2])
  /\ thread' = [thread EXCEPT ![n].emits = @ + 1]
  /\ UNCHANGED <<pc, t, args, output>>

ThreadNext(n) ==
  /\ thread[n].task # "none" /\ ~Finished(n) /\ thread[n].emits = Len(Emits(n))
  /\ thread' = [thread EXCEPT ![n].i = @ + 1, ![n].emits = 0]
  /\ UNCHANGED <<pc, t, args, store, output>>

-----------------------------------------------------------------------------

Caller == \E in \in Inputs, m, r \in 1..MaxThreads : mr_exec(in, m, r)

Main == CreateMapper \/ CreateReducer \/ AllCreated \/ Join \/ AllJoined \/ WriteOutput

Work(n) == ThreadLock(n) \/ ThreadEmit(n) \/ ThreadNext(n)

Stopped == pc = "idle" /\ calls = MaxCalls /\ UNCHANGED vars

Next == Caller \/ Main \/ (\E n \in Threads : Work(n)) \/ Stopped

Spec == Init /\ [][Next]_vars

(* The threads are preemptively scheduled; the map and reduce functions    *)
(* return.  Nothing makes the caller call again.                           *)
FairSpec == Spec /\ WF_vars(Main) /\ \A n \in Threads : WF_vars(Work(n))

-----------------------------------------------------------------------------
(* Properties.                                                             *)

ThreadType == [task : {"none", "map", "reduce"}, start : Nat, end : Nat, i : Nat, emits : Nat]

TypeOK ==
  /\ pc \in {"idle", "map", "join mappers", "reduce", "join reducers", "output"}
  /\ t \in 0..MaxThreads /\ calls \in 0..MaxCalls
  /\ input \in Seq(Item)
  /\ mapper_count \in 1..MaxThreads /\ reducer_count \in 1..MaxThreads
  /\ thread \in [Threads -> ThreadType]
  /\ intermediate \in Seq([key : Key, value : Seq(Value)])
  /\ Len(intermediate) <= MaxIntermediate
  /\ intermediate_mutex \in {Free} \cup Threads /\ final_mutex \in {Free} \cup Threads
  /\ final_table \in [Key -> Seq(Value)] /\ output \in [Key -> Seq(Value)]
  /\ refused \in Seq(Key \X Value)

(* How often a pair was emitted by the map function, stored, and refused.  *)
Occurrences(s, x) == Cardinality({n \in 1..Len(s) : s[n] = x})
Mapped(p) ==
  Cardinality(UNION {{<<n, m>> : m \in {m \in 1..Len(Map(input[n])) : Map(input[n])[m] = p}} :
                        n \in 1..Len(input)})
Grouped(p) ==
  Cardinality(UNION {{<<n, m>> : m \in {m \in 1..Len(intermediate[n].value) :
                                          <<intermediate[n].key, intermediate[n].value[m]>> = p}} :
                        n \in 1..Len(intermediate)})
Reduced(p) ==
  Cardinality(UNION {LET e == Reduce(intermediate[n].key, intermediate[n].value)
                     IN  {<<n, m>> : m \in {m \in 1..Len(e) : e[m] = p}} :
                        n \in 1..Len(intermediate)})

MapIsOver == pc \in {"reduce", "join reducers", "output"}

(* Whichever way the input is split and the mappers interleave, each input *)
(* pair is mapped once: every pair is stored under its key as often as it  *)
(* was emitted, except those mr_emit_i refused, which it does only for a   *)
(* key too many (61-88, 126-132, 159-174).                                 *)
MapComplete ==
  /\ \A n, m \in 1..Len(intermediate) : intermediate[n].key = intermediate[m].key => n = m
  /\ MapIsOver => \A p \in Key \X Value : Grouped(p) + Occurrences(refused, p) = Mapped(p)
  /\ refused # <<>> => /\ Len(intermediate) = MaxIntermediate
                       /\ \A n \in 1..Len(refused) : Entry(refused[n][1]) = {}

(* Each key is reduced once: when the reducers are joined, the final table *)
(* has what they emitted on top of what the last call left (134-140,       *)
(* 179-193).                                                               *)
ReduceComplete ==
  pc = "output" =>
    \A p \in Key \X Value :
      Occurrences(final_table[p[1]], p[2]) = Occurrences(output[p[1]], p[2]) + Reduced(p)

(* While threads of a phase run, their shares are disjoint, and once all   *)
(* are created the shares cover the input, or the keys, exactly (161-167,  *)
(* 181-187).                                                               *)
Within(n, e) == thread[n].task # "none" /\ thread[n].start <= e /\ e < thread[n].end
Elements == 0..((IF pc \in {"map", "join mappers"} THEN Len(input) ELSE Len(intermediate)) - 1)

SharesPartition ==
  /\ \A n, m \in Threads : \A e \in Elements : Within(n, e) /\ Within(m, e) => n = m
  /\ pc \in {"join mappers", "join reducers"} => \A e \in Elements : \E n \in Threads : Within(n, e)

(* Blocks until done, and no longer (interface.h 34): a call returns.      *)
Returns == (pc = "map") ~> (pc = "idle")
=============================================================================
