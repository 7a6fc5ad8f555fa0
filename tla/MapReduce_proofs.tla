-------------------------- MODULE MapReduce_proofs --------------------------
(***************************************************************************)
(* The split of mr_exec, for any number of elements and threads; what      *)
(* becomes of the pairs, for any map and reduce functions; and that a call *)
(* is never stuck and comes to its end.                                    *)
(***************************************************************************)
EXTENDS MapReduce, SequenceTheorems, FiniteSetTheorems, TLAPS

-----------------------------------------------------------------------------
(* Arithmetic of the split.                                                *)

LEMMA Monotone ==
  ASSUME NEW a \in Nat, NEW b \in Nat, NEW c \in Nat, a <= b
  PROVE  a * c <= b * c
<1>1. PICK d \in Nat : b = a + d
      OBVIOUS
<1>2. b * c = a * c + d * c /\ d * c >= 0
      BY <1>1
<1> QED BY <1>2

(* Rounded up, the chunks of all the threads hold every element.           *)
LEMMA ChunksSuffice ==
  ASSUME NEW count \in Nat, NEW threads \in Nat \ {0}
  PROVE  /\ Chunk(count, threads) \in Nat
         /\ count <= threads * Chunk(count, threads)
<1> DEFINE c == Chunk(count, threads)
           r == (count + threads - 1) % threads
<1>1. c \in Nat /\ r \in 0..(threads - 1)
      BY DEF Chunk
<1>2. count + threads - 1 = threads * c + r
      BY DEF Chunk
<1>3. threads * c \in Nat
      BY <1>1
<1> HIDE DEF c, r
<1>4. count <= threads * c
      BY <1>1, <1>2, <1>3
<1> QED BY <1>1, <1>4 DEF c

(* Each element lies in the chunk of one thread.                           *)
LEMMA SomeChunk ==
  ASSUME NEW count \in Nat, NEW threads \in Nat \ {0}, NEW e \in 0..(count - 1)
  PROVE  \E n \in 0..(threads - 1) :
           n * Chunk(count, threads) <= e /\ e < (n + 1) * Chunk(count, threads)
<1> DEFINE c == Chunk(count, threads)
           n == e \div c
<1>1. c \in Nat /\ count <= threads * c
      BY ChunksSuffice
<1>2. c # 0
      <2>1. SUFFICES ASSUME c = 0 PROVE FALSE
            OBVIOUS
      <2>2. threads * c = 0
            BY <2>1
      <2> QED BY <2>2, <1>1
<1> HIDE DEF c
<1>3. n \in Nat /\ e = c * n + (e % c) /\ e % c \in 0..(c - 1)
      BY <1>1, <1>2
<1> HIDE DEF n
<1>4. n * c <= e /\ e < (n + 1) * c
      BY <1>1, <1>3
<1>5. n < threads
      <2>1. SUFFICES ASSUME threads <= n PROVE FALSE
            BY <1>3
      <2>2. threads * c <= n * c
            BY <2>1, <1>1, <1>3, Monotone
      <2>3. threads * c \in Nat /\ n * c \in Nat
            BY <1>1, <1>3
      <2> QED BY <2>2, <2>3, <1>1, <1>4
<1>6. n \in 0..(threads - 1)
      BY <1>3, <1>5
<1> QED BY <1>4, <1>6 DEF c

LEMMA OneChunk ==
  ASSUME NEW c \in Nat, NEW n \in Nat, NEW m \in Nat, NEW e \in Nat,
         n * c <= e, e < (n + 1) * c, m * c <= e, e < (m + 1) * c
  PROVE  n = m
<1>1. ASSUME NEW a \in Nat, NEW b \in Nat, a < b, e < (a + 1) * c, b * c <= e
      PROVE  FALSE
      <2>1. (a + 1) * c <= b * c
            BY <1>1, Monotone
      <2>2. (a + 1) * c \in Nat /\ b * c \in Nat
            OBVIOUS
      <2> QED BY <1>1, <2>1, <2>2
<1> QED BY <1>1

-----------------------------------------------------------------------------
(* What is known of the threads in each phase: those created so far have   *)
(* the share they were created with, and the others do nothing.            *)

Mapping  == pc \in {"map", "join mappers"}
Size    == IF Mapping THEN Len(input) ELSE Len(intermediate)
Role     == IF Mapping THEN "map" ELSE "reduce"
Shares    == IF Mapping THEN mapper_count ELSE reducer_count
Created  == IF pc \in {"map", "reduce"} THEN t ELSE Shares

HasShare(n) ==
  /\ thread[n].task = Role
  /\ thread[n].start = Share(Role, n, Size, Shares).start
  /\ thread[n].end = Share(Role, n, Size, Shares).end

SharesInv ==
  /\ pc \in {"map", "reduce"} => t <= Shares
  /\ pc \in {"idle", "output"} => \A n \in Threads : thread[n] = NoThread
  /\ pc \in {"map", "join mappers", "reduce", "join reducers"} =>
       /\ \A n \in Threads : n < Created => HasShare(n)
       /\ \A n \in Threads : n >= Created => thread[n] = NoThread

IInv == TypeOK /\ SharesInv

LEMMA Limits ==
  /\ MaxThreads \in Nat \ {0} /\ MaxIntermediate \in Nat \ {0} /\ MaxCalls \in Nat
BY MapReduceAssumption

(* The part of the type invariant that the split depends on.               *)
LEMMA SharesType == TypeOK => Shares \in 1..MaxThreads
BY DEF TypeOK, Shares

LEMMA RoleType == Role \in {"map", "reduce"}
BY DEF Role

LEMMA SizeType == TypeOK => Size \in Nat
<1> SUFFICES ASSUME TypeOK PROVE Size \in Nat
    OBVIOUS
<1>1. input \in Seq(Item) /\ intermediate \in Seq([key : Key, value : Seq(Value)])
      BY DEF TypeOK
<1>2. Len(input) \in Nat /\ Len(intermediate) \in Nat
      BY <1>1
<1> QED BY <1>2 DEF Size

LEMMA CreatedType == TypeOK => Created \in Nat
<1> SUFFICES ASSUME TypeOK PROVE Created \in Nat
    OBVIOUS
<1>1. t \in 0..MaxThreads
      BY DEF TypeOK
<1>2. Shares \in 1..MaxThreads
      BY SharesType
<1> QED BY <1>1, <1>2, Limits DEF Created

LEMMA ShareStart ==
  ASSUME NEW task, NEW n, NEW count, NEW threads
  PROVE  /\ Share(task, n, count, threads).task = task
         /\ Share(task, n, count, threads).start = n * Chunk(count, threads)
BY DEF Share

LEMMA ShareEnd ==
  ASSUME NEW count \in Nat, NEW threads \in Nat \ {0}, NEW n \in Nat, NEW task,
         NEW e \in 0..(count - 1)
  PROVE  e < Share(task, n, count, threads).end <=> e < (n + 1) * Chunk(count, threads)
<1>1. (n + 1) * Chunk(count, threads) \in Nat
      BY ChunksSuffice
<1> QED BY <1>1 DEF Share

LEMMA ShareType ==
  ASSUME NEW count \in Nat, NEW threads \in Nat \ {0}, NEW n \in Nat,
         NEW task \in {"map", "reduce"}
  PROVE  /\ Share(task, n, count, threads) \in ThreadType
         /\ Share(task, n, count, threads).end <= count
<1>1. Chunk(count, threads) \in Nat
      BY ChunksSuffice
<1>2. n * Chunk(count, threads) \in Nat /\ (n + 1) * Chunk(count, threads) \in Nat
      BY <1>1
<1> QED BY <1>2 DEF Share, ThreadType

(* The shares that have been handed out partition the elements.            *)
LEMMA SharesArePartition == IInv => SharesPartition
<1> SUFFICES ASSUME TypeOK, SharesInv PROVE SharesPartition
    BY DEF IInv
<1>1. Size \in Nat
      BY SizeType
<1>6. Shares \in 1..MaxThreads
      BY SharesType
<1>7. Shares \in Nat \ {0}
      BY <1>6, Limits
<1>2. Elements = 0..(Size - 1)
      BY DEF Elements, Size, Mapping
<1>3. ASSUME NEW n \in Threads, NEW e \in Elements, Within(n, e)
      PROVE  /\ pc \in {"map", "join mappers", "reduce", "join reducers"}
             /\ n * Chunk(Size, Shares) <= e /\ e < (n + 1) * Chunk(Size, Shares)
      <2>1. thread[n] # NoThread
            BY <1>3 DEF Within, NoThread
      <2>2. /\ pc \in {"map", "join mappers", "reduce", "join reducers"}
            /\ n < Created
            <3>1. pc \in {"idle", "map", "join mappers", "reduce", "join reducers", "output"}
                  BY DEF TypeOK
            <3>2. Created \in Nat
                  BY CreatedType
            <3>3. n \in Nat
                  BY Limits DEF Threads
            <3>4. pc \in {"map", "join mappers", "reduce", "join reducers"}
                  BY <2>1, <3>1 DEF SharesInv
            <3>5. ~(n >= Created)
                  BY <2>1, <3>4 DEF SharesInv
            <3>6. n < Created
                  BY <3>2, <3>3, <3>5
            <3> QED BY <3>4, <3>6
      <2>3. HasShare(n)
            BY <2>2 DEF SharesInv
      <2>4. n \in Nat /\ e \in 0..(Size - 1)
            BY <1>2, Limits DEF Threads
      <2>5. thread[n].start <= e /\ e < thread[n].end
            BY <1>3 DEF Within
      <2> DEFINE s == Share(Role, n, Size, Shares)
      <2>6. thread[n].start = s.start /\ thread[n].end = s.end
            BY <2>3 DEF HasShare
      <2>7. /\ s.start = n * Chunk(Size, Shares)
            /\ e < s.end <=> e < (n + 1) * Chunk(Size, Shares)
            BY <2>4, <1>1, <1>7, ShareStart, ShareEnd
      <2> HIDE DEF s
      <2> QED BY <2>2, <2>5, <2>6, <2>7
<1>4. ASSUME NEW n \in Threads, NEW m \in Threads, NEW e \in Elements, Within(n, e), Within(m, e)
      PROVE  n = m
      <2>1. Chunk(Size, Shares) \in Nat /\ n \in Nat /\ m \in Nat /\ e \in Nat
            BY <1>1, <1>2, <1>7, ChunksSuffice, Limits DEF Threads
      <2> QED BY <2>1, <1>3, <1>4, OneChunk
<1>5. ASSUME pc \in {"join mappers", "join reducers"}, NEW e \in Elements
      PROVE  \E n \in Threads : Within(n, e)
      <2>1. PICK n \in 0..(Shares - 1) :
              n * Chunk(Size, Shares) <= e /\ e < (n + 1) * Chunk(Size, Shares)
            BY <1>1, <1>2, <1>7, SomeChunk
      <2>2. n \in Threads /\ n \in Nat
            BY <1>6, Limits DEF Threads
      <2>3. HasShare(n)
            <3>1. Created = Shares
                  BY <1>5 DEF Created
            <3>2. n < Created
                  BY <3>1, <1>6, Limits
            <3> QED BY <1>5, <2>2, <3>2 DEF SharesInv
      <2>4. Within(n, e)
            <3> DEFINE s == Share(Role, n, Size, Shares)
            <3>1. e \in 0..(Size - 1)
                  BY <1>2
            <3>2. thread[n].task = Role /\ thread[n].start = s.start /\ thread[n].end = s.end
                  BY <2>3 DEF HasShare
            <3>3. /\ s.start = n * Chunk(Size, Shares)
                  /\ e < s.end <=> e < (n + 1) * Chunk(Size, Shares)
                  BY <2>2, <3>1, <1>1, <1>7, ShareStart, ShareEnd
            <3> HIDE DEF s
            <3>4. thread[n].task # "none"
                  BY <3>2, RoleType
            <3> QED BY <2>1, <3>2, <3>3, <3>4 DEF Within
      <2> QED BY <2>2, <2>4
<1> QED BY <1>4, <1>5 DEF SharesPartition

-----------------------------------------------------------------------------
(* The type invariant.                                                     *)

ReduceEmits == \A k \in Key : \A vs \in Seq(Value) : Reduce(k, vs) \in Seq(Key \X Value)

PairType == [key : Key, value : Seq(Value)]

(* A thread at work has a share of its phase, within bounds.               *)
LEMMA AtWork ==
  ASSUME TypeOK, SharesInv, NEW n \in Threads, thread[n].task # "none"
  PROVE  /\ pc \in {"map", "join mappers", "reduce", "join reducers"}
         /\ HasShare(n)
<1>1. thread[n] # NoThread
      BY DEF NoThread
<1>2. pc \in {"idle", "map", "join mappers", "reduce", "join reducers", "output"}
      BY DEF TypeOK
<1>3. pc \in {"map", "join mappers", "reduce", "join reducers"}
      BY <1>1, <1>2 DEF SharesInv
<1>4. ~(n >= Created)
      BY <1>1, <1>3 DEF SharesInv
<1>5. n \in Nat
      BY Limits DEF Threads
<1>6. Created \in Nat
      BY CreatedType
<1>7. n < Created
      BY <1>4, <1>5, <1>6
<1>8. HasShare(n)
      BY <1>3, <1>7 DEF SharesInv
<1> QED BY <1>3, <1>8

LEMMA InBounds ==
  ASSUME TypeOK, SharesInv, NEW n \in Threads, HasEmit(n)
  PROVE  thread[n].i + 1 \in 1..Size
<1>1. HasShare(n)
      BY AtWork DEF HasEmit
<1>2. Size \in Nat
      BY SizeType
<1>3. Shares \in Nat \ {0}
      BY SharesType, Limits
<1>4. n \in Nat
      BY Limits DEF Threads
<1>5. Share(Role, n, Size, Shares).end <= Size
      BY <1>2, <1>3, <1>4, RoleType, ShareType
<1>6. Share(Role, n, Size, Shares) \in ThreadType
      BY <1>2, <1>3, <1>4, RoleType, ShareType
<1>7. thread[n].end <= Size
      BY <1>1, <1>5 DEF HasShare
<1>8. thread[n].i \in Nat /\ thread[n].end \in Nat
      BY DEF TypeOK, ThreadType
<1>9. thread[n].i < thread[n].end
      BY <1>8 DEF HasEmit, Finished
<1> QED BY <1>2, <1>7, <1>8, <1>9

(* What a thread emits is a list of pairs.                                 *)
LEMMA EmitsType ==
  ASSUME ReduceEmits, TypeOK, SharesInv, NEW n \in Threads, HasEmit(n)
  PROVE  Emits(n)[thread[n].emits + 1] \in Key \X Value
<1>1. HasShare(n)
      BY AtWork DEF HasEmit
<1>2. thread[n].i + 1 \in 1..Size
      BY InBounds
<1>3. input \in Seq(Item)
      BY DEF TypeOK
<1>4. intermediate \in Seq(PairType)
      BY DEF TypeOK, PairType
<1>5. Emits(n) \in Seq(Key \X Value)
  <2>1. CASE thread[n].task = "map"
        <3>1. Size = Len(input)
              BY <1>1, <2>1 DEF HasShare, Role, Size
        <3>2. input[thread[n].i + 1] \in Item
              BY <1>2, <1>3, <3>1
        <3>3. Map(input[thread[n].i + 1]) \in Seq(Key \X Value)
              BY <3>2, MapReduceAssumption
        <3> QED BY <2>1, <3>3 DEF Emits
  <2>2. CASE thread[n].task # "map"
        <3>1. Size = Len(intermediate)
              BY <1>1, <2>2 DEF HasShare, Role, Size
        <3>2. intermediate[thread[n].i + 1] \in PairType
              BY <1>2, <1>4, <3>1
        <3>3. /\ intermediate[thread[n].i + 1].key \in Key
              /\ intermediate[thread[n].i + 1].value \in Seq(Value)
              BY <3>2 DEF PairType
        <3> QED BY <2>2, <3>3 DEF Emits, ReduceEmits
  <2> QED BY <2>1, <2>2
<1>6. thread[n].emits \in Nat
      BY DEF TypeOK, ThreadType
<1>7. thread[n].emits + 1 \in 1..Len(Emits(n))
      BY <1>5, <1>6 DEF HasEmit
<1> QED BY <1>5, <1>7

LEMMA StoredType ==
  ASSUME intermediate \in Seq(PairType), NEW k \in Key, NEW v \in Value
  PROVE  /\ Stored(k, v) \in Seq(PairType)
         /\ Len(Stored(k, v)) = Len(intermediate) + (IF Entry(k) # {} THEN 0 ELSE 1)
<1>0. Len(intermediate) \in Nat
      OBVIOUS
<1>1. CASE Entry(k) # {}
      <2> DEFINE s == [n \in 1..Len(intermediate) |->
                         IF n \in Entry(k) THEN [intermediate[n] EXCEPT !.value = Append(@, v)]
                                           ELSE intermediate[n]]
      <2>1. \A n \in 1..Len(intermediate) : s[n] \in PairType
            <3> SUFFICES ASSUME NEW n \in 1..Len(intermediate) PROVE s[n] \in PairType
                OBVIOUS
            <3>1. intermediate[n] \in PairType
                  OBVIOUS
            <3>2. Append(intermediate[n].value, v) \in Seq(Value)
                  BY <3>1 DEF PairType
            <3>3. [intermediate[n] EXCEPT !.value = Append(@, v)] \in PairType
                  BY <3>1, <3>2 DEF PairType
            <3> QED BY <3>1, <3>3
      <2>2. s \in Seq(PairType) /\ Len(s) = Len(intermediate)
            <3> HIDE DEF s
            <3>1. DOMAIN s = 1..Len(intermediate)
                  BY Zenon DEF s
            <3>2. s = [n \in 1..Len(intermediate) |-> s[n]]
                  BY Zenon DEF s
            <3>3. s \in [1..Len(intermediate) -> PairType]
                  BY <2>1, <3>2
            <3>4. s \in Seq(PairType)
                  BY <1>0, <3>3, SeqDef
            <3>5. Len(s) \in Nat /\ DOMAIN s = 1..Len(s)
                  BY <3>4
            <3> QED BY <1>0, <3>1, <3>4, <3>5
      <2> QED BY <1>0, <1>1, <2>2 DEF Stored
<1>2. CASE Entry(k) = {}
      <2>1. [key |-> k, value |-> <<v>>] \in PairType
            BY DEF PairType
      <2> QED BY <1>0, <1>2, <2>1 DEF Stored
<1> QED BY <1>1, <1>2

(* Whatever happens to the table, its type is kept.                        *)
LEMMA EmitTypes ==
  ASSUME TypeOK, NEW n \in Threads, NEW k \in Key, NEW v \in Value,
         mr_emit_i(n, k, v) \/ mr_emit_f(n, k, v)
  PROVE  /\ intermediate' \in Seq(PairType) /\ Len(intermediate') <= MaxIntermediate
         /\ intermediate_mutex' \in {Free} \cup Threads /\ final_mutex' \in {Free} \cup Threads
         /\ final_table' \in [Key -> Seq(Value)]
         /\ refused' \in Seq(Key \X Value)
<1>1. intermediate \in Seq(PairType) /\ Len(intermediate) <= MaxIntermediate
      BY DEF TypeOK, PairType
<1>2. intermediate_mutex \in {Free} \cup Threads /\ final_mutex \in {Free} \cup Threads
      BY DEF TypeOK
<1>3. final_table \in [Key -> Seq(Value)]
      BY DEF TypeOK
<1>4. refused \in Seq(Key \X Value)
      BY DEF TypeOK
<1>5. CASE mr_emit_i(n, k, v)
      <2>1. intermediate_mutex' = Free /\ UNCHANGED <<final_table, final_mutex>>
            BY <1>5 DEF mr_emit_i
      <2>2. CASE Entry(k) = {} /\ Len(intermediate) >= MaxIntermediate
            <3>1. refused' = Append(refused, <<k, v>>) /\ UNCHANGED intermediate
                  BY <1>5, <2>2 DEF mr_emit_i
            <3>2. Append(refused, <<k, v>>) \in Seq(Key \X Value)
                  BY <1>4
            <3> QED BY <1>1, <1>2, <1>3, <2>1, <3>1, <3>2
      <2>3. CASE ~(Entry(k) = {} /\ Len(intermediate) >= MaxIntermediate)
            <3>1. intermediate' = Stored(k, v) /\ UNCHANGED refused
                  BY <1>5, <2>3 DEF mr_emit_i
            <3>2. Stored(k, v) \in Seq(PairType)
                  BY <1>1, StoredType
            <3>3. Len(Stored(k, v)) <= MaxIntermediate
                  <4>1. Len(Stored(k, v)) = Len(intermediate) + (IF Entry(k) # {} THEN 0 ELSE 1)
                        BY <1>1, StoredType
                  <4>2. Len(intermediate) \in Nat
                        BY <1>1
                  <4> QED BY <4>1, <4>2, <1>1, <2>3, Limits
            <3> QED BY <1>2, <1>3, <1>4, <2>1, <3>1, <3>2, <3>3
      <2> QED BY <2>2, <2>3
<1>6. CASE mr_emit_f(n, k, v)
      <2>1. /\ final_table' = [final_table EXCEPT ![k] = Append(@, v)]
            /\ final_mutex' = Free
            /\ UNCHANGED <<intermediate, intermediate_mutex, refused>>
            BY <1>6 DEF mr_emit_f
      <2>2. Append(final_table[k], v) \in Seq(Value)
            BY <1>3
      <2>3. final_table' \in [Key -> Seq(Value)]
            BY <1>3, <2>1, <2>2
      <2> QED BY <1>1, <1>2, <1>4, <2>1, <2>3
<1> QED BY <1>5, <1>6

(* The type invariant in four parts.                                       *)
MainType ==
  /\ pc \in {"idle", "map", "join mappers", "reduce", "join reducers", "output"}
  /\ t \in 0..MaxThreads /\ calls \in 0..MaxCalls
  /\ input \in Seq(Item)
  /\ mapper_count \in 1..MaxThreads /\ reducer_count \in 1..MaxThreads

ThreadsType == thread \in [Threads -> ThreadType]

StoreType ==
  /\ intermediate \in Seq(PairType) /\ Len(intermediate) <= MaxIntermediate
  /\ intermediate_mutex \in {Free} \cup Threads /\ final_mutex \in {Free} \cup Threads
  /\ final_table \in [Key -> Seq(Value)]
  /\ refused \in Seq(Key \X Value)

OutputType == output \in [Key -> Seq(Value)]

LEMMA TypeParts == TypeOK <=> MainType /\ ThreadsType /\ StoreType /\ OutputType
BY DEF TypeOK, MainType, ThreadsType, StoreType, OutputType, PairType

LEMMA NoThreadType == NoThread \in ThreadType
BY DEF NoThread, ThreadType

LEMMA InitType == Init => TypeOK
<1> SUFFICES ASSUME Init PROVE TypeOK
    OBVIOUS
<1>1. MainType
      BY Limits DEF Init, MainType
<1>2. ThreadsType
      BY NoThreadType DEF Init, ThreadsType
<1>3. StoreType
      BY Limits DEF Init, StoreType
<1>4. OutputType
      BY DEF Init, OutputType
<1> QED BY <1>1, <1>2, <1>3, <1>4, TypeParts

LEMMA TypeStep ==
  ASSUME ReduceEmits, TypeOK, SharesInv, [Next]_vars
  PROVE  TypeOK'
<1>0. MainType /\ ThreadsType /\ StoreType /\ OutputType
      BY TypeParts
<1> SUFFICES MainType' /\ ThreadsType' /\ StoreType' /\ OutputType'
    BY DEF TypeOK, MainType, ThreadsType, StoreType, OutputType, PairType
<1>a. input \in Seq(Item)
      BY <1>0 DEF MainType
<1>b. t \in Nat /\ mapper_count \in 1..MaxThreads /\ reducer_count \in 1..MaxThreads
      <2>1. t \in 0..MaxThreads /\ mapper_count \in 1..MaxThreads /\ reducer_count \in 1..MaxThreads
            BY <1>0 DEF MainType
      <2>2. t \in Nat
            BY <2>1, Limits
      <2> QED BY <2>1, <2>2
<1>c. 0 \in 0..MaxThreads
      BY Limits
<1>1. CASE Caller
  <2>1. PICK in \in Inputs, m \in 1..MaxThreads, r \in 1..MaxThreads : mr_exec(in, m, r)
        BY <1>1 DEF Caller
  <2>2. calls + 1 \in 0..MaxCalls
        BY <1>0, <2>1, Limits DEF mr_exec, MainType
  <2>3. in \in Seq(Item)
        BY MapReduceAssumption
  <2>4. MainType'
        BY <2>1, <2>2, <2>3, Limits DEF mr_exec, MainType
  <2>5. ThreadsType'
        BY <2>1, NoThreadType DEF mr_exec, ThreadsType
  <2>6. StoreType'
        BY <1>0, <2>1, Limits DEF mr_exec, StoreType
  <2>7. OutputType'
        BY <1>0, <2>1 DEF mr_exec, OutputType
  <2> QED BY <2>4, <2>5, <2>6, <2>7
<1>2. CASE CreateMapper
  <2>1. t \in Threads /\ t \in Nat /\ t + 1 \in 0..MaxThreads
        BY <1>0, <1>2, Limits DEF CreateMapper, MainType, Threads
  <2>2. Len(input) \in Nat
        BY <1>a
  <2>3. mapper_count \in Nat \ {0}
        BY <1>b, Limits
  <2>4. Share("map", t, Len(input), mapper_count) \in ThreadType
        BY <2>1, <2>2, <2>3, ShareType
  <2>5. ThreadsType'
        BY <1>0, <1>2, <2>4 DEF CreateMapper, ThreadsType
  <2>6. MainType'
        BY <1>0, <1>2, <2>1 DEF CreateMapper, MainType, args
  <2>7. StoreType' /\ OutputType'
        BY <1>0, <1>2 DEF CreateMapper, store, StoreType, OutputType
  <2> QED BY <2>5, <2>6, <2>7
<1>3. CASE CreateReducer
  <2>1. t \in Threads /\ t \in Nat /\ t + 1 \in 0..MaxThreads
        BY <1>0, <1>3, Limits DEF CreateReducer, MainType, Threads
  <2>2. Len(intermediate) \in Nat
        BY <1>0 DEF StoreType
  <2>3. reducer_count \in Nat \ {0}
        BY <1>b, Limits
  <2>4. Share("reduce", t, Len(intermediate), reducer_count) \in ThreadType
        BY <2>1, <2>2, <2>3, ShareType
  <2>5. ThreadsType'
        BY <1>0, <1>3, <2>4 DEF CreateReducer, ThreadsType
  <2>6. MainType'
        BY <1>0, <1>3, <2>1 DEF CreateReducer, MainType, args
  <2>7. StoreType' /\ OutputType'
        BY <1>0, <1>3 DEF CreateReducer, store, StoreType, OutputType
  <2> QED BY <2>5, <2>6, <2>7
<1>4. CASE AllCreated
  <2>1. MainType'
        <3>1. pc' \in {"join mappers", "join reducers", "reduce", "output"}
              BY <1>4 DEF AllCreated
        <3>2. t' = 0 /\ UNCHANGED args
              BY <1>4 DEF AllCreated
        <3> QED BY <1>0, <1>c, <3>1, <3>2 DEF MainType, args
  <2>2. ThreadsType' /\ StoreType' /\ OutputType'
        BY <1>0, <1>4 DEF AllCreated, store, ThreadsType, StoreType, OutputType
  <2> QED BY <2>1, <2>2
<1>5. CASE Join
  <2>1. t + 1 \in 0..MaxThreads
        <3>1. t < mapper_count \/ t < reducer_count
              BY <1>5 DEF Join
        <3> QED BY <1>b, <3>1, Limits
  <2>2. MainType'
        BY <1>0, <1>5, <2>1 DEF Join, MainType, args
  <2>3. ThreadsType' /\ StoreType' /\ OutputType'
        BY <1>0, <1>5 DEF Join, store, ThreadsType, StoreType, OutputType
  <2> QED BY <2>2, <2>3
<1>6. CASE AllJoined
  <2>1. MainType'
        <3>1. pc' \in {"join mappers", "join reducers", "reduce", "output"}
              BY <1>6 DEF AllJoined
        <3>2. t' = 0 /\ UNCHANGED args
              BY <1>6 DEF AllJoined
        <3> QED BY <1>0, <1>c, <3>1, <3>2 DEF MainType, args
  <2>2. ThreadsType'
        BY <1>6, NoThreadType DEF AllJoined, ThreadsType
  <2>3. StoreType' /\ OutputType'
        BY <1>0, <1>6 DEF AllJoined, store, StoreType, OutputType
  <2> QED BY <2>1, <2>2, <2>3
<1>7. CASE WriteOutput
  <2>1. MainType'
        BY <1>0, <1>7 DEF WriteOutput, MainType, args
  <2>2. ThreadsType' /\ StoreType' /\ OutputType'
        BY <1>0, <1>7 DEF WriteOutput, store, ThreadsType, StoreType, OutputType
  <2> QED BY <2>1, <2>2
<1>8. ASSUME NEW n \in Threads, ThreadLock(n)
      PROVE  MainType' /\ ThreadsType' /\ StoreType' /\ OutputType'
  <2>1. MainType' /\ ThreadsType' /\ OutputType'
        BY <1>0, <1>8 DEF ThreadLock, args, MainType, ThreadsType, OutputType
  <2>2. /\ intermediate_mutex' \in {Free} \cup Threads
        /\ final_mutex' \in {Free} \cup Threads
        BY <1>0, <1>8 DEF ThreadLock, StoreType
  <2>3. StoreType'
        BY <1>0, <1>8, <2>2 DEF ThreadLock, StoreType
  <2> QED BY <2>1, <2>3
<1>9. ASSUME NEW n \in Threads, ThreadEmit(n)
      PROVE  MainType' /\ ThreadsType' /\ StoreType' /\ OutputType'
  <2> DEFINE p == Emits(n)[thread[n].emits + 1]
  <2>1. HasEmit(n)
        BY <1>9 DEF ThreadEmit
  <2>2. p \in Key \X Value
        BY <2>1, EmitsType
  <2>3. p[1] \in Key /\ p[2] \in Value
        BY <2>2
  <2>4. mr_emit_i(n, p[1], p[2]) \/ mr_emit_f(n, p[1], p[2])
        BY <1>9 DEF ThreadEmit
  <2>5. StoreType'
        BY <2>3, <2>4, EmitTypes DEF StoreType
  <2>6. MainType' /\ OutputType'
        BY <1>0, <1>9 DEF ThreadEmit, args, MainType, OutputType
  <2>7. ThreadsType'
        BY <1>0, <1>9 DEF ThreadEmit, ThreadsType, ThreadType
  <2> QED BY <2>5, <2>6, <2>7
<1>10. ASSUME NEW n \in Threads, ThreadNext(n)
       PROVE  MainType' /\ ThreadsType' /\ StoreType' /\ OutputType'
  <2>1. MainType' /\ StoreType' /\ OutputType'
        BY <1>0, <1>10 DEF ThreadNext, args, store, MainType, StoreType, OutputType
  <2>2. ThreadsType'
        <3>1. thread[n] \in ThreadType
              BY <1>0 DEF ThreadsType
        <3>2. [thread[n] EXCEPT !.i = @ + 1, !.emits = 0] \in ThreadType
              <4>1. thread[n].i + 1 \in Nat
                    BY <3>1 DEF ThreadType
              <4>2. [thread[n] EXCEPT !.i = @ + 1] \in ThreadType
                    BY <3>1, <4>1 DEF ThreadType
              <4> QED BY <4>2 DEF ThreadType
        <3>3. thread' = [thread EXCEPT ![n] = [thread[n] EXCEPT !.i = @ + 1, !.emits = 0]]
              BY <1>0, <1>10 DEF ThreadNext, ThreadsType
        <3> QED BY <1>0, <3>2, <3>3 DEF ThreadsType
  <2> QED BY <2>1, <2>2
<1>11. CASE UNCHANGED vars
  <2>1. MainType' /\ ThreadsType' /\ StoreType' /\ OutputType'
        BY <1>0, <1>11 DEF vars, args, store, MainType, ThreadsType, StoreType, OutputType
  <2> QED BY <2>1
<1> QED BY <1>1, <1>2, <1>3, <1>4, <1>5, <1>6, <1>7, <1>8, <1>9, <1>10, <1>11
        DEF Next, Main, Work, Stopped

-----------------------------------------------------------------------------
(* The shares stay as they were handed out.                                *)

LEMMA InitShares == Init => SharesInv
BY DEF Init, SharesInv

(* A step of a thread moves it along its share.  Only mappers add to the   *)
(* table, so the reducers' elements stay what was split.                   *)
LEMMA WorkKeepsShares ==
  ASSUME ReduceEmits, TypeOK, SharesInv, NEW n \in Threads, Work(n)
  PROVE  SharesInv'
<1>0. ThreadsType
      BY TypeParts
<1>1. thread[n].task # "none"
      BY DEF Work, ThreadLock, ThreadEmit, ThreadNext, HasEmit
<1>2. pc \in {"map", "join mappers", "reduce", "join reducers"} /\ HasShare(n)
      BY <1>1, AtWork
<1>3. UNCHANGED <<pc, t, input, mapper_count, reducer_count>>
      BY DEF Work, ThreadLock, ThreadEmit, ThreadNext, args
<1>4. thread' \in [Threads -> ThreadType]
      BY <1>0, TypeStep DEF Next, ThreadsType, TypeOK
<1>5. \A m \in Threads : /\ thread'[m].task = thread[m].task
                         /\ thread'[m].start = thread[m].start
                         /\ thread'[m].end = thread[m].end
      <2>1. CASE ThreadLock(n)
            BY <2>1 DEF ThreadLock
      <2>2. CASE ThreadEmit(n)
            BY <1>0, <2>2 DEF ThreadEmit, ThreadsType, ThreadType
      <2>3. CASE ThreadNext(n)
            BY <1>0, <2>3 DEF ThreadNext, ThreadsType, ThreadType
      <2> QED BY <2>1, <2>2, <2>3 DEF Work
<1>6. \A m \in Threads : m # n => thread'[m] = thread[m]
      BY <1>0 DEF Work, ThreadLock, ThreadEmit, ThreadNext, ThreadsType, ThreadType
<1>7. Role' = Role /\ Shares' = Shares /\ Created' = Created
      BY <1>3 DEF Role, Shares, Created, Mapping
<1>8. Size' = Size
      <2>1. CASE Mapping
            BY <1>3, <2>1 DEF Size, Mapping
      <2>2. CASE ~Mapping
            <3>1. thread[n].task = "reduce"
                  BY <1>2, <2>2 DEF HasShare, Role
            <3>2. UNCHANGED intermediate
                  BY <3>1 DEF Work, ThreadLock, ThreadEmit, ThreadNext, store, mr_emit_f
            <3> QED BY <1>3, <2>2, <3>2 DEF Size, Mapping
      <2> QED BY <2>1, <2>2
<1>9. \A m \in Threads : HasShare(m) => HasShare(m)'
      BY <1>5, <1>7, <1>8 DEF HasShare, Share, Chunk
<1>10. n \in Nat /\ Created \in Nat
       BY Limits, CreatedType DEF Threads
<1>11. n < Created
       <2>1. thread[n] # NoThread
             BY <1>1 DEF NoThread
       <2>2. ~(n >= Created)
             BY <1>2, <2>1 DEF SharesInv
       <2> QED BY <1>10, <2>2
<1>12. \A m \in Threads : m < Created' => HasShare(m)'
       BY <1>2, <1>7, <1>9 DEF SharesInv
<1>13. \A m \in Threads : m >= Created' => thread'[m] = NoThread
       <2> SUFFICES ASSUME NEW m \in Threads, m >= Created PROVE thread'[m] = NoThread
           BY <1>7
       <2>1. thread[m] = NoThread
             BY <1>2 DEF SharesInv
       <2>2. m # n
             BY <1>10, <1>11
       <2> QED BY <1>6, <2>1, <2>2
<1>14. pc' \in {"map", "reduce"} => t' <= Shares'
       BY <1>3, <1>7 DEF SharesInv
<1>15. ~(pc' \in {"idle", "output"})
       BY <1>2, <1>3
<1> QED BY <1>12, <1>13, <1>14, <1>15 DEF SharesInv

(* One more thread is created, with the share of its number.               *)
LEMMA CreateKeepsShares ==
  ASSUME TypeOK, SharesInv, pc \in {"map", "reduce"}, pc' = pc, t < Shares, t' = t + 1,
         thread' = [thread EXCEPT ![t] = Share(Role, t, Size, Shares)],
         UNCHANGED <<input, intermediate, mapper_count, reducer_count>>
  PROVE  SharesInv'
<1>1. ThreadsType
      BY TypeParts
<1>2. Shares \in Nat /\ Created = t /\ t \in Nat
      <2>1. Shares \in Nat
            BY SharesType, Limits
      <2>2. Created = t
            BY DEF Created
      <2> QED BY <2>1, <2>2, CreatedType
<1>3. \A n \in Threads : n \in Nat
      BY Limits DEF Threads
<1>4. Role' = Role /\ Size' = Size /\ Shares' = Shares /\ Created' = t + 1
      BY DEF Role, Size, Shares, Created, Mapping
<1>5. \A n \in Threads : n # t => thread'[n] = thread[n]
      BY <1>1 DEF ThreadsType
<1>6. \A n \in Threads : n = t => thread'[n] = Share(Role, n, Size, Shares)
      BY <1>1 DEF ThreadsType
<1>7. \A n \in Threads : n < t + 1 => HasShare(n)'
      <2> SUFFICES ASSUME NEW n \in Threads, n < t + 1 PROVE HasShare(n)'
          OBVIOUS
      <2>1. CASE n = t
            <3>1. thread'[n] = Share(Role, n, Size, Shares)
                  BY <1>6, <2>1
            <3>2. Share(Role, n, Size, Shares).task = Role
                  BY ShareStart
            <3> QED BY <1>4, <3>1, <3>2 DEF HasShare
      <2>2. CASE n # t
            <3>1. n < t
                  BY <1>2, <1>3, <2>2
            <3>2. HasShare(n)
                  BY <1>2, <3>1 DEF SharesInv
            <3> QED BY <1>4, <1>5, <2>2, <3>2 DEF HasShare
      <2> QED BY <2>1, <2>2
<1>8. \A n \in Threads : n >= t + 1 => thread'[n] = NoThread
      <2> SUFFICES ASSUME NEW n \in Threads, n >= t + 1 PROVE thread'[n] = NoThread
          OBVIOUS
      <2>1. n >= Created /\ n # t
            BY <1>2, <1>3
      <2>2. thread[n] = NoThread
            BY <2>1 DEF SharesInv
      <2> QED BY <1>5, <2>1, <2>2
<1>9. t' <= Shares'
      BY <1>2, <1>4
<1> QED BY <1>4, <1>7, <1>8, <1>9 DEF SharesInv

LEMMA SharesStep ==
  ASSUME ReduceEmits, TypeOK, SharesInv, [Next]_vars
  PROVE  SharesInv'
<1>0. MainType /\ ThreadsType
      BY TypeParts
<1>a. pc \in {"idle", "map", "join mappers", "reduce", "join reducers", "output"}
      BY <1>0 DEF MainType
<1>b. t \in Nat /\ mapper_count \in 1..MaxThreads /\ reducer_count \in 1..MaxThreads
      <2>1. t \in 0..MaxThreads /\ mapper_count \in 1..MaxThreads /\ reducer_count \in 1..MaxThreads
            BY <1>0 DEF MainType
      <2>2. t \in Nat
            BY <2>1, Limits
      <2> QED BY <2>1, <2>2
<1>c. mapper_count \in Nat /\ reducer_count \in Nat
      BY <1>b, Limits
<1>d. \A n \in Threads : n \in Nat
      BY Limits DEF Threads
<1>1. CASE Caller
  <2>1. /\ pc' = "map" /\ t' = 0 /\ thread' = [n \in Threads |-> NoThread]
        /\ mapper_count' \in Nat
        BY <1>1, Limits DEF Caller, mr_exec
  <2>2. Created' = 0 /\ Shares' = mapper_count'
        BY <2>1 DEF Created, Shares, Mapping
  <2>3. \A n \in Threads : ~(n < Created')
        BY <1>d, <2>2
  <2>4. t' <= Shares'
        BY <2>1, <2>2
  <2> QED BY <2>1, <2>3, <2>4 DEF SharesInv
<1>2. CASE CreateMapper
  <2>1. /\ pc = "map" /\ pc' = pc /\ t < mapper_count /\ t' = t + 1
        /\ thread' = [thread EXCEPT ![t] = Share("map", t, Len(input), mapper_count)]
        /\ UNCHANGED <<input, intermediate, mapper_count, reducer_count>>
        BY <1>2 DEF CreateMapper, args, store
  <2>2. Role = "map" /\ Size = Len(input) /\ Shares = mapper_count
        BY <2>1 DEF Role, Size, Shares, Mapping
  <2> QED BY <2>1, <2>2, CreateKeepsShares
<1>3. CASE CreateReducer
  <2>1. /\ pc = "reduce" /\ pc' = pc /\ t < reducer_count /\ t' = t + 1
        /\ thread' = [thread EXCEPT ![t] = Share("reduce", t, Len(intermediate), reducer_count)]
        /\ UNCHANGED <<input, intermediate, mapper_count, reducer_count>>
        BY <1>3 DEF CreateReducer, args, store
  <2>2. Role = "reduce" /\ Size = Len(intermediate) /\ Shares = reducer_count
        BY <2>1 DEF Role, Size, Shares, Mapping
  <2> QED BY <2>1, <2>2, CreateKeepsShares
<1>4. CASE AllCreated
  <2>1. /\ \/ pc = "map" /\ t = mapper_count /\ pc' = "join mappers"
           \/ pc = "reduce" /\ t = reducer_count /\ pc' = "join reducers"
        /\ UNCHANGED <<thread, input, intermediate, mapper_count, reducer_count>>
        BY <1>4 DEF AllCreated, args, store
  <2>2. Role' = Role /\ Size' = Size /\ Shares' = Shares
        BY <2>1 DEF Role, Size, Shares, Mapping
  <2>3. Created = Shares /\ Created' = Shares'
        BY <2>1 DEF Created, Shares, Mapping
  <2>4. \A n \in Threads : HasShare(n) => HasShare(n)'
        BY <2>1, <2>2 DEF HasShare, Share, Chunk
  <2> QED BY <2>1, <2>2, <2>3, <2>4 DEF SharesInv
<1>5. CASE Join
  <2>1. /\ pc \in {"join mappers", "join reducers"}
        /\ UNCHANGED <<pc, thread, input, intermediate, mapper_count, reducer_count>>
        BY <1>5 DEF Join, args, store
  <2>2. Role' = Role /\ Size' = Size /\ Shares' = Shares /\ Created' = Created
        BY <2>1 DEF Role, Size, Shares, Created, Mapping
  <2>4. \A n \in Threads : HasShare(n) => HasShare(n)'
        BY <2>1, <2>2 DEF HasShare, Share, Chunk
  <2> QED BY <2>1, <2>2, <2>4 DEF SharesInv
<1>6. CASE AllJoined
  <2>1. pc' \in {"reduce", "output"} /\ t' = 0 /\ thread' = [n \in Threads |-> NoThread]
        /\ UNCHANGED reducer_count
        BY <1>6 DEF AllJoined, args
  <2>2. pc' = "reduce" => Created' = 0 /\ Shares' = reducer_count
        BY <2>1 DEF Created, Shares, Mapping
  <2>3. pc' = "reduce" => \A n \in Threads : ~(n < Created')
        BY <1>d, <2>2
  <2>4. pc' = "reduce" => t' <= Shares'
        BY <1>c, <2>1, <2>2
  <2> QED BY <2>1, <2>3, <2>4 DEF SharesInv
<1>7. CASE WriteOutput
  BY <1>7 DEF WriteOutput, SharesInv
<1>8. CASE \E n \in Threads : Work(n)
  BY <1>8, WorkKeepsShares
<1>9. CASE UNCHANGED vars
  <2>1. UNCHANGED <<pc, t, thread, input, intermediate, mapper_count, reducer_count>>
        BY <1>9 DEF vars, args, store
  <2>2. Role' = Role /\ Size' = Size /\ Shares' = Shares /\ Created' = Created
        BY <2>1 DEF Role, Size, Shares, Created, Mapping
  <2>4. \A n \in Threads : HasShare(n) => HasShare(n)'
        BY <2>1, <2>2 DEF HasShare, Share, Chunk
  <2> QED BY <2>1, <2>2, <2>4 DEF SharesInv
<1> QED BY <1>1, <1>2, <1>3, <1>4, <1>5, <1>6, <1>7, <1>8, <1>9 DEF Next, Main, Stopped

-----------------------------------------------------------------------------

LEMMA Invariance == ASSUME ReduceEmits PROVE Spec => []IInv
<1>1. Init => IInv
      BY InitType, InitShares DEF IInv
<1>2. IInv /\ [Next]_vars => IInv'
      BY TypeStep, SharesStep DEF IInv
<1> QED BY <1>1, <1>2, PTL DEF Spec

(* Whatever the inputs, the threads and the limits are, the intermediate   *)
(* table never grows past MAX_INTERMEDIATE, nobody reads outside of it, and *)
(* only typed pairs are in the tables (61-105), if the reduce function     *)
(* emits pairs.                                                            *)
THEOREM TypeCorrect == ASSUME ReduceEmits PROVE Spec => []TypeOK
<1>1. IInv => TypeOK
      BY DEF IInv
<1> QED BY <1>1, Invariance, PTL

(* For any number of inputs, keys and threads, every element goes to one   *)
(* thread exactly (161-167, 181-187), also when there are more threads than *)
(* elements or the division leaves a rest.                                 *)
THEOREM SplitCorrect == ASSUME ReduceEmits PROVE Spec => []SharesPartition
BY Invariance, SharesArePartition, PTL

-----------------------------------------------------------------------------
(* What the properties count.  A cell is a place of the phase where the    *)
(* caller's function emits a pair, the m-th emit for element n; it is done *)
(* once the thread whose share the element is in has passed it.            *)

Row(n) == IF Mapping THEN Map(input[n])
                     ELSE Reduce(intermediate[n].key, intermediate[n].value)

Cell(n, m, p) == n \in 1..Size /\ m \in 1..Len(Row(n)) /\ Row(n)[m] = p

Passed(w, n, m) ==
  /\ Within(w, n - 1)
  /\ \/ n - 1 < thread[w].i
     \/ n - 1 = thread[w].i /\ m <= thread[w].emits

Cells(p) == {q \in Nat \X Nat : Cell(q[1], q[2], p)}
Emitted(p) ==
  {q \in Nat \X Nat : Cell(q[1], q[2], p) /\ \E w \in Threads : Passed(w, q[1], q[2])}

(* The places of the table where a pair is stored.                         *)
Place(n, m, p) ==
  /\ n \in 1..Len(intermediate) /\ m \in 1..Len(intermediate[n].value)
  /\ <<intermediate[n].key, intermediate[n].value[m]>> = p

Places(p) == {q \in Nat \X Nat : Place(q[1], q[2], p)}

(* No thread has gone back behind its start, and those that were joined    *)
(* are at the end of their share.                                          *)
ProgressInv ==
  /\ \A n \in Threads : thread[n].start <= thread[n].i
  /\ pc \in {"join mappers", "join reducers"} =>
       /\ t <= Shares
       /\ \A n \in Threads : n < t => Finished(n)

(* A key has one entry; a pair was refused only for want of room.          *)
KeysInv ==
  /\ \A n, m \in 1..Len(intermediate) : intermediate[n].key = intermediate[m].key => n = m
  /\ refused # <<>> => /\ Len(intermediate) = MaxIntermediate
                       /\ \A n \in 1..Len(refused) : Entry(refused[n][1]) = {}

(* The account of the pair p: what was emitted is what is in the tables,   *)
(* at every moment of each phase.                                          *)
MapAccount(p) ==
  /\ IsFiniteSet(Emitted(p)) /\ IsFiniteSet(Places(p))
  /\ Cardinality(Places(p)) + Occurrences(refused, p) = Cardinality(Emitted(p))

ReduceAccount(p) ==
  /\ IsFiniteSet(Emitted(p))
  /\ Occurrences(final_table[p[1]], p[2])
       = Occurrences(output[p[1]], p[2]) + Cardinality(Emitted(p))

Phase == IF Mapping THEN "map" ELSE IF pc \in {"reduce", "join reducers"} THEN "reduce" ELSE pc

Account ==
  /\ KeysInv
  /\ Phase = "map" => \A p \in Key \X Value : MapAccount(p)
  /\ Phase \in {"reduce", "output"} =>
       \A p \in Key \X Value : Grouped(p) + Occurrences(refused, p) = Mapped(p)
  /\ Phase = "reduce" => \A p \in Key \X Value : ReduceAccount(p)
  /\ Phase \in {"idle", "map"} => final_table = output
  /\ Phase = "output" =>
       \A p \in Key \X Value :
         Occurrences(final_table[p[1]], p[2]) = Occurrences(output[p[1]], p[2]) + Reduced(p)

-----------------------------------------------------------------------------
(* Counting.                                                               *)

LEMMA OccurrencesAppend ==
  ASSUME NEW S, NEW s \in Seq(S), NEW y \in S, NEW x
  PROVE  /\ Occurrences(s, x) \in Nat
         /\ Occurrences(Append(s, y), x) = Occurrences(s, x) + (IF y = x THEN 1 ELSE 0)
<1> DEFINE A == {n \in 1..Len(s) : s[n] = x}
           B == {n \in 1..Len(Append(s, y)) : Append(s, y)[n] = x}
<1>1. Len(s) \in Nat /\ Len(s) + 1 \notin A
      OBVIOUS
<1>2. IsFiniteSet(A)
      <2>1. IsFiniteSet(1..Len(s))
            BY <1>1, FS_Interval
      <2> QED BY <2>1, FS_Subset
<1>3. B = IF y = x THEN A \cup {Len(s) + 1} ELSE A
      BY AppendProperties
<1>4. Cardinality(A) \in Nat
      BY <1>2, FS_CardinalityType
<1>5. Cardinality(A \cup {Len(s) + 1}) = Cardinality(A) + 1
      BY <1>1, <1>2, FS_AddElement
<1>6. Occurrences(s, x) = Cardinality(A) /\ Occurrences(Append(s, y), x) = Cardinality(B)
      BY DEF Occurrences
<1> HIDE DEF A, B
<1> QED BY <1>3, <1>4, <1>5, <1>6

LEMMA NoOccurrence == ASSUME NEW x PROVE Occurrences(<<>>, x) = 0
<1>1. {n \in 1..Len(<<>>) : <<>>[n] = x} = {}
      OBVIOUS
<1> QED BY <1>1, FS_EmptySet DEF Occurrences

(* The sets that the properties count, cell by cell.                       *)
LEMMA MappedCells ==
  ASSUME NEW p, Mapping, input \in Seq(Item)
  PROVE  Mapped(p) = Cardinality(Cells(p))
<1> DEFINE M == UNION {{<<n, m>> : m \in {m \in 1..Len(Map(input[n])) : Map(input[n])[m] = p}} :
                         n \in 1..Len(input)}
<1>0. Len(input) \in Nat /\ \A n \in 1..Len(input) : Len(Map(input[n])) \in Nat
      <2>1. \A n \in 1..Len(input) : Map(input[n]) \in Seq(Key \X Value)
            BY MapReduceAssumption
      <2> QED BY <2>1
<1>1. \A n, m : Cell(n, m, p) <=> /\ n \in 1..Len(input) /\ m \in 1..Len(Map(input[n]))
                                  /\ Map(input[n])[m] = p
      BY DEF Cell, Size, Row
<1>2. \A q : q \in M <=> \E n \in 1..Len(input) : \E m \in 1..Len(Map(input[n])) :
                           Map(input[n])[m] = p /\ q = <<n, m>>
      OBVIOUS
<1>3. \A q : q \in Cells(p) <=> \E n \in 1..Len(input) : \E m \in 1..Len(Map(input[n])) :
                           Map(input[n])[m] = p /\ q = <<n, m>>
      <2>1. ASSUME NEW q, q \in Cells(p)
            PROVE  \E n \in 1..Len(input) : \E m \in 1..Len(Map(input[n])) :
                           Map(input[n])[m] = p /\ q = <<n, m>>
            <3>1. q \in Nat \X Nat /\ Cell(q[1], q[2], p)
                  BY <2>1 DEF Cells
            <3> QED BY <3>1, <1>1
      <2>2. ASSUME NEW n \in 1..Len(input), NEW m \in 1..Len(Map(input[n])), Map(input[n])[m] = p
            PROVE  <<n, m>> \in Cells(p)
            <3>1. Cell(n, m, p)
                  BY <1>1, <2>2
            <3>2. <<n, m>> \in Nat \X Nat
                  BY <1>0
            <3> QED BY <3>1, <3>2 DEF Cells
      <2> QED BY <2>1, <2>2
<1>4. M = Cells(p)
      BY <1>2, <1>3
<1> QED BY <1>4 DEF Mapped

LEMMA ReducedCells ==
  ASSUME NEW p, ReduceEmits, ~Mapping, intermediate \in Seq(PairType)
  PROVE  Reduced(p) = Cardinality(Cells(p))
<1> DEFINE R(n) == Reduce(intermediate[n].key, intermediate[n].value)
           M == UNION {LET e == Reduce(intermediate[n].key, intermediate[n].value)
                       IN  {<<n, m>> : m \in {m \in 1..Len(e) : e[m] = p}} :
                         n \in 1..Len(intermediate)}
<1>0. Len(intermediate) \in Nat /\ \A n \in 1..Len(intermediate) : Len(R(n)) \in Nat
      <2>1. \A n \in 1..Len(intermediate) : intermediate[n] \in PairType
            OBVIOUS
      <2>2. \A n \in 1..Len(intermediate) : R(n) \in Seq(Key \X Value)
            BY <2>1 DEF ReduceEmits, PairType
      <2> QED BY <2>2
<1>1. \A n, m : Cell(n, m, p) <=> /\ n \in 1..Len(intermediate) /\ m \in 1..Len(R(n))
                                  /\ R(n)[m] = p
      BY DEF Cell, Size, Row
<1>2. \A q : q \in M <=> \E n \in 1..Len(intermediate) : \E m \in 1..Len(R(n)) :
                           R(n)[m] = p /\ q = <<n, m>>
      OBVIOUS
<1> HIDE DEF R
<1>3. \A q : q \in Cells(p) <=> \E n \in 1..Len(intermediate) : \E m \in 1..Len(R(n)) :
                           R(n)[m] = p /\ q = <<n, m>>
      <2>1. ASSUME NEW q, q \in Cells(p)
            PROVE  \E n \in 1..Len(intermediate) : \E m \in 1..Len(R(n)) :
                           R(n)[m] = p /\ q = <<n, m>>
            <3>1. q \in Nat \X Nat /\ Cell(q[1], q[2], p)
                  BY <2>1 DEF Cells
            <3> QED BY <3>1, <1>1
      <2>2. ASSUME NEW n \in 1..Len(intermediate), NEW m \in 1..Len(R(n)), R(n)[m] = p
            PROVE  <<n, m>> \in Cells(p)
            <3>1. Cell(n, m, p)
                  BY <1>1, <2>2
            <3>2. <<n, m>> \in Nat \X Nat
                  BY <1>0
            <3> QED BY <3>1, <3>2 DEF Cells
      <2> QED BY <2>1, <2>2
<1>4. M = Cells(p)
      BY <1>2, <1>3
<1> QED BY <1>4 DEF Reduced

LEMMA GroupedPlaces ==
  ASSUME NEW p, intermediate \in Seq(PairType)
  PROVE  Grouped(p) = Cardinality(Places(p))
<1> DEFINE M == UNION {{<<n, m>> : m \in {m \in 1..Len(intermediate[n].value) :
                                  <<intermediate[n].key, intermediate[n].value[m]>> = p}} :
                         n \in 1..Len(intermediate)}
<1>0. Len(intermediate) \in Nat /\ \A n \in 1..Len(intermediate) : Len(intermediate[n].value) \in Nat
      <2>1. \A n \in 1..Len(intermediate) : intermediate[n] \in PairType
            OBVIOUS
      <2> QED BY <2>1 DEF PairType
<1>2. \A q : q \in M <=> \E n \in 1..Len(intermediate) : \E m \in 1..Len(intermediate[n].value) :
                  <<intermediate[n].key, intermediate[n].value[m]>> = p /\ q = <<n, m>>
      OBVIOUS
<1>3. \A q : q \in Places(p) <=>
               \E n \in 1..Len(intermediate) : \E m \in 1..Len(intermediate[n].value) :
                  <<intermediate[n].key, intermediate[n].value[m]>> = p /\ q = <<n, m>>
      <2>1. ASSUME NEW q, q \in Places(p)
            PROVE  \E n \in 1..Len(intermediate) : \E m \in 1..Len(intermediate[n].value) :
                     <<intermediate[n].key, intermediate[n].value[m]>> = p /\ q = <<n, m>>
            <3>1. q \in Nat \X Nat /\ Place(q[1], q[2], p)
                  BY <2>1 DEF Places
            <3> QED BY <3>1 DEF Place
      <2>2. ASSUME NEW n \in 1..Len(intermediate), NEW m \in 1..Len(intermediate[n].value),
                   <<intermediate[n].key, intermediate[n].value[m]>> = p
            PROVE  <<n, m>> \in Places(p)
            <3>1. Place(n, m, p)
                  BY <2>2 DEF Place
            <3>2. <<n, m>> \in Nat \X Nat
                  BY <1>0
            <3> QED BY <3>1, <3>2 DEF Places
      <2> QED BY <2>1, <2>2
<1>4. M = Places(p)
      BY <1>2, <1>3
<1> QED BY <1>4 DEF Grouped

(* While the phase lasts, what is to be emitted stays.                     *)
LEMMA RowsStay ==
  ASSUME UNCHANGED <<input>>, Mapping' = Mapping, Mapping \/ UNCHANGED intermediate
  PROVE  /\ \A n : Row(n)' = Row(n)
         /\ Size' = Size
         /\ \A n, m, p : Cell(n, m, p)' <=> Cell(n, m, p)
<1>1. Size' = Size
      BY DEF Size
<1>2. \A n : Row(n)' = Row(n)
      <2> SUFFICES ASSUME NEW n PROVE Row(n)' = Row(n)
          OBVIOUS
      <2>1. CASE Mapping
            BY <2>1 DEF Row
      <2>2. CASE ~Mapping
            BY <2>2 DEF Row
      <2> QED BY <2>1, <2>2
<1>3. ASSUME NEW n, NEW m, NEW p
      PROVE  Cell(n, m, p)' <=> Cell(n, m, p)
      <2>1. Row(n)' = Row(n)
            BY <1>2
      <2> QED BY <2>1, <1>1 DEF Cell
<1> QED BY <1>1, <1>2, <1>3

LEMMA RowType ==
  ASSUME ReduceEmits, TypeOK, NEW n \in 1..Size
  PROVE  Row(n) \in Seq(Key \X Value) /\ Len(Row(n)) \in Nat
<1>1. Row(n) \in Seq(Key \X Value)
  <2>1. CASE Mapping
        <3>0. input \in Seq(Item) /\ n \in 1..Len(input)
              BY <2>1 DEF TypeOK, Size
        <3>1. input[n] \in Item
              BY <3>0
        <3> QED BY <2>1, <3>1, MapReduceAssumption DEF Row
  <2>2. CASE ~Mapping
        <3>1. intermediate \in Seq(PairType)
              BY DEF TypeOK, PairType
        <3>2. intermediate[n] \in PairType
              BY <3>1, <2>2 DEF Size
        <3> QED BY <2>2, <3>2 DEF Row, ReduceEmits, PairType
  <2> QED BY <2>1, <2>2
<1> QED BY <1>1

(* The element at which a thread is, is one of its phase.                  *)
LEMMA AtElement ==
  ASSUME ReduceEmits, TypeOK, SharesInv, ProgressInv, NEW w \in Threads,
         thread[w].task # "none", ~Finished(w)
  PROVE  /\ thread[w].i + 1 \in 1..Size /\ thread[w].i \in Elements
         /\ Within(w, thread[w].i)
         /\ Emits(w) = Row(thread[w].i + 1)
         /\ thread[w].task = Role
<1>1. HasShare(w)
      BY AtWork
<1>2. Size \in Nat /\ Shares \in Nat \ {0} /\ w \in Nat
      BY SizeType, SharesType, Limits DEF Threads
<1>3. Share(Role, w, Size, Shares).end <= Size /\ Share(Role, w, Size, Shares) \in ThreadType
      BY <1>2, RoleType, ShareType
<1>4. thread[w].end <= Size
      BY <1>1, <1>3 DEF HasShare
<1>5. thread[w].i \in Nat /\ thread[w].end \in Nat /\ thread[w].start \in Nat
      BY DEF TypeOK, ThreadType
<1>6. thread[w].i < thread[w].end /\ thread[w].start <= thread[w].i
      <2>1. thread[w].start <= thread[w].i
            BY DEF ProgressInv
      <2>2. ~(thread[w].i >= thread[w].end)
            BY DEF Finished
      <2> QED BY <1>5, <2>1, <2>2
<1>7. thread[w].i + 1 \in 1..Size /\ thread[w].i \in 0..(Size - 1)
      BY <1>2, <1>4, <1>5, <1>6
<1>8. Elements = 0..(Size - 1)
      BY DEF Elements, Size, Mapping
<1>9. thread[w].task = Role
      BY <1>1 DEF HasShare
<1>10. Emits(w) = Row(thread[w].i + 1)
       BY <1>9 DEF Emits, Row, Role
<1>11. Within(w, thread[w].i)
       BY <1>6 DEF Within
<1> QED BY <1>7, <1>8, <1>9, <1>10, <1>11

(* A step that changes neither what is to be emitted nor what a thread has *)
(* passed changes nothing of the account.                                  *)
LEMMA EmittedStays ==
  ASSUME NEW p, \A n, m : Cell(n, m, p)' <=> Cell(n, m, p),
         \A w \in Threads : \A n, m \in Nat : Cell(n, m, p) => (Passed(w, n, m)' <=> Passed(w, n, m))
  PROVE  Emitted(p)' = Emitted(p)
<1>1. \A q : q \in Emitted(p) <=>
               /\ q \in Nat \X Nat /\ Cell(q[1], q[2], p)
               /\ \E w \in Threads : Passed(w, q[1], q[2])
      BY DEF Emitted
<1>2. ASSUME NEW q
      PROVE q \in Emitted(p)' <=>
               /\ q \in Nat \X Nat /\ Cell(q[1], q[2], p)
               /\ \E w \in Threads : Passed(w, q[1], q[2])
      <2>1. q \in Emitted(p)' <=>
               /\ q \in Nat \X Nat /\ Cell(q[1], q[2], p)'
               /\ \E w \in Threads : Passed(w, q[1], q[2])'
            BY DEF Emitted
      <2> QED BY <2>1
<1> QED BY <1>1, <1>2

(* An emit passes one cell more, of one pair.                              *)
Gains(S, T, q, yes) == q \notin S /\ T = IF yes THEN S \cup {q} ELSE S

LEMMA GainCounts ==
  ASSUME NEW S, NEW T, NEW q, NEW yes \in BOOLEAN, IsFiniteSet(S), Gains(S, T, q, yes)
  PROVE  /\ IsFiniteSet(T) /\ Cardinality(S) \in Nat
         /\ Cardinality(T) = Cardinality(S) + (IF yes THEN 1 ELSE 0)
<1>1. Cardinality(S) \in Nat
      BY FS_CardinalityType
<1>2. CASE yes
      <2>1. T = S \cup {q} /\ q \notin S
            BY <1>2 DEF Gains
      <2> QED BY <1>1, <1>2, <2>1, FS_AddElement
<1>3. CASE ~yes
      <2>1. T = S
            BY <1>3 DEF Gains
      <2> QED BY <1>1, <1>3, <2>1
<1> QED BY <1>2, <1>3

LEMMA EmitPasses ==
  ASSUME ReduceEmits, TypeOK, SharesInv, ProgressInv, NEW w \in Threads, ThreadEmit(w), NEW p
  PROVE  Gains(Emitted(p), Emitted(p)', <<thread[w].i + 1, thread[w].emits + 1>>,
               Emits(w)[thread[w].emits + 1] = p)
<1> DEFINE i == thread[w].i
           e == thread[w].emits
           x == Emits(w)[e + 1]
<1>1. HasEmit(w) /\ thread[w].task # "none" /\ ~Finished(w) /\ e < Len(Emits(w))
      BY DEF ThreadEmit, HasEmit
<1>2. /\ i + 1 \in 1..Size /\ i \in Elements /\ Within(w, i)
      /\ Emits(w) = Row(i + 1) /\ thread[w].task = Role
      BY <1>1, AtElement
<1>3. i \in Nat /\ e \in Nat /\ Size \in Nat /\ Len(Row(i + 1)) \in Nat
      <2>1. i \in Nat /\ e \in Nat
            BY DEF TypeOK, ThreadType
      <2> QED BY <2>1, <1>2, RowType, SizeType
<1>4. UNCHANGED <<pc, input>> /\ Mapping' = Mapping
      BY DEF ThreadEmit, args, Mapping
<1>5. Mapping \/ UNCHANGED intermediate
      <2>1. CASE Mapping
            BY <2>1
      <2>2. CASE ~Mapping
            <3>1. thread[w].task = "reduce"
                  BY <1>2, <2>2 DEF Role
            <3> QED BY <3>1 DEF ThreadEmit, mr_emit_f
      <2> QED BY <2>1, <2>2
<1>6. \A n, m : Cell(n, m, p)' <=> Cell(n, m, p)
      BY <1>4, <1>5, RowsStay
<1>7. Cell(i + 1, e + 1, p) <=> x = p
      BY <1>1, <1>2, <1>3 DEF Cell
<1>8. thread' = [thread EXCEPT ![w].emits = e + 1]
      BY DEF ThreadEmit
<1>9. /\ \A v \in Threads : /\ thread'[v].task = thread[v].task /\ thread'[v].start = thread[v].start
                            /\ thread'[v].end = thread[v].end /\ thread'[v].i = thread[v].i
      /\ \A v \in Threads : v # w => thread'[v].emits = thread[v].emits
      /\ thread'[w].emits = e + 1
      BY <1>8 DEF TypeOK, ThreadType
<1>10. \A v \in Threads, n, m \in Nat : v # w => (Passed(v, n, m)' <=> Passed(v, n, m))
       BY <1>9 DEF Passed, Within
<1>11. \A n, m \in Nat : Passed(w, n, m)' <=> Passed(w, n, m) \/ (n = i + 1 /\ m = e + 1)
       <2> SUFFICES ASSUME NEW n \in Nat, NEW m \in Nat
                    PROVE  Passed(w, n, m)' <=> Passed(w, n, m) \/ (n = i + 1 /\ m = e + 1)
           OBVIOUS
       <2>1. Within(w, n - 1)' <=> Within(w, n - 1)
             BY <1>9 DEF Within
       <2>2. Passed(w, n, m)' <=> /\ Within(w, n - 1)
                                  /\ n - 1 < i \/ (n - 1 = i /\ m <= e + 1)
             BY <1>9, <2>1 DEF Passed
       <2>3. Passed(w, n, m) <=> /\ Within(w, n - 1)
                                 /\ n - 1 < i \/ (n - 1 = i /\ m <= e)
             BY DEF Passed
       <2>4. n - 1 = i <=> n = i + 1
             BY <1>3
       <2>5. m <= e + 1 <=> m <= e \/ m = e + 1
             BY <1>3
       <2>6. n = i + 1 => Within(w, n - 1)
             <3>1. n = i + 1 => n - 1 = i
                   BY <1>3
             <3> QED BY <3>1, <1>2
       <2> HIDE DEF i, e
       <2> QED BY <2>2, <2>3, <2>4, <2>5, <2>6
<1>12. \A v \in Threads : ~Passed(v, i + 1, e + 1)
       <2> SUFFICES ASSUME NEW v \in Threads, Passed(v, i + 1, e + 1) PROVE FALSE
           OBVIOUS
       <2>1. (i + 1) - 1 = i
             BY <1>3
       <2>2. Within(v, i) /\ (i < thread[v].i \/ (i = thread[v].i /\ e + 1 <= thread[v].emits))
             BY <2>1 DEF Passed
       <2>3. v = w
             BY <2>2, <1>2, SharesArePartition DEF IInv, SharesPartition
       <2> QED BY <2>2, <2>3, <1>3
<1>13. <<i + 1, e + 1>> \in Nat \X Nat
       BY <1>3
<1>14. <<i + 1, e + 1>> \notin Emitted(p)
       BY <1>12 DEF Emitted
<1>15. ASSUME NEW n \in Nat, NEW m \in Nat
       PROVE  <<n, m>> \in Emitted(p)' <=> \/ <<n, m>> \in Emitted(p)
                                           \/ n = i + 1 /\ m = e + 1 /\ x = p
       <2>1. <<n, m>> \in Emitted(p)' <=> Cell(n, m, p)' /\ \E v \in Threads : Passed(v, n, m)'
             BY DEF Emitted
       <2>2. <<n, m>> \in Emitted(p) <=> Cell(n, m, p) /\ \E v \in Threads : Passed(v, n, m)
             BY DEF Emitted
       <2>3. (\E v \in Threads : Passed(v, n, m)')
               <=> (\E v \in Threads : Passed(v, n, m)) \/ (n = i + 1 /\ m = e + 1)
             BY <1>10, <1>11
       <2> HIDE DEF i, e, x
       <2> QED BY <2>1, <2>2, <2>3, <1>6, <1>7
<1>16. Emitted(p) \subseteq Nat \X Nat /\ Emitted(p)' \subseteq Nat \X Nat
       BY DEF Emitted
<1>17. Emitted(p)' = IF x = p THEN Emitted(p) \cup {<<i + 1, e + 1>>} ELSE Emitted(p)
       <2> DEFINE S == Emitted(p)
                  T == Emitted(p)'
                  c == <<i + 1, e + 1>>
       <2>1. \A q \in Nat \X Nat : q \in T <=> q \in S \/ (q = c /\ x = p)
             <3> SUFFICES ASSUME NEW q \in Nat \X Nat PROVE q \in T <=> q \in S \/ (q = c /\ x = p)
                 OBVIOUS
             <3>1. PICK n \in Nat, m \in Nat : q = <<n, m>>
                   OBVIOUS
             <3>2. q = c <=> n = i + 1 /\ m = e + 1
                   BY <3>1
             <3> HIDE DEF x, c
             <3> QED BY <3>1, <3>2, <1>15
       <2>2. S \subseteq Nat \X Nat /\ T \subseteq Nat \X Nat /\ c \in Nat \X Nat
             BY <1>13, <1>16
       <2> HIDE DEF S, T, c, x
       <2>3. T = IF x = p THEN S \cup {c} ELSE S
             BY <2>1, <2>2
       <2> QED BY <2>3 DEF S, T, c
<1> QED BY <1>14, <1>17 DEF Gains

LEMMA EmitCounts ==
  ASSUME ReduceEmits, TypeOK, SharesInv, ProgressInv, NEW w \in Threads, ThreadEmit(w), NEW p,
         IsFiniteSet(Emitted(p))
  PROVE  /\ IsFiniteSet(Emitted(p)') /\ Cardinality(Emitted(p)) \in Nat
         /\ Cardinality(Emitted(p)')
              = Cardinality(Emitted(p)) + (IF Emits(w)[thread[w].emits + 1] = p THEN 1 ELSE 0)
<1> DEFINE S == Emitted(p)
           T == Emitted(p)'
           q == <<thread[w].i + 1, thread[w].emits + 1>>
           yes == Emits(w)[thread[w].emits + 1] = p
<1>1. IsFiniteSet(S) /\ yes \in BOOLEAN
      OBVIOUS
<1>2. Gains(S, T, q, yes)
      BY EmitPasses
<1> HIDE DEF S, T, q, yes
<1>3. /\ IsFiniteSet(T) /\ Cardinality(S) \in Nat
      /\ Cardinality(T) = Cardinality(S) + (IF yes THEN 1 ELSE 0)
      BY ONLY <1>1, <1>2, GainCounts
<1> QED BY <1>3 DEF S, T, yes

(* Past the last emit of an element there is nothing but the next element. *)
LEMMA NextPasses ==
  ASSUME ReduceEmits, TypeOK, SharesInv, ProgressInv, NEW w \in Threads, ThreadNext(w), NEW p
  PROVE  Emitted(p)' = Emitted(p)
<1> DEFINE i == thread[w].i
           e == thread[w].emits
<1>1. thread[w].task # "none" /\ ~Finished(w) /\ e = Len(Emits(w))
      BY DEF ThreadNext
<1>2. i + 1 \in 1..Size /\ Within(w, i) /\ Emits(w) = Row(i + 1)
      BY <1>1, AtElement
<1>3. i \in Nat /\ e \in Nat
      BY DEF TypeOK, ThreadType
<1>4. UNCHANGED <<input, intermediate>> /\ Mapping' = Mapping
      BY DEF ThreadNext, args, store, Mapping
<1>5. \A n, m : Cell(n, m, p)' <=> Cell(n, m, p)
      BY <1>4, RowsStay
<1>6. thread' = [thread EXCEPT ![w] = [thread[w] EXCEPT !.i = i + 1, !.emits = 0]]
      BY DEF ThreadNext, TypeOK
<1>7. /\ \A v \in Threads : v # w => thread'[v] = thread[v]
      /\ thread'[w].task = thread[w].task /\ thread'[w].start = thread[w].start
      /\ thread'[w].end = thread[w].end /\ thread'[w].i = i + 1 /\ thread'[w].emits = 0
      <2>1. thread[w] \in ThreadType /\ thread \in [Threads -> ThreadType]
            BY DEF TypeOK
      <2>2. /\ \A v \in Threads : v # w => thread'[v] = thread[v]
            /\ thread'[w] = [thread[w] EXCEPT !.i = i + 1, !.emits = 0]
            BY <1>6, <2>1
      <2> HIDE DEF i
      <2> QED BY <2>1, <2>2 DEF ThreadType
<1>8. \A v \in Threads : \A n, m \in Nat : Cell(n, m, p) => (Passed(v, n, m)' <=> Passed(v, n, m))
      <2> SUFFICES ASSUME NEW v \in Threads, NEW n \in Nat, NEW m \in Nat, Cell(n, m, p)
                   PROVE  Passed(v, n, m)' <=> Passed(v, n, m)
          OBVIOUS
      <2>1. CASE v # w
            BY <2>1, <1>7 DEF Passed, Within
      <2>2. CASE v = w
            <3>1. Within(w, n - 1)' <=> Within(w, n - 1)
                  BY <1>7 DEF Within
            <3>2. Passed(w, n, m)' <=> /\ Within(w, n - 1)
                                       /\ n - 1 < i + 1 \/ (n - 1 = i + 1 /\ m <= 0)
                  BY <1>7, <3>1 DEF Passed
            <3>3. Passed(w, n, m) <=> /\ Within(w, n - 1)
                                      /\ n - 1 < i \/ (n - 1 = i /\ m <= e)
                  BY DEF Passed
            <3>4. m \in 1..Len(Row(n))
                  BY DEF Cell
            <3>5. n = i + 1 => m <= e
                  BY <3>4, <1>1, <1>2
            <3>6. ~(m <= 0)
                  BY <3>4
            <3>7. n - 1 = i => m <= e
                  BY <3>5, <1>3
            <3> HIDE DEF i, e
            <3>8. n - 1 < i + 1 <=> n - 1 < i \/ n - 1 = i
                  BY <1>3
            <3> QED BY <2>2, <3>2, <3>3, <3>6, <3>7, <3>8
      <2> QED BY <2>1, <2>2
<1> QED BY <1>5, <1>8, EmittedStays

LEMMA PlacesGain ==
  ASSUME NEW a \in Nat, NEW b \in Nat, NEW p, NEW yes \in BOOLEAN,
         \A n, m \in Nat : Place(n, m, p)' <=> Place(n, m, p) \/ (n = a /\ m = b /\ yes),
         ~Place(a, b, p)
  PROVE  Gains(Places(p), Places(p)', <<a, b>>, yes)
<1> DEFINE S == Places(p)
           T == Places(p)'
           c == <<a, b>>
<1>1. S \subseteq Nat \X Nat /\ T \subseteq Nat \X Nat /\ c \in Nat \X Nat
      BY DEF Places
<1>2. c \notin S
      BY DEF Places
<1>3. \A q \in Nat \X Nat : q \in T <=> q \in S \/ (q = c /\ yes)
      <2> SUFFICES ASSUME NEW q \in Nat \X Nat PROVE q \in T <=> q \in S \/ (q = c /\ yes)
          OBVIOUS
      <2>1. PICK n \in Nat, m \in Nat : q = <<n, m>>
            OBVIOUS
      <2>2. q = c <=> n = a /\ m = b
            BY <2>1
      <2>3. <<n, m>> \in T <=> Place(n, m, p)'
            BY DEF Places
      <2>4. <<n, m>> \in S <=> Place(n, m, p)
            BY DEF Places
      <2> HIDE DEF S, T, c
      <2> QED BY <2>1, <2>2, <2>3, <2>4
<1> HIDE DEF S, T, c
<1>4. T = IF yes THEN S \cup {c} ELSE S
      BY <1>1, <1>3
<1> QED BY <1>2, <1>4 DEF Gains, S, T, c

(* A thread that has just been created has passed nothing.                 *)
LEMMA CreatePasses ==
  ASSUME TypeOK, SharesInv, pc \in {"map", "reduce"}, pc' = pc, t \in Threads,
         thread' = [thread EXCEPT ![t] = Share(Role, t, Size, Shares)],
         UNCHANGED <<input, intermediate>>, NEW p
  PROVE  Emitted(p)' = Emitted(p)
<1>1. \A n, m : Cell(n, m, p)' <=> Cell(n, m, p)
      <2>1. Mapping' = Mapping
            BY DEF Mapping
      <2> QED BY <2>1, RowsStay
<1>2. thread[t] = NoThread
      <2>1. Created = t
            BY DEF Created
      <2>2. t >= t
            BY Limits DEF Threads
      <2>3. \A n \in Threads : n >= t => thread[n] = NoThread
            BY <2>1 DEF SharesInv
      <2> QED BY <2>2, <2>3
<1>3. /\ \A v \in Threads : v # t => thread'[v] = thread[v]
      /\ thread'[t] = Share(Role, t, Size, Shares)
      BY DEF TypeOK
<1>4. \A v \in Threads : \A n, m \in Nat : Cell(n, m, p) => (Passed(v, n, m)' <=> Passed(v, n, m))
      <2> SUFFICES ASSUME NEW v \in Threads, NEW n \in Nat, NEW m \in Nat, Cell(n, m, p)
                   PROVE  Passed(v, n, m)' <=> Passed(v, n, m)
          OBVIOUS
      <2>1. CASE v # t
            BY <2>1, <1>3 DEF Passed, Within
      <2>2. CASE v = t
            <3>1. ~Passed(v, n, m)
                  BY <2>2, <1>2 DEF Passed, Within, NoThread
            <3>2. Size \in Nat /\ Shares \in Nat \ {0} /\ v \in Nat
                  BY SizeType, SharesType, Limits DEF Threads
            <3> DEFINE s == Share(Role, v, Size, Shares)
            <3>3. s \in ThreadType /\ s.i = s.start /\ s.emits = 0
                  <4>1. s \in ThreadType
                        BY <3>2, RoleType, ShareType
                  <4> QED BY <4>1 DEF Share
            <3>4. m \in Nat /\ m # 0
                  BY DEF Cell
            <3>5. thread'[v] = s
                  BY <2>2, <1>3
            <3> HIDE DEF s
            <3>6. s.start \in Nat /\ s.i \in Nat
                  BY <3>3 DEF ThreadType
            <3>7. Passed(v, n, m)' => s.start <= n - 1 /\ (n - 1 < s.i \/ (n - 1 = s.i /\ m <= s.emits))
                  BY <3>5 DEF Passed, Within
            <3>8. ~Passed(v, n, m)'
                  BY <3>3, <3>4, <3>6, <3>7
            <3> QED BY <3>1, <3>8
      <2> QED BY <2>1, <2>2
<1> QED BY <1>1, <1>4, EmittedStays

LEMMA NothingPassed ==
  ASSUME NEW p, thread' = [n \in Threads |-> NoThread]
  PROVE  IsFiniteSet(Emitted(p)') /\ Cardinality(Emitted(p)') = 0
<1>1. \A w \in Threads : \A n, m : ~Passed(w, n, m)'
      BY DEF Passed, Within, NoThread
<1>2. Emitted(p)' = {}
      BY <1>1 DEF Emitted
<1> QED BY <1>2, FS_EmptySet

(* When the last thread has been joined, everything has been emitted.      *)
AllAreJoined == pc \in {"join mappers", "join reducers"} /\ t = Shares

LEMMA AllPassed ==
  ASSUME ReduceEmits, TypeOK, SharesInv, ProgressInv, AllAreJoined, NEW p
  PROVE  Emitted(p) = Cells(p)
<1>1. Shares \in Nat /\ Size \in Nat
      BY ONLY TypeOK, SharesType, SizeType, Limits
<1>2. Elements = 0..(Size - 1)
      BY DEF Elements, Size, Mapping
<1>3. \A w \in Threads : w \in Nat
      BY ONLY Limits DEF Threads
<1>4. ASSUME NEW w \in Threads, NEW e \in Nat, Within(w, e)
      PROVE  e < thread[w].i
      <2>1. Created = Shares
            BY DEF Created, AllAreJoined
      <2>2. ~(w >= Created)
            <3>1. thread[w] # NoThread
                  BY <1>4 DEF Within, NoThread
            <3> QED BY <3>1 DEF SharesInv, AllAreJoined
      <2>3. w < Shares
            BY <1>1, <1>3, <2>1, <2>2
      <2>4. Finished(w)
            BY <2>3 DEF ProgressInv, AllAreJoined
      <2>5. thread[w].i \in Nat /\ thread[w].end \in Nat
            BY DEF TypeOK, ThreadType
      <2>6. e < thread[w].end /\ thread[w].i >= thread[w].end
            BY <1>4, <2>4 DEF Within, Finished
      <2> QED BY <2>5, <2>6
<1>5. ASSUME NEW n \in Nat, NEW m \in Nat, Cell(n, m, p)
      PROVE  \E w \in Threads : Passed(w, n, m)
      <2>1. n - 1 \in Elements /\ n - 1 \in Nat
            <3>1. n \in 1..Size
                  BY <1>5 DEF Cell
            <3> QED BY <3>1, <1>1, <1>2
      <2>2. PICK w \in Threads : Within(w, n - 1)
            BY <2>1, SharesArePartition DEF IInv, SharesPartition, AllAreJoined
      <2> QED BY <2>1, <2>2, <1>4 DEF Passed
<1> QED BY <1>5 DEF Emitted, Cells

(* A pair that is stored has one place more in the table.                  *)
LEMMA StoredGains ==
  ASSUME intermediate \in Seq(PairType), KeysInv, NEW k \in Key, NEW v \in Value,
         intermediate' = Stored(k, v)
  PROVE  /\ \E q : \A p : Gains(Places(p), Places(p)', q, <<k, v>> = p)
         /\ \A n, m \in 1..Len(intermediate') : intermediate'[n].key = intermediate'[m].key => n = m
         /\ Entry(k) # {} => /\ Len(intermediate') = Len(intermediate)
                             /\ \A n \in 1..Len(intermediate) :
                                  intermediate'[n].key = intermediate[n].key
<1> DEFINE L == Len(intermediate)
<1>1. L \in Nat /\ \A n \in 1..L : intermediate[n] \in PairType
      OBVIOUS
<1>2. \A n \in 1..L : /\ intermediate[n].key \in Key /\ intermediate[n].value \in Seq(Value)
                      /\ Len(intermediate[n].value) \in Nat
      BY <1>1 DEF PairType
<1>3. \A n, m \in 1..L : intermediate[n].key = intermediate[m].key => n = m
      BY DEF KeysInv
<1>4. CASE Entry(k) # {}
  <2>1. PICK e \in 1..L : intermediate[e].key = k
        BY <1>4 DEF Entry
  <2>2. Entry(k) = {e}
        BY <2>1, <1>3 DEF Entry
  <2>3. intermediate' = [n \in 1..L |-> IF n = e THEN [intermediate[n] EXCEPT !.value = Append(@, v)]
                                                 ELSE intermediate[n]]
        BY <1>4, <2>2 DEF Stored
  <2>4. Len(intermediate') = L
        <3>1. Len(Stored(k, v)) = L + 0
              BY <1>4, StoredType
        <3> QED BY <3>1, <1>1
  <2>5. /\ \A n \in 1..L : n # e => intermediate'[n] = intermediate[n]
        /\ intermediate'[e] = [intermediate[e] EXCEPT !.value = Append(@, v)]
        BY <2>1, <2>3
  <2>6. intermediate'[e].key = k /\ intermediate'[e].value = Append(intermediate[e].value, v)
        <3>1. intermediate[e] \in PairType
              BY <2>1, <1>1
        <3> QED BY <2>1, <2>5, <3>1 DEF PairType
  <2>7. \A n \in 1..L : intermediate'[n].key = intermediate[n].key
        BY <2>1, <2>5, <2>6
  <2> DEFINE c == Len(intermediate[e].value) + 1
  <2>8. c \in Nat /\ <<e, c>> \in Nat \X Nat
        BY <2>1, <1>2
  <2>9. ASSUME NEW p, NEW n \in Nat, NEW m \in Nat
        PROVE  Place(n, m, p)' <=> Place(n, m, p) \/ (n = e /\ m = c /\ <<k, v>> = p)
        <3>1. CASE n # e
              BY <3>1, <2>4, <2>5 DEF Place
        <3>2. CASE n = e
              <4> DEFINE s == intermediate[e].value
              <4>1. s \in Seq(Value) /\ n \in 1..L
                    BY <2>1, <3>2, <1>2
              <4>2. /\ Len(Append(s, v)) = Len(s) + 1 /\ Append(s, v)[Len(s) + 1] = v
                    /\ \A j \in 1..Len(s) : Append(s, v)[j] = s[j]
                    BY <4>1, AppendProperties
              <4>3. Place(n, m, p)' <=> m \in 1..(Len(s) + 1) /\ <<k, Append(s, v)[m]>> = p
                    BY <3>2, <4>1, <4>2, <2>4, <2>6 DEF Place
              <4>4. Place(n, m, p) <=> m \in 1..Len(s) /\ <<k, s[m]>> = p
                    BY <3>2, <4>1, <2>1 DEF Place
              <4>5. Len(s) \in Nat
                    BY <4>1
              <4>6. m \in 1..(Len(s) + 1) <=> m \in 1..Len(s) \/ m = Len(s) + 1
                    BY <4>5
              <4>7. ~(Len(s) + 1 \in 1..Len(s))
                    BY <4>5
              <4> HIDE DEF s
              <4> QED BY <3>2, <4>2, <4>3, <4>4, <4>6, <4>7 DEF s
        <3> QED BY <3>1, <3>2
  <2>10. \A p : ~Place(e, c, p)
         <3>1. ~(c \in 1..Len(intermediate[e].value))
               BY <2>1, <1>2
         <3> QED BY <3>1 DEF Place
  <2>11. \A p : Gains(Places(p), Places(p)', <<e, c>>, <<k, v>> = p)
         <3> SUFFICES ASSUME NEW p PROVE Gains(Places(p), Places(p)', <<e, c>>, <<k, v>> = p)
             OBVIOUS
         <3>1. e \in Nat /\ c \in Nat
               BY <2>8, <1>1
         <3>2. ~Place(e, c, p)
               BY <2>10
         <3>3. \A n, m \in Nat : Place(n, m, p)' <=> Place(n, m, p) \/ (n = e /\ m = c /\ <<k, v>> = p)
               BY <2>9
         <3> HIDE DEF c
         <3> QED BY <3>1, <3>2, <3>3, PlacesGain
  <2>12. \A n, m \in 1..L : intermediate'[n].key = intermediate'[m].key => n = m
         BY <2>7, <1>3
  <2> QED BY <2>4, <2>7, <2>11, <2>12
<1>5. CASE Entry(k) = {}
  <2>1. intermediate' = Append(intermediate, [key |-> k, value |-> <<v>>])
        BY <1>5 DEF Stored
  <2>2. /\ Len(intermediate') = L + 1
        /\ \A n \in 1..L : intermediate'[n] = intermediate[n]
        /\ intermediate'[L + 1] = [key |-> k, value |-> <<v>>]
        <3>1. [key |-> k, value |-> <<v>>] \in PairType
              BY DEF PairType
        <3> QED BY <2>1, <3>1, AppendProperties
  <2>3. \A n \in 1..L : intermediate[n].key # k
        BY <1>5 DEF Entry
  <2>4. ASSUME NEW p, NEW n \in Nat, NEW m \in Nat
        PROVE  Place(n, m, p)' <=> Place(n, m, p) \/ (n = L + 1 /\ m = 1 /\ <<k, v>> = p)
        <3>1. CASE n \in 1..L
              <4>1. n \in 1..(L + 1) /\ n # L + 1
                    BY <3>1, <1>1
              <4> QED BY <3>1, <4>1, <2>2 DEF Place
        <3>2. CASE n = L + 1
              <4>1. n \in 1..(L + 1) /\ ~(n \in 1..L)
                    BY <3>2, <1>1
              <4>2. intermediate'[n].key = k /\ intermediate'[n].value = <<v>>
                    BY <3>2, <2>2
              <4>3. m \in 1..Len(<<v>>) <=> m = 1
                    OBVIOUS
              <4>4. Place(n, m, p)' <=> m \in 1..Len(<<v>>) /\ <<k, <<v>>[m]>> = p
                    BY <4>1, <4>2, <2>2 DEF Place
              <4>5. ~Place(n, m, p)
                    BY <4>1 DEF Place
              <4>6. <<v>>[1] = v
                    OBVIOUS
              <4> QED BY <3>2, <4>3, <4>4, <4>5, <4>6
        <3>3. CASE n \notin 1..L /\ n # L + 1
              <4>1. n \notin 1..(L + 1)
                    BY <3>3, <1>1
              <4> QED BY <3>3, <4>1, <2>2 DEF Place
        <3> QED BY <3>1, <3>2, <3>3
  <2>5. \A p : ~Place(L + 1, 1, p)
        <3>1. ~(L + 1 \in 1..L)
              BY <1>1
        <3> QED BY <3>1 DEF Place
  <2>6. \A p : Gains(Places(p), Places(p)', <<L + 1, 1>>, <<k, v>> = p)
        <3>1. L + 1 \in Nat /\ 1 \in Nat
              BY <1>1
        <3> SUFFICES ASSUME NEW p PROVE Gains(Places(p), Places(p)', <<L + 1, 1>>, <<k, v>> = p)
            OBVIOUS
        <3>2. ~Place(L + 1, 1, p)
              BY <2>5
        <3>3. \A n, m \in Nat : Place(n, m, p)' <=> Place(n, m, p) \/ (n = L + 1 /\ m = 1 /\ <<k, v>> = p)
              BY <2>4
        <3> QED BY <3>1, <3>2, <3>3, PlacesGain
  <2>7. \A n, m \in 1..(L + 1) : intermediate'[n].key = intermediate'[m].key => n = m
        <3> SUFFICES ASSUME NEW n \in 1..(L + 1), NEW m \in 1..(L + 1),
                            intermediate'[n].key = intermediate'[m].key
                     PROVE  n = m
            OBVIOUS
        <3>1. (n \in 1..L \/ n = L + 1) /\ (m \in 1..L \/ m = L + 1)
              BY <1>1
        <3>2. intermediate'[L + 1].key = k
              BY <2>2
        <3> QED BY <3>1, <3>2, <2>2, <2>3, <1>3
  <2> QED BY <1>5, <2>2, <2>6, <2>7
<1> QED BY <1>4, <1>5

-----------------------------------------------------------------------------
(* The steps.                                                              *)

LEMMA ProgressStep ==
  ASSUME ReduceEmits, TypeOK, SharesInv, ProgressInv, [Next]_vars
  PROVE  ProgressInv'
<1>0. /\ thread \in [Threads -> ThreadType]
      /\ pc \in {"idle", "map", "join mappers", "reduce", "join reducers", "output"}
      BY DEF TypeOK
<1>c. t \in Nat
      <2>1. t \in 0..MaxThreads
            BY DEF TypeOK
      <2> QED BY <2>1, Limits
<1>d. \A n \in Threads : n \in Nat
      BY Limits DEF Threads
<1>a. \A n \in Threads : thread[n].start <= thread[n].i
      BY DEF ProgressInv
<1>b. Shares \in Nat /\ Size \in Nat
      BY SharesType, SizeType, Limits
<1>1. CASE Caller \/ AllJoined
  <2>1. thread' = [n \in Threads |-> NoThread] /\ pc' \in {"map", "reduce", "output"}
        BY <1>1 DEF Caller, mr_exec, AllJoined
  <2>2. \A n \in Threads : thread'[n].start = 0 /\ thread'[n].i = 0
        BY <2>1 DEF NoThread
  <2>3. \A n \in Threads : thread'[n].start <= thread'[n].i
        BY <2>2
  <2> QED BY <2>1, <2>3 DEF ProgressInv
<1>2. CASE CreateMapper \/ CreateReducer
  <2>1. PICK s : /\ thread' = [thread EXCEPT ![t] = s] /\ pc' \in {"map", "reduce"}
                 /\ s.i = s.start /\ s.start \in Nat
        <3>1. CASE CreateMapper
              <4> DEFINE s == Share("map", t, Len(input), mapper_count)
              <4>1. s.i = s.start /\ s.start = t * Chunk(Len(input), mapper_count)
                    BY DEF Share
              <4>2. Size = Len(input) /\ Shares = mapper_count /\ Shares # 0
                    BY <3>1, SharesType, Limits DEF CreateMapper, Size, Shares, Mapping
              <4>3. Chunk(Len(input), mapper_count) \in Nat
                    BY <4>2, <1>b, ChunksSuffice
              <4>4. s.start \in Nat
                    BY <4>1, <4>3, <1>c
              <4>5. thread' = [thread EXCEPT ![t] = s] /\ pc' \in {"map", "reduce"}
                    BY <3>1 DEF CreateMapper
              <4> HIDE DEF s
              <4> QED BY <4>1, <4>4, <4>5
        <3>2. CASE CreateReducer
              <4> DEFINE s == Share("reduce", t, Len(intermediate), reducer_count)
              <4>1. s.i = s.start /\ s.start = t * Chunk(Len(intermediate), reducer_count)
                    BY DEF Share
              <4>2. Size = Len(intermediate) /\ Shares = reducer_count /\ Shares # 0
                    BY <3>2, SharesType, Limits DEF CreateReducer, Size, Shares, Mapping
              <4>3. Chunk(Len(intermediate), reducer_count) \in Nat
                    BY <4>2, <1>b, ChunksSuffice
              <4>4. s.start \in Nat
                    BY <4>1, <4>3, <1>c
              <4>5. thread' = [thread EXCEPT ![t] = s] /\ pc' \in {"map", "reduce"}
                    BY <3>2 DEF CreateReducer
              <4> HIDE DEF s
              <4> QED BY <4>1, <4>4, <4>5
        <3> QED BY <1>2, <3>1, <3>2
  <2>2. \A n \in Threads : thread'[n] = IF n = t THEN s ELSE thread[n]
        BY <2>1, <1>0
  <2>3. \A n \in Threads : thread'[n].start <= thread'[n].i
        BY <2>1, <2>2, <1>a
  <2> QED BY <2>1, <2>3 DEF ProgressInv
<1>3. CASE AllCreated
  <2>1. UNCHANGED thread /\ t' = 0 /\ UNCHANGED <<mapper_count, reducer_count>>
        /\ pc' \in {"join mappers", "join reducers"}
        BY <1>3 DEF AllCreated, args
  <2>2. Shares' = Shares
        <3>1. Mapping' <=> Mapping
              BY <1>3 DEF AllCreated, Mapping
        <3> QED BY <2>1, <3>1 DEF Shares
  <2>3. 0 <= Shares /\ \A n \in Threads : ~(n < 0)
        BY <1>d, <1>b
  <2> QED BY <2>1, <2>2, <2>3, <1>a DEF ProgressInv
<1>4. CASE Join
  <2>1. /\ UNCHANGED <<thread, pc, mapper_count, reducer_count>> /\ t' = t + 1 /\ Finished(t)
        /\ pc \in {"join mappers", "join reducers"} /\ t < Shares
        BY <1>4 DEF Join, args, Shares, Mapping
  <2>2. Shares' = Shares
        BY <2>1 DEF Shares, Mapping
  <2>3. t + 1 <= Shares
        <3>1. t < Shares
              BY <2>1
        <3> QED BY <3>1, <1>c, <1>b
  <2>4. ASSUME NEW n \in Threads, n < t + 1
        PROVE  Finished(n)
        <3>1. n < t \/ n = t
              BY <2>4, <1>c, <1>d
        <3> QED BY <2>1, <3>1 DEF ProgressInv
  <2>5. \A n \in Threads : n < t' => Finished(n)'
        BY <2>1, <2>4 DEF Finished
  <2> QED BY <2>1, <2>2, <2>3, <2>5, <1>a DEF ProgressInv
<1>5. CASE WriteOutput
  BY <1>5, <1>a DEF WriteOutput, ProgressInv
<1>6. ASSUME NEW w \in Threads, Work(w)
      PROVE  ProgressInv'
  <2>1. UNCHANGED <<pc, t, mapper_count, reducer_count>>
        BY <1>6 DEF Work, ThreadLock, ThreadEmit, ThreadNext, args
  <2>2. Shares' = Shares
        BY <2>1 DEF Shares, Mapping
  <2>3. ~Finished(w)
        BY <1>6 DEF Work, ThreadLock, ThreadEmit, ThreadNext, HasEmit
  <2>4. thread[w].i \in Nat /\ thread[w].start \in Nat
        BY <1>0 DEF ThreadType
  <2>5. /\ \A n \in Threads : n # w => thread'[n] = thread[n]
        /\ thread'[w].start = thread[w].start
        /\ thread'[w].i = thread[w].i \/ thread'[w].i = thread[w].i + 1
        <3>1. CASE ThreadLock(w)
              BY <3>1 DEF ThreadLock
        <3>2. CASE ThreadEmit(w)
              BY <1>0, <3>2 DEF ThreadEmit, ThreadType
        <3>3. CASE ThreadNext(w)
              BY <1>0, <3>3 DEF ThreadNext, ThreadType
        <3> QED BY <1>6, <3>1, <3>2, <3>3 DEF Work
  <2>6. thread'[w].start <= thread'[w].i
        BY <2>4, <2>5, <1>a
  <2>7. \A n \in Threads : thread'[n].start <= thread'[n].i
        BY <2>5, <2>6, <1>a
  <2>8. \A n \in Threads : Finished(n) => Finished(n)'
        BY <2>3, <2>5 DEF Finished
  <2> QED BY <2>1, <2>2, <2>7, <2>8 DEF ProgressInv
<1>7. CASE UNCHANGED vars
  <2>1. UNCHANGED <<pc, t, thread, mapper_count, reducer_count>>
        BY <1>7 DEF vars, args
  <2>2. Shares' = Shares /\ \A n : Finished(n)' = Finished(n)
        BY <2>1 DEF Shares, Mapping, Finished
  <2> QED BY <2>1, <2>2 DEF ProgressInv
<1> QED BY <1>1, <1>2, <1>3, <1>4, <1>5, <1>6, <1>7 DEF Next, Main, Stopped

(* A quiet step stays in its phase and emits nothing.                      *)
Quiet ==
  /\ UNCHANGED <<input, intermediate, refused, final_table, output>>
  /\ Phase' = Phase
  /\ \A p : Emitted(p)' = Emitted(p)

LEMMA QuietSteps ==
  ASSUME ReduceEmits, TypeOK, SharesInv, ProgressInv,
         \/ CreateMapper \/ CreateReducer \/ AllCreated \/ Join \/ UNCHANGED vars
         \/ \E n \in Threads : ThreadLock(n) \/ ThreadNext(n)
  PROVE  Quiet
<1>1. CASE \/ AllCreated \/ Join \/ UNCHANGED vars \/ \E n \in Threads : ThreadLock(n)
  <2>1. UNCHANGED <<thread, input, intermediate, refused, final_table, output>> /\ Phase' = Phase
        BY <1>1 DEF AllCreated, Join, ThreadLock, vars, args, store, Phase, Mapping
  <2>2. Mapping' = Mapping
        <3>1. Mapping' <=> Mapping
              BY <1>1 DEF AllCreated, Join, ThreadLock, vars, Mapping
        <3>2. Mapping \in BOOLEAN /\ Mapping' \in BOOLEAN
              BY DEF Mapping
        <3> QED BY <3>1, <3>2
  <2>3. ASSUME NEW p PROVE Emitted(p)' = Emitted(p)
        <3>1. \A n, m : Cell(n, m, p)' <=> Cell(n, m, p)
              BY <2>1, <2>2, RowsStay
        <3>2. \A w \in Threads : \A n, m \in Nat : Passed(w, n, m)' <=> Passed(w, n, m)
              BY <2>1 DEF Passed, Within
        <3> QED BY <3>1, <3>2, EmittedStays
  <2> QED BY <2>1, <2>3 DEF Quiet
<1>2. CASE CreateMapper \/ CreateReducer
  <2>1. /\ UNCHANGED <<pc, input, intermediate, refused, final_table, output>> /\ Phase' = Phase
        /\ pc \in {"map", "reduce"} /\ t < Shares
        /\ thread' = [thread EXCEPT ![t] = Share(Role, t, Size, Shares)]
        BY <1>2 DEF CreateMapper, CreateReducer, args, store, Phase, Mapping, Role, Size, Shares
  <2>2. t \in Threads
        <3>1. t \in 0..MaxThreads /\ Shares \in 1..MaxThreads
              BY SharesType DEF TypeOK
        <3> QED BY <2>1, <3>1, Limits DEF Threads
  <2>3. ASSUME NEW p PROVE Emitted(p)' = Emitted(p)
        BY <2>1, <2>2, CreatePasses
  <2> QED BY <2>1, <2>3 DEF Quiet
<1>3. ASSUME NEW n \in Threads, ThreadNext(n) PROVE Quiet
  <2>1. UNCHANGED <<pc, input, intermediate, refused, final_table, output>> /\ Phase' = Phase
        BY <1>3 DEF ThreadNext, args, store, Phase, Mapping
  <2>2. \A p : Emitted(p)' = Emitted(p)
        BY <1>3, NextPasses
  <2> QED BY <2>1, <2>2 DEF Quiet
<1> QED BY <1>1, <1>2, <1>3

(* What an account is made of.                                             *)
LEMMA CountsStay ==
  ASSUME NEW p, UNCHANGED <<input, intermediate>>
  PROVE  Grouped(p)' = Grouped(p) /\ Mapped(p)' = Mapped(p) /\ Reduced(p)' = Reduced(p)
         /\ Places(p)' = Places(p)
BY DEF Grouped, Mapped, Reduced, Places, Place

LEMMA OccurrencesStay ==
  ASSUME NEW p \in Key \X Value
  PROVE  /\ UNCHANGED refused => Occurrences(refused, p)' = Occurrences(refused, p)
         /\ UNCHANGED final_table =>
              Occurrences(final_table[p[1]], p[2])' = Occurrences(final_table[p[1]], p[2])
         /\ UNCHANGED output =>
              Occurrences(output[p[1]], p[2])' = Occurrences(output[p[1]], p[2])
BY DEF Occurrences

LEMMA KeysStay == ASSUME KeysInv, UNCHANGED <<intermediate, refused>> PROVE KeysInv'
BY DEF KeysInv, Entry

LEMMA QuietKeeps == ASSUME Account, Quiet PROVE Account'
<1>1. UNCHANGED <<input, intermediate, refused, final_table, output>> /\ Phase' = Phase
      BY DEF Quiet
<1>2. KeysInv'
      BY <1>1, KeysStay DEF Account
<1>3. ASSUME NEW p \in Key \X Value
      PROVE  /\ MapAccount(p)' <=> MapAccount(p)
             /\ ReduceAccount(p)' <=> ReduceAccount(p)
             /\ UNCHANGED <<Grouped(p), Mapped(p), Reduced(p), Occurrences(refused, p)>>
             /\ UNCHANGED <<Occurrences(final_table[p[1]], p[2]), Occurrences(output[p[1]], p[2])>>
      <2>1. Emitted(p)' = Emitted(p)
            BY DEF Quiet
      <2>2. UNCHANGED <<Grouped(p), Mapped(p), Reduced(p), Places(p)>>
            BY <1>1, CountsStay
      <2>3. UNCHANGED <<Occurrences(refused, p), Occurrences(final_table[p[1]], p[2]),
                        Occurrences(output[p[1]], p[2])>>
            BY <1>1, OccurrencesStay
      <2>4. MapAccount(p)' <=> MapAccount(p)
            BY <2>1, <2>2, <2>3 DEF MapAccount
      <2>5. ReduceAccount(p)' <=> ReduceAccount(p)
            BY <2>1, <2>3 DEF ReduceAccount
      <2> QED BY <2>2, <2>3, <2>4, <2>5
<1> QED BY <1>1, <1>2, <1>3 DEF Account

(* A call begins: the table is emptied, and nothing is emitted yet.        *)
LEMMA CallerKeeps == ASSUME TypeOK, TypeOK', Account, Caller PROVE Account'
<1>1. /\ pc = "idle" /\ pc' = "map" /\ intermediate' = <<>> /\ refused' = <<>>
      /\ UNCHANGED <<final_table, output>> /\ thread' = [n \in Threads |-> NoThread]
      BY DEF Caller, mr_exec
<1>2. Phase = "idle" /\ Phase' = "map"
      BY <1>1 DEF Phase, Mapping
<1>3. KeysInv'
      BY <1>1 DEF KeysInv
<1>4. ASSUME NEW p \in Key \X Value PROVE MapAccount(p)'
      <2>2. IsFiniteSet(Emitted(p)') /\ Cardinality(Emitted(p)') = 0
            BY <1>1, NothingPassed
      <2>3. Places(p)' = {}
            BY <1>1 DEF Places, Place
      <2>4. IsFiniteSet(Places(p)') /\ Cardinality(Places(p)') = 0
            BY <2>3, FS_EmptySet
      <2>5. Occurrences(refused, p)' = 0
            <3>1. Occurrences(refused', p) = 0
                  BY <1>1, NoOccurrence
            <3> QED BY <3>1 DEF Occurrences
      <2> QED BY <2>2, <2>4, <2>5 DEF MapAccount
<1> QED BY <1>1, <1>2, <1>3, <1>4 DEF Account

(* A mapper emits: the pair is stored, or refused.                         *)
LEMMA MapEmitKeeps ==
  ASSUME ReduceEmits, TypeOK, SharesInv, ProgressInv, Account,
         NEW w \in Threads, ThreadEmit(w), thread[w].task = "map"
  PROVE  Account'
<1> DEFINE x == Emits(w)[thread[w].emits + 1]
<1>1. HasEmit(w) /\ thread[w].task # "none" /\ ~Finished(w)
      BY DEF ThreadEmit, HasEmit
<1>2. x \in Key \X Value
      BY <1>1, EmitsType
<1>3. Mapping
      BY <1>1, AtElement DEF Role
<1>4. Phase = "map" /\ Phase' = "map"
      <2>1. UNCHANGED pc
            BY DEF ThreadEmit
      <2> QED BY <1>3, <2>1 DEF Phase, Mapping
<1>5. mr_emit_i(w, x[1], x[2]) /\ UNCHANGED output
      BY DEF ThreadEmit
<1>6. UNCHANGED final_table
      BY <1>5 DEF mr_emit_i
<1>7. /\ intermediate \in Seq(PairType) /\ Len(intermediate) <= MaxIntermediate
      /\ refused \in Seq(Key \X Value)
      BY DEF TypeOK, PairType
<1>8. ASSUME NEW p, IsFiniteSet(Emitted(p))
      PROVE  /\ IsFiniteSet(Emitted(p)') /\ Cardinality(Emitted(p)) \in Nat
             /\ Cardinality(Emitted(p)') = Cardinality(Emitted(p)) + (IF x = p THEN 1 ELSE 0)
      BY <1>8, EmitCounts
<1>k. PICK k \in Key, v \in Value : x = <<k, v>>
      BY <1>2
<1> HIDE DEF x
<1>9. KeysInv
      BY DEF Account
<1>10. CASE Entry(k) = {} /\ Len(intermediate) >= MaxIntermediate
  <2>1. refused' = Append(refused, x) /\ UNCHANGED intermediate
        BY <1>5, <1>10, <1>k DEF mr_emit_i
  <2>2. Len(intermediate) = MaxIntermediate
        <3>1. Len(intermediate) \in Nat
              BY <1>7
        <3> QED BY <1>7, <1>10, <3>1, Limits
  <2>3. KeysInv'
        <3>1. /\ Len(refused') = Len(refused) + 1 /\ Len(refused) \in Nat
              /\ \A n \in 1..Len(refused) : refused'[n] = refused[n]
              /\ refused'[Len(refused) + 1] = x
              BY <1>2, <1>7, <2>1, AppendProperties
        <3>2. \A n \in 1..Len(refused) : Entry(refused[n][1]) = {}
              <4>1. CASE refused = <<>>
                    BY <4>1
              <4>2. CASE refused # <<>>
                    BY <4>2, <1>9 DEF KeysInv
              <4> QED BY <4>1, <4>2
        <3>3. \A n \in 1..Len(refused') : Entry(refused'[n][1]) = {}
              <4> SUFFICES ASSUME NEW n \in 1..Len(refused') PROVE Entry(refused'[n][1]) = {}
                  OBVIOUS
              <4>1. n \in 1..Len(refused) \/ n = Len(refused) + 1
                    BY <3>1
              <4>2. x[1] = k
                    BY <1>k
              <4> QED BY <4>1, <4>2, <3>1, <3>2, <1>10
        <3>5. \A n \in 1..Len(refused') : Entry(refused[n][1])' = {}
              <4> SUFFICES ASSUME NEW n \in 1..Len(refused') PROVE Entry(refused[n][1])' = {}
                  OBVIOUS
              <4>1. Entry(refused[n][1])' = Entry(refused'[n][1])
                    BY <2>1 DEF Entry
              <4> QED BY <4>1, <3>3
        <3> QED BY <1>9, <2>1, <2>2, <3>5 DEF KeysInv
  <2>4. ASSUME NEW p \in Key \X Value PROVE MapAccount(p)'
        <3>1. MapAccount(p)
              BY <1>4 DEF Account
        <3>2. /\ IsFiniteSet(Emitted(p)') /\ Cardinality(Emitted(p)) \in Nat
              /\ Cardinality(Emitted(p)') = Cardinality(Emitted(p)) + (IF x = p THEN 1 ELSE 0)
              <4>1. IsFiniteSet(Emitted(p))
                    BY <3>1 DEF MapAccount
              <4> QED BY <4>1, <1>8
        <3>3. Places(p)' = Places(p)
              BY <2>1 DEF Places, Place
        <3>4. Occurrences(refused, p)' = Occurrences(refused, p) + (IF x = p THEN 1 ELSE 0)
              <4>1. Occurrences(Append(refused, x), p) = Occurrences(refused, p) + (IF x = p THEN 1 ELSE 0)
                    <5> DEFINE S == Key \X Value
                    <5>1. refused \in Seq(S) /\ x \in S
                          BY <1>2, <1>7
                    <5> HIDE DEF S
                    <5> QED BY ONLY <5>1, OccurrencesAppend
              <4>2. Occurrences(refused, p)' = Occurrences(Append(refused, x), p)
                    BY <2>1 DEF Occurrences
              <4> QED BY <4>1, <4>2
        <3>5. Occurrences(refused, p) \in Nat /\ Cardinality(Places(p)) \in Nat
              BY <1>2, <1>7, <3>1, OccurrencesAppend, FS_CardinalityType DEF MapAccount
        <3> QED BY <3>1, <3>2, <3>3, <3>4, <3>5 DEF MapAccount
  <2> QED BY <1>4, <1>5, <1>6, <2>3, <2>4 DEF Account
<1>11. CASE ~(Entry(k) = {} /\ Len(intermediate) >= MaxIntermediate)
  <2>1. intermediate' = Stored(k, v) /\ UNCHANGED refused
        BY <1>5, <1>11, <1>k DEF mr_emit_i
  <2>2. PICK q : \A p : Gains(Places(p), Places(p)', q, <<k, v>> = p)
        BY <1>7, <1>9, <2>1, StoredGains
  <2>3. KeysInv'
        <3>1. \A n, m \in 1..Len(intermediate') : intermediate'[n].key = intermediate'[m].key => n = m
              BY <1>7, <1>9, <2>1, StoredGains
        <3>2. CASE refused = <<>>
              BY <2>1, <3>1, <3>2 DEF KeysInv
        <3>3. CASE refused # <<>>
              <4>1. Len(intermediate) = MaxIntermediate
                    BY <1>9, <3>3 DEF KeysInv
              <4>2. Entry(k) # {}
                    BY <1>11, <4>1, Limits
              <4>3. /\ Len(intermediate') = Len(intermediate)
                    /\ \A n \in 1..Len(intermediate) : intermediate'[n].key = intermediate[n].key
                    BY <1>7, <1>9, <2>1, <4>2, StoredGains
              <4>5. \A n \in 1..Len(refused) : Entry(refused[n][1])' = {}
                    <5> SUFFICES ASSUME NEW n \in 1..Len(refused) PROVE Entry(refused[n][1])' = {}
                        OBVIOUS
                    <5>1. Entry(refused[n][1]) = {}
                          BY <1>9, <3>3 DEF KeysInv
                    <5> QED BY <5>1, <4>3, <2>1 DEF Entry
              <4> QED BY <2>1, <3>1, <4>1, <4>3, <4>5 DEF KeysInv
        <3> QED BY <3>2, <3>3
  <2>4. ASSUME NEW p \in Key \X Value PROVE MapAccount(p)'
        <3>1. MapAccount(p)
              BY <1>4 DEF Account
        <3>0. (x = p) \in BOOLEAN /\ IsFiniteSet(Emitted(p)) /\ IsFiniteSet(Places(p))
              BY <3>1 DEF MapAccount
        <3>2. /\ IsFiniteSet(Emitted(p)') /\ Cardinality(Emitted(p)) \in Nat
              /\ Cardinality(Emitted(p)') = Cardinality(Emitted(p)) + (IF x = p THEN 1 ELSE 0)
              BY <3>0, <1>8
        <3>3. /\ IsFiniteSet(Places(p)') /\ Cardinality(Places(p)) \in Nat
              /\ Cardinality(Places(p)') = Cardinality(Places(p)) + (IF x = p THEN 1 ELSE 0)
              <4>1. Gains(Places(p), Places(p)', q, x = p)
                    BY <2>2, <1>k
              <4> QED BY <4>1, <3>0, GainCounts
        <3>4. Occurrences(refused, p)' = Occurrences(refused, p)
              BY <2>1, OccurrencesStay
        <3>5. Occurrences(refused, p) \in Nat
              BY <1>2, <1>7, OccurrencesAppend
        <3> QED BY <3>1, <3>2, <3>3, <3>4, <3>5 DEF MapAccount
  <2> QED BY <1>4, <1>5, <1>6, <2>3, <2>4 DEF Account
<1> QED BY <1>10, <1>11

(* A reducer emits: its value is one more of the key's in the final table. *)
LEMMA ReduceEmitKeeps ==
  ASSUME ReduceEmits, TypeOK, SharesInv, ProgressInv, Account,
         NEW w \in Threads, ThreadEmit(w), thread[w].task # "map"
  PROVE  Account'
<1> DEFINE x == Emits(w)[thread[w].emits + 1]
<1>1. HasEmit(w) /\ thread[w].task # "none" /\ ~Finished(w)
      BY DEF ThreadEmit, HasEmit
<1>2. x \in Key \X Value
      BY <1>1, EmitsType
<1>3. ~Mapping /\ pc \in {"reduce", "join reducers"}
      <2>1. ~Mapping
            BY <1>1, AtElement DEF Role
      <2>2. pc \in {"map", "join mappers", "reduce", "join reducers"}
            BY <1>1, AtWork
      <2> QED BY <2>1, <2>2 DEF Mapping
<1>4. Phase = "reduce" /\ Phase' = "reduce"
      <2>1. UNCHANGED pc
            BY DEF ThreadEmit
      <2> QED BY <1>3, <2>1 DEF Phase, Mapping
<1>5. mr_emit_f(w, x[1], x[2]) /\ UNCHANGED <<output, input>>
      BY DEF ThreadEmit, args
<1>6. UNCHANGED <<intermediate, refused>>
      BY <1>5 DEF mr_emit_f
<1>7. final_table \in [Key -> Seq(Value)] /\ output \in [Key -> Seq(Value)]
      BY DEF TypeOK
<1>8. ASSUME NEW p, IsFiniteSet(Emitted(p))
      PROVE  /\ IsFiniteSet(Emitted(p)') /\ Cardinality(Emitted(p)) \in Nat
             /\ Cardinality(Emitted(p)') = Cardinality(Emitted(p)) + (IF x = p THEN 1 ELSE 0)
      BY <1>8, EmitCounts
<1>k. PICK k \in Key, v \in Value : x = <<k, v>>
      BY <1>2
<1> HIDE DEF x
<1>9. final_table' = [final_table EXCEPT ![k] = Append(@, v)]
      BY <1>5, <1>k DEF mr_emit_f
<1>10. KeysInv'
       BY <1>6, KeysStay DEF Account
<1>11. ASSUME NEW p \in Key \X Value
       PROVE  Grouped(p)' + Occurrences(refused, p)' = Mapped(p)'
       <2>1. UNCHANGED <<Grouped(p), Mapped(p), Occurrences(refused, p)>>
             BY <1>5, <1>6, CountsStay, OccurrencesStay
       <2> QED BY <2>1, <1>4 DEF Account
<1>12. ASSUME NEW p \in Key \X Value PROVE ReduceAccount(p)'
  <2>1. ReduceAccount(p)
        BY <1>4 DEF Account
  <2>0. IsFiniteSet(Emitted(p))
        BY <2>1 DEF ReduceAccount
  <2>2. /\ IsFiniteSet(Emitted(p)') /\ Cardinality(Emitted(p)) \in Nat
        /\ Cardinality(Emitted(p)') = Cardinality(Emitted(p)) + (IF x = p THEN 1 ELSE 0)
        BY <2>0, <1>8
  <2>3. PICK a \in Key, b \in Value : p = <<a, b>>
        OBVIOUS
  <2>4. final_table[a] \in Seq(Value) /\ output[a] \in Seq(Value)
        BY <1>7
  <2>5. Occurrences(final_table'[a], b) = Occurrences(final_table[a], b) + (IF x = p THEN 1 ELSE 0)
        <3>1. CASE a = k
              <4>1. final_table'[a] = Append(final_table[a], v)
                    BY <1>7, <1>9, <3>1
              <4>2. x = p <=> v = b
                    BY <1>k, <2>3, <3>1
              <4>3. Occurrences(Append(final_table[a], v), b)
                      = Occurrences(final_table[a], b) + (IF v = b THEN 1 ELSE 0)
                    BY <2>4, OccurrencesAppend
              <4> QED BY <4>1, <4>2, <4>3
        <3>2. CASE a # k
              <4>1. final_table'[a] = final_table[a]
                    BY <1>7, <1>9, <3>2
              <4>2. x # p
                    BY <1>k, <2>3, <3>2
              <4>3. Occurrences(final_table[a], b) \in Nat
                    BY <2>4, OccurrencesAppend
              <4> QED BY <4>1, <4>2, <4>3
        <3> QED BY <3>1, <3>2
  <2>6. Occurrences(output[a], b) \in Nat /\ Occurrences(final_table[a], b) \in Nat
        BY <2>4, OccurrencesAppend
  <2>7. p[1] = a /\ p[2] = b
        BY <2>3
  <2>8. Occurrences(final_table[a], b) = Occurrences(output[a], b) + Cardinality(Emitted(p))
        BY <2>1, <2>7 DEF ReduceAccount
  <2>9. Occurrences(final_table'[a], b) = Occurrences(output[a], b) + Cardinality(Emitted(p)')
        BY <2>2, <2>5, <2>6, <2>8
  <2>10. Occurrences(output[p[1]], p[2])' = Occurrences(output[p[1]], p[2])
         BY <1>5, OccurrencesStay
  <2>11. Occurrences(final_table[p[1]], p[2])' = Occurrences(final_table'[a], b)
         BY <2>7 DEF Occurrences
  <2> QED BY <2>2, <2>7, <2>9, <2>10, <2>11 DEF ReduceAccount
<1> QED BY <1>4, <1>10, <1>11, <1>12 DEF Account

(* The mappers are joined, and the reducers are.                           *)
LEMMA JoinedKeeps ==
  ASSUME ReduceEmits, TypeOK, SharesInv, ProgressInv, Account, AllJoined
  PROVE  Account'
<1>1. /\ thread' = [n \in Threads |-> NoThread]
      /\ UNCHANGED <<input, intermediate, refused, final_table, output>>
      BY DEF AllJoined, args, store
<1>2. AllAreJoined
      BY DEF AllJoined, AllAreJoined, Shares, Mapping
<1>3. \A p : Emitted(p) = Cells(p)
      BY <1>2, AllPassed
<1>4. input \in Seq(Item) /\ intermediate \in Seq(PairType)
      BY DEF TypeOK, PairType
<1>5. KeysInv'
      BY <1>1, KeysStay DEF Account
<1>6. CASE pc = "join mappers"
  <2>1. Phase = "map" /\ Phase' = "reduce" /\ Mapping
        BY <1>6 DEF AllJoined, Phase, Mapping
  <2>2. final_table = output
        BY <2>1 DEF Account
  <2>3. ASSUME NEW p \in Key \X Value
        PROVE  Grouped(p)' + Occurrences(refused, p)' = Mapped(p)'
        <3>1. MapAccount(p)
              BY <2>1 DEF Account
        <3>2. Grouped(p) = Cardinality(Places(p)) /\ Mapped(p) = Cardinality(Cells(p))
              BY <1>4, <2>1, GroupedPlaces, MappedCells
        <3>3. Emitted(p) = Cells(p)
              BY <1>3
        <3>4. UNCHANGED <<Grouped(p), Mapped(p), Occurrences(refused, p)>>
              BY <1>1, CountsStay, OccurrencesStay
        <3> QED BY <3>1, <3>2, <3>3, <3>4 DEF MapAccount
  <2>4. ASSUME NEW p \in Key \X Value PROVE ReduceAccount(p)'
        <3>1. IsFiniteSet(Emitted(p)') /\ Cardinality(Emitted(p)') = 0
              BY <1>1, NothingPassed
        <3>2. Occurrences(output[p[1]], p[2]) \in Nat
              <4>1. output[p[1]] \in Seq(Value) /\ p[2] \in Value
                    BY DEF TypeOK
              <4> QED BY <4>1, OccurrencesAppend
        <3>3. Occurrences(final_table[p[1]], p[2])' = Occurrences(output[p[1]], p[2])
              BY <1>1, <2>2 DEF Occurrences
        <3>4. Occurrences(output[p[1]], p[2])' = Occurrences(output[p[1]], p[2])
              BY <1>1, OccurrencesStay
        <3> QED BY <3>1, <3>2, <3>3, <3>4 DEF ReduceAccount
  <2> QED BY <1>5, <2>1, <2>3, <2>4 DEF Account
<1>7. CASE pc = "join reducers"
  <2>1. Phase = "reduce" /\ Phase' = "output" /\ ~Mapping
        BY <1>7 DEF AllJoined, Phase, Mapping
  <2>2. ASSUME NEW p \in Key \X Value
        PROVE  /\ Grouped(p)' + Occurrences(refused, p)' = Mapped(p)'
               /\ Occurrences(final_table[p[1]], p[2])'
                    = Occurrences(output[p[1]], p[2])' + Reduced(p)'
        <3>1. ReduceAccount(p) /\ Grouped(p) + Occurrences(refused, p) = Mapped(p)
              BY <2>1 DEF Account
        <3>2. Reduced(p) = Cardinality(Cells(p)) /\ Emitted(p) = Cells(p)
              BY <1>3, <1>4, <2>1, ReducedCells
        <3>3. UNCHANGED <<Grouped(p), Mapped(p), Reduced(p), Occurrences(refused, p)>>
              BY <1>1, CountsStay, OccurrencesStay
        <3>4. UNCHANGED <<Occurrences(final_table[p[1]], p[2]), Occurrences(output[p[1]], p[2])>>
              BY <1>1, OccurrencesStay
        <3> QED BY <3>1, <3>2, <3>3, <3>4 DEF ReduceAccount
  <2> QED BY <1>5, <2>1, <2>2 DEF Account
<1> QED BY <1>6, <1>7 DEF AllJoined

LEMMA OutputKeeps == ASSUME Account, WriteOutput PROVE Account'
<1>1. /\ UNCHANGED <<intermediate, refused>> /\ final_table' = final_table /\ output' = final_table
      /\ pc' = "idle"
      BY DEF WriteOutput, store
<1>2. Phase' = "idle"
      BY <1>1 DEF Phase, Mapping
<1>3. KeysInv'
      BY <1>1, KeysStay DEF Account
<1> QED BY <1>1, <1>2, <1>3 DEF Account

LEMMA AccountStep ==
  ASSUME ReduceEmits, TypeOK, TypeOK', SharesInv, ProgressInv, Account, [Next]_vars
  PROVE  Account'
<1>1. CASE Caller
      BY <1>1, CallerKeeps
<1>2. CASE AllJoined
      BY <1>2, JoinedKeeps
<1>3. CASE WriteOutput
      BY <1>3, OutputKeeps
<1>4. ASSUME NEW n \in Threads, ThreadEmit(n) PROVE Account'
      BY <1>4, MapEmitKeeps, ReduceEmitKeeps
<1>5. CASE \/ CreateMapper \/ CreateReducer \/ AllCreated \/ Join \/ UNCHANGED vars
           \/ \E n \in Threads : ThreadLock(n) \/ ThreadNext(n)
      BY <1>5, QuietSteps, QuietKeeps
<1> QED BY <1>1, <1>2, <1>3, <1>4, <1>5 DEF Next, Main, Work, Stopped

LEMMA InitAccount == Init => ProgressInv /\ Account
<1> SUFFICES ASSUME Init PROVE ProgressInv /\ Account
    OBVIOUS
<1>1. /\ pc = "idle" /\ thread = [n \in Threads |-> NoThread] /\ intermediate = <<>>
      /\ refused = <<>> /\ final_table = output
      BY DEF Init
<1>2. ProgressInv
      <2>1. \A n \in Threads : thread[n].start = 0 /\ thread[n].i = 0
            BY <1>1 DEF NoThread
      <2>2. \A n \in Threads : thread[n].start <= thread[n].i
            BY <2>1
      <2> QED BY <1>1, <2>2 DEF ProgressInv
<1>3. Phase = "idle"
      BY <1>1 DEF Phase, Mapping
<1>4. KeysInv
      BY <1>1 DEF KeysInv
<1> QED BY <1>1, <1>2, <1>3, <1>4 DEF Account

LEMMA AccountInvariance ==
  ASSUME ReduceEmits
  PROVE  Spec => [](IInv /\ ProgressInv /\ Account)
<1>1. Init => IInv /\ ProgressInv /\ Account
      BY InitType, InitShares, InitAccount DEF IInv
<1>2. IInv /\ ProgressInv /\ Account /\ [Next]_vars => (IInv /\ ProgressInv /\ Account)'
      <2> SUFFICES ASSUME TypeOK, SharesInv, ProgressInv, Account, [Next]_vars
                   PROVE  TypeOK' /\ SharesInv' /\ ProgressInv' /\ Account'
          BY DEF IInv
      <2>1. TypeOK' /\ SharesInv'
            BY TypeStep, SharesStep
      <2>2. ProgressInv'
            BY ProgressStep
      <2>3. Account'
            BY <2>1, AccountStep
      <2> QED BY <2>1, <2>2, <2>3
<1> QED BY <1>1, <1>2, PTL DEF Spec

(* However the input is split and the mappers interleave, the table that   *)
(* the reducers are given has every pair the map function emitted, as often *)
(* as it emitted it and under one entry for its key, less those for which  *)
(* mr_emit_i returned -1 because MAX_INTERMEDIATE keys were there (61-88,  *)
(* 126-132, 159-174).                                                      *)
THEOREM NothingIsLost == ASSUME ReduceEmits PROVE Spec => []MapComplete
<1>1. MapIsOver => Phase \in {"reduce", "output"}
      BY DEF MapIsOver, Phase, Mapping
<1>2. Account => MapComplete
      BY <1>1 DEF Account, KeysInv, MapComplete
<1> QED BY <1>2, AccountInvariance, PTL

(* Each key is reduced exactly once: when mr_exec copies its table out, the *)
(* table has what the reduce function emitted on top of what the call      *)
(* before left there (134-140, 179-193).                                   *)
THEOREM EveryKeyIsReduced == ASSUME ReduceEmits PROVE Spec => []ReduceComplete
<1>1. pc = "output" => Phase = "output"
      BY DEF Phase, Mapping
<1>2. Account => ReduceComplete
      BY <1>1 DEF Account, ReduceComplete
<1> QED BY <1>2, AccountInvariance, PTL

-----------------------------------------------------------------------------
(* Waiting.  mr_exec waits only for a thread that it joins, and a thread   *)
(* only for the mutex of its table.  CanStep and CanWork(n) are what the   *)
(* guards of Main and of Work(n) come to.                                  *)

Unfinished(n) == thread[n].task # "none" /\ ~Finished(n)
Mutex(n)      == IF thread[n].task = "map" THEN intermediate_mutex ELSE final_mutex

CanStep ==
  \/ pc \in {"map", "reduce"} /\ t <= Shares
  \/ pc \in {"join mappers", "join reducers"} /\ t = Shares
  \/ pc \in {"join mappers", "join reducers"} /\ t < Shares /\ Finished(t)
  \/ pc = "output"

CanWork(n) ==
  /\ Unfinished(n)
  /\ \/ thread[n].emits = Len(Emits(n))
     \/ thread[n].emits < Len(Emits(n)) /\ Mutex(n) \in {Free, n}

NeverStuck ==
  /\ \A n \in Threads : Unfinished(n) => CanWork(n) \/ \E m \in Threads : m = Mutex(n) /\ CanWork(m)
  /\ pc # "idle" /\ ~CanStep => t \in Threads /\ Unfinished(t)
  /\ pc # "idle" => CanStep \/ \E n \in Threads : CanWork(n)

(* A mutex is held by a thread of its phase that has a pair to add.        *)
HoldsFor(mutex, task) ==
  mutex # Free => thread[mutex].task = task /\ HasEmit(mutex)

HeldInv ==
  /\ HoldsFor(intermediate_mutex, "map") /\ HoldsFor(final_mutex, "reduce")
  /\ \A n \in Threads :
       Unfinished(n) /\ thread[n].emits # 0 => thread[n].emits <= Len(Emits(n))

(* The pairs of a thread's element stay the same while other threads work. *)
LEMMA EmitsKept ==
  ASSUME NEW n, thread'[n].task = thread[n].task, thread'[n].i = thread[n].i,
         UNCHANGED input, thread[n].task = "map" \/ UNCHANGED intermediate
  PROVE  Emits(n)' = Emits(n)
BY DEF Emits

LEMMA HeldByThreads ==
  ASSUME TypeOK, NEW n \in Threads
  PROVE  /\ n # Free /\ n \in Nat
         /\ intermediate_mutex \in Threads \cup {Free} /\ final_mutex \in Threads \cup {Free}
<1>1. n \in Nat /\ n # Free
      BY Limits DEF Threads, Free
<1>2. intermediate_mutex \in Threads \cup {Free} /\ final_mutex \in Threads \cup {Free}
      BY DEF TypeOK
<1> QED BY <1>1, <1>2

(* What does not touch the threads of a phase, their elements or the       *)
(* mutexes keeps the holders.                                              *)
LEMMA HeldFrame ==
  ASSUME TypeOK, HeldInv, UNCHANGED <<thread, input, intermediate, intermediate_mutex, final_mutex>>
  PROVE  HeldInv'
<1>1. \A n : Emits(n)' = Emits(n)
      BY EmitsKept
<1> QED BY <1>1 DEF HeldInv, HoldsFor, HasEmit, Unfinished, Finished

LEMMA RowsNat ==
  ASSUME ReduceEmits, TypeOK, SharesInv, ProgressInv, NEW n \in Threads, Unfinished(n)
  PROVE  Len(Emits(n)) \in Nat /\ thread[n].emits \in Nat
<1>1. Len(Emits(n)) \in Nat
      BY AtElement, RowType DEF Unfinished
<1>2. thread[n].emits \in Nat
      BY DEF TypeOK, ThreadType
<1> QED BY <1>1, <1>2

(* All threads at work do the same.                                        *)
LEMMA SameTask ==
  ASSUME TypeOK, SharesInv, NEW n \in Threads, NEW m \in Threads,
         thread[n].task # "none", thread[m].task # "none"
  PROVE  thread[n].task = thread[m].task
BY AtWork DEF HasShare

LEMMA JoinedFree ==
  ASSUME TypeOK, SharesInv, ProgressInv, HeldInv, AllAreJoined \/ pc \in {"idle", "output"}
  PROVE  intermediate_mutex = Free /\ final_mutex = Free
<1>1. ASSUME NEW m \in Threads, HasEmit(m)
      PROVE  FALSE
  <2>1. thread[m].task # "none" /\ ~Finished(m)
        BY <1>1 DEF HasEmit
  <2>2. pc \in {"map", "join mappers", "reduce", "join reducers"}
        BY <2>1, AtWork
  <2>3. pc \in {"join mappers", "join reducers"} /\ t = Shares
        BY <2>2 DEF AllAreJoined
  <2>4. thread[m] # NoThread
        BY <2>1 DEF NoThread
  <2>5. ~(m >= Created)
        BY <2>2, <2>4 DEF SharesInv
  <2>6. Created = t
        BY <2>3 DEF Created
  <2>7. m \in Nat /\ t \in 0..MaxThreads
        BY HeldByThreads DEF TypeOK
  <2>8. m < t
        BY <2>5, <2>6, <2>7, Limits
  <2> QED BY <2>1, <2>3, <2>8 DEF ProgressInv
<1> QED BY <1>1 DEF HeldInv, HoldsFor, TypeOK

LEMMA WorkKeepsHeld ==
  ASSUME ReduceEmits, TypeOK, SharesInv, ProgressInv, HeldInv, NEW n \in Threads, Work(n)
  PROVE  HeldInv'
<1>0. thread \in [Threads -> ThreadType] /\ thread[n].task # "none" /\ Unfinished(n)
      BY DEF TypeOK, Work, ThreadLock, ThreadEmit, ThreadNext, HasEmit, Unfinished
<1>a. intermediate_mutex \in Threads \cup {Free} /\ final_mutex \in Threads \cup {Free}
      BY DEF TypeOK
<1>1. CASE ThreadLock(n)
  <2>1. /\ UNCHANGED <<thread, input, intermediate>> /\ HasEmit(n)
        /\ \/ thread[n].task = "map" /\ intermediate_mutex' = n /\ UNCHANGED final_mutex
           \/ thread[n].task = "reduce" /\ final_mutex' = n /\ UNCHANGED intermediate_mutex
        BY <1>1 DEF ThreadLock, args
  <2>2. \A m : Emits(m)' = Emits(m)
        BY <2>1, EmitsKept
  <2>3. \A m : (HasEmit(m)' <=> HasEmit(m)) /\ (Unfinished(m)' <=> Unfinished(m))
        BY <2>1, <2>2 DEF HasEmit, Unfinished, Finished
  <2>4. HoldsFor(intermediate_mutex, "map")' /\ HoldsFor(final_mutex, "reduce")'
        BY <2>1, <2>3 DEF HeldInv, HoldsFor
  <2> QED BY <2>1, <2>2, <2>3, <2>4 DEF HeldInv
<1>2. CASE ThreadEmit(n)
  <2>1. /\ thread' = [thread EXCEPT ![n].emits = @ + 1] /\ UNCHANGED input
        /\ thread[n].emits < Len(Emits(n))
        BY <1>2 DEF ThreadEmit, HasEmit, args
  <2>2. \/ thread[n].task = "map" /\ intermediate_mutex' = Free /\ UNCHANGED final_mutex
        \/ /\ thread[n].task # "map" /\ final_mutex' = Free
           /\ UNCHANGED <<intermediate, intermediate_mutex>>
        BY <1>2 DEF ThreadEmit, mr_emit_i, mr_emit_f
  <2>3. \A m \in Threads :
          /\ thread'[m].task = thread[m].task /\ thread'[m].i = thread[m].i
          /\ thread'[m].end = thread[m].end
          /\ thread'[m].emits = IF m = n THEN thread[m].emits + 1 ELSE thread[m].emits
        BY <1>0, <2>1 DEF ThreadType
  <2>4. \A m \in Threads : thread[m].task # "none" => Emits(m)' = Emits(m)
    <3> SUFFICES ASSUME NEW m \in Threads, thread[m].task # "none"
                 PROVE  Emits(m)' = Emits(m)
        OBVIOUS
    <3>1. thread[m].task = thread[n].task
          BY <1>0, SameTask
    <3> QED BY <2>1, <2>2, <2>3, <3>1, EmitsKept
  <2>5. intermediate_mutex' = Free /\ final_mutex' = Free
    <3>1. ASSUME NEW m \in Threads, HasEmit(m)
          PROVE  thread[m].task = thread[n].task
          BY <1>0, <3>1, SameTask DEF HasEmit
    <3> QED BY <1>a, <2>2, <3>1 DEF HeldInv, HoldsFor
  <2>6. \A m \in Threads : Unfinished(m)' <=> Unfinished(m)
        BY <2>3 DEF Unfinished, Finished
  <2>7. thread[n].emits + 1 <= Len(Emits(n))
        BY <1>0, <2>1, RowsNat
  <2>8. \A m \in Threads :
          Unfinished(m)' /\ thread'[m].emits # 0 => thread'[m].emits <= Len(Emits(m)')
    <3> SUFFICES ASSUME NEW m \in Threads, Unfinished(m), thread'[m].emits # 0
                 PROVE  thread'[m].emits <= Len(Emits(m)')
        BY <2>6
    <3>1. Emits(m)' = Emits(m)
          BY <2>4 DEF Unfinished
    <3> QED BY <2>3, <2>7, <3>1 DEF HeldInv
  <2> QED BY <2>5, <2>8 DEF HeldInv, HoldsFor
<1>3. CASE ThreadNext(n)
  <2>1. /\ thread' = [thread EXCEPT ![n].i = @ + 1, ![n].emits = 0] /\ ~HasEmit(n)
        /\ UNCHANGED <<input, intermediate, intermediate_mutex, final_mutex>>
        BY <1>0, <1>3, RowsNat DEF ThreadNext, HasEmit, args, store
  <2>2. thread'[n].emits = 0 /\ \A m \in Threads : m # n => thread'[m] = thread[m]
        BY <1>0, <2>1 DEF ThreadType
  <2>3. \A m \in Threads : m # n => Emits(m)' = Emits(m)
        BY <2>1, <2>2, EmitsKept
  <2>4. \A m \in Threads : m # n => (HasEmit(m)' <=> HasEmit(m)) /\ (Unfinished(m)' <=> Unfinished(m))
        BY <2>2, <2>3 DEF HasEmit, Unfinished, Finished
  <2>5. HoldsFor(intermediate_mutex, "map")' /\ HoldsFor(final_mutex, "reduce")'
        BY <1>a, <2>1, <2>2, <2>4 DEF HeldInv, HoldsFor
  <2>6. \A m \in Threads :
          Unfinished(m)' /\ thread'[m].emits # 0 => thread'[m].emits <= Len(Emits(m)')
        BY <2>2, <2>3, <2>4 DEF HeldInv
  <2> QED BY <2>5, <2>6 DEF HeldInv
<1> QED BY <1>1, <1>2, <1>3 DEF Work

LEMMA HeldStep ==
  ASSUME ReduceEmits, TypeOK, SharesInv, ProgressInv, HeldInv, [Next]_vars
  PROVE  HeldInv'
<1>1. CASE Caller \/ AllJoined
  <2>1. /\ thread' = [n \in Threads |-> NoThread]
        /\ UNCHANGED <<intermediate_mutex, final_mutex>>
        BY <1>1 DEF Caller, mr_exec, AllJoined, store
  <2>2. pc = "idle" \/ AllAreJoined
        BY <1>1 DEF Caller, mr_exec, AllJoined, AllAreJoined, Shares, Mapping
  <2>3. intermediate_mutex' = Free /\ final_mutex' = Free
        BY <2>1, <2>2, JoinedFree
  <2>4. \A n \in Threads : thread'[n].emits = 0
        BY <2>1 DEF NoThread
  <2> QED BY <2>3, <2>4 DEF HeldInv, HoldsFor
<1>2. CASE CreateMapper \/ CreateReducer
  <2>0. \A task, n, count, threads : Share(task, n, count, threads).emits = 0
        BY DEF Share
  <2>1. PICK s : thread' = [thread EXCEPT ![t] = s] /\ s.emits = 0
        BY <1>2, <2>0 DEF CreateMapper, CreateReducer
  <2>2. UNCHANGED <<input, intermediate, intermediate_mutex, final_mutex>>
        BY <1>2 DEF CreateMapper, CreateReducer, args, store
  <2>3. thread \in [Threads -> ThreadType]
        BY DEF TypeOK
  <2>4. \A n \in Threads : IF n = t THEN thread'[n].emits = 0 ELSE thread'[n] = thread[n]
        BY <2>1, <2>3
  <2>5. \A n \in Threads : n # t => Emits(n)' = Emits(n)
        BY <2>2, <2>4, EmitsKept
  <2>6. \A n \in Threads : n # t => (HasEmit(n)' <=> HasEmit(n)) /\ (Unfinished(n)' <=> Unfinished(n))
        BY <2>4, <2>5 DEF HasEmit, Unfinished, Finished
  <2>7. t \in Threads => ~HasEmit(t)
    <3>1. pc \in {"map", "reduce"} /\ t \in 0..MaxThreads
          BY <1>2 DEF CreateMapper, CreateReducer, TypeOK
    <3>2. t >= Created
          BY <3>1, Limits DEF Created
    <3>3. t \in Threads => thread[t] = NoThread
          BY <3>1, <3>2 DEF SharesInv
    <3> QED BY <3>3 DEF HasEmit, NoThread
  <2>8. HoldsFor(intermediate_mutex, "map")' /\ HoldsFor(final_mutex, "reduce")'
    <3>1. intermediate_mutex \in Threads \cup {Free} /\ final_mutex \in Threads \cup {Free}
          BY DEF TypeOK
    <3> QED BY <2>2, <2>4, <2>6, <2>7, <3>1 DEF HeldInv, HoldsFor
  <2>9. \A n \in Threads :
          Unfinished(n)' /\ thread'[n].emits # 0 => thread'[n].emits <= Len(Emits(n)')
        BY <2>4, <2>5, <2>6 DEF HeldInv
  <2> QED BY <2>8, <2>9 DEF HeldInv
<1>3. CASE AllCreated \/ Join \/ WriteOutput \/ UNCHANGED vars
      BY <1>3, HeldFrame DEF AllCreated, Join, WriteOutput, args, store, vars
<1>4. CASE \E n \in Threads : Work(n)
      BY <1>4, WorkKeepsHeld
<1> QED BY <1>1, <1>2, <1>3, <1>4 DEF Next, Main, Stopped

(* A thread with work left can do it, or another has the mutex and can.    *)
LEMMA ThreadGoesOn ==
  ASSUME ReduceEmits, TypeOK, SharesInv, ProgressInv, HeldInv, NEW n \in Threads, Unfinished(n)
  PROVE  CanWork(n) \/ \E m \in Threads : m = Mutex(n) /\ CanWork(m)
<1>1. thread[n].emits <= Len(Emits(n)) /\ thread[n].emits \in Nat /\ Len(Emits(n)) \in Nat
  <2>1. thread[n].emits \in Nat /\ Len(Emits(n)) \in Nat
        BY RowsNat
  <2> QED BY <2>1 DEF HeldInv
<1>2. CASE Mutex(n) = Free \/ thread[n].emits = Len(Emits(n))
      BY <1>1, <1>2 DEF CanWork
<1>3. CASE Mutex(n) # Free
  <2>1. PICK m \in Threads : m = Mutex(n)
        BY <1>3 DEF Mutex, TypeOK
  <2>2. HasEmit(m) /\ Mutex(m) = m
        BY <1>3, <2>1 DEF Mutex, HeldInv, HoldsFor
  <2>3. CanWork(m)
        BY <2>2 DEF CanWork, HasEmit, Unfinished
  <2> QED BY <2>1, <2>3
<1> QED BY <1>2, <1>3

LEMMA SomebodyGoesOn ==
  ASSUME ReduceEmits, TypeOK, SharesInv, ProgressInv, HeldInv
  PROVE  NeverStuck
<1>1. ASSUME pc # "idle", ~CanStep
      PROVE  t \in Threads /\ Unfinished(t)
  <2>1. t \in 0..MaxThreads /\ Shares \in 1..MaxThreads
        BY SharesType DEF TypeOK
  <2>2. pc \in {"map", "join mappers", "reduce", "join reducers", "output"}
        BY <1>1 DEF TypeOK
  <2>3. pc \in {"join mappers", "join reducers"} /\ t # Shares
        BY <1>1, <2>2 DEF CanStep, SharesInv
  <2>4. t # Shares /\ t <= Shares
        BY <2>3 DEF ProgressInv
  <2>5. t < Shares /\ t \in Threads
        BY <2>1, <2>4, Limits DEF Threads
  <2>6. ~Finished(t)
        BY <1>1, <2>3, <2>5 DEF CanStep
  <2>7. t < Created
        BY <2>3, <2>5 DEF Created
  <2>8. thread[t].task # "none"
        BY <2>3, <2>5, <2>7 DEF SharesInv, HasShare, Role
  <2> QED BY <2>5, <2>6, <2>8 DEF Unfinished
<1> QED BY <1>1, ThreadGoesOn DEF NeverStuck

(* However the threads interleave, and whatever the functions emit, a call *)
(* of mr_exec does not get stuck: a thread that waits for a mutex waits    *)
(* for one that can add its pair and give it back, and what mr_exec joins  *)
(* has work left and can do it, or waits for such a thread (61-105,        *)
(* 120-197).                                                               *)
THEOREM CallIsNeverStuck == ASSUME ReduceEmits PROVE Spec => []NeverStuck
<1>1. Init => HeldInv
      BY DEF Init, HeldInv, HoldsFor, NoThread, Unfinished
<1>2. IInv /\ ProgressInv /\ HeldInv /\ [Next]_vars => HeldInv'
      BY HeldStep DEF IInv
<1>3. IInv /\ ProgressInv /\ HeldInv => NeverStuck
      BY SomebodyGoesOn DEF IInv
<1> QED BY <1>1, <1>2, <1>3, AccountInvariance, PTL DEF Spec

-----------------------------------------------------------------------------
(* Steps left.  A phase has a lock and an emit for each pair, a step of    *)
(* the loop for each element, and mr_exec's own steps.  Each thread counts *)
(* with all that is at or after its place, its share or not.  A thread is  *)
(* at an element, and done with locking for, and with sending, so many of  *)
(* the pairs of that element.                                              *)

At     == [n \in Threads |-> thread[n].i + 1]
Sent   == [n \in Threads |-> thread[n].emits]
Locked == [n \in Threads |->
               thread[n].emits + IF n \in {intermediate_mutex, final_mutex} THEN 1 ELSE 0]

Pairs == UNION {Threads \X ({x} \X (1..Len(Row(x)))) : x \in 1..Size}

(* Those of pairs that lie ahead of threads that are at an element and     *)
(* done with so many of its pairs; and the elements that do.               *)
Ahead(pairs, at, done) ==
  {q \in pairs : \/ at[q[1]] < q[2][1]
                 \/ at[q[1]] = q[2][1] /\ done[q[1]] < q[2][2]}
ToPass(at) == {q \in Threads \X (1..Size) : at[q[1]] <= q[2]}
MainLeft ==
  IF pc \in {"map", "reduce"} THEN Shares - t + Shares + 1
  ELSE IF pc \in {"join mappers", "join reducers"} THEN Shares - t ELSE 0

Remaining ==
  Cardinality(Ahead(Pairs, At, Locked)) + Cardinality(Ahead(Pairs, At, Sent))
    + Cardinality(ToPass(At)) + MainLeft

PhasesLeft ==
  IF Mapping THEN 3
  ELSE IF pc \in {"reduce", "join reducers"} THEN 2 ELSE IF pc = "output" THEN 1 ELSE 0

Nearer == PhasesLeft' < PhasesLeft \/ (PhasesLeft' = PhasesLeft /\ Remaining' < Remaining)

LEMMA FewerElements ==
  ASSUME NEW S, IsFiniteSet(S), NEW T, T \subseteq S
  PROVE  /\ IsFiniteSet(T) /\ Cardinality(S) \in Nat /\ Cardinality(T) \in Nat
         /\ Cardinality(T) <= Cardinality(S)
         /\ T # S => Cardinality(T) < Cardinality(S)
<1>1. IsFiniteSet(T) /\ Cardinality(T) <= Cardinality(S) /\ (Cardinality(S) = Cardinality(T) => S = T)
      BY FS_Subset
<1>2. Cardinality(S) \in Nat /\ Cardinality(T) \in Nat
      BY <1>1, FS_CardinalityType
<1> QED BY <1>1, <1>2

LEMMA PairsFinite ==
  ASSUME ReduceEmits, TypeOK
  PROVE  IsFiniteSet(Pairs) /\ Pairs \subseteq Threads \X (Nat \X Nat) /\ IsFiniteSet(Threads \X (1..Size))
<1> DEFINE Of(x) == Threads \X ({x} \X (1..Len(Row(x))))
           All   == {Of(x) : x \in 1..Size}
           f     == [x \in 1..Size |-> Of(x)]
<1>0. Size \in Nat /\ IsFiniteSet(Threads)
      BY SizeType, Limits, FS_Interval DEF Threads
<1>1. IsFiniteSet(1..Size)
      BY <1>0, FS_Interval
<1>2. ASSUME NEW x \in 1..Size
      PROVE  IsFiniteSet(Of(x)) /\ Of(x) \subseteq Threads \X (Nat \X Nat)
  <2>1. Len(Row(x)) \in Nat
        BY RowType
  <2>2. IsFiniteSet(1..Len(Row(x)))
        BY <2>1, FS_Interval
  <2>5. IsFiniteSet({x})
        BY FS_Singleton
  <2>3. IsFiniteSet({x} \X (1..Len(Row(x))))
        BY <2>2, <2>5, FS_Product
  <2>4. x \in Nat /\ 1..Len(Row(x)) \subseteq Nat
        BY <1>0, <2>1
  <2> QED BY <2>3, <2>4, <1>0, FS_Product
<1>3. IsFiniteSet(All)
  <2>1. f \in Surjection(1..Size, All)
        BY DEF Surjection
  <2> HIDE DEF f, All
  <2> QED BY <2>1, <1>1, FS_Surjection
<1>4. \A T \in All : IsFiniteSet(T)
      BY <1>2
<1>5. IsFiniteSet(UNION All)
  <2> HIDE DEF All
  <2> QED BY <1>3, <1>4, FS_UNION
<1>6. Pairs = UNION All
      BY DEF Pairs
<1>7. UNION All \subseteq Threads \X (Nat \X Nat)
      BY <1>2
<1>8. IsFiniteSet(Threads \X (1..Size))
      BY <1>0, <1>1, FS_Product
<1> QED BY <1>5, <1>6, <1>7, <1>8

(* When no thread goes back, nothing that lay behind one lies ahead again. *)
LEMMA AheadShrinks ==
  ASSUME NEW pairs, pairs \subseteq Threads \X (Nat \X Nat),
         NEW at \in [Threads -> Nat], NEW done \in [Threads -> Nat],
         NEW at2 \in [Threads -> Nat], NEW done2 \in [Threads -> Nat],
         \A n \in Threads : at[n] < at2[n] \/ (at[n] = at2[n] /\ done[n] <= done2[n])
  PROVE  Ahead(pairs, at2, done2) \subseteq Ahead(pairs, at, done)
<1> SUFFICES ASSUME NEW q \in pairs,
                    at2[q[1]] < q[2][1] \/ (at2[q[1]] = q[2][1] /\ done2[q[1]] < q[2][2])
             PROVE  at[q[1]] < q[2][1] \/ (at[q[1]] = q[2][1] /\ done[q[1]] < q[2][2])
    BY DEF Ahead
<1>1. PICK n \in Threads, x \in Nat, k \in Nat : q[1] = n /\ q[2][1] = x /\ q[2][2] = k
      OBVIOUS
<1>2. at[n] \in Nat /\ at2[n] \in Nat /\ done[n] \in Nat /\ done2[n] \in Nat
      OBVIOUS
<1> QED BY <1>1, <1>2

LEMMA ToPassShrinks ==
  ASSUME NEW at \in [Threads -> Nat], NEW at2 \in [Threads -> Nat], Size \in Nat,
         \A n \in Threads : at[n] <= at2[n]
  PROVE  ToPass(at2) \subseteq ToPass(at)
<1> SUFFICES ASSUME NEW q \in Threads \X (1..Size), at2[q[1]] <= q[2]
             PROVE  at[q[1]] <= q[2]
    BY DEF ToPass
<1>1. q[2] \in Nat /\ at[q[1]] \in Nat /\ at2[q[1]] \in Nat /\ at[q[1]] <= at2[q[1]]
      OBVIOUS
<1> QED BY <1>1

(* The places of the threads are numbers.                                  *)
LEMMA PlacesType ==
  ASSUME TypeOK
  PROVE  At \in [Threads -> Nat] /\ Sent \in [Threads -> Nat] /\ Locked \in [Threads -> Nat]
<1>1. \A n \in Threads : thread[n].i \in Nat /\ thread[n].emits \in Nat
      BY DEF TypeOK, ThreadType
<1>2. \A n \in Threads : thread[n].i + 1 \in Nat /\ thread[n].emits + 1 \in Nat /\ thread[n].emits + 0 \in Nat
      BY <1>1
<1> QED BY <1>1, <1>2 DEF At, Sent, Locked

(* The four counts that make up what remains.                              *)
LEMMA CountsType ==
  ASSUME ReduceEmits, TypeOK, SharesInv, ProgressInv
  PROVE  /\ IsFiniteSet(Ahead(Pairs, At, Locked)) /\ Cardinality(Ahead(Pairs, At, Locked)) \in Nat
         /\ IsFiniteSet(Ahead(Pairs, At, Sent)) /\ Cardinality(Ahead(Pairs, At, Sent)) \in Nat
         /\ IsFiniteSet(ToPass(At)) /\ Cardinality(ToPass(At)) \in Nat
         /\ MainLeft \in Nat
<1>1. Ahead(Pairs, At, Locked) \subseteq Pairs /\ Ahead(Pairs, At, Sent) \subseteq Pairs
      BY DEF Ahead
<1>2. ToPass(At) \subseteq Threads \X (1..Size)
      BY DEF ToPass
<1>3. MainLeft \in Nat
  <2>0. t \in 0..MaxThreads /\ Shares \in 1..MaxThreads
        BY SharesType DEF TypeOK
  <2>1. t \in Nat /\ Shares \in Nat
        BY <2>0, Limits
  <2>2. pc \in {"map", "reduce"} => t <= Shares
        BY DEF SharesInv
  <2>3. pc \in {"join mappers", "join reducers"} => t <= Shares
        BY DEF ProgressInv
  <2>4. t <= Shares => Shares - t \in Nat /\ Shares - t + Shares + 1 \in Nat
        BY <2>1
  <2> QED BY <2>2, <2>3, <2>4 DEF MainLeft
<1> QED BY <1>1, <1>2, <1>3, PairsFinite, FewerElements

(* A step that leaves the phase, moves no thread back, and takes something *)
(* from one of the counts, leaves less.                                    *)
Forward ==
  /\ PhasesLeft' = PhasesLeft /\ Pairs' = Pairs /\ Size' = Size
  /\ At' \in [Threads -> Nat] /\ Sent' \in [Threads -> Nat] /\ Locked' \in [Threads -> Nat]
  /\ \A n \in Threads : \/ At[n] < At'[n]
                        \/ At[n] = At'[n] /\ Sent[n] <= Sent'[n] /\ Locked[n] <= Locked'[n]
  /\ MainLeft' \in Nat /\ MainLeft' <= MainLeft

LEMMA ForwardIsNearer ==
  ASSUME ReduceEmits, TypeOK, SharesInv, ProgressInv, Forward,
         \/ MainLeft' < MainLeft
         \/ Ahead(Pairs, At', Locked') # Ahead(Pairs, At, Locked)
         \/ Ahead(Pairs, At', Sent') # Ahead(Pairs, At, Sent)
         \/ ToPass(At') # ToPass(At)
  PROVE  Nearer
<1> DEFINE at     == At'
           sent   == Sent'
           locked == Locked'
           left   == MainLeft'
           a == Cardinality(Ahead(Pairs, At, Locked))
           b == Cardinality(Ahead(Pairs, At, Sent))
           c == Cardinality(ToPass(At))
           a2 == Cardinality(Ahead(Pairs, at, locked))
           b2 == Cardinality(Ahead(Pairs, at, sent))
           c2 == Cardinality(ToPass(at))
<1>1. /\ at \in [Threads -> Nat] /\ sent \in [Threads -> Nat] /\ locked \in [Threads -> Nat]
      /\ \A n \in Threads : \/ At[n] < at[n]
                            \/ At[n] = at[n] /\ Sent[n] <= sent[n] /\ Locked[n] <= locked[n]
      /\ left \in Nat /\ left <= MainLeft
      BY DEF Forward
<1>2. Remaining' = a2 + b2 + c2 + left
      BY DEF Forward, Remaining, Ahead, ToPass
<1>3. \/ left < MainLeft
      \/ Ahead(Pairs, at, locked) # Ahead(Pairs, At, Locked)
      \/ Ahead(Pairs, at, sent) # Ahead(Pairs, At, Sent)
      \/ ToPass(at) # ToPass(At)
      OBVIOUS
<1>4. PhasesLeft' = PhasesLeft
      BY DEF Forward
<1> HIDE DEF at, sent, locked, left
<1>5. At \in [Threads -> Nat] /\ Sent \in [Threads -> Nat] /\ Locked \in [Threads -> Nat]
      BY PlacesType
<1>6. Pairs \subseteq Threads \X (Nat \X Nat) /\ Size \in Nat
      BY PairsFinite, SizeType
<1>7. Ahead(Pairs, at, locked) \subseteq Ahead(Pairs, At, Locked)
      BY <1>1, <1>5, <1>6, AheadShrinks
<1>8. Ahead(Pairs, at, sent) \subseteq Ahead(Pairs, At, Sent)
      BY <1>1, <1>5, <1>6, AheadShrinks
<1>9. ToPass(at) \subseteq ToPass(At)
  <2>1. \A n \in Threads : At[n] \in Nat /\ at[n] \in Nat
        BY <1>1, <1>5
  <2>2. \A n \in Threads : At[n] <= at[n]
        BY <1>1, <2>1
  <2> QED BY <1>1, <1>5, <1>6, <2>2, ToPassShrinks
<1>10. a2 \in Nat /\ a \in Nat /\ a2 <= a /\ (Ahead(Pairs, at, locked) # Ahead(Pairs, At, Locked) => a2 < a)
       BY <1>7, CountsType, FewerElements
<1>11. b2 \in Nat /\ b \in Nat /\ b2 <= b /\ (Ahead(Pairs, at, sent) # Ahead(Pairs, At, Sent) => b2 < b)
       BY <1>8, CountsType, FewerElements
<1>12. c2 \in Nat /\ c \in Nat /\ c2 <= c /\ (ToPass(at) # ToPass(At) => c2 < c)
       BY <1>9, CountsType, FewerElements
<1>13. MainLeft \in Nat
       BY CountsType
<1>14. Remaining = a + b + c + MainLeft
       BY DEF Remaining
<1> HIDE DEF a, b, c, a2, b2, c2
<1>15. left < MainLeft \/ a2 < a \/ b2 < b \/ c2 < c
       BY <1>3, <1>10, <1>11, <1>12
<1>16. a2 + b2 + c2 + left < a + b + c + MainLeft
       BY <1>1, <1>10, <1>11, <1>12, <1>13, <1>15
<1> QED BY <1>2, <1>4, <1>14, <1>16 DEF Nearer

LEMMA SamePairs ==
  ASSUME UNCHANGED input, Mapping' = Mapping, Mapping \/ UNCHANGED intermediate
  PROVE  Pairs' = Pairs /\ Size' = Size
<1>1. Size' = Size /\ \A x : Row(x)' = Row(x)
      BY RowsStay
<1> QED BY <1>1 DEF Pairs

(* A thread that gets done with a pair of its element leaves it behind.    *)
LEMMA PairLeft ==
  ASSUME NEW pairs, NEW n \in Threads, NEW k \in Nat,
         NEW at, NEW done, NEW at2, NEW done2, at[n] \in Nat, at2[n] = at[n],
         <<n, <<at[n], k>>>> \in pairs, done[n] \in Nat, done[n] < k, done2[n] = k
  PROVE  Ahead(pairs, at2, done2) # Ahead(pairs, at, done)
<1> DEFINE q == <<n, <<at[n], k>>>>
<1>1. q \in pairs /\ q[1] = n /\ q[2][1] = at[n] /\ q[2][2] = k
      OBVIOUS
<1> HIDE DEF q
<1>2. q \in Ahead(pairs, at, done)
      BY <1>1 DEF Ahead
<1>3. ~(at[n] < at[n]) /\ ~(k < k)
      OBVIOUS
<1>4. q \notin Ahead(pairs, at2, done2)
      BY <1>1, <1>3 DEF Ahead
<1> QED BY <1>2, <1>4

LEMMA ElementLeft ==
  ASSUME NEW n \in Threads, NEW at, NEW at2, at[n] \in 1..Size, Size \in Nat, at2[n] = at[n] + 1
  PROVE  ToPass(at2) # ToPass(at)
<1> DEFINE q == <<n, at[n]>>
<1>1. q \in Threads \X (1..Size) /\ q[1] = n /\ q[2] = at[n]
      OBVIOUS
<1>2. at[n] <= at[n] /\ ~(at[n] + 1 <= at[n])
      OBVIOUS
<1> HIDE DEF q
<1>3. q \in ToPass(at) /\ q \notin ToPass(at2)
      BY <1>1, <1>2 DEF ToPass
<1> QED BY <1>3

LEMMA NextPair ==
  ASSUME ReduceEmits, TypeOK, SharesInv, ProgressInv, NEW n \in Threads, HasEmit(n)
  PROVE  <<n, <<At[n], thread[n].emits + 1>>>> \in Pairs
<1>1. thread[n].i + 1 \in 1..Size /\ Emits(n) = Row(thread[n].i + 1)
      BY AtElement DEF HasEmit
<1>2. thread[n].emits \in Nat /\ Len(Row(thread[n].i + 1)) \in Nat
      BY <1>1, RowType DEF TypeOK, ThreadType
<1>3. thread[n].emits < Len(Row(thread[n].i + 1))
      BY <1>1 DEF HasEmit
<1>4. thread[n].emits + 1 \in 1..Len(Row(thread[n].i + 1))
      BY <1>2, <1>3
<1>5. At[n] = thread[n].i + 1
      BY DEF At
<1> QED BY <1>1, <1>4, <1>5 DEF Pairs

(* The steps of mr_exec itself.                                            *)
LEMMA MainIsNearer ==
  ASSUME ReduceEmits, TypeOK, SharesInv, ProgressInv, Main
  PROVE  Nearer
<1>0. t \in 0..MaxThreads /\ Shares \in 1..MaxThreads
      BY SharesType DEF TypeOK
<1>a. t \in Nat /\ Shares \in Nat
      BY <1>0, Limits
<1>1. CASE AllJoined \/ WriteOutput
  <2>1. \/ pc = "join mappers" /\ pc' = "reduce"
        \/ pc = "join reducers" /\ pc' = "output"
        \/ pc = "output" /\ pc' = "idle"
        BY <1>1 DEF AllJoined, WriteOutput
  <2>2. \/ PhasesLeft = 3 /\ PhasesLeft' = 2
        \/ PhasesLeft = 2 /\ PhasesLeft' = 1
        \/ PhasesLeft = 1 /\ PhasesLeft' = 0
        BY <2>1 DEF PhasesLeft, Mapping
  <2>3. PhasesLeft' < PhasesLeft
        BY <2>2
  <2> QED BY <2>3 DEF Nearer
<1>2. CASE AllCreated \/ Join
  <2>1. /\ UNCHANGED <<thread, input, intermediate, mapper_count, reducer_count, intermediate_mutex, final_mutex>>
        /\ \/ pc' = pc
           \/ pc = "map" /\ pc' = "join mappers"
           \/ pc = "reduce" /\ pc' = "join reducers"
        BY <1>2 DEF AllCreated, Join, args, store
  <2>11. Mapping' = Mapping
    <3>1. Mapping' <=> Mapping
          BY <2>1 DEF Mapping
    <3>2. Mapping \in BOOLEAN /\ Mapping' \in BOOLEAN
          BY DEF Mapping
    <3> QED BY <3>1, <3>2
  <2>12. PhasesLeft' = PhasesLeft
         BY <2>1 DEF PhasesLeft, Mapping
  <2>2. Pairs' = Pairs /\ Size' = Size
        BY <2>1, <2>11, SamePairs
  <2>3. At' = At /\ Sent' = Sent /\ Locked' = Locked
        BY <2>1 DEF At, Sent, Locked
  <2>4. Shares' = Shares
        BY <2>1, <2>11 DEF Shares
  <2>5. MainLeft' \in Nat /\ MainLeft' < MainLeft
    <3>1. CASE AllCreated
      <4>1. pc \in {"map", "reduce"} /\ pc' \in {"join mappers", "join reducers"} /\ t' = 0 /\ t = Shares
            BY <3>1 DEF AllCreated, Shares, Mapping
      <4>2. MainLeft = Shares - Shares + Shares + 1 /\ MainLeft' = Shares - 0
            BY <4>1, <2>4 DEF MainLeft
      <4> HIDE DEF MainLeft
      <4> QED BY <4>2, <1>a
    <3>2. CASE Join
      <4>1. pc \in {"join mappers", "join reducers"} /\ pc' = pc /\ t' = t + 1 /\ t < Shares
            BY <3>2 DEF Join, Shares, Mapping
      <4>2. MainLeft = Shares - t /\ MainLeft' = Shares - (t + 1)
            BY <4>1, <2>4 DEF MainLeft
      <4>3. ASSUME NEW s \in Nat, NEW n \in Nat, n < s
            PROVE  s - (n + 1) \in Nat /\ s - (n + 1) < s - n
            BY <4>3
      <4> QED BY <4>1, <4>2, <4>3, <1>a
    <3> QED BY <1>2, <3>1, <3>2
  <2>6. MainLeft \in Nat
        BY CountsType
  <2>7. MainLeft' <= MainLeft
        BY <2>5, <2>6
  <2>8. \A n \in Threads : At[n] = At'[n] /\ Sent[n] <= Sent'[n] /\ Locked[n] <= Locked'[n]
        BY <2>3, PlacesType
  <2>9. At' \in [Threads -> Nat] /\ Sent' \in [Threads -> Nat] /\ Locked' \in [Threads -> Nat]
        BY <2>3, PlacesType
  <2>10. Forward
        BY <2>2, <2>5, <2>7, <2>8, <2>9, <2>12 DEF Forward
  <2> QED BY <2>5, <2>10, ForwardIsNearer
<1>3. CASE CreateMapper \/ CreateReducer
  <2>1. /\ UNCHANGED <<pc, input, intermediate, mapper_count, reducer_count, intermediate_mutex, final_mutex>>
        /\ PhasesLeft' = PhasesLeft /\ Mapping' = Mapping /\ pc \in {"map", "reduce"}
        /\ t' = t + 1 /\ t < Shares
        BY <1>3 DEF CreateMapper, CreateReducer, args, store, PhasesLeft, Mapping, Shares
  <2>2. Pairs' = Pairs /\ Size' = Size
        BY <2>1, SamePairs
  <2>3. Shares' = Shares
        BY <2>1 DEF Shares
  <2>4. MainLeft' \in Nat /\ MainLeft' < MainLeft /\ MainLeft' <= MainLeft
    <3>1. MainLeft = Shares - t + Shares + 1 /\ MainLeft' = Shares - (t + 1) + Shares + 1
          BY <2>1, <2>3 DEF MainLeft
    <3> QED BY <3>1, <2>1, <1>a
  <2>5. PICK s \in ThreadType : thread' = [thread EXCEPT ![t] = s] /\ s.emits = 0
    <3>0. mapper_count \in 1..MaxThreads /\ reducer_count \in 1..MaxThreads
          BY DEF TypeOK
    <3>1. t \in Nat /\ mapper_count \in Nat \ {0} /\ reducer_count \in Nat \ {0}
          BY <1>a, <3>0, Limits
    <3>5. input \in Seq(Item) /\ intermediate \in Seq([key : Key, value : Seq(Value)])
          BY DEF TypeOK
    <3>2. Len(input) \in Nat /\ Len(intermediate) \in Nat
          BY <3>5
    <3>3. CASE CreateMapper
      <4>1. Share("map", t, Len(input), mapper_count) \in ThreadType
            BY <3>1, <3>2, ShareType
      <4>2. Share("map", t, Len(input), mapper_count).emits = 0
            BY DEF Share
      <4> QED BY <3>3, <4>1, <4>2 DEF CreateMapper
    <3>4. CASE CreateReducer
      <4>1. Share("reduce", t, Len(intermediate), reducer_count) \in ThreadType
            BY <3>1, <3>2, ShareType
      <4>2. Share("reduce", t, Len(intermediate), reducer_count).emits = 0
            BY DEF Share
      <4> QED BY <3>4, <4>1, <4>2 DEF CreateReducer
    <3> QED BY <1>3, <3>3, <3>4
  <2>6. t \in Threads /\ thread[t] = NoThread
    <3>1. t >= Created
          BY <2>1, <1>a DEF Created
    <3>2. t \in Threads
          BY <1>0, <2>1, Limits DEF Threads
    <3> QED BY <2>1, <3>1, <3>2 DEF SharesInv
  <2>7. thread \in [Threads -> ThreadType]
        BY DEF TypeOK
  <2>8. thread' \in [Threads -> ThreadType] /\ \A n \in Threads : n # t => thread'[n] = thread[n]
        BY <2>5, <2>6, <2>7
  <2>9. thread'[t].i \in Nat /\ thread'[t].emits = 0 /\ thread[t].i = 0 /\ thread[t].emits = 0
        BY <2>5, <2>6, <2>7 DEF ThreadType, NoThread
  <2>10. At' \in [Threads -> Nat] /\ Sent' \in [Threads -> Nat] /\ Locked' \in [Threads -> Nat]
    <3>1. \A n \in Threads : thread'[n].i + 1 \in Nat /\ thread'[n].emits \in Nat
                            /\ thread'[n].emits + 1 \in Nat /\ thread'[n].emits + 0 \in Nat
          BY <2>8 DEF ThreadType
    <3> QED BY <3>1 DEF At, Sent, Locked
  <2>11. ASSUME NEW n \in Threads
         PROVE  \/ At[n] < At'[n]
                \/ At[n] = At'[n] /\ Sent[n] <= Sent'[n] /\ Locked[n] <= Locked'[n]
    <3>1. At[n] \in Nat /\ Sent[n] \in Nat /\ Locked[n] \in Nat
          BY PlacesType
    <3>2. CASE n # t
      <4>1. At'[n] = At[n] /\ Sent'[n] = Sent[n] /\ Locked'[n] = Locked[n]
            BY <3>2, <2>8, <2>1 DEF At, Sent, Locked
      <4> QED BY <3>1, <4>1
    <3>3. CASE n = t
      <4>1. Sent'[n] = Sent[n] /\ Locked'[n] = Locked[n]
            BY <3>3, <2>9, <2>1 DEF Sent, Locked
      <4>2. At[n] = 0 + 1 /\ At'[n] = thread'[t].i + 1
            BY <3>3, <2>9 DEF At
      <4>3. At[n] <= At'[n]
            BY <4>2, <2>9
      <4>4. At'[n] \in Nat
            BY <2>10
      <4> QED BY <3>1, <4>1, <4>3, <4>4
    <3> QED BY <3>2, <3>3
  <2>12. Forward
         BY <2>1, <2>2, <2>4, <2>10, <2>11 DEF Forward
  <2> QED BY <2>4, <2>12, ForwardIsNearer
<1> QED BY <1>1, <1>2, <1>3 DEF Main

(* The steps of a thread.                                                  *)
LEMMA WorkIsNearer ==
  ASSUME ReduceEmits, TypeOK, SharesInv, ProgressInv, HeldInv, NEW n \in Threads, Work(n)
  PROVE  Nearer
<1>0. /\ UNCHANGED <<pc, t, input, mapper_count, reducer_count>>
      /\ thread \in [Threads -> ThreadType] /\ thread[n].task # "none" /\ ~Finished(n)
      BY DEF Work, ThreadLock, ThreadEmit, ThreadNext, HasEmit, args, TypeOK
<1>a. Mapping' = Mapping /\ PhasesLeft' = PhasesLeft /\ MainLeft' = MainLeft
  <2>1. Mapping' = Mapping
        BY <1>0 DEF Mapping
  <2> QED BY <1>0, <2>1 DEF PhasesLeft, MainLeft, Shares
<1>b. MainLeft \in Nat
      BY CountsType
<1>c. /\ At \in [Threads -> Nat] /\ Sent \in [Threads -> Nat] /\ Locked \in [Threads -> Nat]
      /\ thread[n].i \in Nat /\ thread[n].emits \in Nat /\ n \in Nat
      BY <1>0, PlacesType, HeldByThreads DEF ThreadType
<1>d. thread[n].task = Role /\ thread[n].i + 1 \in 1..Size /\ Size \in Nat
      BY <1>0, AtElement, SizeType
<1>e. /\ At[n] = thread[n].i + 1 /\ Sent[n] = thread[n].emits
      /\ Locked[n] = thread[n].emits + IF n \in {intermediate_mutex, final_mutex} THEN 1 ELSE 0
      BY DEF At, Sent, Locked
<1>f. n # Free /\ \A m \in Threads : m # Free
      BY HeldByThreads
<1>1. CASE ThreadLock(n)
  <2>1. /\ UNCHANGED <<thread, intermediate>> /\ HasEmit(n)
        /\ \/ /\ thread[n].task = "map" /\ intermediate_mutex = Free
              /\ intermediate_mutex' = n /\ UNCHANGED final_mutex
           \/ /\ thread[n].task = "reduce" /\ final_mutex = Free
              /\ final_mutex' = n /\ UNCHANGED intermediate_mutex
        BY <1>1 DEF ThreadLock
  <2>2. n \notin {intermediate_mutex, final_mutex}
        BY <2>1, <1>f DEF HeldInv, HoldsFor
  <2>3. n \in {intermediate_mutex', final_mutex'}
        /\ \A m \in Threads : m # n =>
             (m \in {intermediate_mutex', final_mutex'} <=> m \in {intermediate_mutex, final_mutex})
        BY <2>1, <1>f
  <2>4. At' = At /\ Sent' = Sent
        BY <2>1 DEF At, Sent
  <2>5. Locked'[n] = thread[n].emits + 1 /\ Locked[n] = thread[n].emits + 0
        BY <2>1, <2>2, <2>3 DEF Locked
  <2>6. \A m \in Threads : m # n => Locked'[m] = Locked[m]
        BY <2>1, <2>3 DEF Locked
  <2>7. Locked' = [m \in Threads |-> Locked'[m]]
        BY DEF Locked
  <2>8. Locked' \in [Threads -> Nat]
        BY <2>5, <2>6, <2>7, <1>c
  <2>9. Pairs' = Pairs /\ Size' = Size
        BY <2>1, <1>0, <1>a, SamePairs
  <2>10. \A m \in Threads : At[m] = At'[m] /\ Sent[m] <= Sent'[m] /\ Locked[m] <= Locked'[m]
         BY <2>4, <2>5, <2>6, <1>c
  <2>11. Forward
         BY <2>4, <2>8, <2>9, <2>10, <1>a, <1>b, <1>c DEF Forward
  <2>12. <<n, <<At[n], thread[n].emits + 1>>>> \in Pairs
         BY <2>1, NextPair
  <2> DEFINE locked == Locked'
             at     == At'
  <2>13. at = At /\ locked[n] = thread[n].emits + 1 /\ Locked[n] = thread[n].emits
         BY <2>4, <2>5, <1>c
  <2> HIDE DEF locked, at
  <2>14. Ahead(Pairs, at, locked) # Ahead(Pairs, At, Locked)
    <3> DEFINE k == thread[n].emits + 1
    <3>1. k \in Nat /\ Locked[n] \in Nat /\ Locked[n] < k /\ locked[n] = k /\ <<n, <<At[n], k>>>> \in Pairs
          BY <2>12, <2>13, <1>c
    <3>2. at[n] = At[n] /\ At[n] \in Nat
          BY <2>13, <1>c
    <3> HIDE DEF k
    <3> QED BY <3>1, <3>2, PairLeft
  <2> QED BY <2>11, <2>14, ForwardIsNearer DEF locked, at
<1>2. CASE ThreadEmit(n)
  <2>1. thread' = [thread EXCEPT ![n].emits = @ + 1] /\ HasEmit(n)
        BY <1>2 DEF ThreadEmit
  <2>2. \/ /\ thread[n].task = "map" /\ intermediate_mutex = n
           /\ intermediate_mutex' = Free /\ UNCHANGED final_mutex
        \/ /\ thread[n].task # "map" /\ final_mutex = n
           /\ final_mutex' = Free /\ UNCHANGED <<intermediate, intermediate_mutex>>
        BY <1>2 DEF ThreadEmit, mr_emit_i, mr_emit_f
  <2>3. \A m \in Threads : m # n =>
             (m \in {intermediate_mutex', final_mutex'} <=> m \in {intermediate_mutex, final_mutex})
        BY <2>2, <1>f
  <2>4. /\ thread'[n].i = thread[n].i /\ thread'[n].emits = thread[n].emits + 1
        /\ \A m \in Threads : m # n => thread'[m] = thread[m]
        BY <2>1, <1>0 DEF ThreadType
  <2>5. Mapping \/ UNCHANGED intermediate
        BY <2>2, <1>d DEF Role
  <2>6. Pairs' = Pairs /\ Size' = Size
        BY <2>5, <1>0, <1>a, SamePairs
  <2>7. At'[n] = At[n] /\ Sent'[n] = thread[n].emits + 1
        BY <2>4 DEF At, Sent
  <2>8. Locked'[n] \in Nat /\ Locked[n] <= Locked'[n]
    <3>1. Locked'[n] = thread[n].emits + 1 + IF n \in {intermediate_mutex', final_mutex'} THEN 1 ELSE 0
          BY <2>4 DEF Locked
    <3>2. Locked'[n] \in {thread[n].emits + 1 + 1, thread[n].emits + 1 + 0}
          BY <3>1
    <3>3. Locked[n] \in {thread[n].emits + 1, thread[n].emits + 0}
          BY <1>e
    <3> QED BY <3>2, <3>3, <1>c
  <2>9. \A m \in Threads : m # n => At'[m] = At[m] /\ Sent'[m] = Sent[m] /\ Locked'[m] = Locked[m]
        BY <2>3, <2>4 DEF At, Sent, Locked
  <2>10. /\ At' = [m \in Threads |-> At'[m]] /\ Sent' = [m \in Threads |-> Sent'[m]]
         /\ Locked' = [m \in Threads |-> Locked'[m]]
         BY DEF At, Sent, Locked
  <2>11. At' \in [Threads -> Nat] /\ Sent' \in [Threads -> Nat] /\ Locked' \in [Threads -> Nat]
         BY <2>7, <2>8, <2>9, <2>10, <1>c
  <2>12. \A m \in Threads : At[m] = At'[m] /\ Sent[m] <= Sent'[m] /\ Locked[m] <= Locked'[m]
         BY <2>7, <2>8, <2>9, <1>c, <1>e
  <2>13. Forward
         BY <2>6, <2>11, <2>12, <1>a, <1>b DEF Forward
  <2>14. <<n, <<At[n], thread[n].emits + 1>>>> \in Pairs
         BY <2>1, NextPair
  <2> DEFINE sent == Sent'
             at   == At'
  <2>15. at[n] = At[n] /\ sent[n] = thread[n].emits + 1 /\ Sent[n] = thread[n].emits
         BY <2>7, <1>e
  <2> HIDE DEF sent, at
  <2>16. Ahead(Pairs, at, sent) # Ahead(Pairs, At, Sent)
    <3> DEFINE k == thread[n].emits + 1
    <3>1. k \in Nat /\ Sent[n] \in Nat /\ Sent[n] < k /\ sent[n] = k /\ <<n, <<At[n], k>>>> \in Pairs
          BY <2>14, <2>15, <1>c
    <3>2. at[n] = At[n] /\ At[n] \in Nat
          BY <2>15, <1>c
    <3> HIDE DEF k
    <3> QED BY <3>1, <3>2, PairLeft
  <2> QED BY <2>13, <2>16, ForwardIsNearer DEF sent, at
<1>3. CASE ThreadNext(n)
  <2>1. /\ thread' = [thread EXCEPT ![n].i = @ + 1, ![n].emits = 0]
        /\ UNCHANGED <<intermediate, intermediate_mutex, final_mutex>>
        BY <1>3 DEF ThreadNext, store
  <2>2. /\ thread'[n].i = thread[n].i + 1 /\ thread'[n].emits = 0
        /\ \A m \in Threads : m # n => thread'[m] = thread[m]
        BY <2>1, <1>0 DEF ThreadType
  <2>3. Pairs' = Pairs /\ Size' = Size
        BY <2>1, <1>0, <1>a, SamePairs
  <2>4. At'[n] = At[n] + 1 /\ Sent'[n] = 0
        BY <2>2 DEF At, Sent
  <2>5. Locked'[n] \in {0 + 1, 0 + 0}
        BY <2>2 DEF Locked
  <2>6. ASSUME NEW m \in Threads, m # n
        PROVE  At'[m] = At[m] /\ Sent'[m] = Sent[m] /\ Locked'[m] = Locked[m]
    <3>1. thread'[m] = thread[m]
          BY <2>2, <2>6
    <3>2. At'[m] = At[m] /\ Sent'[m] = Sent[m]
          BY <3>1 DEF At, Sent
    <3>3. m \in {intermediate_mutex', final_mutex'} <=> m \in {intermediate_mutex, final_mutex}
          BY <2>1
    <3>4. Locked'[m] = Locked[m]
          BY <3>1, <3>3 DEF Locked
    <3> QED BY <3>2, <3>4
  <2>7. /\ At' = [m \in Threads |-> At'[m]] /\ Sent' = [m \in Threads |-> Sent'[m]]
        /\ Locked' = [m \in Threads |-> Locked'[m]]
        BY DEF At, Sent, Locked
  <2>8. At' \in [Threads -> Nat] /\ Sent' \in [Threads -> Nat] /\ Locked' \in [Threads -> Nat]
        BY <2>4, <2>5, <2>6, <2>7, <1>c
  <2>9. ASSUME NEW m \in Threads
        PROVE  \/ At[m] < At'[m]
               \/ At[m] = At'[m] /\ Sent[m] <= Sent'[m] /\ Locked[m] <= Locked'[m]
    <3>1. At[m] \in Nat /\ Sent[m] \in Nat /\ Locked[m] \in Nat
          BY <1>c
    <3>2. CASE m = n
          BY <3>1, <3>2, <2>4
    <3>3. CASE m # n
      <4>1. At'[m] = At[m] /\ Sent'[m] = Sent[m] /\ Locked'[m] = Locked[m]
            BY <3>3, <2>6
      <4> QED BY <3>1, <4>1
    <3> QED BY <3>2, <3>3
  <2>10. Forward
         BY <2>3, <2>8, <2>9, <1>a, <1>b DEF Forward
  <2> DEFINE at == At'
  <2>11. at[n] = At[n] + 1 /\ At[n] \in 1..Size
         BY <2>4, <1>d, <1>e
  <2> HIDE DEF at
  <2>12. ToPass(at) # ToPass(At)
         BY <2>11, <1>d, ElementLeft
  <2> QED BY <2>10, <2>12, ForwardIsNearer DEF at
<1> QED BY <1>1, <1>2, <1>3 DEF Work

(* While a call runs, every step of mr_exec or of a thread brings it       *)
(* nearer to its end: it begins a later phase, or it leaves less of this   *)
(* one to do, a number that cannot go below zero.  However the threads are *)
(* scheduled, they cannot go round for ever (61-105, 120-197).             *)
THEOREM EveryStepCounts ==
  ASSUME ReduceEmits
  PROVE  Spec => [](Remaining \in Nat) /\ [][pc # "idle" => Nearer]_vars
<1>1. Init => HeldInv
      BY DEF Init, HeldInv, HoldsFor, NoThread, Unfinished
<1>2. IInv /\ ProgressInv /\ HeldInv /\ [Next]_vars => HeldInv'
      BY HeldStep DEF IInv
<1>3. IInv /\ ProgressInv => Remaining \in Nat
  <2> SUFFICES ASSUME TypeOK, SharesInv, ProgressInv PROVE Remaining \in Nat
      BY DEF IInv
  <2> QED BY CountsType DEF Remaining
<1>4. IInv /\ ProgressInv /\ HeldInv /\ [Next]_vars => [pc # "idle" => Nearer]_vars
  <2> SUFFICES ASSUME TypeOK, SharesInv, ProgressInv, HeldInv, Next, pc # "idle", vars' # vars
               PROVE  Nearer
      BY DEF IInv
  <2>1. ~Caller /\ ~Stopped
        BY DEF Caller, mr_exec, Stopped
  <2> QED BY <2>1, MainIsNearer, WorkIsNearer DEF Next
<1> QED BY <1>1, <1>2, <1>3, <1>4, AccountInvariance, PTL DEF Spec

=============================================================================
