------------------------------ MODULE WordCount ------------------------------
(***************************************************************************)
(* The word counter of src/lab/lab8.c.  Words are numbers, in the order    *)
(* that strcmp() gives them; a hash table is the sequence of its entries in*)
(* uthash's order, that of insertion until it is sorted.  main() calls the *)
(* sequential count; the parallel one, which it has in a comment, is       *)
(* modelled beside it.                                                     *)
(*                                                                         *)
(* A definition whose name continues that of the one after it (X_Bug, X) is*)
(* not used: it is X with a mistake that X could have.                     *)
(***************************************************************************)
EXTENDS Integers, Sequences, SequencesExt

CONSTANTS Word, MaxWords,     \* bound: words counted
          THREAD_COUNT

ASSUME WordCountAssumption ==
  Word \subseteq Nat /\ MaxWords \in Nat /\ THREAD_COUNT \in Nat \ {0}

Threads == 0..(THREAD_COUNT - 1)
Main == -1                    \* count_words_seq() counts on main's thread, without a lock
Nobody == -2

VARIABLES words,
          where,       \* main: "count", "launch", "join", "sort", "print", "done"
          launched,    \* the threads created so far
          place,       \* each thread: "none", "lock", "find", "add", "returned"
          next,        \* each thread: how many words of its chunk it has done
          entry,       \* each thread: the index of the entry it found, or 0
          lock,        \* who has count_mutex
          map,
          printed      \* history: what print_counts() printed

countVars == <<words, where, launched, place, next, entry, lock, map, printed>>

-----------------------------------------------------------------------------
(* add_word_counts_in_chunk.                                               *)

(* The chunks; the rest of the division goes to the last thread.           *)
chunk_size == Len(words) \div THREAD_COUNT

num_words_NoRest(t) == IF t = Main THEN Len(words) ELSE chunk_size
num_words(t) ==
  IF t = Main THEN Len(words)
  ELSE chunk_size + (IF t = THREAD_COUNT - 1 THEN Len(words) % THREAD_COUNT ELSE 0)

WordOf(t) == words[(IF t = Main THEN 0 ELSE t * chunk_size) + next[t] + 1]

(* Top of the loop, the end of it, and the mutex, which is not recursive:  *)
(* who has it waits for it for ever.                                       *)
Lock(t) ==
  /\ place[t] = "lock" /\ next[t] < num_words(t)
  /\ IF t = Main THEN UNCHANGED lock ELSE lock = Nobody /\ lock' = t
  /\ place' = [place EXCEPT ![t] = "find"]
  /\ UNCHANGED <<words, where, launched, next, entry, map, printed>>

Return(t) ==
  /\ place[t] = "lock" /\ next[t] = num_words(t)
  /\ place' = [place EXCEPT ![t] = "returned"]
  /\ UNCHANGED <<words, where, launched, next, entry, lock, map, printed>>

HASH_FIND_STR(t) ==
  /\ place[t] = "find"
  /\ entry' = [entry EXCEPT ![t] = SelectInSeq(map, LAMBDA e : e.word = WordOf(t))]
  /\ place' = [place EXCEPT ![t] = "add"]
  /\ UNCHANGED <<words, where, launched, next, lock, map, printed>>

(* The mutex is not unlocked.                                              *)
Add(t) ==
  /\ place[t] = "add"
  /\ map' = IF entry[t] # 0 THEN [map EXCEPT ![entry[t]].count = @ + 1]
                            ELSE Append(map, [word |-> WordOf(t), count |-> 1])
  /\ next' = [next EXCEPT ![t] = @ + 1] /\ place' = [place EXCEPT ![t] = "lock"]
  /\ UNCHANGED <<words, where, launched, entry, lock, printed>>

add_word_counts_in_chunk(t) == Lock(t) \/ Return(t) \/ HASH_FIND_STR(t) \/ Add(t)

-----------------------------------------------------------------------------
(* main.                                                                   *)
CountInit ==
  /\ words \in UNION {[1..n -> Word] : n \in 0..MaxWords}
  /\ where \in {"count", "launch"} /\ launched = 0
  /\ place = [t \in Threads \cup {Main} |->
                IF t = Main /\ where = "count" THEN "lock" ELSE "none"]
  /\ next = [t \in Threads \cup {Main} |-> 0] /\ entry = next
  /\ lock = Nobody /\ map = <<>> /\ printed = <<>>

count_words_seq ==
  /\ where = "count" /\ place[Main] = "returned" /\ where' = "sort"
  /\ UNCHANGED <<words, launched, place, next, entry, lock, map, printed>>

Launch ==
  /\ where = "launch" /\ launched < THREAD_COUNT
  /\ place' = [place EXCEPT ![launched] = "lock"] /\ launched' = launched + 1
  /\ where' = IF launched' = THREAD_COUNT THEN "join" ELSE "launch"
  /\ UNCHANGED <<words, next, entry, lock, map, printed>>

count_words_parallel ==
  /\ where = "join" /\ \A t \in Threads : place[t] = "returned"
  /\ where' = "sort"
  /\ UNCHANGED <<words, launched, place, next, entry, lock, map, printed>>

(* HASH_SORT() puts the entries in the order of sort_func().  An empty     *)
(* table is neither printed nor deleted.                                   *)
Sort ==
  /\ where = "sort"
  /\ \E q \in Bijection(DOMAIN map, DOMAIN map) : map' = [k \in DOMAIN map |-> map[q[k]]]
  /\ \A k \in 2..Len(map) : map'[k - 1].word <= map'[k].word
  /\ where' = IF map = <<>> THEN "done" ELSE "print"
  /\ UNCHANGED <<words, launched, place, next, entry, lock, printed>>

PrintAndDelete ==
  /\ where = "print" /\ printed' = map /\ map' = <<>> /\ where' = "done"
  /\ UNCHANGED <<words, launched, place, next, entry, lock>>

CountNext ==
  \/ \E t \in Threads \cup {Main} : add_word_counts_in_chunk(t)
  \/ count_words_seq \/ Launch \/ count_words_parallel \/ Sort \/ PrintAndDelete

CountSpec == CountInit /\ [][CountNext]_countVars

-----------------------------------------------------------------------------
(* What is printed has every word once, in order, with its count, however  *)
(* the words are split; and the parallel count, which keeps its mutex, only*)
(* ever returns if there is at most one word.                              *)
CountsExact ==
  /\ where = "done" =>
       /\ \A w \in Word : LET n == Cardinality({k \in DOMAIN words : words[k] = w})
                          IN  n > 0 => [word |-> w, count |-> n] \in ToSet(printed)
       /\ Len(printed) = Cardinality(ToSet(words))
       /\ \A k \in 2..Len(printed) : printed[k - 1].word < printed[k].word
  /\ launched > 0 /\ where \notin {"launch", "join"} => Len(words) <= 1
=============================================================================
