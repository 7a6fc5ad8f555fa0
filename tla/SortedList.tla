------------------------------ MODULE SortedList ------------------------------
(***************************************************************************)
(* The sorted lists of src/lab/lab6.c: example.1, and example.2, which also*)
(* keeps the sum of what is in the list.  Any calls of insert_sorted() can *)
(* be made, those of the two main() among them.  A list is the sequence of *)
(* its data.                                                               *)
(***************************************************************************)
EXTENDS Integers, SequencesExt

CONSTANTS Data,        \* what can be inserted
          Modulus,     \* 2^64: sums are of type uint64_t
          MaxInserts   \* bound: calls of insert_sorted()

ASSUME SortedListAssumption ==
  Data \subseteq Nat /\ Modulus \in Nat \ {0} /\ MaxInserts \in Nat

VARIABLES nodes, sum,  \* the list from head on, and info.sum
          state,       \* "up", "crashed", or "exited" by an assertion
          inserted     \* history: the calls so far

listVars == <<nodes, sum, state, inserted>>

(* The loop stops at `curr', the first node not below data; `prev' is the  *)
(* one before it.  (As if it looked for a next node: not used.)            *)
AtOrPast_LastNode(k, data) == k < Len(nodes) => nodes[k] >= data
AtOrPast(k, data) == k <= Len(nodes) => nodes[k] >= data
IsCurr(k, data) == AtOrPast(k, data) /\ \A j \in 1..(k - 1) : ~AtOrPast(j, data)

(* Data equal to that of the first node is not put in front of it, and     *)
(* then there is no prev.                                                  *)
InFront(data) == nodes # <<>> => data < nodes[1]

insert_sorted(data) ==
  /\ state = "up" /\ Len(inserted) < MaxInserts
  /\ inserted' = Append(inserted, data)
  /\ \/ /\ InFront(data)
        /\ nodes' = <<data>> \o nodes /\ sum' = (sum + data) % Modulus /\ UNCHANGED state
     \/ /\ ~InFront(data)
        /\ \E k \in 1..(Len(nodes) + 1) :
             /\ IsCurr(k, data)
             /\ IF k = 1 THEN state' = "crashed" /\ UNCHANGED <<nodes, sum>>
                ELSE /\ nodes' = InsertAt(nodes, k, data) /\ sum' = (sum + data) % Modulus
                     /\ UNCHANGED state

(* ASSERT(new_node != NULL) fails.                                         *)
MallocFails ==
  /\ state = "up" /\ Len(inserted) < MaxInserts
  /\ state' = "exited" /\ UNCHANGED <<nodes, sum, inserted>>

index_of(data) ==
  LET At == {k \in 1..Len(nodes) : nodes[k] = data}
  IN  IF At = {} THEN -1 ELSE (CHOOSE k \in At : \A j \in At : k <= j) - 1

sum_list ==
  LET S[k \in 0..Len(nodes)] == IF k = 0 THEN 0 ELSE (S[k - 1] + nodes[k]) % Modulus
  IN  S[Len(nodes)]

ListInit == nodes = <<>> /\ sum = 0 /\ state = "up" /\ inserted = <<>>
ListNext == MallocFails \/ \E data \in Data : insert_sorted(data)
ListSpec == ListInit /\ [][ListNext]_listVars

-----------------------------------------------------------------------------
(* The tests of the two main().                                            *)
MainTests ==
  /\ inserted = <<1, 2, 5, 3>> => index_of(3) = 2
  /\ inserted = <<1, 2, 5, 3, 0, 4>> => index_of(4) = 4
  /\ inserted = <<1, 3, 5, 2>> => index_of(2) = 1 /\ sum = sum_list

(* After any calls the list is sorted and holds each datum as often as it  *)
(* was inserted, sum is that of the list, and the tests of both main()     *)
(* succeed; the only call that does not end so is to insert the least      *)
(* datum again.                                                            *)
Sorted == \A j, k \in 1..Len(nodes) : j <= k => nodes[j] <= nodes[k]

NumberIn(s, d) == Cardinality({k \in 1..Len(s) : s[k] = d})

InsertsExact ==
  /\ Sorted
  /\ state # "crashed" =>
       (\A d \in Data : NumberIn(nodes, d) = NumberIn(inserted, d)) /\ sum = sum_list /\ MainTests
  /\ state = "crashed" =>
       /\ Len(inserted) > 1
       /\ inserted[Len(inserted)] \in {inserted[k] : k \in 1..(Len(inserted) - 1)}
       /\ \A k \in 1..Len(inserted) : inserted[Len(inserted)] <= inserted[k]
=============================================================================
