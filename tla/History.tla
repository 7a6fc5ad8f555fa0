------------------------------- MODULE History -------------------------------
(***************************************************************************)
(* The command history of the two shells of src/lecture/test, test.c and   *)
(* test2.c: an array of the last HIST_SIZE commands and the number of      *)
(* commands entered.                                                       *)
(*                                                                         *)
(* A history is a record: the slots of the array, how many are in use, the *)
(* count, and `log', a history variable with every command counted, in     *)
(* order.  The functions of the code are operators on it.                  *)
(***************************************************************************)
EXTENDS Integers, Sequences

CONSTANTS Program,      \* subset of {"test.c", "test2.c", "sigtest.c"}: the file
                        \* compiled in (sigtest.c keeps no history)
          HIST_SIZE,    \* the length of input_hist
          Command,      \* the lines that can be stored
          NULL,         \* a slot never written
          Freed,        \* a slot whose string was freed
          Outside       \* what lies before or behind the array

ASSUME HistoryAssumption ==
  /\ Program \subseteq {"test.c", "test2.c", "sigtest.c"} /\ HIST_SIZE \in Nat \ {0}
  /\ Command \cap {NULL, Freed, Outside} = {}

VARIABLES program, history

Slot == 0..(HIST_SIZE - 1)
At(h, i) == IF i \in Slot THEN h.slot[i] ELSE Outside

Empty == [slot |-> [i \in Slot |-> NULL], size |-> 0, count |-> 0, log |-> <<>>]

(* The array is full: everything moves one place down.                     *)
dequeue(h) ==
  [slot |-> [i \in Slot |-> IF i + 1 < h.size THEN h.slot[i + 1] ELSE h.slot[i]],
   size |-> h.size - 1, count |-> h.count, log |-> h.log]

(* As if the array were full one command too late.                         *)
enqueue_Late(h, c) ==
  LET g == IF h.size > HIST_SIZE THEN dequeue(h) ELSE h
  IN  [slot |-> [g.slot EXCEPT ![g.size] = c], size |-> g.size + 1, count |-> g.count + 1,
       log |-> Append(g.log, c)]

enqueue(h, c) ==
  LET g == IF h.size = HIST_SIZE THEN dequeue(h) ELSE h
  IN  [slot |-> [g.slot EXCEPT ![g.size] = c], size |-> g.size + 1, count |-> g.count + 1,
       log |-> Append(g.log, c)]

(* As if a blank line kept its number.                                     *)
removeLast_Counted(h) ==
  IF h.size = 0 THEN h
  ELSE [slot |-> [h.slot EXCEPT ![h.size - 1] = Freed], size |-> h.size - 1, count |-> h.count,
        log |-> SubSeq(h.log, 1, Len(h.log) - 1)]

removeLast(h) ==
  IF h.size = 0 THEN h
  ELSE [slot |-> [h.slot EXCEPT ![h.size - 1] = Freed], size |-> h.size - 1,
        count |-> IF h.count > 0 THEN h.count - 1 ELSE h.count,
        log |-> SubSeq(h.log, 1, Len(h.log) - 1)]

(* The number print_hist() writes before slot i.                           *)
Printed(h, i) == h.count - h.size + i + 1

(* Recall by number, and of the last command, in test.c, and as if the     *)
(* full array were read one place further ...                              *)
get_hist_Further(h, num) ==
  IF num = 0 THEN IF h.count >= 1 THEN h.slot[0] ELSE NULL
  ELSE IF num > h.count \/ num < h.count - h.size THEN NULL
  ELSE IF h.count < HIST_SIZE THEN At(h, num)
  ELSE At(h, num - h.count + h.size + 1)

get_hist(h, num) ==
  IF num = 0 THEN IF h.count >= 1 THEN h.slot[0] ELSE NULL
  ELSE IF num > h.count \/ num < h.count - h.size THEN NULL
  ELSE IF h.count < HIST_SIZE THEN At(h, num)
  ELSE At(h, num - h.count + h.size)

get_Last(h) == At(h, h.size - 1)

(* ... and in test2.c, and as if it counted from zero as well.             *)
get_history_FromZero(h, n) ==
  LET index == IF h.count > HIST_SIZE THEN n - (h.count - HIST_SIZE) ELSE n
  IN  IF n <= 0 \/ n > h.count \/ index < 0 \/ index >= h.size THEN NULL ELSE h.slot[index]

get_history(h, n) ==
  LET index == IF h.count > HIST_SIZE THEN n - (h.count - HIST_SIZE) - 1 ELSE n - 1
  IN  IF n <= 0 \/ n > h.count \/ index < 0 \/ index >= h.size THEN NULL ELSE h.slot[index]

get_last_history(h) == IF h.size > 0 THEN h.slot[h.size - 1] ELSE NULL

(* What happens to the history when a line has been read: test.c takes a   *)
(* blank one out again, which may have pushed out the oldest command.      *)
Store(c) == history' = enqueue(history, c)
StoreBlank(c) == program = "test.c" /\ history' = removeLast(enqueue(history, c))

HistoryInit == program \in Program /\ history = Empty

-----------------------------------------------------------------------------
(* The slots in use hold the commands with the numbers printed for them,   *)
(* whatever was pushed out or taken back: the array is the end of the log. *)
Window ==
  /\ history.size \in 0..HIST_SIZE /\ history.size <= history.count
  /\ history.count = Len(history.log)
  /\ \A i \in 0..(history.size - 1) : history.slot[i] = history.log[Printed(history, i)]

(* Blank lines cost test.c at most one command, however many there are;     *)
(* test2.c always keeps the last HIST_SIZE.                                *)
KeepsLast ==
  LET kept == HIST_SIZE - (IF program = "test.c" THEN 1 ELSE 0)
  IN  history.size >= IF history.count < kept THEN history.count ELSE kept

(* The array is the history that was promised: the newest commands, all    *)
(* that are to be kept, each in the slot it is printed from (test.c        *)
(* 118-171, 204; test2.c 27-66).                                           *)
Remembers == Window /\ KeepsLast

(* What a number recalls.  test2.c: the command it was printed with, and   *)
(* nothing by a number that is not printed.  test.c: the one after it, and *)
(* by the number of the newest command no command at all.                  *)
Recalled(n) ==
  IF n > history.count - history.size /\ n <= history.count THEN history.log[n] ELSE NULL

Recalls ==
  /\ program = "test2.c" => \A n \in 0..(history.count + 1) : get_history(history, n) = Recalled(n)
  /\ program = "test.c" =>
       /\ \A n \in 1..(history.count - 1) :
            n >= history.count - history.size => get_hist(history, n) = history.log[n + 1]
       /\ history.count > 0 => get_hist(history, history.count) \in {NULL, Freed, Outside}
=============================================================================
