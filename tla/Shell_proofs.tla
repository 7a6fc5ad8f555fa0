----------------------------- MODULE Shell_proofs -----------------------------
(***************************************************************************)
(* Proofs about the history of the shells, for a history of any length,    *)
(* any commands and any number of them: first of the operations of History *)
(* alone, then of the shell, which changes it by nothing else.             *)
(***************************************************************************)
EXTENDS Shell, FiniteSetTheorems, TLAPS

Hist == [slot : [Slot -> Command \cup {NULL, Freed}], size : 0..HIST_SIZE, count : Nat,
         log : Seq(Command)]

(* Window, said of a history h.                                            *)
WindowOf(h) ==
  /\ h.size <= h.count /\ h.count = Len(h.log)
  /\ \A i \in 0..(h.size - 1) : h.slot[i] = h.log[h.count - h.size + i + 1]

(* What is behind the slots in use is no command, and nothing but a full   *)
(* array loses one.                                                        *)
UnusedOf(h) == \A i \in Slot : i >= h.size => h.slot[i] \in {NULL, Freed}

KeptOf(h) ==
  /\ h.count < HIST_SIZE => h.size = h.count
  /\ h.count >= HIST_SIZE => h.size >= HIST_SIZE - 1
  /\ program # "test.c" /\ h.count >= HIST_SIZE => h.size = HIST_SIZE

HistoryInv ==
  /\ program \in Program /\ history \in Hist
  /\ WindowOf(history) /\ UnusedOf(history) /\ KeptOf(history)

-----------------------------------------------------------------------------
(* The fields of the history after a command was added: the window moves   *)
(* on by one, and the array is never written past its end.                 *)
LEMMA EnqueueFields ==
  ASSUME NEW h \in Hist, NEW c \in Command
  PROVE  /\ enqueue(h, c) \in Hist
         /\ enqueue(h, c).size = IF h.size = HIST_SIZE THEN HIST_SIZE ELSE h.size + 1
         /\ enqueue(h, c).count = h.count + 1
         /\ enqueue(h, c).log = Append(h.log, c)
         /\ \A i \in Slot : enqueue(h, c).slot[i] =
              IF h.size = HIST_SIZE
                THEN IF i = HIST_SIZE - 1 THEN c ELSE h.slot[i + 1]
                ELSE IF i = h.size THEN c ELSE h.slot[i]
<1> USE HistoryAssumption
<1>1. CASE h.size = HIST_SIZE
  <2> DEFINE g == [i \in Slot |-> IF i + 1 < HIST_SIZE THEN h.slot[i + 1] ELSE h.slot[i]]
  <2>1. dequeue(h) = [slot |-> g, size |-> HIST_SIZE - 1, count |-> h.count, log |-> h.log]
    BY <1>1 DEF dequeue
  <2>2. g \in [Slot -> Command \cup {NULL, Freed}]
    BY DEF Hist, Slot
  <2>3. enqueue(h, c) = [slot |-> [g EXCEPT ![HIST_SIZE - 1] = c], size |-> (HIST_SIZE - 1) + 1,
                         count |-> h.count + 1, log |-> Append(h.log, c)]
    BY <1>1, <2>1 DEF enqueue
  <2>4. Append(h.log, c) \in Seq(Command) /\ h.count \in Nat
    BY DEF Hist
  <2>5. \A i \in Slot : [g EXCEPT ![HIST_SIZE - 1] = c][i] =
                          IF i = HIST_SIZE - 1 THEN c ELSE h.slot[i + 1]
    BY <2>2 DEF Slot
  <2>6. [g EXCEPT ![HIST_SIZE - 1] = c] \in [Slot -> Command \cup {NULL, Freed}]
    BY <2>2
  <2> HIDE DEF g
  <2> QED BY <1>1, <2>3, <2>4, <2>5, <2>6 DEF Hist
<1>2. CASE h.size # HIST_SIZE
  <2>1. enqueue(h, c) = [slot |-> [h.slot EXCEPT ![h.size] = c], size |-> h.size + 1,
                         count |-> h.count + 1, log |-> Append(h.log, c)]
    BY <1>2 DEF enqueue, Hist
  <2>2. Append(h.log, c) \in Seq(Command) /\ h.count \in Nat /\ h.size \in 0..(HIST_SIZE - 1)
    BY <1>2 DEF Hist
  <2>3. [h.slot EXCEPT ![h.size] = c] \in [Slot -> Command \cup {NULL, Freed}]
    BY DEF Hist
  <2> QED BY <1>2, <2>1, <2>2, <2>3 DEF Hist, Slot
<1> QED BY <1>1, <1>2

(* Adding a command keeps the window.                                      *)
LEMMA EnqueueWindow ==
  ASSUME NEW h \in Hist, NEW c \in Command, WindowOf(h), UnusedOf(h)
  PROVE  WindowOf(enqueue(h, c)) /\ UnusedOf(enqueue(h, c))
<1> USE HistoryAssumption
<1> DEFINE e == enqueue(h, c)
<1>1. /\ e \in Hist /\ e.count = h.count + 1 /\ e.log = Append(h.log, c)
      /\ e.size = IF h.size = HIST_SIZE THEN HIST_SIZE ELSE h.size + 1
      /\ \A i \in Slot : e.slot[i] =
           IF h.size = HIST_SIZE
             THEN IF i = HIST_SIZE - 1 THEN c ELSE h.slot[i + 1]
             ELSE IF i = h.size THEN c ELSE h.slot[i]
  BY EnqueueFields
<1> HIDE DEF e
<1>2. /\ h.size \in 0..HIST_SIZE /\ h.count \in Nat /\ h.log \in Seq(Command)
      /\ h.size <= h.count /\ h.count = Len(h.log)
      /\ \A i \in 0..(h.size - 1) : h.slot[i] = h.log[h.count - h.size + i + 1]
  BY DEF Hist, WindowOf
<1>a. /\ h.size \in Int /\ h.count \in Int /\ HIST_SIZE \in Int /\ HIST_SIZE > 0
      /\ 0 <= h.size /\ h.size <= HIST_SIZE /\ h.size <= h.count
  BY <1>2
<1>3. /\ Len(e.log) = h.count + 1 /\ e.log[h.count + 1] = c
      /\ \A k \in 1..h.count : e.log[k] = h.log[k]
  BY <1>1, <1>2
<1>4. ASSUME NEW i \in 0..(e.size - 1)
      PROVE  e.slot[i] = e.log[e.count - e.size + i + 1]
  <2>1. i \in Slot /\ i \in Int /\ 0 <= i /\ i <= HIST_SIZE - 1
    BY <1>1, <1>a DEF Slot
  <2>2. CASE h.size = HIST_SIZE
    <3>1. CASE i = HIST_SIZE - 1
      <4>1. e.slot[i] = c /\ e.count = h.count + 1 /\ e.size = HIST_SIZE
        BY <1>1, <2>1, <2>2, <3>1
      <4>2. e.count - e.size + i + 1 = h.count + 1
        BY <1>a, <3>1, <4>1
      <4> QED BY <1>3, <4>1, <4>2
    <3>2. CASE i # HIST_SIZE - 1
      <4>1. i + 1 \in 0..(h.size - 1) /\ h.count - h.size + i + 2 \in 1..h.count
        BY <1>a, <2>1, <2>2, <3>2
      <4>2. h.slot[i + 1] = h.log[h.count - h.size + (i + 1) + 1]
        BY <1>2, <4>1
      <4>3. e.slot[i] = h.slot[i + 1] /\ e.count - e.size + i + 1 = h.count - h.size + i + 2
        BY <1>1, <1>2, <2>1, <2>2, <3>2
      <4>4. h.count - h.size + (i + 1) + 1 = h.count - h.size + i + 2
        BY <1>a, <2>1
      <4> QED BY <1>3, <4>1, <4>2, <4>3, <4>4
    <3> QED BY <3>1, <3>2
  <2>3. CASE h.size # HIST_SIZE
    <3>1. CASE i = h.size
      <4>1. e.slot[i] = c /\ e.count = h.count + 1 /\ e.size = h.size + 1
        BY <1>1, <2>1, <2>3, <3>1
      <4>2. e.count - e.size + i + 1 = h.count + 1
        BY <1>a, <3>1, <4>1
      <4> QED BY <1>3, <4>1, <4>2
    <3>2. CASE i # h.size
      <4>1. i \in 0..(h.size - 1) /\ h.count - h.size + i + 1 \in 1..h.count
        BY <1>1, <1>2, <2>1, <2>3, <3>2
      <4>2. e.slot[i] = h.slot[i] /\ e.count = h.count + 1 /\ e.size = h.size + 1
        BY <1>1, <2>1, <2>3, <3>2
      <4>3. e.count - e.size + i + 1 = h.count - h.size + i + 1
        BY <1>a, <2>1, <4>2
      <4> QED BY <1>2, <1>3, <4>1, <4>2, <4>3
    <3> QED BY <3>1, <3>2
  <2> QED BY <2>2, <2>3
<1>5. \A i \in Slot : i >= e.size => e.slot[i] \in {NULL, Freed}
  BY <1>1, <1>2 DEF UnusedOf, Slot
<1>b. e.size <= e.count /\ e.count = Len(e.log)
  BY <1>1, <1>a, <1>3
<1>6. WindowOf(e) /\ UnusedOf(e)
  BY <1>4, <1>5, <1>b DEF WindowOf, UnusedOf
<1> QED BY <1>6 DEF e

(* So does taking the last one back.                                       *)
LEMMA RemoveWindow ==
  ASSUME NEW h \in Hist, h.size > 0, WindowOf(h), UnusedOf(h)
  PROVE  /\ removeLast(h) \in Hist /\ WindowOf(removeLast(h)) /\ UnusedOf(removeLast(h))
         /\ removeLast(h).size = h.size - 1 /\ removeLast(h).count = h.count - 1
<1> USE HistoryAssumption
<1> DEFINE r == removeLast(h)
<1>1. /\ h.size \in 1..HIST_SIZE /\ h.count \in Nat /\ h.log \in Seq(Command)
      /\ h.size <= h.count /\ h.count = Len(h.log)
      /\ h.slot \in [Slot -> Command \cup {NULL, Freed}]
      /\ \A i \in 0..(h.size - 1) : h.slot[i] = h.log[h.count - h.size + i + 1]
  BY DEF Hist, WindowOf
<1>2. r = [slot |-> [h.slot EXCEPT ![h.size - 1] = Freed], size |-> h.size - 1,
           count |-> h.count - 1, log |-> SubSeq(h.log, 1, Len(h.log) - 1)]
  <2>1. h.size # 0 /\ h.count > 0
    BY <1>1
  <2> QED BY <2>1 DEF removeLast
<1> HIDE DEF r
<1>3. /\ r.log \in Seq(Command) /\ Len(r.log) = h.count - 1
      /\ \A k \in 1..(h.count - 1) : r.log[k] = h.log[k]
  BY <1>1, <1>2
<1>4. r.slot \in [Slot -> Command \cup {NULL, Freed}]
  BY <1>1, <1>2
<1>5. r \in Hist
  BY <1>1, <1>2, <1>3, <1>4 DEF Hist
<1>6. ASSUME NEW i \in 0..(r.size - 1)
      PROVE  r.slot[i] = r.log[r.count - r.size + i + 1]
  <2>a. /\ h.size \in Int /\ h.count \in Int /\ HIST_SIZE \in Int
        /\ 0 < h.size /\ h.size <= HIST_SIZE /\ h.size <= h.count
        /\ r.size = h.size - 1 /\ r.count = h.count - 1
    BY <1>1, <1>2
  <2>b. i \in Int /\ 0 <= i /\ i <= h.size - 2
    BY <2>a
  <2>1. /\ i \in 0..(h.size - 1) /\ i # h.size - 1 /\ i \in Slot
        /\ h.count - h.size + i + 1 \in 1..(h.count - 1)
        /\ r.count - r.size + i + 1 = h.count - h.size + i + 1
    BY <2>a, <2>b DEF Slot
  <2>2. r.slot[i] = h.slot[i]
    BY <1>1, <1>2, <2>1
  <2> QED BY <1>1, <1>3, <2>1, <2>2
<1>7. \A i \in Slot : i >= r.size => r.slot[i] \in {NULL, Freed}
  BY <1>1, <1>2 DEF UnusedOf, Slot
<1>a. r.size <= r.count /\ r.count = Len(r.log)
  <2>1. r.size = h.size - 1 /\ r.count = h.count - 1
    BY <1>2
  <2> QED BY <1>1, <1>3, <2>1
<1>8. WindowOf(r) /\ UnusedOf(r)
  BY <1>6, <1>7, <1>a DEF WindowOf, UnusedOf
<1> QED BY <1>2, <1>5, <1>8 DEF r

-----------------------------------------------------------------------------
LEMMA StoreStep ==
  ASSUME HistoryInv, UNCHANGED program, NEW c \in Command, Store(c)
  PROVE  HistoryInv'
<1>1. history \in Hist /\ WindowOf(history) /\ UnusedOf(history) /\ KeptOf(history)
  BY DEF HistoryInv
<1>2. history' = enqueue(history, c)
  BY DEF Store
<1>3. history' \in Hist /\ WindowOf(history') /\ UnusedOf(history')
  BY <1>1, <1>2, EnqueueFields, EnqueueWindow
<1>4. KeptOf(history)'
  <2>1. /\ history.size \in 0..HIST_SIZE /\ history.count \in Nat /\ HIST_SIZE \in Nat \ {0}
        /\ history'.count = history.count + 1
        /\ history'.size = IF history.size = HIST_SIZE THEN HIST_SIZE ELSE history.size + 1
    BY <1>1, <1>2, EnqueueFields, HistoryAssumption DEF Hist
  <2> QED BY <1>1, <2>1 DEF KeptOf
<1>5. Slot' = Slot /\ Hist' = Hist
  BY DEF Slot, Hist
<1>6. WindowOf(history)' /\ UnusedOf(history)'
  BY <1>3 DEF WindowOf, UnusedOf, Slot
<1> QED BY <1>3, <1>4, <1>5, <1>6 DEF HistoryInv

LEMMA StoreBlankStep ==
  ASSUME HistoryInv, UNCHANGED program, NEW c \in Command, StoreBlank(c)
  PROVE  HistoryInv'
<1> DEFINE e == enqueue(history, c)
<1>1. history \in Hist /\ WindowOf(history) /\ UnusedOf(history) /\ KeptOf(history)
  BY DEF HistoryInv
<1>2. history' = removeLast(e) /\ program = "test.c"
  BY DEF StoreBlank
<1>3. e \in Hist /\ WindowOf(e) /\ UnusedOf(e)
  BY <1>1, EnqueueFields, EnqueueWindow
<1>4. /\ history.size \in 0..HIST_SIZE /\ history.count \in Nat /\ HIST_SIZE \in Nat \ {0}
      /\ e.count = history.count + 1
      /\ e.size = IF history.size = HIST_SIZE THEN HIST_SIZE ELSE history.size + 1
  BY <1>1, EnqueueFields, HistoryAssumption DEF Hist
<1> HIDE DEF e
<1>5. e.size > 0
  BY <1>4
<1>6. /\ history' \in Hist /\ WindowOf(history') /\ UnusedOf(history')
      /\ history'.size = e.size - 1 /\ history'.count = e.count - 1
  BY <1>2, <1>3, <1>5, RemoveWindow
<1>7. KeptOf(history)'
  BY <1>1, <1>2, <1>4, <1>6 DEF KeptOf
<1>8. WindowOf(history)' /\ UnusedOf(history)'
  BY <1>6 DEF WindowOf, UnusedOf, Slot
<1> QED BY <1>6, <1>7, <1>8 DEF HistoryInv, Hist, Slot

LEMMA HistoryInitInv == HistoryInit => HistoryInv
<1> SUFFICES ASSUME HistoryInit PROVE HistoryInv
  OBVIOUS
<1>1. history = Empty /\ program \in Program
  BY DEF HistoryInit
<1>2. Empty \in Hist
  BY HistoryAssumption DEF Empty, Hist, Slot
<1>3. WindowOf(Empty) /\ UnusedOf(Empty) /\ KeptOf(Empty)
  BY HistoryAssumption DEF Empty, WindowOf, UnusedOf, KeptOf, Slot
<1> QED BY <1>1, <1>2, <1>3 DEF HistoryInv

(* What can happen to the history: a line is stored, or a blank one stored *)
(* and taken out again.                                                    *)
HistoryNext == UNCHANGED program /\ \E c \in Command : Store(c) \/ StoreBlank(c)

LEMMA HistoryStepInv ==
  ASSUME HistoryInv, [HistoryNext]_<<program, history>>
  PROVE  HistoryInv'
<1>1. CASE HistoryNext
  BY <1>1, StoreStep, StoreBlankStep DEF HistoryNext
<1>2. CASE UNCHANGED <<program, history>>
  BY <1>2 DEF HistoryInv, Hist, Slot, WindowOf, UnusedOf, KeptOf
<1> QED BY <1>1, <1>2

-----------------------------------------------------------------------------
(* What the user can rely on, from the invariant.                          *)

LEMMA WindowFromInv == HistoryInv => Window
BY DEF HistoryInv, Window, WindowOf, Printed, Hist

LEMMA KeepsLastFromInv == HistoryInv => KeepsLast
<1> SUFFICES ASSUME HistoryInv PROVE KeepsLast
  OBVIOUS
<1>1. history.size \in 0..HIST_SIZE /\ history.count \in Nat /\ HIST_SIZE \in Nat \ {0}
  BY HistoryAssumption DEF HistoryInv, Hist
<1>2. KeptOf(history)
  BY DEF HistoryInv
<1>3. CASE program = "test.c"
  BY <1>1, <1>2, <1>3 DEF KeptOf, KeepsLast
<1>4. CASE program # "test.c"
  BY <1>1, <1>2, <1>4 DEF KeptOf, KeepsLast
<1> QED BY <1>3, <1>4

(* The slots in use hold commands.                                         *)
LEMMA SlotsInUse ==
  ASSUME HistoryInv
  PROVE  \A i \in 0..(history.size - 1) :
           /\ history.count - history.size + i + 1 \in 1..history.count
           /\ history.slot[i] = history.log[history.count - history.size + i + 1]
           /\ history.slot[i] \in Command /\ i \in Slot
<1>1. /\ history.size \in 0..HIST_SIZE /\ history.count \in Nat /\ HIST_SIZE \in Nat \ {0}
      /\ history.log \in Seq(Command) /\ history.count = Len(history.log)
      /\ history.size <= history.count
      /\ \A i \in 0..(history.size - 1) :
           history.slot[i] = history.log[history.count - history.size + i + 1]
  BY HistoryAssumption DEF HistoryInv, Hist, WindowOf
<1> SUFFICES ASSUME NEW i \in 0..(history.size - 1)
             PROVE  /\ history.count - history.size + i + 1 \in 1..history.count
                    /\ history.slot[i] = history.log[history.count - history.size + i + 1]
                    /\ history.slot[i] \in Command /\ i \in Slot
  OBVIOUS
<1>2. history.count - history.size + i + 1 \in 1..history.count /\ i \in Slot
  BY <1>1 DEF Slot
<1> QED BY <1>1, <1>2

LEMMA RecallsFromInv == HistoryInv => Recalls
<1> SUFFICES ASSUME HistoryInv PROVE Recalls
  OBVIOUS
<1>1. /\ history.size \in Int /\ history.count \in Int /\ HIST_SIZE \in Int
      /\ 0 <= history.size /\ history.size <= HIST_SIZE /\ history.size <= history.count
      /\ HIST_SIZE > 0 /\ KeptOf(history) /\ UnusedOf(history)
  BY HistoryAssumption DEF HistoryInv, Hist, WindowOf
<1>2. ASSUME program = "test2.c", NEW n \in 0..(history.count + 1)
      PROVE  get_history(history, n) = Recalled(n)
  <2> DEFINE index == IF history.count > HIST_SIZE THEN n - (history.count - HIST_SIZE) - 1
                      ELSE n - 1
  <2>1. n \in Int /\ n >= 0
    BY <1>1
  <2>2. history.count > HIST_SIZE => history.size = HIST_SIZE
    BY <1>1, <1>2 DEF KeptOf
  <2>3. history.count <= HIST_SIZE => history.size = history.count
    BY <1>1, <1>2 DEF KeptOf
  <2>4. index \in Int /\ history.count - history.size + index + 1 = n
    BY <1>1, <2>1, <2>2, <2>3
  <2>5. get_history(history, n) = IF n <= 0 \/ n > history.count \/ index < 0
                                       \/ index >= history.size
                                    THEN NULL ELSE history.slot[index]
    BY DEF get_history
  <2> HIDE DEF index
  <2>6. CASE n > history.count - history.size /\ n <= history.count
    <3>1. index \in 0..(history.size - 1) /\ n > 0
      BY <1>1, <2>1, <2>4, <2>6
    <3>2. history.slot[index] = history.log[n]
      BY <2>4, <3>1, SlotsInUse
    <3> QED BY <1>1, <2>1, <2>5, <2>6, <3>1, <3>2 DEF Recalled
  <2>7. CASE ~(n > history.count - history.size /\ n <= history.count)
    <3>1. n > history.count \/ index < 0
      BY <1>1, <2>1, <2>4, <2>7
    <3> QED BY <2>5, <2>7, <3>1 DEF Recalled
  <2> QED BY <2>6, <2>7
<1>3. ASSUME program = "test.c", NEW n \in 1..(history.count - 1),
             n >= history.count - history.size
      PROVE  get_hist(history, n) = history.log[n + 1]
  <2> DEFINE i == n - history.count + history.size
  <2>1. /\ n \in Int /\ n > 0 /\ n < history.count /\ i \in 0..(history.size - 1)
        /\ history.count - history.size + i + 1 = n + 1
    BY <1>1, <1>3
  <2>2. history.slot[i] = history.log[n + 1] /\ i \in Slot
    BY <2>1, SlotsInUse
  <2>3. history.count < HIST_SIZE => n = i
    BY <1>1, <2>1 DEF KeptOf
  <2> QED BY <1>1, <1>3, <2>1, <2>2, <2>3 DEF get_hist, At
<1>4. ASSUME program = "test.c", history.count > 0
      PROVE  get_hist(history, history.count) \in {NULL, Freed, Outside}
  <2>1. history.count < HIST_SIZE => history.size = history.count
    BY <1>1 DEF KeptOf
  <2>2. get_hist(history, history.count) = At(history, history.size)
    <3>1. history.count # 0 /\ ~(history.count > history.count)
          /\ ~(history.count < history.count - history.size)
          /\ history.count - history.count + history.size = history.size
      BY <1>1, <1>4
    <3> QED BY <2>1, <3>1 DEF get_hist
  <2>3. history.size \in Slot => history.slot[history.size] \in {NULL, Freed}
    BY <1>1 DEF UnusedOf
  <2> QED BY <2>2, <2>3 DEF At
<1> QED BY <1>2, <1>3, <1>4 DEF Recalls

-----------------------------------------------------------------------------
(* The shell does to the history only what History does: every line it     *)
(* runs or stores is a command, the recalled ones because the slots in use *)
(* hold commands.                                                          *)
LEMMA LineStores ==
  ASSUME NEW c \in Command, Line(c)
  PROVE  UNCHANGED history \/ Store(c) \/ StoreBlank(c)
BY DEF Line, TestLine, Test2Line, SigtestLine

LEMMA RecalledSlots ==
  ASSUME HistoryInv
  PROVE  /\ get_last_history(history) \in Command \cup {NULL}
         /\ \A n \in 0..(MaxCount + 1) : get_history(history, n) \in Command \cup {NULL}
<1>1. /\ history.size \in 0..HIST_SIZE /\ history.count \in Nat /\ HIST_SIZE \in Nat
      /\ \A i \in 0..(history.size - 1) : history.slot[i] \in Command
  BY SlotsInUse, HistoryAssumption DEF HistoryInv, Hist
<1>2. get_last_history(history) \in Command \cup {NULL}
  BY <1>1 DEF get_last_history
<1>3. ASSUME NEW n \in 0..(MaxCount + 1) PROVE get_history(history, n) \in Command \cup {NULL}
  <2> DEFINE index == IF history.count > HIST_SIZE THEN n - (history.count - HIST_SIZE) - 1
                      ELSE n - 1
  <2>1. index \in Int
    BY <1>1, ShellAssumption
  <2>2. get_history(history, n) \in {NULL}
        \/ (index \in 0..(history.size - 1) /\ get_history(history, n) = history.slot[index])
    BY <1>1, <2>1 DEF get_history
  <2> QED BY <1>1, <2>2
<1> QED BY <1>2, <1>3

LEMMA RecallStores ==
  ASSUME HistoryInv, RecallLast \/ \E n \in 0..(MaxCount + 1) : RecallNumber(n)
  PROVE  UNCHANGED program
         /\ (UNCHANGED history \/ \E c \in Command : Store(c) \/ StoreBlank(c))
<1>2. ASSUME NEW x, NEW refused, RecallTest(x, refused)
      PROVE  UNCHANGED program
             /\ (UNCHANGED history \/ \E c \in Command : Store(c) \/ StoreBlank(c))
  BY <1>2, LineStores DEF RecallTest
<1>3. ASSUME NEW x \in Command \cup {NULL}, RecallTest2(x)
      PROVE  UNCHANGED program
             /\ (UNCHANGED history \/ \E c \in Command : Store(c) \/ StoreBlank(c))
  BY <1>3, LineStores DEF RecallTest2
<1>4. get_last_history(history) \in Command \cup {NULL}
  BY RecalledSlots
<1>5. \A n \in 0..(MaxCount + 1) : get_history(history, n) \in Command \cup {NULL}
  BY RecalledSlots
<1>6. CASE RecallLast
  BY <1>2, <1>3, <1>4, <1>6 DEF RecallLast
<1>7. CASE \E n \in 0..(MaxCount + 1) : RecallNumber(n)
  BY <1>2, <1>3, <1>5, <1>7 DEF RecallNumber
<1> QED BY <1>6, <1>7

LEMMA ShellStepsHistory ==
  ASSUME HistoryInv, [Next]_vars
  PROVE  [HistoryNext]_<<program, history>>
<1>1. CASE ShellStep
  BY <1>1 DEF ShellStep, Prompt, ForkFails, Wait, ReadEnd, Fork, HistoryNext
<1>2. CASE \E c \in Child : Exec(c) \/ Exit(c)
  BY <1>2 DEF Exec, Exit
<1>3. CASE User
  <2>1. CASE EndOfInput \/ handle_sigint \/ RecallRefused
    BY <2>1 DEF EndOfInput, handle_sigint, RecallRefused
  <2>2. CASE RecallLast \/ \E n \in 0..(MaxCount + 1) : RecallNumber(n)
    BY <2>2, RecallStores DEF HistoryNext
  <2>3. ASSUME NEW c \in Command, Typed(c) PROVE HistoryNext \/ UNCHANGED <<program, history>>
    BY <2>3, LineStores DEF Typed, HistoryNext
  <2>4. ASSUME NEW c \in Command, TypedEmpty(c)
        PROVE  HistoryNext \/ UNCHANGED <<program, history>>
    BY <2>4 DEF TypedEmpty, HistoryNext
  <2> QED BY <1>3, <2>1, <2>2, <2>3, <2>4 DEF User
<1>4. CASE UNCHANGED vars
  BY <1>4 DEF vars
<1> QED BY <1>1, <1>2, <1>3, <1>4 DEF Next

(* So what holds of the history under its own operations holds of it in a  *)
(* shell.                                                                  *)
LEMMA ShellUsesHistory == Spec => []HistoryInv
<1>1. Init => HistoryInit
  BY DEF Init
<1>2. HistoryInit => HistoryInv
  BY HistoryInitInv
<1>3. HistoryInv /\ [Next]_vars => [HistoryNext]_<<program, history>>
  BY ShellStepsHistory
<1>4. HistoryInv /\ [HistoryNext]_<<program, history>> => HistoryInv'
  BY HistoryStepInv
<1> QED BY <1>1, <1>2, <1>3, <1>4, PTL DEF Spec

(* The array is the end of everything entered and not taken back: what was *)
(* pushed out, shifted or freed never shows.  Blank lines cost test.c one  *)
(* place of the history and no more; test2.c keeps the last HIST_SIZE      *)
(* commands.                                                               *)
THEOREM HistoryIsKept == Spec => []Remembers
<1>1. HistoryInv => Remembers
  BY WindowFromInv, KeepsLastFromInv DEF Remembers
<1> QED BY <1>1, ShellUsesHistory, PTL

(* test2.c recalls by number what it printed with that number; test.c is   *)
(* off by one, for every number.                                           *)
THEOREM RecallIsExact == Spec => []Recalls
BY ShellUsesHistory, RecallsFromInv, PTL

-----------------------------------------------------------------------------
(* Type correctness.  HistoryInv says what is stored; the rest is simple.  *)
ProcType ==
  /\ pc \in {"prompt", "read", "fork", "wait", "done", "crashed"} /\ line \in Command \cup {NULL}
  /\ child \in [Child -> {"none", "born", "run", "zombie", "reaped"}]
  /\ fg \in Seq(Child) /\ ints \in 0..MaxInts /\ eof \in BOOLEAN

LEMMA LineTypes ==
  ASSUME ProcType, NEW c \in Command, Line(c)
  PROVE  /\ pc' \in {"prompt", "fork", "done", "crashed"} /\ line' \in Command \cup {NULL}
         /\ UNCHANGED children
<1>1. CASE TestLine(c)
  BY <1>1 DEF TestLine, Again, Launch, Crash, ProcType
<1>2. CASE Test2Line(c)
  BY <1>2 DEF Test2Line, Again, Launch, Crash, ProcType
<1>3. CASE SigtestLine(c)
  BY <1>3 DEF SigtestLine, Launch, ProcType
<1> QED BY <1>1, <1>2, <1>3 DEF Line

LEMMA RecallTypes ==
  ASSUME ProcType, HistoryInv, RecallLast \/ \E n \in 0..(MaxCount + 1) : RecallNumber(n)
  PROVE  ProcType'
<1>1. ASSUME NEW x, NEW refused, RecallTest(x, refused) PROVE ProcType'
  BY <1>1, LineTypes DEF RecallTest, Again, Crash, children, ProcType
<1>2. ASSUME NEW x \in Command \cup {NULL}, RecallTest2(x) PROVE ProcType'
  BY <1>2, LineTypes DEF RecallTest2, Again, children, ProcType
<1>3. get_last_history(history) \in Command \cup {NULL}
  BY RecalledSlots
<1>4. \A n \in 0..(MaxCount + 1) : get_history(history, n) \in Command \cup {NULL}
  BY RecalledSlots
<1> QED BY <1>1, <1>2, <1>3, <1>4 DEF RecallLast, RecallNumber

LEMMA TypesStep ==
  ASSUME ProcType, HistoryInv, [Next]_vars
  PROVE  ProcType'
<1> USE DEF ProcType, children, vars
<1>1. CASE Prompt
  BY <1>1 DEF Prompt, reap_background
<1>2. CASE ForkFails \/ Wait
  BY <1>2 DEF ForkFails, Wait, Again
<1>3. ASSUME NEW c \in Command, ReadEnd(c) PROVE ProcType'
  BY <1>3 DEF ReadEnd, Again
<1>4. ASSUME NEW c \in Child, Fork(c) PROVE ProcType'
  BY <1>4 DEF Fork
<1>5. ASSUME NEW c \in Child, Exec(c) \/ Exit(c) PROVE ProcType'
  BY <1>5 DEF Exec, Exit
<1>6. CASE EndOfInput \/ handle_sigint \/ RecallRefused
  <2>1. CASE EndOfInput
    BY <2>1 DEF EndOfInput
  <2>2. CASE RecallRefused
    BY <2>2 DEF RecallRefused, Again
  <2>3. CASE handle_sigint
    <3>1. ints' \in 0..MaxInts
      BY <2>3, ShellAssumption DEF handle_sigint
    <3>2. child' \in [Child -> {"none", "born", "run", "zombie", "reaped"}]
      BY <2>3 DEF handle_sigint
    <3>3. pc' \in {"prompt", "read", "fork", "wait", "done", "crashed"}
      BY <2>3 DEF handle_sigint
    <3> QED BY <2>3, <3>1, <3>2, <3>3 DEF handle_sigint
  <2> QED BY <1>6, <2>1, <2>2, <2>3
<1>7. CASE RecallLast \/ \E n \in 0..(MaxCount + 1) : RecallNumber(n)
  BY <1>7, RecallTypes
<1>8. ASSUME NEW c \in Command, Typed(c) \/ TypedEmpty(c) PROVE ProcType'
  BY <1>8, LineTypes DEF Typed, TypedEmpty, Again
<1>9. CASE UNCHANGED vars
  BY <1>9
<1> QED BY <1>1, <1>2, <1>3, <1>4, <1>5, <1>6, <1>7, <1>8, <1>9 DEF Next, ShellStep, User

LEMMA ProcTypeHolds == Spec => []ProcType
<1>1. Init => ProcType
  <2> SUFFICES ASSUME Init PROVE ProcType
    OBVIOUS
  <2>1. ints \in 0..MaxInts
    BY ShellAssumption DEF Init
  <2>2. /\ pc = "prompt" /\ line = NULL /\ fg = <<>> /\ eof = FALSE
        /\ child = [c \in Child |-> "none"]
    BY DEF Init
  <2>3. fg \in Seq(Child) /\ child \in [Child -> {"none", "born", "run", "zombie", "reaped"}]
    BY <2>2
  <2> QED BY <2>1, <2>2, <2>3 DEF ProcType
<1>2. ProcType /\ HistoryInv /\ [Next]_vars => ProcType'
  BY TypesStep
<1>3. Spec => []HistoryInv
  BY ShellUsesHistory
<1> QED BY <1>1, <1>2, <1>3, PTL DEF Spec

(* No step leaves the array of the history or makes a state the code does  *)
(* not have, for any history length, commands and children.                *)
THEOREM TypeCorrect == Spec => []TypeOK
<1>1. ProcType /\ HistoryInv => TypeOK
  BY DEF ProcType, HistoryInv, Hist, TypeOK
<1>2. Spec => []HistoryInv
  BY ShellUsesHistory
<1> QED BY <1>1, <1>2, ProcTypeHolds, PTL

-----------------------------------------------------------------------------
(* The foreground children.  A shell that waits has started one; Ctrl-C    *)
(* leaves at most one behind, and nothing else but wait() goes on.         *)
Unreaped == {k \in DOMAIN fg : child[fg[k]] # "reaped"}

LeftInv == LeftBehind /\ (pc = "wait" => fg # <<>>)

LEMMA UnreapedFinite ==
  ASSUME ProcType
  PROVE  IsFiniteSet(Unreaped) /\ Cardinality(Unreaped) \in Nat
<1>1. Len(fg) \in Nat /\ DOMAIN fg = 1..Len(fg)
  BY DEF ProcType
<1>2. IsFiniteSet(1..Len(fg)) /\ Unreaped \subseteq 1..Len(fg)
  BY <1>1, FS_Interval DEF Unreaped
<1> QED BY <1>2, FS_Subset, FS_CardinalityType

LEMMA NoneUnreaped ==
  ASSUME ProcType, UNCHANGED fg, \A c \in Child : child[c] = "reaped" => child'[c] = "reaped"
  PROVE  Unreaped' \subseteq Unreaped /\ Cardinality(Unreaped') <= Cardinality(Unreaped)
<1>1. \A k \in DOMAIN fg : fg[k] \in Child
  BY DEF ProcType
<1>2. Unreaped' \subseteq Unreaped
  BY <1>1 DEF Unreaped
<1> QED BY <1>2, UnreapedFinite, FS_Subset

Allowed == (IF program = "sigtest.c" THEN 0 ELSE ints) + (IF pc = "wait" THEN 1 ELSE 0)

LEMMA LeftAllowed == LeftBehind <=> (pc # "crashed" => Cardinality(Unreaped) <= Allowed)
BY DEF LeftBehind, Unreaped, Allowed

LEMMA LeftAllowedNext ==
  LeftBehind' <=> (pc' # "crashed" => Cardinality(Unreaped') <= Allowed')
BY DEF LeftBehind, Unreaped, Allowed

(* A step that starts no child in the foreground and waits on.             *)
LEMMA LeftFrame ==
  ASSUME ProcType, LeftInv, UNCHANGED <<fg, program, ints>>,
         \A c \in Child : child[c] = "reaped" => child'[c] = "reaped",
         pc' = "wait" <=> pc = "wait", pc' # "crashed" => pc # "crashed"
  PROVE  LeftInv'
<1>1. Cardinality(Unreaped') <= Cardinality(Unreaped) /\ Cardinality(Unreaped) \in Nat
      /\ Allowed' = Allowed /\ Allowed \in Int
  BY NoneUnreaped, UnreapedFinite, ShellAssumption DEF Allowed, ProcType
<1>2. Cardinality(Unreaped') \in Nat
  <2>1. IsFiniteSet(Unreaped')
    BY NoneUnreaped, UnreapedFinite, FS_Subset
  <2> QED BY <2>1, FS_CardinalityType
<1>3. LeftBehind'
  BY <1>1, <1>2, LeftAllowed, LeftAllowedNext DEF LeftInv
<1> QED BY <1>3 DEF LeftInv

LEMMA ForkLeaves ==
  ASSUME ProcType, LeftInv, NEW c \in Child, Fork(c)
  PROVE  LeftInv'
<1>1. /\ pc = "fork" /\ child[c] = "none" /\ child' = [child EXCEPT ![c] = "born"]
      /\ UNCHANGED <<program, ints>>
  BY DEF Fork
<1>2. CASE fg' = fg /\ pc' = "prompt"
  BY <1>1, <1>2, LeftFrame DEF ProcType
<1>3. CASE fg' = Append(fg, c) /\ pc' \in {"crashed", "wait"}
  <2>1. /\ fg \in Seq(Child) /\ Len(fg') = Len(fg) + 1 /\ Len(fg) \in Nat
        /\ DOMAIN fg' = 1..(Len(fg) + 1) /\ DOMAIN fg = 1..Len(fg)
        /\ \A k \in 1..Len(fg) : fg'[k] = fg[k]
    BY <1>3 DEF ProcType
  <2>2. Unreaped' \subseteq Unreaped \cup {Len(fg) + 1}
    <3>1. \A k \in 1..Len(fg) : fg[k] \in Child
      BY <2>1
    <3>2. \A d \in Child : child[d] = "reaped" => child'[d] = "reaped"
      BY <1>1 DEF ProcType
    <3> QED BY <2>1, <3>1, <3>2 DEF Unreaped
  <2>3. IsFiniteSet(Unreaped) /\ Cardinality(Unreaped) \in Nat
    BY UnreapedFinite
  <2>4. Len(fg) + 1 \notin Unreaped
    BY <2>1 DEF Unreaped
  <2>5. /\ IsFiniteSet(Unreaped \cup {Len(fg) + 1})
        /\ Cardinality(Unreaped \cup {Len(fg) + 1}) = Cardinality(Unreaped) + 1
    BY <2>3, <2>4, FS_AddElement
  <2>6. IsFiniteSet(Unreaped') /\ Cardinality(Unreaped') <= Cardinality(Unreaped) + 1
    BY <2>2, <2>5, FS_Subset
  <2>7. Cardinality(Unreaped') \in Nat
    BY <2>6, FS_CardinalityType
  <2>8. Cardinality(Unreaped) <= Allowed
    BY <1>1, LeftAllowed DEF LeftInv
  <2>9. Allowed \in Int /\ (pc' = "wait" => Allowed' = Allowed + 1)
    BY <1>1 DEF Allowed, ProcType
  <2>10. LeftBehind'
    BY <1>3, <2>3, <2>6, <2>7, <2>8, <2>9, LeftAllowedNext
  <2>11. fg' # <<>>
    BY <1>3, <2>1
  <2> QED BY <2>10, <2>11 DEF LeftInv
<1> QED BY <1>2, <1>3 DEF Fork

LEMMA WaitReaps ==
  ASSUME ProcType, LeftInv, Wait
  PROVE  LeftInv'
<1>1. /\ pc = "wait" /\ child[fg[Len(fg)]] = "zombie" /\ UNCHANGED <<fg, program, ints>>
      /\ child' = [child EXCEPT ![fg[Len(fg)]] = "reaped"] /\ pc' = "prompt"
  BY DEF Wait, Waited
<1>2. Len(fg) \in DOMAIN fg /\ fg[Len(fg)] \in Child
  <2>1. fg \in Seq(Child) /\ fg # <<>>
    BY <1>1 DEF LeftInv, ProcType
  <2>2. Len(fg) \in Nat \ {0} /\ DOMAIN fg = 1..Len(fg)
    BY <2>1
  <2>3. Len(fg) \in DOMAIN fg
    BY <2>2
  <2> QED BY <2>1, <2>3
<1>3. Len(fg) \in Unreaped /\ Len(fg) \notin Unreaped' /\ Unreaped' \subseteq Unreaped
  <2>1. child'[fg[Len(fg)]] = "reaped"
    BY <1>1, <1>2 DEF ProcType
  <2>2. \A c \in Child : child[c] = "reaped" => child'[c] = "reaped"
    BY <1>1 DEF ProcType
  <2>3. Unreaped' \subseteq Unreaped
    BY <1>1, <2>2, NoneUnreaped
  <2> QED BY <1>1, <1>2, <2>1, <2>3 DEF Unreaped
<1>4. /\ IsFiniteSet(Unreaped) /\ Cardinality(Unreaped) \in Nat
      /\ IsFiniteSet(Unreaped \ {Len(fg)})
      /\ Cardinality(Unreaped \ {Len(fg)}) = Cardinality(Unreaped) - 1
  BY <1>3, UnreapedFinite, FS_RemoveElement
<1>5. IsFiniteSet(Unreaped') /\ Cardinality(Unreaped') <= Cardinality(Unreaped) - 1
  <2>1. Unreaped' \subseteq Unreaped \ {Len(fg)}
    BY <1>3
  <2> QED BY <1>4, <2>1, FS_Subset
<1>6. Cardinality(Unreaped') \in Nat
  BY <1>5, FS_CardinalityType
<1>7. Cardinality(Unreaped) <= Allowed /\ Allowed \in Int /\ Allowed' = Allowed - 1
  BY <1>1, LeftAllowed DEF LeftInv, Allowed, ProcType
<1>8. LeftBehind'
  BY <1>4, <1>5, <1>6, <1>7, LeftAllowedNext
<1> QED BY <1>1, <1>8 DEF LeftInv

(* Only test.c and test2.c are cut off.                                    *)
LEMMA SigintLeaves ==
  ASSUME ProcType, LeftInv, handle_sigint
  PROVE  LeftInv'
<1>1. /\ UNCHANGED <<fg, program>> /\ ints' = ints + 1 /\ pc # "crashed" /\ ints \in Nat
      /\ pc' = pc \/ (program # "sigtest.c" /\ pc' = "prompt")
  BY ShellAssumption DEF handle_sigint, ProcType
<1>2. \A c \in Child : child[c] = "reaped" => child'[c] = "reaped"
  BY DEF handle_sigint
<1>3. /\ Cardinality(Unreaped') <= Cardinality(Unreaped) /\ Cardinality(Unreaped) \in Nat
      /\ IsFiniteSet(Unreaped')
  BY <1>1, <1>2, NoneUnreaped, UnreapedFinite, FS_Subset
<1>4. Cardinality(Unreaped') \in Nat
  BY <1>3, FS_CardinalityType
<1>5. Cardinality(Unreaped) <= Allowed
  BY <1>1, LeftAllowed DEF LeftInv
<1>6. Allowed \in Int /\ Allowed' \in Int /\ Allowed <= Allowed'
  BY <1>1 DEF Allowed
<1>7. LeftBehind'
  BY <1>3, <1>4, <1>5, <1>6, LeftAllowedNext
<1> QED BY <1>1, <1>7 DEF LeftInv

LEMMA LeftStep ==
  ASSUME ProcType, HistoryInv, LeftInv, [Next]_vars
  PROVE  LeftInv'
<1> USE DEF children, vars
<1>0. ASSUME pc \in {"read", "fork"}, pc' \in {"prompt", "fork", "done", "crashed"},
             UNCHANGED <<child, fg, program, ints>>
      PROVE  LeftInv'
  BY <1>0, LeftFrame
<1>1. CASE Prompt
  <2>1. /\ pc = "prompt" /\ pc' = "read" /\ UNCHANGED <<program, fg, ints>>
        /\ \A c \in Child : child[c] = "reaped" => child'[c] = "reaped"
    BY <1>1 DEF Prompt, reap_background
  <2> QED BY <2>1, LeftFrame
<1>2. CASE ForkFails
  BY <1>0, <1>2 DEF ForkFails, Again
<1>3. ASSUME NEW c \in Command, ReadEnd(c) PROVE LeftInv'
  BY <1>0, <1>3 DEF ReadEnd, Again
<1>5. ASSUME NEW c \in Child, Exec(c) \/ Exit(c) PROVE LeftInv'
  <2>1. /\ UNCHANGED <<program, pc, fg, ints>>
        /\ \A d \in Child : child[d] = "reaped" => child'[d] = "reaped"
    BY <1>5 DEF Exec, Exit, ProcType
  <2> QED BY <2>1, LeftFrame
<1>6. CASE EndOfInput \/ UNCHANGED vars
  BY <1>6, LeftFrame DEF EndOfInput
<1>7. CASE RecallRefused
  BY <1>0, <1>7 DEF RecallRefused, CanRead, Again
<1>8. ASSUME NEW c \in Command, Typed(c) \/ TypedEmpty(c) PROVE LeftInv'
  BY <1>0, <1>8, LineTypes DEF Typed, TypedEmpty, CanRead, Again
<1>9. CASE RecallLast \/ \E n \in 0..(MaxCount + 1) : RecallNumber(n)
  <2>1. ASSUME NEW x, NEW refused, RecallTest(x, refused) PROVE LeftInv'
    BY <1>0, <2>1, LineTypes DEF RecallTest, CanRead, Again, Crash
  <2>2. ASSUME NEW x \in Command \cup {NULL}, RecallTest2(x) PROVE LeftInv'
    BY <1>0, <2>2, LineTypes DEF RecallTest2, CanRead, Again
  <2>3. /\ get_last_history(history) \in Command \cup {NULL}
        /\ \A n \in 0..(MaxCount + 1) : get_history(history, n) \in Command \cup {NULL}
    BY RecalledSlots
  <2> QED BY <1>9, <2>1, <2>2, <2>3 DEF RecallLast, RecallNumber
<1> QED BY <1>1, <1>2, <1>3, <1>5, <1>6, <1>7, <1>8, <1>9, ForkLeaves, WaitReaps, SigintLeaves
        DEF Next, ShellStep, User

(* A shell that is not waiting has left at most one foreground command     *)
(* behind for every Ctrl-C, and sigtest.c none, however the signals meet   *)
(* the waits (test.c 13-25, 311-312; test2.c 245; sigtest.c 55-107).       *)
THEOREM NothingLeftBehind == Spec => []LeftBehind
<1>1. Init => LeftInv
  <2> SUFFICES ASSUME Init PROVE LeftInv
    OBVIOUS
  <2>1. Unreaped = {} /\ pc = "prompt" /\ ints = 0
    BY DEF Init, Unreaped
  <2>2. Cardinality(Unreaped) = 0
    BY <2>1, FS_EmptySet
  <2> QED BY <2>1, <2>2, LeftAllowed DEF LeftInv, Allowed
<1>2. ProcType /\ HistoryInv /\ LeftInv /\ [Next]_vars => LeftInv'
  BY LeftStep
<1>3. LeftInv => LeftBehind
  BY DEF LeftInv
<1>4. Spec => []HistoryInv
  BY ShellUsesHistory
<1>5. Spec => []ProcType
  BY ProcTypeHolds
<1> QED BY <1>1, <1>2, <1>3, <1>4, <1>5, PTL DEF Spec
=============================================================================
