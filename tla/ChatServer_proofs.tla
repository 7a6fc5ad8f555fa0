------------------------- MODULE ChatServer_proofs -------------------------
(***************************************************************************)
(* The chat server, for any number of clients, any sizes and any faults:   *)
(* type correctness, the exactness of the client list, that the worker     *)
(* does not sleep over work, the refinement of OrderedBroadcast, and what  *)
(* main makes of the clients' bytes: the lines it takes from the buffers   *)
(* are the lines each client wrote, each counted or posted once and in     *)
(* order, however their streams are cut into reads.                        *)
(***************************************************************************)
EXTENDS ChatServer, TLAPS, SequenceTheorems, FiniteSetTheorems, WellFoundedInduction

(* The invariant, by the hazard each part rules out.                       *)

(* A mutex is held exactly in the program points between lock and unlock.  *)
LockInv ==
  /\ clientLock = "main" <=> pcM \in {"data", "handle", "commit", "stop", "wake"}
  /\ clientLock = "worker" <=> pcW = "send"
  /\ queueLock = "worker" <=> pcW \in {"check", "wait"}

(* The loops' indices stay inside the client list, and the worker has a    *)
(* node exactly between dequeue and free.                                  *)
IndexInv ==
  /\ pcM \in {"handle", "commit", "stop", "wake", "remove"} => slot <= Len(clients)
  /\ pcM \in {"commit", "stop", "wake"} => HasLine(buf[slot])
  /\ pcW = "send" => wi <= Len(clients) + 1
  /\ pcW \in {"lockc", "send"} <=> node # NoNode

(* `order' is what was broadcast, what the worker holds, and what is queued. *)
Busy == IF pcW \in {"lockc", "send"} THEN 1 ELSE 0

QueueInv ==
  proc = "up" =>
    /\ Len(order) = frontier + Busy + Len(queue)
    /\ Busy = 1 => node = order[frontier + 1]
    /\ \A n \in 1..Len(queue) : queue[n] = order[frontier + Busy + n]

(* Main enqueues nothing after the commit.                                 *)
CommitInv ==
  (\E n \in 1..Len(order) : order[n] = Commit)
    => pcM \in {"stop", "wake", "join", "close", "exit"}

FreshInv ==
  \A c \in Client : conn[c] \in {"none", "backlog"} => delivered[c] = <<>>

IInv ==
  TypeOK /\ LockInv /\ IndexInv /\ RosterExact /\ QueueInv /\ CommitInv /\ FreshInv

-----------------------------------------------------------------------------
(* The helpers of handle_message.                                          *)

LEMMA LeastElement ==
  ASSUME NEW T \in SUBSET Nat, T # {}
  PROVE  \E x \in T : \A y \in T : x <= y
<1> DEFINE R == OpToRel(<, Nat)
<1>1. IsWellFoundedOn(R, Nat)
      BY NatLessThanWellFounded
<1>2. \E x \in T : \A y \in T : <<y, x>> \notin R
  <2> HIDE DEF R
  <2> QED BY <1>1, WFMin
<1>3. \A x, y \in T : <<y, x>> \notin R => x <= y
      BY DEF OpToRel
<1> QED BY <1>2, <1>3

LEMMA LineLenIsFirstNewline ==
  ASSUME NEW b \in Seq(Byte), HasLine(b)
  PROVE  /\ LineLen(b) \in 1..Len(b)
         /\ b[LineLen(b)].kind = "nl"
         /\ \A k \in 1..(LineLen(b) - 1) : b[k].kind # "nl"
<1> DEFINE T == {j \in 1..Len(b) : b[j].kind = "nl"}
<1>1. T \in SUBSET Nat /\ T # {}
      BY DEF HasLine
<1>2. PICK x \in T : \A y \in T : x <= y
      BY <1>1, LeastElement
<1>3. \A k \in 1..(x - 1) : b[k].kind # "nl"
      BY <1>2
<1> QED BY <1>2, <1>3 DEF LineLen

LEMMA LineParts ==
  ASSUME NEW b \in Seq(Byte), HasLine(b)
  PROVE  /\ Rest(b) \in Seq(Byte) /\ Len(Rest(b)) <= Len(b)
         /\ Data(b) \in Seq(Byte)
<1>1. LineLen(b) \in 1..Len(b)
      BY LineLenIsFirstNewline
<1>2. Rest(b) \in Seq(Byte) /\ Len(Rest(b)) <= Len(b)
      BY <1>1, SubSeqProperties DEF Rest
<1>3. Data(b) \in Seq(Byte)
      BY <1>1, SubSeqProperties DEF Data
<1> QED BY <1>2, <1>3

-----------------------------------------------------------------------------
(* Types.                                                                  *)

LEMMA NodeTypes == Commit \in Message /\ NoNode \notin Message /\ NoNode # Commit
<1>1. Commit.type = "end" /\ NoNode.type = "none"
      BY DEF Commit, NoNode
<1>2. \A m \in Message : m.type \in {"reg", "end"}
      BY DEF Commit, Message
<1>3. Commit \in Message
      BY DEF Message
<1> QED BY <1>1, <1>2, <1>3

LEMMA RosterTypes ==
  ASSUME SharedTypes
  PROVE  Roster \in SUBSET Client /\ \A i \in 1..Len(clients) : clients[i] \in Client
BY DEF SharedTypes, Roster

(* What remove_client does to the list: one shorter, the last in the hole. *)
LEMMA RemoveSlot ==
  ASSUME NEW S, NEW s \in Seq(S), NEW i \in 1..Len(s)
  PROVE  /\ Without(s, i) \in Seq(S) /\ Len(Without(s, i)) = Len(s) - 1
         /\ \A k \in 1..(Len(s) - 1) : Without(s, i)[k] = IF k = i THEN s[Len(s)] ELSE s[k]
<1> DEFINE u == [s EXCEPT ![i] = s[Len(s)]]
<1>1. /\ u \in Seq(S) /\ Len(u) = Len(s)
      /\ \A k \in 1..Len(s) : u[k] = IF k = i THEN s[Len(s)] ELSE s[k]
      BY ExceptSeq, ElementOfSeq
<1>2. Len(s) \in Nat /\ \A k \in 1..(Len(s) - 1) : u[k] \in S
      BY <1>1, ElementOfSeq
<1> HIDE DEF u
<1>3. /\ SubSeq(u, 1, Len(s) - 1) \in Seq(S)
      /\ Len(SubSeq(u, 1, Len(s) - 1)) = Len(s) - 1
      /\ \A k \in 1..(Len(s) - 1) : SubSeq(u, 1, Len(s) - 1)[k] = u[k]
      BY <1>1, <1>2, SubSeqProperties
<1> QED BY <1>1, <1>3 DEF u, Without

LEMMA EnqueueTypes ==
  ASSUME SharedTypes, NEW m \in Message, enqueue_message(m)
  PROVE  /\ queue' \in Seq(Message) /\ order' \in Seq(Message)
         /\ queueLock' = queueLock /\ signalled' \in BOOLEAN
<1>1. CASE queueLock = "free" /\ enqueue_message(m)!1
      BY <1>1, AppendProperties DEF SharedTypes, Signal
<1>2. CASE UNCHANGED queueVars
      BY <1>2 DEF SharedTypes, queueVars
<1> QED BY <1>1, <1>2 DEF enqueue_message

(* Taking a line off the front of a slot's buffer.                         *)
LEMMA ShiftTypes ==
  ASSUME BufferTypes, slot \in 1..MaxClients, HasLine(buf[slot]),
         buf' = [buf EXCEPT ![slot] = Rest(@)]
  PROVE  BufferTypes'
<1>1. buf[slot] \in Seq(Byte) /\ Len(buf[slot]) <= MaxMsg
      BY DEF BufferTypes
<1>2. Rest(buf[slot]) \in Seq(Byte) /\ Len(Rest(buf[slot])) <= Len(buf[slot])
      BY <1>1, LineParts
<1>3. Len(Rest(buf[slot])) <= MaxMsg
      BY <1>1, <1>2, ConstantsAssumption
<1> QED BY <1>2, <1>3 DEF BufferTypes

(* What handle_message enqueues for a Type 0 line is a regular message.    *)
LEMMA RegularMessage ==
  ASSUME TypeOK, IndexInv, Regular, NEW a \in Address(clients[slot])
  PROVE  LET m == [type |-> "reg", from |-> a, data |-> Data(buf[slot])]
         IN  m \in Message /\ m # Commit
<1>1. slot \in 1..Len(clients) /\ slot \in 1..MaxClients
      BY ConstantsAssumption DEF TypeOK, SharedTypes, MainTypes, IndexInv, Regular
<1>2. a \in Client
      BY <1>1, RosterTypes DEF TypeOK, Address
<1>3. Data(buf[slot]) \in Seq(Byte)
      BY <1>1, LineParts DEF Regular, TypeOK, BufferTypes
<1>4. [type |-> "reg", from |-> a, data |-> Data(buf[slot])].type # Commit.type
      BY DEF Commit
<1> QED BY <1>2, <1>3, <1>4 DEF Message

LEMMA MainKeepsTypes ==
  ASSUME TypeOK, IndexInv, Main
  PROVE  TypeOK'
<1> USE DEF mainVars, workerVars, queueVars, sockIn, socketVars, mainAndBuf
<1>1. CASE LoopTest
  <2>1. MainTypes'
        BY <1>1 DEF TypeOK, MainTypes, LoopTest
  <2> QED BY <1>1, <2>1
          DEF TypeOK, LoopTest, SharedTypes, BufferTypes, WorkerTypes, SocketTypes,
              OutputTypes
<1>2. CASE Select
  <2>1. MainTypes'
        BY <1>2, RosterTypes DEF TypeOK, MainTypes, Select
  <2> QED BY <1>2, <2>1
          DEF TypeOK, Select, SharedTypes, BufferTypes, WorkerTypes, SocketTypes,
              OutputTypes
<1>3. CASE SelectFails
  <2>1. MainTypes'
        BY <1>3 DEF TypeOK, MainTypes, SelectFails
  <2> QED BY <1>3, <2>1
          DEF TypeOK, SelectFails, SharedTypes, BufferTypes, WorkerTypes, SocketTypes,
              OutputTypes
<1>4. ASSUME NEW c \in Client, Accept(c)
      PROVE  TypeOK'
  <2>1. BufferTypes'
        BY <1>4, ConstantsAssumption DEF TypeOK, BufferTypes, Accept, Full
  <2>2. SocketTypes'
        BY <1>4 DEF TypeOK, SocketTypes, Accept
  <2>3. MainTypes'
        BY <1>4 DEF TypeOK, MainTypes, Accept, NextIteration
  <2>4. OutputTypes'
        BY <1>4 DEF TypeOK, OutputTypes, Accept, OutputTypes
  <2>5. SharedTypes'
        BY <1>4, AppendProperties, ConstantsAssumption DEF TypeOK, SharedTypes, Accept, Full
  <2> QED BY <1>4, <2>1, <2>2, <2>3, <2>4, <2>5 DEF TypeOK, Accept, WorkerTypes
<1>5. ASSUME NEW c \in Client, Reject(c)
      PROVE  TypeOK'
  <2>1. SocketTypes'
        BY <1>5 DEF TypeOK, SocketTypes, Reject
  <2>2. MainTypes'
        BY <1>5 DEF TypeOK, MainTypes, Reject
  <2> QED BY <1>5, <2>1, <2>2
          DEF TypeOK, Reject, SharedTypes, BufferTypes, WorkerTypes, OutputTypes
<1>6. CASE AcceptFails
  <2>1. MainTypes'
        BY <1>6 DEF TypeOK, MainTypes, AcceptFails
  <2> QED BY <1>6, <2>1
          DEF TypeOK, AcceptFails, SharedTypes, BufferTypes, WorkerTypes, SocketTypes,
              OutputTypes
<1>7. CASE LockClients
  <2>1. MainTypes'
        BY <1>7, ConstantsAssumption DEF TypeOK, MainTypes, LockClients
  <2>2. SharedTypes'
        BY <1>7 DEF TypeOK, SharedTypes, LockClients
  <2> QED BY <1>7, <2>1, <2>2
          DEF TypeOK, LockClients, BufferTypes, WorkerTypes, SocketTypes, OutputTypes
<1>8. CASE NextSlot
  <2>1. MainTypes'
        BY <1>8, ConstantsAssumption DEF TypeOK, MainTypes, NextSlot, SharedTypes
  <2> QED BY <1>8, <2>1
          DEF TypeOK, NextSlot, SharedTypes, BufferTypes, WorkerTypes, SocketTypes,
              OutputTypes
<1>9. CASE LastSlot
  <2>1. MainTypes'
        BY <1>9, ConstantsAssumption, 1 \in 1..(MaxClients + 1)
        DEF TypeOK, MainTypes, LastSlot, NextIteration
  <2>2. SharedTypes'
        BY <1>9 DEF TypeOK, SharedTypes, LastSlot
  <2> QED BY <1>9, <2>1, <2>2
          DEF TypeOK, LastSlot, BufferTypes, WorkerTypes, SocketTypes, OutputTypes
<1>10. CASE ReadData
  <2> DEFINE c == clients[slot]
             n == Available(c)
  <2>1. c \in Client /\ slot \in 1..MaxClients
        BY <1>10, RosterTypes, ConstantsAssumption DEF TypeOK, SharedTypes, MainTypes, ReadData
  <2>2. /\ n \in Nat /\ consumed[c] + n <= arrived[c] /\ Len(buf[slot]) + n <= MaxMsg
        BY <1>10, <2>1, ConstantsAssumption
        DEF TypeOK, SocketTypes, BufferTypes, Available, ReadData
  <2> HIDE DEF c, n
  <2>3. [k \in 1..n |-> [kind |-> sent[c][consumed[c] + k], by |-> c]] \in Seq(Byte)
    <3>1. \A k \in 1..n : sent[c][consumed[c] + k] \in Kind
          BY <2>1, <2>2 DEF TypeOK, SocketTypes
    <3>2. \A k \in 1..n : [kind |-> sent[c][consumed[c] + k], by |-> c] \in Byte
          BY <2>1, <3>1 DEF Byte
    <3> QED BY <2>2, <3>2
  <2>4. BufferTypes'
    <3> DEFINE new == [k \in 1..n |-> [kind |-> sent[c][consumed[c] + k], by |-> c]]
    <3>1. buf' = [buf EXCEPT ![slot] = @ \o new]
          BY <1>10 DEF ReadData, c, n
    <3>2. Len(new) = n /\ new \in Seq(Byte)
          BY <2>2, <2>3
    <3> HIDE DEF new
    <3>3. buf[slot] \o new \in Seq(Byte) /\ Len(buf[slot] \o new) = Len(buf[slot]) + n
          BY <2>1, <3>2, ConcatProperties DEF TypeOK, BufferTypes
    <3> QED BY <2>1, <2>2, <3>1, <3>3 DEF TypeOK, BufferTypes
  <2>5. SocketTypes'
        BY <1>10, <2>1, <2>2 DEF TypeOK, SocketTypes, ReadData, c, n
  <2>6. MainTypes'
        BY <1>10 DEF TypeOK, MainTypes, ReadData
  <2> QED BY <1>10, <2>4, <2>5, <2>6 DEF TypeOK, ReadData, SharedTypes, WorkerTypes, OutputTypes
<1>11. CASE ReadEnds
  <2>1. MainTypes'
        BY <1>11 DEF TypeOK, MainTypes, ReadEnds
  <2>2. SharedTypes'
        BY <1>11 DEF TypeOK, SharedTypes, ReadEnds
  <2> QED BY <1>11, <2>1, <2>2
          DEF TypeOK, ReadEnds, BufferTypes, WorkerTypes, SocketTypes, OutputTypes
<1>12. CASE remove_client
  <2>1. SocketTypes'
        BY <1>12 DEF TypeOK, SocketTypes, remove_client
  <2>2. MainTypes'
        BY <1>12 DEF TypeOK, MainTypes, remove_client
  <2>3. SharedTypes'
        BY <1>12, RemoveSlot, ConstantsAssumption
        DEF TypeOK, SharedTypes, remove_client, IndexInv, MainTypes
  <2> QED BY <1>12, <2>1, <2>2, <2>3
          DEF TypeOK, remove_client, BufferTypes, WorkerTypes, OutputTypes
<1>13. CASE Relock
  <2>1. MainTypes'
        BY <1>13 DEF TypeOK, MainTypes, Relock
  <2>2. SharedTypes'
        BY <1>13 DEF TypeOK, SharedTypes, Relock
  <2> QED BY <1>13, <2>1, <2>2
          DEF TypeOK, Relock, BufferTypes, WorkerTypes, SocketTypes, OutputTypes
<1>14. CASE NoLine
  <2>1. MainTypes'
        BY <1>14, ConstantsAssumption DEF TypeOK, MainTypes, NoLine, IndexInv, SharedTypes
  <2> QED BY <1>14, <2>1
          DEF TypeOK, NoLine, SharedTypes, BufferTypes, WorkerTypes, SocketTypes,
              OutputTypes
<1>15. CASE Regular
  <2>1. BufferTypes'
    <3>1. slot \in 1..MaxClients /\ BufferTypes
          BY <1>15, ConstantsAssumption DEF TypeOK, SharedTypes, MainTypes, IndexInv, Regular
    <3> QED BY <1>15, <3>1, ShiftTypes DEF Regular
  <2>2. SharedTypes'
    <3>1. CASE UNCHANGED queueVars
          BY <1>15, <3>1 DEF TypeOK, SharedTypes, Regular
    <3>2. CASE \E a \in Address(clients[slot]) :
                 enqueue_message([type |-> "reg", from |-> a, data |-> Data(buf[slot])])
      <4>1. PICK a \in Address(clients[slot]) :
                   enqueue_message([type |-> "reg", from |-> a, data |-> Data(buf[slot])])
            BY <3>2
      <4> QED BY <1>15, <4>1, RegularMessage, EnqueueTypes DEF TypeOK, SharedTypes, Regular
    <3> QED BY <1>15, <3>1, <3>2 DEF Regular
  <2> QED BY <1>15, <2>1, <2>2
          DEF TypeOK, Regular, MainTypes, WorkerTypes, SocketTypes, OutputTypes
<1>16. CASE Finish
  <2>1. BufferTypes'
    <3>1. slot \in 1..MaxClients /\ BufferTypes
          BY <1>16, ConstantsAssumption DEF TypeOK, SharedTypes, MainTypes, IndexInv, Finish
    <3> QED BY <1>16, <3>1, ShiftTypes DEF Finish, BufferTypes, EndsExecution
  <2>2. MainTypes'
        BY <1>16 DEF TypeOK, MainTypes, Finish
  <2>3. SharedTypes'
        BY <1>16 DEF TypeOK, SharedTypes, Finish
  <2> QED BY <1>16, <2>1, <2>2, <2>3 DEF TypeOK, Finish, WorkerTypes, SocketTypes, OutputTypes
<1>17. CASE Discard
  <2>1. BufferTypes'
    <3>1. slot \in 1..MaxClients /\ BufferTypes
          BY <1>17, ConstantsAssumption DEF TypeOK, SharedTypes, MainTypes, IndexInv, Discard
    <3> QED BY <1>17, <3>1, ShiftTypes DEF Discard
  <2> QED BY <1>17, <2>1
          DEF TypeOK, Discard, SharedTypes, MainTypes, WorkerTypes, SocketTypes, OutputTypes
<1>18. CASE EnqueueCommit
  <2>1. MainTypes'
        BY <1>18 DEF TypeOK, MainTypes, EnqueueCommit
  <2>2. SharedTypes'
        BY <1>18, NodeTypes, EnqueueTypes DEF TypeOK, SharedTypes, EnqueueCommit
  <2> QED BY <1>18, <2>1, <2>2
          DEF TypeOK, EnqueueCommit, BufferTypes, WorkerTypes, SocketTypes, OutputTypes
<1>19. CASE StopRunning
  <2>1. MainTypes'
        BY <1>19 DEF TypeOK, MainTypes, StopRunning
  <2>2. SharedTypes'
        BY <1>19 DEF TypeOK, SharedTypes, StopRunning
  <2> QED BY <1>19, <2>1, <2>2
          DEF TypeOK, StopRunning, BufferTypes, WorkerTypes, SocketTypes, OutputTypes
<1>20. CASE WakeWorker
  <2>1. BufferTypes'
    <3>1. slot \in 1..MaxClients /\ BufferTypes
          BY <1>20, ConstantsAssumption DEF TypeOK, SharedTypes, MainTypes, IndexInv, WakeWorker
    <3> QED BY <1>20, <3>1, ShiftTypes DEF WakeWorker, IndexInv
  <2>2. MainTypes'
        BY <1>20 DEF TypeOK, MainTypes, WakeWorker
  <2>3. SharedTypes'
        BY <1>20 DEF TypeOK, SharedTypes, WakeWorker, Signal
  <2> QED BY <1>20, <2>1, <2>2, <2>3
          DEF TypeOK, WakeWorker, WorkerTypes, SocketTypes, OutputTypes
<1>21. CASE JoinWorker
  <2>1. MainTypes'
        BY <1>21 DEF TypeOK, MainTypes, JoinWorker
  <2> QED BY <1>21, <2>1
          DEF TypeOK, JoinWorker, SharedTypes, BufferTypes, WorkerTypes, SocketTypes,
              OutputTypes
<1>22. CASE CloseAndExit
  <2>1. SocketTypes'
        BY <1>22 DEF TypeOK, SocketTypes, CloseAndExit
  <2>2. MainTypes'
        BY <1>22 DEF TypeOK, MainTypes, CloseAndExit
  <2>3. SharedTypes'
        BY <1>22 DEF TypeOK, SharedTypes, CloseAndExit
  <2> QED BY <1>22, <2>1, <2>2, <2>3
          DEF TypeOK, CloseAndExit, BufferTypes, WorkerTypes, OutputTypes
<1> QED BY <1>1, <1>2, <1>3, <1>4, <1>5, <1>6, <1>7, <1>8, <1>9, <1>10, <1>11, <1>12, <1>13,
           <1>14, <1>15, <1>16, <1>17, <1>18, <1>19, <1>20, <1>21, <1>22
        DEF Main

LEMMA WorkerKeepsTypes ==
  ASSUME TypeOK, IndexInv, Worker \/ SpuriousWake
  PROVE  TypeOK'
<1> USE DEF mainVars, workerVars, queueVars, sockIn, socketVars, mainAndBuf
<1>1. CASE WorkerTest
  <2>1. WorkerTypes'
        BY <1>1 DEF TypeOK, WorkerTypes, WorkerTest
  <2> QED BY <1>1, <2>1
          DEF TypeOK, WorkerTest, SharedTypes, MainTypes, BufferTypes, SocketTypes,
              OutputTypes
<1>2. CASE LockQueue
  <2>1. SharedTypes'
        BY <1>2 DEF TypeOK, SharedTypes, LockQueue
  <2>2. WorkerTypes'
        BY <1>2 DEF TypeOK, WorkerTypes, LockQueue
  <2> QED BY <1>2, <2>1, <2>2
          DEF TypeOK, LockQueue, MainTypes, BufferTypes, SocketTypes, OutputTypes
<1>3. CASE TestQueue
  <2>1. SharedTypes'
        BY <1>3 DEF TypeOK, SharedTypes, TestQueue
  <2>2. WorkerTypes'
        BY <1>3 DEF TypeOK, WorkerTypes, TestQueue
  <2> QED BY <1>3, <2>1, <2>2
          DEF TypeOK, TestQueue, MainTypes, BufferTypes, SocketTypes, OutputTypes
<1>4. CASE Dequeue
  <2>1. SharedTypes'
        BY <1>4 DEF TypeOK, SharedTypes, Dequeue
  <2>2. WorkerTypes'
        BY <1>4 DEF TypeOK, WorkerTypes, Dequeue, SharedTypes
  <2> QED BY <1>4, <2>1, <2>2
          DEF TypeOK, Dequeue, MainTypes, BufferTypes, SocketTypes, OutputTypes
<1>5. CASE CondWait
  <2>1. SharedTypes'
        BY <1>5 DEF TypeOK, SharedTypes, CondWait
  <2>2. WorkerTypes'
        BY <1>5 DEF TypeOK, WorkerTypes, CondWait
  <2> QED BY <1>5, <2>1, <2>2
          DEF TypeOK, CondWait, MainTypes, BufferTypes, SocketTypes, OutputTypes
<1>6. CASE Awake
  <2>1. SharedTypes'
        BY <1>6 DEF TypeOK, SharedTypes, Awake
  <2>2. WorkerTypes'
        BY <1>6 DEF TypeOK, WorkerTypes, Awake
  <2> QED BY <1>6, <2>1, <2>2
          DEF TypeOK, Awake, MainTypes, BufferTypes, SocketTypes, OutputTypes
<1>7. CASE LockList
  <2>1. SharedTypes'
        BY <1>7 DEF TypeOK, SharedTypes, LockList
  <2>2. WorkerTypes'
        BY <1>7, ConstantsAssumption DEF TypeOK, WorkerTypes, LockList
  <2> QED BY <1>7, <2>1, <2>2
          DEF TypeOK, LockList, MainTypes, BufferTypes, SocketTypes, OutputTypes
<1>8. CASE Write
  <2>1. OutputTypes'
    <3>1. node \in Message
          BY <1>8 DEF TypeOK, WorkerTypes, Write, IndexInv
    <3>2. wi \in 1..Len(clients) /\ clients[wi] \in Client
          BY <1>8, RosterTypes DEF TypeOK, WorkerTypes, SharedTypes, Write
    <3>3. CASE delivered' = [delivered EXCEPT ![clients[wi]] = Append(@, node)]
          BY <1>8, <3>1, <3>2, <3>3 DEF TypeOK, OutputTypes, Write
    <3>4. CASE UNCHANGED delivered
          BY <1>8, <3>4 DEF TypeOK, OutputTypes, Write
    <3> QED BY <1>8, <3>3, <3>4 DEF Write
  <2>a. /\ Len(clients) \in Nat /\ Len(clients) <= MaxClients /\ wi \in 1..(MaxClients + 1)
        /\ wi <= Len(clients) /\ wi' = wi + 1 /\ pcW' = pcW /\ node' = node
        BY <1>8, RosterTypes DEF TypeOK, WorkerTypes, Write, SharedTypes
  <2>b. wi' \in 1..(MaxClients + 1)
        BY ONLY <2>a, ConstantsAssumption
  <2>2. WorkerTypes'
        BY <2>a, <2>b DEF TypeOK, WorkerTypes
  <2>3. UNCHANGED <<clients, queueVars, finished, running, clientLock, mainAndBuf, proc, conn,
                    peer, sockIn>>
        BY <1>8 DEF Write
  <2>4. SharedTypes' /\ MainTypes' /\ BufferTypes' /\ SocketTypes'
        BY <2>3 DEF TypeOK, SharedTypes, MainTypes, BufferTypes, SocketTypes
  <2> QED BY <2>1, <2>2, <2>4 DEF TypeOK
<1>9. CASE WriteKills
  <2>1. SocketTypes'
        BY <1>9 DEF TypeOK, SocketTypes, WriteKills
  <2> QED BY <1>9, <2>1
          DEF TypeOK, WriteKills, SharedTypes, MainTypes, BufferTypes, WorkerTypes,
              OutputTypes
<1>10. CASE EndBroadcast
  <2>1. OutputTypes'
        BY <1>10 DEF TypeOK, OutputTypes, EndBroadcast
  <2>2. SharedTypes'
        BY <1>10 DEF TypeOK, SharedTypes, EndBroadcast
  <2>3. WorkerTypes'
        BY <1>10, ConstantsAssumption DEF TypeOK, WorkerTypes, EndBroadcast
  <2> QED BY <1>10, <2>1, <2>2, <2>3
          DEF TypeOK, EndBroadcast, MainTypes, BufferTypes, SocketTypes
<1> QED BY <1>1, <1>2, <1>3, <1>4, <1>5, <1>6, <1>7, <1>8, <1>9, <1>10
        DEF Worker, WorkerStep, WakeUp, SpuriousWake

LEMMA EnvironmentKeepsTypes ==
  ASSUME TypeOK, Environment
  PROVE  TypeOK'
<1> USE DEF serverVars, TypeOK
<1>0. SUFFICES ASSUME SocketTypes', UNCHANGED serverVars
               PROVE  TypeOK'
  <2>1. UNCHANGED serverVars
        BY DEF Environment, Connect, ClientWrite, Arrive, ClientClose, ClientReset
  <2>2. SocketTypes'
    <3>1. PICK c \in Client :
            \/ Connect(c) \/ Arrive(c) \/ ClientClose(c) \/ ClientReset(c)
            \/ \E bytes \in Input : ClientWrite(c, bytes)
          BY DEF Environment
    <3>2. CASE Connect(c) \/ ClientClose(c)
          BY <3>2 DEF Connect, ClientClose, SocketTypes
    <3>3. CASE Arrive(c)
          BY <3>3 DEF Arrive, SocketTypes
    <3>4. CASE ClientReset(c)
          BY <3>4 DEF ClientReset, SocketTypes
    <3>5. ASSUME NEW bytes \in Input, ClientWrite(c, bytes)
          PROVE  SocketTypes'
      <4>1. /\ sent[c] \o bytes \in Seq(Kind)
            /\ Len(sent[c] \o bytes) >= Len(sent[c])
            BY <3>5, ConstantsAssumption, ConcatProperties DEF SocketTypes
      <4> QED BY <3>5, <4>1 DEF ClientWrite, SocketTypes
    <3> QED BY <3>1, <3>2, <3>3, <3>4, <3>5
  <2> QED BY <2>1, <2>2
<1> QED BY <1>0 DEF SharedTypes, MainTypes, BufferTypes, WorkerTypes, OutputTypes

LEMMA TypesStep ==
  ASSUME TypeOK, IndexInv, [Next]_vars
  PROVE  TypeOK'
<1>1. CASE UNCHANGED vars
      BY <1>1 DEF vars, TypeOK, SharedTypes, MainTypes, BufferTypes, WorkerTypes, SocketTypes,
                  OutputTypes
<1>2. CASE Exited
      BY <1>1, <1>2 DEF Exited
<1> QED BY <1>1, <1>2, MainKeepsTypes, WorkerKeepsTypes, EnvironmentKeepsTypes DEF Next

-----------------------------------------------------------------------------
(* The parts of the invariant, one lemma each.                             *)

LEMMA LockStep ==
  ASSUME TypeOK, LockInv, [Next]_vars
  PROVE  LockInv'
<1> USE
   DEF mainVars, workerVars, queueVars, sockIn, socketVars, mainAndBuf, LockInv, TypeOK,
       SharedTypes, MainTypes, WorkerTypes
<1>1. CASE LoopTest
      BY <1>1 DEF LoopTest
<1>2. CASE Select
      BY <1>2 DEF Select
<1>3. CASE SelectFails
      BY <1>3 DEF SelectFails
<1>4. ASSUME NEW c \in Client, Accept(c)
      PROVE  LockInv'
      BY <1>4 DEF Accept, NextIteration
<1>5. ASSUME NEW c \in Client, Reject(c)
      PROVE  LockInv'
      BY <1>5 DEF Reject
<1>6. CASE AcceptFails
      BY <1>6 DEF AcceptFails
<1>7. CASE LockClients
      BY <1>7 DEF LockClients
<1>8. CASE NextSlot
      BY <1>8 DEF NextSlot
<1>9. CASE LastSlot
      BY <1>9 DEF LastSlot, NextIteration
<1>10. CASE ReadData
      BY <1>10 DEF ReadData
<1>11. CASE ReadEnds
      BY <1>11 DEF ReadEnds
<1>12. CASE remove_client
      BY <1>12 DEF remove_client
<1>13. CASE Relock
      BY <1>13 DEF Relock
<1>14. CASE NoLine
      BY <1>14 DEF NoLine
<1>15. CASE Regular
      BY <1>15 DEF Regular, enqueue_message
<1>16. CASE Finish
      BY <1>16 DEF Finish
<1>17. CASE Discard
      BY <1>17 DEF Discard
<1>18. CASE EnqueueCommit
      BY <1>18 DEF EnqueueCommit, enqueue_message
<1>19. CASE StopRunning
      BY <1>19 DEF StopRunning
<1>20. CASE WakeWorker
      BY <1>20 DEF WakeWorker
<1>21. CASE JoinWorker
      BY <1>21 DEF JoinWorker
<1>22. CASE CloseAndExit
      BY <1>22 DEF CloseAndExit
<1>23. CASE WorkerTest
      BY <1>23 DEF WorkerTest
<1>24. CASE LockQueue
      BY <1>24 DEF LockQueue
<1>25. CASE TestQueue
      BY <1>25 DEF TestQueue
<1>26. CASE Dequeue
      BY <1>26 DEF Dequeue
<1>27. CASE CondWait
      BY <1>27 DEF CondWait
<1>28. CASE WakeUp \/ SpuriousWake
      BY <1>28 DEF WakeUp, SpuriousWake, Awake
<1>29. CASE LockList
      BY <1>29 DEF LockList
<1>30. CASE Write
      BY <1>30 DEF Write
<1>31. CASE WriteKills
      BY <1>31 DEF WriteKills
<1>32. CASE EndBroadcast
      BY <1>32 DEF EndBroadcast
<1>33. CASE Environment
      BY <1>33
         DEF Environment, Connect, ClientWrite, Arrive, ClientClose, ClientReset, serverVars
<1>34. CASE UNCHANGED vars
      BY <1>34 DEF vars
<1> QED BY <1>1, <1>2, <1>3, <1>4, <1>5, <1>6, <1>7, <1>8, <1>9, <1>10, <1>11, <1>12, <1>13,
           <1>14, <1>15, <1>16, <1>17, <1>18, <1>19, <1>20, <1>21, <1>22, <1>23, <1>24,
           <1>25, <1>26, <1>27, <1>28, <1>29, <1>30, <1>31, <1>32, <1>33, <1>34
        DEF Next, Main, Worker, WorkerStep, Exited

LEMMA IndexStep ==
  ASSUME TypeOK, LockInv, IndexInv, [Next]_vars
  PROVE  IndexInv'
<1> USE
   DEF mainVars, workerVars, queueVars, sockIn, socketVars, mainAndBuf, IndexInv, LockInv,
       TypeOK, SharedTypes, MainTypes, WorkerTypes
<1>1. CASE LoopTest
      BY <1>1 DEF LoopTest
<1>2. CASE Select
      BY <1>2 DEF Select
<1>3. CASE SelectFails
      BY <1>3 DEF SelectFails
<1>4. ASSUME NEW c \in Client, Accept(c)
      PROVE  IndexInv'
      BY <1>4 DEF Accept, NextIteration
<1>5. ASSUME NEW c \in Client, Reject(c)
      PROVE  IndexInv'
      BY <1>5 DEF Reject
<1>6. CASE AcceptFails
      BY <1>6 DEF AcceptFails
<1>7. CASE LockClients
      BY <1>7 DEF LockClients
<1>8. CASE NextSlot
      BY <1>8 DEF NextSlot
<1>9. CASE LastSlot
      BY <1>9 DEF LastSlot, NextIteration
<1>10. CASE ReadData
      BY <1>10 DEF ReadData
<1>11. CASE ReadEnds
      BY <1>11 DEF ReadEnds
<1>12. CASE remove_client
      BY <1>12, RemoveSlot DEF remove_client
<1>13. CASE Relock
      BY <1>13 DEF Relock
<1>14. CASE NoLine
      BY <1>14 DEF NoLine
<1>15. CASE Regular
      BY <1>15 DEF Regular, enqueue_message
<1>16. CASE Finish
      BY <1>16, LineParts DEF Finish, EndsExecution
<1>17. CASE Discard
      BY <1>17 DEF Discard
<1>18. CASE EnqueueCommit
      BY <1>18 DEF EnqueueCommit, enqueue_message
<1>19. CASE StopRunning
      BY <1>19 DEF StopRunning
<1>20. CASE WakeWorker
      BY <1>20 DEF WakeWorker
<1>21. CASE JoinWorker
      BY <1>21 DEF JoinWorker
<1>22. CASE CloseAndExit
      BY <1>22 DEF CloseAndExit
<1>23. CASE WorkerTest
      BY <1>23 DEF WorkerTest
<1>24. CASE LockQueue
      BY <1>24 DEF LockQueue
<1>25. CASE TestQueue
      BY <1>25 DEF TestQueue
<1>26. CASE Dequeue
      BY <1>26, NodeTypes DEF Dequeue
<1>27. CASE CondWait
      BY <1>27 DEF CondWait
<1>28. CASE WakeUp \/ SpuriousWake
      BY <1>28 DEF WakeUp, SpuriousWake, Awake
<1>29. CASE LockList
      BY <1>29 DEF LockList
<1>30. CASE Write
      BY <1>30 DEF Write
<1>31. CASE WriteKills
      BY <1>31 DEF WriteKills
<1>32. CASE EndBroadcast
      BY <1>32, NodeTypes DEF EndBroadcast
<1>33. CASE Environment
      BY <1>33
         DEF Environment, Connect, ClientWrite, Arrive, ClientClose, ClientReset, serverVars
<1>34. CASE UNCHANGED vars
      BY <1>34 DEF vars
<1> QED BY <1>1, <1>2, <1>3, <1>4, <1>5, <1>6, <1>7, <1>8, <1>9, <1>10, <1>11, <1>12, <1>13,
           <1>14, <1>15, <1>16, <1>17, <1>18, <1>19, <1>20, <1>21, <1>22, <1>23, <1>24,
           <1>25, <1>26, <1>27, <1>28, <1>29, <1>30, <1>31, <1>32, <1>33, <1>34
        DEF Next, Main, Worker, WorkerStep, Exited

LEMMA RosterStep ==
  ASSUME TypeOK, LockInv, IndexInv, RosterExact, [Next]_vars
  PROVE  RosterExact'
<1> USE DEF mainVars, workerVars, queueVars, sockIn, socketVars, mainAndBuf
<1> DEFINE Unique(s) == \A i, j \in 1..Len(s) : s[i] = s[j] => i = j
           Elements(s) == {s[i] : i \in 1..Len(s)}
<1>1. clients \in Seq(Client) /\ Unique(clients) /\ Roster = Elements(clients)
      BY DEF TypeOK, SharedTypes, RosterExact, Roster
<1>2. ASSUME Unique(clients'),
             proc' = "up" => Elements(clients') = {c \in Client : conn'[c] = "open"}
      PROVE  RosterExact'
      BY <1>2 DEF RosterExact, Roster
<1>3. ASSUME NEW c \in Client, proc = "up", Accept(c)
      PROVE  RosterExact'
  <2>1. conn[c] = "backlog" /\ conn' = [conn EXCEPT ![c] = "open"] /\ clients' = Append(clients,
        c)
        BY <1>3 DEF Accept, Pending
  <2>2. c \notin Elements(clients)
        BY <1>1, <1>3, <2>1 DEF RosterExact
  <2>3. /\ Len(clients') = Len(clients) + 1
        /\ \A i \in 1..Len(clients) : clients'[i] = clients[i]
        /\ clients'[Len(clients) + 1] = c
        BY <1>1, <2>1, AppendProperties
  <2>4. Unique(clients') /\ Elements(clients') = Elements(clients) \cup {c}
        BY <1>1, <2>2, <2>3
  <2>5. Elements(clients) = {d \in Client : conn[d] = "open"}
        BY <1>1, <1>3 DEF RosterExact
  <2> QED BY <1>2, <2>1, <2>4, <2>5 DEF TypeOK, SocketTypes
<1>4. ASSUME NEW c \in Client, proc = "up", Reject(c)
      PROVE  RosterExact'
  <2>1. /\ UNCHANGED <<clients, proc>>
        /\ conn[c] = "backlog" /\ conn' = [conn EXCEPT ![c] = "shut"]
        BY <1>4 DEF Reject, Pending
  <2>2. {d \in Client : conn'[d] = "open"} = {d \in Client : conn[d] = "open"}
        BY <2>1 DEF TypeOK, SocketTypes
  <2> QED BY <2>1, <2>2 DEF RosterExact, Roster
<1>5. ASSUME proc = "up", remove_client
      PROVE  RosterExact'
  <2>1. slot \in 1..Len(clients)
        BY <1>5 DEF remove_client, IndexInv, TypeOK, SharedTypes, MainTypes
  <2>a. clients \in Seq(Client) /\ clients' = Without(clients, slot)
        BY <1>5 DEF remove_client, TypeOK, SharedTypes, Roster
  <2>b. /\ Len(Without(clients, slot)) = Len(clients) - 1
        /\ \A k \in 1..(Len(clients) - 1) :
             Without(clients, slot)[k] = IF k = slot THEN clients[Len(clients)] ELSE clients[k]
        BY ONLY <2>1, <2>a, RemoveSlot
  <2>2. /\ Len(clients') = Len(clients) - 1
        /\ \A k \in 1..Len(clients') :
             clients'[k] = IF k = slot THEN clients[Len(clients)] ELSE clients[k]
        BY ONLY <2>a, <2>b
  <2>3. Unique(clients') /\ Elements(clients') = Elements(clients) \ {clients[slot]}
        BY <1>1, <2>1, <2>2
  <2>4. /\ Elements(clients) = {d \in Client : conn[d] = "open"}
        /\ conn' = [conn EXCEPT ![clients[slot]] = "shut"]
        BY <1>1, <1>5 DEF RosterExact, remove_client
  <2> QED BY <1>2, <2>3, <2>4 DEF TypeOK, SocketTypes
<1>6. CASE Environment
  <2>1. ASSUME NEW c \in Client, Connect(c)
        PROVE  RosterExact'
    <3>1. clients' = clients /\ proc' = proc /\ conn[c] = "none"
          /\ conn' = [conn EXCEPT ![c] = "backlog"]
          BY <2>1 DEF Connect, serverVars
    <3>2. {d \in Client : conn'[d] = "open"} = {d \in Client : conn[d] = "open"}
          BY <3>1 DEF TypeOK, SocketTypes
    <3> QED BY <3>1, <3>2 DEF RosterExact, Roster
  <2>2. CASE UNCHANGED <<clients, conn, proc>>
        BY <2>2 DEF RosterExact, Roster
  <2> QED BY <1>6, <2>1, <2>2 DEF Environment, ClientWrite, Arrive, ClientClose, ClientReset,
                                  serverVars
<1>7. CASE CloseAndExit \/ WriteKills
      BY <1>1, <1>7 DEF CloseAndExit, WriteKills, RosterExact, Roster
<1>8. CASE UNCHANGED <<clients, conn, proc>>
      BY <1>8 DEF RosterExact, Roster
<1> QED BY <1>3, <1>4, <1>5, <1>6, <1>7, <1>8
        DEF Next, Main, Worker, WorkerStep, WakeUp, SpuriousWake, Awake, Exited, vars,
            LoopTest, Select, SelectFails, AcceptFails, LockClients, NextSlot, LastSlot,
            ReadData, ReadEnds, Relock, NoLine, Regular, Finish, Discard, EnqueueCommit,
            StopRunning, WakeWorker, JoinWorker, WorkerTest, LockQueue, TestQueue, Dequeue,
            CondWait, LockList, Write, EndBroadcast

(* enqueue_message either appends to the queue and to the history, or drops *)
(* the message.                                                            *)
LEMMA EnqueueKeepsQueue ==
  ASSUME TypeOK, QueueInv, NEW m \in Message, enqueue_message(m),
         UNCHANGED <<proc, frontier, node, pcW>>
  PROVE  QueueInv'
<1> USE DEF QueueInv, Busy
<1>1. CASE UNCHANGED <<queue, order>>
      BY <1>1
<1>2. CASE queue' = Append(queue, m) /\ order' = Append(order, m)
  <2>1. /\ queue \in Seq(Message) /\ order \in Seq(Message) /\ frontier \in Nat
        BY DEF TypeOK, SharedTypes, OutputTypes
  <2>2. /\ Len(queue') = Len(queue) + 1 /\ Len(order') = Len(order) + 1
        /\ \A n \in 1..Len(queue) : queue'[n] = queue[n]
        /\ \A n \in 1..Len(order) : order'[n] = order[n]
        /\ queue'[Len(queue) + 1] = m /\ order'[Len(order) + 1] = m
        BY <1>2, <2>1, AppendProperties
  <2>3. Busy \in {0, 1} /\ Busy' = Busy
        OBVIOUS
  <2>4. ASSUME proc = "up"
        PROVE  /\ Len(order') = frontier' + Busy' + Len(queue')
               /\ \A n \in 1..Len(queue') : queue'[n] = order'[frontier' + Busy' + n]
    <3>1. /\ Len(order) = frontier + Busy + Len(queue)
          /\ \A n \in 1..Len(queue) : queue[n] = order[frontier + Busy + n]
          BY <2>4
    <3> HIDE DEF QueueInv, Busy
    <3> QED BY <2>1, <2>2, <2>3, <3>1
  <2>5. ASSUME proc = "up", Busy = 1
        PROVE  node' = order'[frontier' + 1]
    <3>1. Len(order) = frontier + Busy + Len(queue) /\ node = order[frontier + 1]
          BY <2>5
    <3> HIDE DEF QueueInv, Busy
    <3> QED BY <2>1, <2>2, <2>5, <3>1
  <2> QED BY <2>3, <2>4, <2>5
<1> QED BY <1>1, <1>2 DEF enqueue_message, queueVars

LEMMA QueueStep ==
  ASSUME TypeOK, IndexInv, QueueInv, [Next]_vars
  PROVE  QueueInv'
<1> USE DEF mainVars, workerVars, queueVars, sockIn, socketVars, mainAndBuf
<1>1. CASE UNCHANGED <<proc, order, queue, frontier, node>> /\ Busy' = Busy
      BY <1>1 DEF QueueInv
<1>2. CASE EnqueueCommit
      BY <1>2, NodeTypes, EnqueueKeepsQueue DEF EnqueueCommit
<1>3. CASE Regular
  <2>1. CASE UNCHANGED queueVars
        BY <1>1, <1>3, <2>1 DEF Regular, Busy
  <2>2. ASSUME NEW a \in Address(clients[slot]),
               enqueue_message([type |-> "reg", from |-> a, data |-> Data(buf[slot])])
        PROVE  QueueInv'
        BY <1>3, <2>2, RegularMessage, EnqueueKeepsQueue DEF Regular
  <2> QED BY <1>3, <2>1, <2>2 DEF Regular
<1>4. CASE Dequeue
  <2>1. Busy = 0 /\ Busy' = 1
        BY <1>4 DEF Busy, Dequeue
  <2>2. /\ queue \in Seq(Message) /\ queue # <<>> /\ frontier \in Nat
        /\ node' = queue[1] /\ queue' = Tail(queue)
        BY <1>4 DEF Dequeue, TypeOK, SharedTypes, OutputTypes
  <2>3. /\ Len(queue') = Len(queue) - 1
        /\ \A n \in 1..Len(queue') : queue'[n] = queue[n + 1]
        BY <2>2, HeadTailProperties
  <2>4. UNCHANGED <<proc, order, frontier>>
        BY <1>4 DEF Dequeue
  <2> QED BY <2>1, <2>2, <2>3, <2>4, LenProperties DEF QueueInv
<1>5. CASE proc = "up" /\ EndBroadcast
  <2>1. Busy = 1 /\ Busy' = 0 /\ frontier' = frontier + 1 /\ UNCHANGED <<proc, order, queue>>
        BY <1>5 DEF Busy, EndBroadcast
  <2> QED BY <2>1 DEF QueueInv, TypeOK, SharedTypes, OutputTypes
<1>6. CASE CloseAndExit \/ WriteKills
      BY <1>6 DEF CloseAndExit, WriteKills, QueueInv
<1>7. CASE Environment
      BY <1>1, <1>7 DEF Environment, Connect, ClientWrite, Arrive, ClientClose, ClientReset,
                        serverVars, Busy
<1> QED BY <1>1, <1>2, <1>3, <1>4, <1>5, <1>6, <1>7
        DEF Next, Main, Worker, WorkerStep, WakeUp, SpuriousWake, Awake, Exited, vars, Busy,
            LoopTest, Select, SelectFails, Accept, Reject, AcceptFails, LockClients, NextSlot,
            LastSlot, ReadData, ReadEnds, remove_client, Relock, NoLine, Finish, Discard,
            StopRunning, WakeWorker, JoinWorker, WorkerTest, LockQueue, TestQueue,
            CondWait, LockList, Write

LEMMA CommitStep ==
  ASSUME TypeOK, IndexInv, CommitInv, [Next]_vars
  PROVE  CommitInv'
<1> USE DEF mainVars, workerVars, queueVars, sockIn, socketVars, mainAndBuf
<1> DEFINE After == {"stop", "wake", "join", "close", "exit"}
<1>1. CASE UNCHANGED order /\ (pcM \in After => pcM' \in After)
      BY <1>1 DEF CommitInv
<1>2. CASE EnqueueCommit
      BY <1>2 DEF EnqueueCommit, CommitInv
<1>3. CASE Regular
  <2>1. CASE UNCHANGED queueVars
        BY <1>1, <1>3, <2>1 DEF Regular
  <2>2. ASSUME NEW m \in Message, m # Commit, order' = Append(order, m)
        PROVE  CommitInv'
    <3>1. \A n \in 1..Len(order) : order[n] # Commit
          BY <1>3 DEF Regular, CommitInv
    <3>2. /\ Len(order') = Len(order) + 1
          /\ \A n \in 1..Len(order) : order'[n] = order[n]
          /\ order'[Len(order) + 1] = m
          BY <2>2, AppendProperties DEF TypeOK, SharedTypes
    <3>3. Len(order) \in Nat
          BY DEF TypeOK, SharedTypes
    <3> QED BY <2>2, <3>1, <3>2, <3>3 DEF CommitInv
  <2>3. ASSUME NEW a \in Address(clients[slot]),
               enqueue_message([type |-> "reg", from |-> a, data |-> Data(buf[slot])])
        PROVE  CommitInv'
        BY <1>3, <2>1, <2>2, <2>3, RegularMessage DEF enqueue_message
  <2> QED BY <1>3, <2>1, <2>3 DEF Regular
<1>4. CASE Environment
      BY <1>1, <1>4 DEF Environment, Connect, ClientWrite, Arrive, ClientClose, ClientReset,
                        serverVars
<1> QED BY <1>1, <1>2, <1>3, <1>4
        DEF Next, Main, Worker, WorkerStep, WakeUp, SpuriousWake, Awake, Exited, vars,
            LoopTest, Select, SelectFails, Accept, Reject, AcceptFails, LockClients, NextSlot,
            LastSlot, ReadData, ReadEnds, remove_client, Relock, NoLine, Finish, Discard,
            StopRunning, WakeWorker, JoinWorker, CloseAndExit, WorkerTest, LockQueue,
            TestQueue, Dequeue, CondWait, LockList, Write, WriteKills, EndBroadcast,
            NextIteration

(* Nothing is written to a connection that main has not accepted.          *)
LEMMA FreshStep ==
  ASSUME TypeOK, IndexInv, RosterExact, FreshInv, [Next]_vars
  PROVE  FreshInv'
<1> USE DEF mainVars, workerVars, queueVars, sockIn, socketVars, mainAndBuf
<1>1. CASE /\ UNCHANGED delivered
           /\ \A c \in Client : conn'[c] \in {"none", "backlog"}
                                  => conn[c] \in {"none", "backlog"}
      BY <1>1 DEF FreshInv
<1>2. CASE proc = "up" /\ Write
  <2>1. clients[wi] \in Client /\ conn[clients[wi]] = "open" /\ UNCHANGED conn
        BY <1>2 DEF Write, RosterExact, Roster, TypeOK, WorkerTypes
  <2>2. \A c \in Client : c # clients[wi] => delivered'[c] = delivered[c]
        BY <1>2, <2>1 DEF Write, TypeOK, OutputTypes
  <2> QED BY <2>1, <2>2 DEF FreshInv
<1>3. CASE \E c \in Client : Accept(c) \/ Reject(c)
      BY <1>1, <1>3 DEF Accept, Reject, TypeOK, SocketTypes
<1>4. CASE remove_client \/ CloseAndExit
      BY <1>1, <1>4 DEF remove_client, CloseAndExit, TypeOK, SocketTypes
<1>5. CASE Environment
      BY <1>1, <1>5 DEF Environment, Connect, ClientWrite, Arrive, ClientClose, ClientReset,
                        serverVars, TypeOK, SocketTypes
<1> QED BY <1>1, <1>2, <1>3, <1>4, <1>5
        DEF Next, Main, Worker, WorkerStep, WakeUp, SpuriousWake, Awake, Exited, vars,
            LoopTest, Select, SelectFails, AcceptFails, LockClients, NextSlot, LastSlot,
            ReadData, ReadEnds, Relock, NoLine, Regular, enqueue_message, Finish, Discard,
            EnqueueCommit, StopRunning, WakeWorker, JoinWorker, WorkerTest, LockQueue,
            TestQueue, Dequeue, CondWait, LockList, WriteKills, EndBroadcast

-----------------------------------------------------------------------------

LEMMA InitIInv == Init => IInv
<1> SUFFICES ASSUME Init
             PROVE  IInv
    OBVIOUS
<1>0. MaxClients \in Nat /\ 1 <= MaxClients
    BY ConstantsAssumption
<1>1. SharedTypes
  <2>1. /\ clients = <<>> /\ queue = <<>> /\ order = <<>> /\ finished = 0 /\ running = TRUE
        /\ clientLock = "free" /\ queueLock = "free" /\ signalled = FALSE
        BY DEF Init
  <2>2. clients \in Seq(Client) /\ Len(clients) <= MaxClients
        BY <1>0, <2>1
  <2>3. queue \in Seq(Message) /\ order \in Seq(Message)
        BY <2>1
  <2> QED BY <2>1, <2>2, <2>3 DEF SharedTypes
<1>2. MainTypes
  <2>1. pcM = "loop" /\ listenReady = FALSE /\ ready = {} /\ slot = 1
        BY DEF Init
  <2>2. slot \in 1..(MaxClients + 1)
        BY <1>0, <2>1
  <2>3. ready \subseteq Client
        BY <2>1
  <2> QED BY <2>1, <2>2, <2>3 DEF MainTypes
<1>10. WorkerTypes
  <2>1. pcW = "test" /\ node = NoNode /\ wi = 1
        BY DEF Init
  <2> QED BY <1>0, <2>1 DEF WorkerTypes
<1>3. BufferTypes
      BY ConstantsAssumption DEF Init, BufferTypes
<1>4. SocketTypes
      BY DEF Init, SocketTypes
<1>5. OutputTypes
      BY DEF Init, OutputTypes
<1>6. LockInv /\ IndexInv
      BY DEF Init, LockInv, IndexInv
<1>7. RosterExact
      BY DEF Init, RosterExact, Roster
<1>8. QueueInv
      BY DEF Init, QueueInv, Busy
<1>9. CommitInv /\ FreshInv
      BY DEF Init, CommitInv, FreshInv
<1> QED BY <1>1, <1>2, <1>3, <1>4, <1>5, <1>6, <1>7, <1>8, <1>9, <1>10 DEF IInv, TypeOK

LEMMA StepIInv == IInv /\ [Next]_vars => IInv'
BY TypesStep, LockStep, IndexStep, RosterStep, QueueStep, CommitStep, FreshStep DEF IInv

THEOREM Invariance == Spec => []IInv
BY InitIInv, StepIInv, PTL DEF Spec

(* Every variable has its type, whatever the clients write and whichever   *)
(* faults happen; in particular no slot's buffer overflows (464-466).      *)
THEOREM TypeCorrect == Spec => []TypeOK
<1>1. IInv => TypeOK
      BY DEF IInv
<1> QED BY Invariance, <1>1, PTL

(* The client list is exact for any number of clients and any sequence of  *)
(* accepts and removals (128-145, 435-448).                                *)
THEOREM RosterCorrect == Spec => []RosterExact
<1>1. IInv => RosterExact
      BY DEF IInv
<1> QED BY Invariance, <1>1, PTL

-----------------------------------------------------------------------------
(* The handshake of queue_cond.  main signals a stop without queue_lock, so *)
(* it is the lock on the client list that keeps the worker from testing the *)
(* queue between the commit and that signal: whoever has dequeued the      *)
(* commit is stuck at client_list_lock until main has signalled.           *)

WakeInv ==
  /\ pcM \in {"stop", "wake"} => queue # <<>> \/ pcW = "lockc"
  /\ pcW = "wait" => queue = <<>> /\ running
  /\ pcW = "asleep" /\ ~signalled => queue = <<>> /\ running

LEMMA EnqueueWakes ==
  ASSUME TypeOK, LockInv, WakeInv, "malloc" \notin Faults,
         NEW m, enqueue_message(m), UNCHANGED <<running, pcW>>
  PROVE  WakeInv' /\ queue' # <<>>
<1>1. queueLock = "free" /\ queue' = Append(queue, m) /\ Signal
      BY DEF enqueue_message
<1>2. queue' # <<>>
      BY <1>1, AppendProperties DEF TypeOK, SharedTypes
<1>3. pcW' # "wait" /\ (pcW' = "asleep" => signalled')
      BY <1>1 DEF LockInv, Signal
<1> QED BY <1>2, <1>3 DEF WakeInv

LEMMA WakeStep ==
  ASSUME TypeOK, LockInv, WakeInv, "malloc" \notin Faults, [Next]_vars
  PROVE  WakeInv'
<1> USE DEF mainVars, workerVars, queueVars, sockIn, socketVars, mainAndBuf
<1>1. CASE /\ UNCHANGED <<queue, signalled, pcW, running>>
           /\ pcM' \in {"stop", "wake"} => pcM \in {"stop", "wake"}
      BY <1>1 DEF WakeInv
<1>2. CASE Regular
  <2>1. CASE UNCHANGED queueVars
        BY <1>1, <1>2, <2>1 DEF Regular
  <2>2. CASE \E m : enqueue_message(m)
        BY <1>2, <2>2, EnqueueWakes DEF Regular
  <2> QED BY <1>2, <2>1, <2>2 DEF Regular
<1>3. CASE EnqueueCommit
      BY <1>3, EnqueueWakes DEF EnqueueCommit
<1>4. CASE StopRunning
      BY <1>4 DEF StopRunning, WakeInv
<1>5. CASE WakeWorker
      BY <1>5 DEF WakeWorker, Signal, WakeInv
<1>6. CASE CloseAndExit
      BY <1>6 DEF CloseAndExit, WakeInv
<1>7. CASE LockList
      BY <1>7 DEF LockList, LockInv, WakeInv
<1>8. CASE Dequeue \/ TestQueue
      BY <1>8 DEF Dequeue, TestQueue, WakeInv
<1>9. CASE CondWait \/ WakeUp \/ SpuriousWake
      BY <1>9 DEF CondWait, WakeUp, SpuriousWake, Awake, WakeInv
<1>10. CASE WorkerTest \/ LockQueue \/ Write \/ WriteKills \/ EndBroadcast
      BY <1>10 DEF WorkerTest, LockQueue, Write, WriteKills, EndBroadcast, WakeInv
<1>11. CASE Environment
      BY <1>1, <1>11 DEF Environment, Connect, ClientWrite, Arrive, ClientClose, ClientReset,
                         serverVars
<1> QED BY <1>1, <1>2, <1>3, <1>4, <1>5, <1>6, <1>7, <1>8, <1>9, <1>10, <1>11
        DEF Next, Main, Worker, WorkerStep, Exited, vars, LoopTest, Select, SelectFails,
            Accept, Reject, AcceptFails, LockClients, NextSlot, LastSlot, ReadData, ReadEnds,
            remove_client, Relock, NoLine, Finish, Discard, JoinWorker, NextIteration

(* The worker never sleeps through a message or the end, as long as every  *)
(* message is enqueued: it is the commit in the queue, and not the signal  *)
(* of 282, that makes the stop safe (72-120, 252-285).                     *)
THEOREM NeverSleepsOverWork ==
  ASSUME "malloc" \notin Faults
  PROVE  Spec => []NoLostWakeup
<1>1. Init => WakeInv
      BY DEF Init, WakeInv
<1>2. IInv /\ WakeInv /\ [Next]_vars => WakeInv'
      BY WakeStep DEF IInv
<1>3. WakeInv => NoLostWakeup
      BY DEF WakeInv, NoLostWakeup
<1> QED BY <1>1, <1>2, <1>3, Invariance, PTL DEF Spec

-----------------------------------------------------------------------------
(* The server implements OrderedBroadcast, for any number of clients, any  *)
(* sizes and any faults.  Each step of the server is one step of the       *)
(* abstract specification, or changes nothing it can see.                  *)


(* The client list loses its lock only between two broadcasts.             *)
LEMMA NoBroadcastWhenFree ==
  ASSUME LockInv, clientLock = "free" \/ clientLock = "main"
  PROVE  pcW # "send" /\ served = {}
BY DEF LockInv, served

(* A step that changes nothing the abstract specification sees.            *)
LEMMA Stutter ==
  ASSUME UNCHANGED <<order, frontier, clients, served, gone, since, delivered>>
  PROVE  UNCHANGED Broadcast!vars
BY DEF Broadcast!vars, Roster

(* The worker is between two broadcasts before and after the step, and no  *)
(* connection ends in it.                                                  *)
LEMMA StutterOutside ==
  ASSUME UNCHANGED <<order, frontier, clients, conn, peer, since, delivered>>,
         pcW = "send" => UNCHANGED <<pcW, wi>>,
         pcW' = "send" => pcW = "send" \/ wi' = 1
  PROVE  UNCHANGED Broadcast!vars
<1>1. gone' = gone
      BY DEF gone
<1>2. served' = served
      BY DEF served
<1> QED BY <1>1, <1>2, Stutter

LEMMA AcceptJoins ==
  ASSUME IInv, NEW c \in Client, proc = "up", Accept(c)
  PROVE  Broadcast!Join(c)
<1> USE DEF IInv, workerVars, queueVars, sockIn
<1>1. /\ clients \in Seq(Client) /\ clients' = Append(clients, c)
      /\ conn[c] = "backlog" /\ conn' = [conn EXCEPT ![c] = "open"]
      BY DEF Accept, Pending, TypeOK, SharedTypes
<1>2. Roster' = Roster \cup {c}
  <2>1. /\ Len(clients') = Len(clients) + 1 /\ clients'[Len(clients) + 1] = c
        /\ \A i \in 1..Len(clients) : clients'[i] = clients[i]
        BY <1>1, AppendProperties
  <2> QED BY <1>1, <2>1 DEF Roster
<1>3. c \notin Roster
      BY <1>1 DEF RosterExact
<1>4. served = {} /\ served' = {}
      BY NoBroadcastWhenFree DEF Accept, served
<1>5. delivered[c] = <<>>
      BY <1>1 DEF FreshInv
<1>6. gone' = gone
      BY <1>1 DEF Accept, gone, TypeOK, SocketTypes
<1> QED BY <1>2, <1>3, <1>4, <1>5, <1>6 DEF Accept, Broadcast!Join

LEMMA RemoveLeaves ==
  ASSUME IInv, proc = "up", remove_client
  PROVE  Broadcast!Leave(clients[slot])
<1> USE DEF IInv, workerVars, queueVars, sockIn
<1> DEFINE c == clients[slot]
<1>1. /\ clients \in Seq(Client) /\ slot \in 1..Len(clients)
      /\ \A i, j \in 1..Len(clients) : clients[i] = clients[j] => i = j
      BY DEF remove_client, IndexInv, TypeOK, SharedTypes, MainTypes, RosterExact
<1>2. c \in Client /\ c \in Roster
      BY <1>1 DEF Roster
<1>3. Roster' = Roster \ {c}
  <2>1. /\ Len(clients') = Len(clients) - 1
        /\ \A k \in 1..(Len(clients) - 1) :
             clients'[k] = IF k = slot THEN clients[Len(clients)] ELSE clients[k]
        BY <1>1, RemoveSlot DEF remove_client
  <2> QED BY <1>1, <2>1 DEF Roster
<1>4. served = {} /\ served' = {}
      BY NoBroadcastWhenFree DEF remove_client, served
<1>5. gone' = gone \cup {c}
      BY <1>2 DEF remove_client, gone, TypeOK, SocketTypes
<1> QED BY <1>2, <1>3, <1>4, <1>5 DEF remove_client, Broadcast!Leave

(* An enqueued message extends the sequence; one that malloc() refused does *)
(* not.                                                                    *)
LEMMA EnqueueSubmits ==
  ASSUME IInv, NEW m \in Message, enqueue_message(m),
         pcM \in {"handle", "commit"},
         UNCHANGED <<clients, conn, peer, pcW, wi, frontier, since, delivered>>
  PROVE  Broadcast!Submit \/ UNCHANGED Broadcast!vars
<1> USE DEF IInv
<1>1. CASE UNCHANGED queueVars
      BY <1>1, StutterOutside DEF queueVars
<1>2. CASE order' = Append(order, m)
  <2>1. order \in Seq(Message)
        BY DEF TypeOK, SharedTypes
  <2>2. /\ order' \in Seq(Message) /\ Len(order') = Len(order) + 1
        /\ \A n \in 1..Len(order) : order'[n] = order[n]
        BY <1>2, <2>1, AppendProperties
  <2>3. \A n \in 1..Len(order) : order[n] # Commit
        BY DEF CommitInv
  <2>4. UNCHANGED <<Roster, served, gone>>
        BY DEF Roster, served, gone
  <2> QED BY <2>2, <2>3, <2>4 DEF Broadcast!Submit
<1> QED BY <1>1, <1>2 DEF enqueue_message

LEMMA WriteDelivers ==
  ASSUME IInv, proc = "up", Write
  PROVE  Broadcast!Deliver(clients[wi])
<1> USE DEF IInv, mainVars, queueVars, sockIn, mainAndBuf
<1> DEFINE c == clients[wi]
<1>1. /\ clients \in Seq(Client) /\ wi \in 1..Len(clients)
      /\ \A i, j \in 1..Len(clients) : clients[i] = clients[j] => i = j
      BY DEF Write, TypeOK, SharedTypes, WorkerTypes, RosterExact
<1>2. c \in Client /\ c \in Roster
      BY <1>1 DEF Roster
<1>3. served = {clients[i] : i \in 1..(wi - 1)} /\ served' = {clients[i] : i \in 1..wi}
      BY <1>1 DEF Write, served
<1>4. c \notin served /\ served' = served \cup {c}
      BY <1>1, <1>3
<1>5. frontier < Len(order) /\ node = order[frontier + 1]
  <2>1. Busy = 1
        BY DEF Write, Busy
  <2> QED BY <2>1 DEF QueueInv, TypeOK, SharedTypes, OutputTypes
<1>6. c \in gone <=> peer[c] # "up"
      BY <1>2 DEF gone, RosterExact
<1>7. UNCHANGED <<Roster, gone>>
      BY DEF Write, Roster, gone
<1> QED BY <1>2, <1>4, <1>5, <1>6, <1>7 DEF Write, Broadcast!Deliver

LEMMA EndAdvances ==
  ASSUME IInv, proc = "up", EndBroadcast
  PROVE  Broadcast!Advance
<1> USE DEF IInv, mainVars, queueVars, sockIn, mainAndBuf, socketVars
<1>1. wi = Len(clients) + 1 /\ Len(clients) \in Nat
      BY DEF EndBroadcast, IndexInv, TypeOK, SharedTypes, WorkerTypes
<1>2. served = Roster /\ served' = {}
      BY <1>1 DEF EndBroadcast, served, Roster
<1>3. frontier < Len(order)
  <2>1. Busy = 1
        BY DEF EndBroadcast, Busy
  <2> QED BY <2>1 DEF QueueInv, TypeOK, SharedTypes, OutputTypes
<1>4. UNCHANGED <<Roster, gone>>
      BY DEF EndBroadcast, Roster, gone
<1> QED BY <1>2, <1>3, <1>4 DEF EndBroadcast, Broadcast!Advance

(* Connections end: refused, closed by their client, or by the server.     *)
LEMMA EndsVanish ==
  ASSUME IInv,
         \/ proc = "up" /\ CloseAndExit
         \/ \E c \in Client : proc = "up" /\ Reject(c)
         \/ \E c \in Client : ClientClose(c) \/ ClientReset(c)
  PROVE  Broadcast!Vanish
<1> USE DEF IInv, mainVars, workerVars, queueVars, sockIn, mainAndBuf, socketVars, serverVars
<1>1. /\ UNCHANGED <<order, frontier, clients, pcW, wi, since, delivered>>
      /\ \A d \in Client : /\ conn[d] = "shut" => conn'[d] = "shut"
                           /\ peer[d] # "up" => peer'[d] # "up"
      BY DEF CloseAndExit, Reject, ClientClose, ClientReset, TypeOK, SocketTypes
<1>2. gone \subseteq gone' /\ gone' \in SUBSET Client
      BY <1>1 DEF gone
<1>3. UNCHANGED <<Roster, served>>
      BY <1>1 DEF Roster, served
<1> QED BY <1>1, <1>2, <1>3 DEF Broadcast!Vanish

-----------------------------------------------------------------------------

LEMMA InitRefines == Init => Broadcast!Init
BY DEF Init, Broadcast!Init, Roster, served, gone

LEMMA StepRefines ==
  ASSUME IInv, [Next]_vars
  PROVE  [Broadcast!Next]_(Broadcast!vars)
<1> USE DEF mainVars, workerVars, queueVars, sockIn, socketVars, mainAndBuf
<1>1. CASE proc = "up" /\ \E c \in Client : Accept(c) \/ Reject(c)
      BY <1>1, AcceptJoins, EndsVanish DEF Broadcast!Next
<1>2. CASE proc = "up" /\ remove_client
  <2>1. clients[slot] \in Client
        BY <1>2 DEF IInv, remove_client, IndexInv, TypeOK, SharedTypes, MainTypes
  <2> QED BY <1>2, <2>1, RemoveLeaves DEF Broadcast!Next
<1>3. CASE proc = "up" /\ Regular
  <2>1. UNCHANGED <<clients, conn, peer, pcW, wi, frontier, since, delivered>>
        BY <1>3 DEF Regular
  <2>2. CASE UNCHANGED queueVars
        BY <2>1, <2>2, StutterOutside
  <2>3. ASSUME NEW a \in Address(clients[slot]),
               enqueue_message([type |-> "reg", from |-> a, data |-> Data(buf[slot])])
        PROVE  Broadcast!Submit \/ UNCHANGED Broadcast!vars
    <3>1. [type |-> "reg", from |-> a, data |-> Data(buf[slot])] \in Message
          BY <1>3, <2>3, RegularMessage DEF IInv, Regular
    <3> QED BY <1>3, <2>1, <2>3, <3>1, EnqueueSubmits DEF Regular
  <2> QED BY <1>3, <2>2, <2>3 DEF Regular, Broadcast!Next
<1>4. CASE proc = "up" /\ EnqueueCommit
  <2>1. UNCHANGED <<clients, conn, peer, pcW, wi, frontier, since, delivered>>
        BY <1>4 DEF EnqueueCommit
  <2> QED BY <1>4, <2>1, NodeTypes, EnqueueSubmits DEF EnqueueCommit, Broadcast!Next
<1>5. CASE proc = "up" /\ CloseAndExit
      BY <1>5, EndsVanish DEF Broadcast!Next
<1>6. CASE proc = "up" /\ Write
  <2>1. clients[wi] \in Client
        BY <1>6 DEF IInv, Write, TypeOK, SharedTypes, WorkerTypes
  <2> QED BY <1>6, <2>1, WriteDelivers DEF Broadcast!Next
<1>7. CASE proc = "up" /\ EndBroadcast
      BY <1>7, EndAdvances DEF Broadcast!Next
<1>8. CASE Environment
  <2>1. ASSUME NEW c \in Client, Connect(c)
        PROVE  UNCHANGED Broadcast!vars
    <3>1. gone' = gone
          BY <2>1 DEF Connect, gone, IInv, TypeOK, SocketTypes
    <3>2. UNCHANGED <<order, frontier, clients, served, since, delivered>>
          BY <2>1 DEF Connect, serverVars, served
    <3> QED BY <3>1, <3>2, Stutter
  <2>2. ASSUME NEW c \in Client, ClientClose(c) \/ ClientReset(c)
        PROVE  Broadcast!Next
        BY <2>2, EndsVanish DEF Broadcast!Next
  <2>3. CASE UNCHANGED <<order, frontier, clients, conn, peer, pcW, wi, since, delivered>>
        BY <2>3, StutterOutside
  <2> QED BY <1>8, <2>1, <2>2, <2>3 DEF Environment, ClientWrite, Arrive, serverVars
<1>9. CASE /\ UNCHANGED <<order, frontier, clients, conn, peer, since, delivered>>
           /\ pcW = "send" => UNCHANGED <<pcW, wi>>
           /\ pcW' = "send" => pcW = "send" \/ wi' = 1
      BY <1>9, StutterOutside
<1> QED BY <1>1, <1>2, <1>3, <1>4, <1>5, <1>6, <1>7, <1>8, <1>9
        DEF Next, Main, Worker, WorkerStep, WakeUp, SpuriousWake, Awake, Exited, vars,
            LoopTest, Select, SelectFails, AcceptFails, LockClients, NextSlot, LastSlot,
            ReadData, ReadEnds, Relock, NoLine, Finish, Discard, StopRunning, WakeWorker,
            JoinWorker, WorkerTest, LockQueue, TestQueue, Dequeue, CondWait, LockList,
            WriteKills

(* Whatever the clients do and whichever faults happen, what the server    *)
(* puts on the connections is an ordered broadcast (149): the accepts,     *)
(* removals, enqueues and writes of its two threads are steps of           *)
(* OrderedBroadcast.                                                       *)
THEOREM ImplementsOrderedBroadcast == Spec => RefinesOrderedBroadcast
<1>1. Init => Broadcast!Init
      BY InitRefines
<1>2. IInv /\ [Next]_vars => [Broadcast!Next]_(Broadcast!vars)
      BY StepRefines
<1> QED BY <1>1, <1>2, Invariance, PTL DEF Spec, Broadcast!Spec, RefinesOrderedBroadcast

-----------------------------------------------------------------------------
(* What an ordered broadcast gives its clients.  The members are the       *)
(* server's list, the rest is as abstract as in OrderedBroadcast: only its *)
(* actions are used.                                                       *)

BroadcastTypes ==
  /\ order \in Seq(Message)
  /\ frontier \in Nat /\ frontier <= Len(order)
  /\ Roster \in SUBSET Client
  /\ served \in SUBSET Roster
  /\ gone \in SUBSET Client
  /\ since \in [Client -> Nat]
  /\ delivered \in [Client -> Seq(Message)]

BroadcastExact == Broadcast!ContiguousPiece /\ Broadcast!Lockstep /\ Broadcast!CommitIsLast

BroadcastInv == BroadcastTypes /\ BroadcastExact

LEMMA InitBroadcast == Broadcast!Init => BroadcastInv
BY DEF Broadcast!Init, BroadcastInv, BroadcastTypes, BroadcastExact, Broadcast!ContiguousPiece,
       Broadcast!Lockstep, Broadcast!CommitIsLast

(* Each action keeps the invariant; only Deliver and Join touch a client's *)
(* piece, and only Submit the end of the sequence.                         *)
LEMMA StepBroadcast == BroadcastInv /\ [Broadcast!Next]_(Broadcast!vars) => BroadcastInv'
<1> SUFFICES ASSUME BroadcastInv, [Broadcast!Next]_(Broadcast!vars)
             PROVE  BroadcastInv'
    OBVIOUS
<1> USE DEF BroadcastInv, BroadcastExact
<1>1. ASSUME Broadcast!Submit
      PROVE  BroadcastInv'
  <2> USE <1>1 DEF Broadcast!Submit
  <2>1. BroadcastTypes'
        BY DEF BroadcastTypes
  <2>2. Broadcast!ContiguousPiece'
        BY DEF BroadcastTypes, Broadcast!ContiguousPiece
  <2>3. Broadcast!Lockstep'
        BY DEF Broadcast!Lockstep
  <2>4. Broadcast!CommitIsLast'
        BY DEF BroadcastTypes, Broadcast!CommitIsLast
  <2> QED BY <2>1, <2>2, <2>3, <2>4
<1>2. ASSUME NEW c \in Client, Broadcast!Join(c)
      PROVE  BroadcastInv'
  <2> USE <1>2 DEF Broadcast!Join
  <2>1. BroadcastTypes'
        BY DEF BroadcastTypes
  <2>2. Broadcast!ContiguousPiece'
        BY DEF BroadcastTypes, Broadcast!ContiguousPiece
  <2>3. Broadcast!Lockstep'
    <3> SUFFICES ASSUME NEW d \in Roster' \ gone'
                 PROVE  since'[d] + Len(delivered[d]) = frontier
        BY DEF Broadcast!Lockstep
    <3>1. CASE d = c
          BY <3>1 DEF BroadcastTypes
    <3>2. CASE d # c
          BY <3>2 DEF BroadcastTypes, Broadcast!Lockstep
    <3> QED BY <3>1, <3>2
  <2>4. Broadcast!CommitIsLast'
        BY DEF Broadcast!CommitIsLast
  <2> QED BY <2>1, <2>2, <2>3, <2>4
<1>3. ASSUME NEW c \in Client, Broadcast!Leave(c)
      PROVE  BroadcastInv'
      BY <1>3 DEF Broadcast!Leave, BroadcastTypes, Broadcast!ContiguousPiece,
                  Broadcast!Lockstep, Broadcast!CommitIsLast
<1>4. ASSUME Broadcast!Vanish
      PROVE  BroadcastInv'
      BY <1>4 DEF Broadcast!Vanish, BroadcastTypes, Broadcast!ContiguousPiece,
                  Broadcast!Lockstep, Broadcast!CommitIsLast
<1>5. ASSUME NEW c \in Client, Broadcast!Deliver(c)
      PROVE  BroadcastInv'
  <2> USE <1>5 DEF Broadcast!Deliver
  <2>1. BroadcastTypes'
        BY DEF BroadcastTypes
  <2>2. Broadcast!CommitIsLast'
        BY DEF Broadcast!CommitIsLast
  <2>3. CASE c \in gone
        BY <2>1, <2>2, <2>3 DEF BroadcastTypes, Broadcast!ContiguousPiece, Broadcast!Lockstep
  <2>4. CASE c \notin gone
    <3>1. since[c] + Len(delivered[c]) = frontier
          BY <2>4 DEF BroadcastTypes, Broadcast!Lockstep
    <3>2. /\ delivered' = [delivered EXCEPT ![c] = Append(@, order[frontier + 1])]
          /\ Len(delivered'[c]) = Len(delivered[c]) + 1
          /\ \A n \in 1..Len(delivered[c]) : delivered'[c][n] = delivered[c][n]
          /\ delivered'[c][Len(delivered[c]) + 1] = order[frontier + 1]
          BY <2>4 DEF BroadcastTypes
    <3>3. Broadcast!ContiguousPiece'
          BY <3>1, <3>2 DEF BroadcastTypes, Broadcast!ContiguousPiece
    <3>4. Broadcast!Lockstep'
          BY <3>1, <3>2 DEF BroadcastTypes, Broadcast!Lockstep
    <3> QED BY <2>1, <2>2, <3>3, <3>4
  <2> QED BY <2>3, <2>4
<1>6. ASSUME Broadcast!Advance
      PROVE  BroadcastInv'
      BY <1>6 DEF Broadcast!Advance, BroadcastTypes, Broadcast!ContiguousPiece,
                  Broadcast!Lockstep, Broadcast!CommitIsLast
<1>7. CASE UNCHANGED Broadcast!vars
      BY <1>7 DEF Broadcast!vars, BroadcastTypes, Broadcast!ContiguousPiece,
                  Broadcast!Lockstep, Broadcast!CommitIsLast
<1> QED BY <1>1, <1>2, <1>3, <1>4, <1>5, <1>6, <1>7 DEF Broadcast!Next

(* Whatever implements the broadcast: every client's messages are a        *)
(* contiguous piece of the one sequence from where it joined, the members  *)
(* that are still there move in lockstep, and the commit ends the sequence. *)
THEOREM BroadcastCorrect == Broadcast!Spec => []BroadcastExact
<1>1. BroadcastInv => BroadcastExact
      BY DEF BroadcastInv
<1> QED BY InitBroadcast, StepBroadcast, <1>1, PTL DEF Broadcast!Spec

(* So does the server, whatever its clients do and whichever faults happen *)
(* (149, 174): no client misses a broadcast between two that it gets, or   *)
(* gets one twice or out of order.                                         *)
THEOREM ServerIsABroadcast == Spec => []BroadcastExact
BY ImplementsOrderedBroadcast, BroadcastCorrect, PTL DEF RefinesOrderedBroadcast

-----------------------------------------------------------------------------
(* Lines of a byte sequence.                                               *)

LEMMA LineElements ==
  ASSUME NEW s \in Seq(Kind)
  PROVE  /\ \A a, b \in 1..Len(s) :
              <<a, b>> \in Lines(s) <=>
                /\ a <= b /\ s[b] = "nl" /\ (a = 1 \/ s[a - 1] = "nl")
                /\ \A k \in a..(b - 1) : s[k] # "nl"
         /\ \A l \in Lines(s) : /\ l = <<l[1], l[2]>>
                                /\ l[1] \in 1..Len(s) /\ l[2] \in 1..Len(s)
<1>1. \A l \in Lines(s) : /\ l = <<l[1], l[2]>>
                          /\ l[1] \in 1..Len(s) /\ l[2] \in 1..Len(s)
      BY DEF Lines
<1>2. ASSUME NEW a \in 1..Len(s), NEW b \in 1..Len(s)
      PROVE  <<a, b>> \in Lines(s) <=>
                /\ a <= b /\ s[b] = "nl" /\ (a = 1 \/ s[a - 1] = "nl")
                /\ \A k \in a..(b - 1) : s[k] # "nl"
  <2>1. <<a, b>> \in (1..Len(s)) \X (1..Len(s)) /\ <<a, b>>[1] = a /\ <<a, b>>[2] = b
        OBVIOUS
  <2> QED BY <2>1 DEF Lines
<1> QED BY <1>1, <1>2

LEMMA LinesFinite ==
  ASSUME NEW s \in Seq(Kind)
  PROVE  /\ IsFiniteSet(Lines(s)) /\ IsFiniteSet(RegularLines(s))
         /\ IsFiniteSet(EndLines(s))
<1>1. Len(s) \in Int /\ 1 \in Int
      OBVIOUS
<1>2. IsFiniteSet(1..Len(s))
      BY <1>1, FS_Interval
<1>3. IsFiniteSet((1..Len(s)) \X (1..Len(s)))
      BY <1>2, FS_Product
<1>4. Lines(s) \in SUBSET ((1..Len(s)) \X (1..Len(s)))
      BY DEF Lines
<1>5. RegularLines(s) \in SUBSET Lines(s) /\ EndLines(s) \in SUBSET Lines(s)
      BY DEF RegularLines, EndLines
<1>6. IsFiniteSet(Lines(s))
      BY <1>3, <1>4, FS_Subset
<1> QED BY <1>5, <1>6, FS_Subset

(* The prefix of a sequence.                                               *)
LEMMA Prefix ==
  ASSUME NEW S, NEW s \in Seq(S), NEW m \in 0..Len(s)
  PROVE  /\ SubSeq(s, 1, m) \in Seq(S) /\ Len(SubSeq(s, 1, m)) = m
         /\ \A k \in 1..m : SubSeq(s, 1, m)[k] = s[k]
<1>1. \A k \in 1..m : s[k] \in S
      BY ElementOfSeq
<1> QED BY <1>1, SubSeqProperties

(* A sequence cut behind a newline gains one line when it is cut behind the *)
(* next.                                                                   *)
LEMMA NextLine ==
  ASSUME NEW s \in Seq(Kind), NEW m \in 0..Len(s), m = 0 \/ s[m] = "nl",
         NEW n \in (m + 1)..Len(s), s[n] = "nl", \A k \in (m + 1)..(n - 1) : s[k] # "nl"
  PROVE  Lines(SubSeq(s, 1, n)) = Lines(SubSeq(s, 1, m)) \cup {<<m + 1, n>>}
<1> DEFINE p == SubSeq(s, 1, m)
           q == SubSeq(s, 1, n)
<1>1. n \in 0..Len(s) /\ m \in Nat /\ n \in Nat /\ m < n
      OBVIOUS
<1>2. p \in Seq(Kind) /\ Len(p) = m /\ \A k \in 1..m : p[k] = s[k]
      BY Prefix
<1>3. q \in Seq(Kind) /\ Len(q) = n /\ \A k \in 1..n : q[k] = s[k]
      BY <1>1, Prefix
<1> HIDE DEF p, q
<1>4. \A a, b \in 1..m : <<a, b>> \in Lines(p) <=> <<a, b>> \in Lines(q)
  <2> SUFFICES ASSUME NEW a \in 1..m, NEW b \in 1..m
               PROVE  <<a, b>> \in Lines(p) <=> <<a, b>> \in Lines(q)
      OBVIOUS
  <2>1. a \in 1..n /\ b \in 1..n /\ p[b] = q[b] /\ (a # 1 => p[a - 1] = q[a - 1])
        BY <1>1, <1>2, <1>3
  <2>2. \A k \in a..(b - 1) : p[k] = q[k]
        BY <1>1, <1>2, <1>3
  <2>3. /\ <<a, b>> \in Lines(p) <=>
                /\ a <= b /\ p[b] = "nl" /\ (a = 1 \/ p[a - 1] = "nl")
                /\ \A k \in a..(b - 1) : p[k] # "nl"
        /\ <<a, b>> \in Lines(q) <=>
                /\ a <= b /\ q[b] = "nl" /\ (a = 1 \/ q[a - 1] = "nl")
                /\ \A k \in a..(b - 1) : q[k] # "nl"
    <3>1. a \in 1..Len(p) /\ b \in 1..Len(p) /\ a \in 1..Len(q) /\ b \in 1..Len(q)
          BY <1>2, <1>3, <2>1
    <3>2. p \in Seq(Kind) /\ q \in Seq(Kind)
          BY <1>2, <1>3
    <3> QED BY <3>1, <3>2, LineElements
  <2> QED BY <2>1, <2>2, <2>3
<1>5. <<m + 1, n>> \in Lines(q)
  <2>1. m + 1 \in 1..n /\ n \in 1..n /\ q[n] = "nl" /\ (m + 1 = 1 \/ q[m + 1 - 1] = "nl")
        BY <1>1, <1>3
  <2>2. \A k \in (m + 1)..(n - 1) : q[k] # "nl"
        BY <1>1, <1>3
  <2>3. \A a, b \in 1..n :
          <<a, b>> \in Lines(q) <=>
            /\ a <= b /\ q[b] = "nl" /\ (a = 1 \/ q[a - 1] = "nl")
            /\ \A k \in a..(b - 1) : q[k] # "nl"
        BY <1>3, LineElements
  <2> QED BY <1>1, <2>1, <2>2, <2>3
<1>6. \A a, b \in 1..n : <<a, b>> \in Lines(q) => b <= m \/ (a = m + 1 /\ b = n)
  <2> SUFFICES ASSUME NEW a \in 1..n, NEW b \in 1..n, <<a, b>> \in Lines(q), b > m
               PROVE  a = m + 1 /\ b = n
      BY <1>1
  <2>1. /\ a <= b /\ q[b] = "nl" /\ (a = 1 \/ q[a - 1] = "nl")
        /\ \A k \in a..(b - 1) : q[k] # "nl"
        BY <1>3, LineElements
  <2>2. b = n
        BY <1>1, <1>3, <2>1
  <2>3. a > m
        BY <1>1, <1>3, <2>1, <2>2
  <2>4. ~(a > m + 1)
    <3> SUFFICES ASSUME a > m + 1
                 PROVE  FALSE
        OBVIOUS
    <3>1. a - 1 \in (m + 1)..(n - 1) /\ a - 1 \in 1..n /\ a # 1
          BY <1>1
    <3> QED BY <1>3, <2>1, <3>1
  <2> QED BY <1>1, <2>2, <2>3, <2>4
<1>7. \A l \in Lines(q) : l \in Lines(p) \cup {<<m + 1, n>>}
  <2> SUFFICES ASSUME NEW l \in Lines(q)
               PROVE  l \in Lines(p) \cup {<<m + 1, n>>}
      OBVIOUS
  <2>1. PICK a \in 1..n, b \in 1..n : l = <<a, b>> /\ a <= b
        BY <1>3, LineElements
  <2>2. CASE b <= m
        BY <1>1, <1>4, <2>1, <2>2
  <2>3. CASE a = m + 1 /\ b = n
        BY <2>1, <2>3
  <2> QED BY <1>6, <2>1, <2>2, <2>3
<1>8. \A l \in Lines(p) : l \in Lines(q)
      BY <1>2, <1>4, LineElements
<1> QED BY <1>5, <1>7, <1>8 DEF p, q

(* Which of the two kinds of line the new one is, its text tells.          *)
LEMMA NextLineKinds ==
  ASSUME NEW s \in Seq(Kind), NEW m \in 0..Len(s), m = 0 \/ s[m] = "nl",
         NEW n \in (m + 1)..Len(s), s[n] = "nl", \A k \in (m + 1)..(n - 1) : s[k] # "nl"
  PROVE  /\ RegularLines(SubSeq(s, 1, n)) =
              RegularLines(SubSeq(s, 1, m)) \cup
                (IF s[m + 1] = "reg" /\ n - m + Header <= MaxMsg THEN {<<m + 1, n>>} ELSE {})
         /\ EndLines(SubSeq(s, 1, n)) =
              EndLines(SubSeq(s, 1, m)) \cup
                (IF s[m + 1] = "end" /\ n = m + 2 THEN {<<m + 1, n>>} ELSE {})
<1> DEFINE p == SubSeq(s, 1, m)
           q == SubSeq(s, 1, n)
<1>1. n \in 0..Len(s) /\ m \in Nat /\ n \in Nat /\ m < n /\ Header \in Nat
      BY ConstantsAssumption
<1>2. p \in Seq(Kind) /\ Len(p) = m /\ \A k \in 1..m : p[k] = s[k]
      BY Prefix
<1>3. q \in Seq(Kind) /\ Len(q) = n /\ \A k \in 1..n : q[k] = s[k]
      BY <1>1, Prefix
<1>4. Lines(q) = Lines(p) \cup {<<m + 1, n>>}
      BY NextLine
<1>5. \A l \in Lines(p) : l[1] \in 1..m /\ l[2] \in 1..m /\ p[l[1]] = q[l[1]]
  <2>1. \A l \in Lines(p) : l[1] \in 1..m /\ l[2] \in 1..m
        BY <1>2, LineElements
  <2>2. \A k \in 1..m : p[k] = q[k]
        BY <1>1, <1>2, <1>3
  <2> QED BY <2>1, <2>2
<1>6. /\ <<m + 1, n>>[1] = m + 1 /\ <<m + 1, n>>[2] = n /\ q[m + 1] = s[m + 1]
      /\ n - (m + 1) + 1 = n - m
      BY <1>1, <1>3
<1> HIDE DEF p, q
<1>7. RegularLines(q) = RegularLines(p) \cup
        (IF s[m + 1] = "reg" /\ n - m + Header <= MaxMsg THEN {<<m + 1, n>>} ELSE {})
      BY <1>4, <1>5, <1>6 DEF RegularLines
<1>8. EndLines(q) = EndLines(p) \cup
        (IF s[m + 1] = "end" /\ n = m + 2 THEN {<<m + 1, n>>} ELSE {})
  <2>1. n = m + 1 + 1 <=> n = m + 2
        BY <1>1
  <2> QED BY <1>4, <1>5, <1>6, <2>1 DEF EndLines
<1> QED BY <1>7, <1>8 DEF p, q
-----------------------------------------------------------------------------
(* The invariant, by what each part is needed for.                         *)

(* How much of its client's bytes main has taken from a slot's buffer.     *)
Offset(i) == consumed[clients[i]] - Len(buf[i])

(* A slot's buffer has the bytes read last, from behind a newline on.      *)
SlotInv(i) ==
  /\ Len(buf[i]) <= consumed[clients[i]]
  /\ Offset(i) = 0 \/ sent[clients[i]][Offset(i)] = "nl"
  /\ \A k \in 1..Len(buf[i]) :
       buf[i][k].kind = sent[clients[i]][Offset(i) + k] /\ buf[i][k].by = clients[i]

(* The buffers stay with their clients until main removes one, and a client *)
(* it removes has been read or has gone.                                   *)
RemovedInv ==
  /\ \A c \in Client : conn[c] \in {"none", "backlog"} => consumed[c] = 0
  /\ \A c \in ready : consumed[c] > 0 \/ arrived[c] > consumed[c] \/ peer[c] # "up"
  /\ NobodyRemoved /\ pcM = "remove" =>
       consumed[clients[slot]] > 0 \/ peer[clients[slot]] # "up"

SlotsInv == NobodyRemoved => \A i \in 1..Len(clients) : SlotInv(i)

(* The Type 1 line that completes the count stays in its buffer until the  *)
(* commit has been enqueued.                                               *)
Stopping == pcM \in {"commit", "stop", "wake"}

LastInv ==
  /\ Stopping => EndsExecution(buf[slot])
  /\ Stopping \/ (\E n \in 1..Len(order) : order[n] = Commit) => finished = Expected

EndedInv ==
  NobodyRemoved =>
    IsFiniteSet(Ended) /\ finished = Cardinality(Ended) + (IF Stopping THEN 1 ELSE 0)

LinesInv == RemovedInv /\ SlotsInv /\ LastInv /\ EndedInv

(* What is posted, when enqueue_message and getpeername do not fail.       *)
Posts ==
  /\ \A i \in 1..Len(clients), c \in Client, p \in Seq(Kind) :
       c = clients[i] /\ p = Processed(i) => PostedInOrder(c, p)
  /\ \A c \in Client \ Roster : Posted(c) = {}

PostedInv == (\A c \in Client : peer[c] # "reset") /\ (NobodyRemoved => Posts)

-----------------------------------------------------------------------------
(* Frames.                                                                 *)

(* Nothing that has happened to a connection is undone.                    *)
LEMMA Onward ==
  ASSUME TypeOK, IndexInv, [Next]_vars
  PROVE  /\ proc' = "up" => proc = "up"
         /\ \A c \in Client : /\ conn[c] = "shut" => conn'[c] = "shut"
                              /\ consumed[c] <= consumed'[c]
                              /\ peer'[c] = "up" => peer[c] = "up"
<1> USE DEF mainVars, workerVars, queueVars, sockIn, socketVars, mainAndBuf
<1> DEFINE Goal == /\ proc' = "up" => proc = "up"
                   /\ \A c \in Client : /\ conn[c] = "shut" => conn'[c] = "shut"
                                        /\ consumed[c] <= consumed'[c]
                                        /\ peer'[c] = "up" => peer[c] = "up"
<1>0. /\ conn \in [Client -> {"none", "backlog", "open", "shut"}]
      /\ consumed \in [Client -> Nat] /\ peer \in [Client -> {"up", "closed", "reset"}]
      BY DEF TypeOK, SocketTypes
<1>1. CASE UNCHANGED <<proc, conn, peer, consumed>>
      BY <1>0, <1>1
<1>2. ASSUME NEW c \in Client, Accept(c) \/ Reject(c)
      PROVE  Goal
      BY <1>0, <1>2 DEF Accept, Reject, Pending
<1>3. CASE ReadData
  <2>1. PICK c \in Client : c = clients[slot]
        BY <1>3, RosterTypes DEF ReadData, TypeOK, SharedTypes, MainTypes
  <2>2. PICK n : n = Available(c)
        OBVIOUS
  <2>3. n \in Nat
    <3>1. arrived[c] \in Nat /\ consumed[c] \in Nat /\ consumed[c] <= arrived[c]
          BY <2>1 DEF TypeOK, SocketTypes
    <3>2. slot \in 1..MaxClients /\ MaxMsg \in Nat
          BY <1>3, ConstantsAssumption DEF ReadData, TypeOK, SharedTypes, MainTypes
    <3>3. Len(buf[slot]) \in Nat /\ Len(buf[slot]) <= MaxMsg
          BY <3>2, LenProperties DEF TypeOK, BufferTypes
    <3> QED BY <2>2, <3>1, <3>2, <3>3 DEF Available
  <2>4. consumed' = [consumed EXCEPT ![c] = @ + n] /\ UNCHANGED <<proc, conn, peer>>
        BY <1>3, <2>1, <2>2 DEF ReadData
  <2> QED BY <1>0, <2>3, <2>4
<1>4. CASE remove_client \/ CloseAndExit \/ WriteKills
      BY <1>0, <1>4 DEF remove_client, CloseAndExit, WriteKills
<1>5. CASE Environment
      BY <1>0, <1>5 DEF Environment, Connect, ClientWrite, Arrive, ClientClose, ClientReset,
                        serverVars
<1> QED BY <1>1, <1>2, <1>3, <1>4, <1>5
        DEF Next, Main, Worker, WorkerStep, WakeUp, SpuriousWake, Awake, Exited, vars,
            LoopTest, Select, SelectFails, AcceptFails, LockClients, NextSlot, LastSlot,
            ReadEnds, Relock, NoLine, Regular, enqueue_message, Finish, Discard,
            EnqueueCommit, StopRunning, WakeWorker, JoinWorker, WorkerTest, LockQueue,
            TestQueue, Dequeue, CondWait, LockList, Write, EndBroadcast

(* Nobody has been removed after a step only if nobody had been before it, *)
(* and the step removes nobody.                                            *)
LEMMA RemovedForGood ==
  ASSUME TypeOK, IndexInv, RemovedInv, [Next]_vars, NobodyRemoved'
  PROVE  NobodyRemoved /\ ~remove_client
<1>1. consumed \in [Client -> Nat]
      BY DEF TypeOK, SocketTypes
<1>2. /\ proc = "up"
      /\ \A c \in Client : conn[c] = "shut" => consumed'[c] = 0 /\ peer'[c] = "up"
      BY Onward DEF NobodyRemoved
<1>3. \A c \in Client : /\ consumed'[c] = 0 => consumed[c] = 0
                        /\ peer'[c] = "up" => peer[c] = "up"
  <2>1. \A c \in Client : consumed[c] <= consumed'[c] /\ (peer'[c] = "up" => peer[c] = "up")
        BY Onward
  <2> QED BY <1>1, <2>1
<1>4. NobodyRemoved
      BY <1>2, <1>3 DEF NobodyRemoved
<1>5. ASSUME remove_client
      PROVE  FALSE
  <2>1. PICK c \in Client : c = clients[slot]
        BY <1>5, RosterTypes DEF remove_client, TypeOK, SharedTypes, MainTypes, IndexInv
  <2>2. conn'[c] = "shut" /\ UNCHANGED <<peer, consumed>>
        BY <1>5, <2>1 DEF remove_client, TypeOK, SocketTypes, sockIn
  <2>3. consumed[c] > 0 \/ peer[c] # "up"
        BY <1>4, <1>5, <2>1 DEF RemovedInv, remove_client
  <2> QED BY <1>1, <2>2, <2>3 DEF NobodyRemoved
<1> QED BY <1>4, <1>5

(* The steps that leave the lines alone.                                   *)
Quiet == /\ UNCHANGED <<clients, buf, sent, consumed, order, finished>>
         /\ Stopping' = Stopping /\ (Stopping => slot' = slot)

LEMMA Steps ==
  ASSUME [Next]_vars
  PROVE  \/ Quiet
         \/ /\ proc = "up"
            /\ \/ \E c \in Client : Accept(c)
               \/ ReadData \/ remove_client \/ Regular \/ Finish \/ Discard
               \/ EnqueueCommit \/ WakeWorker
         \/ \E c \in Client, bytes \in Input : ClientWrite(c, bytes)
<1> USE DEF mainVars, workerVars, queueVars, sockIn, socketVars, mainAndBuf, Quiet, Stopping
<1>1. CASE \/ LoopTest \/ Select \/ SelectFails \/ (\E c \in Client : Reject(c))
           \/ AcceptFails \/ LockClients \/ NextSlot
      BY <1>1 DEF LoopTest, Select, SelectFails, Reject, AcceptFails, LockClients, NextSlot
<1>2. CASE \/ LastSlot \/ ReadEnds \/ Relock \/ NoLine \/ StopRunning
           \/ JoinWorker \/ CloseAndExit
      BY <1>2 DEF LastSlot, NextIteration, ReadEnds, Relock, NoLine, StopRunning,
                  JoinWorker, CloseAndExit
<1>3. CASE WorkerStep \/ SpuriousWake
      BY <1>3 DEF WorkerStep, WakeUp, SpuriousWake, Awake, WorkerTest, LockQueue, TestQueue,
                  Dequeue, CondWait, LockList, Write, WriteKills, EndBroadcast
<1>4. CASE Environment
      BY <1>4 DEF Environment, Connect, Arrive, ClientClose, ClientReset, serverVars
<1>5. CASE UNCHANGED vars
      BY <1>5 DEF vars
<1> QED BY <1>1, <1>2, <1>3, <1>4, <1>5 DEF Next, Main, Worker, Exited

-----------------------------------------------------------------------------
(* Whom main removes.                                                      *)

(* What read() takes.                                                      *)
LEMMA AvailableBytes ==
  ASSUME TypeOK, pcM = "data", slot <= Len(clients)
  PROVE  /\ slot \in 1..Len(clients) /\ slot \in 1..MaxClients /\ clients[slot] \in Client
         /\ Available(clients[slot]) \in Nat
         /\ Available(clients[slot]) <= arrived[clients[slot]] - consumed[clients[slot]]
         /\ Available(clients[slot]) = 0 /\ Len(buf[slot]) = 0
              => arrived[clients[slot]] = consumed[clients[slot]]
<1>1. slot \in 1..Len(clients) /\ slot \in 1..MaxClients /\ clients[slot] \in Client
      BY ConstantsAssumption DEF TypeOK, SharedTypes, MainTypes
<1>2. PICK c \in Client : c = clients[slot]
      BY <1>1
<1>3. arrived[c] \in Nat /\ consumed[c] \in Nat /\ consumed[c] <= arrived[c]
      BY DEF TypeOK, SocketTypes
<1>4. Len(buf[slot]) \in Nat /\ Len(buf[slot]) <= MaxMsg /\ MaxMsg \in Nat \ {0}
      BY <1>1, LenProperties, ConstantsAssumption DEF TypeOK, BufferTypes
<1> QED BY <1>1, <1>2, <1>3, <1>4 DEF Available

LEMMA UnacceptedStep ==
  ASSUME TypeOK, IndexInv, RosterExact, RemovedInv, [Next]_vars
  PROVE  \A c \in Client : conn'[c] \in {"none", "backlog"} => consumed'[c] = 0
<1> USE DEF mainVars, workerVars, queueVars, sockIn, socketVars, mainAndBuf
<1> DEFINE Goal == \A c \in Client : conn'[c] \in {"none", "backlog"} => consumed'[c] = 0
<1>0. /\ \A c \in Client : conn[c] \in {"none", "backlog"} => consumed[c] = 0
      /\ conn \in [Client -> {"none", "backlog", "open", "shut"}]
      /\ consumed \in [Client -> Nat]
      BY DEF RemovedInv, TypeOK, SocketTypes
<1>1. CASE UNCHANGED <<conn, consumed>>
      BY <1>0, <1>1
<1>2. ASSUME NEW c \in Client, Accept(c) \/ Reject(c)
      PROVE  Goal
      BY <1>0, <1>2 DEF Accept, Reject
<1>3. CASE ReadData /\ proc = "up"
  <2>1. PICK c \in Client : c = clients[slot] /\ conn[c] = "open"
        BY <1>3, AvailableBytes DEF ReadData, RosterExact, Roster
  <2>2. conn' = conn /\ \A d \in Client : d # c => consumed'[d] = consumed[d]
        BY <1>0, <1>3, <2>1 DEF ReadData
  <2> QED BY <1>0, <2>1, <2>2
<1>4. CASE remove_client \/ CloseAndExit
      BY <1>0, <1>4 DEF remove_client, CloseAndExit
<1>5. CASE Environment
      BY <1>0, <1>5 DEF Environment, Connect, ClientWrite, Arrive, ClientClose, ClientReset,
                        serverVars
<1> QED BY <1>1, <1>2, <1>3, <1>4, <1>5
        DEF Next, Main, Worker, WorkerStep, WakeUp, SpuriousWake, Awake, Exited, vars,
            LoopTest, Select, SelectFails, AcceptFails, LockClients, NextSlot, LastSlot,
            ReadEnds, Relock, NoLine, Regular, enqueue_message, Finish, Discard,
            EnqueueCommit, StopRunning, WakeWorker, JoinWorker, WorkerTest, LockQueue,
            TestQueue, Dequeue, CondWait, LockList, Write, WriteKills, EndBroadcast

LEMMA ReadyStep ==
  ASSUME TypeOK, IndexInv, RemovedInv, [Next]_vars
  PROVE  \A c \in ready' : consumed'[c] > 0 \/ arrived'[c] > consumed'[c] \/ peer'[c] # "up"
<1> USE DEF mainVars, workerVars, queueVars, sockIn, socketVars, mainAndBuf
<1> DEFINE Goal == \A c \in ready' :
                     consumed'[c] > 0 \/ arrived'[c] > consumed'[c] \/ peer'[c] # "up"
<1>0. /\ \A c \in ready : consumed[c] > 0 \/ arrived[c] > consumed[c] \/ peer[c] # "up"
      /\ ready \subseteq Client
      /\ consumed \in [Client -> Nat] /\ arrived \in [Client -> Nat]
      /\ peer \in [Client -> {"up", "closed", "reset"}]
      BY DEF RemovedInv, TypeOK, SocketTypes, MainTypes
<1>1. CASE UNCHANGED <<ready, consumed, arrived, peer>>
      BY <1>0, <1>1
<1>2. CASE Select
      BY <1>0, <1>2 DEF Select, Readable
<1>3. CASE ready' = {}
      BY <1>3
<1>4. CASE ReadData
  <2>1. slot <= Len(clients) /\ pcM = "data"
        BY <1>4 DEF ReadData
  <2>2. PICK c \in Client : c = clients[slot] /\ Available(c) \in Nat
        BY <2>1, AvailableBytes
  <2>3. PICK n \in Nat : n = Available(c)
        BY <2>2
  <2>4. n > 0 /\ consumed' = [consumed EXCEPT ![c] = @ + n] /\ UNCHANGED <<ready, arrived, peer>>
        BY <1>4, <2>2, <2>3 DEF ReadData
  <2>5. consumed'[c] > 0 /\ \A d \in Client : d # c => consumed'[d] = consumed[d]
        BY <1>0, <2>4
  <2> QED BY <1>0, <2>4, <2>5
<1>5. ASSUME NEW c \in Client, Arrive(c)
      PROVE  Goal
  <2>1. PICK n \in (arrived[c] + 1)..Len(sent[c]) : arrived' = [arrived EXCEPT ![c] = n]
        BY <1>5 DEF Arrive
  <2>2. arrived[c] \in Nat /\ Len(sent[c]) \in Nat
        BY <1>0, LenProperties DEF TypeOK, SocketTypes
  <2>3. \A d \in Client : arrived'[d] \in Nat /\ arrived[d] \in Nat /\ arrived'[d] >= arrived[d]
        BY <1>0, <2>1, <2>2
  <2>4. UNCHANGED <<ready, consumed, peer>>
        BY <1>5 DEF Arrive, serverVars
  <2> QED BY <1>0, <2>3, <2>4
<1>6. CASE Environment
  <2>1. ASSUME NEW c \in Client, Connect(c) \/ ClientClose(c)
        PROVE  Goal
        BY <1>0, <2>1 DEF Connect, ClientClose, serverVars
  <2>2. ASSUME NEW c \in Client, ClientReset(c)
        PROVE  Goal
    <3>1. /\ UNCHANGED <<ready, consumed>> /\ peer' = [peer EXCEPT ![c] = "reset"]
          /\ \A d \in Client : d # c => arrived'[d] = arrived[d]
          BY <1>0, <2>2 DEF ClientReset, serverVars
    <3> QED BY <1>0, <3>1
  <2>3. ASSUME NEW c \in Client, NEW bytes, ClientWrite(c, bytes)
        PROVE  Goal
        BY <1>1, <2>3 DEF ClientWrite, serverVars
  <2> QED BY <1>5, <1>6, <2>1, <2>2, <2>3 DEF Environment
<1> QED BY <1>1, <1>2, <1>3, <1>4, <1>6
        DEF Next, Main, Worker, WorkerStep, WakeUp, SpuriousWake, Awake, Exited, vars,
            LoopTest, SelectFails, Accept, Reject, AcceptFails, LockClients, NextSlot,
            LastSlot, NextIteration, ReadEnds, remove_client, Relock, NoLine, Regular,
            enqueue_message, Finish, Discard, EnqueueCommit, StopRunning, WakeWorker,
            JoinWorker, CloseAndExit, WorkerTest, LockQueue, TestQueue, Dequeue, CondWait,
            LockList, Write, WriteKills, EndBroadcast

(* main removes a client that it has read or that has gone.                *)
LEMMA RemoveStep ==
  ASSUME TypeOK, IndexInv, RemovedInv, SlotsInv, [Next]_vars, NobodyRemoved', pcM' = "remove"
  PROVE  \E c \in Client : /\ clients'[slot'] = c
                           /\ consumed'[c] > 0 \/ peer'[c] # "up"
<1> USE DEF mainVars, workerVars, queueVars, sockIn, socketVars, mainAndBuf
<1>0. NobodyRemoved /\ ~remove_client
      BY RemovedForGood
<1>1. CASE ReadEnds
  <2>1. pcM = "data" /\ slot <= Len(clients)
        BY <1>1 DEF ReadEnds
  <2>2. PICK c \in Client : c = clients[slot]
        BY <2>1, AvailableBytes
  <2>3. Available(c) = 0 /\ c \in ready /\ UNCHANGED <<clients, slot, consumed, peer>>
        BY <1>1, <2>2 DEF ReadEnds
  <2>4. arrived[c] > consumed[c] \/ consumed[c] > 0 \/ peer[c] # "up"
        BY <2>3 DEF RemovedInv
  <2>5. Len(buf[slot]) <= consumed[c] /\ Len(buf[slot]) \in Nat /\ consumed[c] \in Nat
        BY <1>0, <2>1, <2>2, AvailableBytes, LenProperties
        DEF SlotsInv, SlotInv, TypeOK, SocketTypes, BufferTypes
  <2>6. Len(buf[slot]) = 0 => arrived[c] = consumed[c]
        BY <2>1, <2>2, <2>3, AvailableBytes
  <2>7. consumed[c] > 0 \/ peer[c] # "up"
        BY <2>4, <2>5, <2>6
  <2> QED BY <2>2, <2>3, <2>7
<1>2. CASE pcM = "remove"
  <2>1. PICK c \in Client : c = clients[slot] /\ (consumed[c] > 0 \/ peer[c] # "up")
        BY <1>0, <1>2, RosterTypes DEF IndexInv, TypeOK, SharedTypes, MainTypes, RemovedInv
  <2>2. UNCHANGED <<clients, slot>>
        BY <1>0, <1>2
        DEF Next, Main, Worker, WorkerStep, WakeUp, SpuriousWake, Awake, Exited, vars,
            LoopTest, Select, SelectFails, Accept, Reject, AcceptFails, LockClients,
            NextSlot, LastSlot, ReadData, ReadEnds, Relock, NoLine, Regular, Finish, Discard,
            EnqueueCommit, StopRunning, WakeWorker, JoinWorker, CloseAndExit, WorkerTest,
            LockQueue, TestQueue, Dequeue, CondWait, LockList, Write, WriteKills,
            EndBroadcast, Environment, Connect, ClientWrite, Arrive, ClientClose,
            ClientReset, serverVars
  <2>3. consumed[c] <= consumed'[c] /\ (peer'[c] = "up" => peer[c] = "up")
        BY Onward
  <2>4. consumed[c] \in Nat /\ consumed'[c] \in Nat
        BY TypesStep DEF TypeOK, SocketTypes
  <2> QED BY <2>1, <2>2, <2>3, <2>4
<1>3. pcM = "remove" \/ ReadEnds
      BY <1>0
      DEF Next, Main, Worker, WorkerStep, WakeUp, SpuriousWake, Awake, Exited, vars,
          LoopTest, Select, SelectFails, Accept, Reject, AcceptFails, LockClients,
          NextSlot, LastSlot, NextIteration, ReadData, Relock, NoLine, Regular, Finish,
          Discard, EnqueueCommit, StopRunning, WakeWorker, JoinWorker, CloseAndExit,
          WorkerTest, LockQueue, TestQueue, Dequeue, CondWait, LockList, Write, WriteKills,
          EndBroadcast, Environment, Connect, ClientWrite, Arrive, ClientClose,
          ClientReset, serverVars
<1> QED BY <1>1, <1>2, <1>3

LEMMA RemovedStep ==
  ASSUME TypeOK, IndexInv, RosterExact, RemovedInv, SlotsInv, [Next]_vars
  PROVE  RemovedInv'
BY UnacceptedStep, ReadyStep, RemoveStep DEF RemovedInv

-----------------------------------------------------------------------------
(* The slots.                                                              *)

LEMMA SlotTypes ==
  ASSUME TypeOK, NEW i \in 1..Len(clients)
  PROVE  /\ i \in 1..MaxClients /\ clients[i] \in Client
         /\ buf[i] \in Seq(Byte) /\ Len(buf[i]) \in Nat
         /\ sent[clients[i]] \in Seq(Kind)
         /\ consumed[clients[i]] \in Nat /\ consumed[clients[i]] <= Len(sent[clients[i]])
<1>1. i \in 1..MaxClients /\ clients[i] \in Client
      BY ConstantsAssumption DEF TypeOK, SharedTypes
<1>2. buf[i] \in Seq(Byte) /\ Len(buf[i]) \in Nat
      BY <1>1, LenProperties DEF TypeOK, BufferTypes
<1>3. PICK c \in Client : c = clients[i]
      BY <1>1
<1>4. /\ sent[c] \in Seq(Kind) /\ consumed[c] \in Nat /\ arrived[c] \in Nat
      /\ consumed[c] <= arrived[c] /\ arrived[c] <= Len(sent[c])
      BY DEF TypeOK, SocketTypes
<1>5. consumed[c] <= Len(sent[c])
      BY <1>4, LenProperties
<1> QED BY <1>1, <1>2, <1>3, <1>4, <1>5

LEMMA OffsetTypes ==
  ASSUME TypeOK, NEW i \in 1..Len(clients), SlotInv(i)
  PROVE  /\ Offset(i) \in 0..Len(sent[clients[i]])
         /\ Processed(i) = SubSeq(sent[clients[i]], 1, Offset(i))
         /\ Processed(i) \in Seq(Kind) /\ Len(Processed(i)) = Offset(i)
<1>1. Offset(i) \in 0..Len(sent[clients[i]]) /\ sent[clients[i]] \in Seq(Kind)
      BY SlotTypes, LenProperties DEF SlotInv, Offset
<1>2. Processed(i) = SubSeq(sent[clients[i]], 1, Offset(i))
      BY DEF Processed, Offset
<1> QED BY <1>1, <1>2, Prefix

LEMMA PrefixEqual ==
  ASSUME NEW S, NEW s \in Seq(S), NEW t \in Seq(S), NEW m \in 0..Len(s), m <= Len(t),
         \A k \in 1..m : t[k] = s[k]
  PROVE  SubSeq(t, 1, m) = SubSeq(s, 1, m)
<1>1. /\ SubSeq(s, 1, m) \in Seq(S) /\ Len(SubSeq(s, 1, m)) = m
      /\ \A k \in 1..m : SubSeq(s, 1, m)[k] = s[k]
      BY Prefix
<1>2. m \in 0..Len(t)
      BY LenProperties
<1>3. /\ SubSeq(t, 1, m) \in Seq(S) /\ Len(SubSeq(t, 1, m)) = m
      /\ \A k \in 1..m : SubSeq(t, 1, m)[k] = t[k]
      BY <1>2, Prefix
<1>4. \A k \in 1..m : SubSeq(t, 1, m)[k] = SubSeq(s, 1, m)[k]
      BY <1>1, <1>3
<1> QED BY <1>1, <1>3, <1>4, SeqEqual

(* A slot whose buffer is left alone, while its client at most writes.     *)
LEMMA SlotKept ==
  ASSUME TypeOK, NEW i \in 1..Len(clients), SlotInv(i), NEW c \in Client, c = clients[i],
         clients'[i] = c, buf'[i] = buf[i], consumed'[c] = consumed[c],
         sent'[c] \in Seq(Kind), Len(sent[c]) <= Len(sent'[c]),
         \A k \in 1..Len(sent[c]) : sent'[c][k] = sent[c][k]
  PROVE  SlotInv(i)' /\ Processed(i)' = Processed(i)
<1>1. PICK m : m = Offset(i)
      OBVIOUS
<1>2. m \in 0..Len(sent[c]) /\ Processed(i) = SubSeq(sent[c], 1, m)
      BY <1>1, OffsetTypes
<1>3. sent[c] \in Seq(Kind) /\ Len(buf[i]) \in Nat /\ consumed[c] \in Nat
      /\ consumed[c] <= Len(sent[c]) /\ Len(sent[c]) \in Nat
      BY SlotTypes, LenProperties
<1>4. m = consumed[c] - Len(buf[i]) /\ Offset(i)' = m
      BY <1>1 DEF Offset
<1>5. Processed(i)' = SubSeq(sent'[c], 1, m)
      BY <1>4 DEF Processed, Offset
<1>6. m <= Len(sent'[c]) /\ \A k \in 1..m : sent'[c][k] = sent[c][k]
      BY <1>2, <1>3, LenProperties
<1>7. Processed(i)' = Processed(i)
      BY <1>2, <1>3, <1>5, <1>6, PrefixEqual
<1>8. m = 0 \/ sent'[c][m] = "nl"
  <2>1. m = 0 \/ sent[c][m] = "nl"
        BY <1>1 DEF SlotInv
  <2> QED BY <1>2, <1>3, <1>6, <2>1
<1>9. \A k \in 1..Len(buf[i]) : buf[i][k].kind = sent'[c][m + k] /\ buf[i][k].by = c
  <2>1. \A k \in 1..Len(buf[i]) : buf[i][k].kind = sent[c][m + k] /\ buf[i][k].by = c
        BY <1>1 DEF SlotInv
  <2>2. \A k \in 1..Len(buf[i]) : m + k \in 1..Len(sent[c])
    <3> TAKE k \in 1..Len(buf[i])
    <3>1. k \in Nat /\ 1 <= k /\ k <= Len(buf[i]) /\ m \in Nat
          BY <1>2, <1>3
    <3>2. m + k \in Nat /\ 1 <= m + k /\ m + k <= consumed[c]
          BY <1>3, <1>4, <3>1
    <3> QED BY <1>3, <3>2
  <2> QED BY <2>1, <2>2
<1>10. Len(buf[i]) <= consumed[c]
      BY DEF SlotInv
<1> QED BY <1>4, <1>7, <1>8, <1>9, <1>10 DEF SlotInv

(* A slot's buffer after a read() of n bytes.                              *)
LEMMA SlotRead ==
  ASSUME TypeOK, NEW i \in 1..Len(clients), SlotInv(i), NEW c \in Client, c = clients[i],
         NEW n \in Nat, consumed[c] + n <= Len(sent[c]), UNCHANGED <<clients, sent>>,
         buf'[i] = buf[i] \o [k \in 1..n |-> [kind |-> sent[c][consumed[c] + k], by |-> c]],
         consumed'[c] = consumed[c] + n
  PROVE  SlotInv(i)' /\ Processed(i)' = Processed(i)
<1> DEFINE t == [k \in 1..n |-> [kind |-> sent[c][consumed[c] + k], by |-> c]]
<1>1. PICK m : m = Offset(i)
      OBVIOUS
<1>2. m \in 0..Len(sent[c]) /\ m = consumed[c] - Len(buf[i])
      BY <1>1, OffsetTypes DEF Offset
<1>3. sent[c] \in Seq(Kind) /\ buf[i] \in Seq(Byte) /\ Len(buf[i]) \in Nat
      /\ consumed[c] \in Nat /\ Len(sent[c]) \in Nat
      BY SlotTypes, LenProperties
<1>4. t \in Seq(Byte) /\ Len(t) = n
  <2>1. \A k \in 1..n : sent[c][consumed[c] + k] \in Kind
        BY <1>3, ElementOfSeq
  <2> QED BY <2>1 DEF Byte
<1>5. \A k \in 1..n : t[k].kind = sent[c][consumed[c] + k] /\ t[k].by = c
      OBVIOUS
<1> HIDE DEF t
<1>6. /\ Len(buf'[i]) = Len(buf[i]) + n
      /\ \A k \in 1..(Len(buf[i]) + n) :
           buf'[i][k] = IF k <= Len(buf[i]) THEN buf[i][k] ELSE t[k - Len(buf[i])]
  <2>1. buf'[i] = buf[i] \o t
        BY DEF t
  <2>2. /\ Len(buf[i] \o t) = Len(buf[i]) + Len(t)
        /\ \A k \in 1..(Len(buf[i]) + Len(t)) :
             (buf[i] \o t)[k] = IF k <= Len(buf[i]) THEN buf[i][k] ELSE t[k - Len(buf[i])]
    <3>1. buf[i] \in Seq(Byte) /\ t \in Seq(Byte)
          BY <1>3, <1>4
    <3> QED BY ONLY <3>1, ConcatProperties
  <2> QED BY <1>4, <2>1, <2>2
<1>7. Offset(i)' = m
      BY <1>2, <1>3, <1>6 DEF Offset
<1>8. Processed(i)' = Processed(i)
  <2>1. consumed'[c] - Len(buf'[i]) = consumed[c] - Len(buf[i])
        BY <1>3, <1>6
  <2> QED BY <2>1 DEF Processed
<1>9. m = 0 \/ sent[c][m] = "nl"
      BY <1>1 DEF SlotInv
<1>10. \A k \in 1..Len(buf'[i]) : buf'[i][k].kind = sent[c][m + k] /\ buf'[i][k].by = c
  <2> SUFFICES ASSUME NEW k \in 1..Len(buf'[i])
               PROVE  buf'[i][k].kind = sent[c][m + k] /\ buf'[i][k].by = c
      OBVIOUS
  <2>3. k \in 1..(Len(buf[i]) + n)
        BY <1>6
  <2>1. CASE k <= Len(buf[i])
    <3>1. k \in 1..Len(buf[i]) /\ buf'[i][k] = buf[i][k]
          BY <1>3, <1>6, <2>1
    <3> QED BY <1>1, <3>1 DEF SlotInv
  <2>2. CASE k > Len(buf[i])
    <3>1. PICK L \in Nat : L = Len(buf[i])
          BY <1>3
    <3>2. k - L \in 1..n /\ k \in Nat
          BY <2>2, <2>3, <3>1
    <3>3. PICK j \in 1..n : j = k - L
          BY <3>2
    <3>4. buf'[i][k] = t[j]
      <4>1. ~(k <= L)
            BY <2>2, <3>1, <3>2
      <4> QED BY <1>6, <2>3, <3>1, <3>3, <4>1
    <3>5. consumed[c] + j = m + k
      <4>1. m = consumed[c] - L /\ consumed[c] \in Nat
            BY <1>2, <1>3, <3>1
      <4>2. L \in Nat /\ k \in Nat /\ j = k - L
            BY <3>2, <3>3
      <4> QED BY ONLY <4>1, <4>2
    <3> QED BY <1>5, <3>4, <3>5
  <2> QED BY <1>3, <2>1, <2>2, <2>3
<1>11. Len(buf'[i]) <= consumed[c] + n
      BY <1>3, <1>6 DEF SlotInv
<1> QED BY <1>7, <1>8, <1>9, <1>10, <1>11 DEF SlotInv

(* The first line in a slot's buffer is the next line of its client.       *)
LEMMA FirstLine ==
  ASSUME TypeOK, NEW i \in 1..Len(clients), SlotInv(i), HasLine(buf[i]),
         NEW c \in Client, c = clients[i], NEW m, m = Offset(i),
         NEW n, n = m + LineLen(buf[i])
  PROVE  /\ m \in 0..Len(sent[c]) /\ n \in (m + 1)..Len(sent[c])
         /\ m = 0 \/ sent[c][m] = "nl"
         /\ sent[c][n] = "nl" /\ \A k \in (m + 1)..(n - 1) : sent[c][k] # "nl"
         /\ sent[c][m + 1] = buf[i][1].kind
         /\ EndsExecution(buf[i]) <=> sent[c][m + 1] = "end" /\ n = m + 2
<1>1. /\ sent[c] \in Seq(Kind) /\ Len(sent[c]) \in Nat
      /\ buf[i] \in Seq(Byte) /\ Len(buf[i]) \in Nat
      /\ consumed[c] \in Nat /\ consumed[c] <= Len(sent[c])
      BY SlotTypes, LenProperties
<1>2. m \in 0..Len(sent[c]) /\ m = consumed[c] - Len(buf[i])
      BY OffsetTypes DEF Offset
<1>3. PICK L \in 1..Len(buf[i]) :
        /\ L = LineLen(buf[i]) /\ buf[i][L].kind = "nl"
        /\ \A k \in 1..(L - 1) : buf[i][k].kind # "nl"
      BY <1>1, LineLenIsFirstNewline
<1>4. n = m + L /\ n \in (m + 1)..Len(sent[c])
  <2>1. m \in Nat /\ L \in Nat /\ 1 <= L /\ L <= Len(buf[i]) /\ n = m + L
        BY <1>1, <1>2, <1>3
  <2>2. n \in Nat /\ m + 1 <= n /\ n <= consumed[c]
        BY <1>1, <1>2, <2>1
  <2> QED BY <1>1, <2>1, <2>2
<1>5. \A k \in 1..Len(buf[i]) : buf[i][k].kind = sent[c][m + k]
      BY DEF SlotInv
<1>6. sent[c][n] = "nl" /\ sent[c][m + 1] = buf[i][1].kind
  <2>1. 1 \in 1..Len(buf[i])
        BY <1>1, <1>3
  <2> QED BY <1>3, <1>4, <1>5, <2>1
<1>7. \A k \in (m + 1)..(n - 1) : sent[c][k] # "nl"
  <2> SUFFICES ASSUME NEW k \in (m + 1)..(n - 1)
               PROVE  sent[c][k] # "nl"
      OBVIOUS
  <2>4. m \in Nat /\ L \in Nat /\ n = m + L
        BY <1>1, <1>2, <1>3, <1>4
  <2>1. k \in Nat /\ m + 1 <= k /\ k <= m + L - 1
        BY <2>4
  <2> DEFINE e == k - m
  <2>2. e \in Int /\ 1 <= e /\ e <= L - 1 /\ m + e = k
        BY <2>1, <2>4
  <2>3. e \in 1..(L - 1) /\ e \in 1..Len(buf[i]) /\ m + e = k
        <3> HIDE DEF e
        <3> QED BY <1>1, <1>3, <2>2
  <2> HIDE DEF e
  <2>5. buf[i][e].kind # "nl" /\ buf[i][e].kind = sent[c][m + e]
        BY <1>3, <1>5, <2>3
  <2> QED BY <2>3, <2>5
<1>8. EndsExecution(buf[i]) <=> sent[c][m + 1] = "end" /\ L = 2
      BY <1>3, <1>6 DEF EndsExecution
<1>9. L = 2 <=> n = m + 2
  <2>1. m \in Nat /\ L \in Nat /\ n = m + L
        BY <1>1, <1>2, <1>3, <1>4
  <2> QED BY ONLY <2>1
<1>10. m = 0 \/ sent[c][m] = "nl"
      BY DEF SlotInv
<1> QED BY <1>2, <1>4, <1>6, <1>7, <1>8, <1>9, <1>10

(* ... and is then counted among the lines main has taken.                 *)
LEMMA SlotTaken ==
  ASSUME TypeOK, NEW i \in 1..Len(clients), SlotInv(i), HasLine(buf[i]),
         NEW c \in Client, c = clients[i], NEW m, m = Offset(i),
         NEW n, n = m + LineLen(buf[i]),
         UNCHANGED <<clients, sent, consumed>>, buf'[i] = Rest(buf[i])
  PROVE  /\ SlotInv(i)'
         /\ Processed(i) = SubSeq(sent[c], 1, m) /\ Processed(i)' = SubSeq(sent[c], 1, n)
<1>1. /\ sent[c] \in Seq(Kind) /\ Len(sent[c]) \in Nat
      /\ buf[i] \in Seq(Byte) /\ Len(buf[i]) \in Nat
      /\ consumed[c] \in Nat /\ consumed[c] <= Len(sent[c])
      BY SlotTypes, LenProperties
<1>2. m \in 0..Len(sent[c]) /\ m = consumed[c] - Len(buf[i])
      BY OffsetTypes DEF Offset
<1>3. PICK L \in 1..Len(buf[i]) : L = LineLen(buf[i])
      BY <1>1, LineLenIsFirstNewline
<1>4. n = m + L
      BY <1>3
<1>5. /\ Len(buf'[i]) = Len(buf[i]) - L
      /\ \A k \in 1..(Len(buf[i]) - L) : buf'[i][k] = buf[i][L + k]
  <2>1. buf'[i] = SubSeq(buf[i], L + 1, Len(buf[i]))
        BY <1>3 DEF Rest
  <2>2. L + 1 \in 1..(Len(buf[i]) + 1) /\ Len(buf[i]) \in L..Len(buf[i])
        BY <1>1, <1>3
  <2>3. \A k \in (L + 1)..Len(buf[i]) : buf[i][k] \in Byte
        BY <1>1, <2>2, ElementOfSeq
  <2>4. /\ Len(SubSeq(buf[i], L + 1, Len(buf[i]))) =
             IF L + 1 <= Len(buf[i]) THEN Len(buf[i]) - (L + 1) + 1 ELSE 0
        /\ \A k \in 1..(Len(buf[i]) - (L + 1) + 1) :
             SubSeq(buf[i], L + 1, Len(buf[i]))[k] = buf[i][L + 1 + k - 1]
        BY <1>1, <2>2, <2>3, SubSeqProperties
  <2>5. \A k \in 1..(Len(buf[i]) - L) :
             k \in 1..(Len(buf[i]) - (L + 1) + 1) /\ L + 1 + k - 1 = L + k
        BY <1>1, <1>3
  <2>6. (IF L + 1 <= Len(buf[i]) THEN Len(buf[i]) - (L + 1) + 1 ELSE 0) = Len(buf[i]) - L
        BY <1>1, <1>3
  <2>7. Len(buf'[i]) = Len(buf[i]) - L
        BY <2>1, <2>4, <2>6
  <2>8. ASSUME NEW k \in 1..(Len(buf[i]) - L)
        PROVE  buf'[i][k] = buf[i][L + k]
        BY <2>1, <2>4, <2>5
  <2> QED BY <2>7, <2>8
<1>6. consumed'[c] - Len(buf'[i]) = n
  <2>1. L \in Nat /\ m = consumed[c] - Len(buf[i]) /\ n = m + L
        BY <1>1, <1>2, <1>3, <1>4
  <2>2. consumed'[c] = consumed[c] /\ Len(buf'[i]) = Len(buf[i]) - L
        BY <1>5
  <2> QED BY <1>1, <2>1, <2>2
<1>7. Processed(i) = SubSeq(sent[c], 1, m) /\ Processed(i)' = SubSeq(sent[c], 1, n)
  <2>1. Processed(i)' = SubSeq(sent'[c], 1, consumed'[c] - Len(buf'[i]))
        BY DEF Processed
  <2> QED BY <1>2, <1>6, <2>1 DEF Processed
<1>8. Offset(i)' = n
      BY <1>6 DEF Offset
<1>9. Len(buf'[i]) <= consumed[c]
      BY <1>1, <1>3, <1>5 DEF SlotInv
<1>10. sent[c][n] = "nl"
      BY FirstLine
<1>11. \A k \in 1..Len(buf'[i]) : buf'[i][k].kind = sent[c][n + k] /\ buf'[i][k].by = c
  <2> SUFFICES ASSUME NEW k \in 1..(Len(buf[i]) - L)
               PROVE  buf'[i][k].kind = sent[c][n + k] /\ buf'[i][k].by = c
      BY <1>5
  <2>3. L \in Nat /\ 1 <= L /\ k \in Nat /\ 1 <= k /\ k <= Len(buf[i]) - L
        BY <1>1, <1>3
  <2>4. L + k \in 1..Len(buf[i])
        BY <1>1, <2>3
  <2>1. L + k \in 1..Len(buf[i]) /\ m + (L + k) = n + k
        BY <1>2, <1>4, <2>3, <2>4
  <2>2. buf[i][L + k].kind = sent[c][m + (L + k)] /\ buf[i][L + k].by = c
        BY <2>1 DEF SlotInv
  <2> QED BY <1>5, <2>1, <2>2
<1> QED BY <1>7, <1>8, <1>9, <1>10, <1>11 DEF SlotInv

-----------------------------------------------------------------------------
(* What each step does to the slots.                                       *)

LEMMA QuietSlots ==
  ASSUME UNCHANGED <<clients, buf, sent, consumed>>, NEW i, SlotInv(i)
  PROVE  SlotInv(i)' /\ Processed(i)' = Processed(i)
BY DEF SlotInv, Offset, Processed

LEMMA WriteSlots ==
  ASSUME TypeOK, NEW c \in Client, NEW bytes \in Input, ClientWrite(c, bytes),
         NEW i \in 1..Len(clients), SlotInv(i)
  PROVE  SlotInv(i)' /\ Processed(i)' = Processed(i)
<1>1. UNCHANGED <<clients, buf, consumed>> /\ sent' = [sent EXCEPT ![c] = @ \o bytes]
      BY DEF ClientWrite, serverVars
<1>2. PICK d \in Client : d = clients[i]
      BY SlotTypes
<1>3. sent \in [Client -> Seq(Kind)] /\ sent[c] \in Seq(Kind) /\ bytes \in Seq(Kind)
      BY ConstantsAssumption DEF TypeOK, SocketTypes
<1>4. /\ sent[c] \o bytes \in Seq(Kind) /\ Len(sent[c] \o bytes) = Len(sent[c]) + Len(bytes)
      /\ \A k \in 1..(Len(sent[c]) + Len(bytes)) :
           (sent[c] \o bytes)[k] = IF k <= Len(sent[c]) THEN sent[c][k]
                                   ELSE bytes[k - Len(sent[c])]
      BY <1>3, ConcatProperties
<1>5. Len(sent[c]) \in Nat /\ Len(bytes) \in Nat
      BY <1>3, LenProperties
<1>6. /\ sent[c] \o bytes \in Seq(Kind) /\ Len(sent[c]) <= Len(sent[c] \o bytes)
      /\ \A k \in 1..Len(sent[c]) : (sent[c] \o bytes)[k] = sent[c][k]
      BY <1>4, <1>5
<1>7. CASE d = c
  <2>1. sent'[d] = sent[c] \o bytes
        BY <1>1, <1>3, <1>7
  <2> QED BY <1>1, <1>2, <1>6, <1>7, <2>1, SlotKept
<1>8. CASE d # c
  <2>1. sent'[d] = sent[d] /\ sent[d] \in Seq(Kind) /\ Len(sent[d]) <= Len(sent[d])
        BY <1>1, <1>3, <1>8, LenProperties
  <2> QED BY <1>1, <1>2, <2>1, SlotKept
<1> QED BY <1>7, <1>8

LEMMA ReadSlots ==
  ASSUME TypeOK, RosterExact, ReadData, NEW i \in 1..Len(clients), SlotInv(i)
  PROVE  clients' = clients /\ SlotInv(i)' /\ Processed(i)' = Processed(i)
<1>1. slot <= Len(clients) /\ pcM = "data"
      BY DEF ReadData
<1>2. PICK j \in 1..Len(clients) : j = slot /\ j \in 1..MaxClients
      BY <1>1, AvailableBytes
<1>3. PICK c \in Client : c = clients[j]
      BY <1>2, SlotTypes
<1>4. PICK n \in Nat : n = Available(c) /\ n <= arrived[c] - consumed[c]
      BY <1>1, <1>2, <1>3, AvailableBytes
<1>5. /\ UNCHANGED <<clients, sent>>
      /\ buf' = [buf EXCEPT ![j] =
                   @ \o [k \in 1..n |-> [kind |-> sent[c][consumed[c] + k], by |-> c]]]
      /\ consumed' = [consumed EXCEPT ![c] = @ + n]
      BY <1>2, <1>3, <1>4 DEF ReadData
<1>6. buf \in [1..MaxClients -> Seq(Byte)] /\ consumed \in [Client -> Nat]
      BY DEF TypeOK, BufferTypes, SocketTypes
<1>7. CASE i = j
  <2>1. consumed[c] + n <= Len(sent[c])
    <3>1. /\ arrived[c] \in Nat /\ consumed[c] \in Nat /\ arrived[c] <= Len(sent[c])
          /\ sent[c] \in Seq(Kind)
          BY DEF TypeOK, SocketTypes
    <3> QED BY <1>4, <3>1, LenProperties
  <2>2. buf'[i] = buf[i] \o [k \in 1..n |-> [kind |-> sent[c][consumed[c] + k], by |-> c]]
        BY <1>2, <1>5, <1>6, <1>7
  <2>3. consumed'[c] = consumed[c] + n
        BY <1>5, <1>6
  <2> QED BY <1>3, <1>5, <1>7, <2>1, <2>2, <2>3, SlotRead
<1>8. CASE i # j
  <2>1. PICK d \in Client : d = clients[i]
        BY SlotTypes
  <2>2. d # c
        BY <1>3, <1>8, <2>1 DEF RosterExact
  <2>3. buf'[i] = buf[i] /\ consumed'[d] = consumed[d]
        BY <1>5, <1>6, <1>8, <2>2, SlotTypes
  <2>4. sent[d] \in Seq(Kind) /\ Len(sent[d]) <= Len(sent[d])
        BY <2>1, SlotTypes, LenProperties
  <2> QED BY <1>5, <2>1, <2>3, <2>4, SlotKept
<1> QED BY <1>5, <1>7, <1>8

(* A line is taken from slot j; the others are left alone.                 *)
LEMMA TakeSlots ==
  ASSUME TypeOK, NEW j \in 1..Len(clients), HasLine(buf[j]),
         buf' = [buf EXCEPT ![j] = Rest(@)], UNCHANGED <<clients, sent, consumed>>,
         \A i \in 1..Len(clients) : SlotInv(i)
  PROVE  /\ \A i \in 1..Len(clients) : SlotInv(i)'
         /\ \A i \in 1..Len(clients) : i # j => Processed(i)' = Processed(i)
<1>1. buf \in [1..MaxClients -> Seq(Byte)] /\ j \in 1..MaxClients
      BY SlotTypes DEF TypeOK, BufferTypes
<1>2. SlotInv(j)'
  <2>1. PICK c \in Client : c = clients[j]
        BY SlotTypes
  <2>2. buf'[j] = Rest(buf[j])
        BY <1>1
  <2> QED BY <2>1, <2>2, SlotTaken
<1>3. ASSUME NEW i \in 1..Len(clients), i # j
      PROVE  SlotInv(i)' /\ Processed(i)' = Processed(i)
  <2>1. PICK c \in Client : c = clients[i]
        BY SlotTypes
  <2>2. buf'[i] = buf[i]
        BY <1>1, <1>3, SlotTypes
  <2>3. sent[c] \in Seq(Kind) /\ Len(sent[c]) <= Len(sent[c])
        BY <2>1, SlotTypes, LenProperties
  <2> QED BY <2>1, <2>2, <2>3, SlotKept
<1> QED BY <1>2, <1>3

(* A client that is accepted gets an empty buffer in a slot of its own.    *)
LEMMA AcceptSlots ==
  ASSUME TypeOK, RosterExact, RemovedInv, NEW c \in Client, Accept(c),
         \A i \in 1..Len(clients) : SlotInv(i),
         NEW j \in Nat, j = Len(clients) + 1
  PROVE  /\ Len(clients') = j /\ clients'[j] = c
         /\ \A i \in 1..Len(clients) : clients'[i] = clients[i]
         /\ \A i \in 1..j : SlotInv(i)'
         /\ \A i \in 1..Len(clients) : Processed(i)' = Processed(i)
         /\ Processed(j)' = <<>>
<1>1. /\ clients' = Append(clients, c) /\ buf' = [buf EXCEPT ![Len(clients) + 1] = <<>>]
      /\ conn[c] = "backlog" /\ Len(clients) < MaxClients /\ UNCHANGED <<sent, consumed>>
      BY ConstantsAssumption, LenProperties DEF Accept, Full, Pending, sockIn, TypeOK, SharedTypes
<1>2. /\ Len(clients') = j /\ clients'[j] = c
      /\ \A i \in 1..Len(clients) : clients'[i] = clients[i]
      BY <1>1, AppendProperties DEF TypeOK, SharedTypes
<1>3. consumed[c] = 0
      BY <1>1 DEF RemovedInv
<1>4. /\ Len(clients) \in Nat /\ j \in 1..MaxClients /\ buf \in [1..MaxClients -> Seq(Byte)]
      BY <1>1, LenProperties, ConstantsAssumption DEF TypeOK, SharedTypes, BufferTypes
<1>5. buf'[j] = <<>> /\ \A i \in 1..Len(clients) : buf'[i] = buf[i]
      BY <1>1, <1>4, SlotTypes
<1>6. ASSUME NEW i \in 1..Len(clients)
      PROVE  SlotInv(i)' /\ Processed(i)' = Processed(i)
  <2>1. PICK d \in Client : d = clients[i]
        BY SlotTypes
  <2>2. sent[d] \in Seq(Kind) /\ Len(sent[d]) <= Len(sent[d])
        BY <2>1, SlotTypes, LenProperties
  <2>3. clients'[i] = d /\ buf'[i] = buf[i]
        BY <1>2, <1>5, <2>1
  <2> QED BY <1>1, <2>1, <2>2, <2>3, SlotKept
<1>7. consumed'[clients'[j]] - Len(buf'[j]) = 0 /\ Len(buf'[j]) = 0
  <2>1. consumed'[clients'[j]] = 0
        BY <1>1, <1>2, <1>3
  <2>2. Len(buf'[j]) = 0
        BY <1>5
  <2> QED BY <2>1, <2>2
<1>8. SlotInv(j)'
      BY <1>1, <1>2, <1>3, <1>7 DEF SlotInv, Offset
<1>9. Processed(j)' = <<>>
      BY <1>7, SubSeqEmpty DEF Processed
<1>10. \A i \in 1..j : i \in 1..Len(clients) \/ i = j
      BY <1>4
<1> QED BY <1>2, <1>6, <1>8, <1>9, <1>10

LEMMA TakeKinds ==
  ASSUME TypeOK, NEW j \in 1..Len(clients), SlotInv(j), HasLine(buf[j]),
         buf' = [buf EXCEPT ![j] = Rest(@)], UNCHANGED <<clients, sent, consumed>>,
         NEW m, m = Offset(j), NEW n, n = m + LineLen(buf[j])
  PROVE  /\ EndLines(Processed(j)') = EndLines(Processed(j)) \cup
              (IF EndsExecution(buf[j]) THEN {<<m + 1, n>>} ELSE {})
         /\ RegularLines(Processed(j)') = RegularLines(Processed(j)) \cup
              (IF buf[j][1].kind = "reg" /\ LineLen(buf[j]) + Header <= MaxMsg
                 THEN {<<m + 1, n>>} ELSE {})
         /\ \A l \in Lines(Processed(j)) : l[2] <= m /\ l[2] < n
<1>1. PICK c \in Client : c = clients[j]
      BY SlotTypes
<1>2. sent[c] \in Seq(Kind) /\ j \in 1..MaxClients /\ buf \in [1..MaxClients -> Seq(Byte)]
      BY <1>1, SlotTypes DEF TypeOK, BufferTypes
<1>3. /\ m \in 0..Len(sent[c]) /\ n \in (m + 1)..Len(sent[c])
      /\ m = 0 \/ sent[c][m] = "nl"
      /\ sent[c][n] = "nl" /\ \A k \in (m + 1)..(n - 1) : sent[c][k] # "nl"
      /\ sent[c][m + 1] = buf[j][1].kind
      /\ EndsExecution(buf[j]) <=> sent[c][m + 1] = "end" /\ n = m + 2
      BY <1>1, FirstLine
<1>4. buf'[j] = Rest(buf[j])
      BY <1>2
<1>5. Processed(j) = SubSeq(sent[c], 1, m) /\ Processed(j)' = SubSeq(sent[c], 1, n)
      BY <1>1, <1>4, SlotTaken
<1>6. /\ RegularLines(SubSeq(sent[c], 1, n)) =
              RegularLines(SubSeq(sent[c], 1, m)) \cup
                (IF sent[c][m + 1] = "reg" /\ n - m + Header <= MaxMsg
                   THEN {<<m + 1, n>>} ELSE {})
      /\ EndLines(SubSeq(sent[c], 1, n)) =
              EndLines(SubSeq(sent[c], 1, m)) \cup
                (IF sent[c][m + 1] = "end" /\ n = m + 2 THEN {<<m + 1, n>>} ELSE {})
  <2>1. PICK s \in Seq(Kind) : s = sent[c]
        BY <1>2
  <2>2. /\ m \in 0..Len(s) /\ n \in (m + 1)..Len(s) /\ (m = 0 \/ s[m] = "nl")
        /\ s[n] = "nl" /\ \A k \in (m + 1)..(n - 1) : s[k] # "nl"
        BY <1>3, <2>1
  <2>3. /\ RegularLines(SubSeq(s, 1, n)) =
              RegularLines(SubSeq(s, 1, m)) \cup
                (IF s[m + 1] = "reg" /\ n - m + Header <= MaxMsg THEN {<<m + 1, n>>} ELSE {})
        /\ EndLines(SubSeq(s, 1, n)) =
              EndLines(SubSeq(s, 1, m)) \cup
                (IF s[m + 1] = "end" /\ n = m + 2 THEN {<<m + 1, n>>} ELSE {})
        BY <2>2, NextLineKinds
  <2> QED BY <2>1, <2>3
<1>7. n - m = LineLen(buf[j])
  <2>1. LineLen(buf[j]) \in Nat /\ m \in Nat
        BY <1>2, <1>3, LineLenIsFirstNewline
  <2> QED BY <2>1
<1>8. \A l \in Lines(Processed(j)) : l[2] <= m /\ l[2] < n
  <2>1. Processed(j) \in Seq(Kind) /\ Len(Processed(j)) = m
        BY OffsetTypes
  <2>2. \A l \in Lines(Processed(j)) : l[2] \in 1..m
        BY <2>1, LineElements
  <2> QED BY <1>3, <2>2
<1> QED BY <1>3, <1>5, <1>6, <1>7, <1>8

(* The slot whose line main handles.                                       *)
LEMMA HandledSlot ==
  ASSUME TypeOK, IndexInv, pcM \in {"handle", "commit", "stop", "wake"}
  PROVE  \E j \in 1..Len(clients) : j = slot
BY DEF TypeOK, SharedTypes, MainTypes, IndexInv

Takes(j) == /\ HasLine(buf[j]) /\ buf' = [buf EXCEPT ![j] = Rest(@)]
            /\ UNCHANGED <<clients, sent, consumed>>

Same == clients' = clients /\ \A i \in 1..Len(clients) : SlotInv(i)' /\ Processed(i)' = Processed(i)

(* What the slots can see of a step.                                       *)
LEMMA Effects ==
  ASSUME TypeOK, IndexInv, RosterExact, RemovedInv, SlotsInv, LastInv, [Next]_vars,
         NobodyRemoved'
  PROVE  /\ NobodyRemoved
         /\ \/ \E c \in Client : Accept(c)
            \/ (Regular \/ Discard) /\ \E j \in 1..Len(clients) :
                 j = slot /\ Takes(j) /\ ~EndsExecution(buf[j])
            \/ (Finish \/ WakeWorker) /\ \E j \in 1..Len(clients) :
                 j = slot /\ Takes(j) /\ EndsExecution(buf[j]) /\ Stopping' = FALSE
            \/ Finish /\ Same /\ Stopping' = TRUE
            \/ Same /\ finished' = finished /\ Stopping' = Stopping
                 /\ (order' = order \/ EnqueueCommit)
<1>0. NobodyRemoved /\ ~remove_client /\ \A i \in 1..Len(clients) : SlotInv(i)
      BY RemovedForGood DEF SlotsInv
<1>1. CASE Quiet
      BY <1>0, <1>1, QuietSlots DEF Quiet, Same
<1>2. CASE \E c \in Client, bytes \in Input : ClientWrite(c, bytes)
      BY <1>0, <1>2, WriteSlots DEF ClientWrite, serverVars, Same, Stopping
<1>3. CASE ReadData
  <2>1. UNCHANGED <<finished, order>> /\ Stopping' = Stopping /\ clients' = clients
        BY <1>3 DEF ReadData, queueVars, Stopping
  <2> QED BY <1>0, <1>3, <2>1, ReadSlots DEF Same
<1>4. CASE EnqueueCommit
  <2>1. UNCHANGED <<clients, buf, sent, consumed, finished>> /\ Stopping' = Stopping
        BY <1>4 DEF EnqueueCommit, socketVars, sockIn, Stopping
  <2> QED BY <1>0, <1>4, <2>1, QuietSlots DEF Same
<1>5. CASE Regular \/ Discard
  <2>1. PICK j \in 1..Len(clients) : j = slot
        BY <1>5, HandledSlot DEF Regular, Discard
  <2>2. Takes(j)
        BY <1>5, <2>1 DEF Regular, Discard, Takes, socketVars, sockIn
  <2>3. ~EndsExecution(buf[j])
        BY <1>5, <2>1 DEF Regular, Discard, EndsExecution
  <2> QED BY <1>0, <1>5, <2>1, <2>2, <2>3
<1>6. CASE Finish
  <2>1. PICK j \in 1..Len(clients) : j = slot
        BY <1>6, HandledSlot DEF Finish
  <2>2. EndsExecution(buf[j]) /\ UNCHANGED <<clients, sent, consumed>>
        BY <1>6, <2>1 DEF Finish, socketVars, sockIn
  <2>3. CASE AllFinished(finished')
    <3>1. buf' = buf /\ Stopping' = TRUE
          BY <1>6, <2>3 DEF Finish, Stopping
    <3> QED BY <1>0, <1>6, <2>2, <3>1, QuietSlots DEF Same
  <2>4. CASE ~AllFinished(finished')
    <3>1. Takes(j) /\ Stopping' = FALSE
          BY <1>6, <2>1, <2>2, <2>4 DEF Finish, Takes, Stopping, EndsExecution
    <3> QED BY <1>0, <1>6, <2>1, <2>2, <3>1
  <2> QED BY <2>3, <2>4
<1>7. CASE WakeWorker
  <2>1. PICK j \in 1..Len(clients) : j = slot
        BY <1>7, HandledSlot DEF WakeWorker
  <2>2. EndsExecution(buf[j])
        BY <1>7, <2>1 DEF WakeWorker, LastInv, Stopping
  <2>3. Takes(j) /\ Stopping' = FALSE
        BY <1>7, <2>1, <2>2 DEF WakeWorker, Takes, Stopping, EndsExecution, socketVars, sockIn
  <2> QED BY <1>0, <1>7, <2>1, <2>2, <2>3
<1>8. CASE \E c \in Client : Accept(c)
      BY <1>0, <1>8
<1> QED BY <1>0, <1>1, <1>2, <1>3, <1>4, <1>5, <1>6, <1>7, <1>8, Steps

LEMMA SlotsStep ==
  ASSUME TypeOK, IndexInv, RosterExact, RemovedInv, SlotsInv, LastInv, [Next]_vars
  PROVE  SlotsInv'
<1> SUFFICES ASSUME NobodyRemoved'
             PROVE  \A i \in 1..Len(clients') : SlotInv(i)'
    BY DEF SlotsInv
<1>0. NobodyRemoved /\ \A i \in 1..Len(clients) : SlotInv(i)
      BY Effects DEF SlotsInv
<1>1. ASSUME NEW c \in Client, Accept(c)
      PROVE  \A i \in 1..Len(clients') : SlotInv(i)'
  <2>1. PICK j \in Nat : j = Len(clients) + 1
        BY LenProperties DEF TypeOK, SharedTypes
  <2> QED BY <1>0, <1>1, <2>1, AcceptSlots
<1>2. ASSUME NEW j \in 1..Len(clients), Takes(j)
      PROVE  \A i \in 1..Len(clients') : SlotInv(i)'
      BY <1>0, <1>2, TakeSlots DEF Takes
<1>3. CASE Same
      BY <1>3 DEF Same
<1> QED BY <1>1, <1>2, <1>3, Effects

LEMMA LastStep ==
  ASSUME TypeOK, IndexInv, CommitInv, LastInv, [Next]_vars
  PROVE  LastInv'
<1> USE DEF mainVars, workerVars, queueVars, sockIn, socketVars, mainAndBuf, Stopping
<1> DEFINE Committed == \E n \in 1..Len(order) : order[n] = Commit
<1>1. Stopping' => EndsExecution(buf'[slot'])
  <2>1. CASE UNCHANGED <<buf, slot>> /\ (Stopping' => Stopping)
        BY <2>1 DEF LastInv
  <2>2. CASE Finish
        BY <2>2 DEF Finish, EndsExecution
  <2>3. CASE ~Stopping'
        BY <2>3
  <2>4. CASE Quiet
        BY <2>1, <2>4 DEF Quiet, LastInv
  <2>5. CASE \E c \in Client, bytes \in Input : ClientWrite(c, bytes)
        BY <2>1, <2>5 DEF ClientWrite, serverVars
  <2>6. CASE EnqueueCommit
        BY <2>1, <2>6 DEF EnqueueCommit
  <2> QED BY <2>2, <2>3, <2>4, <2>5, <2>6, Steps
          DEF Accept, ReadData, remove_client, Regular, Discard, WakeWorker, NextIteration
<1>2. Stopping' \/ Committed' => finished' = Expected
  <2>1. CASE UNCHANGED <<order, finished>> /\ (Stopping' => Stopping)
        BY <2>1 DEF LastInv
  <2>2. CASE Finish
        BY <2>2 DEF Finish, AllFinished, CommitInv
  <2>3. CASE EnqueueCommit
        BY <2>3 DEF EnqueueCommit, LastInv
  <2>4. CASE Regular
    <3>1. ~Committed' /\ ~Stopping'
      <4>1. pcM' = "handle"
            BY <2>4 DEF Regular
      <4>2. CommitInv'
            BY CommitStep
      <4> QED BY <4>1, <4>2 DEF CommitInv
    <3> QED BY <3>1
  <2>5. CASE Quiet \/ \E c \in Client, bytes \in Input : ClientWrite(c, bytes)
        BY <2>1, <2>5 DEF Quiet, ClientWrite, serverVars
  <2>6. CASE ReadData \/ remove_client \/ Discard \/ WakeWorker \/ \E c \in Client : Accept(c)
        BY <2>1, <2>6 DEF ReadData, remove_client, Discard, WakeWorker, Accept, NextIteration
  <2> QED BY <2>2, <2>3, <2>4, <2>5, <2>6, Steps
<1> QED BY <1>1, <1>2 DEF LastInv

-----------------------------------------------------------------------------
(* The count of finished clients.                                          *)

LEMMA EndedElements ==
  /\ \A x : x \in Ended <=>
       \E i \in 1..Len(clients) : \E l \in EndLines(Processed(i)) : x = <<i, l>>
  /\ \A x : x \in Ended' <=>
       \E i \in 1..Len(clients') : \E l \in EndLines(Processed(i)') : x = <<i, l>>
BY DEF Ended

LEMMA EndedSame ==
  ASSUME \A i \in 1..Len(clients) : i \in 1..Len(clients')
                                    /\ EndLines(Processed(i)') = EndLines(Processed(i)),
         \A i \in 1..Len(clients') : i \in 1..Len(clients) \/ EndLines(Processed(i)') = {}
  PROVE  Ended' = Ended
<1>1. \A x : x \in Ended' <=> x \in Ended
      BY EndedElements
<1> QED BY <1>1

LEMMA EndedGrows ==
  ASSUME clients' = clients, NEW j \in 1..Len(clients), NEW x,
         \A i \in 1..Len(clients) : i # j => Processed(i)' = Processed(i),
         EndLines(Processed(j)') = EndLines(Processed(j)) \cup {x},
         x \notin EndLines(Processed(j)),
         IsFiniteSet(Ended)
  PROVE  IsFiniteSet(Ended') /\ Cardinality(Ended') = Cardinality(Ended) + 1
<1>1. \A y : y \in Ended' <=> y \in Ended \cup {<<j, x>>}
  <2>1. ASSUME NEW y, y \in Ended'
        PROVE  y \in Ended \cup {<<j, x>>}
    <3>1. PICK i \in 1..Len(clients) : \E l \in EndLines(Processed(i)') : y = <<i, l>>
          BY <2>1, EndedElements
    <3> QED BY <3>1, EndedElements
  <2>2. ASSUME NEW y, y \in Ended
        PROVE  y \in Ended'
    <3>1. PICK i \in 1..Len(clients) : \E l \in EndLines(Processed(i)) : y = <<i, l>>
          BY <2>2, EndedElements
    <3>2. \A l \in EndLines(Processed(i)) : l \in EndLines(Processed(i)')
          BY <3>1
    <3> QED BY <3>1, <3>2, EndedElements
  <2>3. <<j, x>> \in Ended'
        BY EndedElements
  <2> QED BY <2>1, <2>2, <2>3
<1>2. Ended' = Ended \cup {<<j, x>>}
      BY <1>1
<1>3. <<j, x>> \notin Ended
      BY EndedElements
<1>4. Cardinality(Ended \cup {<<j, x>>}) = Cardinality(Ended) + 1
      /\ IsFiniteSet(Ended \cup {<<j, x>>})
      BY <1>3, FS_AddElement
<1> QED BY <1>2, <1>4

LEMMA EndedStep ==
  ASSUME TypeOK, IndexInv, RosterExact, RemovedInv, SlotsInv, LastInv, EndedInv, [Next]_vars
  PROVE  EndedInv'
<1> SUFFICES ASSUME NobodyRemoved'
             PROVE  IsFiniteSet(Ended')
                    /\ finished' = Cardinality(Ended') + (IF Stopping' THEN 1 ELSE 0)
    BY DEF EndedInv
<1> DEFINE Goal == IsFiniteSet(Ended')
                   /\ finished' = Cardinality(Ended') + (IF Stopping' THEN 1 ELSE 0)
<1>0. /\ NobodyRemoved /\ \A i \in 1..Len(clients) : SlotInv(i)
      /\ IsFiniteSet(Ended) /\ finished = Cardinality(Ended) + (IF Stopping THEN 1 ELSE 0)
      BY Effects DEF SlotsInv, EndedInv
<1>1. Cardinality(Ended) \in Nat
      BY <1>0, FS_CardinalityType
<1>2. ASSUME NEW c \in Client, Accept(c)
      PROVE  Goal
  <2>1. PICK j \in Nat : j = Len(clients) + 1
        BY LenProperties DEF TypeOK, SharedTypes
  <2>2. /\ Len(clients') = j /\ Processed(j)' = <<>>
        /\ \A i \in 1..Len(clients) : Processed(i)' = Processed(i)
        BY <1>0, <1>2, <2>1, AcceptSlots
  <2>3. EndLines(<<>>) = {}
        BY DEF EndLines, Lines
  <2>4. Len(clients) \in Nat
        BY LenProperties DEF TypeOK, SharedTypes
  <2>5. /\ \A i \in 1..Len(clients) : i \in 1..Len(clients')
                                     /\ EndLines(Processed(i)') = EndLines(Processed(i))
        /\ \A i \in 1..Len(clients') : i \in 1..Len(clients) \/ EndLines(Processed(i)') = {}
        BY <2>1, <2>2, <2>3, <2>4
  <2>6. Ended' = Ended
        BY <2>5, EndedSame
  <2>7. finished' = finished /\ ~Stopping /\ ~Stopping'
        BY <1>2 DEF Accept, NextIteration, Stopping
  <2> QED BY <1>0, <2>6, <2>7
<1>3. ASSUME Same
      PROVE  Ended' = Ended
      BY <1>3, EndedSame DEF Same
<1>4. CASE Finish /\ Same /\ Stopping' = TRUE
  <2>1. finished' = finished + 1 /\ ~Stopping
        BY <1>4 DEF Finish, Stopping
  <2> QED BY <1>0, <1>1, <1>3, <1>4, <2>1
<1>5. CASE Same /\ finished' = finished /\ Stopping' = Stopping
      BY <1>0, <1>3, <1>5
<1>6. ASSUME NEW j \in 1..Len(clients), j = slot, Takes(j), ~EndsExecution(buf[j]),
             Regular \/ Discard
      PROVE  Goal
  <2>1. PICK m : m = Offset(j)
        OBVIOUS
  <2>2. PICK n : n = m + LineLen(buf[j])
        OBVIOUS
  <2>3. EndLines(Processed(j)') = EndLines(Processed(j))
        BY <1>0, <1>6, <2>1, <2>2, TakeKinds DEF Takes
  <2>4. \A i \in 1..Len(clients) : i # j => Processed(i)' = Processed(i)
        BY <1>0, <1>6, TakeSlots DEF Takes
  <2>5. clients' = clients
        BY <1>6 DEF Takes
  <2>6. Ended' = Ended
        BY <2>3, <2>4, <2>5, EndedSame
  <2>7. finished' = finished /\ ~Stopping /\ ~Stopping'
        BY <1>6 DEF Regular, Discard, Stopping
  <2> QED BY <1>0, <2>6, <2>7
<1>7. ASSUME NEW j \in 1..Len(clients), j = slot, Takes(j), EndsExecution(buf[j]),
             Stopping' = FALSE, Finish \/ WakeWorker
      PROVE  Goal
  <2>1. PICK m : m = Offset(j)
        OBVIOUS
  <2>2. PICK n : n = m + LineLen(buf[j])
        OBVIOUS
  <2>3. /\ EndLines(Processed(j)') = EndLines(Processed(j)) \cup {<<m + 1, n>>}
        /\ \A l \in Lines(Processed(j)) : l[2] < n /\ l[2] <= m
        BY <1>0, <1>7, <2>1, <2>2, TakeKinds DEF Takes
  <2>4. <<m + 1, n>> \notin EndLines(Processed(j))
    <3>1. n \in Nat
      <4>1. PICK c \in Client : c = clients[j]
            BY SlotTypes
      <4>2. m \in 0..Len(sent[c]) /\ n \in (m + 1)..Len(sent[c]) /\ Len(sent[c]) \in Nat
            BY <1>0, <1>7, <2>1, <2>2, <4>1, FirstLine, SlotTypes, LenProperties DEF Takes
      <4> QED BY <4>2
    <3> QED BY <2>3, <3>1 DEF EndLines
  <2>5. \A i \in 1..Len(clients) : i # j => Processed(i)' = Processed(i)
        BY <1>0, <1>7, TakeSlots DEF Takes
  <2>6. clients' = clients
        BY <1>7 DEF Takes
  <2>7. IsFiniteSet(Ended') /\ Cardinality(Ended') = Cardinality(Ended) + 1
        BY <1>0, <2>3, <2>4, <2>5, <2>6, EndedGrows
  <2>8. finished' = finished + (IF Stopping THEN 0 ELSE 1)
    <3>1. finished \in Nat
          BY DEF TypeOK, SharedTypes
    <3> QED BY <1>7, <3>1 DEF Finish, WakeWorker, Stopping
  <2> QED BY <1>0, <1>1, <1>7, <2>7, <2>8 DEF Stopping
<1> QED BY <1>2, <1>4, <1>5, <1>6, <1>7, Effects

LEMMA InitLinesInv == Init => LinesInv
<1> SUFFICES ASSUME Init
             PROVE  LinesInv
    OBVIOUS
<1>1. clients = <<>> /\ order = <<>> /\ ready = {} /\ pcM = "loop" /\ finished = 0
      /\ consumed = [c \in Client |-> 0]
      BY DEF Init
<1>2. RemovedInv /\ SlotsInv /\ LastInv
      BY <1>1 DEF RemovedInv, SlotsInv, LastInv, Stopping
<1>3. Ended = {}
      BY <1>1 DEF Ended
<1> QED BY <1>1, <1>2, <1>3, FS_EmptySet DEF LinesInv, EndedInv, Stopping

LEMMA StepLinesInv == IInv /\ LinesInv /\ [Next]_vars => LinesInv'
BY RemovedStep, SlotsStep, LastStep, EndedStep DEF IInv, LinesInv

THEOREM LinesInvariance == Spec => [](IInv /\ LinesInv)
BY InitIInv, StepIInv, InitLinesInv, StepLinesInv, PTL DEF Spec

(* Main counts exactly the Type 1 lines it has taken, for any number of    *)
(* clients, any cuts of their streams and any faults, as long as it has    *)
(* removed nobody; and the commit always waits for the last expected one.  *)
THEOREM CountsExactly == Spec => []FinishedExact
<1>1. IInv /\ LinesInv => FinishedExact
  <2> SUFFICES ASSUME IInv, LinesInv
               PROVE  FinishedExact
      OBVIOUS
  <2>1. ASSUME NobodyRemoved, ~Stopping
        PROVE  finished = Cardinality(Ended)
    <3>1. IsFiniteSet(Ended) /\ finished = Cardinality(Ended) + 0
          BY <2>1 DEF LinesInv, EndedInv
    <3> QED BY <3>1, FS_CardinalityType
  <2>2. Commit \in {order[n] : n \in 1..Len(order)} => finished = Expected
        BY DEF LinesInv, LastInv
  <2> QED BY <2>1, <2>2 DEF FinishedExact, Stopping
<1> QED BY LinesInvariance, <1>1, PTL

-----------------------------------------------------------------------------
(* The messages posted.                                                    *)

(* Two finite sets that match in number, and their extensions at the end.  *)
Extended(P, R, x, r, P2, R2) ==
  /\ P \in SUBSET Nat /\ IsFiniteSet(P) /\ IsFiniteSet(R)
  /\ Cardinality(P) = Cardinality(R)
  /\ x \in Nat /\ \A n \in P : n < x
  /\ r[2] \in Nat /\ \A l \in R : l[2] \in Nat /\ l[2] < r[2]
  /\ P2 = P \cup {x} /\ R2 = R \cup {r}

LEMMA NextRank ==
  ASSUME NEW P, NEW R, NEW x, NEW r, NEW P2, NEW R2, Extended(P, R, x, r, P2, R2)
  PROVE  /\ Cardinality(P2) = Cardinality(R2)
         /\ \A n \in P2, l \in R2 :
              SameRank(P2, n, R2, l)
                => (n = x /\ l = r) \/ (n \in P /\ l \in R /\ SameRank(P, n, R, l))
<1> USE DEF Extended
<1>1. x \notin P /\ r \notin R
      OBVIOUS
<1>2. /\ Cardinality(P2) = Cardinality(P) + 1 /\ Cardinality(R2) = Cardinality(R) + 1
      /\ Cardinality(P) \in Nat
      BY <1>1, FS_AddElement, FS_CardinalityType
<1>3. ASSUME NEW n \in P
      PROVE  /\ {m \in P2 : m <= n} = {m \in P : m <= n}
             /\ Cardinality({m \in P : m <= n}) <= Cardinality(P)
             /\ Cardinality({m \in P : m <= n}) \in Nat
  <2>1. {m \in P2 : m <= n} = {m \in P : m <= n}
        OBVIOUS
  <2>2. {m \in P : m <= n} \in SUBSET P
        OBVIOUS
  <2> QED BY <2>1, <2>2, FS_Subset, FS_CardinalityType
<1>4. ASSUME NEW l \in R
      PROVE  /\ {k \in R2 : k[2] <= l[2]} = {k \in R : k[2] <= l[2]}
             /\ Cardinality({k \in R : k[2] <= l[2]}) <= Cardinality(R)
             /\ Cardinality({k \in R : k[2] <= l[2]}) \in Nat
  <2>1. {k \in R2 : k[2] <= l[2]} = {k \in R : k[2] <= l[2]}
        OBVIOUS
  <2>2. {k \in R : k[2] <= l[2]} \in SUBSET R
        OBVIOUS
  <2> QED BY <2>1, <2>2, FS_Subset, FS_CardinalityType
<1>5. {m \in P2 : m <= x} = P2 /\ {k \in R2 : k[2] <= r[2]} = R2
  <2>1. \A m \in P2 : m <= x
        OBVIOUS
  <2>2. \A k \in R2 : k[2] <= r[2]
        OBVIOUS
  <2>3. \A S, T : (\A y : y \in S <=> y \in T) => S = T
        OBVIOUS
  <2> QED BY ONLY <2>1, <2>2, <2>3
<1>6. ASSUME NEW n \in P2, NEW l \in R2,
             Cardinality({m \in P2 : m <= n}) = Cardinality({k \in R2 : k[2] <= l[2]})
      PROVE  \/ n = x /\ l = r
             \/ /\ n \in P /\ l \in R
                /\ Cardinality({m \in P : m <= n}) = Cardinality({k \in R : k[2] <= l[2]})
  <2>1. CASE n \in P /\ l \in R
        BY <1>3, <1>4, <1>6, <2>1
  <2>2. ~(n \in P /\ l = r)
        BY <1>2, <1>3, <1>5, <1>6
  <2>3. ~(n = x /\ l \in R)
    <3> SUFFICES ASSUME n = x, l \in R
                 PROVE  FALSE
        OBVIOUS
    <3>1. Cardinality({m \in P2 : m <= n}) = Cardinality(R) + 1
          BY <1>2, <1>5
    <3>2. Cardinality({k \in R2 : k[2] <= l[2]}) <= Cardinality(R)
          BY <1>4
    <3> QED BY <1>2, <1>6, <3>1, <3>2
  <2> QED BY <2>1, <2>2, <2>3
<1> QED BY <1>2, <1>6 DEF SameRank

LEMMA PostedTypes ==
  ASSUME TypeOK, NEW c
  PROVE  Posted(c) \in SUBSET Nat /\ IsFiniteSet(Posted(c))
<1>1. Len(order) \in Int /\ 1 \in Int
      BY LenProperties DEF TypeOK, SharedTypes
<1>2. IsFiniteSet(1..Len(order))
      BY <1>1, FS_Interval
<1>3. Posted(c) \in SUBSET (1..Len(order))
      BY DEF Posted
<1> QED BY <1>2, <1>3, FS_Subset

LEMMA PostedAppend ==
  ASSUME TypeOK, NEW m \in Message, order' = Append(order, m), NEW c
  PROVE  /\ Posted(c)' = Posted(c) \cup
              (IF m # Commit /\ m.from = c THEN {Len(order) + 1} ELSE {})
         /\ \A n \in Posted(c) : order'[n] = order[n] /\ n < Len(order) + 1
         /\ order'[Len(order) + 1] = m
<1>1. order \in Seq(Message) /\ Len(order) \in Nat
      BY LenProperties DEF TypeOK, SharedTypes
<1>2. /\ Len(order') = Len(order) + 1 /\ order'[Len(order) + 1] = m
      /\ \A n \in 1..Len(order) : order'[n] = order[n]
      BY <1>1, AppendProperties
<1> QED BY <1>1, <1>2 DEF Posted

(* A client whose messages, lines and texts stay the same.                 *)
LEMMA PostedKept ==
  ASSUME NEW c, NEW p, NEW q, PostedInOrder(c, p),
         RegularLines(q) = RegularLines(p),
         \A l \in RegularLines(p) : Text(c, q, l) = Text(c, p, l),
         Posted(c)' = Posted(c), \A n \in Posted(c) : order'[n] = order[n]
  PROVE  PostedInOrder(c, q)'
BY DEF PostedInOrder

(* The texts of a client's earlier lines are where they were.              *)
LEMMA TakeTexts ==
  ASSUME TypeOK, NEW j \in 1..Len(clients), SlotInv(j), Takes(j),
         NEW c \in Client, c = clients[j], NEW m, m = Offset(j),
         NEW n, n = m + LineLen(buf[j])
  PROVE  /\ \A l \in Lines(Processed(j)) :
              Text(c, Processed(j)', l) = Text(c, Processed(j), l)
         /\ Text(c, Processed(j)', <<m + 1, n>>) = Data(buf[j])
<1>1. /\ sent[c] \in Seq(Kind) /\ Len(sent[c]) \in Nat
      /\ buf[j] \in Seq(Byte) /\ Len(buf[j]) \in Nat
      BY SlotTypes, LenProperties
<1>2. m \in 0..Len(sent[c]) /\ n \in (m + 1)..Len(sent[c]) /\ n \in 0..Len(sent[c])
      BY <1>1, FirstLine DEF Takes
<1>3. buf'[j] = Rest(buf[j])
      BY SlotTypes DEF Takes, TypeOK, BufferTypes
<1>4. Processed(j) = SubSeq(sent[c], 1, m) /\ Processed(j)' = SubSeq(sent[c], 1, n)
      BY <1>3, SlotTaken DEF Takes
<1>5. /\ Processed(j) \in Seq(Kind) /\ Len(Processed(j)) = m
      /\ \A k \in 1..m : Processed(j)[k] = sent[c][k]
      /\ \A k \in 1..n : Processed(j)'[k] = sent[c][k]
      BY <1>1, <1>2, <1>4, Prefix
<1>6. ASSUME NEW l \in Lines(Processed(j))
      PROVE  Text(c, Processed(j)', l) = Text(c, Processed(j), l)
  <2>1. l[1] \in 1..m /\ l[2] \in 1..m
        BY <1>5, LineElements
  <2>2. \A k \in 1..(l[2] - l[1]) : l[1] + k \in 1..m /\ l[1] + k \in 1..n
    <3>1. PICK a \in 1..m, b \in 1..m : a = l[1] /\ b = l[2]
          BY <2>1
    <3>2. m \in Nat /\ n \in Nat /\ m < n
          BY <1>1, <1>2
    <3>3. \A k \in 1..(b - a) : a + k \in 1..m /\ a + k \in 1..n
          BY <3>2
    <3> QED BY <3>1, <3>3
  <2>3. \A k \in 1..(l[2] - l[1]) : Processed(j)'[l[1] + k] = Processed(j)[l[1] + k]
        BY <1>5, <2>2
  <2> QED BY <2>3 DEF Text
<1>7. Text(c, Processed(j)', <<m + 1, n>>) = Data(buf[j])
  <2>1. PICK L \in 1..Len(buf[j]) : L = LineLen(buf[j])
        BY <1>1, LineLenIsFirstNewline DEF Takes
  <2>2. L \in Nat /\ m \in Nat /\ n = m + L /\ L <= Len(buf[j]) /\ 1 <= L
        BY <1>1, <1>2, <2>1
  <2>3. Data(buf[j]) = SubSeq(buf[j], 2, L) /\ 2 \in Int /\ L \in Int
        BY <2>1, <2>2 DEF Data
  <2>4. \A k \in 2..L : buf[j][k] \in Byte
        BY <1>1, <2>2, ElementOfSeq
  <2>5. /\ Data(buf[j]) \in Seq(Byte) /\ Len(Data(buf[j])) = L - 1
        /\ \A k \in 1..(L - 2 + 1) : Data(buf[j])[k] = buf[j][2 + k - 1]
        BY <2>2, <2>3, <2>4, SubSeqProperties
  <2> DEFINE t == [k \in 1..(L - 1) |-> [kind |-> Processed(j)'[m + 1 + k], by |-> c]]
  <2>6. Text(c, Processed(j)', <<m + 1, n>>) = t
    <3>1. n - (m + 1) = L - 1
          BY <2>2
    <3> QED BY <3>1 DEF Text
  <2>7. ASSUME NEW k \in 1..(L - 1)
        PROVE  t[k] = Data(buf[j])[k] /\ t[k] \in Byte
    <3>1. k + 1 \in 1..Len(buf[j]) /\ m + 1 + k \in 1..n /\ m + 1 + k = m + (k + 1)
          BY <1>1, <2>2
    <3>2. buf[j][k + 1].kind = sent[c][m + (k + 1)] /\ buf[j][k + 1].by = c
          BY <3>1 DEF SlotInv
    <3>3. buf[j][k + 1] \in Byte
          BY <1>1, <3>1, ElementOfSeq
    <3>4. buf[j][k + 1] = [kind |-> sent[c][m + 1 + k], by |-> c]
          BY <3>1, <3>2, <3>3 DEF Byte
    <3>5. k \in 1..(L - 2 + 1) /\ 2 + k - 1 = k + 1
          BY <2>2
    <3>6. Data(buf[j])[k] = buf[j][k + 1]
          BY <2>5, <3>5
    <3>7. Processed(j)'[m + 1 + k] = sent[c][m + 1 + k]
          BY <1>5, <3>1
    <3> QED BY <3>3, <3>4, <3>6, <3>7
  <2>8. t \in Seq(Byte) /\ Len(t) = L - 1
    <3>1. L - 1 \in Nat
          BY <2>2
    <3>2. t \in [1..(L - 1) -> Byte]
          BY <2>7
    <3> QED BY <3>1, <3>2
  <2> HIDE DEF t
  <2>9. t = Data(buf[j])
        BY <2>5, <2>7, <2>8, SeqEqual
  <2> QED BY <2>6, <2>9
<1> QED BY <1>6, <1>7

LEMMA PostedSame ==
  ASSUME TypeOK, Posts, Same, \A i \in 1..Len(clients) : SlotInv(i),
         \A c \in Client : /\ Posted(c)' = Posted(c)
                           /\ \A n \in Posted(c) : order'[n] = order[n]
  PROVE  Posts'
<1>1. clients' = clients /\ Roster' = Roster
      BY DEF Same, Roster
<1>2. ASSUME NEW i \in 1..Len(clients), NEW c \in Client, NEW p \in Seq(Kind),
             c = clients[i], p = Processed(i)
      PROVE  PostedInOrder(c, p)'
  <2>1. PostedInOrder(c, p)
        BY <1>2 DEF Posts
  <2> QED BY <2>1, PostedKept
<1>3. \A i \in 1..Len(clients) : Processed(i)' = Processed(i)
      BY DEF Same
<1>4. \A c \in Client \ Roster : Posted(c)' = {}
      BY DEF Posts
<1> QED BY <1>1, <1>2, <1>3, <1>4 DEF Posts

(* A line is taken that is not posted.                                     *)
LEMMA PostedTaken ==
  ASSUME TypeOK, RosterExact, Posts, NEW j \in 1..Len(clients), Takes(j),
         \A i \in 1..Len(clients) : SlotInv(i),
         RegularLines(Processed(j)') = RegularLines(Processed(j)), order' = order
  PROVE  Posts'
<1>1. clients' = clients /\ Roster' = Roster
      BY DEF Takes, Roster
<1>2. \A c \in Client : Posted(c)' = Posted(c) /\ \A n \in Posted(c) : order'[n] = order[n]
      BY DEF Posted
<1>3. ASSUME NEW i \in 1..Len(clients), NEW c \in Client, NEW q \in Seq(Kind),
             c = clients[i], q = Processed(i)'
      PROVE  PostedInOrder(c, q)'
  <2>1. PICK p \in Seq(Kind) : p = Processed(i)
        BY OffsetTypes
  <2>2. PostedInOrder(c, p)
        BY <1>3, <2>1 DEF Posts
  <2>3. RegularLines(q) = RegularLines(p) /\ \A l \in RegularLines(p) : Text(c, q, l) = Text(c, p, l)
    <3>1. CASE i = j
      <4>1. PICK m : m = Offset(j)
            OBVIOUS
      <4>2. PICK n : n = m + LineLen(buf[j])
            OBVIOUS
      <4>3. \A l \in Lines(p) : Text(c, q, l) = Text(c, p, l)
            BY <1>3, <2>1, <3>1, <4>1, <4>2, TakeTexts
      <4> QED BY <1>3, <2>1, <3>1, <4>3 DEF RegularLines
    <3>2. CASE i # j
      <4>1. q = p
            BY <1>3, <2>1, <3>2, TakeSlots DEF Takes
      <4> QED BY <4>1
    <3> QED BY <3>1, <3>2
  <2> QED BY <1>2, <2>2, <2>3, PostedKept
<1>4. \A c \in Client \ Roster : Posted(c)' = {}
      BY <1>2 DEF Posts
<1> QED BY <1>1, <1>3, <1>4 DEF Posts

(* A line is taken and posted.                                             *)
LEMMA PostedLine ==
  ASSUME TypeOK, RosterExact, Posts, NEW j \in 1..Len(clients), Takes(j),
         \A i \in 1..Len(clients) : SlotInv(i),
         buf[j][1].kind = "reg", LineLen(buf[j]) + Header <= MaxMsg,
         NEW c \in Client, c = clients[j], NEW msg \in Message, msg # Commit,
         msg = [type |-> "reg", from |-> c, data |-> Data(buf[j])],
         order' = Append(order, msg)
  PROVE  Posts'
<1>1. clients' = clients /\ Roster' = Roster /\ c \in Roster
      BY DEF Takes, Roster
<1>2. PICK x \in Nat : x = Len(order) + 1
      BY LenProperties DEF TypeOK, SharedTypes
<1>3. \A d \in Client :
        /\ Posted(d)' = Posted(d) \cup (IF d = c THEN {x} ELSE {})
        /\ \A n \in Posted(d) : order'[n] = order[n] /\ n < x
  <2> TAKE d \in Client
  <2>1. msg.from = c
        OBVIOUS
  <2>2. /\ Posted(d)' = Posted(d) \cup
              (IF msg # Commit /\ msg.from = d THEN {Len(order) + 1} ELSE {})
        /\ \A n \in Posted(d) : order'[n] = order[n] /\ n < Len(order) + 1
        BY PostedAppend
  <2> QED BY <1>2, <2>1, <2>2
<1>4. order'[x].data = Data(buf[j])
      BY <1>2, PostedAppend
<1>5. ASSUME NEW i \in 1..Len(clients), i # j, NEW d \in Client, NEW q \in Seq(Kind),
             d = clients[i], q = Processed(i)'
      PROVE  PostedInOrder(d, q)'
  <2>1. q = Processed(i)
        BY <1>5, TakeSlots DEF Takes
  <2>2. PostedInOrder(d, q)
        BY <1>5, <2>1 DEF Posts
  <2>3. d # c
        BY <1>5 DEF RosterExact
  <2>4. Posted(d)' = Posted(d) /\ \A n \in Posted(d) : order'[n] = order[n]
        BY <1>3, <2>3
  <2> QED BY <2>2, <2>4, PostedKept
<1>6. ASSUME NEW q \in Seq(Kind), q = Processed(j)'
      PROVE  PostedInOrder(c, q)'
  <2>1. PICK p \in Seq(Kind) : p = Processed(j)
        BY OffsetTypes
  <2>2. PICK m : m = Offset(j)
        OBVIOUS
  <2>3. PICK n : n = m + LineLen(buf[j])
        OBVIOUS
  <2>4. /\ RegularLines(q) = RegularLines(p) \cup {<<m + 1, n>>}
        /\ \A l \in Lines(p) : l[2] < n
        BY <1>6, <2>1, <2>2, <2>3, TakeKinds DEF Takes
  <2>5. /\ \A l \in Lines(p) : Text(c, q, l) = Text(c, p, l)
        /\ Text(c, q, <<m + 1, n>>) = Data(buf[j])
    <3>1. /\ \A l \in Lines(Processed(j)) :
               Text(c, Processed(j)', l) = Text(c, Processed(j), l)
          /\ Text(c, Processed(j)', <<m + 1, n>>) = Data(buf[j])
          BY <2>2, <2>3, TakeTexts
    <3> QED BY <1>6, <2>1, <3>1
  <2>6. n \in Nat
    <3>1. m \in 0..Len(sent[c]) /\ n \in (m + 1)..Len(sent[c]) /\ Len(sent[c]) \in Nat
          BY <2>2, <2>3, FirstLine, SlotTypes, LenProperties DEF Takes
    <3> QED BY <3>1
  <2>7. PICK P : P = Posted(c)
        OBVIOUS
  <2>8. PICK P2 : P2 = Posted(c)'
        OBVIOUS
  <2>9. PICK R : R = RegularLines(p)
        OBVIOUS
  <2>10. PICK R2 : R2 = RegularLines(q)
        OBVIOUS
  <2>11. /\ P \in SUBSET Nat /\ IsFiniteSet(P) /\ IsFiniteSet(R)
         /\ P2 = P \cup {x} /\ R2 = R \cup {<<m + 1, n>>} /\ \A k \in P : k < x
         BY <1>3, <2>4, <2>7, <2>8, <2>9, <2>10, PostedTypes, LinesFinite
  <2>12. \A l \in R : l[2] \in Nat /\ l[2] < n /\ l \in Lines(p)
         BY <2>4, <2>9, LineElements DEF RegularLines
  <2>13. /\ Cardinality(P) = Cardinality(R)
         /\ \A k \in P, l \in R :
              SameRank(P, k, R, l) => order[k].data = Text(c, p, l)
    <3>1. PostedInOrder(c, p)
          BY <2>1 DEF Posts
    <3> QED BY ONLY <2>7, <2>9, <3>1 DEF PostedInOrder
  <2>14. PICK r : r = <<m + 1, n>>
         OBVIOUS
  <2>15. /\ r[2] \in Nat /\ R2 = R \cup {r}
         /\ \A l \in R : l[2] \in Nat /\ l[2] < r[2]
         BY <2>6, <2>11, <2>12, <2>14
  <2>18. Cardinality(P) = Cardinality(R) /\ P2 = P \cup {x} /\ x \in Nat
         BY <2>11, <2>13
  <2>16. /\ Cardinality(P2) = Cardinality(R2)
         /\ \A k \in P2, l \in R2 :
              SameRank(P2, k, R2, l)
                => (k = x /\ l = r) \/ (k \in P /\ l \in R /\ SameRank(P, k, R, l))
    <3>1. Extended(P, R, x, r, P2, R2)
          BY ONLY <2>11, <2>15, <2>18 DEF Extended
    <3> QED BY <3>1, NextRank
  <2>17. ASSUME NEW k \in P2, NEW l \in R2, SameRank(P2, k, R2, l)
         PROVE  order'[k].data = Text(c, q, l)
    <3>1. CASE k = x /\ l = r
          BY <1>4, <2>5, <2>14, <3>1
    <3>2. CASE k \in P /\ l \in R /\ SameRank(P, k, R, l)
      <4>1. order'[k] = order[k] /\ Text(c, q, l) = Text(c, p, l)
            BY <1>3, <2>5, <2>7, <2>12, <3>2
      <4> QED BY <2>13, <3>2, <4>1
    <3> QED BY <2>16, <2>17, <3>1, <3>2
  <2> QED BY <2>8, <2>10, <2>16, <2>17 DEF PostedInOrder
<1>8. \A d \in Client \ Roster : Posted(d)' = {}
      BY <1>1, <1>3 DEF Posts
<1> QED BY <1>1, <1>5, <1>6, <1>8 DEF Posts

LEMMA PostedAccept ==
  ASSUME TypeOK, RosterExact, proc = "up", RemovedInv, Posts, NEW c \in Client, Accept(c),
         \A i \in 1..Len(clients) : SlotInv(i)
  PROVE  Posts'
<1>1. PICK j \in Nat : j = Len(clients) + 1
      BY LenProperties DEF TypeOK, SharedTypes
<1>2. /\ Len(clients') = j /\ clients'[j] = c /\ Processed(j)' = <<>>
      /\ \A i \in 1..Len(clients) : clients'[i] = clients[i] /\ Processed(i)' = Processed(i)
      BY <1>1, AcceptSlots
<1>3. order' = order /\ conn[c] = "backlog"
      BY DEF Accept, Pending, queueVars
<1>4. Len(clients) \in Nat /\ \A i \in 1..j : i \in 1..Len(clients) \/ i = j
      BY <1>1, LenProperties DEF TypeOK, SharedTypes
<1>5. c \notin Roster /\ Roster \subseteq Roster'
  <2>1. c \notin Roster
        BY <1>3 DEF RosterExact
  <2>2. \A i \in 1..Len(clients) : i \in 1..Len(clients') /\ clients'[i] = clients[i]
        BY <1>1, <1>2, <1>4
  <2> QED BY <2>1, <2>2 DEF Roster
<1>6. \A d \in Client : Posted(d)' = Posted(d) /\ \A n \in Posted(d) : order'[n] = order[n]
      BY <1>3 DEF Posted
<1>7. ASSUME NEW i \in 1..Len(clients), NEW d \in Client, NEW p \in Seq(Kind),
             d = clients[i], p = Processed(i)
      PROVE  PostedInOrder(d, p)'
  <2>1. PostedInOrder(d, p)
        BY <1>7 DEF Posts
  <2> QED BY <1>6, <2>1, PostedKept
<1>8. PostedInOrder(c, <<>>)'
  <2>1. Posted(c)' = {}
        BY <1>5, <1>6 DEF Posts
  <2>2. RegularLines(<<>>) = {}
        BY DEF RegularLines, Lines
  <2>3. Cardinality({}) = Cardinality({})
        OBVIOUS
  <2> QED BY <2>1, <2>2, <2>3 DEF PostedInOrder
<1>9. \A d \in Client \ Roster' : Posted(d)' = {}
      BY <1>5, <1>6 DEF Posts
<1> QED BY <1>2, <1>4, <1>7, <1>8, <1>9 DEF Posts

LEMMA PeersStep ==
  ASSUME TypeOK, "reset" \notin Faults, \A c \in Client : peer[c] # "reset", [Next]_vars
  PROVE  \A c \in Client : peer'[c] # "reset"
<1>1. CASE UNCHANGED peer
      BY <1>1
<1>2. CASE Environment
      BY <1>2 DEF Environment, Connect, ClientWrite, Arrive, ClientClose, ClientReset,
                  serverVars, TypeOK, SocketTypes
<1> QED BY <1>1, <1>2
        DEF Next, Main, Worker, WorkerStep, WakeUp, SpuriousWake, Awake, Exited, vars,
            mainVars, workerVars, queueVars, sockIn, socketVars, mainAndBuf,
            LoopTest, Select, SelectFails, Accept, Reject, AcceptFails, LockClients,
            NextSlot, LastSlot, NextIteration, ReadData, ReadEnds, remove_client, Relock,
            NoLine, Regular, Finish, Discard, EnqueueCommit, StopRunning, WakeWorker,
            JoinWorker, CloseAndExit, WorkerTest, LockQueue, TestQueue, Dequeue, CondWait,
            LockList, Write, WriteKills, EndBroadcast

LEMMA PostedStep ==
  ASSUME "malloc" \notin Faults, "reset" \notin Faults, IInv, LinesInv, PostedInv, [Next]_vars
  PROVE  PostedInv'
<1>0. /\ TypeOK /\ IndexInv /\ RosterExact
      /\ RemovedInv /\ SlotsInv /\ LastInv /\ \A c \in Client : peer[c] # "reset"
      BY DEF IInv, LinesInv, PostedInv
<1>1. \A c \in Client : peer'[c] # "reset"
      BY <1>0, PeersStep
<1> SUFFICES ASSUME NobodyRemoved'
             PROVE  Posts'
    BY <1>1 DEF PostedInv
<1>2. /\ NobodyRemoved /\ Posts /\ proc = "up"
      /\ \A i \in 1..Len(clients) : SlotInv(i)
      BY <1>0, Effects DEF SlotsInv, PostedInv, NobodyRemoved
<1>3. ASSUME order' = order
      PROVE  \A c \in Client : /\ Posted(c)' = Posted(c)
                               /\ \A n \in Posted(c) : order'[n] = order[n]
      BY <1>3 DEF Posted
<1>4. CASE EnqueueCommit /\ Same
  <2>1. order' = Append(order, Commit)
        BY <1>4 DEF EnqueueCommit, enqueue_message
  <2>2. \A c \in Client : /\ Posted(c)' = Posted(c)
                          /\ \A n \in Posted(c) : order'[n] = order[n]
    <3> TAKE c \in Client
    <3>1. PICK m \in Message : m = Commit
          BY NodeTypes
    <3>2. /\ Posted(c)' = Posted(c) \cup
                (IF m # Commit /\ m.from = c THEN {Len(order) + 1} ELSE {})
          /\ \A n \in Posted(c) : order'[n] = order[n]
          BY <1>0, <2>1, <3>1, PostedAppend
    <3> QED BY <3>1, <3>2
  <2> QED BY <1>0, <1>2, <1>4, <2>2, PostedSame
<1>5. CASE order' = order /\ Same
      BY <1>0, <1>2, <1>3, <1>5, PostedSame
<1>6. ASSUME NEW c \in Client, Accept(c)
      PROVE  Posts'
      BY <1>0, <1>2, <1>6, PostedAccept
<1>7. ASSUME NEW j \in 1..Len(clients), Takes(j), order' = order,
             buf[j][1].kind # "reg" \/ LineLen(buf[j]) + Header > MaxMsg
      PROVE  Posts'
  <2>1. PICK m : m = Offset(j)
        OBVIOUS
  <2>2. PICK n : n = m + LineLen(buf[j])
        OBVIOUS
  <2>3. LineLen(buf[j]) + Header > MaxMsg => ~(LineLen(buf[j]) + Header <= MaxMsg)
    <3>1. LineLen(buf[j]) \in Nat /\ Header \in Nat /\ MaxMsg \in Nat
          BY <1>0, <1>7, SlotTypes, LineLenIsFirstNewline, ConstantsAssumption DEF Takes
    <3> QED BY <3>1
  <2>4. RegularLines(Processed(j)') = RegularLines(Processed(j))
        BY <1>0, <1>2, <1>7, <2>1, <2>2, <2>3, TakeKinds DEF Takes
  <2> QED BY <1>0, <1>2, <1>7, <2>4, PostedTaken
<1>8. ASSUME NEW j \in 1..Len(clients), j = slot, Takes(j), Regular
      PROVE  Posts'
  <2>1. buf[j][1].kind = "reg"
        BY <1>8 DEF Regular
  <2>2. CASE LineLen(buf[j]) + Header > MaxMsg
    <3>1. order' = order
          BY <1>8, <2>2 DEF Regular, queueVars
    <3> QED BY <1>7, <1>8, <2>2, <3>1
  <2>3. CASE ~(LineLen(buf[j]) + Header > MaxMsg)
    <3>1. PICK c \in Client : c = clients[j]
          BY <1>0, SlotTypes
    <3>2. Address(clients[slot]) = {c}
          BY <1>0, <1>8, <3>1 DEF Address
    <3>3. PICK msg : msg = [type |-> "reg", from |-> c, data |-> Data(buf[j])]
          OBVIOUS
    <3>4. enqueue_message(msg)
          BY <1>8, <2>3, <3>2, <3>3 DEF Regular
    <3>5. order' = Append(order, msg)
          BY <3>4 DEF enqueue_message
    <3>6. msg \in Message /\ msg # Commit
          BY <1>0, <1>8, <3>2, <3>3, RegularMessage
    <3>7. LineLen(buf[j]) + Header <= MaxMsg
      <4>1. LineLen(buf[j]) \in Nat /\ Header \in Nat /\ MaxMsg \in Nat
            BY <1>0, <1>8, SlotTypes, LineLenIsFirstNewline, ConstantsAssumption DEF Takes
      <4> QED BY <2>3, <4>1
    <3> QED BY <1>0, <1>2, <1>8, <2>1, <3>1, <3>3, <3>5, <3>6, <3>7, PostedLine
  <2> QED BY <2>2, <2>3
<1>9. ASSUME NEW j \in 1..Len(clients), j = slot, Takes(j), Discard \/ Finish \/ WakeWorker,
             (Finish \/ WakeWorker) => EndsExecution(buf[j])
      PROVE  Posts'
  <2>1. order' = order
        BY <1>9 DEF Discard, Finish, WakeWorker, queueVars
  <2>2. buf[j][1].kind # "reg"
        BY <1>9 DEF Discard, EndsExecution
  <2> QED BY <1>7, <1>9, <2>1, <2>2
<1>10. Finish => order' = order
       BY DEF Finish, queueVars
<1>11. CASE /\ Regular \/ Discard
            /\ \E j \in 1..Len(clients) : j = slot /\ Takes(j) /\ ~EndsExecution(buf[j])
  <2>1. PICK j \in 1..Len(clients) : j = slot /\ Takes(j)
        BY <1>11
  <2> QED BY <1>8, <1>9, <1>11, <2>1 DEF Discard, Finish, WakeWorker
<1>12. CASE /\ Finish \/ WakeWorker
            /\ \E j \in 1..Len(clients) :
                 j = slot /\ Takes(j) /\ EndsExecution(buf[j]) /\ Stopping' = FALSE
  <2>1. PICK j \in 1..Len(clients) : j = slot /\ Takes(j) /\ EndsExecution(buf[j])
        BY <1>12
  <2> QED BY <1>9, <1>12, <2>1
<1>13. CASE Same /\ (Finish \/ order' = order \/ EnqueueCommit)
       BY <1>4, <1>5, <1>10, <1>13
<1> QED BY <1>0, <1>6, <1>11, <1>12, <1>13, Effects

LEMMA InitPostedInv == Init => PostedInv
<1> SUFFICES ASSUME Init
             PROVE  PostedInv
    OBVIOUS
<1>1. order = <<>> /\ clients = <<>> /\ peer = [c \in Client |-> "up"]
      BY DEF Init
<1>2. \A c \in Client : Posted(c) = {}
      BY <1>1 DEF Posted
<1> QED BY <1>1, <1>2 DEF PostedInv, Posts

(* The whole invariant, where getpeername() and enqueue_message() succeed. *)
THEOREM PostedInvariance ==
  ASSUME "malloc" \notin Faults, "reset" \notin Faults
  PROVE  Spec => [](IInv /\ LinesInv /\ PostedInv)
<1>1. IInv /\ LinesInv /\ PostedInv /\ [Next]_vars => PostedInv'
      BY PostedStep
<1> QED BY LinesInvariance, InitPostedInv, <1>1, PTL DEF Spec

(* However the bytes of the clients are cut into reads, and whatever else  *)
(* fails, every line that fits is enqueued once, whole and in its client's *)
(* order, as long as main has removed nobody: getpeername() fails only on a *)
(* reset connection, and enqueue_message only without memory (190-308).    *)
THEOREM Reassembles ==
  ASSUME "malloc" \notin Faults, "reset" \notin Faults
  PROVE  Spec => []Reassembly
<1>1. IInv /\ LinesInv /\ PostedInv => Reassembly
  <2> SUFFICES ASSUME IInv, LinesInv, PostedInv, NobodyRemoved, NEW i \in 1..Len(clients)
               PROVE  PostedInOrder(clients[i], Processed(i))
      BY DEF Reassembly
  <2>1. PICK c \in Client : c = clients[i]
        BY SlotTypes DEF IInv
  <2>2. PICK p \in Seq(Kind) : p = Processed(i)
        BY OffsetTypes DEF IInv, LinesInv, SlotsInv
  <2>3. PostedInOrder(c, p)
        BY <2>1, <2>2 DEF PostedInv, Posts
  <2> QED BY <2>1, <2>2, <2>3
<1> QED BY PostedInvariance, <1>1, PTL
=============================================================================
