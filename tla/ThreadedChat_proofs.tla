------------------------ MODULE ThreadedChat_proofs ------------------------
(***************************************************************************)
(* The locks, the commit, the list, the broadcasts and the shutdown of     *)
(* servertest.c, for any number of clients, lines and list slots.          *)
(***************************************************************************)
EXTENDS ThreadedChat, SequenceTheorems, FiniteSetTheorems, TLAPS

(* Where the threads are.                                                  *)
Critical == {"count", "test", "stop", "signal"}

PlaceType ==
  /\ io \in [Client -> {"none", "loop", "read", "handle", "stopped", "close", "remove",
                        "returned"} \cup Critical]
  /\ pcW \in {"loop", "dequeue", "test queue", "wait", "waiting", "woken", "lock list",
              "write", "done"}
  /\ pcM \in {"poll", "signal", "join acceptor", "lock", "join io", "join worker"}

(* client_list_lock is held by the I/O thread that counts a Type 1, by the *)
(* worker while it writes, or by main while it joins.                      *)
ListLockInv ==
  /\ \A c \in Client : io[c] \in Critical <=> clientLock = c
  /\ pcW = "write" <=> clientLock = Worker
  /\ pcM = "join io" <=> clientLock = MainThread

(* queue_lock is held between two steps by the worker only.                *)
QueueLockInv == pcW \in {"test queue", "wait"} <=> queueLock # Nobody

LockInv == PlaceType /\ ListLockInv /\ QueueLockInv

LEMMA Names ==
  /\ \A c \in Client : c # Nobody /\ c # Worker /\ c # MainThread
  /\ Nobody # Worker /\ Nobody # MainThread /\ Worker # MainThread
BY ThreadedAssumption DEF Nobody, Worker, MainThread

LEMMA InitLocks == Init => LockInv
BY Names DEF Init, LockInv, PlaceType, ListLockInv, QueueLockInv, Critical

LEMMA IOKeepsLocks ==
  ASSUME LockInv, NEW c \in Client, run_client_io(c)
  PROVE  LockInv'
<1> USE Names DEF LockInv, PlaceType, ListLockInv, QueueLockInv, Critical, workerVars, mainVars,
                  Signalled
<1>1. CASE LoopTest(c)
      BY <1>1 DEF LoopTest
<1>2. CASE Read(c)
      BY <1>2 DEF Read
<1>3. CASE AllHandled(c)
      BY <1>3 DEF AllHandled
<1>4. CASE Regular(c)
      BY <1>4 DEF Regular, enqueue_message
<1>5. CASE Discard(c)
      BY <1>5 DEF Discard
<1>6. CASE LockCount(c)
      BY <1>6 DEF LockCount
<1>7. CASE Count(c)
      BY <1>7 DEF Count
<1>8. CASE NotLast(c)
      BY <1>8 DEF NotLast
<1>9. CASE EnqueueCommit(c)
      BY <1>9 DEF EnqueueCommit, enqueue_message
<1>10. CASE StopRunning(c)
      BY <1>10 DEF StopRunning
<1>11. CASE SignalAndReturn(c)
      BY <1>11 DEF SignalAndReturn
<1>12. CASE CloseConnection(c)
      BY <1>12 DEF CloseConnection
<1>13. CASE remove_client(c)
      BY <1>13 DEF remove_client
<1> QED BY <1>1, <1>2, <1>3, <1>4, <1>5, <1>6, <1>7, <1>8, <1>9, <1>10, <1>11, <1>12, <1>13
        DEF run_client_io

LEMMA WorkerKeepsLocks ==
  ASSUME LockInv, broadcast_worker \/ SpuriousWake \/ WriteKills
  PROVE  LockInv'
<1> USE Names DEF LockInv, PlaceType, ListLockInv, QueueLockInv, Critical, ioVars, workerVars,
                  mainVars
<1>1. CASE WorkerTest
      BY <1>1 DEF WorkerTest
<1>2. CASE LockQueue
      BY <1>2 DEF LockQueue
<1>3. CASE TestQueue
      BY <1>3 DEF TestQueue
<1>4. CASE CondWait
      BY <1>4 DEF CondWait
<1>5. CASE Dequeue
      BY <1>5 DEF Dequeue
<1>6. CASE LockList
      BY <1>6 DEF LockList
<1>7. CASE Write
      BY <1>7 DEF Write
<1>8. CASE EndBroadcast
      BY <1>8 DEF EndBroadcast
<1>9. CASE SpuriousWake
      BY <1>9 DEF SpuriousWake
<1>10. CASE WriteKills
      BY <1>10 DEF WriteKills
<1> QED BY <1>1, <1>2, <1>3, <1>4, <1>5, <1>6, <1>7, <1>8, <1>9, <1>10 DEF broadcast_worker

LEMMA AcceptorKeepsLocks ==
  ASSUME LockInv, run_acceptor \/ AcceptFails \/ MallocFails,
         pcA = "lock" => new \in Client /\ io[new] = "none"
  PROVE  LockInv'
<1> USE Names DEF LockInv, PlaceType, ListLockInv, QueueLockInv, Critical, ioVars, workerVars,
                  mainVars
<1>1. CASE AcceptorTest
      BY <1>1 DEF AcceptorTest
<1>2. CASE Accept
      BY <1>2 DEF Accept
<1>3. CASE NoConnection
      BY <1>3 DEF NoConnection
<1>4. CASE AddClient
      BY <1>4 DEF AddClient
<1>5. CASE RejectClient
      BY <1>5 DEF RejectClient
<1>6. CASE AcceptFails
      BY <1>6 DEF AcceptFails
<1>7. CASE MallocFails
      BY <1>7 DEF MallocFails
<1> QED BY <1>1, <1>2, <1>3, <1>4, <1>5, <1>6, <1>7 DEF run_acceptor

LEMMA MainKeepsLocks ==
  ASSUME LockInv, main
  PROVE  LockInv'
<1> USE Names DEF LockInv, PlaceType, ListLockInv, QueueLockInv, Critical, ioVars, workerVars,
                  mainVars
<1>1. CASE PollRunning
      BY <1>1 DEF PollRunning
<1>2. CASE SignalWorker
      BY <1>2 DEF SignalWorker, Signalled
<1>3. CASE JoinAcceptor
      BY <1>3 DEF JoinAcceptor
<1>4. CASE LockToJoin
      BY <1>4 DEF LockToJoin
<1>5. CASE JoinThread
      BY <1>5 DEF JoinThread
<1>6. CASE AllJoined
      BY <1>6 DEF AllJoined
<1>7. CASE JoinWorkerAndExit
      BY <1>7 DEF JoinWorkerAndExit
<1> QED BY <1>1, <1>2, <1>3, <1>4, <1>5, <1>6, <1>7 DEF main

-----------------------------------------------------------------------------
(* The descriptors.  A thread that has not closed it has its descriptor to *)
(* itself; so has the acceptor the one it has just been given.             *)
LiveIO == {"loop", "read", "handle", "stopped", "close"} \cup Critical

FdInv ==
  /\ fd \in [Client -> {0} \cup Fds]
  /\ open \in [Fds -> Client \cup {Nobody}]
  /\ \A c \in Client : io[c] \in LiveIO => fd[c] \in Fds /\ open[fd[c]] = c
  /\ \A c \in Client : io[c] # "none" => fd[c] \in Fds
  /\ pcA = "lock" => new \in Client /\ io[new] = "none" /\ fd[new] \in Fds /\ open[fd[new]] = new

LEMMA InitFds == Init => FdInv
BY DEF Init, FdInv, LiveIO, Critical

LEMMA FdsPositive == 0 \notin Fds
BY ThreadedAssumption, FS_CardinalityType DEF Fds

LEMMA StepKeepsFds ==
  ASSUME LockInv, FdInv, [Next]_vars
  PROVE  FdInv'
<1> USE Names DEF FdInv, LiveIO, Critical
<1>0. io \in [Client -> {"none", "loop", "read", "handle", "stopped", "close", "remove",
                         "returned"} \cup Critical]
      BY DEF LockInv, PlaceType
<1>1. ASSUME NEW c \in Client, IOThread(c)
      PROVE  FdInv'
  <2> USE <1>0
  <2>1. CASE CloseConnection(c)
    <3>1. io[c] = "close" /\ open' = [open EXCEPT ![fd[c]] = Nobody]
          /\ io' = [io EXCEPT ![c] = "remove"] /\ UNCHANGED <<fd, pcA, new>>
          BY <2>1 DEF CloseConnection, accVars
    <3>2. \A d \in Client : d # c /\ fd[d] \in Fds /\ open[fd[d]] = d => fd[d] # fd[c]
          BY <3>1
    <3> QED BY <3>1, <3>2
  <2>2. CASE LoopTest(c) \/ Read(c) \/ AllHandled(c)
        BY <2>2 DEF LoopTest, Read, AllHandled, accVars
  <2>3. CASE Regular(c) \/ Discard(c)
        BY <2>3 DEF Regular, Discard, accVars
  <2>4. CASE LockCount(c) \/ Count(c) \/ NotLast(c)
        BY <2>4 DEF LockCount, Count, NotLast, accVars
  <2>5. CASE EnqueueCommit(c) \/ StopRunning(c) \/ SignalAndReturn(c)
        BY <2>5 DEF EnqueueCommit, StopRunning, SignalAndReturn, accVars
  <2>6. CASE remove_client(c)
        BY <2>6 DEF remove_client, accVars
  <2> QED BY <1>1, <2>1, <2>2, <2>3, <2>4, <2>5, <2>6 DEF IOThread, run_client_io
<1>2. CASE WorkerThread \/ Main
  <2>1. UNCHANGED <<io, fd, open, pcA, new>>
        BY <1>2 DEF WorkerThread, broadcast_worker, WorkerTest, LockQueue, TestQueue, CondWait,
           Dequeue, LockList, Write, EndBroadcast, Main, main, PollRunning, SignalWorker,
           JoinAcceptor, LockToJoin, JoinThread, AllJoined, JoinWorkerAndExit, ioVars, accVars
  <2> QED BY <2>1
<1>3. CASE Acceptor
  <2>1. CASE Accept
    <3>1. PICK c \in Client, f \in Fds :
            /\ fd[c] = 0 /\ open[f] = Nobody
            /\ open' = [open EXCEPT ![f] = c] /\ fd' = [fd EXCEPT ![c] = f]
            /\ new' = c /\ pcA' = "lock" /\ UNCHANGED io
          BY <2>1 DEF Accept, LowestFree
    <3>2. io[c] = "none"
          BY <3>1, FdsPositive
    <3> QED BY <1>0, <3>1, <3>2
  <2>2. CASE AddClient
    <3>1. /\ pcA = "lock" /\ pcA' = "loop" /\ io' = [io EXCEPT ![new] = "loop"]
          /\ UNCHANGED <<fd, open>>
          BY <2>2 DEF AddClient
    <3> QED BY <1>0, <3>1
  <2>3. CASE RejectClient
    <3>1. /\ pcA = "lock" /\ pcA' = "loop" /\ open' = [open EXCEPT ![fd[new]] = Nobody]
          /\ UNCHANGED <<fd, io>>
          BY <2>3 DEF RejectClient, ioVars
    <3>2. \A d \in Client : d # new /\ fd[d] \in Fds /\ open[fd[d]] = d => fd[d] # fd[new]
          BY <3>1
    <3> QED BY <3>1, <3>2
  <2>4. CASE AcceptorTest \/ NoConnection
        BY <2>4 DEF AcceptorTest, NoConnection, ioVars
  <2> QED BY <1>3, <2>1, <2>2, <2>3, <2>4 DEF Acceptor, run_acceptor
<1>4. CASE Fault
      BY <1>4 DEF Fault, SpuriousWake, WriteKills, AcceptFails, MallocFails, ioVars, accVars
<1>5. CASE UNCHANGED vars
      BY <1>5 DEF vars, ioVars, accVars
<1> QED BY <1>1, <1>2, <1>3, <1>4, <1>5 DEF Next

LEMMA StepKeepsLocks ==
  ASSUME LockInv, FdInv, [Next]_vars
  PROVE  LockInv'
<1>1. ASSUME NEW c \in Client, IOThread(c)
      PROVE  LockInv'
      BY <1>1, IOKeepsLocks DEF IOThread
<1>2. CASE UNCHANGED vars
      BY <1>2 DEF vars, ioVars, workerVars, mainVars, LockInv, PlaceType, ListLockInv, QueueLockInv
<1>3. pcA = "lock" => new \in Client /\ io[new] = "none"
      BY DEF FdInv
<1> QED BY <1>1, <1>2, <1>3, WorkerKeepsLocks, AcceptorKeepsLocks, MainKeepsLocks
        DEF Next, WorkerThread, Acceptor, Main, Fault

-----------------------------------------------------------------------------
(* The worker is awake once main has signalled: main holds no lock then,   *)
(* and the flag it waits for is down for good.                             *)
AwakeInv == (pcM # "poll" => ~running) /\ AwakeAtTheEnd

LEMMA InitAwake == Init => AwakeInv
BY DEF Init, AwakeInv, AwakeAtTheEnd

(* Nobody lifts the flag again.                                            *)
LEMMA FlagStaysDown ==
  ASSUME pcM # "poll" => ~running, [Next]_vars
  PROVE  (pcM # "poll" => ~running)'
<1>1. ASSUME NEW c \in Client, IOThread(c)
      PROVE  UNCHANGED pcM /\ (running' = running \/ running' = FALSE)
      BY <1>1 DEF IOThread, run_client_io, LoopTest, Read, AllHandled, Regular, Discard,
         LockCount, Count, NotLast, EnqueueCommit, StopRunning, SignalAndReturn,
         CloseConnection, remove_client, mainVars
<1>2. CASE WorkerThread
      BY <1>2 DEF WorkerThread, broadcast_worker, WorkerTest, LockQueue, TestQueue, CondWait,
         Dequeue, LockList, Write, EndBroadcast, mainVars
<1>3. CASE Acceptor \/ Fault
  <2>1. UNCHANGED pcM /\ (running' = running \/ running' = FALSE)
        BY <1>3 DEF Acceptor, run_acceptor, AcceptorTest, Accept, NoConnection, AddClient,
           RejectClient, Fault, SpuriousWake, WriteKills, AcceptFails, MallocFails, mainVars
  <2> QED BY <2>1
<1>4. CASE Main
  <2>1. UNCHANGED running /\ (pcM = "poll" => ~running)
        BY <1>4 DEF Main, main, PollRunning, SignalWorker, JoinAcceptor, LockToJoin, JoinThread,
           AllJoined, JoinWorkerAndExit, mainVars
  <2> QED BY <2>1
<1>5. CASE UNCHANGED vars
      BY <1>5 DEF vars, mainVars
<1> QED BY <1>1, <1>2, <1>3, <1>4, <1>5 DEF Next

LEMMA StepKeepsAwake ==
  ASSUME LockInv, AwakeInv, [Next]_vars
  PROVE  AwakeInv'
<1> DEFINE Past == pcM \notin {"poll", "signal"}
           Asleep == pcW \in {"wait", "waiting"}
<1>0. (Past => ~running /\ ~Asleep) /\ (pcM # "poll" => ~running)
      BY DEF AwakeInv, AwakeAtTheEnd
<1>1. ASSUME NEW c \in Client, IOThread(c)
      PROVE  Past' = Past /\ (Asleep' => Asleep)
      BY <1>1 DEF IOThread, run_client_io, LoopTest, Read, AllHandled, Regular, Discard,
         LockCount, Count, NotLast, EnqueueCommit, StopRunning, SignalAndReturn,
         CloseConnection, remove_client, enqueue_message, Signalled, mainVars, workerVars
<1>2. ASSUME WorkerThread
      PROVE  Past' = Past /\ (Asleep' => Asleep \/ running)
      BY <1>2 DEF WorkerThread, broadcast_worker, WorkerTest, LockQueue, TestQueue, CondWait,
         Dequeue, LockList, Write, EndBroadcast, mainVars
<1>3. ASSUME Acceptor \/ Fault
      PROVE  Past' = Past /\ (Asleep' => Asleep)
      BY <1>3 DEF Acceptor, run_acceptor, AcceptorTest, Accept, NoConnection, AddClient,
         RejectClient, Fault, SpuriousWake, WriteKills, AcceptFails, MallocFails, mainVars,
         workerVars
<1>4. ASSUME SignalWorker
      PROVE  ~Asleep'
  <2>1. queueLock = Nobody
        BY <1>4 DEF SignalWorker
  <2>2. pcW # "wait" /\ pcW' = Signalled
        BY <1>4, <2>1 DEF SignalWorker, LockInv, QueueLockInv
  <2> QED BY <2>2 DEF Signalled
<1>5. ASSUME Main, ~SignalWorker
      PROVE  (Past' => Past) /\ (Asleep' => Asleep)
      BY <1>5 DEF Main, main, PollRunning, JoinAcceptor, LockToJoin, JoinThread, AllJoined,
         JoinWorkerAndExit, mainVars, workerVars
<1>6. ASSUME UNCHANGED vars
      PROVE  Past' = Past /\ (Asleep' => Asleep)
      BY <1>6 DEF vars, mainVars, workerVars
<1>7. Past' => ~Asleep'
      BY <1>0, <1>1, <1>2, <1>3, <1>4, <1>5, <1>6 DEF Next
<1>8. (pcM # "poll" => ~running)'
      BY <1>0, FlagStaysDown
<1> QED BY <1>7, <1>8 DEF AwakeInv, AwakeAtTheEnd

-----------------------------------------------------------------------------
(* The commit: whoever tests the count after it has been enqueued finds    *)
(* more than expected.                                                     *)
Commit(n) == n \in 1..Len(order) /\ order[n] = "end"

CommitInv ==
  /\ order \in Seq(Kind) /\ finished \in Nat
  /\ \A n, m : Commit(n) /\ Commit(m) => n = m
  /\ \A n : Commit(n) => finished >= Expected
  /\ \A n : \A c \in Client : Commit(n) /\ io[c] = "test" => finished > Expected

LEMMA CommitIsOne == CommitInv => OneCommit
BY DEF CommitInv, Commit, OneCommit

LEMMA InitCommit == Init => CommitInv
BY DEF Init, CommitInv, Commit

LEMMA AppendToOrder ==
  ASSUME order \in Seq(Kind), NEW k \in Kind, order' = Append(order, k)
  PROVE  /\ order' \in Seq(Kind)
         /\ \A n : Commit(n)' <=> Commit(n) \/ (n = Len(order) + 1 /\ k = "end")
<1>1. /\ order' \in Seq(Kind) /\ Len(order') = Len(order) + 1 /\ Len(order) \in Nat
      /\ order'[Len(order) + 1] = k
      /\ \A n \in 1..Len(order) : order'[n] = order[n]
      BY AppendProperties
<1>2. \A n : n \in 1..Len(order') <=> n \in 1..Len(order) \/ n = Len(order) + 1
      BY <1>1
<1>3. Len(order) + 1 \notin 1..Len(order)
      BY <1>1
<1> QED BY <1>1, <1>2, <1>3 DEF Commit

LEMMA StepKeepsCommit ==
  ASSUME LockInv, FdInv, CommitInv, [Next]_vars
  PROVE  CommitInv'
<1>0. /\ io \in [Client -> {"none", "loop", "read", "handle", "stopped", "close", "remove",
                            "returned"} \cup Critical]
      /\ Expected \in Nat
  <2>1. Expected \in 1..MaxClients /\ MaxClients \in Nat
        BY ThreadedAssumption
  <2>2. Expected \in Nat
        BY <2>1
  <2> QED BY <2>2 DEF LockInv, PlaceType
<1>1. ASSUME UNCHANGED <<order, finished>>,
             \A c \in Client : io'[c] = "test" => io[c] = "test"
      PROVE  CommitInv'
      BY <1>1 DEF CommitInv, Commit
<1>2. ASSUME NEW c \in Client, IOThread(c)
      PROVE  CommitInv'
  <2>1. CASE LoopTest(c) \/ Read(c) \/ AllHandled(c) \/ Discard(c) \/ LockCount(c) \/ NotLast(c)
        BY <1>0, <1>1, <2>1 DEF LoopTest, Read, AllHandled, Discard, LockCount, NotLast, queueVars
  <2>2. CASE StopRunning(c) \/ SignalAndReturn(c) \/ CloseConnection(c) \/ remove_client(c)
        BY <1>0, <1>1, <2>2 DEF StopRunning, SignalAndReturn, CloseConnection, remove_client,
           queueVars
  <2>3. CASE Regular(c)
    <3>1. order' = Append(order, "reg") /\ UNCHANGED <<finished, io>>
          BY <2>3 DEF Regular, enqueue_message
    <3>2. "reg" \in Kind /\ order \in Seq(Kind)
          BY DEF Kind, CommitInv
    <3>3. order' \in Seq(Kind) /\ \A n : Commit(n)' <=> Commit(n)
          BY <3>1, <3>2, AppendToOrder
    <3> QED BY <3>1, <3>3 DEF CommitInv
  <2>4. CASE Count(c)
    <3>1. finished' = finished + 1 /\ UNCHANGED order /\ io' = [io EXCEPT ![c] = "test"]
          BY <2>4 DEF Count, queueVars
    <3>2. \A n : Commit(n)' <=> Commit(n)
          BY <3>1 DEF Commit
    <3> QED BY <1>0, <3>1, <3>2 DEF CommitInv
  <2>5. CASE EnqueueCommit(c)
    <3>1. /\ io[c] = "test" /\ finished = Expected
          /\ order' = Append(order, "end") /\ finished' = finished
          /\ io' = [io EXCEPT ![c] = "stop"]
          BY <2>5 DEF EnqueueCommit, AllFinished, enqueue_message
    <3>2. \A n : ~Commit(n)
          BY <3>1, <1>0 DEF CommitInv
    <3>3. \A d \in Client : io'[d] # "test"
          <4>1. \A d \in Client : io[d] = "test" => d = c
                BY <3>1 DEF LockInv, ListLockInv, Critical
          <4> QED BY <1>0, <3>1, <4>1
    <3>4. "end" \in Kind /\ order \in Seq(Kind)
          BY DEF Kind, CommitInv
    <3>5. order' \in Seq(Kind) /\ \A n : Commit(n)' <=> n = Len(order) + 1
          BY <3>1, <3>2, <3>4, AppendToOrder
    <3> QED BY <1>0, <3>1, <3>3, <3>5 DEF CommitInv
  <2> QED BY <1>2, <2>1, <2>2, <2>3, <2>4, <2>5 DEF IOThread, run_client_io
<1>3. CASE WorkerThread
      BY <1>1, <1>3 DEF WorkerThread, broadcast_worker, WorkerTest, LockQueue, TestQueue, CondWait,
         Dequeue, LockList, Write, EndBroadcast, ioVars, queueVars
<1>4. CASE Acceptor
  <2>1. UNCHANGED <<order, finished>>
        BY <1>4 DEF Acceptor, run_acceptor, AcceptorTest, Accept, NoConnection, AddClient,
           RejectClient, queueVars
  <2>2. UNCHANGED io \/ (io' = [io EXCEPT ![new] = "loop"])
        BY <1>4 DEF Acceptor, run_acceptor, AcceptorTest, Accept, NoConnection, AddClient,
           RejectClient, ioVars
  <2> QED BY <1>0, <1>1, <2>1, <2>2
<1>5. CASE Main \/ Fault
      BY <1>1, <1>5 DEF Main, main, PollRunning, SignalWorker, JoinAcceptor, LockToJoin, JoinThread,
         AllJoined, JoinWorkerAndExit, Fault, SpuriousWake, WriteKills, AcceptFails, MallocFails,
         ioVars, queueVars
<1>6. CASE UNCHANGED vars
      BY <1>1, <1>6 DEF vars, ioVars, queueVars
<1> QED BY <1>2, <1>3, <1>4, <1>5, <1>6 DEF Next

-----------------------------------------------------------------------------
(* The list.  Removal swaps: the entry that goes is replaced by the last.  *)
LEMMA EntriesFinite ==
  ASSUME clients \in Seq(Entry), NEW f
  PROVE  /\ IsFiniteSet(Entries(f)) /\ Cardinality(Entries(f)) \in Nat
         /\ Entries(f) \subseteq 1..Len(clients)
<1>1. Len(clients) \in Nat /\ Entries(f) \subseteq 1..Len(clients)
      BY DEF Entries
<1>2. IsFiniteSet(1..Len(clients))
      BY <1>1, FS_Interval
<1>3. IsFiniteSet(Entries(f))
      BY <1>1, <1>2, FS_Subset
<1> QED BY <1>1, <1>3, FS_CardinalityType

LEMMA UnremovedFinite ==
  ASSUME NEW f
  PROVE  IsFiniteSet(Unremoved(f)) /\ Cardinality(Unremoved(f)) \in Nat
<1>1. Unremoved(f) \subseteq Client /\ IsFiniteSet(Client)
      BY ThreadedAssumption DEF Unremoved
<1>2. IsFiniteSet(Unremoved(f))
      BY <1>1, FS_Subset
<1> QED BY <1>2, FS_CardinalityType

LEMMA RemovedEntries ==
  ASSUME clients \in Seq(Entry), NEW n \in 1..Len(clients), clients' = Without(n)
  PROVE  /\ clients' \in Seq(Entry) /\ Len(clients') = Len(clients) - 1
         /\ \A k \in 1..(Len(clients) - 1) :
              clients'[k] = IF k = n THEN clients[Len(clients)] ELSE clients[k]
<1> DEFINE L == Len(clients)
           s == [clients EXCEPT ![n] = clients[L]]
<1>1. L \in Nat \ {0} /\ L \in 1..L /\ DOMAIN clients = 1..L
      OBVIOUS
<1>2. \A k \in 1..L : clients[k] \in Entry
      BY <1>1
<1>3. \A k \in 1..L : s[k] = IF k = n THEN clients[L] ELSE clients[k]
      BY <1>1
<1>4. \A k \in 1..(L - 1) : s[k] \in Entry
      BY <1>1, <1>2, <1>3
<1>5. clients' = SubSeq(s, 1, L - 1)
      BY DEF Without
<1>6. 1 \in Int /\ L - 1 \in Int
      BY <1>1
<1> HIDE DEF s
<1>7. /\ clients' \in Seq(Entry) /\ Len(clients') = IF 1 <= L - 1 THEN L - 1 - 1 + 1 ELSE 0
      /\ \A k \in 1..(L - 1 - 1 + 1) : clients'[k] = s[1 + k - 1]
      BY <1>4, <1>5, <1>6, SubSeqProperties
<1> HIDE DEF L
<1>8. L - 1 - 1 + 1 = L - 1 /\ (~(1 <= L - 1) => L - 1 = 0)
      BY <1>1
<1>9. Len(clients') = L - 1
      BY <1>7, <1>8
<1>10. ASSUME NEW k \in 1..(L - 1)
       PROVE  clients'[k] = IF k = n THEN clients[L] ELSE clients[k]
  <2>1. k \in 1..L /\ 1 + k - 1 = k
        BY <1>1
  <2>2. clients'[k] = s[k]
        BY <1>7, <1>8, <2>1
  <2> QED BY <1>3, <2>1, <2>2
<1> QED BY <1>7, <1>9, <1>10 DEF L

LEMMA RemoveCounts ==
  ASSUME clients \in Seq(Entry), NEW n \in 1..Len(clients), clients' = Without(n), NEW f
  PROVE  Cardinality(Entries(f)') =
           IF clients[n].fd = f THEN Cardinality(Entries(f)) - 1 ELSE Cardinality(Entries(f))
<1> DEFINE L == Len(clients)
           E == Entries(f)
<1>1. /\ clients' \in Seq(Entry) /\ Len(clients') = L - 1 /\ L \in Nat
      /\ \A k \in 1..(L - 1) : clients'[k] = IF k = n THEN clients[L] ELSE clients[k]
      BY RemovedEntries
<1>2. E' = {k \in 1..(L - 1) : (IF k = n THEN clients[L] ELSE clients[k]).fd = f}
      BY <1>1 DEF Entries
<1>3. E = {k \in 1..L : clients[k].fd = f}
      BY DEF Entries
<1>4. IsFiniteSet(E) /\ Cardinality(E) \in Nat /\ (n \in E <=> clients[n].fd = f)
      BY <1>3, EntriesFinite
<1>5. IsFiniteSet(E \ {L})
      BY <1>4, FS_RemoveElement
<1> HIDE DEF E
<1>6. CASE n = L
  <2>1. E' = E \ {L}
        BY <1>1, <1>2, <1>3, <1>6
  <2> QED BY <1>4, <1>6, <2>1, FS_RemoveElement DEF E
<1>7. CASE n # L /\ clients[L].fd # f
  <2>1. E' = E \ {n}
        BY <1>1, <1>2, <1>3, <1>7
  <2> QED BY <1>4, <2>1, FS_RemoveElement DEF E
<1>8. CASE n # L /\ clients[L].fd = f
  <2>1. E' = (E \ {L}) \cup {n} /\ L \in E
        BY <1>1, <1>2, <1>3, <1>8
  <2>2. Cardinality(E \ {L}) = Cardinality(E) - 1
        BY <1>4, <2>1, FS_RemoveElement
  <2>3. n \in E \ {L} <=> clients[n].fd = f
        BY <1>4, <1>8
  <2>4. Cardinality(E') = IF n \in E \ {L} THEN Cardinality(E \ {L}) ELSE Cardinality(E \ {L}) + 1
        BY <1>5, <2>1, FS_AddElement
  <2> QED BY <1>4, <2>2, <2>3, <2>4 DEF E
<1> QED BY <1>6, <1>7, <1>8

LEMMA AddCounts ==
  ASSUME clients \in Seq(Entry), NEW e \in Entry, clients' = Append(clients, e), NEW f
  PROVE  Cardinality(Entries(f)') =
           IF e.fd = f THEN Cardinality(Entries(f)) + 1 ELSE Cardinality(Entries(f))
<1> DEFINE L == Len(clients)
           E == Entries(f)
<1>1. /\ L \in Nat /\ Len(clients') = L + 1
      /\ \A k \in 1..(L + 1) : clients'[k] = IF k = L + 1 THEN e ELSE clients[k]
      OBVIOUS
<1>2. E' = {k \in 1..(L + 1) : (IF k = L + 1 THEN e ELSE clients[k]).fd = f}
      BY <1>1 DEF Entries
<1>3. E = {k \in 1..L : clients[k].fd = f}
      BY DEF Entries
<1>4. IsFiniteSet(E) /\ Cardinality(E) \in Nat
      BY EntriesFinite
<1>5. L + 1 \notin E
      BY <1>1, <1>3
<1> HIDE DEF E
<1>6. CASE e.fd = f
  <2>1. E' = E \cup {L + 1}
        BY <1>1, <1>2, <1>3, <1>6
  <2> QED BY <1>4, <1>5, <1>6, <2>1, FS_AddElement DEF E
<1>7. CASE e.fd # f
  <2>1. E' = E
        BY <1>1, <1>2, <1>3, <1>7
  <2> QED BY <1>7, <2>1 DEF E
<1> QED BY <1>6, <1>7

-----------------------------------------------------------------------------
(* The list and the threads keep step, though the two change in different  *)
(* steps: an entry has a thread that has still to remove it.               *)
CountInv ==
  /\ clients \in Seq(Entry)
  /\ pcM # "join worker" => \A f \in Fds : Cardinality(Entries(f)) = Cardinality(Unremoved(f))

LEMMA InitCounts == Init => CountInv
<1> SUFFICES ASSUME Init PROVE CountInv
    OBVIOUS
<1>1. clients = <<>> /\ clients \in Seq(Entry)
      BY DEF Init
<1>2. \A f : Entries(f) = {} /\ Unremoved(f) = {}
      BY <1>1 DEF Init, Entries, Unremoved
<1> QED BY <1>1, <1>2 DEF CountInv

(* A step that changes neither the list, nor the descriptor of a thread    *)
(* that has one to remove, nor which threads have.                         *)
LEMMA SameCounts ==
  ASSUME CountInv, UNCHANGED clients, pcM = "join worker" => pcM' = "join worker",
         \A c \in Client : io'[c] \in {"none", "returned"} <=> io[c] \in {"none", "returned"},
         \A c \in Client : io[c] # "none" => fd'[c] = fd[c]
  PROVE  CountInv'
<1>1. \A f : Entries(f)' = Entries(f)
      BY DEF Entries
<1>2. \A f : Unremoved(f)' = Unremoved(f)
      BY DEF Unremoved
<1> QED BY <1>1, <1>2 DEF CountInv

LEMMA RemoveKeepsCounts ==
  ASSUME LockInv, FdInv, CountInv, NEW c \in Client, remove_client(c)
  PROVE  CountInv'
<1>1. /\ io[c] = "remove" /\ clientLock = Nobody
      /\ io' = [io EXCEPT ![c] = "returned"] /\ UNCHANGED <<fd, pcM>>
      BY DEF remove_client, mainVars
<1>2. io \in [Client -> {"none", "loop", "read", "handle", "stopped", "close", "remove",
                         "returned"} \cup Critical]
      BY DEF LockInv, PlaceType
<1>3. fd[c] \in Fds
      BY <1>1 DEF FdInv
<1>4. \A f : Unremoved(f)' = Unremoved(f) \ {c}
      BY <1>1, <1>2 DEF Unremoved
<1>5. \A f : c \in Unremoved(f) <=> fd[c] = f
      BY <1>1 DEF Unremoved
<1>6. \A f : Cardinality(Unremoved(f)') =
              IF fd[c] = f THEN Cardinality(Unremoved(f)) - 1 ELSE Cardinality(Unremoved(f))
      BY <1>4, <1>5, UnremovedFinite, FS_RemoveElement
<1>7. CASE Entries(fd[c]) = {}
  <2>1. UNCHANGED clients
        BY <1>7 DEF remove_client
  <2>2. clients \in Seq(Entry)
        BY DEF CountInv
  <2>3. pcM = "join worker"
    <3>1. SUFFICES ASSUME pcM # "join worker" PROVE FALSE
          OBVIOUS
    <3>2. Cardinality(Unremoved(fd[c])) = 0
          BY <1>3, <1>7, <3>1, FS_EmptySet DEF CountInv
    <3> QED BY <1>5, <3>2, UnremovedFinite, FS_EmptySet
  <2> QED BY <1>1, <2>1, <2>2, <2>3 DEF CountInv
<1>8. CASE Entries(fd[c]) # {}
  <2>1. PICK n \in Entries(fd[c]) : clients' = Without(n)
        BY <1>8 DEF remove_client
  <2>2. n \in 1..Len(clients) /\ clients[n].fd = fd[c] /\ clients \in Seq(Entry)
        BY <2>1 DEF Entries, CountInv
  <2>3. clients' \in Seq(Entry)
        BY <2>1, <2>2, RemovedEntries
  <2>4. \A f : Cardinality(Entries(f)') =
                IF fd[c] = f THEN Cardinality(Entries(f)) - 1 ELSE Cardinality(Entries(f))
        BY <2>1, <2>2, RemoveCounts
  <2> QED BY <1>1, <1>6, <2>3, <2>4 DEF CountInv
<1> QED BY <1>7, <1>8

LEMMA AddKeepsCounts ==
  ASSUME LockInv, FdInv, CountInv, AddClient
  PROVE  CountInv'
<1>1. /\ pcA = "lock" /\ clients' = Append(clients, [fd |-> fd[new], io |-> new])
      /\ io' = [io EXCEPT ![new] = "loop"] /\ UNCHANGED <<fd, pcM>>
      BY DEF AddClient, mainVars
<1>2. io \in [Client -> {"none", "loop", "read", "handle", "stopped", "close", "remove",
                         "returned"} \cup Critical]
      BY DEF LockInv, PlaceType
<1>3. new \in Client /\ io[new] = "none" /\ fd[new] \in Fds
      BY <1>1 DEF FdInv
<1>4. [fd |-> fd[new], io |-> new] \in Entry /\ clients \in Seq(Entry)
      BY <1>3 DEF Entry, CountInv
<1>5. clients' \in Seq(Entry)
      BY <1>1, <1>4
<1>6. \A f : Cardinality(Entries(f)') =
              IF fd[new] = f THEN Cardinality(Entries(f)) + 1 ELSE Cardinality(Entries(f))
      BY <1>1, <1>4, AddCounts
<1>7. \A f : /\ new \notin Unremoved(f)
             /\ Unremoved(f)' = IF fd[new] = f THEN Unremoved(f) \cup {new} ELSE Unremoved(f)
      BY <1>1, <1>2, <1>3 DEF Unremoved
<1>8. \A f : Cardinality(Unremoved(f)') =
              IF fd[new] = f THEN Cardinality(Unremoved(f)) + 1 ELSE Cardinality(Unremoved(f))
      BY <1>7, UnremovedFinite, FS_AddElement
<1> QED BY <1>1, <1>5, <1>6, <1>8 DEF CountInv

LEMMA StepKeepsCounts ==
  ASSUME LockInv, FdInv, CountInv, [Next]_vars
  PROVE  CountInv'
<1>0. io \in [Client -> {"none", "loop", "read", "handle", "stopped", "close", "remove",
                         "returned"} \cup Critical]
      BY DEF LockInv, PlaceType
<1>1. ASSUME NEW c \in Client, IOThread(c)
      PROVE  CountInv'
  <2>1. CASE LoopTest(c) \/ Read(c) \/ AllHandled(c)
        BY <1>0, <2>1, SameCounts DEF LoopTest, Read, AllHandled, mainVars
  <2>2. CASE Regular(c) \/ Discard(c) \/ LockCount(c)
        BY <1>0, <2>2, SameCounts DEF Regular, Discard, LockCount, mainVars
  <2>3. CASE Count(c) \/ NotLast(c) \/ EnqueueCommit(c)
        BY <1>0, <2>3, SameCounts DEF Count, NotLast, EnqueueCommit, mainVars
  <2>4. CASE StopRunning(c) \/ SignalAndReturn(c) \/ CloseConnection(c)
        BY <1>0, <2>4, SameCounts DEF StopRunning, SignalAndReturn, CloseConnection, mainVars
  <2> QED BY <1>1, <2>1, <2>2, <2>3, <2>4, RemoveKeepsCounts DEF IOThread, run_client_io
<1>2. CASE WorkerThread
  <2>1. UNCHANGED <<clients, io, fd, pcM>>
        BY <1>2 DEF WorkerThread, broadcast_worker, WorkerTest, LockQueue, TestQueue, CondWait,
           Dequeue, LockList, Write, EndBroadcast, ioVars, mainVars
  <2> QED BY <2>1, SameCounts
<1>3. CASE Acceptor
  <2>1. CASE Accept
    <3>1. PICK c \in Client, f \in Fds :
            /\ fd[c] = 0 /\ fd' = [fd EXCEPT ![c] = f] /\ UNCHANGED <<clients, io, pcM>>
          BY <2>1 DEF Accept, LowestFree, mainVars
    <3>2. io[c] = "none"
          BY <3>1, FdsPositive DEF FdInv
    <3> QED BY <3>1, <3>2, SameCounts DEF FdInv
  <2>2. CASE AcceptorTest \/ NoConnection \/ RejectClient
    <3>1. UNCHANGED <<clients, io, fd, pcM>>
          BY <2>2 DEF AcceptorTest, NoConnection, RejectClient, ioVars, mainVars
    <3> QED BY <3>1, SameCounts
  <2> QED BY <1>3, <2>1, <2>2, AddKeepsCounts DEF Acceptor, run_acceptor
<1>4. CASE Main
  <2>1. CASE AllJoined
    <3>1. clients' = <<>> /\ pcM' = "join worker"
          BY <2>1 DEF AllJoined
    <3>2. <<>> \in Seq(Entry)
          OBVIOUS
    <3> QED BY <3>1, <3>2 DEF CountInv
  <2>2. CASE PollRunning \/ SignalWorker \/ JoinAcceptor \/ LockToJoin \/ JoinThread
             \/ JoinWorkerAndExit
    <3>1. UNCHANGED <<clients, io, fd>> /\ (pcM = "join worker" => pcM' = "join worker")
          BY <2>2 DEF PollRunning, SignalWorker, JoinAcceptor, LockToJoin, JoinThread,
             JoinWorkerAndExit, ioVars, mainVars
    <3> QED BY <3>1, SameCounts
  <2> QED BY <1>4, <2>1, <2>2 DEF Main, main
<1>5. CASE Fault
  <2>1. UNCHANGED <<clients, io, fd, pcM>>
        BY <1>5 DEF Fault, SpuriousWake, WriteKills, AcceptFails, MallocFails, ioVars, mainVars
  <2> QED BY <2>1, SameCounts
<1>6. CASE UNCHANGED vars
  <2>1. UNCHANGED <<clients, io, fd, pcM>>
        BY <1>6 DEF vars, ioVars, mainVars
  <2> QED BY <2>1, SameCounts
<1> QED BY <1>1, <1>2, <1>3, <1>4, <1>5, <1>6 DEF Next

-----------------------------------------------------------------------------
(* A buffer holds lines, and keeps the Type 1 that is being counted until  *)
(* the count is done.                                                      *)
BufInv ==
  /\ buf \in [Client -> Seq(Kind)]
  /\ \A c \in Client : io[c] \in {"count", "test"} => buf[c] # <<>>

LEMMA InitBuf == Init => BufInv
BY DEF Init, BufInv

(* The thread that takes a line has one.                                   *)
LEMMA TailKeepsBuf ==
  ASSUME LockInv, BufInv, NEW c \in Client, buf[c] # <<>>,
         buf' = [buf EXCEPT ![c] = Tail(@)], io'[c] = "handle",
         \A d \in Client \ {c} : io'[d] = io[d]
  PROVE  BufInv'
<1>1. Tail(buf[c]) \in Seq(Kind)
      BY DEF BufInv
<1> QED BY <1>1 DEF BufInv

LEMMA StepKeepsBuf ==
  ASSUME LockInv, FdInv, BufInv, [Next]_vars
  PROVE  BufInv'
<1>0. io \in [Client -> {"none", "loop", "read", "handle", "stopped", "close", "remove",
                         "returned"} \cup Critical]
      BY DEF LockInv, PlaceType
<1>1. ASSUME NEW c \in Client, IOThread(c)
      PROVE  BufInv'
  <2>1. CASE LoopTest(c) \/ AllHandled(c) \/ LockCount(c) \/ Count(c)
        BY <1>0, <2>1 DEF LoopTest, AllHandled, LockCount, Count, BufInv
  <2>2. CASE Read(c)
    <3>1. \A n \in 1..(MaxLines - nread) : \A s \in [1..n -> Kind] : s \in Seq(Kind)
          OBVIOUS
    <3> QED BY <1>0, <2>2, <3>1 DEF Read, BufInv
  <2>3. CASE Regular(c) \/ Discard(c) \/ NotLast(c)
    <3>1. /\ buf[c] # <<>> /\ buf' = [buf EXCEPT ![c] = Tail(@)] /\ io'[c] = "handle"
          /\ \A d \in Client \ {c} : io'[d] = io[d]
          BY <1>0, <2>3 DEF Regular, Discard, NotLast, BufInv
    <3> QED BY <3>1, TailKeepsBuf
  <2>4. CASE EnqueueCommit(c) \/ StopRunning(c) \/ remove_client(c)
        BY <1>0, <2>4 DEF EnqueueCommit, StopRunning, remove_client, BufInv
  <2>5. CASE SignalAndReturn(c) \/ CloseConnection(c)
    <3>1. <<>> \in Seq(Kind)
          OBVIOUS
    <3> QED BY <1>0, <2>5, <3>1 DEF SignalAndReturn, CloseConnection, BufInv
  <2> QED BY <1>1, <2>1, <2>2, <2>3, <2>4, <2>5 DEF IOThread, run_client_io
<1>2. CASE WorkerThread \/ Main \/ Fault
  <2>1. UNCHANGED <<io, buf>>
        BY <1>2 DEF WorkerThread, broadcast_worker, WorkerTest, LockQueue, TestQueue, CondWait,
           Dequeue, LockList, Write, EndBroadcast, Main, main, PollRunning, SignalWorker,
           JoinAcceptor, LockToJoin, JoinThread, AllJoined, JoinWorkerAndExit, Fault,
           SpuriousWake, WriteKills, AcceptFails, MallocFails, ioVars
  <2> QED BY <2>1 DEF BufInv
<1>3. CASE Acceptor
  <2>1. UNCHANGED buf /\ (UNCHANGED io \/ io' = [io EXCEPT ![new] = "loop"])
        BY <1>3 DEF Acceptor, run_acceptor, AcceptorTest, Accept, NoConnection, AddClient,
           RejectClient, ioVars
  <2> QED BY <1>0, <2>1 DEF BufInv
<1>4. CASE UNCHANGED vars
      BY <1>4 DEF vars, ioVars, BufInv
<1> QED BY <1>1, <1>2, <1>3, <1>4 DEF Next

-----------------------------------------------------------------------------
(* The types of what the other parts of the invariant do not name.  The    *)
(* list stays within its slots because room is tested under the lock that  *)
(* the entry is added under.                                               *)
DataInv ==
  /\ proc \in {"up", "exited", "killed"} /\ running \in BOOLEAN
  /\ queue \in Seq(Nat) /\ queueLock \in {Nobody, Worker}
  /\ Len(clients) <= MaxClients
  /\ clientLock \in Client \cup {Nobody, Worker, MainThread}
  /\ node \in Nat /\ i \in Nat \ {0} /\ j \in Nat \ {0} /\ nread \in Nat
  /\ pcA \in {"loop", "accept", "lock", "done"} /\ new \in Client \cup {Nobody}
  /\ received \in [Client -> Seq(Nat)] /\ shared \subseteq Client

LEMMA InitData == Init => DataInv
BY ThreadedAssumption DEF Init, DataInv

LEMMA EnqueueKeepsQueue ==
  ASSUME CommitInv, DataInv, NEW m, enqueue_message(m)
  PROVE  queue' \in Seq(Nat) /\ UNCHANGED <<node, i>>
<1>1. Len(order) + 1 \in Nat /\ queue \in Seq(Nat)
      BY DEF CommitInv, DataInv
<1> QED BY <1>1 DEF enqueue_message

LEMMA IOKeepsData ==
  ASSUME CommitInv, CountInv, DataInv, NEW c \in Client, run_client_io(c)
  PROVE  DataInv'
<1> USE DEF DataInv, workerVars, accVars, mainVars, queueVars
<1>1. CASE LoopTest(c) \/ AllHandled(c) \/ Discard(c) \/ LockCount(c) \/ Count(c)
      BY <1>1 DEF LoopTest, AllHandled, Discard, LockCount, Count
<1>2. CASE Read(c)
  <2>1. \A n \in 1..(MaxLines - nread) : \A s \in [1..n -> Kind] : nread + Len(s) \in Nat
        OBVIOUS
  <2>2. nread' \in Nat
        BY <1>2, <2>1 DEF Read
  <2> QED BY <1>2, <2>2 DEF Read
<1>3. CASE Regular(c) \/ EnqueueCommit(c)
      BY <1>3, EnqueueKeepsQueue DEF Regular, EnqueueCommit
<1>4. CASE NotLast(c) \/ StopRunning(c) \/ SignalAndReturn(c) \/ CloseConnection(c)
      BY <1>4 DEF NotLast, StopRunning, SignalAndReturn, CloseConnection
<1>5. CASE remove_client(c)
  <2>1. clients \in Seq(Entry) /\ MaxClients \in Nat
        BY ThreadedAssumption DEF CountInv
  <2>2. ASSUME NEW n \in 1..Len(clients), clients' = Without(n)
        PROVE  Len(clients') <= MaxClients
    <3>1. Len(clients') = Len(clients) - 1
          BY <2>1, <2>2, RemovedEntries
    <3> QED BY <2>1, <3>1
  <2>3. Len(clients') <= MaxClients
        BY <1>5, <2>2 DEF remove_client, Entries
  <2> QED BY <1>5, <2>3 DEF remove_client
<1> QED BY <1>1, <1>2, <1>3, <1>4, <1>5 DEF run_client_io

LEMMA WorkerKeepsData ==
  ASSUME FdInv, CountInv, DataInv, broadcast_worker
  PROVE  DataInv'
<1> USE DEF DataInv, workerVars, accVars, mainVars, queueVars
<1>1. CASE WorkerTest \/ LockQueue \/ TestQueue \/ CondWait
      BY <1>1 DEF WorkerTest, LockQueue, TestQueue, CondWait
<1>2. CASE Dequeue
  <2>1. Head(queue) \in Nat /\ Tail(queue) \in Seq(Nat)
    <3>1. queue \in Seq(Nat) /\ queue # <<>>
          BY <1>2 DEF Dequeue
    <3> QED BY <3>1, HeadTailProperties
  <2> QED BY <1>2, <2>1 DEF Dequeue
<1>3. CASE LockList
  <2>1. clientLock' = Worker /\ i' = 1
        BY <1>3 DEF LockList
  <2>2. 1 \in Nat \ {0}
        OBVIOUS
  <2> QED BY <1>3, <2>1, <2>2 DEF LockList
<1>5. CASE EndBroadcast
      BY <1>5 DEF EndBroadcast
<1>4. CASE Write
  <2>1. clients[i].fd \in Fds
    <3>1. clients \in Seq(Entry) /\ i \in 1..Len(clients)
      <4>1. i <= Len(clients)
            BY <1>4 DEF Write
      <4>2. clients \in Seq(Entry)
            BY DEF CountInv
      <4> QED BY <4>1, <4>2
    <3>2. clients[i] \in Entry
          BY <3>1
    <3> QED BY <3>2 DEF Entry
  <2>2. open[clients[i].fd] \in Client \cup {Nobody}
        BY <2>1 DEF FdInv
  <2>3. \A d \in Client : Append(received[d], node) \in Seq(Nat)
        OBVIOUS
  <2>4. received' \in [Client -> Seq(Nat)] /\ shared' \subseteq Client
        BY <1>4, <2>2, <2>3 DEF Write
  <2> QED BY <1>4, <2>4 DEF Write
<1> QED BY <1>1, <1>2, <1>3, <1>4, <1>5 DEF broadcast_worker

LEMMA StepKeepsData ==
  ASSUME FdInv, CommitInv, CountInv, DataInv, [Next]_vars
  PROVE  DataInv'
<1> USE DEF DataInv, ioVars, workerVars, accVars, mainVars, queueVars
<1>1. CASE \E c \in Client : IOThread(c)
      BY <1>1, IOKeepsData DEF IOThread
<1>2. CASE WorkerThread
      BY <1>2, WorkerKeepsData DEF WorkerThread
<1>3. CASE Acceptor
  <2>1. CASE AcceptorTest \/ Accept \/ NoConnection \/ RejectClient
        BY <2>1 DEF AcceptorTest, Accept, NoConnection, RejectClient
  <2>2. CASE AddClient
    <3>1. clients \in Seq(Entry) /\ MaxClients \in Nat
          BY ThreadedAssumption DEF CountInv
    <3>2. Len(clients) < MaxClients /\ pcA = "lock"
          BY <2>2 DEF AddClient, Room
    <3>3. [fd |-> fd[new], io |-> new] \in Entry
          BY <3>2 DEF FdInv, Entry
    <3>4. Len(clients') = Len(clients) + 1
          BY <2>2, <3>1, <3>3, AppendProperties DEF AddClient
    <3>5. Len(clients') <= MaxClients
          BY <3>1, <3>2, <3>4
    <3> QED BY <2>2, <3>5 DEF AddClient
  <2> QED BY <1>3, <2>1, <2>2 DEF Acceptor, run_acceptor
<1>4. CASE Main
  <2>1. CASE AllJoined
    <3>1. clients' = <<>> /\ Len(<<>>) = 0 /\ MaxClients \in Nat
          BY <2>1, ThreadedAssumption DEF AllJoined
    <3>2. Len(clients') <= MaxClients
          BY <3>1
    <3> QED BY <2>1, <3>2 DEF AllJoined
  <2>2. CASE PollRunning \/ SignalWorker \/ JoinAcceptor
        BY <2>2 DEF PollRunning, SignalWorker, JoinAcceptor
  <2>3. CASE LockToJoin
    <3>1. clientLock' \in Client \cup {Nobody, Worker, MainThread} /\ j' = 1
          BY <2>3 DEF LockToJoin
    <3>2. 1 \in Nat \ {0}
          OBVIOUS
    <3> QED BY <2>3, <3>1, <3>2 DEF LockToJoin
  <2>4. CASE JoinThread
    <3>1. j' = j + 1 /\ j \in Nat
          BY <2>4 DEF JoinThread
    <3>2. j' \in Nat \ {0}
          BY <3>1
    <3> QED BY <2>4, <3>2 DEF JoinThread
  <2>5. CASE JoinWorkerAndExit
    <3>1. queue' = <<>>
          BY <2>5 DEF JoinWorkerAndExit
    <3>2. queue' \in Seq(Nat)
          BY <3>1
    <3> QED BY <2>5, <3>2 DEF JoinWorkerAndExit
  <2> QED BY <1>4, <2>1, <2>2, <2>3, <2>4, <2>5 DEF Main, main
<1>5. CASE Fault
      BY <1>5 DEF Fault, SpuriousWake, WriteKills, AcceptFails, MallocFails
<1>6. CASE UNCHANGED vars
      BY <1>6 DEF vars
<1> QED BY <1>1, <1>2, <1>3, <1>4, <1>5, <1>6 DEF Next

-----------------------------------------------------------------------------
(* Each thread has at most one entry, made with its own descriptor; it may *)
(* be the entry of another thread that it takes out.                       *)
Owner(n) == clients[n].io

EntryInv ==
  \A n \in 1..Len(clients) :
    /\ io[Owner(n)] # "none" /\ clients[n].fd = fd[Owner(n)]
    /\ \A m \in 1..Len(clients) : Owner(m) = Owner(n) => m = n

LEMMA InitEntries == Init => EntryInv
BY DEF Init, EntryInv

LEMMA EntryTypes ==
  ASSUME clients \in Seq(Entry), NEW n \in 1..Len(clients)
  PROVE  Owner(n) \in Client /\ clients[n].fd \in Fds
<1>1. clients[n] \in Entry
      OBVIOUS
<1> QED BY <1>1 DEF Entry, Owner

(* Once a thread has been started it keeps its descriptor.                 *)
Started == \A c \in Client : io[c] # "none" => io'[c] # "none" /\ fd'[c] = fd[c]

LEMMA StartedForGood ==
  ASSUME LockInv, FdInv, [Next]_vars
  PROVE  Started
<1> USE DEF Started, ioVars
<1>0. io \in [Client -> {"none", "loop", "read", "handle", "stopped", "close", "remove",
                         "returned"} \cup Critical]
      BY DEF LockInv, PlaceType
<1>1. ASSUME NEW c \in Client, IOThread(c)
      PROVE  Started
  <2>1. UNCHANGED fd /\ \E p \in {"loop", "read", "handle", "count", "test", "stop", "signal",
                                  "stopped", "close", "remove", "returned"} :
                           io' = [io EXCEPT ![c] = p] \/ io' = io
        BY <1>1 DEF IOThread, run_client_io, LoopTest, Read, AllHandled, Regular, Discard,
           LockCount, Count, NotLast, EnqueueCommit, StopRunning, SignalAndReturn,
           CloseConnection, remove_client
  <2> QED BY <1>0, <2>1
<1>2. CASE WorkerThread \/ Main \/ Fault \/ UNCHANGED vars
      BY <1>2 DEF WorkerThread, broadcast_worker, WorkerTest, LockQueue, TestQueue, CondWait,
         Dequeue, LockList, Write, EndBroadcast, Main, main, PollRunning, SignalWorker,
         JoinAcceptor, LockToJoin, JoinThread, AllJoined, JoinWorkerAndExit, Fault,
         SpuriousWake, WriteKills, AcceptFails, MallocFails, vars
<1>3. CASE Acceptor
  <2>1. CASE Accept
    <3>1. PICK c \in Client, f \in Fds :
            fd[c] = 0 /\ fd' = [fd EXCEPT ![c] = f] /\ UNCHANGED io
          BY <2>1 DEF Accept
    <3>2. io[c] = "none" /\ fd \in [Client -> {0} \cup Fds]
          BY <3>1, FdsPositive DEF FdInv
    <3> QED BY <3>1, <3>2
  <2>2. CASE AddClient
        BY <1>0, <2>2 DEF AddClient
  <2>3. CASE AcceptorTest \/ NoConnection \/ RejectClient
        BY <2>3 DEF AcceptorTest, NoConnection, RejectClient
  <2> QED BY <1>3, <2>1, <2>2, <2>3 DEF Acceptor, run_acceptor
<1> QED BY <1>1, <1>2, <1>3 DEF Next

(* The list changes in three steps only, and then nobody is writing.       *)
LEMMA ListChanges ==
  ASSUME LockInv, [Next]_vars
  PROVE  \/ UNCHANGED clients
         \/ (\E c \in Client : remove_client(c)) \/ AddClient \/ AllJoined
<1>1. ASSUME NEW c \in Client, IOThread(c), ~remove_client(c)
      PROVE  UNCHANGED clients
      BY <1>1 DEF IOThread, run_client_io, LoopTest, Read, AllHandled, Regular, Discard,
         LockCount, Count, NotLast, EnqueueCommit, StopRunning, SignalAndReturn, CloseConnection
<1>2. ASSUME WorkerThread \/ Main \/ Fault, ~AllJoined
      PROVE  UNCHANGED clients
      BY <1>2 DEF WorkerThread, broadcast_worker, WorkerTest, LockQueue, TestQueue, CondWait,
         Dequeue, LockList, Write, EndBroadcast, Main, main, PollRunning, SignalWorker,
         JoinAcceptor, LockToJoin, JoinThread, JoinWorkerAndExit, Fault, SpuriousWake,
         WriteKills, AcceptFails, MallocFails
<1>3. ASSUME Acceptor, ~AddClient
      PROVE  UNCHANGED clients
      BY <1>3 DEF Acceptor, run_acceptor, AcceptorTest, Accept, NoConnection, RejectClient
<1>4. ASSUME UNCHANGED vars
      PROVE  UNCHANGED clients
      BY <1>4 DEF vars
<1> QED BY <1>1, <1>2, <1>3, <1>4 DEF Next

(* What is left after a removal was there before, in some place or other.  *)
LEMMA RemovedFrom ==
  ASSUME clients \in Seq(Entry), NEW c \in Client, remove_client(c)
  PROVE  \E g : /\ \A k \in 1..Len(clients') : g[k] \in 1..Len(clients) /\ clients'[k] = clients[g[k]]
                /\ \A k, m \in 1..Len(clients') : g[k] = g[m] => k = m
<1>1. CASE UNCHANGED clients
      BY <1>1, \A k \in 1..Len(clients) : [m \in 1..Len(clients) |-> m][k] = k
<1>2. CASE \E n \in 1..Len(clients) : clients' = Without(n)
  <2>1. PICK n \in 1..Len(clients) : clients' = Without(n)
        BY <1>2
  <2> DEFINE L == Len(clients)
             g == [k \in 1..(L - 1) |-> IF k = n THEN L ELSE k]
  <2>2. /\ Len(clients') = L - 1 /\ L \in Nat
        /\ \A k \in 1..(L - 1) : clients'[k] = IF k = n THEN clients[L] ELSE clients[k]
        BY <2>1, RemovedEntries
  <2>3. \A k \in 1..(L - 1) : /\ g[k] = IF k = n THEN L ELSE k
                              /\ g[k] \in 1..L /\ clients'[k] = clients[g[k]]
        BY <2>2
  <2>4. \A k, m \in 1..(L - 1) : g[k] = g[m] => k = m
        BY <2>2, <2>3
  <2> HIDE DEF g
  <2>5. /\ \A k \in 1..Len(clients') : g[k] \in 1..Len(clients) /\ clients'[k] = clients[g[k]]
        /\ \A k, m \in 1..Len(clients') : g[k] = g[m] => k = m
        BY <2>2, <2>3, <2>4
  <2> QED BY <2>5
<1> QED BY <1>1, <1>2 DEF remove_client, Entries

LEMMA StepKeepsEntries ==
  ASSUME LockInv, FdInv, CountInv, EntryInv, [Next]_vars
  PROVE  EntryInv'
<1>0. Started /\ clients \in Seq(Entry)
      BY StartedForGood DEF CountInv
<1>1. CASE UNCHANGED clients
      BY <1>0, <1>1, EntryTypes DEF EntryInv, Owner, Started
<1>2. ASSUME NEW c \in Client, remove_client(c)
      PROVE  EntryInv'
  <2>1. PICK g : /\ \A k \in 1..Len(clients') : g[k] \in 1..Len(clients) /\ clients'[k] = clients[g[k]]
                 /\ \A k, m \in 1..Len(clients') : g[k] = g[m] => k = m
        BY <1>0, <1>2, RemovedFrom
  <2>2. \A d \in Client : io[d] # "none" => io'[d] # "none" /\ fd'[d] = fd[d]
        BY <1>0 DEF Started
  <2>3. ASSUME NEW n \in 1..Len(clients')
        PROVE  /\ io'[Owner(n)'] # "none" /\ clients'[n].fd = fd'[Owner(n)']
               /\ \A m \in 1..Len(clients') : Owner(m)' = Owner(n)' => m = n
    <3>1. \A m \in 1..Len(clients') : g[m] \in 1..Len(clients) /\ Owner(m)' = Owner(g[m])
          BY <2>1 DEF Owner
    <3>2. Owner(g[n]) \in Client /\ io[Owner(g[n])] # "none" /\ clients[g[n]].fd = fd[Owner(g[n])]
          BY <1>0, <3>1, EntryTypes DEF EntryInv
    <3>3. ASSUME NEW m \in 1..Len(clients'), Owner(m)' = Owner(n)' PROVE m = n
      <4>1. g[m] = g[n]
            BY <3>1, <3>3 DEF EntryInv
      <4> QED BY <2>1, <4>1
    <3> QED BY <2>1, <2>2, <3>1, <3>2, <3>3
  <2> QED BY <2>3 DEF EntryInv
<1>3. CASE AddClient
  <2>1. /\ new \in Client /\ io[new] = "none" /\ fd[new] \in Fds
        /\ clients' = Append(clients, [fd |-> fd[new], io |-> new])
        /\ io' = [io EXCEPT ![new] = "loop"] /\ UNCHANGED <<fd, new>>
        BY <1>3 DEF AddClient, FdInv
  <2>2. PICK last \in Nat : last = Len(clients) + 1
        BY <1>0
  <2>3. /\ Len(clients') = last /\ 1..Len(clients') = 1..Len(clients) \cup {last}
        /\ last \notin 1..Len(clients)
        /\ \A k \in 1..Len(clients) : clients'[k] = clients[k]
        /\ clients'[last] = [fd |-> fd[new], io |-> new]
        BY <1>0, <2>1, <2>2
  <2>4. \A k \in 1..Len(clients) : Owner(k) \in Client /\ Owner(k) # new /\ Owner(k)' = Owner(k)
        BY <1>0, <2>1, <2>3, EntryTypes DEF EntryInv, Owner
  <2>5. Owner(last)' = new /\ clients'[last].fd = fd[new]
        BY <2>3 DEF Owner
  <2>6. io'[new] # "none" /\ \A c \in Client : c # new => io'[c] = io[c]
        BY <2>1 DEF LockInv, PlaceType
  <2>7. ASSUME NEW n \in 1..Len(clients)
        PROVE  /\ io'[Owner(n)'] # "none" /\ clients'[n].fd = fd'[Owner(n)']
               /\ \A m \in 1..Len(clients') : Owner(m)' = Owner(n)' => m = n
    <3>1. io'[Owner(n)'] # "none" /\ clients'[n].fd = fd'[Owner(n)']
          BY <2>1, <2>3, <2>4, <2>6 DEF EntryInv
    <3>2. ASSUME NEW m \in 1..Len(clients), Owner(m)' = Owner(n)' PROVE m = n
          BY <2>4, <3>2 DEF EntryInv
    <3>3. Owner(last)' # Owner(n)'
          BY <2>4, <2>5
    <3> QED BY <2>3, <3>1, <3>2, <3>3
  <2>8. /\ io'[Owner(last)'] # "none" /\ clients'[last].fd = fd'[Owner(last)']
        /\ \A m \in 1..Len(clients') : Owner(m)' = Owner(last)' => m = last
        BY <2>1, <2>3, <2>4, <2>5, <2>6
  <2> QED BY <2>3, <2>7, <2>8 DEF EntryInv
<1>4. CASE AllJoined
  <2>1. Len(clients') = 0
        BY <1>4 DEF AllJoined
  <2> QED BY <2>1 DEF EntryInv
<1> QED BY <1>1, <1>2, <1>3, <1>4, ListChanges

-----------------------------------------------------------------------------
(* Messages are numbered as they are enqueued: the worker's node is the one*)
(* before the first that is still queued.                                  *)
NumberInv ==
  proc = "up" =>
    node = Len(order) - Len(queue) /\ \A k \in 1..Len(queue) : queue[k] = node + k

LEMMA InitNumbers == Init => NumberInv
BY DEF Init, NumberInv

LEMMA EnqueueKeepsNumbers ==
  ASSUME CommitInv, DataInv, NumberInv, proc = "up", NEW m \in Kind, enqueue_message(m)
  PROVE  NumberInv'
<1>1. /\ order \in Seq(Kind) /\ queue \in Seq(Nat) /\ node \in Nat
      BY DEF CommitInv, DataInv
<1>2. /\ order' = Append(order, m) /\ queue' = Append(queue, Len(order) + 1) /\ UNCHANGED node
      BY DEF enqueue_message
<1>3. Len(order') = Len(order) + 1 /\ Len(order) \in Nat
      BY <1>1, <1>2
<1>4. /\ Len(queue') = Len(queue) + 1 /\ Len(queue) \in Nat
      /\ \A k \in 1..Len(queue) : queue'[k] = queue[k]
      /\ queue'[Len(queue) + 1] = Len(order) + 1
      BY <1>1, <1>2, <1>3, AppendProperties
<1>5. node = Len(order) - Len(queue) /\ \A k \in 1..Len(queue) : queue[k] = node + k
      BY DEF NumberInv
<1>6. \A k \in 1..Len(queue') : k \in 1..Len(queue) \/ k = Len(queue) + 1
      BY <1>4
<1>7. node' = Len(order') - Len(queue')
      BY <1>1, <1>2, <1>3, <1>4, <1>5
<1>8. queue'[Len(queue) + 1] = node' + (Len(queue) + 1)
      BY <1>1, <1>2, <1>3, <1>4, <1>5
<1>9. \A k \in 1..Len(queue) : queue'[k] = node' + k
      BY <1>2, <1>4, <1>5
<1> QED BY <1>6, <1>7, <1>8, <1>9 DEF NumberInv

LEMMA DequeueTakesNext ==
  ASSUME CommitInv, DataInv, NumberInv, proc = "up", Dequeue
  PROVE  node' = node + 1 /\ NumberInv'
<1>1. /\ queue \in Seq(Nat) /\ queue # <<>> /\ node \in Nat /\ order \in Seq(Kind)
      /\ node' = Head(queue) /\ queue' = Tail(queue) /\ UNCHANGED order
      BY DEF CommitInv, DataInv, Dequeue
<1>2. /\ Len(queue) \in Nat \ {0} /\ Len(queue') = Len(queue) - 1 /\ Head(queue) = queue[1]
      /\ \A k \in 1..(Len(queue) - 1) : queue'[k] = queue[k + 1]
      BY <1>1, HeadTailProperties
<1>3. node = Len(order) - Len(queue) /\ \A k \in 1..Len(queue) : queue[k] = node + k
      BY DEF NumberInv
<1>4. node' = node + 1
      BY <1>1, <1>2, <1>3
<1>5. Len(order) \in Nat
      BY <1>1
<1>6. node' = Len(order') - Len(queue')
      BY <1>1, <1>2, <1>3, <1>4, <1>5
<1>7. ASSUME NEW k \in 1..Len(queue')
      PROVE  queue'[k] = node' + k
  <2>1. k \in 1..(Len(queue) - 1) /\ k + 1 \in 1..Len(queue)
        BY <1>2
  <2>2. queue'[k] = node + (k + 1)
        BY <1>2, <1>3, <2>1
  <2> QED BY <1>1, <1>4, <2>1, <2>2
<1> QED BY <1>4, <1>6, <1>7 DEF NumberInv

LEMMA StepKeepsNumbers ==
  ASSUME CommitInv, DataInv, NumberInv, [Next]_vars
  PROVE  NumberInv'
<1> USE DEF queueVars, workerVars
<1>1. ASSUME UNCHANGED <<node, order, queue>>, proc' = "up" => proc = "up"
      PROVE  NumberInv'
      BY <1>1 DEF NumberInv
<1>2. ASSUME NEW c \in Client, IOThread(c)
      PROVE  NumberInv'
  <2>1. CASE Regular(c) \/ EnqueueCommit(c)
    <3>1. "reg" \in Kind /\ "end" \in Kind
          BY DEF Kind
    <3> QED BY <1>2, <2>1, <3>1, EnqueueKeepsNumbers DEF Regular, EnqueueCommit, IOThread
  <2>2. CASE ~(Regular(c) \/ EnqueueCommit(c))
        BY <1>1, <1>2, <2>2 DEF IOThread, run_client_io, LoopTest, Read, AllHandled, Discard,
           LockCount, Count, NotLast, StopRunning, SignalAndReturn, CloseConnection,
           remove_client
  <2> QED BY <2>1, <2>2
<1>3. CASE WorkerThread
  <2>1. CASE Dequeue
        BY <1>3, <2>1, DequeueTakesNext DEF WorkerThread
  <2>2. CASE ~Dequeue
        BY <1>1, <1>3, <2>2 DEF WorkerThread, broadcast_worker, WorkerTest, LockQueue, TestQueue,
           CondWait, LockList, Write, EndBroadcast
  <2> QED BY <2>1, <2>2
<1>4. CASE Acceptor \/ Fault \/ UNCHANGED vars
      BY <1>1, <1>4 DEF Acceptor, run_acceptor, AcceptorTest, Accept, NoConnection, AddClient,
         RejectClient, Fault, SpuriousWake, WriteKills, AcceptFails, MallocFails, vars
<1>5. CASE Main
  <2>1. CASE JoinWorkerAndExit
        BY <2>1 DEF JoinWorkerAndExit, NumberInv
  <2>2. CASE ~JoinWorkerAndExit
        BY <1>1, <1>5, <2>2 DEF Main, main, PollRunning, SignalWorker, JoinAcceptor, LockToJoin,
           JoinThread, AllJoined
  <2> QED BY <2>1, <2>2
<1> QED BY <1>2, <1>3, <1>4, <1>5 DEF Next

-----------------------------------------------------------------------------
(* What the clients got.  While a message is written, those whose entries  *)
(* the worker has passed have it, and the others have the one before.      *)
Consecutive(s) == \A n \in 1..(Len(s) - 1) : s[n + 1] = s[n] + 1

Had(n) == IF pcW = "lock list" \/ (pcW = "write" /\ n >= i) THEN node - 1 ELSE node

UpTo(n) ==
  Owner(n) \notin shared /\ open[clients[n].fd] = Owner(n) /\ received[Owner(n)] # <<>>
    => received[Owner(n)][Len(received[Owner(n)])] = Had(n)

GotInv ==
  /\ \A c \in Client \ shared :
       Consecutive(received[c]) /\ (io[c] = "none" => received[c] = <<>>)
  /\ \A n \in 1..Len(clients) : UpTo(n)

LEMMA InitGot == Init => GotInv
BY DEF Init, GotInv, Consecutive

LEMMA AppendNext ==
  ASSUME NEW s \in Seq(Nat), NEW m \in Nat, Consecutive(s), s # <<>> => s[Len(s)] = m - 1
  PROVE  Consecutive(Append(s, m)) /\ Append(s, m)[Len(Append(s, m))] = m
<1> DEFINE t == Append(s, m)
<1>1. /\ Len(t) = Len(s) + 1 /\ Len(s) \in Nat /\ t[Len(s) + 1] = m
      /\ \A n \in 1..Len(s) : t[n] = s[n]
      BY AppendProperties
<1>2. s = <<>> <=> Len(s) = 0
      BY EmptySeq
<1>3. ASSUME NEW n \in 1..(Len(t) - 1)
      PROVE  t[n + 1] = t[n] + 1
  <2>1. n \in 1..Len(s) /\ t[n] = s[n]
        BY <1>1
  <2>2. CASE n = Len(s)
    <3>1. s # <<>> /\ s[Len(s)] = m - 1
          BY <1>1, <1>2, <2>1, <2>2
    <3> QED BY <1>1, <2>1, <2>2, <3>1
  <2>3. CASE n # Len(s)
    <3>1. n \in 1..(Len(s) - 1) /\ n + 1 \in 1..Len(s)
          BY <1>1, <2>1, <2>3
    <3>2. s[n + 1] = s[n] + 1
          BY <3>1 DEF Consecutive
    <3> QED BY <1>1, <2>1, <3>1, <3>2
  <2> QED BY <2>2, <2>3
<1> QED BY <1>1, <1>3 DEF Consecutive

(* A step that writes to nobody and moves no entry.                        *)
LEMMA QuietStep ==
  ASSUME GotInv, CountInv, EntryInv, Started, UNCHANGED <<received, shared, clients, node, i>>,
         pcW' = pcW \/ (pcW \notin {"lock list", "write"} /\ pcW' \notin {"lock list", "write"}),
         \A n \in 1..Len(clients) :
           open'[clients[n].fd] = Owner(n) => open[clients[n].fd] = Owner(n)
  PROVE  GotInv'
<1>1. \A n : Owner(n)' = Owner(n) /\ Had(n)' = Had(n)
      BY DEF Owner, Had
<1>2. \A n \in 1..Len(clients) : UpTo(n)'
      BY <1>1 DEF GotInv, UpTo
<1>3. \A c \in Client \ shared :
        Consecutive(received[c]) /\ (io'[c] = "none" => received[c] = <<>>)
      BY DEF GotInv, Started
<1> QED BY <1>2, <1>3 DEF GotInv

LEMMA IOKeepsGot ==
  ASSUME LockInv, FdInv, CountInv, EntryInv, GotInv, Started, NEW c \in Client, run_client_io(c)
  PROVE  GotInv'
<1>1. CASE remove_client(c)
  <2>0. clients \in Seq(Entry)
        BY DEF CountInv
  <2>1. PICK g : /\ \A k \in 1..Len(clients') : g[k] \in 1..Len(clients) /\ clients'[k] = clients[g[k]]
                 /\ \A k, m \in 1..Len(clients') : g[k] = g[m] => k = m
        BY <1>1, <2>0, RemovedFrom
  <2>2. UNCHANGED <<received, shared, node, i, pcW, open>> /\ clientLock = Nobody
        BY <1>1 DEF remove_client, workerVars
  <2>3. pcW # "write"
        BY <2>2, Names DEF LockInv, ListLockInv
  <2>4. \A n \in 1..Len(clients') : Owner(n)' = Owner(g[n]) /\ Had(n)' = Had(g[n])
        BY <2>1, <2>2, <2>3 DEF Owner, Had
  <2>5. \A n \in 1..Len(clients') : UpTo(n)'
        BY <2>1, <2>2, <2>4 DEF GotInv, UpTo
  <2> QED BY <2>2, <2>5 DEF GotInv, Started
<1>2. CASE CloseConnection(c)
  <2>1. /\ open' = [open EXCEPT ![fd[c]] = Nobody]
        /\ UNCHANGED <<received, shared, clients, node, i, pcW>>
        BY <1>2 DEF CloseConnection, workerVars
  <2>2. \A n \in 1..Len(clients) : Owner(n) \in Client /\ clients[n].fd \in Fds
        BY EntryTypes DEF CountInv
  <2>3. \A n \in 1..Len(clients) :
          open'[clients[n].fd] = Owner(n) => open[clients[n].fd] = Owner(n)
        BY <2>1, <2>2, Names DEF FdInv
  <2> QED BY <2>1, <2>3, QuietStep
<1>3. CASE ~(remove_client(c) \/ CloseConnection(c))
  <2>1. /\ UNCHANGED <<received, shared, clients, node, i, open>>
        /\ pcW' = pcW \/ pcW' = Signalled
        BY <1>3 DEF run_client_io, LoopTest, Read, AllHandled, Regular, Discard, LockCount, Count,
           NotLast, EnqueueCommit, StopRunning, SignalAndReturn, enqueue_message, workerVars
  <2> QED BY <2>1, QuietStep DEF Signalled
<1> QED BY <1>1, <1>2, <1>3

LEMMA WriteKeepsGot ==
  ASSUME LockInv, FdInv, CountInv, EntryInv, DataInv, GotInv, Write
  PROVE  GotInv'
<1>0. /\ pcW = "write" /\ i <= Len(clients) /\ i \in Nat \ {0} /\ i' = i + 1 /\ node \in Nat
      /\ UNCHANGED <<clients, node, pcW, io, open>> /\ clients \in Seq(Entry)
      BY DEF Write, DataInv, CountInv, ioVars
<1>1. PICK p \in 1..Len(clients) : p = i /\ Len(clients) \in Nat
      BY <1>0
<1>2. PICK c : c = open[clients[p].fd]
      OBVIOUS
<1>3. Owner(p) \in Client /\ clients[p].fd \in Fds /\ c \in Client \cup {Nobody}
      BY <1>0, <1>2, EntryTypes DEF FdInv
<1>4. \A n \in 1..Len(clients) : Owner(n)' = Owner(n) /\ Owner(n) \in Client
      BY <1>0, EntryTypes DEF Owner
<1>5. \A n \in 1..Len(clients) : n # p => Had(n)' = Had(n)
      BY <1>0, <1>1 DEF Had
<1>6. Had(p) = node - 1 /\ Had(p)' = node
      BY <1>0, <1>1 DEF Had
<1>7. received \in [Client -> Seq(Nat)] /\ shared \subseteq Client
      BY DEF DataInv
<1>8. ASSUME UNCHANGED received, shared \subseteq shared',
             c # Nobody => c \in shared'
      PROVE  GotInv'
  <2>1. UpTo(p)'
        BY <1>0, <1>2, <1>3, <1>4, <1>8, Names DEF UpTo
  <2>2. \A n \in 1..Len(clients) : n # p => UpTo(n)'
        BY <1>0, <1>4, <1>5, <1>8 DEF UpTo, GotInv
  <2> QED BY <1>0, <1>8, <2>1, <2>2 DEF GotInv
<1>9. ASSUME c \in Client, received' = [received EXCEPT ![c] = Append(@, node)],
             shared' = IF c = Owner(p) THEN shared ELSE shared \cup {c}
      PROVE  GotInv'
  <2>1. received'[c] = Append(received[c], node) /\ \A d \in Client : d # c => received'[d] = received[d]
        BY <1>7, <1>9
  <2>2. c \notin shared' => c = Owner(p) /\ c \notin shared
        BY <1>9
  <2>3. c \notin shared' =>
          /\ Consecutive(received'[c]) /\ received'[c][Len(received'[c])] = node
          /\ io[c] # "none"
    <3>1. SUFFICES ASSUME c \notin shared'
                   PROVE  /\ Consecutive(received'[c]) /\ received'[c][Len(received'[c])] = node
                          /\ io[c] # "none"
          OBVIOUS
    <3>2. received[c] # <<>> => received[c][Len(received[c])] = node - 1
          BY <1>1, <1>2, <1>6, <2>2, <3>1 DEF GotInv, UpTo
    <3>3. Consecutive(received[c])
          BY <1>9, <2>2, <3>1 DEF GotInv
    <3>4. received[c] \in Seq(Nat)
          BY <1>7, <1>9
    <3>5. Consecutive(received'[c]) /\ received'[c][Len(received'[c])] = node
          BY <1>0, <2>1, <3>2, <3>3, <3>4, AppendNext
    <3> QED BY <1>1, <2>2, <3>1, <3>5 DEF EntryInv
  <2>4. \A d \in Client \ shared' : Consecutive(received'[d]) /\ (io[d] = "none" => received'[d] = <<>>)
    <3>1. TAKE d \in Client \ shared'
    <3>2. d \notin shared
          BY <1>9
    <3> QED BY <2>1, <2>3, <3>2 DEF GotInv
  <2>5. UpTo(p)'
        BY <1>0, <1>2, <1>4, <1>6, <2>2, <2>3 DEF UpTo
  <2>6. ASSUME NEW n \in 1..Len(clients), n # p
        PROVE  UpTo(n)'
    <3>1. CASE Owner(n) = c
      <4>1. Owner(n) # Owner(p)
            BY <1>1, <2>6 DEF EntryInv
      <4>2. c \in shared'
            BY <2>2, <3>1, <4>1
      <4> QED BY <1>4, <3>1, <4>2 DEF UpTo
    <3>2. CASE Owner(n) # c
      <4>1. Owner(n) \notin shared' => Owner(n) \notin shared
            BY <1>9
      <4>2. received'[Owner(n)] = received[Owner(n)]
            BY <1>4, <2>1, <3>2
      <4> QED BY <1>0, <1>4, <1>5, <2>6, <4>1, <4>2 DEF UpTo, GotInv
    <3> QED BY <3>1, <3>2
  <2> QED BY <1>0, <2>4, <2>5, <2>6 DEF GotInv
<1> QED BY <1>1, <1>2, <1>3, <1>8, <1>9 DEF Write, Owner

LEMMA WorkerKeepsGot ==
  ASSUME LockInv, FdInv, CountInv, EntryInv, CommitInv, DataInv, NumberInv, GotInv, Started,
         proc = "up", broadcast_worker
  PROVE  GotInv'
<1>0. ASSUME UNCHANGED <<received, shared, clients, open, io>>,
             \A n \in 1..Len(clients) : Had(n)' = Had(n)
      PROVE  GotInv'
  <2>1. clients' = clients /\ received' = received /\ shared' = shared /\ open' = open /\ io' = io
        BY <1>0
  <2>2. \A n \in 1..Len(clients) : UpTo(n)'
        BY <1>0, <2>1 DEF GotInv, UpTo, Owner
  <2> QED BY <2>1, <2>2 DEF GotInv
<1>1. CASE Dequeue
  <2>1. node' = node + 1 /\ node \in Nat
        BY <1>1, DequeueTakesNext DEF DataInv
  <2>2. /\ pcW = "test queue" /\ pcW' = "lock list"
        /\ UNCHANGED <<received, shared, clients, open, io>>
        BY <1>1 DEF Dequeue, ioVars
  <2>3. \A n : Had(n) = node /\ Had(n)' = node' - 1
        BY <2>2 DEF Had
  <2>4. node' - 1 = node
        BY <2>1
  <2> QED BY <1>0, <2>2, <2>3, <2>4
<1>2. CASE LockList
  <2>1. /\ pcW = "lock list" /\ pcW' = "write" /\ i' = 1
        /\ UNCHANGED <<received, shared, clients, open, io, node>>
        BY <1>2 DEF LockList, ioVars
  <2>2. \A n \in 1..Len(clients) : n \in Int /\ n >= 1
    <3>1. clients \in Seq(Entry)
          BY DEF CountInv
    <3> QED BY <3>1
  <2>3. \A n \in 1..Len(clients) : Had(n) = node - 1 /\ Had(n)' = node' - 1
        BY <2>1, <2>2 DEF Had
  <2> QED BY <1>0, <2>1, <2>3
<1>3. CASE EndBroadcast
  <2>1. /\ pcW = "write" /\ pcW' = "loop" /\ i > Len(clients)
        /\ UNCHANGED <<received, shared, clients, open, io, node>>
        BY <1>3 DEF EndBroadcast, ioVars
  <2>2. i \in Nat /\ clients \in Seq(Entry)
        BY DEF DataInv, CountInv
  <2>3. \A n \in 1..Len(clients) : ~(n >= i)
        BY <2>1, <2>2
  <2>4. \A n \in 1..Len(clients) : Had(n) = node /\ Had(n)' = node'
        BY <2>1, <2>3 DEF Had
  <2> QED BY <1>0, <2>1, <2>4
<1>4. CASE WorkerTest \/ LockQueue \/ TestQueue \/ CondWait
  <2>1. /\ UNCHANGED <<received, shared, clients, node, i, open>>
        /\ pcW \notin {"lock list", "write"} /\ pcW' \notin {"lock list", "write"}
        BY <1>4 DEF WorkerTest, LockQueue, TestQueue, CondWait
  <2> QED BY <2>1, QuietStep
<1> QED BY <1>1, <1>2, <1>3, <1>4, WriteKeepsGot DEF broadcast_worker

LEMMA AcceptorKeepsGot ==
  ASSUME LockInv, FdInv, CountInv, EntryInv, GotInv, Started, run_acceptor
  PROVE  GotInv'
<1>0. \A n \in 1..Len(clients) : Owner(n) \in Client /\ clients[n].fd \in Fds
      BY EntryTypes DEF CountInv
<1>1. CASE Accept
  <2>1. PICK c \in Client, f \in Fds : fd[c] = 0 /\ open' = [open EXCEPT ![f] = c]
        BY <1>1 DEF Accept
  <2>2. UNCHANGED <<received, shared, clients, node, i, pcW>>
        BY <1>1 DEF Accept, workerVars
  <2>3. \A n \in 1..Len(clients) : Owner(n) # c
    <3>1. io[c] = "none"
          BY <2>1, FdsPositive DEF FdInv
    <3> QED BY <3>1 DEF EntryInv
  <2>4. \A n \in 1..Len(clients) :
          open'[clients[n].fd] = Owner(n) => open[clients[n].fd] = Owner(n)
        BY <1>0, <2>1, <2>3 DEF FdInv
  <2> QED BY <2>2, <2>4, QuietStep
<1>2. CASE RejectClient
  <2>1. /\ open' = [open EXCEPT ![fd[new]] = Nobody]
        /\ UNCHANGED <<received, shared, clients, node, i, pcW>>
        BY <1>2 DEF RejectClient, workerVars
  <2>2. \A n \in 1..Len(clients) :
          open'[clients[n].fd] = Owner(n) => open[clients[n].fd] = Owner(n)
        BY <1>0, <2>1, Names DEF FdInv
  <2> QED BY <2>1, <2>2, QuietStep
<1>3. CASE AddClient
  <2>1. /\ new \in Client /\ io[new] = "none" /\ clientLock = Nobody
        /\ clients' = Append(clients, [fd |-> fd[new], io |-> new])
        /\ UNCHANGED <<fd, open, received, shared, node, i, pcW>>
        BY <1>3 DEF AddClient, FdInv, workerVars
  <2>2. clients \in Seq(Entry)
        BY DEF CountInv
  <2>3. PICK last \in Nat : last = Len(clients) + 1
        BY <2>2
  <2>4. /\ 1..Len(clients') = 1..Len(clients) \cup {last}
        /\ \A k \in 1..Len(clients) : clients'[k] = clients[k]
        /\ clients'[last] = [fd |-> fd[new], io |-> new]
        BY <2>1, <2>2, <2>3
  <2>5. pcW # "write"
        BY <2>1, Names DEF LockInv, ListLockInv
  <2>6. \A n \in 1..Len(clients) : UpTo(n)'
    <3>1. \A n \in 1..Len(clients) : Owner(n)' = Owner(n) /\ Had(n)' = Had(n)
          BY <2>1, <2>4, <2>5 DEF Owner, Had
    <3> QED BY <2>1, <2>4, <3>1 DEF GotInv, UpTo
  <2>7. UpTo(last)'
    <3>1. Owner(last)' = new
          BY <2>4 DEF Owner
    <3>2. new \notin shared => received[new] = <<>>
          BY <2>1 DEF GotInv
    <3> QED BY <2>1, <3>1, <3>2 DEF UpTo
  <2>8. \A n \in 1..Len(clients') : UpTo(n)'
        BY <2>4, <2>6, <2>7
  <2> QED BY <2>1, <2>8 DEF GotInv, Started
<1>4. CASE AcceptorTest \/ NoConnection
  <2>1. UNCHANGED <<received, shared, clients, node, i, open, pcW>>
        BY <1>4 DEF AcceptorTest, NoConnection, workerVars
  <2> QED BY <2>1, QuietStep
<1> QED BY <1>1, <1>2, <1>3, <1>4 DEF run_acceptor

LEMMA StepKeepsGot ==
  ASSUME LockInv, FdInv, CommitInv, CountInv, DataInv, EntryInv, NumberInv, GotInv, [Next]_vars
  PROVE  GotInv'
<1>0. Started
      BY StartedForGood
<1>1. ASSUME NEW c \in Client, IOThread(c)
      PROVE  GotInv'
      BY <1>0, <1>1, IOKeepsGot DEF IOThread
<1>2. CASE WorkerThread
      BY <1>0, <1>2, WorkerKeepsGot DEF WorkerThread
<1>3. CASE Acceptor
      BY <1>0, <1>3, AcceptorKeepsGot DEF Acceptor
<1>4. CASE Main
  <2>1. CASE AllJoined
    <3>1. Len(clients') = 0 /\ UNCHANGED <<received, shared>>
          BY <2>1 DEF AllJoined
    <3> QED BY <1>0, <3>1 DEF GotInv, Started
  <2>2. CASE ~AllJoined
    <3>1. /\ UNCHANGED <<received, shared, clients, node, i, open>>
          /\ pcW' = pcW \/ pcW' = Signalled
          BY <1>4, <2>2 DEF Main, main, PollRunning, SignalWorker, JoinAcceptor, LockToJoin,
             JoinThread, JoinWorkerAndExit, workerVars
    <3> QED BY <1>0, <3>1, QuietStep DEF Signalled
  <2> QED BY <2>1, <2>2
<1>5. CASE Fault \/ UNCHANGED vars
  <2>1. /\ UNCHANGED <<received, shared, clients, node, i, open>>
        /\ pcW' = pcW \/ (pcW = "waiting" /\ pcW' = "woken")
        BY <1>5 DEF Fault, SpuriousWake, WriteKills, AcceptFails, MallocFails, vars, workerVars
  <2> QED BY <1>0, <2>1, QuietStep
<1> QED BY <1>1, <1>2, <1>3, <1>4, <1>5 DEF Next

-----------------------------------------------------------------------------
IInv ==
  /\ LockInv /\ FdInv /\ AwakeInv /\ CommitInv /\ CountInv /\ BufInv /\ DataInv
  /\ EntryInv /\ NumberInv /\ GotInv

LEMMA Invariant == Spec => []IInv
<1>1. Init => IInv
      BY InitLocks, InitFds, InitAwake, InitCommit, InitCounts, InitBuf, InitData, InitEntries,
         InitNumbers, InitGot DEF IInv
<1>2. IInv /\ [Next]_vars => IInv'
      BY StepKeepsLocks, StepKeepsFds, StepKeepsAwake, StepKeepsCommit, StepKeepsCounts,
         StepKeepsBuf, StepKeepsData, StepKeepsEntries, StepKeepsNumbers, StepKeepsGot DEF IInv
<1> QED BY <1>1, <1>2, PTL DEF Spec

(* Every variable keeps its type; the list never outgrows its slots, with  *)
(* any number of threads that add and remove (168-185, 352-356, 431-466).  *)
THEOREM TypeCorrect == Spec => []TypeOK
<1>1. IInv => TypeOK
      BY DEF IInv, LockInv, PlaceType, Critical, FdInv, CommitInv, CountInv, BufInv, DataInv,
         TypeOK
<1> QED BY <1>1, Invariant, PTL

(* Whatever the I/O threads do, and although the thread that stops the     *)
(* server signals without queue_lock, the worker does not sleep once main  *)
(* joins the others (267, 481-490).                                        *)
THEOREM WorkerAwake == Spec => []AwakeAtTheEnd
<1>1. IInv => AwakeAtTheEnd
      BY DEF IInv, AwakeInv
<1> QED BY <1>1, Invariant, PTL

(* One commit at most is enqueued, however many threads count Type 1       *)
(* messages at once (242-270).                                             *)
THEOREM CommitOnce == Spec => []OneCommit
<1>1. IInv => OneCommit
      BY CommitIsOne DEF IInv
<1> QED BY <1>1, Invariant, PTL

(* The list has each descriptor as often as there are I/O threads that have*)
(* still to remove it, though a number is used again between close() and   *)
(* remove_client (168-185, 352-356, 431-466).                              *)
THEOREM ListMatchesThreads == Spec => []EntryPerThread
<1>1. ASSUME IInv PROVE EntryPerThread
  <2>1. \A c \in Client : io[c] \notin {"none", "remove", "returned"} => io[c] \in LiveIO
        BY <1>1 DEF IInv, LockInv, PlaceType, LiveIO
  <2> QED BY <1>1, <2>1 DEF IInv, FdInv, CountInv, EntryPerThread
<1>2. IInv => EntryPerThread
      BY <1>1
<1> QED BY <1>2, Invariant, PTL

(* Nobody whose connection was its own and never full misses a message, or *)
(* gets one twice or out of order, though threads add and remove entries   *)
(* and use descriptors again between two broadcasts (171-180, 376-393).    *)
THEOREM BroadcastHasNoGaps == Spec => []NoGapNoRepeat
<1>1. ASSUME IInv PROVE NoGapNoRepeat
  <2>1. \A c \in Client \ shared : Consecutive(received[c])
        BY <1>1 DEF IInv, GotInv
  <2>2. pcW = "loop" => \A n \in 1..Len(clients) : Had(n) = node
        BY DEF Had
  <2>3. \A n \in 1..Len(clients) : UpTo(n)
        BY <1>1 DEF IInv, GotInv
  <2> QED BY <2>1, <2>2, <2>3 DEF NoGapNoRepeat, Consecutive, UpTo, Owner
<1>2. IInv => NoGapNoRepeat
      BY <1>1
<1> QED BY <1>2, Invariant, PTL

-----------------------------------------------------------------------------
(* Waiting.  Which steps each thread has before it are the guards of its   *)
(* actions: a lock that is free, a thread joined that has ended.           *)
IOCanStep(c) ==
  \/ io[c] \in {"loop", "read", "count", "stop", "signal", "close"}
  \/ io[c] = "handle" /\ (\/ buf[c] = <<>> \/ Head(buf[c]) = "bad"
                          \/ Head(buf[c]) = "reg" /\ queueLock = Nobody
                          \/ Head(buf[c]) = "end" /\ clientLock = Nobody)
  \/ io[c] = "test" /\ (AllFinished => queueLock = Nobody)
  \/ io[c] = "remove" /\ clientLock = Nobody

WorkerCanStep ==
  \/ pcW \in {"loop", "test queue", "wait", "write"}
  \/ pcW \in {"dequeue", "woken"} /\ queueLock = Nobody
  \/ pcW = "lock list" /\ clientLock = Nobody

MainCanStep ==
  \/ pcM = "poll" /\ ~running
  \/ pcM = "signal" /\ queueLock = Nobody
  \/ pcM = "join acceptor" /\ pcA = "done"
  \/ pcM = "lock" /\ clientLock = Nobody
  \/ pcM = "join io" /\ (j <= Len(clients) => Returned(clients[j].io))
  \/ pcM = "join worker" /\ pcW = "done"

(* While the server runs, the acceptor and the I/O threads try again what  *)
(* would block: that is no progress.                                       *)
AcceptorCanStep == pcA \in {"loop", "accept"} \/ (pcA = "lock" /\ clientLock = Nobody)

Polling == pcA \in {"loop", "accept"} /\ running
PollingIO(c) == io[c] \in {"loop", "read"} /\ running

AtRest ==
  /\ proc = "up" /\ ~WorkerCanStep /\ ~MainCanStep /\ (~AcceptorCanStep \/ Polling)
  /\ \A c \in Client : ~IOCanStep(c) \/ PollingIO(c)

(* All that was sent has been handed on, and nobody holds a lock.          *)
Idle ==
  /\ running /\ pcM = "poll" /\ Polling
  /\ pcW = "waiting" /\ queue = <<>> /\ queueLock = Nobody /\ clientLock = Nobody
  /\ \A c \in Client : io[c] \in {"none", "loop", "read", "returned"}

(* main joins, with client_list_lock, a thread that takes it before it     *)
(* returns: for its entry, or for a Type 1 it still has in its buffer.     *)
NeedsList(c) ==
  io[c] = "remove" \/ (io[c] = "handle" /\ buf[c] # <<>> /\ Head(buf[c]) = "end")

Deadlocked ==
  proc = "up" /\ pcM = "join io" /\ j <= Len(clients) /\ NeedsList(clients[j].io)

RestsIdleOrDeadlocked == AtRest => Idle \/ Deadlocked

(* A thread of main's or the worker's, and one that stopped the server,    *)
(* ends only once the flag is down; the worker goes to sleep only over an  *)
(* empty queue, and is woken by what is put into it.                       *)
RestInv ==
  /\ pcA = "done" \/ pcW = "done" => ~running
  /\ \A c \in Client : io[c] \in {"signal", "stopped"} => ~running
  /\ pcW \in {"wait", "waiting"} => queue = <<>>

LEMMA InitRest == Init => RestInv
BY DEF Init, RestInv

LEMMA StepKeepsRest ==
  ASSUME LockInv, RestInv, [Next]_vars
  PROVE  RestInv'
<1>0. /\ io \in [Client -> {"none", "loop", "read", "handle", "stopped", "close", "remove",
                            "returned"} \cup Critical]
      /\ pcW \in {"test queue", "wait"} <=> queueLock # Nobody
      BY DEF LockInv, PlaceType, QueueLockInv
<1> USE DEF RestInv, ioVars, workerVars, accVars, mainVars, queueVars
<1>1. ASSUME NEW c \in Client, IOThread(c)
      PROVE  RestInv'
  <2>1. CASE LoopTest(c) \/ Read(c) \/ AllHandled(c) \/ Discard(c) \/ LockCount(c) \/ Count(c)
             \/ NotLast(c) \/ CloseConnection(c) \/ remove_client(c)
    <3>1. UNCHANGED <<pcA, pcW, queue, running>>
          BY <2>1 DEF LoopTest, Read, AllHandled, Discard, LockCount, Count, NotLast,
             CloseConnection, remove_client
    <3>2. \A d \in Client : io'[d] \in {"signal", "stopped"} => io[d] \in {"signal", "stopped"}
          BY <1>0, <2>1 DEF LoopTest, Read, AllHandled, Discard, LockCount, Count, NotLast,
             CloseConnection, remove_client
    <3> QED BY <3>1, <3>2
  <2>2. CASE Regular(c)
        BY <1>0, <2>2 DEF Regular, enqueue_message, Signalled
  <2>3. CASE EnqueueCommit(c)
        BY <1>0, <2>3 DEF EnqueueCommit, enqueue_message, Signalled
  <2>4. CASE StopRunning(c)
        BY <1>0, <2>4 DEF StopRunning
  <2>5. CASE SignalAndReturn(c)
        BY <1>0, <2>5 DEF SignalAndReturn, Signalled
  <2> QED BY <1>1, <2>1, <2>2, <2>3, <2>4, <2>5 DEF IOThread, run_client_io
<1>2. CASE WorkerThread
  <2>1. UNCHANGED <<pcA, io, running>>
        BY <1>2 DEF WorkerThread, broadcast_worker, WorkerTest, LockQueue, TestQueue,
           CondWait, Dequeue, LockList, Write, EndBroadcast
  <2>2. pcW' = "done" => ~running
        BY <1>2 DEF WorkerThread, broadcast_worker, WorkerTest, LockQueue, TestQueue,
           CondWait, Dequeue, LockList, Write, EndBroadcast
  <2>3. pcW' \in {"wait", "waiting"} => queue' = <<>>
        BY <1>2 DEF WorkerThread, broadcast_worker, WorkerTest, LockQueue, TestQueue,
           CondWait, Dequeue, LockList, Write, EndBroadcast
  <2> QED BY <2>1, <2>2, <2>3
<1>3. CASE Acceptor
  <2>1. CASE AddClient
        BY <1>0, <2>1 DEF AddClient
  <2> QED BY <1>3, <2>1 DEF Acceptor, run_acceptor, AcceptorTest, Accept, NoConnection, RejectClient
<1>4. CASE Main
  <2>1. UNCHANGED <<pcA, io, running>> /\ (pcW' = pcW \/ pcW' = Signalled)
        BY <1>4 DEF Main, main, PollRunning, SignalWorker, JoinAcceptor, LockToJoin, JoinThread,
           AllJoined, JoinWorkerAndExit
  <2>2. queue' = queue \/ queue' = <<>>
        BY <1>4 DEF Main, main, PollRunning, SignalWorker, JoinAcceptor, LockToJoin, JoinThread,
           AllJoined, JoinWorkerAndExit
  <2> QED BY <2>1, <2>2 DEF Signalled
<1>5. CASE Fault
      BY <1>5 DEF Fault, SpuriousWake, WriteKills, AcceptFails, MallocFails
<1>6. CASE UNCHANGED vars
      BY <1>6 DEF vars
<1> QED BY <1>1, <1>2, <1>3, <1>4, <1>5, <1>6 DEF Next

(* The server as a whole comes to rest only where it has nothing to do, or *)
(* in its cleanup, while main holds the lock that the thread it joins      *)
(* needs: no other threads ever wait for one another (169, 251, 377, 432,  *)
(* 476-505).                                                               *)
THEOREM OnlyCleanupDeadlocks == Spec => []RestsIdleOrDeadlocked
<1>1. ASSUME IInv, RestInv, AtRest
      PROVE  Idle \/ Deadlocked
  <2>0. /\ PlaceType /\ ListLockInv /\ QueueLockInv /\ TypeOK /\ EntryInv
        /\ pcM # "poll" => ~running
        /\ pcM \notin {"poll", "signal"} => pcW \notin {"wait", "waiting"}
        BY <1>1, Names DEF IInv, LockInv, PlaceType, Critical, FdInv, CommitInv, CountInv, BufInv,
           DataInv, TypeOK, AwakeInv, AwakeAtTheEnd
  <2>1. pcW \in {"dequeue", "waiting", "woken", "lock list", "done"} /\ queueLock = Nobody
        BY <1>1, <2>0 DEF AtRest, WorkerCanStep, PlaceType, QueueLockInv
  <2>2. pcW \in {"waiting", "lock list", "done"}
        BY <1>1, <2>1 DEF AtRest, WorkerCanStep
  <2>3. ASSUME NEW c \in Client
        PROVE  io[c] \notin Critical
        BY <1>1, <2>0, <2>1 DEF AtRest, IOCanStep, PollingIO, Critical
  <2>4. clientLock \in {Nobody, MainThread}
        BY <2>0, <2>2, <2>3 DEF TypeOK, ListLockInv
  <2>5. CASE clientLock = MainThread
    <3>1. pcM = "join io" /\ ~running /\ proc = "up"
          BY <1>1, <2>0, <2>5 DEF ListLockInv, AtRest
    <3>2. j \in 1..Len(clients) /\ ~Returned(clients[j].io)
      <4>1. j <= Len(clients) /\ ~Returned(clients[j].io)
            BY <1>1, <3>1, <2>0 DEF AtRest, MainCanStep, TypeOK
      <4>2. j \in Nat \ {0} /\ clients \in Seq(Entry)
            BY <1>1 DEF IInv, DataInv, CountInv
      <4> QED BY <4>1, <4>2
    <3> DEFINE c == clients[j].io
    <3>3. c \in Client /\ io[c] # "none"
      <4>1. clients \in Seq(Entry)
            BY <2>0 DEF TypeOK
      <4> QED BY <2>0, <3>2, <4>1, EntryTypes DEF EntryInv, Owner
    <3>4. io[c] \in {"handle", "remove"} /\ ~IOCanStep(c)
      <4>1. ~IOCanStep(c)
            BY <1>1, <3>1, <3>3 DEF AtRest, PollingIO
      <4>2. io[c] \in {"loop", "read", "handle", "close", "remove"}
            BY <2>0, <2>3, <3>2, <3>3 DEF PlaceType, Returned
      <4> QED BY <4>1, <4>2 DEF IOCanStep
    <3>5. io[c] = "handle" => buf[c] # <<>> /\ Head(buf[c]) = "end"
      <4> SUFFICES ASSUME io[c] = "handle", buf[c] # <<>> PROVE Head(buf[c]) = "end"
          BY <3>4 DEF IOCanStep
      <4>1. Head(buf[c]) \in Kind
        <5>1. buf[c] \in Seq(Kind)
              BY <2>0, <3>3 DEF TypeOK
        <5> QED BY <5>1, HeadTailProperties
      <4> QED BY <2>1, <3>4, <4>1 DEF IOCanStep, Kind
    <3>6. j <= Len(clients)
      <4>1. clients \in Seq(Entry)
            BY <2>0 DEF TypeOK
      <4> QED BY <3>2, <4>1, LenProperties
    <3> QED BY <3>1, <3>4, <3>5, <3>6 DEF Deadlocked, NeedsList
  <2>6. CASE clientLock = Nobody
    <3>1. pcW \in {"waiting", "done"}
          BY <1>1, <2>2, <2>6 DEF AtRest, WorkerCanStep
    <3>2. pcM = "poll" /\ running
      <4>1. pcM \notin {"signal", "lock", "join io"}
            BY <1>1, <2>0, <2>1, <2>6, Names DEF AtRest, MainCanStep, ListLockInv
      <4>2. pcM # "join acceptor"
            BY <1>1, <2>0, <2>6 DEF AtRest, MainCanStep, AcceptorCanStep, Polling, TypeOK
      <4>3. pcM # "join worker"
            BY <1>1, <2>0, <3>1 DEF AtRest, MainCanStep
      <4> QED BY <1>1, <2>0, <4>1, <4>2, <4>3 DEF AtRest, MainCanStep, PlaceType
    <3>3. pcW = "waiting" /\ queue = <<>>
          BY <1>1, <3>1, <3>2 DEF RestInv
    <3>4. Polling
          BY <1>1, <2>0, <2>6, <3>2 DEF AtRest, AcceptorCanStep, RestInv, TypeOK
    <3>5. ASSUME NEW c \in Client
          PROVE  io[c] \in {"none", "loop", "read", "returned"}
      <4>1. io[c] \notin {"close", "remove"}
            BY <1>1, <2>6 DEF AtRest, IOCanStep, PollingIO
      <4>2. io[c] # "stopped"
            BY <1>1, <3>2 DEF RestInv
      <4>3. io[c] # "handle"
        <5> SUFFICES ASSUME io[c] = "handle" PROVE FALSE
            OBVIOUS
        <5>1. ~IOCanStep(c)
              BY <1>1 DEF AtRest, PollingIO
        <5>2. buf[c] # <<>> /\ buf[c] \in Seq(Kind)
              BY <2>0, <5>1 DEF IOCanStep, TypeOK
        <5>3. Head(buf[c]) \in Kind
              BY <5>2, HeadTailProperties
        <5> QED BY <2>1, <2>6, <5>1, <5>3 DEF IOCanStep, Kind
      <4> QED BY <2>0, <2>3, <4>1, <4>2, <4>3 DEF PlaceType
    <3> QED BY <2>1, <2>6, <3>2, <3>3, <3>4, <3>5 DEF Idle
  <2> QED BY <2>4, <2>5, <2>6
<1>2. IInv /\ RestInv => RestsIdleOrDeadlocked
      BY <1>1 DEF RestsIdleOrDeadlocked
<1>3. Init => RestInv
      BY InitRest
<1>4. IInv /\ RestInv /\ [Next]_vars => RestInv'
      BY StepKeepsRest DEF IInv
<1> QED BY <1>2, <1>3, <1>4, Invariant, PTL DEF Spec

(* And that is for good: nobody can take the lock from main, which cannot  *)
(* give it back before the thread has ended, so that the program never     *)
(* exits, unless error() ends it in some other thread (169, 251, 493-498). *)
THEOREM DeadlockIsForEver ==
  ASSUME "malloc" \notin Faults
  PROVE  Spec => [](Deadlocked => []Deadlocked)
<1>1. ASSUME LockInv, CountInv, BufInv, DataInv, Deadlocked, [Next]_vars
      PROVE  Deadlocked'
  <2> DEFINE t == clients[j].io
  <2>0. /\ pcM = "join io" /\ j <= Len(clients) /\ proc = "up" /\ clientLock = MainThread
        /\ NeedsList(t) /\ t \in Client
        /\ io \in [Client -> {"none", "loop", "read", "handle", "stopped", "close", "remove",
                              "returned"} \cup Critical]
        /\ \A c \in Client : io[c] \notin Critical
        /\ pcW # "write"
    <3>1. pcM = "join io" /\ j <= Len(clients) /\ proc = "up" /\ NeedsList(t)
          BY <1>1 DEF Deadlocked
    <3>2. clientLock = MainThread
          BY <1>1, <3>1 DEF LockInv, ListLockInv
    <3>3. \A c \in Client : io[c] \notin Critical
          BY <1>1, <3>2, Names DEF LockInv, ListLockInv
    <3>4. pcW # "write"
          BY <1>1, <3>2, Names DEF LockInv, ListLockInv
    <3>5. t \in Client
      <4>1. j \in Nat \ {0} /\ clients \in Seq(Entry) /\ j <= Len(clients)
            BY <1>1, <3>1 DEF DataInv, CountInv
      <4>2. j \in 1..Len(clients)
            BY <4>1
      <4> QED BY <4>1, <4>2, EntryTypes DEF Owner
    <3> QED BY <1>1, <3>1, <3>2, <3>3, <3>4, <3>5 DEF LockInv, PlaceType
  <2>1. ASSUME UNCHANGED <<pcM, j, clients, proc>>, io'[t] = io[t], buf'[t] = buf[t]
        PROVE  Deadlocked'
    <3>1. t' = t
          BY <2>1
    <3>2. NeedsList(t)'
          BY <2>0, <2>1, <3>1 DEF NeedsList
    <3> QED BY <2>0, <2>1, <3>2 DEF Deadlocked
  <2> HIDE DEF t
  <2> USE DEF ioVars, mainVars, workerVars, accVars
  <2>2. ASSUME NEW c \in Client, IOThread(c)
        PROVE  Deadlocked'
    <3>1. ~LockCount(c) /\ ~remove_client(c) /\ ~Count(c) /\ ~NotLast(c) /\ ~EnqueueCommit(c)
          /\ ~StopRunning(c) /\ ~SignalAndReturn(c)
          BY <2>0, Names DEF LockCount, remove_client, Count, NotLast, EnqueueCommit, StopRunning,
             SignalAndReturn, Critical
    <3>2. c # t
          BY <2>0, <2>2, <3>1 DEF IOThread, run_client_io, NeedsList, LoopTest, Read, AllHandled,
             Regular, Discard, CloseConnection
    <3>3. UNCHANGED <<pcM, j, clients, proc>>
          BY <2>2, <3>1 DEF IOThread, run_client_io, LoopTest, Read, AllHandled, Regular, Discard,
             CloseConnection
    <3>4. /\ \A d \in Client : d # c => io'[d] = io[d]
          /\ \A d \in Client : d # c => buf'[d] = buf[d]
      <4>1. buf \in [Client -> Seq(Kind)]
            BY <1>1 DEF BufInv
      <4> QED BY <2>0, <2>2, <3>1, <4>1 DEF IOThread, run_client_io, LoopTest, Read, AllHandled,
             Regular, Discard, CloseConnection
    <3> QED BY <2>0, <2>1, <3>2, <3>3, <3>4
  <2>3. CASE WorkerThread
        BY <2>0, <2>1, <2>3 DEF WorkerThread, broadcast_worker, WorkerTest, LockQueue, TestQueue,
           CondWait, Dequeue, LockList, Write, EndBroadcast
  <2>4. CASE Acceptor
    <3>1. ~AddClient
          BY <2>0, Names DEF AddClient
    <3> QED BY <2>1, <2>4, <3>1 DEF Acceptor, run_acceptor, AcceptorTest, Accept, NoConnection,
           RejectClient
  <2>5. CASE Main
    <3>1. ~Returned(t)
          BY <2>0 DEF NeedsList, Returned
    <3>2. ~JoinThread
          BY <3>1 DEF JoinThread, t
    <3>3. ~AllJoined
      <4>1. j \in Nat /\ Len(clients) \in Nat /\ j <= Len(clients)
        <5>1. clients \in Seq(Entry) /\ j \in Nat /\ j <= Len(clients)
              BY <1>1, <2>0 DEF DataInv, CountInv
        <5> QED BY <5>1, LenProperties
      <4>2. AllJoined => j > Len(clients)
            BY DEF AllJoined
      <4> QED BY <4>1, <4>2
    <3> QED BY <2>0, <2>5, <3>2, <3>3 DEF Main, main, PollRunning, SignalWorker, JoinAcceptor,
           LockToJoin, JoinWorkerAndExit
  <2>6. CASE Fault
        BY <2>0, <2>1, <2>6 DEF Fault, SpuriousWake, WriteKills, AcceptFails, MallocFails
  <2>7. CASE UNCHANGED vars
        BY <2>1, <2>7 DEF vars
  <2> QED BY <1>1, <2>2, <2>3, <2>4, <2>5, <2>6, <2>7 DEF Next
<1>2. IInv /\ Deadlocked /\ [Next]_vars => Deadlocked'
      BY <1>1 DEF IInv
<1> QED BY <1>2, Invariant, PTL DEF Spec
=============================================================================
