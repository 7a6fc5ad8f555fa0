---------------------------- MODULE ThreadedChat ----------------------------
(***************************************************************************)
(* The thread-per-client chat server of lecture/test4/servertest.c: an     *)
(* acceptor thread, one I/O thread for each connection, the broadcast      *)
(* worker, and main, which waits for the stop and joins the others.        *)
(*                                                                         *)
(* A message is one line: how reads cut lines is the same as in server.c   *)
(* (ChatServer), with a buffer of its own for each thread.  The clients may*)
(* do anything, so what they have done is decided when the server sees it: *)
(* when it accepts a connection or reads from it.  A descriptor is         *)
(* a number, and accept() takes the lowest one that is free: a number that *)
(* has been closed soon names another connection.                          *)
(*                                                                         *)
(* A definition whose name continues that of the one after it (X_Bug, X) is*)
(* not used: it is X with a mistake that X could have, and is there to see *)
(* that a property notices it.                                             *)
(***************************************************************************)
EXTENDS Integers, Sequences, FiniteSets

CONSTANTS
  Client,          \* each connects once
  MaxLines,        \* bound: lines read from all clients
  MaxClients,      \* MAX_CLIENTS
  Expected,        \* expected_clients
  Faults           \* which of "accept", "thread", "full", "pipe", "malloc" can happen

ASSUME ThreadedAssumption ==
  /\ IsFiniteSet(Client) /\ MaxLines \in Nat
  /\ MaxClients \in Nat \ {0} /\ Expected \in 1..MaxClients
  /\ {"nobody", "broadcast_worker", "main"} \cap Client = {}

Kind == {"reg", "end", "bad"}     \* Type 0; Type 1; what is discarded
Worker == "broadcast_worker"
MainThread == "main"
Nobody == "nobody"                \* not a client, and no thread
Fds == 1..(Cardinality(Client) + 1)

VARIABLES
  proc,            \* "up", "exited" or "killed"
  running,         \* server_running
  queue, queueLock,
  clients,         \* clients[0 .. num_clients-1]: a descriptor and whose thread serves it
  clientLock,      \* client_list_lock
  finished,        \* finished_clients_count
  io,              \* where the I/O thread of each connection is
  fd,              \* its client_fd
  buf,             \* the lines in its buffer
  pcW, node, i,    \* the worker, the message it has, its loop counter
  pcA, new,        \* the acceptor, and the connection it has just accepted
  pcM, j,          \* main and its loop counter
  open,            \* the server's descriptors: whose connection each one is
  nread,           \* how many lines have been read from the clients
  order,           \* history: the type of each message enqueued
  received,        \* history: the positions in `order' that each client was sent
  shared           \* history: clients whose descriptor was somebody else's in the list,
                   \* or whose socket was full

ioVars     == <<io, fd, buf>>
workerVars == <<pcW, node, i>>
accVars    == <<pcA, new>>
mainVars   == <<pcM, j>>
queueVars  == <<queue, order>>
vars == <<proc, running, queueVars, queueLock, clients, clientLock, finished, ioVars, workerVars,
          accVars, mainVars, open, nread, received, shared>>

Init ==
  /\ proc = "up" /\ running = TRUE
  /\ queue = <<>> /\ queueLock = Nobody /\ order = <<>>
  /\ clients = <<>> /\ clientLock = Nobody /\ finished = 0
  /\ io = [c \in Client |-> "none"] /\ fd = [c \in Client |-> 0]
  /\ buf = [c \in Client |-> <<>>]
  /\ pcW = "loop" /\ node = 0 /\ i = 1
  /\ pcA = "loop" /\ new = Nobody
  /\ pcM = "poll" /\ j = 1
  /\ open = [f \in Fds |-> Nobody]
  /\ nread = 0
  /\ received = [c \in Client |-> <<>>] /\ shared = {}

-----------------------------------------------------------------------------
(* The queue.                                                              *)

(* pthread_cond_signal wakes the worker if it waits.                       *)
Signalled == IF pcW = "waiting" THEN "woken" ELSE pcW

enqueue_message(m) ==
  /\ queueLock = Nobody
  /\ order' = Append(order, m)
  /\ queue' = Append(queue, Len(order) + 1)
  /\ pcW' = Signalled /\ UNCHANGED <<node, i>>

-----------------------------------------------------------------------------
(* run_client_io and handle_message, for the connection of c.              *)

LoopTest(c) ==
  /\ io[c] = "loop"
  /\ io' = [io EXCEPT ![c] = IF running THEN "read" ELSE "close"]
  /\ UNCHANGED <<proc, running, queueVars, queueLock, clients, clientLock, finished, fd, buf,
                 workerVars, accVars, mainVars, open, nread, received, shared>>

(* Some lines, nothing yet, or the end of the connection or an error.      *)
Read(c) ==
  /\ io[c] = "read"
  /\ \/ \E s \in UNION {[1..n -> Kind] : n \in 1..(MaxLines - nread)} :
          /\ buf' = [buf EXCEPT ![c] = s]
          /\ nread' = nread + Len(s)
          /\ io' = [io EXCEPT ![c] = "handle"]
     \/ io' = [io EXCEPT ![c] = "loop"] /\ UNCHANGED <<buf, nread>>
     \/ io' = [io EXCEPT ![c] = "close"] /\ UNCHANGED <<buf, nread>>
  /\ UNCHANGED <<proc, running, queueVars, queueLock, clients, clientLock, finished, fd,
                 workerVars, accVars, mainVars, open, received, shared>>

AllHandled(c) ==
  /\ io[c] = "handle" /\ buf[c] = <<>>
  /\ io' = [io EXCEPT ![c] = "loop"]
  /\ UNCHANGED <<proc, running, queueVars, queueLock, clients, clientLock, finished, fd, buf,
                 workerVars, accVars, mainVars, open, nread, received, shared>>

Regular(c) ==
  /\ io[c] = "handle" /\ buf[c] # <<>> /\ Head(buf[c]) = "reg"
  /\ enqueue_message("reg")
  /\ buf' = [buf EXCEPT ![c] = Tail(@)]
  /\ UNCHANGED <<proc, running, queueLock, clients, clientLock, finished, io, fd,
                 accVars, mainVars, open, nread, received, shared>>

Discard(c) ==
  /\ io[c] = "handle" /\ buf[c] # <<>> /\ Head(buf[c]) = "bad"
  /\ buf' = [buf EXCEPT ![c] = Tail(@)]
  /\ UNCHANGED <<proc, running, queueVars, queueLock, clients, clientLock, finished, io, fd,
                 workerVars, accVars, mainVars, open, nread, received, shared>>

LockCount_Skipped(c) ==
  /\ io[c] = "handle" /\ buf[c] # <<>> /\ Head(buf[c]) = "end"
  /\ io' = [io EXCEPT ![c] = "count"]
  /\ UNCHANGED <<proc, running, queueVars, queueLock, clients, clientLock, finished, fd, buf,
                 workerVars, accVars, mainVars, open, nread, received, shared>>

LockCount(c) ==
  /\ io[c] = "handle" /\ buf[c] # <<>> /\ Head(buf[c]) = "end"
  /\ clientLock = Nobody /\ clientLock' = c
  /\ io' = [io EXCEPT ![c] = "count"]
  /\ UNCHANGED <<proc, running, queueVars, queueLock, clients, finished, fd, buf,
                 workerVars, accVars, mainVars, open, nread, received, shared>>

Count(c) ==
  /\ io[c] = "count"
  /\ finished' = finished + 1
  /\ io' = [io EXCEPT ![c] = "test"]
  /\ UNCHANGED <<proc, running, queueVars, queueLock, clients, clientLock, fd, buf,
                 workerVars, accVars, mainVars, open, nread, received, shared>>

AllFinished == finished = Expected

NotLast(c) ==
  /\ io[c] = "test" /\ ~AllFinished
  /\ clientLock' = Nobody
  /\ buf' = [buf EXCEPT ![c] = Tail(@)] /\ io' = [io EXCEPT ![c] = "handle"]
  /\ UNCHANGED <<proc, running, queueVars, queueLock, clients, finished, fd,
                 workerVars, accVars, mainVars, open, nread, received, shared>>

EnqueueCommit(c) ==
  /\ io[c] = "test" /\ AllFinished
  /\ enqueue_message("end")
  /\ io' = [io EXCEPT ![c] = "stop"]
  /\ UNCHANGED <<proc, running, queueLock, clients, clientLock, finished, fd, buf,
                 accVars, mainVars, open, nread, received, shared>>

StopRunning(c) ==
  /\ io[c] = "stop"
  /\ running' = FALSE
  /\ io' = [io EXCEPT ![c] = "signal"]
  /\ UNCHANGED <<proc, queueVars, queueLock, clients, clientLock, finished, fd, buf,
                 workerVars, accVars, mainVars, open, nread, received, shared>>

(* The signal is given without queue_lock.  The thread returns at once: its*)
(* connection stays open and in the list, what else it has read is lost.   *)
SignalAndReturn(c) ==
  /\ io[c] = "signal"
  /\ pcW' = Signalled /\ clientLock' = Nobody
  /\ buf' = [buf EXCEPT ![c] = <<>>] /\ io' = [io EXCEPT ![c] = "stopped"]
  /\ UNCHANGED <<proc, running, queueVars, queueLock, clients, finished, fd, node, i,
                 accVars, mainVars, open, nread, received, shared>>

CloseConnection(c) ==
  /\ io[c] = "close"
  /\ open' = [open EXCEPT ![fd[c]] = Nobody]
  /\ io' = [io EXCEPT ![c] = "remove"] /\ buf' = [buf EXCEPT ![c] = <<>>]
  /\ UNCHANGED <<proc, running, queueVars, queueLock, clients, clientLock, finished, fd,
                 workerVars, accVars, mainVars, nread, received, shared>>

(* The first entry of that descriptor goes, and the last one takes its     *)
(* place.                                                                  *)
Entries(f) == {n \in 1..Len(clients) : clients[n].fd = f}
Without_Kept(n) == IF n = Len(clients) THEN SubSeq(clients, 1, n - 1)
                   ELSE [clients EXCEPT ![n] = clients[Len(clients)]]

Without(n) == SubSeq([clients EXCEPT ![n] = clients[Len(clients)]], 1, Len(clients) - 1)

remove_client(c) ==
  /\ io[c] = "remove" /\ clientLock = Nobody
  /\ IF Entries(fd[c]) = {} THEN UNCHANGED clients
     ELSE \E n \in Entries(fd[c]) : /\ \A m \in Entries(fd[c]) : n <= m
                                  /\ clients' = Without(n)
  /\ io' = [io EXCEPT ![c] = "returned"]
  /\ UNCHANGED <<proc, running, queueVars, queueLock, clientLock, finished, fd, buf,
                 workerVars, accVars, mainVars, open, nread, received, shared>>

run_client_io(c) ==
  \/ LoopTest(c) \/ Read(c) \/ AllHandled(c) \/ Regular(c) \/ Discard(c) \/ LockCount(c)
  \/ Count(c) \/ NotLast(c) \/ EnqueueCommit(c) \/ StopRunning(c) \/ SignalAndReturn(c)
  \/ CloseConnection(c) \/ remove_client(c)

-----------------------------------------------------------------------------
(* broadcast_worker and dequeue_message.                                   *)

WorkerTest ==
  /\ pcW = "loop"
  /\ pcW' = IF running THEN "dequeue" ELSE "done"
  /\ UNCHANGED <<proc, running, queueVars, queueLock, clients, clientLock, finished, ioVars,
                 node, i, accVars, mainVars, open, nread, received, shared>>

(* For a first time, or when pthread_cond_wait returns.                    *)
LockQueue ==
  /\ pcW \in {"dequeue", "woken"} /\ queueLock = Nobody
  /\ queueLock' = Worker /\ pcW' = "test queue"
  /\ UNCHANGED <<proc, running, queueVars, clients, clientLock, finished, ioVars,
                 node, i, accVars, mainVars, open, nread, received, shared>>

(* Nothing queued: wait if the server runs, else there is no more to do.   *)
TestQueue ==
  /\ pcW = "test queue" /\ queue = <<>>
  /\ IF running THEN pcW' = "wait" /\ UNCHANGED queueLock
                ELSE pcW' = "loop" /\ queueLock' = Nobody
  /\ UNCHANGED <<proc, running, queueVars, clients, clientLock, finished, ioVars,
                 node, i, accVars, mainVars, open, nread, received, shared>>

CondWait ==
  /\ pcW = "wait"
  /\ pcW' = "waiting" /\ queueLock' = Nobody
  /\ UNCHANGED <<proc, running, queueVars, clients, clientLock, finished, ioVars,
                 node, i, accVars, mainVars, open, nread, received, shared>>

SpuriousWake ==
  /\ pcW = "waiting" /\ pcW' = "woken"
  /\ UNCHANGED <<proc, running, queueVars, queueLock, clients, clientLock, finished, ioVars,
                 node, i, accVars, mainVars, open, nread, received, shared>>

Dequeue ==
  /\ pcW = "test queue" /\ queue # <<>>
  /\ node' = Head(queue) /\ queue' = Tail(queue)
  /\ queueLock' = Nobody /\ pcW' = "lock list"
  /\ UNCHANGED <<proc, running, order, clients, clientLock, finished, ioVars,
                 i, accVars, mainVars, open, nread, received, shared>>

LockList_Skipped ==
  /\ pcW = "lock list" /\ pcW' = "write" /\ i' = 1
  /\ UNCHANGED <<proc, running, queueVars, queueLock, clients, clientLock, finished, ioVars,
                 node, accVars, mainVars, open, nread, received, shared>>

LockList ==
  /\ pcW = "lock list" /\ clientLock = Nobody
  /\ clientLock' = Worker /\ pcW' = "write" /\ i' = 1
  /\ UNCHANGED <<proc, running, queueVars, queueLock, clients, finished, ioVars,
                 node, accVars, mainVars, open, nread, received, shared>>

(* To whoever has that descriptor now.  The sockets do not block: a write  *)
(* to one that is full fails, and the message is not sent again.           *)
Write ==
  /\ pcW = "write" /\ i <= Len(clients)
  /\ LET c == open[clients[i].fd]
     IN  \/ /\ c # Nobody
            /\ received' = [received EXCEPT ![c] = Append(@, node)]
            /\ shared' = IF c = clients[i].io THEN shared ELSE shared \cup {c}
         \/ /\ c # Nobody /\ "full" \in Faults
            /\ shared' = shared \cup {c} /\ UNCHANGED received
         \/ c = Nobody /\ UNCHANGED <<received, shared>>
  /\ i' = i + 1
  /\ UNCHANGED <<proc, running, queueVars, queueLock, clients, clientLock, finished, ioVars,
                 pcW, node, accVars, mainVars, open, nread>>

(* SIGPIPE is not ignored: a second write to a closed connection kills.    *)
WriteKills ==
  /\ pcW = "write" /\ i <= Len(clients) /\ "pipe" \in Faults
  /\ LET c == open[clients[i].fd] IN c # Nobody /\ received[c] # <<>>
  /\ proc' = "killed"
  /\ UNCHANGED <<running, queueVars, queueLock, clients, clientLock, finished, ioVars,
                 workerVars, accVars, mainVars, open, nread, received, shared>>

EndBroadcast ==
  /\ pcW = "write" /\ i > Len(clients)
  /\ clientLock' = Nobody /\ pcW' = "loop"
  /\ UNCHANGED <<proc, running, queueVars, queueLock, clients, finished, ioVars,
                 node, i, accVars, mainVars, open, nread, received, shared>>

broadcast_worker ==
  WorkerTest \/ LockQueue \/ TestQueue \/ CondWait \/ Dequeue \/ LockList \/ Write \/ EndBroadcast

-----------------------------------------------------------------------------
(* run_acceptor.                                                           *)

AcceptorTest ==
  /\ pcA = "loop"
  /\ pcA' = IF running THEN "accept" ELSE "done"
  /\ UNCHANGED <<proc, running, queueVars, queueLock, clients, clientLock, finished, ioVars,
                 workerVars, new, mainVars, open, nread, received, shared>>

(* accept(): a connection, none, or an error that stops the server.        *)
LowestFree(f) == open[f] = Nobody /\ \A g \in Fds : open[g] = Nobody => f <= g

Accept ==
  /\ pcA = "accept"
  /\ \E c \in Client, f \in Fds :
       /\ fd[c] = 0 /\ LowestFree(f)
       /\ open' = [open EXCEPT ![f] = c]
       /\ fd' = [fd EXCEPT ![c] = f]
       /\ new' = c /\ pcA' = "lock"
  /\ UNCHANGED <<proc, running, queueVars, queueLock, clients, clientLock, finished, io, buf,
                 workerVars, mainVars, nread, received, shared>>

NoConnection ==
  /\ pcA = "accept"
  /\ pcA' = "loop"
  /\ UNCHANGED <<proc, running, queueVars, queueLock, clients, clientLock, finished, ioVars,
                 workerVars, new, mainVars, open, nread, received, shared>>

AcceptFails ==
  /\ pcA = "accept" /\ "accept" \in Faults
  /\ running' = FALSE /\ pcA' = "done"
  /\ UNCHANGED <<proc, queueVars, queueLock, clients, clientLock, finished, ioVars,
                 workerVars, new, mainVars, open, nread, received, shared>>

(* One critical section: an entry and a thread, unless the list is full or *)
(* no thread can be made.                                                  *)
Room_Unchecked == TRUE

Room == Len(clients) < MaxClients

AddClient ==
  /\ pcA = "lock" /\ clientLock = Nobody
  /\ Room
  /\ clients' = Append(clients, [fd |-> fd[new], io |-> new])
  /\ io' = [io EXCEPT ![new] = "loop"]
  /\ pcA' = "loop"
  /\ UNCHANGED <<proc, running, queueVars, queueLock, clientLock, finished, fd, buf,
                 workerVars, new, mainVars, open, nread, received, shared>>

RejectClient ==
  /\ pcA = "lock" /\ clientLock = Nobody
  /\ ~Room \/ "thread" \in Faults
  /\ open' = [open EXCEPT ![fd[new]] = Nobody]
  /\ pcA' = "loop"
  /\ UNCHANGED <<proc, running, queueVars, queueLock, clients, clientLock, finished, ioVars,
                 workerVars, new, mainVars, nread, received, shared>>

run_acceptor == AcceptorTest \/ Accept \/ NoConnection \/ AddClient \/ RejectClient

-----------------------------------------------------------------------------
(* main and cleanup_and_exit.                                              *)

PollRunning ==
  /\ pcM = "poll" /\ ~running
  /\ pcM' = "signal"
  /\ UNCHANGED <<proc, running, queueVars, queueLock, clients, clientLock, finished, ioVars,
                 workerVars, accVars, j, open, nread, received, shared>>

(* This time with queue_lock.                                              *)
SignalWorker_Forgotten ==
  /\ pcM = "signal" /\ pcM' = "join acceptor"
  /\ UNCHANGED <<proc, running, queueVars, queueLock, clients, clientLock, finished, ioVars,
                 workerVars, accVars, j, open, nread, received, shared>>

SignalWorker ==
  /\ pcM = "signal" /\ queueLock = Nobody
  /\ pcW' = Signalled /\ pcM' = "join acceptor"
  /\ UNCHANGED <<proc, running, queueVars, queueLock, clients, clientLock, finished, ioVars,
                 node, i, accVars, j, open, nread, received, shared>>

JoinAcceptor ==
  /\ pcM = "join acceptor" /\ pcA = "done"
  /\ pcM' = "lock"
  /\ UNCHANGED <<proc, running, queueVars, queueLock, clients, clientLock, finished, ioVars,
                 workerVars, accVars, j, open, nread, received, shared>>

LockToJoin ==
  /\ pcM = "lock" /\ clientLock = Nobody
  /\ clientLock' = MainThread /\ pcM' = "join io" /\ j' = 1
  /\ UNCHANGED <<proc, running, queueVars, queueLock, clients, finished, ioVars,
                 workerVars, accVars, open, nread, received, shared>>

Returned(c) == io[c] \in {"stopped", "returned"}

JoinThread ==
  /\ pcM = "join io" /\ j <= Len(clients) /\ Returned(clients[j].io)
  /\ j' = j + 1
  /\ UNCHANGED <<proc, running, queueVars, queueLock, clients, clientLock, finished, ioVars,
                 workerVars, accVars, pcM, open, nread, received, shared>>

AllJoined ==
  /\ pcM = "join io" /\ j > Len(clients)
  /\ clients' = <<>> /\ clientLock' = Nobody /\ pcM' = "join worker"
  /\ UNCHANGED <<proc, running, queueVars, queueLock, finished, ioVars,
                 workerVars, accVars, j, open, nread, received, shared>>

(* What is still queued is freed; exit() ends whatever still runs.         *)
JoinWorkerAndExit ==
  /\ pcM = "join worker" /\ pcW = "done"
  /\ queue' = <<>> /\ proc' = "exited"
  /\ UNCHANGED <<running, order, queueLock, clients, clientLock, finished, ioVars,
                 workerVars, accVars, mainVars, open, nread, received, shared>>

main == \/ PollRunning \/ SignalWorker \/ JoinAcceptor \/ LockToJoin
        \/ JoinThread \/ AllJoined \/ JoinWorkerAndExit

(* error(): a node, or a thread's arguments, cannot be allocated.          *)
MallocFails ==
  /\ "malloc" \in Faults
  /\ \/ \E c \in Client : io[c] = "handle" /\ buf[c] # <<>> /\ Head(buf[c]) = "reg"
     \/ \E c \in Client : io[c] = "test" /\ AllFinished
     \/ pcA = "lock" /\ clientLock = Nobody /\ Room
  /\ proc' = "exited"
  /\ UNCHANGED <<running, queueVars, queueLock, clients, clientLock, finished, ioVars,
                 workerVars, accVars, mainVars, open, nread, received, shared>>

-----------------------------------------------------------------------------

IOThread(c)  == proc = "up" /\ run_client_io(c)
WorkerThread == proc = "up" /\ broadcast_worker
Acceptor     == proc = "up" /\ run_acceptor
Main         == proc = "up" /\ main

Fault == proc = "up" /\ (SpuriousWake \/ WriteKills \/ AcceptFails \/ MallocFails)

Next == (\E c \in Client : IOThread(c)) \/ WorkerThread \/ Acceptor \/ Main \/ Fault

Spec == Init /\ [][Next]_vars

(* Every thread is scheduled, and gets a lock that is free again and again.*)
FairSpec ==
  /\ Spec
  /\ \A c \in Client : SF_vars(IOThread(c))
  /\ SF_vars(WorkerThread) /\ SF_vars(Acceptor) /\ SF_vars(Main)

-----------------------------------------------------------------------------
(* Properties.                                                             *)

Entry == [fd : Fds, io : Client]

TypeOK ==
  /\ proc \in {"up", "exited", "killed"} /\ running \in BOOLEAN
  /\ queue \in Seq(Nat) /\ order \in Seq(Kind) /\ queueLock \in {Nobody, Worker}
  /\ clients \in Seq(Entry) /\ Len(clients) <= MaxClients
  /\ clientLock \in Client \cup {Nobody, Worker, MainThread} /\ finished \in Nat
  /\ io \in [Client -> {"none", "loop", "read", "handle", "count", "test", "stop", "signal",
                        "stopped", "close", "remove", "returned"}]
  /\ fd \in [Client -> {0} \cup Fds] /\ buf \in [Client -> Seq(Kind)]
  /\ pcW \in {"loop", "dequeue", "test queue", "wait", "waiting", "woken", "lock list",
              "write", "done"}
  /\ node \in Nat /\ i \in Nat
  /\ pcA \in {"loop", "accept", "lock", "done"} /\ new \in Client \cup {Nobody}
  /\ pcM \in {"poll", "signal", "join acceptor", "lock", "join io", "join worker"}
  /\ j \in Nat /\ open \in [Fds -> Client \cup {Nobody}]
  /\ nread \in Nat
  /\ received \in [Client -> Seq(Nat)] /\ shared \subseteq Client

(* An I/O thread closes its descriptor before it takes its entry out of the*)
(* list, and accept() may give the number to another client in between.    *)
(* All the same the list has each descriptor as often as there are I/O     *)
(* threads that still have to remove it, and until it closes it each thread*)
(* has its descriptor to itself (168-185, 352-356, 431-466).               *)
Unremoved(f) == {c \in Client : fd[c] = f /\ io[c] \notin {"none", "returned"}}

EntryPerThread ==
  /\ pcM # "join worker" => \A f \in Fds : Cardinality(Entries(f)) = Cardinality(Unremoved(f))
  /\ \A c \in Client : io[c] \notin {"none", "remove", "returned"} => open[fd[c]] = c

(* However the Type 1 messages of several threads meet, and if there are   *)
(* more of them than clients, one commit is enqueued at most, and then the *)
(* count has been complete (242-270).                                      *)
OneCommit ==
  \A n \in 1..Len(order) : order[n] = "end" =>
    finished >= Expected /\ \A m \in 1..Len(order) : order[m] = "end" => m = n

(* A client whose descriptor nobody else had in the list, and whose socket *)
(* was never full, gets what is broadcast once each, in order and without a*)
(* gap, whichever clients come and go meanwhile (171-180, 376-393).        *)
NoGapNoRepeat ==
  /\ \A c \in Client \ shared :
       \A n \in 1..(Len(received[c]) - 1) : received[c][n + 1] = received[c][n] + 1
  /\ pcW = "loop" =>
       \A n \in 1..Len(clients) :
         LET c == clients[n].io
         IN  c \notin shared /\ open[clients[n].fd] = c /\ received[c] # <<>>
               => received[c][Len(received[c])] = node

(* The thread that stops the server signals without queue_lock, and the    *)
(* worker can miss that.  It cannot miss the signal of cleanup_and_exit:   *)
(* once main joins the others, the worker never sleeps (267, 481-490).     *)
AwakeAtTheEnd ==
  pcM \notin {"poll", "signal"} => pcW \notin {"wait", "waiting"}

(* servertest.c 52 and 492-500: the flag is for a graceful shutdown, and   *)
(* cleanup joins all I/O threads: once the server stops, it exits.         *)
ShutsDown == ~running ~> (proc # "up")

=============================================================================
