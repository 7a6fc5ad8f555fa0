----------------------------- MODULE ChatServer -----------------------------
(***************************************************************************)
(* The group-chat server of lecture/test4/server.c: a main thread that     *)
(* multiplexes the clients with select(), and a broadcast worker, joined by *)
(* a message queue (queue_lock, queue_cond), a client list                 *)
(* (client_list_lock) and the flag server_running, which no lock protects. *)
(*                                                                         *)
(* A definition whose name has an underscore and a capital after it, as in *)
(* Signal_Forgotten, is the one that follows it with a bug in it: no       *)
(* specification uses it, it is there to see the properties fail.          *)
(*                                                                         *)
(* A step is what a thread does between two points where another thread or *)
(* a client can see a difference: a critical section that touches nothing  *)
(* outside its lock is one step.  The clients and the network are external: *)
(* a client may write any message of Input whenever it likes, and its bytes *)
(* arrive in pieces of any size.                                           *)
(***************************************************************************)
EXTENDS Naturals, Sequences, FiniteSets

CONSTANTS
  Client,       \* connections; the descriptor accept() returns names one
  Input,        \* what a client may write in one write(): sequences of Kind
  MaxSent,      \* bound: bytes one client writes in all
  MaxClients,   \* MAX_CLIENTS
  MaxMsg,       \* MAX_MSG_SIZE, in bytes
  Header,       \* the 6 bytes (address, port) a broadcast adds to a message
  Expected,     \* expected_clients
  Faults        \* which of FaultKind can happen

(* What the parser tells apart in a byte: the two types it knows, a newline *)
(* and anything else.  (A type byte may also occur inside a payload.)      *)
Kind == {"reg", "end", "nl", "txt"}
FaultKind == {"select", "eintr", "accept", "malloc", "close", "reset", "sigpipe"}

ASSUME ConstantsAssumption ==
  /\ IsFiniteSet(Client)
  /\ Input \subseteq Seq(Kind)
  /\ MaxSent \in Nat
  /\ MaxClients \in Nat \ {0}
  /\ MaxMsg \in Nat \ {0}
  /\ Header \in Nat
  /\ Expected \in Nat
  /\ Faults \subseteq FaultKind

VARIABLES
  \* shared by the two threads
  clients,      \* clients[0 .. num_clients-1], as the sequence of their fds
  queue,        \* queue_head .. queue_tail
  finished,     \* finished_clients_count
  running,      \* server_running
  clientLock,   \* who holds client_list_lock
  queueLock,    \* who holds queue_lock between two steps
  signalled,    \* queue_cond was signalled and the waiting worker has not run yet
  \* main's locals
  pcM, listenReady, ready, slot,
  buf,          \* client_buffers[i][0 .. client_data_len[i]-1], per slot
  \* broadcast_worker's locals
  pcW, node, wi,
  \* the process and the sockets
  proc,         \* "up", "exited" or "killed" by SIGPIPE
  conn,         \* the server's end of a connection
  peer,         \* the client's end of it
  sent,         \* the bytes the client has written
  arrived,      \* how many of them have reached the server's socket
  consumed,     \* how many of those the server has read
  delivered,    \* the messages the worker's write() put on the connection
  \* history
  order,        \* every message ever enqueued
  frontier,     \* completed broadcasts
  since         \* frontier when the client was accepted

mainVars   == <<pcM, listenReady, ready, slot>>
workerVars == <<pcW, node, wi>>
queueVars  == <<queue, queueLock, signalled, order>>
sockIn     == <<sent, arrived, consumed>>
vars == <<clients, queue, finished, running, clientLock, queueLock, signalled,
          pcM, listenReady, ready, slot, buf, pcW, node, wi, proc, conn, peer,
          sent, arrived, consumed, delivered, order, frontier, since>>

Byte == [kind : Kind, by : Client]

(* A broadcast: the address getpeername() gave, and the client's bytes from *)
(* its second one to the newline.                                          *)
Commit  == [type |-> "end"]
Message == [type : {"reg"}, from : Client, data : Seq(Byte)] \cup {Commit}
NoNode  == [type |-> "none"]

Roster == {clients[i] : i \in 1..Len(clients)}

Init ==
  /\ clients = <<>> /\ queue = <<>> /\ finished = 0 /\ running = TRUE
  /\ clientLock = "free" /\ queueLock = "free" /\ signalled = FALSE
  /\ pcM = "loop" /\ listenReady = FALSE /\ ready = {} /\ slot = 1
  /\ buf = [i \in 1..MaxClients |-> <<>>]
  /\ pcW = "test" /\ node = NoNode /\ wi = 1
  /\ proc = "up"
  /\ conn = [c \in Client |-> "none"]
  /\ peer = [c \in Client |-> "up"]
  /\ sent = [c \in Client |-> <<>>]
  /\ arrived = [c \in Client |-> 0]
  /\ consumed = [c \in Client |-> 0]
  /\ delivered = [c \in Client |-> <<>>]
  /\ order = <<>> /\ frontier = 0 /\ since = [c \in Client |-> 0]

-----------------------------------------------------------------------------
(* The clients and the network (external).  What a client reads does not   *)
(* matter to the server, except that a write() to it may block.            *)

serverVars == <<clients, queue, finished, running, clientLock, queueLock, signalled,
                pcM, listenReady, ready, slot, buf, pcW, node, wi, proc,
                consumed, delivered, order, frontier, since>>

Connect(c) ==
  /\ proc = "up" /\ conn[c] = "none"
  /\ conn' = [conn EXCEPT ![c] = "backlog"]
  /\ UNCHANGED <<serverVars, peer, sent, arrived>>

ClientWrite(c, bytes) ==
  /\ conn[c] \in {"backlog", "open"} /\ peer[c] = "up"
  /\ sent' = [sent EXCEPT ![c] = @ \o bytes]
  /\ UNCHANGED <<serverVars, conn, peer, arrived>>

Arrive(c) ==
  /\ peer[c] # "reset"
  /\ \E n \in (arrived[c] + 1)..Len(sent[c]) : arrived' = [arrived EXCEPT ![c] = n]
  /\ UNCHANGED <<serverVars, conn, peer, sent>>

(* close(): what was written still arrives, then end-of-file.  A reset     *)
(* discards what has not been read.                                        *)
ClientClose(c) ==
  /\ "close" \in Faults /\ conn[c] # "none" /\ peer[c] = "up"
  /\ peer' = [peer EXCEPT ![c] = "closed"]
  /\ UNCHANGED <<serverVars, conn, sent, arrived>>

ClientReset(c) ==
  /\ "reset" \in Faults /\ conn[c] \in {"backlog", "open"} /\ peer[c] = "up"
  /\ peer' = [peer EXCEPT ![c] = "reset"]
  /\ arrived' = [arrived EXCEPT ![c] = consumed[c]]
  /\ UNCHANGED <<serverVars, conn, sent>>

-----------------------------------------------------------------------------
(* enqueue_message: append and signal under queue_lock.  A signal reaches  *)
(* the worker only if it is waiting.                                       *)
Signal_Forgotten == UNCHANGED signalled

Signal == signalled' = (signalled \/ pcW = "asleep")

enqueue_message(m) ==
  \/ /\ queueLock = "free"
     /\ queue' = Append(queue, m)
     /\ order' = Append(order, m)
     /\ Signal
     /\ UNCHANGED queueLock
  \/ "malloc" \in Faults /\ UNCHANGED queueVars

-----------------------------------------------------------------------------
(* main: the loop up to select().                                          *)

LoopTest ==
  /\ pcM = "loop"
  /\ \/ running /\ clientLock = "free" /\ pcM' = "select"
     \/ ~running /\ pcM' = "join"
  /\ UNCHANGED <<clients, queueVars, finished, running, clientLock, listenReady, ready, slot,
                 buf, workerVars, proc, conn, peer, sockIn, delivered, frontier, since>>

Readable(c) == arrived[c] > consumed[c] \/ peer[c] = "reset"
                 \/ (peer[c] = "closed" /\ arrived[c] = Len(sent[c]))
Pending == {c \in Client : conn[c] = "backlog"}

Select ==
  /\ pcM = "select"
  /\ ready' = {c \in Roster : Readable(c)}
  /\ listenReady' = (Pending # {})
  /\ pcM' = IF ready' = {} /\ ~listenReady' THEN "loop"          \* timeout
            ELSE IF listenReady' THEN "accept" ELSE "lock"
  /\ UNCHANGED <<clients, queueVars, finished, running, clientLock, slot,
                 buf, workerVars, proc, conn, peer, sockIn, delivered, frontier, since>>

SelectFails ==
  /\ pcM = "select"
  /\ \/ "eintr" \in Faults /\ pcM' = "loop"
     \/ "select" \in Faults /\ pcM' = "join"
  /\ UNCHANGED <<clients, queueVars, finished, running, clientLock, listenReady, ready, slot,
                 buf, workerVars, proc, conn, peer, sockIn, delivered, frontier, since>>

-----------------------------------------------------------------------------
(* main: a new connection.                                                 *)

(* read_fds is a local of the loop's body.                                 *)
NextIteration == pcM' = "loop" /\ ready' = {} /\ listenReady' = FALSE

Full_Unchecked == FALSE

Full == Len(clients) >= MaxClients

Accept(c) ==
  /\ pcM = "accept" /\ c \in Pending /\ clientLock = "free"
  /\ ~Full
  /\ clients' = Append(clients, c)
  /\ buf' = [buf EXCEPT ![Len(clients) + 1] = <<>>]
  /\ conn' = [conn EXCEPT ![c] = "open"]
  /\ since' = [since EXCEPT ![c] = frontier]
  /\ NextIteration
  /\ UNCHANGED <<queueVars, finished, running, clientLock, slot, workerVars,
                 proc, peer, sockIn, delivered, frontier>>

Reject(c) ==
  /\ pcM = "accept" /\ c \in Pending /\ clientLock = "free"
  /\ Full
  /\ conn' = [conn EXCEPT ![c] = "shut"]
  /\ pcM' = "lock"
  /\ UNCHANGED <<clients, queueVars, finished, running, clientLock, listenReady, ready, slot,
                 buf, workerVars, proc, peer, sockIn, delivered, frontier, since>>

AcceptFails ==
  /\ pcM = "accept" /\ "accept" \in Faults
  /\ pcM' = "lock"
  /\ UNCHANGED <<clients, queueVars, finished, running, clientLock, listenReady, ready, slot,
                 buf, workerVars, proc, conn, peer, sockIn, delivered, frontier, since>>

-----------------------------------------------------------------------------
(* main: the data loop over the slots, under client_list_lock.             *)

socketVars == <<conn, peer, sockIn, delivered>>

LockClients ==
  /\ pcM = "lock" /\ clientLock = "free"
  /\ clientLock' = "main" /\ slot' = 1 /\ pcM' = "data"
  /\ UNCHANGED <<clients, queueVars, finished, running, listenReady, ready, buf,
                 workerVars, proc, socketVars, frontier, since>>

NextSlot ==
  /\ pcM = "data" /\ slot <= Len(clients) /\ clients[slot] \notin ready
  /\ slot' = slot + 1
  /\ UNCHANGED <<clients, queueVars, finished, running, clientLock, pcM, listenReady, ready,
                 buf, workerVars, proc, socketVars, frontier, since>>

LastSlot ==
  /\ pcM = "data" /\ slot > Len(clients)
  /\ clientLock' = "free" /\ slot' = 1 /\ NextIteration
  /\ UNCHANGED <<clients, queueVars, finished, running, buf, workerVars,
                 proc, socketVars, frontier, since>>

(* read() returns what has arrived, up to the room left in the buffer.     *)
Available(c) == IF arrived[c] - consumed[c] <= MaxMsg - Len(buf[slot])
                  THEN arrived[c] - consumed[c]
                  ELSE MaxMsg - Len(buf[slot])

ReadData ==
  /\ pcM = "data" /\ slot <= Len(clients) /\ clients[slot] \in ready
  /\ LET c == clients[slot]
         n == Available(c)
     IN  /\ n > 0
         /\ buf' = [buf EXCEPT ![slot] =
                      @ \o [k \in 1..n |-> [kind |-> sent[c][consumed[c] + k], by |-> c]]]
         /\ consumed' = [consumed EXCEPT ![c] = @ + n]
  /\ pcM' = "handle"
  /\ UNCHANGED <<clients, queueVars, finished, running, clientLock, listenReady, ready, slot,
                 workerVars, proc, conn, peer, sent, arrived, delivered, frontier, since>>

(* bytes_read <= 0, at end-of-file, after a reset, or because the buffer is *)
(* full: the lock is given up and taken again around remove_client.        *)
ReadEnds ==
  /\ pcM = "data" /\ slot <= Len(clients) /\ clients[slot] \in ready
  /\ Available(clients[slot]) = 0
  /\ clientLock' = "free" /\ pcM' = "remove"
  /\ UNCHANGED <<clients, queueVars, finished, running, listenReady, ready, slot, buf,
                 workerVars, proc, socketVars, frontier, since>>

(* The last client moves into the freed slot; the buffers stay where they  *)
(* are.  After i-- and the loop's i++ the same slot is looked at again.    *)
Without_CountKept(s, i) == [s EXCEPT ![i] = s[Len(s)]]

Without(s, i) == SubSeq([s EXCEPT ![i] = s[Len(s)]], 1, Len(s) - 1)

remove_client ==
  /\ pcM = "remove" /\ clientLock = "free"
  /\ clients' = Without(clients, slot)
  /\ conn' = [conn EXCEPT ![clients[slot]] = "shut"]
  /\ pcM' = "relock"
  /\ UNCHANGED <<queueVars, finished, running, clientLock, listenReady, ready, slot, buf,
                 workerVars, proc, peer, sockIn, delivered, frontier, since>>

Relock ==
  /\ pcM = "relock" /\ clientLock = "free"
  /\ clientLock' = "main" /\ pcM' = "data"
  /\ UNCHANGED <<clients, queueVars, finished, running, listenReady, ready, slot, buf,
                 workerVars, proc, socketVars, frontier, since>>

-----------------------------------------------------------------------------
(* main: handle_message, once per line in the slot's buffer.               *)

HasLine(b) == \E j \in 1..Len(b) : b[j].kind = "nl"
LineLen_Last(b) == CHOOSE j \in 1..Len(b) :
                     b[j].kind = "nl" /\ \A k \in (j + 1)..Len(b) : b[k].kind # "nl"

LineLen(b) == CHOOSE j \in 1..Len(b) :
                b[j].kind = "nl" /\ \A k \in 1..(j - 1) : b[k].kind # "nl"
Rest(b)    == SubSeq(b, LineLen(b) + 1, Len(b))
Data(b)    == SubSeq(b, 2, LineLen(b))

(* getpeername() fails on a reset connection, and the address is then      *)
(* whatever an earlier call left on the stack.                             *)
Address(c) == IF peer[c] = "reset" THEN Client ELSE {c}

NoLine_Disconnects ==
  /\ pcM = "handle" /\ ~HasLine(buf[slot])
  /\ clientLock' = "free" /\ pcM' = "remove"
  /\ UNCHANGED <<clients, queueVars, finished, running, listenReady, ready, slot, buf,
                 workerVars, proc, socketVars, frontier, since>>

NoLine ==
  /\ pcM = "handle" /\ ~HasLine(buf[slot])
  /\ slot' = slot + 1 /\ pcM' = "data"
  /\ UNCHANGED <<clients, queueVars, finished, running, clientLock, listenReady, ready, buf,
                 workerVars, proc, socketVars, frontier, since>>

Regular ==
  /\ pcM = "handle" /\ HasLine(buf[slot]) /\ buf[slot][1].kind = "reg"
  /\ IF LineLen(buf[slot]) + Header > MaxMsg
       THEN UNCHANGED queueVars
       ELSE \E a \in Address(clients[slot]) :
              enqueue_message([type |-> "reg", from |-> a, data |-> Data(buf[slot])])
  /\ buf' = [buf EXCEPT ![slot] = Rest(@)]
  /\ UNCHANGED <<clients, finished, running, clientLock, pcM, listenReady, ready, slot,
                 workerVars, proc, socketVars, frontier, since>>

EndsExecution_AnyLength(b) == HasLine(b) /\ b[1].kind = "end"

EndsExecution(b) == HasLine(b) /\ b[1].kind = "end" /\ LineLen(b) = 2

AllFinished_OffByOne(n) == n + 1 = Expected

AllFinished(n) == n = Expected

Finish ==
  /\ pcM = "handle" /\ EndsExecution(buf[slot])
  /\ finished' = finished + 1
  /\ IF AllFinished(finished')
       THEN pcM' = "commit" /\ UNCHANGED buf
       ELSE buf' = [buf EXCEPT ![slot] = Rest(@)] /\ UNCHANGED pcM
  /\ UNCHANGED <<clients, queueVars, running, clientLock, listenReady, ready, slot,
                 workerVars, proc, socketVars, frontier, since>>

(* A type 1 line of the wrong length, or an unknown type.                  *)
Discard ==
  /\ pcM = "handle" /\ HasLine(buf[slot])
  /\ buf[slot][1].kind # "reg" /\ ~EndsExecution(buf[slot])
  /\ buf' = [buf EXCEPT ![slot] = Rest(@)]
  /\ UNCHANGED <<clients, queueVars, finished, running, clientLock, pcM, listenReady, ready,
                 slot, workerVars, proc, socketVars, frontier, since>>

EnqueueCommit ==
  /\ pcM = "commit"
  /\ enqueue_message(Commit)
  /\ pcM' = "stop"
  /\ UNCHANGED <<clients, finished, running, clientLock, listenReady, ready, slot, buf,
                 workerVars, proc, socketVars, frontier, since>>

StopRunning_Forgotten ==
  /\ pcM = "stop"
  /\ pcM' = "wake"
  /\ UNCHANGED <<clients, queueVars, finished, running, clientLock, listenReady, ready, slot,
                 buf, workerVars, proc, socketVars, frontier, since>>

StopRunning ==
  /\ pcM = "stop"
  /\ running' = FALSE /\ pcM' = "wake"
  /\ UNCHANGED <<clients, queueVars, finished, clientLock, listenReady, ready, slot, buf,
                 workerVars, proc, socketVars, frontier, since>>

(* pthread_cond_signal without queue_lock; then handle_message returns -2  *)
(* and main unlocks the client list before cleanup_and_exit.               *)
WakeWorker ==
  /\ pcM = "wake"
  /\ Signal
  /\ buf' = [buf EXCEPT ![slot] = Rest(@)]
  /\ clientLock' = "free" /\ pcM' = "join"
  /\ UNCHANGED <<clients, queue, queueLock, order, finished, running, listenReady, ready,
                 slot, workerVars, proc, socketVars, frontier, since>>

-----------------------------------------------------------------------------
(* main: cleanup_and_exit.                                                 *)

JoinWorker ==
  /\ pcM = "join" /\ pcW = "done"
  /\ pcM' = "close"
  /\ UNCHANGED <<clients, queueVars, finished, running, clientLock, listenReady, ready, slot,
                 buf, workerVars, proc, socketVars, frontier, since>>

CloseAndExit ==
  /\ pcM = "close" /\ clientLock = "free"
  /\ conn' = [c \in Client |-> IF c \in Roster \/ conn[c] = "backlog" THEN "shut" ELSE conn[c]]
  /\ queue' = <<>>
  /\ proc' = "exited" /\ pcM' = "exit"
  /\ UNCHANGED <<clients, queueLock, signalled, order, finished, running, clientLock,
                 listenReady, ready, slot, buf, workerVars, peer, sockIn, delivered,
                 frontier, since>>

-----------------------------------------------------------------------------
(* broadcast_worker and dequeue_message.                                   *)

mainAndBuf == <<mainVars, buf>>

WorkerTest ==
  /\ pcW = "test"
  /\ pcW' = IF running THEN "lockq" ELSE "done"
  /\ UNCHANGED <<clients, queueVars, finished, running, clientLock, mainAndBuf, node, wi,
                 proc, socketVars, frontier, since>>

LockQueue ==
  /\ pcW = "lockq" /\ queueLock = "free"
  /\ queueLock' = "worker" /\ pcW' = "check"
  /\ UNCHANGED <<clients, queue, signalled, order, finished, running, clientLock, mainAndBuf,
                 node, wi, proc, socketVars, frontier, since>>

(* The condition of the wait loop, under queue_lock; server_running may    *)
(* change between this test and the wait.                                  *)
TestQueue ==
  /\ pcW = "check" /\ queue = <<>>
  /\ IF running
       THEN pcW' = "wait" /\ UNCHANGED queueLock
       ELSE pcW' = "done" /\ queueLock' = "free"       \* returns NULL
  /\ UNCHANGED <<clients, queue, signalled, order, finished, running, clientLock, mainAndBuf,
                 node, wi, proc, socketVars, frontier, since>>

Dequeue ==
  /\ pcW = "check" /\ queue # <<>>
  /\ node' = Head(queue) /\ queue' = Tail(queue)
  /\ queueLock' = "free" /\ pcW' = "lockc"
  /\ UNCHANGED <<clients, signalled, order, finished, running, clientLock, mainAndBuf,
                 wi, proc, socketVars, frontier, since>>

CondWait ==
  /\ pcW = "wait"
  /\ queueLock' = "free" /\ pcW' = "asleep"
  /\ UNCHANGED <<clients, queue, signalled, order, finished, running, clientLock, mainAndBuf,
                 node, wi, proc, socketVars, frontier, since>>

Awake ==
  /\ signalled' = FALSE /\ pcW' = "lockq"
  /\ UNCHANGED <<clients, queue, queueLock, order, finished, running, clientLock, mainAndBuf,
                 node, wi, proc, socketVars, frontier, since>>

WakeUp       == pcW = "asleep" /\ signalled /\ Awake
SpuriousWake == pcW = "asleep" /\ ~signalled /\ Awake

LockList_Unlocked ==
  /\ pcW = "lockc"
  /\ wi' = 1 /\ pcW' = "send"
  /\ UNCHANGED <<clients, queueVars, finished, running, clientLock, mainAndBuf, node, proc,
                 socketVars, frontier, since>>

LockList ==
  /\ pcW = "lockc" /\ clientLock = "free"
  /\ clientLock' = "worker" /\ wi' = 1 /\ pcW' = "send"
  /\ UNCHANGED <<clients, queueVars, finished, running, mainAndBuf, node, proc, socketVars,
                 frontier, since>>

(* write() to one client.  It may block for as long as the client does not *)
(* read, with client_list_lock held: the step is then not taken, and no    *)
(* fairness is assumed of it here.  What is written to a connection whose  *)
(* other end is gone is lost.                                              *)
Write ==
  /\ pcW = "send" /\ wi <= Len(clients)
  /\ LET c == clients[wi]
     IN  IF peer[c] = "up"
           THEN delivered' = [delivered EXCEPT ![c] = Append(@, node)]
           ELSE UNCHANGED delivered
  /\ wi' = wi + 1
  /\ UNCHANGED <<clients, queueVars, finished, running, clientLock, mainAndBuf, pcW, node,
                 proc, conn, peer, sockIn, frontier, since>>

(* ... and once that end has answered with a reset, write() raises SIGPIPE, *)
(* which the server neither blocks nor handles.                            *)
WriteKills ==
  /\ pcW = "send" /\ wi <= Len(clients)
  /\ "sigpipe" \in Faults /\ peer[clients[wi]] # "up"
  /\ proc' = "killed"
  /\ UNCHANGED <<clients, queueVars, finished, running, clientLock, mainAndBuf, workerVars,
                 socketVars, frontier, since>>

EndBroadcast ==
  /\ pcW = "send" /\ wi > Len(clients)
  /\ clientLock' = "free" /\ node' = NoNode /\ wi' = 1 /\ pcW' = "test"
  /\ frontier' = frontier + 1
  /\ UNCHANGED <<clients, queueVars, finished, running, mainAndBuf, proc, socketVars, since>>

-----------------------------------------------------------------------------

Main ==
  /\ proc = "up"
  /\ \/ LoopTest \/ Select \/ SelectFails
     \/ \E c \in Client : Accept(c) \/ Reject(c)
     \/ AcceptFails
     \/ LockClients \/ NextSlot \/ LastSlot \/ ReadData \/ ReadEnds \/ remove_client \/ Relock
     \/ NoLine \/ Regular \/ Finish \/ Discard \/ EnqueueCommit \/ StopRunning \/ WakeWorker
     \/ JoinWorker \/ CloseAndExit

WorkerStep ==
  \/ WorkerTest \/ LockQueue \/ TestQueue \/ Dequeue \/ CondWait \/ WakeUp
  \/ LockList \/ Write \/ WriteKills \/ EndBroadcast

Worker == proc = "up" /\ WorkerStep

Environment ==
  \E c \in Client :
    \/ Connect(c) \/ Arrive(c) \/ ClientClose(c) \/ ClientReset(c)
    \/ \E bytes \in Input : Len(sent[c]) + Len(bytes) <= MaxSent /\ ClientWrite(c, bytes)

Exited == proc # "up" /\ UNCHANGED vars

Next ==
  \/ Main
  \/ Worker
  \/ proc = "up" /\ SpuriousWake
  \/ Environment
  \/ Exited

Spec == Init /\ [][Next]_vars

-----------------------------------------------------------------------------
(* Properties.                                                             *)

SharedTypes ==
  /\ clients \in Seq(Client) /\ Len(clients) <= MaxClients
  /\ queue \in Seq(Message) /\ order \in Seq(Message)
  /\ finished \in Nat /\ running \in BOOLEAN
  /\ clientLock \in {"free", "main", "worker"} /\ queueLock \in {"free", "worker"}
  /\ signalled \in BOOLEAN

MainTypes ==
  /\ pcM \in {"loop", "select", "accept", "lock", "data", "remove", "relock", "handle",
              "commit", "stop", "wake", "join", "close", "exit"}
  /\ listenReady \in BOOLEAN /\ ready \subseteq Client /\ slot \in 1..(MaxClients + 1)

BufferTypes ==
  /\ buf \in [1..MaxClients -> Seq(Byte)]
  /\ \A i \in 1..MaxClients : Len(buf[i]) <= MaxMsg

WorkerTypes ==
  /\ pcW \in {"test", "lockq", "check", "wait", "asleep", "lockc", "send", "done"}
  /\ node \in Message \cup {NoNode} /\ wi \in 1..(MaxClients + 1)

SocketTypes ==
  /\ proc \in {"up", "exited", "killed"}
  /\ conn \in [Client -> {"none", "backlog", "open", "shut"}]
  /\ peer \in [Client -> {"up", "closed", "reset"}]
  /\ sent \in [Client -> Seq(Kind)]
  /\ arrived \in [Client -> Nat] /\ consumed \in [Client -> Nat]
  /\ \A c \in Client : consumed[c] <= arrived[c] /\ arrived[c] <= Len(sent[c])

OutputTypes ==
  /\ delivered \in [Client -> Seq(Message)]
  /\ frontier \in Nat /\ since \in [Client -> Nat]

TypeOK == SharedTypes /\ MainTypes /\ BufferTypes /\ WorkerTypes /\ SocketTypes /\ OutputTypes

(* The list main and the worker share has every accepted connection that   *)
(* main has not closed exactly once, and no other (accept at 435-448,      *)
(* remove_client at 128-145).                                              *)
RosterExact ==
  /\ \A i, j \in 1..Len(clients) : clients[i] = clients[j] => i = j
  /\ proc = "up" => Roster = {c \in Client : conn[c] = "open"}

(* The worker never sleeps while there is something for it to do: a queued *)
(* message, or the end of the server, after the last signal main will send *)
(* (99-120 against 72-94 and 280-282).                                     *)
NoLostWakeup ==
  pcW = "asleep" /\ ~signalled => queue = <<>> /\ (running \/ pcM = "wake")

(* What the worker and the clients see is the ordered broadcast: one order, *)
(* without gap or repetition, the same for every client (149).             *)
served == IF pcW = "send" THEN {clients[i] : i \in 1..(wi - 1)} ELSE {}
gone   == {c \in Client : peer[c] # "up" \/ conn[c] = "shut"}

Broadcast == INSTANCE OrderedBroadcast WITH members <- Roster

RefinesOrderedBroadcast == Broadcast!Spec

(* The lines of a byte sequence: where each starts, and its newline.       *)
Lines(s) ==
  {l \in (1..Len(s)) \X (1..Len(s)) :
     /\ l[1] <= l[2] /\ s[l[2]] = "nl"
     /\ l[1] = 1 \/ s[l[1] - 1] = "nl"
     /\ \A k \in l[1]..(l[2] - 1) : s[k] # "nl"}
RegularLines(s) == {l \in Lines(s) : /\ s[l[1]] = "reg"
                                     /\ l[2] - l[1] + 1 + Header <= MaxMsg}
EndLines(s)     == {l \in Lines(s) : s[l[1]] = "end" /\ l[2] = l[1] + 1}

(* The bytes of a slot's client that main has taken from the buffer, and   *)
(* the places in `order' of the messages under a client's address.         *)
Processed(i) == SubSeq(sent[clients[i]], 1, consumed[clients[i]] - Len(buf[i]))
Posted(c)    == {n \in 1..Len(order) : order[n] # Commit /\ order[n].from = c}

(* A client that was shut out without a byte read, and whose own end is    *)
(* open, was rejected and never in the list.                               *)
NobodyRemoved ==
  proc = "up" /\ \A c \in Client : conn[c] = "shut" => consumed[c] = 0 /\ peer[c] = "up"

(* However the bytes of a client are cut into reads, and whatever the other *)
(* slots do, its messages are enqueued whole, in the order it wrote them,  *)
(* under its own address, as long as main has removed no client (190-308   *)
(* with the buffers of 394-395 and 464-486): the k-th one posted is the    *)
(* k-th Type 0 line that fits.                                             *)
Text(c, p, l) == [n \in 1..(l[2] - l[1]) |-> [kind |-> p[l[1] + n], by |-> c]]

SameRank(P, n, R, l) ==
  Cardinality({m \in P : m <= n}) = Cardinality({k \in R : k[2] <= l[2]})

PostedInOrder(c, p) ==
  LET R == RegularLines(p)
      P == Posted(c)
  IN  /\ Cardinality(P) = Cardinality(R)
      /\ \A n \in P, l \in R :
           SameRank(P, n, R, l) => order[n].data = Text(c, p, l)

Reassembly ==
  NobodyRemoved => \A i \in 1..Len(clients) : PostedInOrder(clients[i], Processed(i))

(* Main counts exactly the Type 1 lines it has taken from the buffers, and *)
(* the commit waits for the last expected one (252-285).                   *)
Ended == UNION {{i} \X EndLines(Processed(i)) : i \in 1..Len(clients)}

FinishedExact ==
  /\ NobodyRemoved /\ pcM \notin {"commit", "stop", "wake"} => finished = Cardinality(Ended)
  /\ Commit \in {order[n] : n \in 1..Len(order)} => finished = Expected

(* What the comment at 190-191 says of handle_message: it reads a full     *)
(* message from a socket, so a broadcast has one client's bytes.           *)
OneAuthor ==
  \A n \in 1..Len(order) : order[n] # Commit =>
    \A k, l \in 1..Len(order[n].data) : order[n].data[k].by = order[n].data[l].by
=============================================================================
