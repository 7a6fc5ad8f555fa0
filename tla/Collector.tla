------------------------------ MODULE Collector ------------------------------
(***************************************************************************)
(* The collecting server of src/lab/server.c and its clients: an acceptor  *)
(* thread takes up to MAX_CLIENTS connections and starts a thread for      *)
(* each; the threads add what they read to one list under a mutex; main    *)
(* polls the count, stops everybody when it is reached, and collects.      *)
(*                                                                         *)
(* A message is BUF_SIZE bytes long, which count as two halves: TCP may    *)
(* hand a message over in one read or in pieces.  A piece is a record of   *)
(* the client and of the halves from and to.  All sockets do not block.    *)
(***************************************************************************)
EXTENDS Integers, Sequences, FiniteSets

CONSTANTS Client,               \* the client processes
          MAX_CLIENTS, NUM_MSG_PER_CLIENT,
          NUM_MSG,              \* what a client sends
          Faults,               \* subset of {"split", "reset", "accept"}
          Free, Main            \* holders of list_mutex that are no client thread

ASSUME CollectorAssumption ==
  /\ MAX_CLIENTS \in Nat \ {0} /\ NUM_MSG_PER_CLIENT \in Nat \ {0} /\ NUM_MSG \in Nat
  /\ IsFiniteSet(Client) /\ "nobody" \notin Client
  /\ Free # Main /\ Free \notin Nat /\ Main \notin Nat
  /\ Faults \subseteq {"split", "reset", "accept"}

VARIABLES
  conn,         \* [Client -> {"idle", "queued", "accepted"}]
  left,         \* [Client -> {"no", "closed", "reset"}]
  sent, got,    \* [Client -> Nat]: halves written, halves read by the server
  open,         \* the descriptor table of the server, [Fd -> Client or Nobody]
  main,         \* pc of main
  running,      \* aargs.run
  acceptor,     \* pc of run_acceptor
  next,         \* its loop index while it stops the threads
  client_args,  \* a sequence: [cfd, run, client] for each thread, the client a history variable
  thread,       \* pcs of run_client, in the same order
  piece,        \* what each thread read last
  last_node,    \* its local variable in add_to_list: how many nodes lie up to it
  list, count,  \* the nodes from the head on, and list_handle.count
  list_mutex    \* Free, Main or the index of a thread

netVars == <<conn, left, sent>>
accVars == <<acceptor, next>>
listVars == <<list, count>>
threadVars == <<thread, piece, last_node>>
vars == <<conn, left, sent, got, open, main, running, acceptor, next, client_args, thread, piece,
          last_node, list, count, list_mutex>>

TOTAL == MAX_CLIENTS * NUM_MSG_PER_CLIENT
Fd == 1..(MAX_CLIENTS + 1)
Nobody == "nobody"
num_clients == Len(client_args)
Thread == 1..num_clients
Alive == main # "died"

Piece == [client : Client, from : Nat, to : Nat]

-----------------------------------------------------------------------------
(* The clients: each sends NUM_MSG messages and ends, closing its socket.  *)
Connect(c) ==
  /\ conn[c] = "idle" /\ conn' = [conn EXCEPT ![c] = "queued"] /\ UNCHANGED <<left, sent>>

Send(c) ==
  /\ conn[c] # "idle" /\ left[c] = "no" /\ sent[c] + 2 <= 2 * NUM_MSG
  /\ sent' = [sent EXCEPT ![c] = @ + 2] /\ UNCHANGED <<conn, left>>

(* A connection may be reset, which throws away what was not read.  (To    *)
(* the server, a client that is killed is one that stops sending.)         *)
Leave(c) ==
  /\ conn[c] # "idle" /\ left[c] = "no"
  /\ \/ sent[c] = 2 * NUM_MSG /\ left' = [left EXCEPT ![c] = "closed"]
     \/ "reset" \in Faults /\ left' = [left EXCEPT ![c] = "reset"]
  /\ UNCHANGED <<conn, sent>>

ClientProcess(c) ==
  /\ Alive /\ (Connect(c) \/ Send(c) \/ Leave(c))
  /\ UNCHANGED <<got, open, main, running, accVars, client_args, threadVars, listVars, list_mutex>>

-----------------------------------------------------------------------------
(* A client thread.                                                        *)

LoopTest(t) ==
  /\ thread[t] = "test"
  /\ thread' = [thread EXCEPT ![t] = IF client_args[t].run THEN "read" ELSE "close"]
  /\ UNCHANGED <<netVars, got, open, main, running, accVars, client_args, piece, last_node,
                 listVars, list_mutex>>

Peer(t) == open[client_args[t].cfd]
Unread(c) == sent[c] - got[c]

Read(t) ==
  /\ thread[t] = "read"
  /\ Peer(t) # Nobody /\ left[Peer(t)] # "reset" /\ Unread(Peer(t)) > 0
  /\ \E n \in 1..2 :
       /\ n <= Unread(Peer(t)) /\ (n < 2 => "split" \in Faults)
       /\ piece' = [piece EXCEPT ![t] = [client |-> Peer(t), from |-> got[Peer(t)],
                                         to |-> got[Peer(t)] + n]]
       /\ got' = [got EXCEPT ![Peer(t)] = @ + n]
  /\ thread' = [thread EXCEPT ![t] = "lock"]
  /\ UNCHANGED <<netVars, open, main, running, accVars, client_args, last_node, listVars,
                 list_mutex>>

(* As if the descriptor were closed on an error, and again after the loop. *)
ReadNothing_Closes(t) ==
  /\ thread[t] = "read"
  /\ IF Peer(t) = Nobody \/ left[Peer(t)] = "reset"
       THEN /\ thread' = [thread EXCEPT ![t] = "close"]
            /\ open' = [open EXCEPT ![client_args[t].cfd] = Nobody]
       ELSE Unread(Peer(t)) = 0 /\ thread' = [thread EXCEPT ![t] = "test"] /\ UNCHANGED open
  /\ UNCHANGED <<netVars, got, main, running, accVars, client_args, piece, last_node, listVars,
                 list_mutex>>

(* Nothing to read, or the end of the stream: both go round again.  Any    *)
(* other error ends the thread's loop.                                     *)
ReadNothing(t) ==
  /\ thread[t] = "read"
  /\ IF Peer(t) = Nobody \/ left[Peer(t)] = "reset"
       THEN thread' = [thread EXCEPT ![t] = "close"]
       ELSE Unread(Peer(t)) = 0 /\ thread' = [thread EXCEPT ![t] = "test"]
  /\ UNCHANGED <<netVars, got, open, main, running, accVars, client_args, piece, last_node,
                 listVars, list_mutex>>

(* add_to_list, from the lock to the unlock.                               *)
(* As if it were skipped; as if it were tried once, and the piece thrown   *)
(* away when somebody else has it.                                         *)
Lock_Skipped(t) ==
  /\ thread[t] = "lock" /\ thread' = [thread EXCEPT ![t] = "last"]
  /\ UNCHANGED <<netVars, got, open, main, running, accVars, client_args, piece, last_node,
                 listVars, list_mutex>>
Lock_Tried(t) ==
  /\ thread[t] = "lock"
  /\ list_mutex' = IF list_mutex = Free THEN t ELSE list_mutex
  /\ thread' = [thread EXCEPT ![t] = IF list_mutex = Free THEN "last" ELSE "test"]
  /\ UNCHANGED <<netVars, got, open, main, running, accVars, client_args, piece, last_node,
                 listVars>>

Lock(t) ==
  /\ thread[t] = "lock" /\ list_mutex = Free /\ list_mutex' = t
  /\ thread' = [thread EXCEPT ![t] = "last"]
  /\ UNCHANGED <<netVars, got, open, main, running, accVars, client_args, piece, last_node,
                 listVars>>

ReadLast(t) ==
  /\ thread[t] = "last" /\ last_node' = [last_node EXCEPT ![t] = Len(list)]
  /\ thread' = [thread EXCEPT ![t] = "link"]
  /\ UNCHANGED <<netVars, got, open, main, running, accVars, client_args, piece, listVars,
                 list_mutex>>

Link(t) ==
  /\ thread[t] = "link" /\ list' = Append(SubSeq(list, 1, last_node[t]), piece[t])
  /\ thread' = [thread EXCEPT ![t] = "count"]
  /\ UNCHANGED <<netVars, got, open, main, running, accVars, client_args, piece, last_node, count,
                 list_mutex>>

Count(t) ==
  /\ thread[t] = "count" /\ count' = count + 1 /\ list_mutex' = Free
  /\ thread' = [thread EXCEPT ![t] = "test"]
  /\ UNCHANGED <<netVars, got, open, main, running, accVars, client_args, piece, last_node, list>>

Close(t) ==
  /\ thread[t] = "close" /\ open' = [open EXCEPT ![client_args[t].cfd] = Nobody]
  /\ thread' = [thread EXCEPT ![t] = "done"]
  /\ UNCHANGED <<netVars, got, main, running, accVars, client_args, piece, last_node, listVars,
                 list_mutex>>

run_client(t) ==
  Alive /\ (LoopTest(t) \/ Read(t) \/ ReadNothing(t) \/ Lock(t) \/ ReadLast(t) \/ Link(t)
              \/ Count(t) \/ Close(t))

-----------------------------------------------------------------------------
(* The acceptor.                                                           *)

(* As if it accepted one connection too many.                              *)
AcceptorTest_OneMore ==
  /\ acceptor = "test"
  /\ acceptor' = IF ~running THEN "stop"
                 ELSE IF num_clients <= MAX_CLIENTS THEN "accept" ELSE "test"
  /\ UNCHANGED <<netVars, got, open, main, running, next, client_args, threadVars, listVars,
                 list_mutex>>

AcceptorTest ==
  /\ acceptor = "test"
  /\ acceptor' = IF ~running THEN "stop"
                 ELSE IF num_clients < MAX_CLIENTS THEN "accept" ELSE "test"
  /\ UNCHANGED <<netVars, got, open, main, running, next, client_args, threadVars, listVars,
                 list_mutex>>

LowestFree(f) == open[f] = Nobody /\ \A g \in Fd : open[g] = Nobody => f <= g

Accept(c) ==
  /\ acceptor = "accept" /\ conn[c] = "queued" /\ acceptor' = "test"
  /\ conn' = [conn EXCEPT ![c] = "accepted"]
  /\ \E f \in Fd :
       /\ LowestFree(f) /\ open' = [open EXCEPT ![f] = c]
       /\ client_args' = Append(client_args, [cfd |-> f, run |-> TRUE, client |-> c])
  /\ thread' = Append(thread, "test")
  /\ piece' = Append(piece, [client |-> c, from |-> 0, to |-> 0])
  /\ last_node' = Append(last_node, 0)
  /\ UNCHANGED <<left, sent, got, main, running, next, listVars, list_mutex>>

NoConnection ==
  /\ acceptor = "accept" /\ (\A c \in Client : conn[c] # "queued") /\ acceptor' = "test"
  /\ UNCHANGED <<netVars, got, open, main, running, next, client_args, threadVars, listVars,
                 list_mutex>>

AcceptFails ==
  /\ acceptor = "accept" /\ "accept" \in Faults /\ main' = "died"
  /\ UNCHANGED <<netVars, got, open, running, accVars, client_args, threadVars, listVars,
                 list_mutex>>

(* As if the thread were joined without being told.                        *)
StopClient_NotTold ==
  /\ acceptor = "stop" /\ next \in Thread /\ acceptor' = "join"
  /\ UNCHANGED <<netVars, got, open, main, running, next, client_args, threadVars, listVars,
                 list_mutex>>

StopClient ==
  /\ acceptor = "stop" /\ next \in Thread
  /\ client_args' = [client_args EXCEPT ![next].run = FALSE] /\ acceptor' = "join"
  /\ UNCHANGED <<netVars, got, open, main, running, next, threadVars, listVars, list_mutex>>

(* As if the threads were detached.                                        *)
JoinClient_Detached ==
  /\ acceptor = "join"
  /\ open' = [open EXCEPT ![client_args[next].cfd] = Nobody]
  /\ next' = next + 1 /\ acceptor' = "stop"
  /\ UNCHANGED <<netVars, got, main, running, client_args, threadVars, listVars, list_mutex>>

(* The thread has closed the descriptor already; this closes it again, or, *)
(* when the number is another thread's by now, closes that connection.     *)
JoinClient ==
  /\ acceptor = "join" /\ thread[next] = "done"
  /\ open' = [open EXCEPT ![client_args[next].cfd] = Nobody]
  /\ next' = next + 1 /\ acceptor' = "stop"
  /\ UNCHANGED <<netVars, got, main, running, client_args, threadVars, listVars, list_mutex>>

AllStopped ==
  /\ acceptor = "stop" /\ next > num_clients /\ acceptor' = "done"
  /\ UNCHANGED <<netVars, got, open, main, running, next, client_args, threadVars, listVars,
                 list_mutex>>

run_acceptor ==
  /\ Alive
  /\ \/ AcceptorTest \/ NoConnection \/ AcceptFails \/ StopClient \/ JoinClient \/ AllStopped
     \/ \E c \in Client : Accept(c)

-----------------------------------------------------------------------------
(* main.                                                                   *)

MainLock ==
  /\ main = "poll" /\ list_mutex = Free /\ list_mutex' = Main /\ main' = "look"
  /\ UNCHANGED <<netVars, got, open, running, accVars, client_args, threadVars, listVars>>

(* As if it stopped one message early.                                     *)
MainLook_Early ==
  /\ main = "look" /\ list_mutex' = Free
  /\ main' = IF count >= TOTAL - 1 THEN "stop" ELSE "poll"
  /\ UNCHANGED <<netVars, got, open, running, accVars, client_args, threadVars, listVars>>

MainLook ==
  /\ main = "look" /\ list_mutex' = Free
  /\ main' = IF count >= TOTAL THEN "stop" ELSE "poll"
  /\ UNCHANGED <<netVars, got, open, running, accVars, client_args, threadVars, listVars>>

MainStop ==
  /\ main = "stop" /\ running' = FALSE /\ main' = "join"
  /\ UNCHANGED <<netVars, got, open, accVars, client_args, threadVars, listVars, list_mutex>>

MainJoin ==
  /\ main = "join" /\ acceptor = "done"
  /\ main' = IF count # TOTAL THEN "wrong number" ELSE "collect"
  /\ UNCHANGED <<netVars, got, open, running, accVars, client_args, threadVars, listVars,
                 list_mutex>>

collect_all ==
  /\ main = "collect"
  /\ main' = IF Len(list) # count THEN "not all" ELSE "all collected"
  /\ UNCHANGED <<netVars, got, open, running, accVars, client_args, threadVars, listVars,
                 list_mutex>>

MainProcess == MainLock \/ MainLook \/ MainStop \/ MainJoin \/ collect_all

-----------------------------------------------------------------------------
Init ==
  /\ conn = [c \in Client |-> "idle"] /\ left = [c \in Client |-> "no"]
  /\ sent = [c \in Client |-> 0] /\ got = [c \in Client |-> 0]
  /\ open = [fd \in Fd |-> Nobody] /\ main = "poll" /\ running = TRUE
  /\ acceptor = "test" /\ next = 1 /\ client_args = <<>>
  /\ thread = <<>> /\ piece = <<>> /\ last_node = <<>>
  /\ list = <<>> /\ count = 0 /\ list_mutex = Free

Ended == main \in {"wrong number", "not all", "all collected", "died"}
Finished == Ended /\ UNCHANGED vars

Next ==
  \/ MainProcess \/ run_acceptor \/ Finished
  \/ \E t \in Thread : run_client(t)
  \/ \E c \in Client : ClientProcess(c)

(* The scheduler runs every thread of the server; clients owe nothing.     *)
Fairness ==
  /\ WF_vars(MainProcess) /\ WF_vars(run_acceptor)
  /\ \A t \in 1..MAX_CLIENTS : WF_vars(t \in Thread /\ run_client(t))

Spec == Init /\ [][Next]_vars /\ Fairness

-----------------------------------------------------------------------------
TypeOK ==
  /\ conn \in [Client -> {"idle", "queued", "accepted"}]
  /\ left \in [Client -> {"no", "closed", "reset"}]
  /\ sent \in [Client -> 0..(2 * NUM_MSG)] /\ got \in [Client -> 0..(2 * NUM_MSG)]
  /\ open \in [Fd -> Client \cup {Nobody}] /\ running \in BOOLEAN
  /\ main \in {"poll", "look", "stop", "join", "collect", "wrong number", "not all",
               "all collected", "died"}
  /\ acceptor \in {"test", "accept", "stop", "join", "done"} /\ next \in 1..(MAX_CLIENTS + 1)
  /\ client_args \in Seq([cfd : Fd, run : BOOLEAN, client : Client])
  /\ num_clients <= MAX_CLIENTS
  /\ thread \in [Thread -> {"test", "read", "lock", "last", "link", "count", "close", "done"}]
  /\ piece \in [Thread -> Piece] /\ last_node \in [Thread -> Nat]
  /\ list \in Seq(Piece) /\ count \in Nat /\ list_mutex \in {Free, Main} \cup Thread

(* However the threads interleave in add_to_list, no node is unlinked and  *)
(* no increment lost: the list has one node per count, and one for a       *)
(* thread that has linked its node and not counted it.                     *)
ListExact == Len(list) = count + Cardinality({t \in Thread : thread[t] = "count"})

(* What was read from a client is in the list, in the order it was sent,   *)
(* each half once, or in the hand of its thread: though descriptors are    *)
(* closed twice and numbers used again, no thread reads another's client.  *)
InHand(t) == thread[t] \in {"lock", "last", "link"}
Nodes(c, n) == {k \in 1..n : list[k].client = c}
EndsAt(c, n, half) ==           \* what the first n nodes hold of what c sent
  \/ Nodes(c, n) = {} /\ half = 0
  \/ \E k \in Nodes(c, n) : half = list[k].to /\ \A m \in Nodes(c, n) : m <= k
Kept(t) ==
  LET c == client_args[t].client
  IN  IF InHand(t)
        THEN piece[t].client = c /\ piece[t].to = got[c] /\ EndsAt(c, Len(list), piece[t].from)
        ELSE EndsAt(c, Len(list), got[c])
EverythingKept ==
  /\ \A k \in 1..Len(list) : EndsAt(list[k].client, k - 1, list[k].from)
  /\ \A t \in Thread : Kept(t)

(* A thread that has not ended reads its own client's connection, or none: *)
(* the acceptor's close() of a joined thread's descriptor (256) may find   *)
(* the number in use again.  Then that thread's connection was reset, and  *)
(* whoever is cut off is so after main had its count and the acceptor      *)
(* accepts no more, by the end of a thread that was joined before.         *)
CutOff(t) == thread[t] # "done" /\ Peer(t) # client_args[t].client
CutOffLate ==
  \A t \in Thread : CutOff(t) =>
    /\ Peer(t) = Nobody /\ ~running /\ count >= TOTAL
    /\ \E s \in 1..(next - 1) : /\ client_args[s].cfd = client_args[t].cfd
                               /\ left[client_args[s].client] = "reset"

(* main counts reads, not messages.  As long as every read gave a whole    *)
(* message, it stops only when all clients are there and everything they   *)
(* send has been read.                                                     *)
AllWhole == \A k \in 1..Len(list) : list[k].to - list[k].from = 2
NobodyShort ==
  main \notin {"poll", "look", "died"} /\ AllWhole
  => num_clients = MAX_CLIENTS
     /\ \A t \in Thread : got[client_args[t].client] = 2 * NUM_MSG

(* When main looks at the list nobody else can: every thread has ended and *)
(* every connection is closed.  Then all is collected, or there was more   *)
(* than was asked for, never less, whatever the message says.              *)
CleanEnd ==
  /\ acceptor = "done" =>
       /\ \A t \in Thread : thread[t] = "done"
       /\ \A fd \in Fd : open[fd] = Nobody
  /\ main \in {"collect", "all collected"} => Len(list) = TOTAL
  /\ main = "wrong number" => Len(list) > TOTAL
  /\ main # "not all"

(* Once there are enough messages the server ends, whatever the clients do *)
(* and though the mutex is contended.                                      *)
Stops == count >= TOTAL ~> Ended
=============================================================================
