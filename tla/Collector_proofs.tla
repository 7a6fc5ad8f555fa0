--------------------------- MODULE Collector_proofs ---------------------------
(***************************************************************************)
(* The shared list of the collecting server, its shutdown and what its     *)
(* threads wait for, for any number of clients, connections and messages   *)
(* and any faults.                                                         *)
(***************************************************************************)
EXTENDS Collector, SequenceTheorems, FiniteSetTheorems, WellFoundedInduction, TLAPS

ThreadPc == {"test", "read", "lock", "last", "link", "count", "close", "done"}
Args == [cfd : Fd, run : BOOLEAN, client : Client]

(* The types, and what bounds the indices.                                 *)
TypeInv ==
  /\ TypeOK
  /\ acceptor = "accept" => num_clients < MAX_CLIENTS
  /\ next <= num_clients + 1 /\ (acceptor = "join" => next \in Thread)
  /\ \A c \in Client : got[c] <= sent[c]

(* list_mutex is held by the thread that is in add_to_list, or by main     *)
(* while it looks; so what a thread saw of the list is still true.         *)
Linking == {"last", "link", "count"}

LockInv ==
  /\ \A t \in Thread : thread[t] \in Linking <=> list_mutex = t
  /\ main = "look" => list_mutex = Main
  /\ \A t \in Thread : thread[t] = "link" => last_node[t] = Len(list)
  /\ Len(list) = count + (IF \E t \in Thread : thread[t] = "count" THEN 1 ELSE 0)

(* The order in which everybody is stopped.                                *)
Over == {"collect", "wrong number", "not all", "all collected"}

StopInv ==
  /\ main \in Over \cup {"stop", "join"} => count >= TOTAL
  /\ acceptor \in {"stop", "join", "done"} => ~running
  /\ ~running => main \notin {"poll", "look", "stop"}
  /\ main \in Over => acceptor = "done"
  /\ acceptor \in {"test", "accept"} => next = 1
  /\ \A t \in Thread : t < next => thread[t] = "done"
  /\ acceptor = "done" => next > num_clients
  /\ main \in {"collect", "all collected"} => count = TOTAL
  /\ main = "wrong number" => count # TOTAL
  /\ main # "not all"

(* An open descriptor is that of a thread that has not ended.              *)
TableInv ==
  \A fd \in Fd : open[fd] # Nobody =>
    \E t \in Thread : thread[t] # "done" /\ client_args[t].cfd = fd

Inv == TypeInv /\ LockInv /\ StopInv /\ TableInv

-----------------------------------------------------------------------------
LEMMA Total == TOTAL \in Nat
BY CollectorAssumption DEF TOTAL

(* A function on 1..n is a sequence, and the other way round.              *)
LEMMA FunctionIsSeq ==
  ASSUME NEW S, NEW n \in Nat, NEW f \in [1..n -> S]
  PROVE  f \in Seq(S) /\ Len(f) = n
OBVIOUS

LEMMA SeqIsFunction ==
  ASSUME NEW S, NEW s \in Seq(S)
  PROVE  s \in [1..Len(s) -> S]
OBVIOUS

LEMMA ArgsOf ==
  ASSUME TypeInv
  PROVE  /\ num_clients \in Nat /\ client_args \in Seq(Args)
         /\ \A t \in Thread : client_args[t] \in Args /\ client_args[t].cfd \in Fd
<1>1. client_args \in Seq(Args)
  BY DEF TypeInv, TypeOK, Args
<1>2. \A t \in 1..Len(client_args) : client_args[t] \in Args
  BY <1>1
<1> QED BY <1>1, <1>2 DEF Args, Thread, num_clients

LEMMA AppendToFunction ==
  ASSUME NEW S, NEW n \in Nat, NEW f \in [1..n -> S], NEW e \in S
  PROVE  /\ Append(f, e) \in [1..(n + 1) -> S]
         /\ \A i \in 1..n : Append(f, e)[i] = f[i]
         /\ Append(f, e)[n + 1] = e
<1>1. f \in Seq(S) /\ Len(f) = n
  BY FunctionIsSeq
<1>2. /\ Append(f, e) \in Seq(S) /\ Len(Append(f, e)) = n + 1
      /\ \A i \in 1..n : Append(f, e)[i] = f[i]
      /\ Append(f, e)[n + 1] = e
  BY <1>1, AppendProperties
<1>3. Append(f, e) \in [1..Len(Append(f, e)) -> S]
  BY <1>2, SeqIsFunction
<1> QED BY <1>2, <1>3

(* A new connection adds one to each of the sequences.                     *)
LEMMA AcceptAdds ==
  ASSUME TypeInv, NEW c \in Client, Accept(c)
  PROVE  /\ num_clients' = num_clients + 1 /\ num_clients < MAX_CLIENTS /\ num_clients \in Nat
         /\ client_args' \in Seq(Args) /\ thread' \in [1..(num_clients + 1) -> ThreadPc]
         /\ piece' \in [1..(num_clients + 1) -> Piece]
         /\ last_node' \in [1..(num_clients + 1) -> Nat]
         /\ \A t \in Thread : /\ client_args'[t] = client_args[t] /\ thread'[t] = thread[t]
                              /\ last_node'[t] = last_node[t] /\ piece'[t] = piece[t]
         /\ thread'[num_clients + 1] = "test" /\ client_args'[num_clients + 1].client = c
         /\ \E f \in Fd : /\ open[f] = Nobody /\ open' = [open EXCEPT ![f] = c]
                          /\ client_args'[num_clients + 1].cfd = f
<1>1. /\ client_args \in Seq(Args) /\ num_clients \in Nat /\ num_clients < MAX_CLIENTS
      /\ thread \in [1..num_clients -> ThreadPc] /\ piece \in [1..num_clients -> Piece]
      /\ last_node \in [1..num_clients -> Nat]
  <2>1. client_args \in Seq(Args) /\ num_clients \in Nat
    <3>1. client_args \in Seq(Args)
      BY DEF TypeInv, TypeOK, Args
    <3> QED BY <3>1 DEF num_clients
  <2>2. num_clients < MAX_CLIENTS
    BY DEF TypeInv, Accept
  <2>3. /\ thread \in [1..num_clients -> ThreadPc] /\ piece \in [1..num_clients -> Piece]
        /\ last_node \in [1..num_clients -> Nat]
    BY DEF TypeInv, TypeOK, ThreadPc, Thread
  <2> QED BY <2>1, <2>2, <2>3
<1>2. PICK f \in Fd :
        /\ open[f] = Nobody /\ open' = [open EXCEPT ![f] = c]
        /\ client_args' = Append(client_args, [cfd |-> f, run |-> TRUE, client |-> c])
  BY DEF Accept, LowestFree
<1>3. /\ [cfd |-> f, run |-> TRUE, client |-> c] \in Args
      /\ [client |-> c, from |-> 0, to |-> 0] \in Piece /\ "test" \in ThreadPc /\ 0 \in Nat
  BY DEF Args, Piece, ThreadPc
<1>4. /\ client_args' \in Seq(Args) /\ num_clients' = num_clients + 1
      /\ \A t \in Thread : client_args'[t] = client_args[t]
      /\ client_args'[num_clients + 1] = [cfd |-> f, run |-> TRUE, client |-> c]
  BY <1>1, <1>2, <1>3, AppendProperties DEF num_clients, Thread
<1>5. /\ thread' = Append(thread, "test") /\ last_node' = Append(last_node, 0)
      /\ piece' = Append(piece, [client |-> c, from |-> 0, to |-> 0])
  BY DEF Accept
<1>a. Thread = 1..num_clients
  BY DEF Thread
<1>6. /\ thread' \in [1..(num_clients + 1) -> ThreadPc] /\ thread'[num_clients + 1] = "test"
      /\ \A t \in Thread : thread'[t] = thread[t]
  <2>1. num_clients \in Nat /\ thread \in [1..num_clients -> ThreadPc] /\ "test" \in ThreadPc
    BY <1>1, <1>3
  <2>2. Append(thread, "test") \in [1..(num_clients + 1) -> ThreadPc]
    BY <2>1, AppendToFunction
  <2>3. Append(thread, "test")[num_clients + 1] = "test"
    BY <2>1, AppendToFunction
  <2>4. \A i \in 1..num_clients : Append(thread, "test")[i] = thread[i]
    BY <2>1, AppendToFunction
  <2> QED BY <1>5, <1>a, <2>2, <2>3, <2>4
<1>7. /\ last_node' \in [1..(num_clients + 1) -> Nat]
      /\ \A t \in Thread : last_node'[t] = last_node[t]
  <2>1. num_clients \in Nat /\ last_node \in [1..num_clients -> Nat] /\ 0 \in Nat
    BY <1>1, <1>3
  <2>2. Append(last_node, 0) \in [1..(num_clients + 1) -> Nat]
    BY <2>1, AppendToFunction
  <2>3. \A i \in 1..num_clients : Append(last_node, 0)[i] = last_node[i]
    BY <2>1, AppendToFunction
  <2> QED BY <1>5, <1>a, <2>2, <2>3
<1>8. /\ piece' \in [1..(num_clients + 1) -> Piece]
      /\ \A t \in Thread : piece'[t] = piece[t]
  <2> DEFINE e == [client |-> c, from |-> 0, to |-> 0]
  <2>1. num_clients \in Nat /\ piece \in [1..num_clients -> Piece] /\ e \in Piece
    BY <1>1, <1>3
  <2>2. piece' = Append(piece, e)
    BY <1>5
  <2> HIDE DEF e
  <2>3. Append(piece, e) \in [1..(num_clients + 1) -> Piece]
    BY <2>1, AppendToFunction
  <2>4. \A i \in 1..num_clients : Append(piece, e)[i] = piece[i]
    BY <2>1, AppendToFunction
  <2> QED BY <1>a, <2>2, <2>3, <2>4
<1>9. client_args'[num_clients + 1].cfd = f /\ client_args'[num_clients + 1].client = c
  BY <1>4
<1> QED BY <1>1, <1>2, <1>4, <1>6, <1>7, <1>8, <1>9

(* Stopping a thread changes its flag and nothing else.                    *)
LEMMA StopSetsFlag ==
  ASSUME TypeInv, StopClient
  PROVE  /\ client_args' \in Seq(Args) /\ num_clients' = num_clients
         /\ \A t \in Thread : /\ client_args'[t].cfd = client_args[t].cfd
                              /\ client_args'[t].client = client_args[t].client
<1>1. client_args \in Seq(Args) /\ next \in 1..Len(client_args)
  BY DEF TypeInv, TypeOK, Args, Thread, num_clients, StopClient
<1>2. client_args' = [client_args EXCEPT ![next] = [@ EXCEPT !.run = FALSE]]
  BY DEF StopClient
<1>3. /\ [client_args[next] EXCEPT !.run = FALSE] \in Args
      /\ [client_args[next] EXCEPT !.run = FALSE].cfd = client_args[next].cfd
      /\ [client_args[next] EXCEPT !.run = FALSE].client = client_args[next].client
  <2>1. client_args[next] \in Args
    BY <1>1
  <2> QED BY <2>1 DEF Args
<1> QED BY <1>1, <1>2, <1>3, ExceptSeq DEF num_clients, Thread

-----------------------------------------------------------------------------
LEMMA InitInv == Init => Inv
<1> SUFFICES ASSUME Init PROVE Inv
  OBVIOUS
<1>1. num_clients = 0 /\ Thread = {}
  BY DEF Init, num_clients, Thread
<1>2. TypeInv
  BY <1>1, CollectorAssumption DEF Init, TypeInv, TypeOK, Piece, Nobody, num_clients
<1>3. LockInv
  BY <1>1 DEF Init, LockInv
<1>4. StopInv
  BY <1>1 DEF Init, StopInv, Over
<1>5. TableInv
  BY DEF Init, TableInv
<1> QED BY <1>2, <1>3, <1>4, <1>5 DEF Inv

(* The environment and main leave the threads alone, and the other way     *)
(* round; what each may change is said once.                               *)
LEMMA ClientsStep ==
  ASSUME Inv, NEW c \in Client, ClientProcess(c)
  PROVE  Inv'
<1>1. UNCHANGED <<got, open, main, running, acceptor, next, client_args, thread, piece, last_node,
                  list, count, list_mutex>>
  BY DEF ClientProcess, accVars, threadVars, listVars
<1>2. TypeInv'
  <2>1. /\ conn' \in [Client -> {"idle", "queued", "accepted"}]
        /\ left' \in [Client -> {"no", "closed", "reset"}]
        /\ sent' \in [Client -> 0..(2 * NUM_MSG)]
        /\ \A d \in Client : got[d] <= sent'[d]
    <3>a. /\ conn \in [Client -> {"idle", "queued", "accepted"}]
          /\ left \in [Client -> {"no", "closed", "reset"}]
          /\ sent \in [Client -> 0..(2 * NUM_MSG)] /\ got \in [Client -> 0..(2 * NUM_MSG)]
          /\ \A d \in Client : got[d] <= sent[d]
      BY DEF Inv, TypeInv, TypeOK
    <3>1. CASE Connect(c)
      BY <3>a, <3>1 DEF Connect
    <3>2. CASE Send(c)
      <4>1. /\ sent[c] \in Nat /\ NUM_MSG \in Nat /\ sent[c] + 2 <= 2 * NUM_MSG
            /\ sent' = [sent EXCEPT ![c] = @ + 2] /\ UNCHANGED <<conn, left>>
        BY <3>a, <3>2, CollectorAssumption DEF Send
      <4>2. sent[c] + 2 \in 0..(2 * NUM_MSG)
        BY <4>1
      <4>3. sent' \in [Client -> 0..(2 * NUM_MSG)]
        BY <3>a, <4>1, <4>2
      <4>4. ASSUME NEW d \in Client PROVE got[d] <= sent'[d]
        <5>1. got[d] \in Int /\ sent[d] \in Int /\ got[d] <= sent[d]
          BY <3>a, <4>1
        <5>2. sent'[d] = IF d = c THEN sent[d] + 2 ELSE sent[d]
          BY <3>a, <4>1
        <5> QED BY <5>1, <5>2
      <4> QED BY <3>a, <4>1, <4>3, <4>4
    <3>3. CASE Leave(c)
      BY <3>a, <3>3 DEF Leave
    <3> QED BY <3>1, <3>2, <3>3 DEF ClientProcess
  <2> QED BY <1>1, <2>1 DEF Inv, TypeInv, TypeOK, Thread, num_clients
<1>3. LockInv' /\ StopInv' /\ TableInv'
  BY <1>1 DEF Inv, LockInv, StopInv, TableInv, Thread, num_clients
<1> QED BY <1>2, <1>3 DEF Inv

(* A step of a thread moves its pc from one place to another.              *)
Moves(t, from, to) ==
  /\ thread[t] \in from /\ thread' = [thread EXCEPT ![t] = to]
  /\ UNCHANGED <<conn, left, sent, main, running, acceptor, next, client_args>>

LEMMA ThreadMoves ==
  ASSUME NEW t \in Thread, run_client(t)
  PROVE  \E to \in ThreadPc : Moves(t, ThreadPc \ {"done"}, to)
<1> USE DEF Moves, ThreadPc, netVars, accVars
<1>1. CASE LoopTest(t)
  <2>1. CASE client_args[t].run
    BY <1>1, <2>1 DEF LoopTest
  <2>2. CASE ~client_args[t].run
    BY <1>1, <2>2 DEF LoopTest
  <2> QED BY <2>1, <2>2
<1>2. CASE Read(t)
  BY <1>2 DEF Read
<1>3. CASE ReadNothing(t)
  BY <1>3 DEF ReadNothing
<1>4. CASE Lock(t)
  BY <1>4 DEF Lock
<1>5. CASE ReadLast(t)
  BY <1>5 DEF ReadLast
<1>6. CASE Link(t)
  BY <1>6 DEF Link
<1>7. CASE Count(t)
  BY <1>7 DEF Count
<1>8. CASE Close(t)
  BY <1>8 DEF Close
<1> QED BY <1>1, <1>2, <1>3, <1>4, <1>5, <1>6, <1>7, <1>8 DEF run_client

(* Under the mutex the new node goes behind the last one.                  *)
LEMMA LinkAppends ==
  ASSUME TypeInv, LockInv, NEW t \in Thread, Link(t)
  PROVE  list' \in Seq(Piece) /\ Len(list') = Len(list) + 1
<1>1. list \in Seq(Piece) /\ piece[t] \in Piece /\ last_node[t] = Len(list)
  BY DEF TypeInv, TypeOK, LockInv, Link
<1>2. SubSeq(list, 1, Len(list)) = list
  BY <1>1, SubSeqFull
<1>3. list' = Append(list, piece[t])
  BY <1>1, <1>2 DEF Link
<1> QED BY <1>1, <1>3, AppendProperties

LEMMA ThreadTypes ==
  ASSUME TypeInv, LockInv, NEW t \in Thread, run_client(t)
  PROVE  TypeInv'
<1>1. /\ thread' \in [Thread -> ThreadPc] /\ Thread' = Thread
      /\ UNCHANGED <<conn, left, sent, main, running, acceptor, next, client_args>>
  <2>1. PICK to \in ThreadPc : Moves(t, ThreadPc \ {"done"}, to)
    BY ThreadMoves
  <2>2. thread' = [thread EXCEPT ![t] = to]
        /\ UNCHANGED <<conn, left, sent, main, running, acceptor, next, client_args>>
    BY <2>1 DEF Moves
  <2>3. thread \in [Thread -> ThreadPc]
    BY DEF TypeInv, TypeOK, ThreadPc
  <2>4. thread' \in [Thread -> ThreadPc]
    BY <2>2, <2>3
  <2> QED BY <2>2, <2>4 DEF Thread, num_clients
<1>2. /\ got' \in [Client -> 0..(2 * NUM_MSG)] /\ \A c \in Client : got'[c] <= sent[c]
      /\ piece' \in [Thread -> Piece]
  <2>1. CASE Read(t)
    <3>1. PICK n \in 1..2 :
            /\ n <= Unread(Peer(t))
            /\ piece' = [piece EXCEPT ![t] = [client |-> Peer(t), from |-> got[Peer(t)],
                                              to |-> got[Peer(t)] + n]]
            /\ got' = [got EXCEPT ![Peer(t)] = @ + n]
      BY <2>1 DEF Read
    <3>2. Peer(t) \in Client
      <4>1. client_args[t].cfd \in Fd
        BY ArgsOf
      <4>2. open[client_args[t].cfd] \in Client \cup {Nobody}
        BY <4>1 DEF TypeInv, TypeOK
      <4> QED BY <2>1, <4>2 DEF Read, Peer
    <3>3. /\ got[Peer(t)] \in Nat /\ sent[Peer(t)] \in 0..(2 * NUM_MSG) /\ NUM_MSG \in Nat
          /\ got[Peer(t)] + n <= sent[Peer(t)]
      <4>1. /\ got[Peer(t)] \in 0..(2 * NUM_MSG) /\ sent[Peer(t)] \in 0..(2 * NUM_MSG)
            /\ NUM_MSG \in Nat
        BY <3>2, CollectorAssumption DEF TypeInv, TypeOK
      <4>2. n <= sent[Peer(t)] - got[Peer(t)]
        BY <3>1 DEF Unread
      <4> QED BY <4>1, <4>2
    <3>4. got[Peer(t)] + n \in 0..(2 * NUM_MSG)
      BY <3>3
    <3>5. [client |-> Peer(t), from |-> got[Peer(t)], to |-> got[Peer(t)] + n] \in Piece
      BY <3>2, <3>3, <3>4 DEF Piece
    <3> QED BY <3>1, <3>2, <3>3, <3>4, <3>5 DEF TypeInv, TypeOK
  <2>2. CASE ~Read(t)
    <3>1. UNCHANGED <<got, piece>>
      BY <2>2 DEF run_client, LoopTest, ReadNothing, Lock, ReadLast, Link, Count, Close,
                  threadVars
    <3> QED BY <3>1 DEF TypeInv, TypeOK
  <2> QED BY <2>1, <2>2
<1>a. Len(list) \in Nat /\ count + 1 \in Nat
  <2>1. list \in Seq(Piece) /\ count \in Nat
    BY DEF TypeInv, TypeOK
  <2> QED BY <2>1
<1>3. /\ open' \in [Fd -> Client \cup {Nobody}] /\ list_mutex' \in {Free, Main} \cup Thread
      /\ last_node' \in [Thread -> Nat] /\ list' \in Seq(Piece) /\ count' \in Nat
  <2> USE DEF TypeInv, TypeOK, listVars
  <2>1. CASE LoopTest(t) \/ Read(t) \/ ReadNothing(t)
    BY <2>1 DEF LoopTest, Read, ReadNothing
  <2>2. CASE Lock(t)
    BY <2>2 DEF Lock
  <2>3. CASE ReadLast(t)
    BY <1>a, <2>3 DEF ReadLast
  <2>4. CASE Link(t)
    BY <2>4, LinkAppends DEF Link
  <2>5. CASE Count(t)
    BY <1>a, <2>5 DEF Count
  <2>6. CASE Close(t)
    BY <2>6 DEF Close
  <2> QED BY <2>1, <2>2, <2>3, <2>4, <2>5, <2>6 DEF run_client
<1> QED BY <1>1, <1>2, <1>3 DEF TypeInv, TypeOK, ThreadPc, Thread, num_clients

LEMMA ThreadLocks ==
  ASSUME TypeInv, LockInv, NEW t \in Thread, run_client(t)
  PROVE  LockInv'
<1>1. /\ Thread' = Thread /\ UNCHANGED main /\ thread \in [Thread -> ThreadPc]
      /\ last_node \in [Thread -> Nat] /\ Len(list) \in Nat /\ count \in Nat
      /\ Free \notin Thread /\ Main \notin Thread /\ Free # Main
  <2>1. Thread' = Thread /\ UNCHANGED main
    BY ThreadMoves DEF Moves, Thread, num_clients
  <2>2. list \in Seq(Piece) /\ count \in Nat /\ last_node \in [Thread -> Nat]
        /\ thread \in [Thread -> ThreadPc]
    BY DEF TypeInv, TypeOK, ThreadPc
  <2>3. Free \notin Thread /\ Main \notin Thread /\ Free # Main
    BY ArgsOf, CollectorAssumption DEF Thread
  <2> QED BY <2>1, <2>2, <2>3
<1> USE <1>1 DEF LockInv, Linking, listVars
<1>2. CASE LoopTest(t) \/ ReadNothing(t) \/ Read(t) \/ Close(t)
  <2>1. /\ UNCHANGED <<list, count, last_node, list_mutex>>
        /\ thread[t] \notin Linking
        /\ \E to \in ThreadPc : to \notin Linking /\ thread' = [thread EXCEPT ![t] = to]
    BY <1>2 DEF LoopTest, ReadNothing, Read, Close, threadVars, ThreadPc
  <2> QED BY <2>1
<1>3. CASE Lock(t)
  BY <1>3 DEF Lock
<1>4. CASE ReadLast(t)
  BY <1>4 DEF ReadLast
<1>5. CASE Link(t)
  <2>1. Len(list') = Len(list) + 1
    BY <1>5, LinkAppends
  <2>2. \A u \in Thread : u # t => thread[u] \notin Linking
    BY <1>5 DEF Link
  <2> QED BY <1>5, <2>1, <2>2 DEF Link
<1>6. CASE Count(t)
  <2>1. \A u \in Thread : u # t => thread[u] \notin Linking
    BY <1>6 DEF Count
  <2> QED BY <1>6, <2>1 DEF Count
<1> QED BY <1>2, <1>3, <1>4, <1>5, <1>6 DEF run_client

LEMMA ThreadStops ==
  ASSUME TypeInv, StopInv, NEW t \in Thread, run_client(t)
  PROVE  StopInv'
<1>1. /\ UNCHANGED <<main, running, acceptor, next, client_args>> /\ Thread' = Thread
      /\ num_clients' = num_clients
      /\ thread[t] # "done" /\ thread \in [Thread -> ThreadPc]
      /\ \E to \in ThreadPc : thread' = [thread EXCEPT ![t] = to]
  BY ThreadMoves DEF Moves, Thread, num_clients, TypeInv, TypeOK, ThreadPc
<1>2. t \in Int /\ num_clients \in Int /\ next \in Int /\ t <= num_clients
  <2>1. next \in 1..(MAX_CLIENTS + 1)
    BY DEF TypeInv, TypeOK
  <2>2. num_clients \in Nat
    BY ArgsOf
  <2>3. t \in 1..num_clients
    BY DEF Thread
  <2> QED BY <2>1, <2>2, <2>3, CollectorAssumption
<1>3. ~(t < next)
  BY <1>1 DEF StopInv
<1>4. acceptor # "done"
  <2>1. acceptor = "done" => next > num_clients
    BY DEF StopInv
  <2> QED BY <1>2, <1>3, <2>1
<1>5. main \notin Over
  BY <1>4 DEF StopInv
<1>6. \A u \in Thread : u < next => thread'[u] = "done"
  BY <1>1, <1>3 DEF StopInv
<1>7. count \in Nat /\ count' \in {count, count + 1} /\ TOTAL \in Nat
  BY Total DEF TypeInv, TypeOK, run_client, LoopTest, Read, ReadNothing, Lock, ReadLast, Link,
               Count, Close, listVars
<1>8. count >= TOTAL => count' >= TOTAL
  BY <1>7
<1> QED BY <1>1, <1>4, <1>5, <1>6, <1>8 DEF StopInv, Over

LEMMA ThreadTable ==
  ASSUME TypeInv, TableInv, NEW t \in Thread, run_client(t)
  PROVE  TableInv'
<1>1. /\ UNCHANGED client_args /\ Thread' = Thread /\ thread \in [Thread -> ThreadPc]
      /\ open \in [Fd -> Client \cup {Nobody}]
  BY ThreadMoves DEF Moves, Thread, num_clients, TypeInv, TypeOK, ThreadPc
<1>2. CASE Close(t)
  <2>1. open' = [open EXCEPT ![client_args[t].cfd] = Nobody]
        /\ thread' = [thread EXCEPT ![t] = "done"]
    BY <1>2 DEF Close
  <2> SUFFICES ASSUME NEW fd \in Fd, open'[fd] # Nobody
               PROVE  \E u \in Thread : thread'[u] # "done" /\ client_args[u].cfd = fd
    BY <1>1 DEF TableInv
  <2>2. open[fd] # Nobody /\ client_args[t].cfd # fd
    BY <1>1, <2>1
  <2>3. PICK u \in Thread : thread[u] # "done" /\ client_args[u].cfd = fd
    BY <2>2 DEF TableInv
  <2> QED BY <1>1, <2>1, <2>2, <2>3
<1>3. CASE ~Close(t)
  <2>1. UNCHANGED open /\ \E to \in ThreadPc \ {"done"} : thread' = [thread EXCEPT ![t] = to]
    BY <1>3 DEF run_client, LoopTest, Read, ReadNothing, Lock, ReadLast, Link, Count, ThreadPc
  <2>2. \A u \in Thread : thread[u] # "done" => thread'[u] # "done"
    BY <1>1, <2>1
  <2> QED BY <1>1, <2>1, <2>2 DEF TableInv
<1> QED BY <1>2, <1>3

LEMMA ThreadStep ==
  ASSUME Inv, NEW t \in Thread, run_client(t)
  PROVE  Inv'
BY ThreadTypes, ThreadLocks, ThreadStops, ThreadTable DEF Inv

(* Once the acceptor is done it has joined every thread.                   *)
LEMMA EndOfThreads ==
  ASSUME Inv, acceptor = "done" \/ main \in Over
  PROVE  acceptor = "done" /\ \A t \in Thread : thread[t] = "done"
<1>1. acceptor = "done" /\ next > num_clients
  BY DEF Inv, StopInv
<1> SUFFICES ASSUME NEW t \in Thread PROVE thread[t] = "done"
  BY <1>1
<1>2. next \in 1..(MAX_CLIENTS + 1) /\ num_clients \in Nat
  BY ArgsOf DEF Inv, TypeInv, TypeOK
<1>3. t \in 1..num_clients
  BY DEF Thread
<1>4. t < next
  BY <1>1, <1>2, <1>3, CollectorAssumption
<1> QED BY <1>4 DEF Inv, StopInv

LEMMA StutterStep == Inv /\ UNCHANGED vars => Inv'
<1> SUFFICES ASSUME Inv, UNCHANGED vars PROVE Inv'
  OBVIOUS
<1>1. UNCHANGED <<conn, left, sent, got, open, main, running, acceptor, next, client_args, thread,
                  piece, last_node, list, count, list_mutex>>
      /\ Thread' = Thread /\ num_clients' = num_clients
  BY DEF vars, Thread, num_clients
<1>2. TypeInv'
  <2>1. TypeOK'
    BY <1>1 DEF Inv, TypeInv, TypeOK
  <2> QED BY <1>1, <2>1 DEF Inv, TypeInv
<1>3. LockInv' /\ StopInv' /\ TableInv'
  BY <1>1 DEF Inv, LockInv, StopInv, TableInv
<1> QED BY <1>2, <1>3 DEF Inv

-----------------------------------------------------------------------------
(* The acceptor.                                                           *)

(* The steps that only move its pc, or end the program.                    *)
LEMMA AcceptorMoves ==
  ASSUME Inv, Alive, AcceptorTest \/ NoConnection \/ AcceptFails \/ AllStopped
  PROVE  Inv'
<1>1. /\ UNCHANGED <<conn, left, sent, got, open, running, next, client_args, thread, piece,
                     last_node, list, count, list_mutex>>
      /\ Thread' = Thread /\ num_clients' = num_clients
  BY DEF AcceptorTest, NoConnection, AcceptFails, AllStopped, netVars, accVars, threadVars,
         listVars, Thread, num_clients
<1>2. /\ acceptor' \in {"test", "accept", "stop", "done"}
         \/ acceptor' = acceptor
      /\ main' = main \/ main' = "died"
      /\ acceptor' = "accept" => num_clients < MAX_CLIENTS \/ acceptor' = acceptor
      /\ acceptor' = "join" => acceptor = "join"
      /\ acceptor' = "stop" => acceptor = "test" /\ ~running
      /\ acceptor' = "done" => next > num_clients /\ acceptor \in {"stop", "done"}
      /\ acceptor' \in {"test", "accept"} => acceptor \in {"test", "accept"}
  <2>1. CASE AcceptorTest
    BY <2>1 DEF AcceptorTest
  <2>2. CASE NoConnection
    BY <2>2 DEF NoConnection
  <2>3. CASE AcceptFails
    BY <2>3 DEF AcceptFails, accVars
  <2>4. CASE AllStopped
    BY <2>4 DEF AllStopped
  <2> QED BY <2>1, <2>2, <2>3, <2>4
<1>3. TypeInv'
  <2>1. TypeOK'
    BY <1>1, <1>2 DEF Inv, TypeInv, TypeOK
  <2> QED BY <1>1, <1>2, <2>1 DEF Inv, TypeInv
<1>4. LockInv'
  BY <1>1, <1>2 DEF Inv, LockInv
<1>5. StopInv'
  BY <1>1, <1>2 DEF Inv, StopInv, Over
<1>6. TableInv'
  BY <1>1 DEF Inv, TableInv
<1> QED BY <1>3, <1>4, <1>5, <1>6 DEF Inv

LEMMA StopClientStep ==
  ASSUME Inv, Alive, StopClient
  PROVE  Inv'
<1>1. /\ client_args' \in Seq(Args) /\ num_clients' = num_clients
      /\ \A t \in Thread : client_args'[t].cfd = client_args[t].cfd
  BY StopSetsFlag DEF Inv
<1>2. /\ UNCHANGED <<conn, left, sent, got, open, main, running, next, thread, piece, last_node,
                     list, count, list_mutex>>
      /\ acceptor = "stop" /\ acceptor' = "join" /\ next \in Thread /\ Thread' = Thread
  BY <1>1 DEF StopClient, netVars, threadVars, listVars, Thread
<1>3. TypeInv'
  <2>1. TypeOK'
    BY <1>1, <1>2 DEF Inv, TypeInv, TypeOK, Args
  <2> QED BY <1>1, <1>2, <2>1 DEF Inv, TypeInv
<1>4. LockInv'
  BY <1>2 DEF Inv, LockInv
<1>5. StopInv'
  BY <1>1, <1>2 DEF Inv, StopInv, Over
<1>6. TableInv'
  BY <1>1, <1>2 DEF Inv, TableInv
<1> QED BY <1>3, <1>4, <1>5, <1>6 DEF Inv

(* The descriptor it closes is no longer its thread's: the invariant of    *)
(* the table does not need it to be.                                       *)
LEMMA JoinClientStep ==
  ASSUME Inv, Alive, JoinClient
  PROVE  Inv'
<1>1. /\ UNCHANGED <<conn, left, sent, got, main, running, client_args, thread, piece, last_node,
                     list, count, list_mutex>>
      /\ acceptor = "join" /\ acceptor' = "stop" /\ next \in Thread /\ thread[next] = "done"
      /\ next' = next + 1 /\ Thread' = Thread /\ num_clients' = num_clients
      /\ open' = [open EXCEPT ![client_args[next].cfd] = Nobody]
  BY DEF Inv, TypeInv, JoinClient, netVars, threadVars, listVars, Thread, num_clients
<1>2. /\ num_clients \in Nat /\ num_clients <= MAX_CLIENTS /\ MAX_CLIENTS \in Nat
      /\ next \in 1..num_clients /\ client_args[next].cfd \in Fd
  <2>1. num_clients <= MAX_CLIENTS
    BY DEF Inv, TypeInv, TypeOK
  <2>2. num_clients \in Nat /\ client_args[next].cfd \in Fd
    BY <1>1, ArgsOf DEF Inv
  <2>3. next \in 1..num_clients
    BY <1>1 DEF Thread
  <2> QED BY <2>1, <2>2, <2>3, CollectorAssumption
<1>3. next + 1 \in 1..(MAX_CLIENTS + 1) /\ next + 1 <= num_clients + 1
  BY <1>2
<1>4. TypeInv'
  <2>1. open' \in [Fd -> Client \cup {Nobody}]
    BY <1>1 DEF Inv, TypeInv, TypeOK
  <2>2. TypeOK'
    BY <1>1, <1>3, <2>1 DEF Inv, TypeInv, TypeOK
  <2> QED BY <1>1, <1>3, <2>2 DEF Inv, TypeInv
<1>5. LockInv'
  BY <1>1 DEF Inv, LockInv
<1>6. StopInv'
  <2>1. \A t \in Thread : t < next + 1 => thread[t] = "done"
    <3> SUFFICES ASSUME NEW t \in Thread, t < next + 1 PROVE thread[t] = "done"
      OBVIOUS
    <3>1. t \in 1..num_clients
      BY DEF Thread
    <3>2. t < next \/ t = next
      BY <1>2, <3>1
    <3> QED BY <1>1, <3>2 DEF Inv, StopInv
  <2> QED BY <1>1, <2>1 DEF Inv, StopInv, Over
<1>7. TableInv'
  <2> SUFFICES ASSUME NEW fd \in Fd, open'[fd] # Nobody
               PROVE  \E u \in Thread : thread[u] # "done" /\ client_args[u].cfd = fd
    BY <1>1 DEF TableInv
  <2>1. open \in [Fd -> Client \cup {Nobody}]
    BY DEF Inv, TypeInv, TypeOK
  <2>2. open[fd] # Nobody
    BY <1>1, <2>1
  <2> QED BY <2>2 DEF Inv, TableInv
<1> QED BY <1>4, <1>5, <1>6, <1>7 DEF Inv

LEMMA AcceptStep ==
  ASSUME Inv, Alive, NEW c \in Client, Accept(c)
  PROVE  Inv'
<1> DEFINE n == num_clients + 1
<1>1. /\ num_clients' = n /\ num_clients < MAX_CLIENTS /\ num_clients \in Nat
      /\ client_args' \in Seq(Args) /\ thread' \in [1..n -> ThreadPc]
      /\ piece' \in [1..n -> Piece] /\ last_node' \in [1..n -> Nat]
      /\ \A t \in Thread : /\ client_args'[t] = client_args[t] /\ thread'[t] = thread[t]
                           /\ last_node'[t] = last_node[t]
      /\ thread'[n] = "test"
  BY AcceptAdds DEF Inv
<1>2. PICK f \in Fd : /\ open[f] = Nobody /\ open' = [open EXCEPT ![f] = c]
                      /\ client_args'[n].cfd = f
  BY AcceptAdds DEF Inv
<1>3. /\ UNCHANGED <<left, sent, got, main, running, next, list, count, list_mutex>>
      /\ acceptor = "accept" /\ acceptor' = "test"
      /\ conn' = [conn EXCEPT ![c] = "accepted"]
  BY DEF Accept, listVars
<1>4. /\ Thread' = 1..n /\ Thread = 1..num_clients /\ n \in Thread' /\ n \notin Thread
      /\ \A t \in Thread' : t \in Thread \/ t = n
      /\ \A t \in Thread : t \in Thread'
      /\ MAX_CLIENTS \in Nat /\ n <= MAX_CLIENTS /\ next \in Nat
  <2>1. next \in 1..(MAX_CLIENTS + 1)
    BY DEF Inv, TypeInv, TypeOK
  <2>2. Thread' = 1..n /\ Thread = 1..num_clients
    BY <1>1 DEF Thread
  <2> QED BY <1>1, <2>1, <2>2, CollectorAssumption
<1>5. TypeInv'
  <2>1. TypeOK'
    <3>1. /\ conn' \in [Client -> {"idle", "queued", "accepted"}]
          /\ open' \in [Fd -> Client \cup {Nobody}]
      BY <1>2, <1>3 DEF Inv, TypeInv, TypeOK
    <3>2. /\ left' \in [Client -> {"no", "closed", "reset"}]
          /\ sent' \in [Client -> 0..(2 * NUM_MSG)] /\ got' \in [Client -> 0..(2 * NUM_MSG)]
          /\ running' \in BOOLEAN /\ next' \in 1..(MAX_CLIENTS + 1)
          /\ main' \in {"poll", "look", "stop", "join", "collect", "wrong number", "not all",
                        "all collected", "died"}
          /\ list' \in Seq(Piece) /\ count' \in Nat
      BY <1>3 DEF Inv, TypeInv, TypeOK
    <3>3. list_mutex' \in {Free, Main} \cup Thread'
      <4>1. list_mutex \in {Free, Main} \cup Thread
        BY DEF Inv, TypeInv, TypeOK
      <4> QED BY <1>3, <1>4, <4>1
    <3>4. num_clients' <= MAX_CLIENTS /\ client_args' \in Seq(Args)
      BY <1>1, <1>4
    <3>5. /\ thread' \in [Thread' -> ThreadPc] /\ piece' \in [Thread' -> Piece]
          /\ last_node' \in [Thread' -> Nat]
      BY <1>1, <1>4
    <3> QED BY <1>3, <3>1, <3>2, <3>3, <3>4, <3>5 DEF TypeOK, ThreadPc, Args
  <2>2. next' <= num_clients' + 1
    <3>1. next <= num_clients + 1
      BY DEF Inv, TypeInv
    <3> QED BY <1>1, <1>3, <1>4, <3>1
  <2> QED BY <1>3, <2>1, <2>2 DEF Inv, TypeInv
<1>6. LockInv'
  <2>1. n \notin {Free, Main} /\ list_mutex \in {Free, Main} \cup Thread
    <3>1. n \in Nat
      BY <1>1
    <3>2. list_mutex \in {Free, Main} \cup Thread
      BY DEF Inv, TypeInv, TypeOK
    <3> QED BY <3>1, <3>2, CollectorAssumption
  <2>2. \A t \in Thread' : thread'[t] \in Linking <=> list_mutex = t
    BY <1>1, <1>4, <2>1 DEF Inv, LockInv, Linking
  <2>3. \A t \in Thread' : thread'[t] = "link" => last_node'[t] = Len(list)
    BY <1>1, <1>4 DEF Inv, LockInv
  <2>4. (\E t \in Thread' : thread'[t] = "count") <=> (\E t \in Thread : thread[t] = "count")
    BY <1>1, <1>4
  <2> QED BY <1>3, <2>2, <2>3, <2>4 DEF Inv, LockInv
<1>7. StopInv'
  <2>1. next = 1 /\ main \notin Over
    BY <1>3 DEF Inv, StopInv
  <2>2. \A t \in Thread' : ~(t < next)
    BY <1>4, <2>1
  <2> QED BY <1>3, <2>1, <2>2 DEF Inv, StopInv, Over
<1>8. TableInv'
  <2> SUFFICES ASSUME NEW fd \in Fd, open'[fd] # Nobody
               PROVE  \E u \in Thread' : thread'[u] # "done" /\ client_args'[u].cfd = fd
    BY DEF TableInv
  <2>1. CASE fd = f
    BY <1>1, <1>2, <1>4, <2>1
  <2>2. CASE fd # f
    <3>1. open[fd] # Nobody
      BY <1>2, <2>2 DEF Inv, TypeInv, TypeOK
    <3>2. PICK u \in Thread : thread[u] # "done" /\ client_args[u].cfd = fd
      BY <3>1 DEF Inv, TableInv
    <3> QED BY <1>1, <1>4, <3>2
  <2> QED BY <2>1, <2>2
<1> QED BY <1>5, <1>6, <1>7, <1>8 DEF Inv

LEMMA AcceptorStep == Inv /\ run_acceptor => Inv'
BY AcceptorMoves, AcceptStep, StopClientStep, JoinClientStep DEF run_acceptor

-----------------------------------------------------------------------------
(* main.  What it looks at while it holds the mutex, count, only grows.    *)
LEMMA MainStep ==
  ASSUME Inv, MainProcess
  PROVE  Inv'
<1>1. /\ UNCHANGED <<conn, left, sent, got, open, acceptor, next, client_args, thread, piece,
                     last_node, list, count>>
      /\ Thread' = Thread /\ num_clients' = num_clients
  BY DEF MainProcess, MainLock, MainLook, MainStop, MainJoin, collect_all, netVars, accVars,
         threadVars, listVars, Thread, num_clients
<1>2. /\ count \in Nat /\ TOTAL \in Nat /\ Free # Main /\ Free \notin Thread
      /\ Main \notin Thread /\ running \in BOOLEAN
      /\ list_mutex \in {Free, Main} \cup Thread
  <2>1. Free \notin Thread /\ Main \notin Thread /\ Free # Main
    BY ArgsOf, CollectorAssumption DEF Inv, Thread
  <2>2. count \in Nat /\ running \in BOOLEAN /\ list_mutex \in {Free, Main} \cup Thread
    BY DEF Inv, TypeInv, TypeOK
  <2> QED BY <2>1, <2>2, Total
<1>3. /\ list_mutex' \in {Free, Main, list_mutex} /\ running' \in {FALSE, running}
      /\ main' \in {"poll", "look", "stop", "join", "collect", "wrong number", "not all",
                    "all collected"}
  <2>1. CASE MainLock
    BY <2>1 DEF MainLock
  <2>2. CASE MainLook
    BY <2>2 DEF MainLook
  <2>3. CASE MainStop
    BY <2>3 DEF MainStop
  <2>4. CASE MainJoin
    BY <2>4 DEF MainJoin
  <2>5. CASE collect_all
    BY <2>5 DEF collect_all
  <2> QED BY <2>1, <2>2, <2>3, <2>4, <2>5 DEF MainProcess
<1>4. TypeInv'
  <2>1. TypeOK'
    BY <1>1, <1>2, <1>3 DEF Inv, TypeInv, TypeOK
  <2> QED BY <1>1, <2>1 DEF Inv, TypeInv
<1>5. LockInv'
  <2>1. /\ \A t \in Thread : thread[t] \in Linking <=> list_mutex' = t
        /\ main' = "look" => list_mutex' = Main
    <3>1. CASE MainLock
      BY <1>2, <3>1 DEF Inv, LockInv, MainLock
    <3>2. CASE MainLook
      BY <1>2, <3>2 DEF Inv, LockInv, MainLook
    <3>3. CASE MainStop \/ MainJoin \/ collect_all
      BY <3>3 DEF Inv, LockInv, MainStop, MainJoin, collect_all
    <3> QED BY <3>1, <3>2, <3>3 DEF MainProcess
  <2> QED BY <1>1, <2>1 DEF Inv, LockInv
<1>6. StopInv'
  <2>1. CASE MainLock
    BY <1>1, <2>1 DEF Inv, StopInv, Over, MainLock
  <2>2. CASE MainLook
    <3>1. main = "look" /\ UNCHANGED running /\ main' \in {"stop", "poll"}
          /\ (main' = "stop" => count >= TOTAL)
      BY <2>2 DEF MainLook
    <3>2. running
      BY <1>2, <3>1 DEF Inv, StopInv
    <3> QED BY <1>1, <3>1, <3>2 DEF Inv, StopInv, Over
  <2>3. CASE MainStop
    BY <1>1, <2>3 DEF Inv, StopInv, Over, MainStop
  <2>4. CASE MainJoin
    <3>1. /\ main = "join" /\ acceptor = "done" /\ UNCHANGED running
          /\ main' \in {"wrong number", "collect"}
          /\ main' = "wrong number" <=> count # TOTAL
      BY <2>4 DEF MainJoin
    <3> QED BY <1>1, <3>1 DEF Inv, StopInv, Over
  <2>5. CASE collect_all
    <3>1. /\ main = "collect" /\ UNCHANGED running
          /\ main' = IF Len(list) # count THEN "not all" ELSE "all collected"
      BY <2>5 DEF collect_all
    <3>2. acceptor = "done" /\ \A t \in Thread : thread[t] = "done"
      BY <3>1, EndOfThreads DEF Over
    <3>3. Len(list) = count
      <4>1. list \in Seq(Piece)
        BY DEF Inv, TypeInv, TypeOK
      <4>2. Len(list) = count + 0
        BY <3>2 DEF Inv, LockInv
      <4> QED BY <1>2, <4>2
    <3> QED BY <1>1, <3>1, <3>2, <3>3 DEF Inv, StopInv, Over
  <2> QED BY <2>1, <2>2, <2>3, <2>4, <2>5 DEF MainProcess
<1>7. TableInv'
  BY <1>1 DEF Inv, TableInv
<1> QED BY <1>4, <1>5, <1>6, <1>7 DEF Inv

LEMMA Safe == Spec => []Inv
<1>1. Inv /\ [Next]_vars => Inv'
  <2> SUFFICES ASSUME Inv, [Next]_vars PROVE Inv'
    OBVIOUS
  <2>1. CASE Next
    <3>1. CASE MainProcess
      BY <3>1, MainStep
    <3>2. CASE run_acceptor
      BY <3>2, AcceptorStep
    <3>3. CASE \E t \in Thread : run_client(t)
      BY <3>3, ThreadStep
    <3>4. CASE \E c \in Client : ClientProcess(c)
      BY <3>4, ClientsStep
    <3>5. CASE UNCHANGED vars
      BY <3>5, StutterStep
    <3> QED BY <2>1, <3>1, <3>2, <3>3, <3>4, <3>5 DEF Next, Finished
  <2> QED BY <2>1, StutterStep
<1> QED BY <1>1, InitInv, PTL DEF Spec

-----------------------------------------------------------------------------
(* Whose descriptor a thread reads.  A thread keeps the one it was given   *)
(* until it closes it itself; only while the threads are joined may the    *)
(* acceptor close it first, for an earlier thread that had the number.     *)
Ending == {"stop", "join", "done"}

OwnInv ==
  /\ \A t \in Thread : conn[client_args[t].client] = "accepted"
  /\ \A t, u \in Thread : client_args[t].client = client_args[u].client => t = u
  /\ \A t \in Thread : thread[t] # "done" =>
       \/ open[client_args[t].cfd] = client_args[t].client
       \/ open[client_args[t].cfd] = Nobody /\ acceptor \in Ending
  /\ \A t, u \in Thread :
       thread[t] # "done" /\ thread[u] # "done" /\ client_args[t].cfd = client_args[u].cfd => t = u

LEMMA OwnFrame ==
  ASSUME OwnInv, Thread' = Thread,
         \A t \in Thread : /\ client_args'[t].cfd = client_args[t].cfd
                           /\ client_args'[t].client = client_args[t].client
                           /\ conn'[client_args[t].client] = conn[client_args[t].client],
         \A t \in Thread : thread[t] # "done" \/ thread'[t] = "done",
         \A t \in Thread : thread'[t] # "done" =>
           \/ open'[client_args[t].cfd] = open[client_args[t].cfd]
           \/ open'[client_args[t].cfd] = Nobody /\ acceptor' \in Ending,
         acceptor \in Ending => acceptor' \in Ending
  PROVE  OwnInv'
<1>1. /\ \A t \in Thread : conn'[client_args'[t].client] = "accepted"
      /\ \A t, u \in Thread : client_args'[t].client = client_args'[u].client => t = u
  BY DEF OwnInv
<1>2. ASSUME NEW t \in Thread, thread'[t] # "done"
      PROVE  \/ open'[client_args'[t].cfd] = client_args'[t].client
             \/ open'[client_args'[t].cfd] = Nobody /\ acceptor' \in Ending
  BY <1>2 DEF OwnInv
<1>3. ASSUME NEW t \in Thread, NEW u \in Thread, thread'[t] # "done", thread'[u] # "done",
             client_args'[t].cfd = client_args'[u].cfd
      PROVE  t = u
  BY <1>3 DEF OwnInv
<1> QED BY <1>1, <1>2, <1>3 DEF OwnInv

LEMMA StepKeepsOwn ==
  ASSUME Inv, OwnInv, [Next]_vars
  PROVE  OwnInv'
<1>0. /\ client_args \in Seq(Args) /\ num_clients \in Nat
      /\ \A t \in Thread : client_args[t].cfd \in Fd /\ client_args[t].client \in Client
      /\ open \in [Fd -> Client \cup {Nobody}] /\ thread \in [Thread -> ThreadPc]
      /\ conn \in [Client -> {"idle", "queued", "accepted"}]
  BY ArgsOf DEF Inv, TypeInv, TypeOK, Args, ThreadPc
<1>1. ASSUME NEW c \in Client, ClientProcess(c) PROVE OwnInv'
  <2>1. /\ UNCHANGED <<open, acceptor, client_args, thread>> /\ Thread' = Thread
        /\ \A d \in Client : conn[d] = "accepted" => conn'[d] = "accepted"
    BY <1>0, <1>1 DEF ClientProcess, Connect, Send, Leave, accVars, threadVars, Thread, num_clients
  <2>2. \A t \in Thread : conn'[client_args[t].client] = conn[client_args[t].client]
    BY <1>0, <2>1 DEF OwnInv
  <2> QED BY <2>1, <2>2, OwnFrame
<1>2. CASE MainProcess \/ UNCHANGED vars
  <2>1. UNCHANGED <<conn, open, acceptor, client_args, thread>> /\ Thread' = Thread
    BY <1>2 DEF MainProcess, MainLock, MainLook, MainStop, MainJoin, collect_all, netVars, accVars,
                threadVars, vars, Thread, num_clients
  <2> QED BY <2>1, OwnFrame
<1>3. ASSUME NEW t \in Thread, run_client(t) PROVE OwnInv'
  <2>1. PICK to \in ThreadPc : Moves(t, ThreadPc \ {"done"}, to)
    BY <1>3, ThreadMoves
  <2>2. /\ UNCHANGED <<conn, acceptor, client_args>> /\ Thread' = Thread /\ thread[t] # "done"
        /\ \A u \in Thread : thread[u] # "done" \/ thread'[u] = "done"
    BY <1>0, <2>1 DEF Moves, Thread, num_clients
  <2>3. CASE Close(t)
    <3>1. /\ open' = [open EXCEPT ![client_args[t].cfd] = Nobody]
          /\ thread' = [thread EXCEPT ![t] = "done"]
      BY <2>3 DEF Close
    <3>2. ASSUME NEW u \in Thread, thread'[u] # "done"
          PROVE  open'[client_args[u].cfd] = open[client_args[u].cfd]
      <4>1. u # t /\ thread[u] # "done"
        BY <1>0, <2>2, <3>1, <3>2
      <4>2. client_args[u].cfd # client_args[t].cfd
        BY <2>2, <4>1 DEF OwnInv
      <4> QED BY <1>0, <3>1, <4>2
    <3> QED BY <2>2, <3>2, OwnFrame
  <2>4. CASE ~Close(t)
    <3>1. UNCHANGED open
      BY <1>3, <2>4 DEF run_client, LoopTest, Read, ReadNothing, Lock, ReadLast, Link, Count
    <3> QED BY <2>2, <3>1, OwnFrame
  <2> QED BY <2>3, <2>4
<1>4. CASE AcceptorTest \/ NoConnection \/ AcceptFails \/ AllStopped
  <2>1. /\ UNCHANGED <<conn, open, client_args, thread>> /\ Thread' = Thread
        /\ acceptor \in Ending => acceptor' \in Ending
    BY <1>4 DEF AcceptorTest, NoConnection, AcceptFails, AllStopped, netVars, accVars, threadVars,
                Thread, num_clients, Ending
  <2> QED BY <2>1, OwnFrame
<1>5. CASE StopClient
  <2>1. /\ UNCHANGED <<conn, open, thread>> /\ acceptor' \in Ending /\ Thread' = Thread
        /\ \A t \in Thread : /\ client_args'[t].cfd = client_args[t].cfd
                             /\ client_args'[t].client = client_args[t].client
    BY <1>5, StopSetsFlag DEF Inv, StopClient, netVars, threadVars, Thread, Ending
  <2> QED BY <2>1, OwnFrame
<1>6. CASE JoinClient
  <2>1. /\ UNCHANGED <<conn, client_args, thread>> /\ acceptor' \in Ending /\ Thread' = Thread
        /\ open' = [open EXCEPT ![client_args[next].cfd] = Nobody]
    BY <1>6 DEF JoinClient, netVars, threadVars, Thread, num_clients, Ending
  <2>2. \A t \in Thread : open'[client_args[t].cfd] \in {open[client_args[t].cfd], Nobody}
    BY <1>0, <2>1
  <2> QED BY <2>1, <2>2, OwnFrame
<1>7. ASSUME NEW c \in Client, Accept(c) PROVE OwnInv'
  <2>1. PICK n : n = num_clients + 1
    OBVIOUS
  <2>2. PICK f \in Fd : /\ open[f] = Nobody /\ open' = [open EXCEPT ![f] = c]
                        /\ client_args'[n].cfd = f
    BY <1>7, <2>1, AcceptAdds DEF Inv
  <2>3. /\ Thread' = Thread \cup {n} /\ n \notin Thread
        /\ \A t \in Thread : client_args'[t] = client_args[t] /\ thread'[t] = thread[t]
        /\ client_args'[n].client = c
    <3>1. num_clients' = n /\ Thread' = 1..n /\ Thread = 1..num_clients
      BY <1>7, <2>1, AcceptAdds DEF Inv, Thread
    <3> QED BY <1>0, <1>7, <2>1, <3>1, AcceptAdds DEF Inv
  <2>4. /\ conn[c] = "queued" /\ conn' = [conn EXCEPT ![c] = "accepted"]
        /\ acceptor = "accept"
    BY <1>7 DEF Accept
  <2>5. \A t \in Thread : client_args[t].client # c
    BY <2>4 DEF OwnInv
  <2>6. \A t \in Thread : thread[t] # "done" =>
          /\ open[client_args[t].cfd] = client_args[t].client
          /\ client_args[t].cfd # f
    <3> SUFFICES ASSUME NEW t \in Thread, thread[t] # "done"
                 PROVE  /\ open[client_args[t].cfd] = client_args[t].client
                        /\ client_args[t].cfd # f
      OBVIOUS
    <3>1. open[client_args[t].cfd] = client_args[t].client
      BY <2>4 DEF OwnInv, Ending
    <3>2. client_args[t].client # Nobody
      BY <1>0, CollectorAssumption DEF Nobody
    <3> QED BY <2>2, <3>1, <3>2
  <2>7. \A t \in Thread' : conn'[client_args'[t].client] = "accepted"
    BY <1>0, <2>3, <2>4, <2>5 DEF OwnInv
  <2>8. \A t, u \in Thread' : client_args'[t].client = client_args'[u].client => t = u
    BY <2>3, <2>5 DEF OwnInv
  <2>9. ASSUME NEW t \in Thread', thread'[t] # "done"
        PROVE  open'[client_args'[t].cfd] = client_args'[t].client
    <3>1. CASE t = n
      BY <1>0, <2>2, <2>3, <3>1
    <3>2. CASE t # n
      BY <1>0, <2>2, <2>3, <2>6, <2>9, <3>2
    <3> QED BY <3>1, <3>2
  <2>10. ASSUME NEW t \in Thread', NEW u \in Thread', thread'[t] # "done", thread'[u] # "done",
               client_args'[t].cfd = client_args'[u].cfd
         PROVE  t = u
    <3>1. CASE t = n \/ u = n
      BY <2>2, <2>3, <2>6, <2>10, <3>1
    <3>2. CASE t # n /\ u # n
      BY <2>3, <2>10, <3>2 DEF OwnInv
    <3> QED BY <3>1, <3>2
  <2> QED BY <2>7, <2>8, <2>9, <2>10 DEF OwnInv
<1> QED BY <1>1, <1>2, <1>3, <1>4, <1>5, <1>6, <1>7 DEF Next, Finished, run_acceptor

-----------------------------------------------------------------------------
(* Who is cut off.  While connections are accepted no thread is told to    *)
(* stop, so one that has left its loop was reset; only then is its number  *)
(* free for a later thread, whose connection the acceptor closes when it   *)
(* has joined the earlier one.                                             *)
Left == {"close", "done"}

EarlyInv ==
  /\ \A t \in Thread : acceptor \notin Ending => client_args[t].run
  /\ \A t \in Thread : acceptor \notin Ending /\ thread[t] \in Left =>
       left[client_args[t].client] = "reset"
  /\ \A s, t \in Thread : s < t /\ client_args[s].cfd = client_args[t].cfd =>
       left[client_args[s].client] = "reset"

CutInv ==
  \A t \in Thread : CutOff(t) =>
    \E s \in Thread : s < next /\ client_args[s].cfd = client_args[t].cfd

LEMMA EarlyFrame ==
  ASSUME EarlyInv, Thread' = Thread,
         \A t \in Thread : /\ client_args'[t].cfd = client_args[t].cfd
                           /\ client_args'[t].client = client_args[t].client
                           /\ left[client_args[t].client] = "reset" =>
                                left'[client_args[t].client] = "reset",
         acceptor' \notin Ending => acceptor \notin Ending,
         \A t \in Thread : acceptor' \notin Ending =>
           /\ client_args'[t].run = client_args[t].run
           /\ thread'[t] \in Left =>
                thread[t] \in Left \/ left[client_args[t].client] = "reset"
  PROVE  EarlyInv'
<1>1. ASSUME NEW t \in Thread, acceptor' \notin Ending
      PROVE  /\ client_args'[t].run
             /\ thread'[t] \in Left => left'[client_args'[t].client] = "reset"
  BY <1>1 DEF EarlyInv
<1>2. ASSUME NEW s \in Thread, NEW t \in Thread, s < t, client_args'[s].cfd = client_args'[t].cfd
      PROVE  left'[client_args'[s].client] = "reset"
  BY <1>2 DEF EarlyInv
<1> QED BY <1>1, <1>2 DEF EarlyInv

LEMMA StepKeepsEarly ==
  ASSUME Inv, OwnInv, EarlyInv, [Next]_vars
  PROVE  EarlyInv'
<1>0. /\ client_args \in Seq(Args) /\ num_clients \in Nat
      /\ \A t \in Thread : client_args[t].cfd \in Fd /\ client_args[t].client \in Client
      /\ open \in [Fd -> Client \cup {Nobody}] /\ thread \in [Thread -> ThreadPc]
      /\ left \in [Client -> {"no", "closed", "reset"}]
  BY ArgsOf DEF Inv, TypeInv, TypeOK, Args, ThreadPc
<1>1. ASSUME NEW c \in Client, ClientProcess(c) PROVE EarlyInv'
  <2>1. /\ UNCHANGED <<acceptor, client_args, thread>> /\ Thread' = Thread
        /\ \A d \in Client : left[d] = "reset" => left'[d] = "reset"
    BY <1>0, <1>1 DEF ClientProcess, Connect, Send, Leave, accVars, threadVars, Thread, num_clients
  <2> QED BY <1>0, <2>1, EarlyFrame
<1>2. CASE MainProcess \/ UNCHANGED vars
  <2>1. UNCHANGED <<left, acceptor, client_args, thread>> /\ Thread' = Thread
    BY <1>2 DEF MainProcess, MainLock, MainLook, MainStop, MainJoin, collect_all, netVars, accVars,
                threadVars, vars, Thread, num_clients
  <2> QED BY <2>1, EarlyFrame
<1>3. ASSUME NEW t \in Thread, run_client(t) PROVE EarlyInv'
  <2>1. PICK to \in ThreadPc : Moves(t, ThreadPc \ {"done"}, to)
    BY <1>3, ThreadMoves
  <2>2. /\ UNCHANGED <<left, acceptor, client_args>> /\ Thread' = Thread
        /\ thread' = [thread EXCEPT ![t] = to]
    BY <2>1 DEF Moves, Thread, num_clients
  <2>3. ASSUME acceptor \notin Ending, to \in Left, thread[t] \notin Left
        PROVE  left[client_args[t].client] = "reset"
    <3>1. client_args[t].run
      BY <2>3 DEF EarlyInv
    <3>2. open[client_args[t].cfd] = client_args[t].client /\ client_args[t].client # Nobody
      <4>1. open[client_args[t].cfd] = client_args[t].client
        BY <2>3 DEF OwnInv, Left
      <4>2. client_args[t].client # Nobody
        BY <1>0, CollectorAssumption DEF Nobody
      <4> QED BY <4>1, <4>2
    <3>3. thread'[t] = to
      BY <1>0, <2>2
    <3>4. ReadNothing(t)
      BY <1>0, <1>3, <2>2, <2>3, <3>1, <3>3
         DEF run_client, LoopTest, Read, Lock, ReadLast, Link, Count, Close, Left
    <3>5. thread'[t] # "test"
      BY <2>3, <3>3 DEF Left
    <3> QED BY <1>0, <3>2, <3>4, <3>5 DEF ReadNothing, Peer
  <2>4. \A u \in Thread : acceptor \notin Ending /\ thread'[u] \in Left =>
          thread[u] \in Left \/ left[client_args[u].client] = "reset"
    BY <1>0, <2>2, <2>3
  <2> QED BY <2>2, <2>4, EarlyFrame
<1>4. CASE AcceptorTest \/ NoConnection \/ AcceptFails \/ AllStopped
  <2>1. /\ UNCHANGED <<left, client_args, thread>> /\ Thread' = Thread
        /\ acceptor' \notin Ending => acceptor \notin Ending
    BY <1>4 DEF AcceptorTest, NoConnection, AcceptFails, AllStopped, netVars, accVars, threadVars,
                Thread, num_clients, Ending
  <2> QED BY <2>1, EarlyFrame
<1>5. CASE StopClient
  <2>1. /\ UNCHANGED <<left, thread>> /\ acceptor' \in Ending /\ Thread' = Thread
        /\ \A t \in Thread : /\ client_args'[t].cfd = client_args[t].cfd
                             /\ client_args'[t].client = client_args[t].client
    BY <1>5, StopSetsFlag DEF Inv, StopClient, netVars, threadVars, Thread, Ending
  <2> QED BY <2>1, EarlyFrame
<1>6. CASE JoinClient
  <2>1. UNCHANGED <<left, client_args, thread>> /\ acceptor' \in Ending /\ Thread' = Thread
    BY <1>6 DEF JoinClient, netVars, threadVars, Thread, num_clients, Ending
  <2> QED BY <2>1, EarlyFrame
<1>7. ASSUME NEW c \in Client, Accept(c) PROVE EarlyInv'
  <2>1. PICK n : n = num_clients + 1
    OBVIOUS
  <2>2. PICK f \in Fd : open[f] = Nobody /\ client_args'[n].cfd = f
    BY <1>7, <2>1, AcceptAdds DEF Inv
  <2>3. /\ Thread' = Thread \cup {n} /\ n \notin Thread
        /\ \A t \in Thread : client_args'[t] = client_args[t] /\ thread'[t] = thread[t] /\ t < n
        /\ thread'[n] = "test"
    <3>1. num_clients' = n /\ Thread' = 1..n /\ Thread = 1..num_clients
      BY <1>7, <2>1, AcceptAdds DEF Inv, Thread
    <3> QED BY <1>0, <1>7, <2>1, <3>1, AcceptAdds DEF Inv
  <2>4. client_args'[n].run
    <3>1. PICK g \in Fd :
            client_args' = Append(client_args, [cfd |-> g, run |-> TRUE, client |-> c])
      BY <1>7 DEF Accept
    <3>2. [cfd |-> g, run |-> TRUE, client |-> c] \in Args
      BY DEF Args
    <3>3. client_args'[n] = [cfd |-> g, run |-> TRUE, client |-> c]
      BY <1>0, <2>1, <3>1, <3>2, AppendProperties DEF num_clients
    <3> QED BY <3>3
  <2>5. acceptor = "accept" /\ UNCHANGED left
    BY <1>7 DEF Accept
  <2>6. ASSUME NEW t \in Thread, client_args[t].cfd = f
        PROVE  left[client_args[t].client] = "reset"
    <3>1. client_args[t].client # Nobody
      BY <1>0, CollectorAssumption DEF Nobody
    <3>2. thread[t] = "done"
      BY <2>2, <2>5, <2>6, <3>1 DEF OwnInv, Ending
    <3> QED BY <2>5, <3>2 DEF EarlyInv, Ending, Left
  <2>7. ASSUME NEW t \in Thread'
        PROVE  client_args'[t].run
    BY <2>3, <2>4, <2>5, <2>7 DEF EarlyInv, Ending
  <2>8. ASSUME NEW t \in Thread', thread'[t] \in Left
        PROVE  left'[client_args'[t].client] = "reset"
    BY <2>3, <2>5, <2>8 DEF EarlyInv, Ending, Left
  <2>9. ASSUME NEW s \in Thread', NEW t \in Thread', s < t,
               client_args'[s].cfd = client_args'[t].cfd
        PROVE  left'[client_args'[s].client] = "reset"
    <3>1. CASE t = n
      <4>1. s \in Thread
        BY <1>0, <2>1, <2>3, <2>9, <3>1
      <4> QED BY <2>2, <2>3, <2>5, <2>6, <2>9, <3>1, <4>1
    <3>2. CASE s = n /\ t \in Thread
      BY <1>0, <2>1, <2>9, <3>2 DEF Thread
    <3>3. CASE s \in Thread /\ t \in Thread
      BY <2>3, <2>5, <2>9, <3>3 DEF EarlyInv
    <3> QED BY <2>3, <3>1, <3>2, <3>3
  <2> QED BY <2>7, <2>8, <2>9 DEF EarlyInv
<1> QED BY <1>1, <1>2, <1>3, <1>4, <1>5, <1>6, <1>7 DEF Next, Finished, run_acceptor

(* The flag is cleared when the count is there, and the count never falls. *)
StoppedInv == ~running => count >= TOTAL

LEMMA StepKeepsStopped ==
  ASSUME Inv, StoppedInv, [Next]_vars
  PROVE  StoppedInv'
<1>1. CASE UNCHANGED <<running, count>>
  BY <1>1 DEF StoppedInv
<1>2. CASE MainProcess
  BY <1>1, <1>2 DEF MainProcess, MainLock, MainLook, MainStop, MainJoin, collect_all, listVars,
                    StoppedInv, Inv, StopInv
<1>3. CASE run_acceptor
  <2>1. ASSUME NEW c \in Client, Accept(c) PROVE UNCHANGED <<running, count>>
    BY <2>1 DEF Accept, listVars
  <2> QED BY <1>1, <1>3, <2>1 DEF run_acceptor, AcceptorTest, NoConnection, AcceptFails,
             StopClient, JoinClient, AllStopped, listVars
<1>4. ASSUME NEW t \in Thread, run_client(t) PROVE StoppedInv'
  <2>1. CASE Count(t)
    <3>1. UNCHANGED running /\ count' = count + 1 /\ count \in Nat
      BY <2>1 DEF Count, Inv, TypeInv, TypeOK
    <3> QED BY <3>1, Total DEF StoppedInv
  <2>2. CASE ~Count(t)
    BY <1>1, <1>4, <2>2 DEF run_client, LoopTest, Read, ReadNothing, Lock, ReadLast, Link, Close,
                            listVars
  <2> QED BY <2>1, <2>2
<1>5. ASSUME NEW c \in Client, ClientProcess(c) PROVE StoppedInv'
  BY <1>1, <1>5 DEF ClientProcess, listVars
<1>6. CASE UNCHANGED vars
  BY <1>1, <1>6 DEF vars
<1> QED BY <1>2, <1>3, <1>4, <1>5, <1>6 DEF Next, Finished

LEMMA CutFrame ==
  ASSUME CutInv, Thread' = Thread,
         \A t \in Thread : /\ client_args'[t].cfd = client_args[t].cfd
                           /\ client_args'[t].client = client_args[t].client
                           /\ thread[t] # "done" \/ thread'[t] = "done"
                           /\ thread'[t] # "done" =>
                                open'[client_args[t].cfd] = open[client_args[t].cfd],
         next' = next
  PROVE  CutInv'
<1> SUFFICES ASSUME NEW t \in Thread, CutOff(t)'
             PROVE  \E s \in Thread : s < next /\ client_args'[s].cfd = client_args'[t].cfd
  BY DEF CutInv
<1>1. CutOff(t)
  BY DEF CutOff, Peer
<1>2. PICK s \in Thread : s < next /\ client_args[s].cfd = client_args[t].cfd
  BY <1>1 DEF CutInv
<1> QED BY <1>2

LEMMA StepKeepsCut ==
  ASSUME Inv, OwnInv, CutInv, [Next]_vars
  PROVE  CutInv'
<1>0. /\ num_clients \in Nat
      /\ \A t \in Thread : client_args[t].cfd \in Fd /\ client_args[t].client \in Client
      /\ open \in [Fd -> Client \cup {Nobody}] /\ thread \in [Thread -> ThreadPc]
  BY ArgsOf DEF Inv, TypeInv, TypeOK, Args, ThreadPc
<1>1. CASE UNCHANGED <<open, next, client_args, thread>>
  <2>1. Thread' = Thread
    BY <1>1 DEF Thread, num_clients
  <2> QED BY <1>1, <2>1, CutFrame
<1>2. ASSUME NEW c \in Client, ClientProcess(c) PROVE CutInv'
  BY <1>1, <1>2 DEF ClientProcess, accVars, threadVars
<1>3. CASE MainProcess \/ UNCHANGED vars
  BY <1>1, <1>3 DEF MainProcess, MainLock, MainLook, MainStop, MainJoin, collect_all, accVars,
                    threadVars, vars
<1>4. ASSUME NEW t \in Thread, run_client(t) PROVE CutInv'
  <2>1. PICK to \in ThreadPc : Moves(t, ThreadPc \ {"done"}, to)
    BY <1>4, ThreadMoves
  <2>2. /\ UNCHANGED <<next, client_args>> /\ Thread' = Thread /\ thread[t] # "done"
        /\ thread' = [thread EXCEPT ![t] = to]
    BY <2>1 DEF Moves, Thread, num_clients
  <2>3. ASSUME NEW u \in Thread, thread'[u] # "done"
        PROVE  open'[client_args[u].cfd] = open[client_args[u].cfd]
    <3>1. CASE Close(t)
      <4>1. /\ open' = [open EXCEPT ![client_args[t].cfd] = Nobody]
            /\ thread' = [thread EXCEPT ![t] = "done"]
        BY <3>1 DEF Close
      <4>2. u # t /\ thread[u] # "done"
        BY <1>0, <2>3, <4>1
      <4>3. client_args[u].cfd # client_args[t].cfd
        BY <2>2, <4>2 DEF OwnInv
      <4> QED BY <1>0, <4>1, <4>3
    <3>2. CASE ~Close(t)
      BY <1>4, <3>2 DEF run_client, LoopTest, Read, ReadNothing, Lock, ReadLast, Link, Count
    <3> QED BY <3>1, <3>2
  <2>4. \A u \in Thread : thread[u] # "done" \/ thread'[u] = "done"
    BY <1>0, <2>2
  <2> QED BY <2>2, <2>3, <2>4, CutFrame
<1>5. CASE AcceptorTest \/ NoConnection \/ AcceptFails \/ AllStopped
  BY <1>1, <1>5 DEF AcceptorTest, NoConnection, AcceptFails, AllStopped, accVars, threadVars
<1>6. CASE StopClient
  <2>1. /\ UNCHANGED <<open, thread, next>> /\ Thread' = Thread
        /\ \A t \in Thread : /\ client_args'[t].cfd = client_args[t].cfd
                             /\ client_args'[t].client = client_args[t].client
    BY <1>6, StopSetsFlag DEF Inv, StopClient, threadVars, Thread
  <2> QED BY <2>1, CutFrame
<1>7. CASE JoinClient
  <2>1. /\ UNCHANGED <<client_args, thread>> /\ Thread' = Thread /\ next' = next + 1
        /\ open' = [open EXCEPT ![client_args[next].cfd] = Nobody]
    BY <1>7 DEF JoinClient, threadVars, Thread, num_clients
  <2>2. next \in Thread /\ next \in Nat /\ Thread \subseteq Nat
    BY <1>0, <1>7 DEF JoinClient, Inv, TypeInv, Thread
  <2> SUFFICES ASSUME NEW t \in Thread, CutOff(t)'
               PROVE  \E s \in Thread : s < next + 1 /\ client_args[s].cfd = client_args[t].cfd
    BY <2>1 DEF CutInv
  <2>3. CASE client_args[t].cfd = client_args[next].cfd
    BY <2>2, <2>3
  <2>4. CASE client_args[t].cfd # client_args[next].cfd
    <3>1. CutOff(t)
      BY <1>0, <2>1, <2>2, <2>4 DEF CutOff, Peer
    <3>2. PICK s \in Thread : s < next /\ client_args[s].cfd = client_args[t].cfd
      BY <3>1 DEF CutInv
    <3> QED BY <2>2, <3>2
  <2> QED BY <2>3, <2>4
<1>8. ASSUME NEW c \in Client, Accept(c) PROVE CutInv'
  <2>1. PICK n : n = num_clients + 1
    OBVIOUS
  <2>2. PICK f \in Fd : /\ open[f] = Nobody /\ open' = [open EXCEPT ![f] = c]
                        /\ client_args'[n].cfd = f
    BY <1>8, <2>1, AcceptAdds DEF Inv
  <2>3. /\ Thread' = Thread \cup {n}
        /\ \A t \in Thread : client_args'[t] = client_args[t] /\ thread'[t] = thread[t]
        /\ client_args'[n].client = c
    <3>1. num_clients' = n /\ Thread' = 1..n /\ Thread = 1..num_clients
      BY <1>8, <2>1, AcceptAdds DEF Inv, Thread
    <3> QED BY <1>0, <1>8, <2>1, <3>1, AcceptAdds DEF Inv
  <2>4. acceptor = "accept"
    BY <1>8 DEF Accept
  <2> SUFFICES ASSUME NEW t \in Thread', CutOff(t)'
               PROVE  FALSE
    BY DEF CutInv
  <2>5. CASE t = n
    BY <1>0, <2>2, <2>3, <2>5 DEF CutOff, Peer
  <2>6. CASE t \in Thread
    <3>1. thread[t] # "done"
      BY <2>3, <2>6 DEF CutOff
    <3>2. client_args[t].client # Nobody
      BY <1>0, <2>6, CollectorAssumption DEF Nobody
    <3>3. open[client_args[t].cfd] = client_args[t].client /\ client_args[t].cfd # f
      BY <2>2, <2>4, <2>6, <3>1, <3>2 DEF OwnInv, Ending
    <3> QED BY <1>0, <2>2, <2>3, <2>6, <3>3 DEF CutOff, Peer
  <2> QED BY <2>3, <2>5, <2>6
<1> QED BY <1>2, <1>3, <1>4, <1>5, <1>6, <1>7, <1>8 DEF Next, Finished, run_acceptor

-----------------------------------------------------------------------------
(* What has been read is in the list or in hand.                           *)
LEMMA EndsSame ==
  ASSUME NEW n, \A k \in 1..n : list'[k] = list[k]
  PROVE  \A c, half : EndsAt(c, n, half)' <=> EndsAt(c, n, half)
<1>1. \A c : Nodes(c, n)' = Nodes(c, n) /\ Nodes(c, n) \subseteq 1..n
  BY DEF Nodes
<1> QED BY <1>1 DEF EndsAt

LEMMA EndsNext ==
  ASSUME NEW n \in Nat, \A k \in 1..n : list'[k] = list[k], NEW c
  PROVE  /\ Nodes(c, n + 1)' = IF list'[n + 1].client = c THEN Nodes(c, n) \cup {n + 1}
                              ELSE Nodes(c, n)
         /\ list'[n + 1].client = c => \A half : half = list'[n + 1].to => EndsAt(c, n + 1, half)'
         /\ list'[n + 1].client # c => \A half : EndsAt(c, n + 1, half)' <=> EndsAt(c, n, half)
<1>1. Nodes(c, n + 1)' = IF list'[n + 1].client = c THEN Nodes(c, n) \cup {n + 1} ELSE Nodes(c, n)
  BY DEF Nodes
<1>2. Nodes(c, n) \subseteq 1..n
  BY DEF Nodes
<1>3. ASSUME list'[n + 1].client = c, NEW half, half = list'[n + 1].to
      PROVE  EndsAt(c, n + 1, half)'
  <2>1. n + 1 \in Nodes(c, n + 1)' /\ \A m \in Nodes(c, n + 1)' : m <= n + 1
    BY <1>1, <1>2, <1>3
  <2> QED BY <1>3, <2>1 DEF EndsAt
<1>4. ASSUME list'[n + 1].client # c, NEW half PROVE EndsAt(c, n + 1, half)' <=> EndsAt(c, n, half)
  <2>1. Nodes(c, n + 1)' = Nodes(c, n)
    BY <1>1, <1>4
  <2> QED BY <1>2, <2>1 DEF EndsAt
<1> QED BY <1>1, <1>3, <1>4

KeptInv ==
  /\ EverythingKept
  /\ \A c \in Client : conn[c] # "accepted" => got[c] = 0 /\ Nodes(c, Len(list)) = {}
  /\ \A t \in Thread : InHand(t) => piece[t].from < piece[t].to

LEMMA KeptFrame ==
  ASSUME KeptInv, Thread' = Thread, UNCHANGED <<list, got>>,
         \A t \in Thread : client_args'[t].client = client_args[t].client,
         \A c \in Client : conn[c] = "accepted" => conn'[c] = "accepted",
         \A t \in Thread : (InHand(t)' <=> InHand(t)) /\ (InHand(t) => piece'[t] = piece[t])
  PROVE  KeptInv'
<1>1. \A n, c, half : EndsAt(c, n, half)' <=> EndsAt(c, n, half)
  BY EndsSame
<1>2. \A k \in 1..Len(list') : EndsAt(list[k].client, k - 1, list[k].from)'
  BY <1>1 DEF KeptInv, EverythingKept
<1>3. ASSUME NEW t \in Thread PROVE Kept(t)'
  <2>1. Kept(t)
    BY DEF KeptInv, EverythingKept
  <2> QED BY <1>1, <2>1 DEF Kept
<1>4. \A c \in Client : conn'[c] # "accepted" => got'[c] = 0 /\ Nodes(c, Len(list))' = {}
  BY DEF KeptInv, Nodes
<1> QED BY <1>2, <1>3, <1>4 DEF KeptInv, EverythingKept

LEMMA ReadKeeps ==
  ASSUME Inv, OwnInv, KeptInv, NEW t \in Thread, Read(t)
  PROVE  KeptInv'
<1>1. /\ UNCHANGED <<conn, list, client_args>> /\ Thread' = Thread
      /\ thread[t] = "read" /\ thread' = [thread EXCEPT ![t] = "lock"]
      /\ thread \in [Thread -> ThreadPc] /\ piece \in [Thread -> Piece]
      /\ got \in [Client -> 0..(2 * NUM_MSG)]
  BY DEF Read, Inv, TypeInv, TypeOK, ThreadPc, netVars, listVars, Thread, num_clients
<1>2. PICK c : c = client_args[t].client
  OBVIOUS
<1>3. Peer(t) = c /\ c \in Client /\ Peer(t) # Nobody
  <2>1. client_args[t] \in Args
    BY ArgsOf DEF Inv
  <2>2. client_args[t].client \in Client
    BY <2>1 DEF Args
  <2> QED BY <1>1, <1>2, <2>2 DEF Read, Peer, OwnInv
<1>4. PICK n \in 1..2 :
        /\ piece' = [piece EXCEPT ![t] = [client |-> c, from |-> got[c], to |-> got[c] + n]]
        /\ got' = [got EXCEPT ![c] = @ + n]
  BY <1>3 DEF Read
<1>5. \A m, d, half : EndsAt(d, m, half)' <=> EndsAt(d, m, half)
  BY <1>1, EndsSame
<1>6. \A k \in 1..Len(list') : EndsAt(list[k].client, k - 1, list[k].from)'
  BY <1>1, <1>5 DEF KeptInv, EverythingKept
<1>7. /\ piece'[t] = [client |-> c, from |-> got[c], to |-> got[c] + n] /\ got'[c] = got[c] + n
      /\ \A u \in Thread : u # t => piece'[u] = piece[u] /\ thread'[u] = thread[u]
      /\ \A d \in Client : d # c => got'[d] = got[d]
      /\ thread'[t] = "lock" /\ got[c] \in Nat
  BY <1>1, <1>3, <1>4
<1>8. Kept(t)'
  <2>1. EndsAt(c, Len(list), got[c])
    <3>1. Kept(t) /\ ~InHand(t)
      BY <1>1 DEF KeptInv, EverythingKept, InHand
    <3> QED BY <1>2, <3>1 DEF Kept
  <2>2. InHand(t)' /\ client_args'[t].client = c
    BY <1>1, <1>2, <1>7 DEF InHand
  <2> QED BY <1>1, <1>5, <1>7, <2>1, <2>2 DEF Kept
<1>9. ASSUME NEW u \in Thread, u # t PROVE Kept(u)'
  <2>1. client_args[u].client # c /\ client_args[u].client \in Client
    <3>1. client_args[u] \in Args
      BY ArgsOf DEF Inv
    <3> QED BY <1>2, <1>9, <3>1 DEF OwnInv, Args
  <2>2. Kept(u)
    BY DEF KeptInv, EverythingKept
  <2>3. got'[client_args[u].client] = got[client_args[u].client]
        /\ (InHand(u)' <=> InHand(u)) /\ piece'[u] = piece[u]
    BY <1>7, <1>9, <2>1 DEF InHand
  <2> QED BY <1>1, <1>5, <2>2, <2>3 DEF Kept
<1>10. ASSUME NEW d \in Client, conn'[d] # "accepted"
       PROVE  got'[d] = 0 /\ Nodes(d, Len(list))' = {}
  <2>1. d # c
    BY <1>1, <1>2, <1>10 DEF OwnInv
  <2> QED BY <1>1, <1>7, <1>10, <2>1 DEF KeptInv, Nodes
<1>11. ASSUME NEW u \in Thread, InHand(u)' PROVE piece'[u].from < piece'[u].to
  <2>1. CASE u = t
    BY <1>7, <2>1
  <2>2. CASE u # t
    BY <1>7, <1>11, <2>2 DEF KeptInv, InHand
  <2> QED BY <2>1, <2>2
<1> QED BY <1>1, <1>6, <1>8, <1>9, <1>10, <1>11 DEF KeptInv, EverythingKept

(* Only the holder of the mutex links, and its node goes to the end.       *)
LEMMA LinkAdds ==
  ASSUME Inv, NEW t \in Thread, Link(t)
  PROVE  /\ list' = Append(list, piece[t]) /\ Len(list) \in Nat /\ Len(list') = Len(list) + 1
         /\ \A k \in 1..Len(list) : list'[k] = list[k]
         /\ list'[Len(list) + 1] = piece[t]
         /\ UNCHANGED <<conn, got, piece, client_args>> /\ Thread' = Thread
         /\ thread[t] = "link" /\ thread' = [thread EXCEPT ![t] = "count"]
<1>1. list \in Seq(Piece) /\ piece[t] \in Piece /\ last_node[t] = Len(list)
  BY DEF Inv, TypeInv, TypeOK, LockInv, Link
<1>2. SubSeq(list, 1, Len(list)) = list
  BY <1>1, SubSeqFull
<1>3. list' = Append(list, piece[t])
  BY <1>1, <1>2 DEF Link
<1>4. /\ Len(list') = Len(list) + 1 /\ \A k \in 1..Len(list) : list'[k] = list[k]
      /\ list'[Len(list) + 1] = piece[t]
  BY <1>1, <1>3, AppendProperties
<1>5. Len(list) \in Nat
  BY <1>1
<1> QED BY <1>3, <1>4, <1>5 DEF Link, netVars, Thread, num_clients

LEMMA LinkKeeps ==
  ASSUME Inv, OwnInv, KeptInv, NEW t \in Thread, Link(t)
  PROVE  KeptInv'
<1>1. /\ UNCHANGED <<conn, got, piece, client_args>> /\ Thread' = Thread
      /\ thread[t] = "link" /\ thread' = [thread EXCEPT ![t] = "count"]
      /\ thread \in [Thread -> ThreadPc]
  BY LinkAdds DEF Inv, TypeInv, TypeOK, ThreadPc
<1>2. PICK n \in Nat : n = Len(list)
  BY LinkAdds
<1>3. /\ Len(list') = n + 1 /\ \A k \in 1..n : list'[k] = list[k]
      /\ list'[n + 1] = piece[t]
  BY <1>2, LinkAdds
<1>4. PICK c : c = client_args[t].client
  OBVIOUS
<1>5. c \in Client /\ piece[t].client = c /\ piece[t].to = got[c] /\ EndsAt(c, n, piece[t].from)
  <2>1. Kept(t) /\ InHand(t)
    BY <1>1 DEF KeptInv, EverythingKept, InHand
  <2>2. client_args[t] \in Args
    BY ArgsOf DEF Inv
  <2> QED BY <1>2, <1>4, <2>1, <2>2 DEF Kept, Args
<1>6. \A half : half = got[c] => EndsAt(c, n + 1, half)'
  BY <1>3, <1>5, EndsNext
<1>7. \A d, half : d # c => (EndsAt(d, n + 1, half)' <=> EndsAt(d, n, half))
  BY <1>3, <1>5, EndsNext
<1>8. ASSUME NEW k \in 1..Len(list')
      PROVE  EndsAt(list[k].client, k - 1, list[k].from)'
  <2>1. CASE k = n + 1
    <3>1. \A d, half : EndsAt(d, n, half)' <=> EndsAt(d, n, half)
      BY <1>3, EndsSame
    <3> QED BY <1>3, <1>5, <2>1, <3>1
  <2>2. CASE k \in 1..n
    <3>1. \A m \in 1..(k - 1) : list'[m] = list[m]
      BY <1>3, <2>2
    <3>2. \A d, half : EndsAt(d, k - 1, half)' <=> EndsAt(d, k - 1, half)
      BY <3>1, EndsSame
    <3> QED BY <1>2, <1>3, <2>2, <3>2 DEF KeptInv, EverythingKept
  <2> QED BY <1>3, <2>1, <2>2
<1>9. Kept(t)'
  <2>1. ~InHand(t)' /\ client_args'[t].client = c
    BY <1>1, <1>4 DEF InHand
  <2> QED BY <1>1, <1>3, <1>6, <2>1 DEF Kept
<1>10. ASSUME NEW u \in Thread, u # t PROVE Kept(u)'
  <2>1. client_args[u].client # c
    BY <1>4, <1>10 DEF OwnInv
  <2>2. Kept(u)
    BY DEF KeptInv, EverythingKept
  <2>3. InHand(u)' <=> InHand(u)
    BY <1>1, <1>10 DEF InHand
  <2> QED BY <1>1, <1>2, <1>3, <1>7, <2>1, <2>2, <2>3 DEF Kept
<1>11. ASSUME NEW d \in Client, conn'[d] # "accepted"
       PROVE  got'[d] = 0 /\ Nodes(d, Len(list))' = {}
  <2>1. d # c /\ conn[d] # "accepted"
    BY <1>1, <1>4, <1>11 DEF OwnInv
  <2>2. Nodes(d, n + 1)' = Nodes(d, n)
    BY <1>3, <1>5, <2>1, EndsNext
  <2> QED BY <1>1, <1>2, <1>3, <2>1, <2>2 DEF KeptInv
<1>12. \A u \in Thread : InHand(u)' => piece'[u].from < piece'[u].to
  BY <1>1 DEF KeptInv, InHand
<1>13. \A u \in Thread : Kept(u)'
  BY <1>9, <1>10
<1> QED BY <1>1, <1>8, <1>11, <1>12, <1>13 DEF KeptInv, EverythingKept

LEMMA AcceptKeeps ==
  ASSUME Inv, KeptInv, NEW c \in Client, Accept(c)
  PROVE  KeptInv'
<1>1. PICK n : n = num_clients + 1
  OBVIOUS
<1>2. /\ Thread' = Thread \cup {n}
      /\ \A t \in Thread : /\ client_args'[t] = client_args[t] /\ thread'[t] = thread[t]
                           /\ piece'[t] = piece[t]
      /\ thread'[n] = "test" /\ client_args'[n].client = c
  <2>1. num_clients' = n /\ Thread' = 1..n /\ Thread = 1..num_clients /\ num_clients \in Nat
    BY <1>1, AcceptAdds DEF Inv, Thread
  <2> QED BY <1>1, <2>1, AcceptAdds DEF Inv
<1>3. /\ conn[c] = "queued" /\ conn' = [conn EXCEPT ![c] = "accepted"] /\ UNCHANGED <<got, list>>
      /\ conn \in [Client -> {"idle", "queued", "accepted"}]
  BY DEF Accept, listVars, Inv, TypeInv, TypeOK
<1>4. \A m, d, half : EndsAt(d, m, half)' <=> EndsAt(d, m, half)
  BY <1>3, EndsSame
<1>5. \A k \in 1..Len(list') : EndsAt(list[k].client, k - 1, list[k].from)'
  BY <1>3, <1>4 DEF KeptInv, EverythingKept
<1>6. Kept(n)'
  <2>1. got[c] = 0 /\ Nodes(c, Len(list)) = {}
    BY <1>3 DEF KeptInv
  <2>2. EndsAt(c, Len(list), got[c])
    BY <2>1 DEF EndsAt
  <2>3. ~InHand(n)'
    BY <1>2 DEF InHand
  <2> QED BY <1>2, <1>3, <1>4, <2>2, <2>3 DEF Kept
<1>7. ASSUME NEW u \in Thread PROVE Kept(u)'
  <2>1. Kept(u)
    BY DEF KeptInv, EverythingKept
  <2> QED BY <1>2, <1>3, <1>4, <2>1 DEF Kept, InHand
<1>8. \A d \in Client : conn'[d] # "accepted" => got'[d] = 0 /\ Nodes(d, Len(list))' = {}
  BY <1>3 DEF KeptInv, Nodes
<1>9. \A u \in Thread' : InHand(u)' => piece'[u].from < piece'[u].to
  BY <1>2 DEF KeptInv, InHand
<1>10. \A u \in Thread' : Kept(u)'
  BY <1>2, <1>6, <1>7
<1> QED BY <1>5, <1>8, <1>9, <1>10 DEF KeptInv, EverythingKept

LEMMA StepKeepsKept ==
  ASSUME Inv, OwnInv, KeptInv, [Next]_vars
  PROVE  KeptInv'
<1>1. ASSUME NEW c \in Client, ClientProcess(c) PROVE KeptInv'
  <2>1. /\ UNCHANGED <<list, got, client_args, thread, piece>> /\ Thread' = Thread
        /\ \A d \in Client : conn[d] = "accepted" => conn'[d] = "accepted"
    BY <1>1 DEF ClientProcess, Connect, Send, Leave, listVars, threadVars, Thread, num_clients,
                Inv, TypeInv, TypeOK
  <2> QED BY <2>1, KeptFrame DEF InHand
<1>2. CASE MainProcess \/ UNCHANGED vars
  <2>1. UNCHANGED <<conn, list, got, client_args, thread, piece>> /\ Thread' = Thread
    BY <1>2 DEF MainProcess, MainLock, MainLook, MainStop, MainJoin, collect_all, netVars,
                listVars, threadVars, vars, Thread, num_clients
  <2> QED BY <2>1, KeptFrame DEF InHand
<1>3. ASSUME NEW t \in Thread, run_client(t), ~Read(t), ~Link(t) PROVE KeptInv'
  <2>1. PICK to \in ThreadPc : Moves(t, ThreadPc \ {"done"}, to)
    BY <1>3, ThreadMoves
  <2>2. /\ UNCHANGED <<conn, list, got, client_args, piece>> /\ Thread' = Thread
        /\ thread' = [thread EXCEPT ![t] = to] /\ thread \in [Thread -> ThreadPc]
    BY <1>3, <2>1 DEF Moves, run_client, LoopTest, ReadNothing, Lock, ReadLast, Count, Close,
                      listVars, Thread, num_clients, Inv, TypeInv, TypeOK, ThreadPc
  <2>3. to \in {"lock", "last", "link"} <=> thread[t] \in {"lock", "last", "link"}
    BY <1>3, <2>2 DEF run_client, LoopTest, ReadNothing, Lock, ReadLast, Count, Close
  <2>4. \A u \in Thread : InHand(u)' <=> InHand(u)
    BY <2>2, <2>3 DEF InHand
  <2> QED BY <2>2, <2>4, KeptFrame
<1>4. CASE AcceptorTest \/ NoConnection \/ AcceptFails \/ AllStopped \/ JoinClient
  <2>1. UNCHANGED <<conn, list, got, client_args, thread, piece>> /\ Thread' = Thread
    BY <1>4 DEF AcceptorTest, NoConnection, AcceptFails, AllStopped, JoinClient, netVars,
                listVars, threadVars, accVars, Thread, num_clients
  <2> QED BY <2>1, KeptFrame DEF InHand
<1>5. CASE StopClient
  <2>1. /\ UNCHANGED <<conn, list, got, thread, piece>> /\ Thread' = Thread
        /\ \A t \in Thread : client_args'[t].client = client_args[t].client
    BY <1>5, StopSetsFlag DEF Inv, StopClient, netVars, listVars, threadVars, Thread
  <2> QED BY <2>1, KeptFrame DEF InHand
<1> QED BY <1>1, <1>2, <1>3, <1>4, <1>5, ReadKeeps, LinkKeeps, AcceptKeeps
        DEF Next, Finished, run_acceptor

-----------------------------------------------------------------------------
(* What a client sent lies in the list in order, and in steps of two while *)
(* every read gives a whole message.                                       *)
GrowInv ==
  /\ \A k \in 1..Len(list) : list[k].from < list[k].to /\ list[k].to <= 2 * NUM_MSG
  /\ \A k, m \in 1..Len(list) :
       k < m /\ list[k].client = list[m].client => list[k].to <= list[m].from
  /\ \A k \in 1..Len(list) : \E t \in Thread : client_args[t].client = list[k].client
  /\ AllWhole => \A k \in 1..Len(list) : \E n \in 1..NUM_MSG : list[k].to = 2 * n

LEMMA NodeTypes ==
  ASSUME TypeInv
  PROVE  /\ Len(list) \in Nat /\ NUM_MSG \in Nat
         /\ \A k \in 1..Len(list) : /\ list[k].from \in Nat /\ list[k].to \in Nat
                                    /\ list[k].client \in Client
<1>1. list \in Seq(Piece) /\ NUM_MSG \in Nat
  BY CollectorAssumption DEF TypeInv, TypeOK
<1>2. \A k \in 1..Len(list) : list[k] \in Piece
  BY <1>1
<1> QED BY <1>1, <1>2 DEF Piece

LEMMA EndsLast ==
  ASSUME TypeInv, GrowInv, NEW c, NEW half, EndsAt(c, Len(list), half),
         NEW k \in 1..Len(list), list[k].client = c
  PROVE  list[k].to <= half
<1>1. k \in Nodes(c, Len(list))
  BY DEF Nodes
<1>2. PICK m \in Nodes(c, Len(list)) : half = list[m].to /\ k <= m
  BY <1>1 DEF EndsAt
<1>3. m \in 1..Len(list) /\ list[m].client = c
  BY <1>2 DEF Nodes
<1>4. CASE k = m
  BY <1>2, <1>3, <1>4, NodeTypes
<1>5. CASE k # m
  <2>1. Len(list) \in Nat
    BY NodeTypes
  <2>2. k < m
    BY <1>2, <1>3, <1>5, <2>1
  <2>3. list[k].to <= list[m].from /\ list[m].from < list[m].to
    BY <1>3, <2>2 DEF GrowInv
  <2> QED BY <1>2, <1>3, <2>3, NodeTypes
<1> QED BY <1>4, <1>5

LEMMA GrowFrame ==
  ASSUME GrowInv, UNCHANGED list,
         \A t \in Thread : t \in Thread' /\ client_args'[t].client = client_args[t].client
  PROVE  GrowInv'
<1>1. \A k \in 1..Len(list) : \E t \in Thread' : client_args'[t].client = list[k].client
  BY DEF GrowInv
<1> QED BY <1>1 DEF GrowInv, AllWhole

LEMMA LinkGrows ==
  ASSUME Inv, KeptInv, GrowInv, NEW t \in Thread, Link(t)
  PROVE  GrowInv'
<1>1. PICK n \in Nat : n = Len(list)
  BY LinkAdds
<1>2. PICK p : p = piece[t]
  OBVIOUS
<1>3. /\ Len(list') = n + 1 /\ (\A k \in 1..n : list'[k] = list[k]) /\ list'[n + 1] = p
      /\ UNCHANGED <<got, client_args>> /\ Thread' = Thread
  BY <1>1, <1>2, LinkAdds
<1>4. /\ p.client = client_args[t].client /\ p.from < p.to /\ p.to = got[p.client]
      /\ EndsAt(p.client, n, p.from)
  <2>1. Kept(t) /\ InHand(t)
    BY LinkAdds DEF KeptInv, EverythingKept, InHand
  <2> QED BY <1>1, <1>2, <2>1 DEF Kept, KeptInv
<1>5. p.client \in Client /\ p.from \in Nat /\ p.to \in Nat /\ p.to <= 2 * NUM_MSG /\ NUM_MSG \in Nat
  <2>1. p \in Piece
    BY <1>2 DEF Inv, TypeInv, TypeOK
  <2>2. p.client \in Client /\ p.from \in Nat /\ p.to \in Nat
    BY <2>1 DEF Piece
  <2>3. got[p.client] \in 0..(2 * NUM_MSG)
    BY <2>2 DEF Inv, TypeInv, TypeOK
  <2> QED BY <1>4, <2>2, <2>3, CollectorAssumption
<1>6. \A k \in 1..(n + 1) : k \in 1..n \/ k = n + 1
  OBVIOUS
<1>7. \A k \in 1..(n + 1) : list'[k].from < list'[k].to /\ list'[k].to <= 2 * NUM_MSG
  BY <1>1, <1>3, <1>4, <1>5, <1>6 DEF GrowInv
<1>8. ASSUME NEW k \in 1..(n + 1), NEW m \in 1..(n + 1), k < m, list'[k].client = list'[m].client
      PROVE  list'[k].to <= list'[m].from
  <2>1. k \in 1..n
    BY <1>8
  <2>2. CASE m = n + 1
    <3>1. list[k].client = p.client
      BY <1>3, <1>8, <2>1, <2>2
    <3>2. list[k].to <= p.from
      BY <1>1, <1>4, <2>1, <3>1, EndsLast DEF Inv
    <3> QED BY <1>3, <2>1, <2>2, <3>2
  <2>3. CASE m \in 1..n
    BY <1>1, <1>3, <1>8, <2>1, <2>3 DEF GrowInv
  <2> QED BY <1>6, <2>2, <2>3
<1>9. \A k \in 1..(n + 1) : \E u \in Thread : client_args[u].client = list'[k].client
  BY <1>1, <1>3, <1>4, <1>6 DEF GrowInv
<1>10. ASSUME AllWhole', NEW k \in 1..(n + 1)
       PROVE  \E m \in 1..NUM_MSG : list'[k].to = 2 * m
  <2>1. AllWhole
    <3>1. \A i \in 1..n : i \in 1..(n + 1)
      OBVIOUS
    <3> QED BY <1>1, <1>3, <1>10, <3>1 DEF AllWhole
  <2>2. \A i \in 1..n : \E m \in 1..NUM_MSG : list[i].to = 2 * m
    BY <1>1, <2>1 DEF GrowInv
  <2>3. CASE k = n + 1
    <3>1. p.to - p.from = 2
      BY <1>3, <1>10, <2>3 DEF AllWhole
    <3>2. p.from = 0 \/ \E m \in 1..NUM_MSG : p.from = 2 * m
      BY <1>4, <2>2 DEF EndsAt, Nodes
    <3>3. PICK m \in 0..NUM_MSG : p.from = 2 * m
      BY <1>5, <3>2
    <3>4. p.to = 2 * (m + 1) /\ m + 1 \in 1..NUM_MSG
      BY <1>5, <3>1, <3>3
    <3> QED BY <1>3, <2>3, <3>4
  <2>4. CASE k \in 1..n
    BY <1>3, <2>2, <2>4
  <2> QED BY <1>6, <2>3, <2>4
<1> QED BY <1>3, <1>7, <1>8, <1>9, <1>10 DEF GrowInv

LEMMA StepKeepsGrow ==
  ASSUME Inv, KeptInv, GrowInv, [Next]_vars
  PROVE  GrowInv'
<1>1. ASSUME UNCHANGED <<list, client_args>> PROVE GrowInv'
  BY <1>1, GrowFrame DEF Thread, num_clients
<1>2. ASSUME NEW c \in Client, ClientProcess(c) PROVE GrowInv'
  BY <1>1, <1>2 DEF ClientProcess, listVars
<1>3. CASE MainProcess \/ UNCHANGED vars
  BY <1>1, <1>3 DEF MainProcess, MainLock, MainLook, MainStop, MainJoin, collect_all, listVars, vars
<1>4. ASSUME NEW t \in Thread, run_client(t), ~Link(t) PROVE GrowInv'
  BY <1>1, <1>4 DEF run_client, LoopTest, Read, ReadNothing, Lock, ReadLast, Count, Close, listVars
<1>5. CASE AcceptorTest \/ NoConnection \/ AcceptFails \/ AllStopped \/ JoinClient
  BY <1>1, <1>5 DEF AcceptorTest, NoConnection, AcceptFails, AllStopped, JoinClient, listVars
<1>6. CASE StopClient
  <2>1. /\ UNCHANGED list /\ Thread' = Thread
        /\ \A t \in Thread : client_args'[t].client = client_args[t].client
    BY <1>6, StopSetsFlag DEF Inv, StopClient, listVars, Thread
  <2> QED BY <2>1, GrowFrame
<1>7. ASSUME NEW c \in Client, Accept(c) PROVE GrowInv'
  <2>1. /\ num_clients' = num_clients + 1 /\ num_clients \in Nat
        /\ \A t \in Thread : client_args'[t] = client_args[t]
    BY <1>7, AcceptAdds DEF Inv
  <2>2. \A t \in Thread : t \in Thread'
    BY <2>1 DEF Thread
  <2>3. UNCHANGED list
    BY <1>7 DEF Accept, listVars
  <2> QED BY <2>1, <2>2, <2>3, GrowFrame
<1> QED BY <1>2, <1>3, <1>4, <1>5, <1>6, <1>7, LinkGrows DEF Next, Finished, run_acceptor

LEMMA SafeData == Spec => [](OwnInv /\ KeptInv /\ GrowInv)
<1>1. Init => OwnInv /\ KeptInv /\ GrowInv
  <2> SUFFICES ASSUME Init PROVE OwnInv /\ KeptInv /\ GrowInv
    OBVIOUS
  <2>1. /\ num_clients = 0 /\ Thread = {} /\ Len(list) = 0 /\ got = [c \in Client |-> 0]
        /\ \A n : n \in 1..Len(list) => FALSE
    BY DEF Init, num_clients, Thread
  <2>2. \A c : Nodes(c, Len(list)) = {}
    BY <2>1 DEF Nodes
  <2> QED BY <2>1, <2>2 DEF OwnInv, KeptInv, EverythingKept, GrowInv
<1>2. Inv /\ OwnInv /\ KeptInv /\ GrowInv /\ [Next]_vars => (OwnInv /\ KeptInv /\ GrowInv)'
  BY StepKeepsOwn, StepKeepsKept, StepKeepsGrow
<1> QED BY <1>1, <1>2, Safe, PTL DEF Spec

-----------------------------------------------------------------------------
(* Every variable keeps its type: no more than MAX_CLIENTS connections are *)
(* kept and no index leaves the arrays.                                    *)
THEOREM TypeCorrect == Spec => []TypeOK
<1>1. Inv => TypeOK
  BY DEF Inv, TypeInv
<1> QED BY <1>1, Safe, PTL

(* However many threads add to the list, it has one node for each that was *)
(* counted, and one for a thread that is between the two.                  *)
THEOREM ListIsExact == Spec => []ListExact
<1>1. Inv => ListExact
  <2> SUFFICES ASSUME Inv PROVE ListExact
    OBVIOUS
  <2> DEFINE counting == {t \in Thread : thread[t] = "count"}
  <2>1. \A t, u \in Thread : t \in counting /\ u \in counting => t = u
    BY DEF Inv, LockInv, Linking
  <2>2. CASE \E t \in Thread : thread[t] = "count"
    <3>1. PICK t \in Thread : thread[t] = "count"
      BY <2>2
    <3>2. counting = {t}
      BY <2>1, <3>1
    <3>3. Cardinality(counting) = 1
      BY <3>2, FS_Singleton
    <3> QED BY <2>2, <3>3 DEF Inv, LockInv, ListExact
  <2>3. CASE ~\E t \in Thread : thread[t] = "count"
    <3>1. counting = {}
      BY <2>3
    <3>2. Cardinality(counting) = 0
      BY <3>1, FS_EmptySet
    <3> QED BY <2>3, <3>2 DEF Inv, LockInv, ListExact
  <2> QED BY <2>2, <2>3
<1> QED BY <1>1, Safe, PTL

(* main collects from a list nobody can touch any more, with every         *)
(* connection closed, and "wrong number" only ever means too many.         *)
THEOREM EndIsClean == Spec => []CleanEnd
<1>1. Inv => CleanEnd
  <2> SUFFICES ASSUME Inv PROVE CleanEnd
    OBVIOUS
  <2>1. ASSUME acceptor = "done"
        PROVE  /\ \A t \in Thread : thread[t] = "done"
               /\ \A fd \in Fd : open[fd] = Nobody
    <3>1. \A t \in Thread : thread[t] = "done"
      BY <2>1, EndOfThreads
    <3> QED BY <3>1 DEF Inv, TableInv
  <2>2. ASSUME main \in Over PROVE Len(list) = count
    <3>1. \A t \in Thread : thread[t] = "done"
      BY <2>2, EndOfThreads DEF Inv, StopInv
    <3>2. count \in Nat
      BY DEF Inv, TypeInv, TypeOK
    <3> QED BY <3>1, <3>2 DEF Inv, LockInv
  <2>3. ASSUME main = "wrong number" PROVE Len(list) > TOTAL
    <3>1. count >= TOTAL /\ count # TOTAL
      BY <2>3 DEF Inv, StopInv, Over
    <3>2. count \in Nat
      BY DEF Inv, TypeInv, TypeOK
    <3>3. count > TOTAL
      BY <3>1, <3>2, Total
    <3>4. Len(list) = count
      BY <2>2, <2>3 DEF Over
    <3> QED BY <3>3, <3>4
  <2>4. main \in {"collect", "all collected"} => Len(list) = TOTAL
    BY <2>2 DEF Over, Inv, StopInv
  <2> QED BY <2>1, <2>3, <2>4 DEF CleanEnd, Inv, StopInv
<1> QED BY <1>1, Safe, PTL

(* However the reads, the appends and the descriptors that are closed and  *)
(* used again interleave, what was read from a client is in the list in    *)
(* the order it was sent, or in the hand of its own thread.                *)
THEOREM NothingLost == Spec => []EverythingKept
<1>1. KeptInv => EverythingKept
  BY DEF KeptInv
<1> QED BY <1>1, SafeData, PTL

(* No thread ever reads another's connection, and a client is cut off      *)
(* before its thread has ended only in the shutdown, by the close() of one *)
(* joined earlier that was reset and had the same descriptor number.       *)
THEOREM CutOffOnlyAtTheEnd == Spec => []CutOffLate
<1>1. Init => EarlyInv /\ CutInv /\ StoppedInv
  <2>1. Init => Thread = {} /\ running
    BY DEF Init, num_clients, Thread
  <2> QED BY <2>1 DEF EarlyInv, CutInv, StoppedInv
<1>2. Inv /\ OwnInv /\ EarlyInv /\ CutInv /\ StoppedInv /\ [Next]_vars
        => (EarlyInv /\ CutInv /\ StoppedInv)'
  BY StepKeepsEarly, StepKeepsCut, StepKeepsStopped
<1>3. Inv /\ OwnInv /\ EarlyInv /\ CutInv /\ StoppedInv => CutOffLate
  <2> SUFFICES ASSUME Inv, OwnInv, EarlyInv, CutInv, StoppedInv, NEW t \in Thread, CutOff(t)
               PROVE  /\ Peer(t) = Nobody /\ ~running /\ count >= TOTAL
                      /\ \E s \in 1..(next - 1) : /\ client_args[s].cfd = client_args[t].cfd
                                                 /\ left[client_args[s].client] = "reset"
    BY DEF CutOffLate
  <2>1. Peer(t) = Nobody /\ acceptor \in Ending
    BY DEF OwnInv, CutOff, Peer
  <2>2. ~running
    BY <2>1 DEF Inv, StopInv, Ending
  <2>3. count >= TOTAL
    BY <2>2 DEF StoppedInv
  <2>4. PICK s \in Thread : s < next /\ client_args[s].cfd = client_args[t].cfd
    BY DEF CutInv
  <2>5. ~(t < next)
    BY DEF Inv, StopInv, CutOff
  <2>6. num_clients \in Nat /\ next \in Nat
    <3>1. next \in 1..(MAX_CLIENTS + 1)
      BY DEF Inv, TypeInv, TypeOK
    <3> QED BY <3>1, ArgsOf, CollectorAssumption DEF Inv
  <2>7. s < t /\ s \in 1..(next - 1)
    BY <2>4, <2>5, <2>6 DEF Thread
  <2>8. left[client_args[s].client] = "reset"
    BY <2>4, <2>7 DEF EarlyInv
  <2> QED BY <2>1, <2>2, <2>3, <2>4, <2>7, <2>8
<1> QED BY <1>1, <1>2, <1>3, Safe, SafeData, PTL DEF Spec

LEMMA CardinalityTo ==
  ASSUME NEW n \in Nat
  PROVE  IsFiniteSet(1..n) /\ Cardinality(1..n) = n
<1>1. 1 \in Int /\ n \in Int /\ (1 > n => n = 0) /\ n - 1 + 1 = n
  OBVIOUS
<1>2. IsFiniteSet(1..n) /\ Cardinality(1..n) = IF 1 > n THEN 0 ELSE n - 1 + 1
  BY <1>1, FS_Interval
<1> QED BY <1>1, <1>2

(* The nodes of the list, by the thread and the number of the message: no  *)
(* two have the same, so TOTAL of them are everything there can be.        *)
LEMMA AllThere ==
  ASSUME Inv, OwnInv, KeptInv, GrowInv, AllWhole, count >= TOTAL,
         NUM_MSG = NUM_MSG_PER_CLIENT
  PROVE  num_clients = MAX_CLIENTS /\ \A t \in Thread : got[client_args[t].client] = 2 * NUM_MSG
<1> DEFINE L == Len(list)
           M == 1..NUM_MSG
           number == [k \in 1..L |-> CHOOSE m \in M : list[k].to = 2 * m]
           owner == [k \in 1..L |-> CHOOSE t \in Thread : client_args[t].client = list[k].client]
           f == [k \in 1..L |-> <<owner[k], number[k]>>]
<1>1. /\ num_clients \in Nat /\ MAX_CLIENTS \in Nat \ {0} /\ NUM_MSG \in Nat \ {0} /\ L \in Nat
      /\ num_clients <= MAX_CLIENTS /\ count \in Nat
  BY ArgsOf, NodeTypes, CollectorAssumption DEF Inv, TypeInv, TypeOK
<1>2. L >= MAX_CLIENTS * NUM_MSG
  <2>1. L = count + (IF \E t \in Thread : thread[t] = "count" THEN 1 ELSE 0)
    BY DEF Inv, LockInv
  <2>2. TOTAL \in Nat /\ TOTAL = MAX_CLIENTS * NUM_MSG
    BY Total DEF TOTAL
  <2>3. L >= count
    BY <1>1, <2>1
  <2> QED BY <1>1, <2>2, <2>3
<1>3. \A k \in 1..L : /\ number[k] \in M /\ list[k].to = 2 * number[k]
                      /\ owner[k] \in Thread /\ client_args[owner[k]].client = list[k].client
  BY DEF GrowInv
<1>4. f \in [1..L -> Thread \X M] /\ \A k \in 1..L : f[k] = <<owner[k], number[k]>>
  BY <1>3
<1> HIDE DEF number, owner, f
<1>5. ASSUME NEW k \in 1..L, NEW m \in 1..L, f[k] = f[m], k < m PROVE FALSE
  <2>1. owner[k] = owner[m] /\ number[k] = number[m]
    BY <1>4, <1>5
  <2>2. list[k].client = list[m].client /\ list[k].to = list[m].to
    BY <1>3, <2>1
  <2>3. list[k].to <= list[m].from /\ list[m].from < list[m].to
    BY <1>5, <2>2 DEF GrowInv
  <2> QED BY <2>2, <2>3, NodeTypes DEF Inv
<1>6. f \in Injection(1..L, Thread \X M)
  <2>1. \A k, m \in 1..L : f[k] = f[m] => k = m
    <3>1. SUFFICES ASSUME NEW k \in 1..L, NEW m \in 1..L, f[k] = f[m], k # m PROVE FALSE
      OBVIOUS
    <3>2. k < m \/ m < k
      BY <1>1, <3>1
    <3> QED BY <1>5, <3>1, <3>2
  <2> QED BY <1>4, <2>1 DEF Injection, IsInjective
<1>7. /\ IsFiniteSet(Thread \X M) /\ Cardinality(Thread \X M) = num_clients * NUM_MSG
      /\ Cardinality(1..L) = L
  <2>1. /\ IsFiniteSet(Thread) /\ Cardinality(Thread) = num_clients
    BY <1>1, CardinalityTo DEF Thread
  <2>2. IsFiniteSet(M) /\ Cardinality(M) = NUM_MSG
    BY <1>1, CardinalityTo
  <2>3. Cardinality(1..L) = L
    BY <1>1, CardinalityTo
  <2> QED BY <2>1, <2>2, <2>3, FS_Product
<1>8. L <= num_clients * NUM_MSG /\ (L = num_clients * NUM_MSG => f \in Surjection(1..L, Thread \X M))
  BY <1>6, <1>7, FS_Injection
<1>9. num_clients = MAX_CLIENTS /\ L = num_clients * NUM_MSG
  <2> HIDE DEF L
  <2>1. num_clients * NUM_MSG <= MAX_CLIENTS * NUM_MSG
    BY <1>1
  <2>2. num_clients * NUM_MSG \in Nat /\ MAX_CLIENTS * NUM_MSG \in Nat
    BY <1>1
  <2>3. L = num_clients * NUM_MSG /\ num_clients * NUM_MSG = MAX_CLIENTS * NUM_MSG
    BY <1>1, <1>2, <1>8, <2>1, <2>2
  <2>4. (MAX_CLIENTS - num_clients) * NUM_MSG = 0
    BY <1>1, <2>3
  <2> QED BY <1>1, <2>3, <2>4
<1>10. ASSUME NEW t \in Thread PROVE got[client_args[t].client] = 2 * NUM_MSG
  <2>1. <<t, NUM_MSG>> \in Thread \X M
    BY <1>1
  <2>2. PICK k \in 1..L : f[k] = <<t, NUM_MSG>>
    BY <1>8, <1>9, <2>1 DEF Surjection
  <2>3. owner[k] = t /\ number[k] = NUM_MSG
    BY <1>4, <2>2
  <2>4. list[k].client = client_args[t].client /\ list[k].to = 2 * NUM_MSG
    BY <1>3, <2>3
  <2>5. PICK c : c = client_args[t].client
    OBVIOUS
  <2>6. c \in Client /\ got[c] \in 0..(2 * NUM_MSG)
    <3>1. client_args[t] \in Args
      BY ArgsOf DEF Inv
    <3> QED BY <2>5, <3>1 DEF Args, Inv, TypeInv, TypeOK
  <2>7. \E half \in Nat : EndsAt(c, L, half) /\ half <= got[c]
    <3>1. Kept(t)
      BY DEF KeptInv, EverythingKept
    <3>2. CASE InHand(t)
      <4>1. piece[t] \in Piece
        BY DEF Inv, TypeInv, TypeOK
      <4>2. piece[t].from \in Nat /\ piece[t].to \in Nat /\ piece[t].from < piece[t].to
        BY <3>2, <4>1 DEF Piece, KeptInv
      <4> QED BY <2>5, <3>1, <3>2, <4>2 DEF Kept
    <3>3. CASE ~InHand(t)
      BY <1>1, <2>5, <2>6, <3>1, <3>3 DEF Kept
    <3> QED BY <3>2, <3>3
  <2>8. 2 * NUM_MSG <= got[c]
    <3>1. PICK half \in Nat : EndsAt(c, L, half) /\ half <= got[c]
      BY <2>7
    <3>2. list[k].to <= half
      BY <2>4, <2>5, <3>1, EndsLast DEF Inv
    <3> QED BY <1>1, <2>4, <2>6, <3>1, <3>2
  <2> QED BY <1>1, <2>5, <2>6, <2>8
<1> QED BY <1>9, <1>10

(* Where the clients send what the server counts on (server.c 18, 73) and  *)
(* TCP does not split what they send, the count that stops main means that *)
(* all of them are there and nothing of theirs is still to be read.        *)
THEOREM NobodyIsShort ==
  ASSUME NUM_MSG = NUM_MSG_PER_CLIENT
  PROVE  Spec => []NobodyShort
<1>1. Inv /\ OwnInv /\ KeptInv /\ GrowInv => NobodyShort
  <2> SUFFICES ASSUME Inv, OwnInv, KeptInv, GrowInv, main \notin {"poll", "look", "died"}, AllWhole
               PROVE  num_clients = MAX_CLIENTS
                      /\ \A t \in Thread : got[client_args[t].client] = 2 * NUM_MSG
    BY DEF NobodyShort
  <2>1. main \in Over \cup {"stop", "join"}
    BY DEF Inv, TypeInv, TypeOK, Over
  <2>2. count >= TOTAL
    BY <2>1 DEF Inv, StopInv
  <2> QED BY <2>2, AllThere
<1> QED BY <1>1, Safe, SafeData, PTL

-----------------------------------------------------------------------------
(* Waiting.  main waits for the mutex and for the acceptor, the acceptor   *)
(* for the thread it joins, and a thread for the mutex: what can move is   *)
(* what the guards of MainProcess, run_acceptor and run_client come to.    *)

MainCanStep ==
  \/ main = "poll" /\ list_mutex = Free
  \/ main \in {"look", "stop", "collect"}
  \/ main = "join" /\ acceptor = "done"

AcceptorCanStep ==
  /\ Alive
  /\ \/ acceptor = "test"
     \/ acceptor = "accept" /\ \A c \in Client : conn[c] # "queued"
     \/ acceptor = "accept" /\ \E f \in Fd : LowestFree(f)
     \/ acceptor = "stop" /\ (next \in Thread \/ next > num_clients)
     \/ acceptor = "join" /\ thread[next] = "done"

CanRead(t) ==
  \/ Peer(t) = Nobody
  \/ left[Peer(t)] = "reset"
  \/ Unread(Peer(t)) = 0
  \/ Unread(Peer(t)) >= IF "split" \in Faults THEN 1 ELSE 2

ThreadCanStep(t) ==
  /\ Alive /\ thread[t] # "done"
  /\ thread[t] = "lock" => list_mutex = Free
  /\ thread[t] = "read" => CanRead(t)

HolderCanStep ==
  \/ list_mutex = Main /\ MainCanStep
  \/ \E t \in Thread : t = list_mutex /\ ThreadCanStep(t)

(* Whoever is joined has been told to stop.                                *)
NeverStuck ==
  Alive =>
    /\ \A t \in Thread : thread[t] # "done" => ThreadCanStep(t) \/ HolderCanStep
    /\ acceptor # "done" =>
         \/ AcceptorCanStep
         \/ acceptor = "join" /\ next \in Thread /\ thread[next] # "done" /\ ~client_args[next].run
    /\ ~Ended =>
         \/ MainCanStep \/ HolderCanStep
         \/ main = "join" /\ acceptor # "done" /\ ~running

(* What holds of those that wait.  Messages are whole as long as no read   *)
(* is cut short.                                                           *)
WholeInv ==
  \A c \in Client : /\ \E k \in Nat : sent[c] = 2 * k
                    /\ "split" \in Faults \/ \E k \in Nat : got[c] = 2 * k

WaitInv ==
  /\ list_mutex = Main => main \in {"look", "died"}
  /\ main = "join" => ~running
  /\ acceptor = "join" => ~client_args[next].run

LEMMA LeastElement ==
  ASSUME NEW T \in SUBSET Nat, T # {}
  PROVE  \E x \in T : \A y \in T : x <= y
<1> DEFINE R == OpToRel(<, Nat)
<1>1. IsWellFoundedOn(R, Nat)
  BY NatLessThanWellFounded
<1>2. \E x \in T : \A y \in T : <<y, x>> \notin R
  <2> HIDE DEF R
  <2> QED BY <1>1, WFMin
<1>3. \A x, y \in T : <<y, x>> \notin R => x <= y
  BY DEF OpToRel
<1> QED BY <1>2, <1>3

(* There are more descriptors than threads, and one that is open is that   *)
(* of a thread: accept() always has one to give.                           *)
LEMMA DescriptorLeft ==
  ASSUME Inv, num_clients < MAX_CLIENTS
  PROVE  \E f \in Fd : LowestFree(f)
<1>1. num_clients \in Nat /\ MAX_CLIENTS \in Nat /\ MAX_CLIENTS + 1 \in Nat
  BY ArgsOf, CollectorAssumption DEF Inv
<1>2. \E f \in Fd : open[f] = Nobody
  <2> SUFFICES ASSUME \A f \in Fd : open[f] # Nobody PROVE FALSE
    OBVIOUS
  <2>1. \A f \in Fd : \E t \in Thread : client_args[t].cfd = f
    BY DEF Inv, TableInv
  <2> DEFINE g == [f \in Fd |-> CHOOSE t \in Thread : client_args[t].cfd = f]
  <2>2. \A f \in Fd : g[f] \in Thread /\ client_args[g[f]].cfd = f
    BY <2>1
  <2>3. g \in [Fd -> Thread]
    BY <2>2
  <2> HIDE DEF g
  <2>4. g \in Injection(Fd, Thread)
    BY <2>2, <2>3 DEF Injection, IsInjective
  <2>5. /\ IsFiniteSet(Thread) /\ Cardinality(Thread) = num_clients
        /\ Cardinality(Fd) = MAX_CLIENTS + 1
    BY <1>1, CardinalityTo DEF Thread, Fd
  <2>6. Cardinality(Fd) <= Cardinality(Thread)
    BY <2>4, <2>5, FS_Injection
  <2> QED BY <1>1, <2>5, <2>6
<1> DEFINE T == {f \in Fd : open[f] = Nobody}
<1>3. T \in SUBSET Nat /\ T # {}
  BY <1>1, <1>2 DEF Fd
<1> HIDE DEF T
<1>4. \E f \in T : \A h \in T : f <= h
  BY <1>3, LeastElement
<1> QED BY <1>4 DEF T, LowestFree

LEMMA StepKeepsWhole ==
  ASSUME Inv, WholeInv, [Next]_vars
  PROVE  WholeInv'
<1>a. /\ sent \in [Client -> Nat] /\ got \in [Client -> Nat]
  <2>1. sent \in [Client -> 0..(2 * NUM_MSG)] /\ got \in [Client -> 0..(2 * NUM_MSG)]
    BY DEF Inv, TypeInv, TypeOK
  <2>2. NUM_MSG \in Nat
    BY CollectorAssumption
  <2>3. 0..(2 * NUM_MSG) \subseteq Nat
    BY <2>2
  <2> QED BY <2>1, <2>3
<1>b. \A k \in Nat : 2 * k + 2 = 2 * (k + 1) /\ k + 1 \in Nat
  OBVIOUS
<1>1. CASE UNCHANGED <<sent, got>>
  BY <1>1 DEF WholeInv
<1>2. ASSUME NEW c \in Client, Send(c), UNCHANGED got
      PROVE  WholeInv'
  <2>1. \A d \in Client : sent'[d] = IF d = c THEN sent[d] + 2 ELSE sent[d]
    BY <1>a, <1>2 DEF Send
  <2>2. PICK k \in Nat : sent[c] = 2 * k
    BY DEF WholeInv
  <2>3. sent'[c] = 2 * (k + 1) /\ k + 1 \in Nat
    BY <1>b, <2>1, <2>2
  <2> QED BY <1>2, <2>1, <2>3 DEF WholeInv
<1>3. ASSUME NEW t \in Thread, Read(t)
      PROVE  WholeInv'
  <2>1. UNCHANGED sent
    BY <1>3 DEF Read, netVars
  <2>2. CASE "split" \in Faults
    BY <2>1, <2>2 DEF WholeInv
  <2>3. CASE "split" \notin Faults
    <3>1. got' = [got EXCEPT ![Peer(t)] = @ + 2]
      <4>1. PICK n \in 1..2 : /\ n < 2 => "split" \in Faults
                              /\ got' = [got EXCEPT ![Peer(t)] = @ + n]
        BY <1>3 DEF Read
      <4>2. n = 2
        BY <2>3, <4>1
      <4> QED BY <4>1, <4>2
    <3>2. ASSUME NEW c \in Client
          PROVE  \E k \in Nat : got'[c] = 2 * k
      <4>1. PICK k \in Nat : got[c] = 2 * k
        BY <2>3 DEF WholeInv
      <4>2. got'[c] = 2 * k \/ got'[c] = 2 * (k + 1)
        BY <1>a, <1>b, <3>1, <4>1
      <4> QED BY <1>b, <4>2
    <3> QED BY <2>1, <3>2 DEF WholeInv
  <2> QED BY <2>2, <2>3
<1>4. CASE MainProcess
  BY <1>1, <1>4 DEF MainProcess, MainLock, MainLook, MainStop, MainJoin, collect_all, netVars
<1>5. CASE run_acceptor
  <2>1. ASSUME NEW c \in Client, Accept(c) PROVE UNCHANGED <<sent, got>>
    BY <2>1 DEF Accept
  <2> QED BY <1>1, <1>5, <2>1 DEF run_acceptor, AcceptorTest, NoConnection, AcceptFails,
             StopClient, JoinClient, AllStopped, netVars
<1>6. ASSUME NEW t \in Thread, run_client(t)
      PROVE  WholeInv'
  BY <1>1, <1>3, <1>6 DEF run_client, LoopTest, ReadNothing, Lock, ReadLast, Link, Count, Close,
                          netVars
<1>7. ASSUME NEW c \in Client, ClientProcess(c)
      PROVE  WholeInv'
  BY <1>1, <1>2, <1>7 DEF ClientProcess, Connect, Leave
<1>8. CASE UNCHANGED vars
  BY <1>1, <1>8 DEF vars
<1> QED BY <1>4, <1>5, <1>6, <1>7, <1>8 DEF Next, Finished

LEMMA StepKeepsWait ==
  ASSUME Inv, WaitInv, [Next]_vars
  PROVE  WaitInv'
<1>a. Free # Main /\ \A t \in Thread : t # Main
  BY ArgsOf, CollectorAssumption DEF Inv, Thread
<1>1. CASE /\ UNCHANGED <<main, running, acceptor, next, client_args>>
           /\ (list_mutex' = Main) => (list_mutex = Main)
  BY <1>1 DEF WaitInv
<1>2. ASSUME NEW t \in Thread, run_client(t)
      PROVE  WaitInv'
  <2>1. UNCHANGED <<main, running, acceptor, next, client_args>>
    BY <1>2, ThreadMoves DEF Moves
  <2>2. list_mutex' \in {t, Free, list_mutex}
    BY <1>2 DEF run_client, LoopTest, Read, ReadNothing, Lock, ReadLast, Link, Count, Close
  <2> QED BY <1>1, <1>a, <2>1, <2>2
<1>3. CASE run_acceptor
  <2>1. UNCHANGED <<running, list_mutex>> /\ main' \in {main, "died"}
    <3>1. ASSUME NEW c \in Client, Accept(c) PROVE UNCHANGED <<running, list_mutex, main>>
      BY <3>1 DEF Accept
    <3> QED BY <1>3, <3>1 DEF run_acceptor, AcceptorTest, NoConnection, AcceptFails, StopClient,
               JoinClient, AllStopped
  <2>2. acceptor' = "join" => ~client_args'[next'].run
    <3>1. CASE StopClient
      <4>1. client_args \in Seq(Args) /\ next \in 1..Len(client_args)
        BY <3>1, ArgsOf DEF Inv, Thread, num_clients, StopClient
      <4>2. client_args' = [client_args EXCEPT ![next].run = FALSE] /\ next' = next
        BY <3>1 DEF StopClient
      <4>3. client_args[next] \in Args
        BY <4>1
      <4>4. client_args'[next].run = FALSE
        BY <4>1, <4>2, <4>3 DEF Args
      <4> QED BY <4>2, <4>4
    <3>2. CASE ~StopClient
      <4>1. ASSUME NEW c \in Client, Accept(c) PROVE acceptor' # "join"
        BY <4>1 DEF Accept
      <4> QED BY <1>3, <3>2, <4>1 DEF run_acceptor, AcceptorTest, NoConnection, AcceptFails,
                 JoinClient, AllStopped, accVars
    <3> QED BY <3>1, <3>2
  <2> QED BY <2>1, <2>2 DEF WaitInv
<1>4. CASE MainProcess
  <2>1. UNCHANGED <<acceptor, next, client_args>>
    BY <1>4 DEF MainProcess, MainLock, MainLook, MainStop, MainJoin, collect_all, accVars
  <2>2. (list_mutex' = Main => main' \in {"look", "died"}) /\ (main' = "join" => ~running')
    BY <1>4, <1>a DEF MainProcess, MainLock, MainLook, MainStop, MainJoin, collect_all, WaitInv
  <2> QED BY <2>1, <2>2 DEF WaitInv
<1>5. ASSUME NEW c \in Client, ClientProcess(c)
      PROVE  WaitInv'
  BY <1>1, <1>5 DEF ClientProcess, accVars
<1>6. CASE UNCHANGED vars
  BY <1>1, <1>6 DEF vars
<1> QED BY <1>2, <1>3, <1>4, <1>5, <1>6 DEF Next, Finished

(* A socket of an accepted connection never blocks its reader.             *)
LEMMA ReadersGoOn ==
  ASSUME Inv, WholeInv, NEW t \in Thread
  PROVE  CanRead(t)
<1>1. Peer(t) \in Client \cup {Nobody}
  BY ArgsOf DEF Inv, TypeInv, TypeOK, Peer
<1>2. CASE Peer(t) \in Client
  <2>1. PICK c \in Client : c = Peer(t)
    BY <1>2
  <2>2. PICK k \in Nat : sent[c] = 2 * k
    BY DEF WholeInv
  <2>3. got[c] <= sent[c] /\ got[c] \in Nat
    <3>1. got[c] \in 0..(2 * NUM_MSG) /\ NUM_MSG \in Nat
      BY CollectorAssumption DEF Inv, TypeInv, TypeOK
    <3> QED BY <3>1 DEF Inv, TypeInv
  <2>4. CASE "split" \in Faults
    BY <2>1, <2>2, <2>3, <2>4 DEF CanRead, Unread
  <2>5. CASE "split" \notin Faults
    <3>1. PICK m \in Nat : got[c] = 2 * m
      BY <2>5 DEF WholeInv
    <3> QED BY <2>1, <2>2, <2>3, <2>5, <3>1 DEF CanRead, Unread
  <2> QED BY <2>4, <2>5
<1> QED BY <1>1, <1>2 DEF CanRead

LEMMA WaitsEnd ==
  ASSUME Inv, WholeInv, WaitInv
  PROVE  NeverStuck
<1> SUFFICES ASSUME Alive PROVE NeverStuck
  BY DEF NeverStuck
<1>1. list_mutex # Free => HolderCanStep
  <2>1. list_mutex \in {Free, Main} \cup Thread
    BY DEF Inv, TypeInv, TypeOK
  <2>2. CASE list_mutex = Main
    BY <2>2 DEF WaitInv, Alive, HolderCanStep, MainCanStep
  <2>3. ASSUME NEW t \in Thread, t = list_mutex
        PROVE  HolderCanStep
    <3>1. thread[t] \in Linking
      BY <2>3 DEF Inv, LockInv
    <3> QED BY <2>3, <3>1 DEF Linking, HolderCanStep, ThreadCanStep
  <2> QED BY <2>1, <2>2, <2>3
<1>2. ASSUME NEW t \in Thread, thread[t] # "done"
      PROVE  ThreadCanStep(t) \/ HolderCanStep
  BY <1>1, <1>2, ReadersGoOn DEF ThreadCanStep
<1>3. ASSUME acceptor # "done"
      PROVE  \/ AcceptorCanStep
             \/ acceptor = "join" /\ next \in Thread /\ thread[next] # "done" /\ ~client_args[next].run
  <2>1. acceptor \in {"test", "accept", "stop", "join"}
    BY <1>3 DEF Inv, TypeInv, TypeOK
  <2>2. CASE acceptor = "test"
    BY <2>2 DEF AcceptorCanStep
  <2>3. CASE acceptor = "accept"
    BY <2>3, DescriptorLeft DEF AcceptorCanStep, Inv, TypeInv
  <2>4. CASE acceptor = "stop"
    <3>1. next \in 1..(MAX_CLIENTS + 1) /\ num_clients \in Nat
      BY ArgsOf DEF Inv, TypeInv, TypeOK
    <3>2. next \in 1..num_clients \/ next > num_clients
      BY <3>1, CollectorAssumption
    <3> QED BY <2>4, <3>2 DEF AcceptorCanStep, Thread
  <2>5. CASE acceptor = "join"
    BY <2>5 DEF AcceptorCanStep, WaitInv, Inv, TypeInv
  <2> QED BY <2>1, <2>2, <2>3, <2>4, <2>5
<1>4. ASSUME ~Ended
      PROVE  \/ MainCanStep \/ HolderCanStep
             \/ main = "join" /\ acceptor # "done" /\ ~running
  <2>1. main \in {"poll", "look", "stop", "join", "collect"}
    BY <1>4 DEF Ended, Inv, TypeInv, TypeOK
  <2> QED BY <1>1, <2>1 DEF MainCanStep, WaitInv
<1> QED BY <1>2, <1>3, <1>4 DEF NeverStuck

(* However the threads interleave, whatever the clients do, and whatever   *)
(* the faults but a failed accept(), nobody waits for ever for somebody    *)
(* who waits: the mutex is held by one who can step, main joins an         *)
(* acceptor it has told to stop, that joins a thread it has told to stop,  *)
(* and every thread that has not ended can step or waits for the mutex;    *)
(* the table of descriptors never fills, and no read blocks                *)
(* (src/lab/server.c).                                                     *)
THEOREM ServerIsNeverStuck == Spec => []NeverStuck
<1>1. Init => WholeInv /\ WaitInv
  <2>1. Init => WaitInv
    BY CollectorAssumption DEF Init, WaitInv
  <2>2. Init => WholeInv
    <3>1. 0 = 2 * 0
      OBVIOUS
    <3> QED BY <3>1 DEF Init, WholeInv
  <2> QED BY <2>1, <2>2
<1>2. Inv /\ WholeInv /\ WaitInv /\ [Next]_vars => (WholeInv /\ WaitInv)'
  BY StepKeepsWhole, StepKeepsWait
<1>3. Inv /\ WholeInv /\ WaitInv => NeverStuck
  BY WaitsEnd
<1> QED BY <1>1, <1>2, <1>3, Safe, PTL DEF Spec

=============================================================================
