------------------------------ MODULE GroupChat ------------------------------
(***************************************************************************)
(* The server of ChatServer with the clients of lecture/test4/client.c in  *)
(* place of arbitrary ones.  A client process has three threads: main, a   *)
(* sender that writes num_messages_to_send messages and then the Type 1    *)
(* line, and a receiver that logs broadcasts until the commit or the end of *)
(* the connection.                                                         *)
(***************************************************************************)
EXTENDS ChatServer

CONSTANTS
  NumMessages,  \* num_messages_to_send
  SockCap       \* bound: messages a client's socket holds before write() blocks

VARIABLES
  cMain,        \* main of client.c
  sender,       \* sender_thread
  nsent,        \* its loop counter i
  receiver,     \* receiver_thread
  got,          \* messages the receiver has taken from the socket
  keep_running  \* of client.c

clientVars == <<cMain, sender, nsent, receiver, got, keep_running>>
gvars == <<vars, clientVars>>

RegularLine == <<"reg", "nl">>
EndLine     == <<"end", "nl">>

ASSUME GroupChatAssumption ==
  /\ NumMessages \in Nat /\ SockCap \in Nat \ {0}
  /\ Expected = Cardinality(Client) /\ MaxClients >= Cardinality(Client)
  /\ 2 + Header <= MaxMsg     \* 28 bytes of 1024 (client.c 16-18, server.c 233-234)
  /\ {RegularLine, EndLine} \subseteq Input /\ MaxSent >= 2 * (NumMessages + 1)
  /\ Faults = {"close"}       \* only the close() at the end of client.c

GInit ==
  /\ Init
  /\ cMain = [c \in Client |-> "start"]
  /\ sender = [c \in Client |-> "idle"]
  /\ nsent = [c \in Client |-> 0]
  /\ receiver = [c \in Client |-> "idle"]
  /\ got = [c \in Client |-> 0]
  /\ keep_running = [c \in Client |-> TRUE]

-----------------------------------------------------------------------------
(* main of the client.                                                     *)

Start(c) ==
  /\ cMain[c] = "start"
  /\ Connect(c)
  /\ cMain' = [cMain EXCEPT ![c] = "join"]
  /\ sender' = [sender EXCEPT ![c] = "loop"]
  /\ receiver' = [receiver EXCEPT ![c] = "run"]
  /\ UNCHANGED <<nsent, got, keep_running>>

(* The receiver has been joined; a sender that still runs is cancelled.    *)
JoinThreads(c) ==
  /\ cMain[c] = "join" /\ receiver[c] = "done"
  /\ cMain' = [cMain EXCEPT ![c] = "close"]
  /\ sender' = [sender EXCEPT ![c] = "done"]
  /\ UNCHANGED <<vars, nsent, receiver, got, keep_running>>

CloseSocket(c) ==
  /\ cMain[c] = "close"
  /\ cMain' = [cMain EXCEPT ![c] = "done"]
  /\ peer' = [peer EXCEPT ![c] = "closed"]
  /\ UNCHANGED <<serverVars, conn, sent, arrived, sender, nsent, receiver, got, keep_running>>

-----------------------------------------------------------------------------
(* sender_thread.                                                          *)

SendMessage_NoNewline(c) ==
  /\ sender[c] = "loop" /\ nsent[c] < NumMessages /\ keep_running[c]
  /\ ClientWrite(c, <<"reg">>)
  /\ nsent' = [nsent EXCEPT ![c] = @ + 1]
  /\ UNCHANGED <<cMain, sender, receiver, got, keep_running>>

SendMessage(c) ==
  /\ sender[c] = "loop" /\ nsent[c] < NumMessages /\ keep_running[c]
  /\ ClientWrite(c, RegularLine)
  /\ nsent' = [nsent EXCEPT ![c] = @ + 1]
  /\ UNCHANGED <<cMain, sender, receiver, got, keep_running>>

(* The loop is over, or getentropy() or convert() failed and it breaks.    *)
LeaveLoop(c) ==
  /\ sender[c] = "loop"
  /\ sender' = [sender EXCEPT ![c] = "end"]
  /\ UNCHANGED <<vars, cMain, nsent, receiver, got, keep_running>>

SendEnd(c) ==
  /\ sender[c] = "end"
  /\ IF keep_running[c] THEN ClientWrite(c, EndLine) ELSE UNCHANGED vars
  /\ sender' = [sender EXCEPT ![c] = "done"]
  /\ UNCHANGED <<cMain, nsent, receiver, got, keep_running>>

-----------------------------------------------------------------------------
(* receiver_thread: one complete message of the socket at a time.          *)

ServerGone(c) == conn[c] = "shut" \/ proc # "up"

Receive(c) ==
  /\ receiver[c] = "run" /\ got[c] < Len(delivered[c])
  /\ got' = [got EXCEPT ![c] = @ + 1]
  /\ IF delivered[c][got[c] + 1] = Commit
       THEN /\ keep_running' = [keep_running EXCEPT ![c] = FALSE]
            /\ receiver' = [receiver EXCEPT ![c] = "done"]
       ELSE UNCHANGED <<keep_running, receiver>>
  /\ UNCHANGED <<vars, cMain, sender, nsent>>

(* read() returns 0 when everything was read, and may fail at once when the *)
(* server closed the connection with input it had not read.                *)
EndOfFile(c) ==
  /\ receiver[c] = "run" /\ ServerGone(c)
  /\ got[c] = Len(delivered[c]) \/ consumed[c] < Len(sent[c])
  /\ receiver' = [receiver EXCEPT ![c] = "done"]
  /\ UNCHANGED <<vars, cMain, sender, nsent, got, keep_running>>

-----------------------------------------------------------------------------
(* The server, whose write() blocks on a full socket.                      *)

Blocked ==
  /\ pcW = "send" /\ wi <= Len(clients)
  /\ peer[clients[wi]] = "up"
  /\ Len(delivered[clients[wi]]) - got[clients[wi]] >= SockCap

ServerMain   == Main /\ UNCHANGED clientVars
ServerWorker == ~Blocked /\ Worker /\ UNCHANGED clientVars
Network(c)   == Arrive(c) /\ UNCHANGED clientVars

ClientMain(c)   == Start(c) \/ JoinThreads(c) \/ CloseSocket(c)
ClientSender(c) == SendMessage(c) \/ LeaveLoop(c) \/ SendEnd(c)
ClientReceiver(c) == Receive(c) \/ EndOfFile(c)

GNext ==
  \/ ServerMain
  \/ ServerWorker
  \/ proc = "up" /\ SpuriousWake /\ UNCHANGED clientVars
  \/ \E c \in Client : Network(c) \/ ClientMain(c) \/ ClientSender(c) \/ ClientReceiver(c)
  \/ Exited /\ UNCHANGED clientVars

GSpec == GInit /\ [][GNext]_gvars

(* The threads are preemptively scheduled and TCP delivers.  A spurious    *)
(* wakeup need not happen, and if they go on for ever, each taking         *)
(* queue_lock, main still gets the lock at some attempt (strong fairness:  *)
(* a mutex gives no order, but it is not an adversary either).             *)
Fairness ==
  /\ SF_gvars(ServerMain) /\ WF_gvars(ServerWorker)
  /\ \A c \in Client : /\ WF_gvars(Network(c)) /\ WF_gvars(ClientMain(c))
                       /\ WF_gvars(ClientSender(c)) /\ WF_gvars(ClientReceiver(c))

GFairSpec == GSpec /\ Fairness

-----------------------------------------------------------------------------
(* Properties.                                                             *)

PhaseTwo == Commit \in {order[n] : n \in 1..Len(order)}

(* The commit is enqueued only when every client has finished sending, and *)
(* every message any of them sent is before it (client.c 55-100, server.c  *)
(* 266-283); so no client writes to a server that has gone.                *)
CommitAfterEverything ==
  PhaseTwo \/ proc # "up" =>
    \A c \in Client : /\ sender[c] = "done"
                      /\ Cardinality(Posted(c)) = nsent[c]

(* A client stops before the server has exited only on the commit: nobody  *)
(* is dropped from a running chat.                                         *)
NobodyDropped ==
  \A c \in Client : receiver[c] = "done" /\ proc = "up" => ~keep_running[c]

(* The two-phase shutdown ends: the server exits and so does every client, *)
(* whether or not the commit reached it.                                   *)
Termination == <>(proc = "exited" /\ \A c \in Client : cMain[c] = "done")

(* With these clients the server does nothing it would not do with         *)
(* arbitrary ones: what is shown of ChatServer holds of the group chat.    *)
RefinesChatServer == Spec

(* What the comment at server.c 278-279 says: the worker exits after it has *)
(* processed the commit message.                                           *)
CommitIsBroadcast == pcW = "done" => frontier = Len(order)

=============================================================================
