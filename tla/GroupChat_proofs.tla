-------------------------- MODULE GroupChat_proofs --------------------------
(***************************************************************************)
(* The server and the clients of lecture/test4 together, for any number of *)
(* clients and messages: what ChatServer proves of arbitrary clients holds *)
(* of client.c, nobody is dropped from a running chat, the commit comes    *)
(* after everything, and they never all wait for each other.               *)
(***************************************************************************)
EXTENDS GroupChat, ChatServer_proofs, FunctionTheorems

(* A client never writes more than its messages and one Type 1 line, and it *)
(* closes a connection it has opened, once.                                *)
SentSoFar(c) == 2 * nsent[c] + (IF sender[c] = "done" THEN 2 ELSE 0)

ClientInv ==
  /\ cMain \in [Client -> {"start", "join", "close", "done"}]
  /\ sender \in [Client -> {"idle", "loop", "end", "done"}]
  /\ nsent \in [Client -> Nat]
  /\ peer \in [Client -> {"up", "closed", "reset"}]
  /\ sent \in [Client -> Seq(Kind)]
  /\ conn \in [Client -> {"none", "backlog", "open", "shut"}]
  /\ \A c \in Client :
       /\ nsent[c] <= NumMessages /\ Len(sent[c]) <= SentSoFar(c)
       /\ cMain[c] # "start" => conn[c] # "none"
       /\ cMain[c] = "start" => sender[c] = "idle"
       /\ cMain[c] # "done" => peer[c] = "up"

LEMMA Bounds ==
  /\ NumMessages \in Nat /\ MaxSent \in Nat /\ MaxSent >= 2 * (NumMessages + 1)
  /\ RegularLine \in Input /\ EndLine \in Input /\ "close" \in Faults
  /\ "malloc" \notin Faults
BY ConstantsAssumption, GroupChatAssumption

LEMMA Sizes ==
  /\ IsFiniteSet(Client) /\ Expected = Cardinality(Client) /\ Cardinality(Client) \in Nat
  /\ MaxClients \in Nat /\ MaxClients >= Cardinality(Client)
  /\ Header \in Nat /\ MaxMsg \in Nat /\ 2 + Header <= MaxMsg
  /\ Faults = {"close"}
BY ConstantsAssumption, GroupChatAssumption, FS_CardinalityType

LEMMA LineTypes ==
  /\ RegularLine \in Seq(Kind) /\ Len(RegularLine) = 2
  /\ EndLine \in Seq(Kind) /\ Len(EndLine) = 2
BY DEF RegularLine, EndLine, Kind

(* A client's write() adds two bytes to what it has sent.                  *)
LEMMA WriteAdds ==
  ASSUME ClientInv, NEW c \in Client, NEW s \in Seq(Kind), Len(s) = 2, ClientWrite(c, s)
  PROVE  /\ sent' \in [Client -> Seq(Kind)]
         /\ Len(sent'[c]) = Len(sent[c]) + 2
         /\ \A d \in Client : d # c => sent'[d] = sent[d]
         /\ UNCHANGED <<peer, conn>>
<1>1. sent' = [sent EXCEPT ![c] = @ \o s] /\ UNCHANGED <<peer, conn>>
      BY DEF ClientWrite
<1>3. sent[c] \in Seq(Kind)
      BY DEF ClientInv
<1>2. sent[c] \o s \in Seq(Kind) /\ Len(sent[c] \o s) = Len(sent[c]) + Len(s)
      BY <1>3, ConcatProperties
<1> QED BY <1>1, <1>2 DEF ClientInv

(* The server never touches the clients' ends, and a connection it has once *)
(* had stays one.                                                          *)
LEMMA ServerLeavesClients ==
  ASSUME Main \/ Worker \/ (proc = "up" /\ SpuriousWake), ClientInv
  PROVE  /\ UNCHANGED <<peer, sent>>
         /\ conn' \in [Client -> {"none", "backlog", "open", "shut"}]
         /\ \A c \in Client : conn[c] # "none" => conn'[c] # "none"
<1> USE DEF mainVars, workerVars, queueVars, sockIn, socketVars, mainAndBuf, ClientInv
<1>1. CASE UNCHANGED <<peer, sent, conn>>
      BY <1>1
<1>2. CASE \E c \in Client : Accept(c) \/ Reject(c)
  <2>1. PICK c \in Client : Accept(c) \/ Reject(c)
        BY <1>2
  <2>2. /\ conn' = [conn EXCEPT ![c] = "open"] \/ conn' = [conn EXCEPT ![c] = "shut"]
        /\ UNCHANGED <<peer, sent>>
        BY <2>1 DEF Accept, Reject
  <2> QED BY <2>2
<1>3. CASE remove_client \/ CloseAndExit
      BY <1>3 DEF remove_client, CloseAndExit
<1> QED BY <1>1, <1>2, <1>3
        DEF Main, Worker, WorkerStep, WakeUp, SpuriousWake, Awake,
            LoopTest, Select, SelectFails, AcceptFails, LockClients, NextSlot, LastSlot,
            ReadData, ReadEnds, Relock, NoLine, Regular, enqueue_message, Finish, Discard,
            EnqueueCommit, StopRunning, WakeWorker, JoinWorker, WorkerTest, LockQueue,
            TestQueue, Dequeue, CondWait, LockList, Write, WriteKills, EndBroadcast

LEMMA InitClientInv == GInit => ClientInv
BY Bounds DEF GInit, Init, ClientInv, SentSoFar

LEMMA StepClientInv ==
  ASSUME ClientInv, [GNext]_gvars
  PROVE  ClientInv'
<1> USE DEF clientVars, SentSoFar
<1>1. CASE ServerMain \/ ServerWorker \/ (proc = "up" /\ SpuriousWake /\ UNCHANGED clientVars)
  <2>1. UNCHANGED clientVars /\ (Main \/ Worker \/ (proc = "up" /\ SpuriousWake))
        BY <1>1 DEF ServerMain, ServerWorker
  <2> QED BY <2>1, ServerLeavesClients DEF ClientInv
<1>2. ASSUME NEW c \in Client, Network(c)
      PROVE  ClientInv'
      BY <1>2 DEF Network, Arrive, ClientInv
<1>3. ASSUME NEW c \in Client, Start(c)
      PROVE  ClientInv'
      BY <1>3 DEF Start, Connect, ClientInv
<1>4. ASSUME NEW c \in Client, JoinThreads(c) \/ CloseSocket(c)
      PROVE  ClientInv'
  <2>1. CASE JoinThreads(c)
        BY <1>4, <2>1 DEF JoinThreads, ClientInv, vars
  <2>2. CASE CloseSocket(c)
        BY <1>4, <2>2 DEF CloseSocket, ClientInv
  <2> QED BY <1>4, <2>1, <2>2
<1>5. ASSUME NEW c \in Client, SendMessage(c)
      PROVE  ClientInv'
      BY <1>5, LineTypes, Bounds, WriteAdds DEF SendMessage, ClientInv
<1>6. ASSUME NEW c \in Client, SendEnd(c)
      PROVE  ClientInv'
      BY <1>6, LineTypes, Bounds, WriteAdds DEF SendEnd, ClientInv, vars
<1>7. ASSUME NEW c \in Client, LeaveLoop(c) \/ ClientReceiver(c)
      PROVE  ClientInv'
      BY <1>7 DEF LeaveLoop, ClientReceiver, Receive, EndOfFile, ClientInv, vars
<1>8. CASE UNCHANGED gvars
      BY <1>8 DEF gvars, vars, ClientInv
<1> QED BY <1>1, <1>2, <1>3, <1>4, <1>5, <1>6, <1>7, <1>8
        DEF GNext, ClientMain, ClientSender, Exited, gvars

(* Every step of a client is one the server's specification allows a client *)
(* or one the server cannot see.                                           *)
LEMMA StepRefinesChatServer ==
  ASSUME ClientInv, [GNext]_gvars
  PROVE  [Next]_vars
<1>1. ASSUME NEW c \in Client, SendMessage(c)
      PROVE  Next
  <2>3. /\ nsent[c] \in Nat /\ nsent[c] < NumMessages /\ sender[c] # "done"
        /\ Len(sent[c]) <= SentSoFar(c)
        BY <1>1 DEF SendMessage, ClientInv
  <2>4. sent[c] \in Seq(Kind)
        BY DEF ClientInv
  <2>2. Len(sent[c]) \in Nat /\ Len(sent[c]) <= 2 * nsent[c]
        BY <2>3, <2>4 DEF SentSoFar
  <2>1. Len(sent[c]) + Len(RegularLine) <= MaxSent
        BY <2>2, <2>3, Bounds, LineTypes
  <2> QED BY <1>1, <2>1, Bounds DEF SendMessage, Next, Environment
<1>2. ASSUME NEW c \in Client, SendEnd(c)
      PROVE  Next \/ UNCHANGED vars
  <2>3. /\ nsent[c] \in Nat /\ nsent[c] <= NumMessages /\ sender[c] # "done"
        /\ Len(sent[c]) <= SentSoFar(c)
        BY <1>2 DEF SendEnd, ClientInv
  <2>4. sent[c] \in Seq(Kind)
        BY DEF ClientInv
  <2>2. Len(sent[c]) \in Nat /\ Len(sent[c]) <= 2 * nsent[c]
        BY <2>3, <2>4 DEF SentSoFar
  <2>1. Len(sent[c]) + Len(EndLine) <= MaxSent
        BY <2>2, <2>3, Bounds, LineTypes
  <2> QED BY <1>2, <2>1, Bounds DEF SendEnd, Next, Environment
<1>3. ASSUME NEW c \in Client, CloseSocket(c)
      PROVE  Next
  <2>1. ClientClose(c)
        BY <1>3, Bounds DEF CloseSocket, ClientClose, ClientInv
  <2> QED BY <2>1 DEF Next, Environment
<1> QED BY <1>1, <1>2, <1>3
        DEF GNext, gvars, ServerMain, ServerWorker, Network, ClientMain, ClientSender,
            ClientReceiver, Start, JoinThreads, LeaveLoop, Receive, EndOfFile, Next, Environment

(* With the clients of client.c the server does nothing that it would not  *)
(* do with arbitrary clients.                                              *)
THEOREM ClientsAreClients == GSpec => RefinesChatServer
<1>1. GInit => Init
      BY DEF GInit
<1>2. ClientInv /\ [GNext]_gvars => ClientInv'
      BY StepClientInv
<1>3. ClientInv /\ [GNext]_gvars => [Next]_vars
      BY StepRefinesChatServer
<1> QED BY <1>1, <1>2, <1>3, InitClientInv, PTL DEF GSpec, Spec, RefinesChatServer

(* The whole of lecture/test4 is an ordered broadcast: every client gets a *)
(* contiguous piece of one sequence that the commit ends; and its worker   *)
(* never sleeps through the shutdown.                                      *)
THEOREM GroupChatCorrect ==
  GSpec => RefinesOrderedBroadcast /\ [](BroadcastExact /\ RosterExact /\ NoLostWakeup)
<1>1. Spec => []NoLostWakeup
      BY Bounds, NeverSleepsOverWork
<1> QED BY <1>1, ClientsAreClients, ImplementsOrderedBroadcast, ServerIsABroadcast, RosterCorrect, PTL
        DEF RefinesChatServer

-----------------------------------------------------------------------------
(* What a client of client.c writes.                                       *)

(* n messages and then perhaps the Type 1 line.                            *)
Stream(s, n) ==
  /\ Len(s) = 2 * n \/ Len(s) = 2 * n + 2
  /\ \A k \in 1..n : s[2 * k - 1] = "reg" /\ s[2 * k] = "nl"
  /\ Len(s) = 2 * n + 2 => s[2 * n + 1] = "end" /\ s[2 * n + 2] = "nl"

LEMMA StreamStarts == Stream(<<>>, 0)
BY DEF Stream

LEMMA StreamGrows ==
  ASSUME NEW s \in Seq(Kind), NEW n \in Nat, Stream(s, n), Len(s) = 2 * n
  PROVE  /\ Stream(s \o RegularLine, n + 1) /\ Len(s \o RegularLine) = 2 * (n + 1)
         /\ Stream(s \o EndLine, n) /\ Len(s \o EndLine) = 2 * n + 2
<1>1. \A k \in 1..n : 2 * k - 1 \in 1..Len(s) /\ 2 * k \in 1..Len(s)
      OBVIOUS
<1>2. ASSUME NEW t \in Seq(Kind), Len(t) = 2
      PROVE  /\ Len(s \o t) = 2 * n + 2
             /\ \A k \in 1..n : (s \o t)[2 * k - 1] = "reg" /\ (s \o t)[2 * k] = "nl"
             /\ (s \o t)[2 * n + 1] = t[1] /\ (s \o t)[2 * n + 2] = t[2]
  <2>1. /\ Len(s \o t) = Len(s) + Len(t)
        /\ \A k \in 1..Len(s) : (s \o t)[k] = s[k]
    <3>1. Len(s) \in Nat /\ Len(t) \in Nat
          BY LenProperties
    <3>2. /\ Len(s \o t) = Len(s) + Len(t)
          /\ \A k \in 1..(Len(s) + Len(t)) :
               (s \o t)[k] = IF k <= Len(s) THEN s[k] ELSE t[k - Len(s)]
          BY ConcatProperties
    <3> QED BY <3>1, <3>2
  <2>3. (s \o t)[2 * n + 1] = t[1] /\ (s \o t)[2 * n + 2] = t[2]
    <3>1. \A k \in 1..(Len(s) + Len(t)) :
            (s \o t)[k] = IF k <= Len(s) THEN s[k] ELSE t[k - Len(s)]
          BY <1>2, ConcatProperties
    <3>2. /\ 2 * n + 1 \in 1..(Len(s) + Len(t)) /\ 2 * n + 2 \in 1..(Len(s) + Len(t))
          /\ 2 * n + 1 > Len(s) /\ 2 * n + 2 > Len(s)
          /\ 2 * n + 1 - Len(s) = 1 /\ 2 * n + 2 - Len(s) = 2
          BY <1>2
    <3> QED BY <3>1, <3>2
  <2>2. \A k \in 1..n : s[2 * k - 1] = "reg" /\ s[2 * k] = "nl"
        BY DEF Stream
  <2> QED BY <1>1, <1>2, <2>1, <2>2, <2>3
<1>3. RegularLine \in Seq(Kind) /\ Len(RegularLine) = 2
      /\ RegularLine[1] = "reg" /\ RegularLine[2] = "nl"
      BY LineTypes DEF RegularLine
<1>4. EndLine \in Seq(Kind) /\ Len(EndLine) = 2 /\ EndLine[1] = "end" /\ EndLine[2] = "nl"
      BY LineTypes DEF EndLine
<1>5. Stream(s \o RegularLine, n + 1) /\ Len(s \o RegularLine) = 2 * (n + 1)
      BY <1>2, <1>3 DEF Stream
<1>6. Stream(s \o EndLine, n) /\ Len(s \o EndLine) = 2 * n + 2
      BY <1>2, <1>4 DEF Stream
<1> QED BY <1>5, <1>6

(* Newlines are at the even places, types at the odd ones.                 *)
LEMMA StreamBytes ==
  ASSUME NEW s \in Seq(Kind), NEW n \in Nat, Stream(s, n), NEW p \in 1..Len(s)
  PROVE  /\ s[p] = "reg" => \E k \in 1..n : p = 2 * k - 1
         /\ s[p] = "nl" <=> \E k \in 1..(n + 1) : p = 2 * k
         /\ s[p] = "end" => p = 2 * n + 1 /\ Len(s) = 2 * n + 2
<1>1. Len(s) \in Nat /\ (Len(s) = 2 * n \/ Len(s) = 2 * n + 2)
      BY LenProperties DEF Stream
<1>2. PICK k \in 1..(n + 1) : p = 2 * k - 1 \/ p = 2 * k
  <2>1. p \in 1..(2 * n + 2)
        BY <1>1
  <2>2. (p + 1) \div 2 \in 1..(n + 1)
        /\ (p = 2 * ((p + 1) \div 2) - 1 \/ p = 2 * ((p + 1) \div 2))
        BY <2>1
  <2> QED BY <2>2
<1>3. CASE p = 2 * k
  <2>1. s[p] = "nl"
        BY <1>1, <1>3 DEF Stream
  <2> QED BY <1>3, <2>1
<1>4. CASE p = 2 * k - 1 /\ k \in 1..n
  <2>1. s[p] = "reg"
        BY <1>4 DEF Stream
  <2>2. \A h \in 1..(n + 1) : p # 2 * h
        BY <1>4
  <2> QED BY <1>4, <2>1, <2>2
<1>5. CASE p = 2 * k - 1 /\ k = n + 1
  <2>1. s[p] = "end" /\ p = 2 * n + 1 /\ Len(s) = 2 * n + 2
        BY <1>1, <1>5 DEF Stream
  <2>2. \A h \in 1..(n + 1) : p # 2 * h
        BY <1>5
  <2> QED BY <2>1, <2>2
<1> QED BY <1>2, <1>3, <1>4, <1>5

(* The lines of a prefix: each message is one, and the Type 1 line.        *)
LEMMA StreamLines ==
  ASSUME NEW s \in Seq(Kind), NEW n \in Nat, Stream(s, n), NEW m \in 0..Len(s)
  PROVE  /\ \A l \in EndLines(SubSeq(s, 1, m)) :
              l = <<2 * n + 1, 2 * n + 2>> /\ m = 2 * n + 2
         /\ m >= 2 * n => Cardinality(RegularLines(SubSeq(s, 1, m))) = n
<1> DEFINE p == SubSeq(s, 1, m)
           f == [k \in 1..n |-> <<2 * k - 1, 2 * k>>]
<1>1. p \in Seq(Kind) /\ Len(p) = m /\ \A k \in 1..m : p[k] = s[k]
      BY Prefix
<1>2. m \in Nat /\ m <= Len(s) /\ Len(s) \in Nat /\ (Len(s) = 2 * n \/ Len(s) = 2 * n + 2)
      BY LenProperties DEF Stream
<1> HIDE DEF p
<1>3. ASSUME NEW l \in EndLines(p)
      PROVE  l = <<2 * n + 1, 2 * n + 2>> /\ m = 2 * n + 2
  <2>1. /\ l = <<l[1], l[2]>> /\ l[1] \in 1..m /\ l[2] \in 1..m
        /\ p[l[1]] = "end" /\ l[2] = l[1] + 1
        BY <1>1, <1>3, LineElements DEF EndLines
  <2>2. PICK a \in 1..Len(s) : a = l[1] /\ s[a] = "end"
        BY <1>1, <1>2, <2>1
  <2>3. a = 2 * n + 1 /\ Len(s) = 2 * n + 2
        BY <2>2, StreamBytes
  <2> QED BY <1>2, <2>1, <2>2, <2>3
<1>4. ASSUME m >= 2 * n
      PROVE  Cardinality(RegularLines(p)) = n
  <2>1. ASSUME NEW k \in 1..n
        PROVE  <<2 * k - 1, 2 * k>> \in RegularLines(p)
    <3>1. 2 * k - 1 \in 1..m /\ 2 * k \in 1..m
          BY <1>2, <1>4
    <3>2. p[2 * k - 1] = "reg" /\ p[2 * k] = "nl"
          BY <1>1, <3>1 DEF Stream
    <3>3. 2 * k - 1 = 1 \/ p[2 * k - 1 - 1] = "nl"
      <4>1. CASE k > 1
        <5>1. k - 1 \in 1..n /\ 2 * (k - 1) = 2 * k - 1 - 1 /\ 2 * k - 1 - 1 \in 1..m
              BY <3>1, <4>1
        <5> QED BY <1>1, <5>1 DEF Stream
      <4> QED BY <4>1
    <3>4. \A j \in (2 * k - 1)..(2 * k - 1) : p[j] # "nl"
          BY <3>2
    <3>5. <<2 * k - 1, 2 * k>> \in Lines(p)
      <4>1. PICK a \in 1..m, b \in 1..m : a = 2 * k - 1 /\ b = 2 * k
            BY <3>1
      <4>2. /\ a <= b /\ p[b] = "nl" /\ (a = 1 \/ p[a - 1] = "nl")
            /\ \A j \in a..(b - 1) : p[j] # "nl"
            BY <3>2, <3>3, <3>4, <4>1
      <4>3. <<a, b>> \in Lines(p)
            BY <1>1, <4>2, LineElements
      <4> QED BY <4>1, <4>3
    <3>6. 2 * k - (2 * k - 1) + 1 + Header <= MaxMsg
          BY Sizes
    <3> QED BY <3>2, <3>5, <3>6 DEF RegularLines
  <2>2. ASSUME NEW l \in RegularLines(p)
        PROVE  \E k \in 1..n : l = <<2 * k - 1, 2 * k>>
    <3>1. /\ l = <<l[1], l[2]>> /\ l[1] \in 1..m /\ l[2] \in 1..m /\ l[1] <= l[2]
          /\ p[l[1]] = "reg" /\ p[l[2]] = "nl"
          /\ \A j \in l[1]..(l[2] - 1) : p[j] # "nl"
      <4>1. l \in Lines(p) /\ p[l[1]] = "reg"
            BY <2>2 DEF RegularLines
      <4> QED BY <1>1, <4>1, LineElements
    <3>2. PICK k \in 1..n : l[1] = 2 * k - 1
      <4>1. PICK a \in 1..Len(s) : a = l[1] /\ s[a] = "reg"
            BY <1>1, <1>2, <3>1
      <4>2. \E k \in 1..n : a = 2 * k - 1
            BY <4>1, StreamBytes
      <4> QED BY <4>1, <4>2
    <3>3. p[2 * k] = "nl" /\ 2 * k \in 1..m
          BY <1>1, <1>2, <1>4, <3>2 DEF Stream
    <3>4. l[2] = 2 * k
      <4>1. PICK a \in 1..m, b \in 1..m : a = l[1] /\ b = l[2]
            BY <3>1
      <4>2. /\ a <= b /\ a = 2 * k - 1 /\ p[a] = "reg" /\ p[b] = "nl"
            /\ \A j \in a..(b - 1) : p[j] # "nl"
            BY <3>1, <3>2, <4>1
      <4>3. a # b
            BY <4>2
      <4>4. ~(2 * k \in a..(b - 1))
            BY <3>3, <4>2
      <4>5. b = 2 * k
            BY <4>2, <4>3, <4>4
      <4> QED BY <4>1, <4>5
    <3> QED BY <3>1, <3>2, <3>4
  <2>3. f \in Bijection(1..n, RegularLines(p))
    <3>1. f \in [1..n -> RegularLines(p)] /\ \A k \in 1..n : f[k] = <<2 * k - 1, 2 * k>>
          BY <2>1
    <3>2. \A j, k \in 1..n : <<2 * j - 1, 2 * j>> = <<2 * k - 1, 2 * k>> => j = k
          OBVIOUS
    <3>3. \A l \in RegularLines(p) : \E k \in 1..n : f[k] = l
          BY <2>2, <3>1
    <3> HIDE DEF f
    <3>4. f \in Injection(1..n, RegularLines(p))
          BY <3>1, <3>2, Fun_IsInj
    <3>5. f \in Surjection(1..n, RegularLines(p))
          BY <3>1, <3>3, Fun_IsSurj
    <3> QED BY <3>4, <3>5 DEF Bijection
  <2>4. IsFiniteSet(1..n) /\ Cardinality(1..n) = n
    <3>1. n \in Int /\ 1 \in Int
          OBVIOUS
    <3> QED BY <3>1, FS_Interval
  <2>5. ExistsBijection(1..n, RegularLines(p))
        BY <2>3 DEF ExistsBijection
  <2> QED BY <2>4, <2>5, FS_Bijection
<1> QED BY <1>3, <1>4 DEF p

-----------------------------------------------------------------------------
(* What the server's slots hold of such streams.                           *)

StreamInv ==
  \A c \in Client : /\ Stream(sent[c], nsent[c])
                    /\ Len(sent[c]) = 2 * nsent[c] + 2 => sender[c] = "done"

(* A buffer without a newline has at most the type of the next message.    *)
LEMMA ShortBuffer ==
  ASSUME TypeOK, NEW i \in 1..Len(clients), SlotInv(i), ~HasLine(buf[i]),
         NEW n \in Nat, Stream(sent[clients[i]], n)
  PROVE  Len(buf[i]) <= 1
<1>1. PICK s \in Seq(Kind) : s = sent[clients[i]]
      BY SlotTypes
<1>2. PICK m : m = Offset(i)
      OBVIOUS
<1>3. /\ m \in 0..Len(s) /\ Len(s) \in Nat /\ Len(buf[i]) \in Nat
      /\ m + Len(buf[i]) <= Len(s)
  <2>1. m \in 0..Len(s) /\ Len(s) \in Nat
        BY <1>1, <1>2, OffsetTypes, LenProperties
  <2>2. /\ Len(buf[i]) \in Nat /\ consumed[clients[i]] \in Nat
        /\ consumed[clients[i]] <= Len(s) /\ m = consumed[clients[i]] - Len(buf[i])
        BY <1>1, <1>2, SlotTypes DEF Offset
  <2> QED BY <2>1, <2>2
<1>4. m = 0 \/ s[m] = "nl"
      BY <1>1, <1>2 DEF SlotInv
<1>5. \A k \in 1..Len(buf[i]) : buf[i][k].kind = s[m + k]
      BY <1>1, <1>2 DEF SlotInv
<1>6. PICK k \in 0..(n + 1) : m = 2 * k
  <2>1. CASE m \in 1..Len(s) /\ s[m] = "nl"
    <3>1. \E k \in 1..(n + 1) : m = 2 * k
          BY <1>1, <2>1, StreamBytes
    <3> QED BY <3>1
  <2> QED BY <1>3, <1>4, <2>1
<1>7. ASSUME Len(buf[i]) >= 2
      PROVE  FALSE
  <2>1. PICK p \in 1..Len(s) : p = m + 2
        BY <1>3, <1>7
  <2>2. s[p] = "nl"
    <3>1. Len(s) \in Nat /\ (Len(s) = 2 * n \/ Len(s) = 2 * n + 2)
          BY <1>1, <1>3 DEF Stream
    <3>2. k + 1 \in 1..(n + 1) /\ p = 2 * (k + 1)
          BY <1>6, <2>1, <3>1
    <3> QED BY <1>1, <3>2, StreamBytes
  <2>3. 2 \in 1..Len(buf[i])
        BY <1>3, <1>7
  <2>4. buf[i][2].kind = s[m + 2]
        BY <1>5, <2>3
  <2>5. buf[i][2].kind = "nl"
        BY <2>1, <2>2, <2>4
  <2> QED BY <2>3, <2>5 DEF HasLine
<1> QED BY <1>3, <1>7

(* A client whose Type 1 line has been taken, or is first in its buffer,   *)
(* has written it, and all its messages have been taken.                   *)
LEMMA EndedSlot ==
  ASSUME TypeOK, NEW i \in 1..Len(clients), SlotInv(i),
         NEW n \in Nat, Stream(sent[clients[i]], n)
  PROVE  /\ \A l \in EndLines(Processed(i)) : l = <<2 * n + 1, 2 * n + 2>>
         /\ EndsExecution(buf[i]) => EndLines(Processed(i)) = {}
         /\ EndLines(Processed(i)) # {} \/ EndsExecution(buf[i]) =>
              /\ Len(sent[clients[i]]) = 2 * n + 2
              /\ Cardinality(RegularLines(Processed(i))) = n
<1>1. PICK s \in Seq(Kind) : s = sent[clients[i]]
      BY SlotTypes
<1>2. PICK m \in 0..Len(s) : m = Offset(i) /\ Processed(i) = SubSeq(s, 1, m)
      BY <1>1, OffsetTypes
<1>3. Len(s) \in Nat /\ (Len(s) = 2 * n \/ Len(s) = 2 * n + 2)
      BY <1>1, LenProperties DEF Stream
<1>4. /\ \A l \in EndLines(Processed(i)) : l = <<2 * n + 1, 2 * n + 2>> /\ m = 2 * n + 2
      /\ m >= 2 * n => Cardinality(RegularLines(Processed(i))) = n
      BY <1>1, <1>2, StreamLines
<1>5. ASSUME EndsExecution(buf[i])
      PROVE  m = 2 * n /\ Len(s) = 2 * n + 2
  <2>1. buf[i] \in Seq(Byte) /\ LineLen(buf[i]) \in 1..Len(buf[i]) /\ buf[i][1].kind = "end"
        BY <1>5, SlotTypes, LineLenIsFirstNewline DEF EndsExecution
  <2>2. Len(buf[i]) \in Nat /\ Len(buf[i]) >= 1
        BY <2>1, LenProperties
  <2>3. s[m + 1] = "end"
        BY <1>1, <1>2, <2>1, <2>2 DEF SlotInv
  <2>4. m + 1 \in 1..Len(s)
    <3>1. consumed[clients[i]] \in Nat /\ consumed[clients[i]] <= Len(s)
          /\ m = consumed[clients[i]] - Len(buf[i])
          BY <1>1, <1>2, SlotTypes DEF Offset
    <3> QED BY <1>3, <2>2, <3>1
  <2>5. PICK p \in 1..Len(s) : p = m + 1
        BY <2>4
  <2>6. p = 2 * n + 1 /\ Len(s) = 2 * n + 2
        BY <1>1, <2>3, <2>5, StreamBytes
  <2> QED BY <2>5, <2>6
<1> QED BY <1>1, <1>2, <1>3, <1>4, <1>5

(* When main is about to enqueue the commit, the Type 1 line of every      *)
(* client has been taken, but for the one in the slot it is in: it has     *)
(* counted as many as there are clients, and no client twice.              *)
LEMMA EverybodyEnded ==
  ASSUME IInv, LinesInv, ClientInv, StreamInv, NobodyRemoved, pcM = "commit", NEW c \in Client
  PROVE  \E i \in 1..Len(clients) :
           clients[i] = c /\ (EndsExecution(buf[i]) \/ EndLines(Processed(i)) # {})
<1> SUFFICES ASSUME \A i \in 1..Len(clients) : clients[i] = c =>
                      ~EndsExecution(buf[i]) /\ EndLines(Processed(i)) = {}
             PROVE  FALSE
    OBVIOUS
<1>0. TypeOK /\ IndexInv /\ RosterExact /\ SlotsInv /\ LastInv /\ EndedInv
      BY DEF IInv, LinesInv
<1>1. PICK j \in 1..Len(clients) : j = slot
      BY <1>0, HandledSlot
<1>2. EndsExecution(buf[j]) /\ finished = Cardinality(Client)
      BY <1>0, <1>1, Sizes DEF LastInv, Stopping
<1>3. IsFiniteSet(Ended) /\ finished = Cardinality(Ended) + 1
      BY <1>0 DEF EndedInv, Stopping
<1>4. \A i \in 1..Len(clients) :
        /\ SlotInv(i) /\ clients[i] \in Client /\ nsent[clients[i]] \in Nat
        /\ Stream(sent[clients[i]], nsent[clients[i]])
      BY <1>0, SlotTypes DEF SlotsInv, StreamInv, ClientInv
<1>5. PICK d \in Client : d = clients[j] /\ d # c
      BY <1>1, <1>2, <1>4
<1> DEFINE f == [x \in Ended |-> clients[x[1]]]
           T == (Client \ {c}) \ {d}
<1>6. \A x \in Ended : \E i \in 1..Len(clients) :
        /\ x = <<i, <<2 * nsent[clients[i]] + 1, 2 * nsent[clients[i]] + 2>>>>
        /\ clients[i] \in T
  <2> SUFFICES ASSUME NEW x \in Ended
               PROVE  \E i \in 1..Len(clients) :
                        /\ x = <<i, <<2 * nsent[clients[i]] + 1, 2 * nsent[clients[i]] + 2>>>>
                        /\ clients[i] \in T
      OBVIOUS
  <2>1. PICK i \in 1..Len(clients) : \E l \in EndLines(Processed(i)) : x = <<i, l>>
        BY EndedElements
  <2>2. PICK l \in EndLines(Processed(i)) : x = <<i, l>>
        BY <2>1
  <2>3. l = <<2 * nsent[clients[i]] + 1, 2 * nsent[clients[i]] + 2>>
        BY <1>0, <1>4, <2>2, EndedSlot
  <2>4. i # j
        BY <1>0, <1>2, <1>4, <2>2, EndedSlot
  <2>5. clients[i] # d
        BY <1>0, <1>5, <2>4 DEF RosterExact
  <2>6. clients[i] # c
        BY <2>2
  <2> QED BY <1>4, <2>2, <2>3, <2>5, <2>6
<1>7. \A x \in Ended : f[x] = clients[x[1]]
      OBVIOUS
<1>8. f \in [Ended -> T]
  <2>1. \A x \in Ended : clients[x[1]] \in T
        BY <1>6
  <2> QED BY <2>1
<1> HIDE DEF f, T
<1>9. \A x, y \in Ended : f[x] = f[y] => x = y
  <2> SUFFICES ASSUME NEW x \in Ended, NEW y \in Ended, f[x] = f[y]
               PROVE  x = y
      OBVIOUS
  <2>1. PICK i \in 1..Len(clients) :
          x = <<i, <<2 * nsent[clients[i]] + 1, 2 * nsent[clients[i]] + 2>>>>
        BY <1>6
  <2>2. PICK h \in 1..Len(clients) :
          y = <<h, <<2 * nsent[clients[h]] + 1, 2 * nsent[clients[h]] + 2>>>>
        BY <1>6
  <2>3. clients[i] = clients[h]
        BY <1>7, <2>1, <2>2
  <2>4. i = h
        BY <1>0, <2>3 DEF RosterExact
  <2> QED BY <2>1, <2>2, <2>4
<1>10. f \in Injection(Ended, T)
       BY <1>8, <1>9, Fun_IsInj
<1>11. IsFiniteSet(T) /\ Cardinality(T) = Cardinality(Client) - 1 - 1
  <2>1. IsFiniteSet(Client \ {c}) /\ Cardinality(Client \ {c}) = Cardinality(Client) - 1
        BY Sizes, FS_RemoveElement
  <2>2. d \in Client \ {c}
        BY <1>5
  <2> QED BY <2>1, <2>2, FS_RemoveElement DEF T
<1>12. Cardinality(Ended) <= Cardinality(T)
       BY <1>10, <1>11, FS_Injection
<1>13. PICK e \in Nat, k \in Nat : e = Cardinality(Ended) /\ k = Cardinality(Client)
       BY <1>3, Sizes, FS_CardinalityType
<1>14. e + 1 = k /\ e <= k - 1 - 1
       BY <1>2, <1>3, <1>11, <1>12, <1>13
<1> QED BY <1>14

-----------------------------------------------------------------------------
(* The invariant, by what each part rules out.                             *)

Over == {"stop", "wake", "join", "close", "exit"}

(* A client's main is past the join only when its receiver has ended; that *)
(* ends before the server has only on the commit, which was enqueued.      *)
ThreadInv ==
  /\ receiver \in [Client -> {"idle", "run", "done"}] /\ keep_running \in [Client -> BOOLEAN]
  /\ got \in [Client -> Nat]
  /\ \A c \in Client :
       /\ cMain[c] \in {"close", "done"} => receiver[c] = "done"
       /\ receiver[c] = "done" /\ proc = "up" => ~keep_running[c]
       /\ ~keep_running[c] => PhaseTwo
       /\ \A n \in 1..Len(delivered[c]) : delivered[c][n] = Commit => PhaseTwo

(* The server stops only of its own will, and drops nobody before.         *)
ProcInv ==
  /\ proc = "up" \/ pcM = "exit"
  /\ running \/ pcM \in {"wake", "join", "close", "exit"}
  /\ pcM # "remove" /\ pcM # "relock"
  /\ proc = "up" => \A c \in Client : conn[c] # "shut"

(* Only the slot main is in has a line left in its buffer.                 *)
BufferInv ==
  pcM \in {"loop", "select", "accept", "lock", "data", "handle"} =>
    \A i \in 1..Len(clients) : (pcM = "handle" /\ i = slot) \/ ~HasLine(buf[i])

(* A client that select() reported and main has not come to has sent more. *)
Ahead(i) == pcM \in {"accept", "lock"} \/ (pcM = "data" /\ i >= slot) \/ (pcM = "handle" /\ i > slot)

AheadInv ==
  \A i \in 1..Len(clients) :
    clients[i] \in ready /\ Ahead(i) => arrived[clients[i]] > consumed[clients[i]]

(* Once the commit is enqueued everyone has finished, and all is before it. *)
SettledInv ==
  pcM \in Over =>
    \A c \in Client : sender[c] = "done" /\ Cardinality(Posted(c)) = nsent[c]

GroupInv ==
  ClientInv /\ StreamInv /\ ThreadInv /\ ProcInv /\ BufferInv /\ AheadInv /\ SettledInv

ServerStep == UNCHANGED clientVars /\ (Main \/ Worker \/ (proc = "up" /\ SpuriousWake))

-----------------------------------------------------------------------------
(* Streams.                                                                *)

LEMMA StreamStep ==
  ASSUME ClientInv, StreamInv, [GNext]_gvars
  PROVE  StreamInv'
<1> USE DEF clientVars
<1>0. \A c \in Client : /\ sent[c] \in Seq(Kind) /\ nsent[c] \in Nat
                        /\ sender[c] # "done" => Len(sent[c]) = 2 * nsent[c]
      BY DEF ClientInv, StreamInv, Stream
<1>1. CASE UNCHANGED <<sent, nsent>> /\ \A c \in Client : sender'[c] = sender[c] \/ sender'[c] = "done"
      BY <1>1 DEF StreamInv
<1>2. CASE ServerStep
      BY <1>1, <1>2, ServerLeavesClients DEF ServerStep
<1>3. ASSUME NEW c \in Client, Start(c) \/ LeaveLoop(c)
      PROVE  StreamInv'
  <2>1. UNCHANGED <<sent, nsent>> /\ sender[c] # "done"
        BY <1>3 DEF Start, Connect, LeaveLoop, vars, ClientInv
  <2>2. \A d \in Client : d # c => sender'[d] = sender[d]
        BY <1>3 DEF Start, LeaveLoop, ClientInv
  <2>3. Len(sent[c]) # 2 * nsent[c] + 2
        BY <1>0, <2>1
  <2> QED BY <2>1, <2>2, <2>3 DEF StreamInv
<1>4. ASSUME NEW c \in Client, JoinThreads(c)
      PROVE  StreamInv'
      BY <1>1, <1>4 DEF JoinThreads, vars, ClientInv
<1>5. ASSUME NEW c \in Client, SendMessage(c)
      PROVE  StreamInv'
  <2>1. /\ sent' = [sent EXCEPT ![c] = @ \o RegularLine]
        /\ nsent' = [nsent EXCEPT ![c] = @ + 1] /\ sender' = sender /\ sender[c] = "loop"
        BY <1>5 DEF SendMessage, ClientWrite
  <2>2. /\ Stream(sent[c] \o RegularLine, nsent[c] + 1)
        /\ Len(sent[c] \o RegularLine) = 2 * (nsent[c] + 1)
        BY <1>0, <2>1, StreamGrows DEF StreamInv
  <2>3. /\ sent'[c] = sent[c] \o RegularLine /\ nsent'[c] = nsent[c] + 1
        /\ \A d \in Client : d # c => sent'[d] = sent[d] /\ nsent'[d] = nsent[d]
        BY <2>1 DEF ClientInv
  <2>4. Len(sent'[c]) # 2 * nsent'[c] + 2
        BY <1>0, <2>2, <2>3
  <2> QED BY <2>1, <2>2, <2>3, <2>4 DEF StreamInv
<1>6. ASSUME NEW c \in Client, SendEnd(c), keep_running[c]
      PROVE  StreamInv'
  <2>1. /\ sent' = [sent EXCEPT ![c] = @ \o EndLine] /\ nsent' = nsent
        /\ sender' = [sender EXCEPT ![c] = "done"] /\ sender[c] = "end"
        BY <1>6 DEF SendEnd, ClientWrite
  <2>2. Stream(sent[c] \o EndLine, nsent[c])
        BY <1>0, <2>1, StreamGrows DEF StreamInv
  <2>3. /\ sent'[c] = sent[c] \o EndLine /\ sender'[c] = "done"
        /\ \A d \in Client : d # c => sent'[d] = sent[d] /\ sender'[d] = sender[d]
        BY <2>1 DEF ClientInv
  <2> QED BY <2>1, <2>2, <2>3 DEF StreamInv
<1>7. ASSUME NEW c \in Client, SendEnd(c), ~keep_running[c]
      PROVE  StreamInv'
      BY <1>1, <1>7 DEF SendEnd, vars, ClientInv
<1>8. CASE \E c \in Client : Network(c) \/ CloseSocket(c) \/ ClientReceiver(c)
      BY <1>1, <1>8 DEF Network, Arrive, CloseSocket, ClientReceiver, Receive, EndOfFile, vars
<1>9. CASE UNCHANGED gvars
      BY <1>1, <1>9 DEF gvars, vars
<1> QED BY <1>2, <1>3, <1>4, <1>5, <1>6, <1>7, <1>8, <1>9
        DEF GNext, ServerMain, ServerWorker, ServerStep, ClientMain, ClientSender, Exited, gvars

-----------------------------------------------------------------------------
(* The commit, from the queue to the clients.                              *)

LEMMA OrderGrows ==
  ASSUME [Next]_vars
  PROVE  order' = order \/ \E m : order' = Append(order, m)
<1> USE DEF mainVars, workerVars, queueVars, sockIn, socketVars, mainAndBuf
<1>1. CASE Regular \/ EnqueueCommit
      BY <1>1 DEF Regular, EnqueueCommit, enqueue_message
<1>2. CASE Environment
      BY <1>2 DEF Environment, Connect, ClientWrite, Arrive, ClientClose, ClientReset, serverVars
<1> QED BY <1>1, <1>2
        DEF Next, Main, Worker, WorkerStep, WakeUp, SpuriousWake, Awake, Exited, vars,
            LoopTest, Select, SelectFails, Accept, Reject, AcceptFails, LockClients, NextSlot,
            LastSlot, NextIteration, ReadData, ReadEnds, remove_client, Relock, NoLine,
            Finish, Discard, StopRunning, WakeWorker, JoinWorker, CloseAndExit, WorkerTest,
            LockQueue, TestQueue, Dequeue, CondWait, LockList, Write, WriteKills, EndBroadcast

LEMMA PhaseTwoStays ==
  ASSUME TypeOK, [Next]_vars, PhaseTwo
  PROVE  PhaseTwo'
<1>1. PICK n \in 1..Len(order) : order[n] = Commit
      BY DEF PhaseTwo
<1>2. ASSUME NEW m, order' = Append(order, m)
      PROVE  n \in 1..Len(order') /\ order'[n] = order[n]
  <2>1. order \in Seq(Message \cup {m}) /\ Len(order) \in Nat
        BY LenProperties DEF TypeOK, SharedTypes
  <2> QED BY <1>2, <2>1, AppendProperties
<1> QED BY <1>1, <1>2, OrderGrows DEF PhaseTwo

LEMMA NodeIsOrdered ==
  ASSUME TypeOK, QueueInv, proc = "up", pcW = "send", node = Commit
  PROVE  PhaseTwo
<1>1. Busy = 1 /\ Len(order) = frontier + Busy + Len(queue) /\ node = order[frontier + 1]
      BY DEF QueueInv, Busy
<1>2. frontier \in Nat /\ Len(queue) \in Nat /\ Len(order) \in Nat
      BY LenProperties DEF TypeOK, SharedTypes, OutputTypes
<1>3. frontier + 1 \in 1..Len(order)
      BY <1>1, <1>2
<1> QED BY <1>1, <1>3 DEF PhaseTwo

LEMMA ServerDelivers ==
  ASSUME Main \/ Worker \/ (proc = "up" /\ SpuriousWake)
  PROVE  proc = "up" /\ (delivered' = delivered \/ Write)
BY DEF mainVars, workerVars, queueVars, sockIn, socketVars, mainAndBuf,
       Main, Worker, WorkerStep, WakeUp, SpuriousWake, Awake,
       LoopTest, Select, SelectFails, Accept, Reject, AcceptFails, LockClients, NextSlot,
       LastSlot, NextIteration, ReadData, ReadEnds, remove_client, Relock, NoLine, Regular,
       Finish, Discard, EnqueueCommit, StopRunning, WakeWorker, JoinWorker, CloseAndExit,
       WorkerTest, LockQueue, TestQueue, Dequeue, CondWait, LockList, WriteKills, EndBroadcast

LEMMA DeliveredCommit ==
  ASSUME TypeOK, IndexInv, QueueInv, ThreadInv, [Next]_vars,
         Main \/ Worker \/ (proc = "up" /\ SpuriousWake)
  PROVE  \A c \in Client : \A n \in 1..Len(delivered'[c]) :
           delivered'[c][n] = Commit => PhaseTwo'
<1> SUFFICES ASSUME NEW c \in Client, NEW n \in 1..Len(delivered'[c]), delivered'[c][n] = Commit
             PROVE  PhaseTwo'
    OBVIOUS
<1>1. delivered[c] \in Seq(Message) /\ Len(delivered[c]) \in Nat
  <2>1. delivered[c] \in Seq(Message)
        BY DEF TypeOK, OutputTypes
  <2> QED BY <2>1, LenProperties
<1>2. CASE delivered'[c] = delivered[c]
      BY <1>2, PhaseTwoStays DEF ThreadInv
<1>3. CASE Write /\ delivered'[c] = Append(delivered[c], node) /\ node \in Message
  <2>1. \/ n \in 1..Len(delivered[c]) /\ delivered[c][n] = Commit
        \/ node = Commit
        BY <1>1, <1>3, AppendProperties
  <2>2. pcW = "send" /\ proc = "up"
        BY <1>3, ServerDelivers DEF Write
  <2> QED BY <2>1, <2>2, NodeIsOrdered, PhaseTwoStays DEF ThreadInv
<1>4. ASSUME Write
      PROVE  delivered'[c] = delivered[c]
             \/ (delivered'[c] = Append(delivered[c], node) /\ node \in Message)
  <2>1. node \in Message
        BY <1>4 DEF Write, TypeOK, WorkerTypes, IndexInv
  <2>2. delivered' = delivered \/ delivered' = [delivered EXCEPT ![clients[wi]] = Append(@, node)]
        BY <1>4 DEF Write
  <2>3. delivered \in [Client -> Seq(Message)]
        BY DEF TypeOK, OutputTypes
  <2> QED BY <2>1, <2>2, <2>3
<1> QED BY <1>2, <1>3, <1>4, ServerDelivers

LEMMA ThreadStep ==
  ASSUME TypeOK, IndexInv, QueueInv, ClientInv, ThreadInv, ProcInv, [Next]_vars, [GNext]_gvars
  PROVE  ThreadInv'
<1> USE DEF clientVars
<1>0. /\ PhaseTwo => PhaseTwo'
      /\ proc' = "up" => proc = "up"
      BY PhaseTwoStays, Onward
<1>1. CASE UNCHANGED <<cMain, receiver, keep_running, got, delivered>>
      BY <1>0, <1>1 DEF ThreadInv
<1>2. CASE ServerStep
      BY <1>0, <1>2, DeliveredCommit DEF ThreadInv, ServerStep
<1>3. ASSUME NEW c \in Client, Start(c)
      PROVE  ThreadInv'
  <2>1. /\ cMain' = [cMain EXCEPT ![c] = "join"] /\ receiver' = [receiver EXCEPT ![c] = "run"]
        /\ UNCHANGED <<delivered, got, keep_running>>
        BY <1>3 DEF Start, Connect, serverVars
  <2> QED BY <1>0, <2>1 DEF ThreadInv, ClientInv
<1>4. ASSUME NEW c \in Client, JoinThreads(c) \/ CloseSocket(c)
      PROVE  ThreadInv'
  <2>1. CASE JoinThreads(c)
    <3>1. /\ cMain' = [cMain EXCEPT ![c] = "close"] /\ receiver[c] = "done"
          /\ UNCHANGED <<delivered, got, keep_running, receiver>>
          BY <2>1 DEF JoinThreads, vars
    <3> QED BY <1>0, <3>1 DEF ThreadInv, ClientInv
  <2>2. CASE CloseSocket(c)
    <3>1. /\ cMain' = [cMain EXCEPT ![c] = "done"] /\ cMain[c] = "close"
          /\ UNCHANGED <<delivered, got, keep_running, receiver>>
          BY <2>2 DEF CloseSocket, serverVars
    <3> QED BY <1>0, <3>1 DEF ThreadInv, ClientInv
  <2> QED BY <1>4, <2>1, <2>2
<1>5. ASSUME NEW c \in Client, Receive(c)
      PROVE  ThreadInv'
  <2>1. /\ receiver[c] = "run" /\ got[c] < Len(delivered[c])
        /\ got' = [got EXCEPT ![c] = @ + 1]
        /\ UNCHANGED <<delivered, cMain, proc>>
        BY <1>5 DEF Receive, vars
  <2>2. CASE delivered[c][got[c] + 1] = Commit
    <3>1. /\ keep_running' = [keep_running EXCEPT ![c] = FALSE]
          /\ receiver' = [receiver EXCEPT ![c] = "done"]
          BY <1>5, <2>2 DEF Receive
    <3>2. got[c] + 1 \in 1..Len(delivered[c])
      <4>1. got[c] \in Nat /\ Len(delivered[c]) \in Nat
            BY LenProperties DEF ThreadInv, TypeOK, OutputTypes
      <4> QED BY <2>1, <4>1
    <3>3. PhaseTwo
          BY <2>2, <3>2 DEF ThreadInv
    <3> QED BY <1>0, <2>1, <3>1, <3>3 DEF ThreadInv
  <2>3. CASE delivered[c][got[c] + 1] # Commit
    <3>1. UNCHANGED <<keep_running, receiver>>
          BY <1>5, <2>3 DEF Receive
    <3> QED BY <1>0, <2>1, <3>1 DEF ThreadInv
  <2> QED BY <2>2, <2>3
<1>6. ASSUME NEW c \in Client, EndOfFile(c)
      PROVE  ThreadInv'
  <2>1. /\ receiver' = [receiver EXCEPT ![c] = "done"]
        /\ UNCHANGED <<delivered, cMain, got, keep_running, proc>>
        /\ conn[c] = "shut" \/ proc # "up"
        BY <1>6 DEF EndOfFile, ServerGone, vars
  <2>2. proc # "up"
        BY <2>1 DEF ProcInv
  <2> QED BY <1>0, <2>1, <2>2 DEF ThreadInv
<1>7. CASE \E c \in Client : Network(c) \/ ClientSender(c)
      BY <1>1, <1>7 DEF Network, Arrive, ClientSender, SendMessage, LeaveLoop, SendEnd,
                        ClientWrite, serverVars, vars
<1>8. CASE UNCHANGED gvars
      BY <1>1, <1>8 DEF gvars, vars
<1> QED BY <1>2, <1>3, <1>4, <1>5, <1>6, <1>7, <1>8
        DEF GNext, ServerMain, ServerWorker, ServerStep, ClientMain, ClientReceiver, Exited, gvars

-----------------------------------------------------------------------------
(* Nobody is rejected, dropped or lost before the server stops.            *)

(* There is a slot for everyone.                                           *)
LEMMA NoReject ==
  ASSUME TypeOK, RosterExact, proc = "up", NEW c \in Client, Reject(c)
  PROVE  FALSE
<1> DEFINE T == Client \ {c}
<1>1. conn[c] = "backlog" /\ Len(clients) >= MaxClients
      BY DEF Reject, Pending, Full
<1>2. c \notin Roster
      BY <1>1 DEF RosterExact
<1>3. Len(clients) \in Nat /\ clients \in [1..Len(clients) -> Client]
      BY LenProperties DEF TypeOK, SharedTypes
<1>4. \A i \in 1..Len(clients) : clients[i] \in T
      BY <1>2, <1>3 DEF Roster
<1>5. clients \in [1..Len(clients) -> T]
      BY <1>3, <1>4
<1>6. clients \in Injection(1..Len(clients), T)
      BY <1>5, Fun_IsInj DEF RosterExact
<1>7. IsFiniteSet(T) /\ Cardinality(T) = Cardinality(Client) - 1
      BY Sizes, FS_RemoveElement
<1> HIDE DEF T
<1>8. Cardinality(1..Len(clients)) = Len(clients)
  <2>1. Len(clients) \in Int /\ 1 \in Int
        BY <1>3
  <2> QED BY <1>3, <2>1, FS_Interval
<1>9. Len(clients) <= Cardinality(T)
      BY <1>6, <1>7, <1>8, FS_Injection
<1> QED BY <1>1, <1>3, <1>7, <1>9, Sizes

LEMMA NobodyIsRemoved == ASSUME ProcInv, ThreadInv, ClientInv, proc = "up" PROVE NobodyRemoved
BY DEF ProcInv, NobodyRemoved

(* A client that select() reported has bytes to read, and there is room.   *)
LEMMA NoReadEnds ==
  ASSUME TypeOK, SlotsInv, NobodyRemoved, ClientInv, StreamInv, BufferInv, AheadInv, ReadEnds
  PROVE  FALSE
<1>1. pcM = "data" /\ slot <= Len(clients) /\ clients[slot] \in ready
      BY DEF ReadEnds
<1>2. PICK j \in 1..Len(clients) : j = slot
      BY <1>1, AvailableBytes
<1>3. PICK c \in Client : c = clients[j]
      BY SlotTypes
<1>4. arrived[c] > consumed[c]
  <2>1. j >= slot
        BY <1>2
  <2> QED BY <1>1, <1>2, <1>3, <2>1 DEF AheadInv, Ahead
<1>5. Len(buf[j]) <= 1 /\ Len(buf[j]) \in Nat
  <2>1. ~HasLine(buf[j]) /\ SlotInv(j)
        BY <1>1 DEF BufferInv, SlotsInv
  <2>2. Stream(sent[c], nsent[c]) /\ nsent[c] \in Nat
        BY DEF StreamInv, ClientInv
  <2> QED BY <1>3, <2>1, <2>2, ShortBuffer, SlotTypes
<1>6. Available(c) = 0
      BY <1>2, <1>3 DEF ReadEnds
<1>7. arrived[c] \in Nat /\ consumed[c] \in Nat
      BY DEF TypeOK, SocketTypes
<1> QED BY <1>2, <1>4, <1>5, <1>6, <1>7, Sizes DEF Available

(* Until the commit is enqueued every client's end is open.                *)
LEMMA PeersUp ==
  ASSUME CommitInv, ClientInv, ThreadInv, proc = "up", pcM \notin Over, NEW c \in Client
  PROVE  peer[c] = "up"
<1>1. ~PhaseTwo
      BY DEF CommitInv, PhaseTwo, Over
<1>2. receiver[c] # "done"
      BY <1>1 DEF ThreadInv
<1>3. cMain[c] # "done"
      BY <1>2 DEF ThreadInv
<1> QED BY <1>3 DEF ClientInv

LEMMA ProcStep ==
  ASSUME TypeOK, IndexInv, RosterExact, CommitInv, SlotsInv, ClientInv, StreamInv, ThreadInv,
         ProcInv, BufferInv, AheadInv, [GNext]_gvars
  PROVE  ProcInv'
<1> USE DEF mainVars, workerVars, queueVars, sockIn, socketVars, mainAndBuf, clientVars
<1>1. CASE UNCHANGED <<proc, pcM, running, conn>>
      BY <1>1 DEF ProcInv
<1>2. CASE ServerStep
  <2>0. /\ Main \/ Worker \/ SpuriousWake
        /\ proc = "up"
        BY <1>2, ServerDelivers DEF ServerStep
  <2>1. NobodyRemoved
        BY <2>0, NobodyIsRemoved
  <2>2. /\ ~ReadEnds /\ \A c \in Client : ~Reject(c)
        /\ ~SelectFails /\ ~AcceptFails /\ ~WriteKills /\ ~remove_client /\ ~Relock
        BY <2>0, <2>1, NoReadEnds, NoReject, Sizes
        DEF ProcInv, SelectFails, AcceptFails, WriteKills, remove_client, Relock
  <2>3. CASE \E c \in Client : Accept(c)
    <3>1. PICK c \in Client : conn' = [conn EXCEPT ![c] = "open"]
          BY <2>3 DEF Accept
    <3>2. UNCHANGED <<proc, running>> /\ pcM = "accept" /\ pcM' = "loop"
          BY <2>3 DEF Accept, NextIteration
    <3> QED BY <2>0, <3>1, <3>2 DEF ProcInv, ClientInv
  <2>4. CASE CloseAndExit
        BY <2>4 DEF CloseAndExit, ProcInv
  <2>5. CASE LoopTest \/ StopRunning \/ WakeWorker \/ JoinWorker
        BY <2>5 DEF LoopTest, StopRunning, WakeWorker, JoinWorker, ProcInv
  <2>6. CASE \/ Select \/ LockClients \/ NextSlot \/ LastSlot \/ ReadData \/ NoLine
             \/ Regular \/ Finish \/ Discard \/ EnqueueCommit
    <3>1. /\ UNCHANGED <<proc, running, conn>>
          /\ pcM \notin {"wake", "join", "close", "exit"}
          /\ pcM' \in {"loop", "accept", "lock", "data", "handle", "commit", "stop"}
          BY <2>6 DEF Select, LockClients, NextSlot, LastSlot, NextIteration, ReadData, NoLine,
                      Regular, Finish, Discard, EnqueueCommit
    <3> QED BY <2>0, <3>1 DEF ProcInv
  <2>7. CASE Worker \/ SpuriousWake
        BY <1>1, <2>2, <2>7
        DEF Worker, WorkerStep, WakeUp, SpuriousWake, Awake, WorkerTest, LockQueue, TestQueue,
            Dequeue, CondWait, LockList, Write, EndBroadcast
  <2> QED BY <2>0, <2>2, <2>3, <2>4, <2>5, <2>6, <2>7 DEF Main
<1>3. ASSUME NEW c \in Client, Start(c)
      PROVE  ProcInv'
  <2>1. conn' = [conn EXCEPT ![c] = "backlog"] /\ UNCHANGED <<proc, pcM, running>>
        BY <1>3 DEF Start, Connect, serverVars
  <2> QED BY <2>1 DEF ProcInv, ClientInv
<1>4. CASE \E c \in Client : \/ Network(c) \/ JoinThreads(c) \/ CloseSocket(c)
                             \/ ClientSender(c) \/ ClientReceiver(c)
      BY <1>1, <1>4 DEF Network, Arrive, JoinThreads, CloseSocket, ClientSender, SendMessage,
                        LeaveLoop, SendEnd, ClientWrite, ClientReceiver, Receive, EndOfFile,
                        serverVars, vars
<1>5. CASE UNCHANGED gvars
      BY <1>1, <1>5 DEF gvars, vars
<1> QED BY <1>2, <1>3, <1>4, <1>5
        DEF GNext, ServerMain, ServerWorker, ServerStep, ClientMain, Exited, gvars

-----------------------------------------------------------------------------
(* What main leaves in the buffers, and what it has still to read.         *)

(* The steps of main that can be taken here, and what the others keep.     *)
LEMMA GroupSteps ==
  ASSUME TypeOK, IndexInv, RosterExact, CommitInv, SlotsInv, ClientInv, StreamInv, ThreadInv,
         ProcInv, BufferInv, AheadInv, [GNext]_gvars
  PROVE  \/ /\ proc = "up" /\ UNCHANGED clientVars
            /\ \/ \E c \in Client : Accept(c)
               \/ LoopTest \/ Select \/ LockClients \/ NextSlot \/ LastSlot \/ ReadData
               \/ NoLine \/ Regular \/ Finish \/ Discard
               \/ EnqueueCommit \/ StopRunning \/ WakeWorker \/ JoinWorker \/ CloseAndExit
         \/ /\ UNCHANGED <<pcM, slot, ready, clients, buf, consumed, order>>
            /\ arrived' = arrived \/ \E c \in Client : Arrive(c)
<1> USE DEF mainVars, workerVars, queueVars, sockIn, socketVars, mainAndBuf
<1>2. CASE ServerStep
  <2>0. /\ Main \/ Worker \/ SpuriousWake
        /\ proc = "up" /\ UNCHANGED clientVars
        BY <1>2, ServerDelivers DEF ServerStep
  <2>1. NobodyRemoved
        BY <2>0, NobodyIsRemoved
  <2>2. /\ ~ReadEnds /\ \A c \in Client : ~Reject(c)
        /\ ~SelectFails /\ ~AcceptFails /\ ~WriteKills /\ ~remove_client /\ ~Relock
        BY <2>0, <2>1, NoReadEnds, NoReject, Sizes
        DEF ProcInv, SelectFails, AcceptFails, WriteKills, remove_client, Relock
  <2>3. CASE Worker \/ SpuriousWake
        BY <2>2, <2>3
        DEF Worker, WorkerStep, WakeUp, SpuriousWake, Awake, WorkerTest, LockQueue, TestQueue,
            Dequeue, CondWait, LockList, Write, EndBroadcast
  <2>4. CASE Main
        BY <2>0, <2>2, <2>4 DEF Main
  <2> QED BY <2>0, <2>3, <2>4
<1>3. CASE \E c \in Client : Network(c) \/ ClientMain(c) \/ ClientSender(c) \/ ClientReceiver(c)
      BY <1>3 DEF Network, ClientMain, Start, Connect, JoinThreads, CloseSocket, ClientSender,
                  SendMessage, LeaveLoop, SendEnd, ClientWrite, ClientReceiver, Receive,
                  EndOfFile, Arrive, serverVars, vars
<1>4. CASE UNCHANGED gvars
      BY <1>4 DEF gvars, vars
<1> QED BY <1>2, <1>3, <1>4 DEF GNext, ServerMain, ServerWorker, ServerStep, Exited, gvars

LEMMA BufferStep ==
  ASSUME TypeOK, IndexInv, RosterExact, CommitInv, SlotsInv, ClientInv, StreamInv, ThreadInv,
         ProcInv, BufferInv, AheadInv, [GNext]_gvars
  PROVE  BufferInv'
<1> USE DEF mainVars, workerVars, queueVars, sockIn, socketVars, mainAndBuf
<1>1. CASE UNCHANGED <<pcM, slot, clients, buf>>
      BY <1>1 DEF BufferInv
<1>2. ASSUME NEW c \in Client, Accept(c)
      PROVE  BufferInv'
  <2>1. /\ pcM = "accept" /\ clients' = Append(clients, c)
        /\ buf' = [buf EXCEPT ![Len(clients) + 1] = <<>>]
        BY <1>2 DEF Accept
  <2>2. clients \in Seq(Client) /\ Len(clients) \in Nat
        BY LenProperties DEF TypeOK, SharedTypes
  <2>3. Len(clients') = Len(clients) + 1
        BY <2>1, <2>2, AppendProperties
  <2>4. \A i \in 1..MaxClients : buf'[i] = buf[i] \/ buf'[i] = <<>>
        BY <2>1 DEF TypeOK, BufferTypes
  <2>5. ~HasLine(<<>>)
        BY DEF HasLine
  <2>6. \A i \in 1..Len(clients) : i \in 1..MaxClients /\ ~HasLine(buf[i])
        BY <2>1, SlotTypes DEF BufferInv
  <2>7. ~HasLine(buf'[Len(clients) + 1])
    <3>1. Len(clients) + 1 \in 1..MaxClients
          BY <1>2, <2>2, Sizes DEF Accept, Full
    <3>2. buf'[Len(clients) + 1] = <<>>
          BY <2>1, <3>1 DEF TypeOK, BufferTypes
    <3> QED BY <2>5, <3>2
  <2>8. \A i \in 1..Len(clients') : ~HasLine(buf'[i])
    <3> SUFFICES ASSUME NEW i \in 1..Len(clients')
                 PROVE  ~HasLine(buf'[i])
        OBVIOUS
    <3>1. i \in 1..Len(clients) \/ i = Len(clients) + 1
          BY <2>2, <2>3
    <3>2. CASE i \in 1..Len(clients)
      <4>1. buf'[i] = buf[i] \/ buf'[i] = <<>>
            BY <2>4, <2>6, <3>2
      <4> QED BY <2>5, <2>6, <3>2, <4>1
    <3> QED BY <2>7, <3>1, <3>2
  <2> QED BY <2>8 DEF BufferInv
<1>3. CASE Select \/ LockClients \/ NextSlot \/ LastSlot \/ NoLine
      BY <1>3 DEF Select, LockClients, NextSlot, LastSlot, NextIteration, NoLine, BufferInv
<1>4. CASE ReadData \/ Regular \/ Finish \/ Discard
  <2>1. /\ UNCHANGED <<clients, slot>> /\ pcM' \in {"handle", "commit"}
        /\ pcM \in {"data", "handle"}
        BY <1>4 DEF ReadData, Regular, Finish, Discard
  <2>2. \A i \in 1..MaxClients : i # slot => buf'[i] = buf[i]
        BY <1>4 DEF ReadData, Regular, Finish, Discard, TypeOK, BufferTypes
  <2> QED BY <2>1, <2>2, SlotTypes DEF BufferInv
<1>5. CASE \/ LoopTest \/ EnqueueCommit \/ StopRunning \/ WakeWorker \/ JoinWorker \/ CloseAndExit
  <2>1. \/ UNCHANGED <<clients, slot, buf>> /\ pcM = "loop" /\ pcM' \in {"select", "join"}
        \/ pcM' \in Over
        BY <1>5 DEF LoopTest, EnqueueCommit, StopRunning, WakeWorker, JoinWorker, CloseAndExit,
                    Over
  <2> QED BY <2>1 DEF BufferInv, Over
<1> QED BY <1>1, <1>2, <1>3, <1>4, <1>5, GroupSteps

LEMMA AheadStep ==
  ASSUME TypeOK, IndexInv, RosterExact, CommitInv, SlotsInv, ClientInv, StreamInv, ThreadInv,
         ProcInv, BufferInv, AheadInv, [GNext]_gvars
  PROVE  AheadInv'
<1> USE DEF mainVars, workerVars, queueVars, sockIn, socketVars, mainAndBuf
<1>0. slot \in Nat /\ \A i \in 1..Len(clients) : clients[i] \in Client /\ i \in Nat
      BY SlotTypes DEF TypeOK, MainTypes
<1>1. CASE UNCHANGED <<clients, ready, consumed, arrived>>
           /\ \A i \in 1..Len(clients) : Ahead(i)' => Ahead(i)
      BY <1>1 DEF AheadInv
<1>2. CASE ready' = {}
      BY <1>2 DEF AheadInv
<1>3. CASE Select /\ proc = "up"
  <2>1. /\ ready' = {c \in Roster : Readable(c)} /\ pcM = "select"
        /\ UNCHANGED <<clients, arrived, consumed>>
        BY <1>3 DEF Select
  <2>2. \A c \in Client : peer[c] = "up"
        BY <1>3, <2>1, PeersUp DEF Over
  <2>3. \A i \in 1..Len(clients) : clients[i] \in ready' => arrived[clients[i]] > consumed[clients[i]]
        BY <1>0, <2>1, <2>2 DEF Readable
  <2> QED BY <2>1, <2>3 DEF AheadInv
<1>4. CASE LockClients \/ NextSlot \/ NoLine
  <2>1. UNCHANGED <<clients, ready, arrived, consumed>>
        BY <1>4 DEF LockClients, NextSlot, NoLine
  <2>2. \A i \in 1..Len(clients) : Ahead(i)' => Ahead(i)
        BY <1>0, <1>4 DEF LockClients, NextSlot, NoLine, Ahead
  <2> QED BY <1>1, <2>1, <2>2
<1>5. CASE ReadData
  <2>1. /\ UNCHANGED <<clients, ready, arrived, slot>> /\ pcM = "data" /\ pcM' = "handle"
        /\ slot <= Len(clients)
        BY <1>5 DEF ReadData
  <2>2. PICK j \in 1..Len(clients) : j = slot
        BY <2>1, AvailableBytes
  <2>3. \A c \in Client : c # clients[j] => consumed'[c] = consumed[c]
        BY <1>5, <2>2 DEF ReadData, TypeOK, SocketTypes
  <2>4. \A i \in 1..Len(clients) : i > j => clients[i] # clients[j]
        BY <2>2 DEF RosterExact
  <2>5. \A i \in 1..Len(clients) : Ahead(i)' => i > j /\ Ahead(i)
        BY <1>0, <2>1, <2>2 DEF Ahead
  <2> QED BY <1>0, <2>1, <2>3, <2>4, <2>5 DEF AheadInv
<1>6. CASE Regular \/ Finish \/ Discard
  <2>1. /\ UNCHANGED <<clients, ready, arrived, consumed, slot>> /\ pcM = "handle"
        /\ pcM' \in {"handle", "commit"}
        BY <1>6 DEF Regular, Finish, Discard
  <2> QED BY <1>1, <2>1 DEF Ahead
<1>7. CASE LoopTest \/ EnqueueCommit \/ StopRunning \/ WakeWorker \/ JoinWorker \/ CloseAndExit
  <2>1. /\ UNCHANGED <<clients, ready, arrived, consumed>>
        /\ pcM' \in {"select", "join", "stop", "wake", "close", "exit"}
        BY <1>7 DEF LoopTest, EnqueueCommit, StopRunning, WakeWorker, JoinWorker, CloseAndExit
  <2> QED BY <1>1, <2>1 DEF Ahead
<1>8. ASSUME UNCHANGED <<pcM, slot, ready, clients, buf, consumed>>, NEW c \in Client, Arrive(c)
      PROVE  AheadInv'
  <2>1. PICK n \in (arrived[c] + 1)..Len(sent[c]) : arrived' = [arrived EXCEPT ![c] = n]
        BY <1>8 DEF Arrive
  <2>2. arrived[c] \in Nat /\ Len(sent[c]) \in Nat
        BY LenProperties DEF TypeOK, SocketTypes
  <2>3. \A d \in Client : /\ arrived'[d] \in Nat /\ arrived[d] \in Nat /\ consumed[d] \in Nat
                          /\ arrived'[d] >= arrived[d]
        BY <2>1, <2>2 DEF TypeOK, SocketTypes
  <2>4. \A i \in 1..Len(clients) : Ahead(i)' = Ahead(i)
        BY <1>8 DEF Ahead
  <2> QED BY <1>0, <1>8, <2>3, <2>4 DEF AheadInv
<1>9. CASE UNCHANGED <<pcM, slot, ready, clients, buf, consumed, arrived>>
      BY <1>9 DEF AheadInv, Ahead
<1>10. CASE LastSlot \/ \E c \in Client : Accept(c)
       BY <1>2, <1>10 DEF LastSlot, Accept, NextIteration
<1> QED BY <1>3, <1>4, <1>5, <1>6, <1>7, <1>8, <1>9, <1>10, GroupSteps

-----------------------------------------------------------------------------
(* The commit.                                                             *)

(* When it is about to be enqueued, everything a client wrote is before it. *)
LEMMA AllSettled ==
  ASSUME IInv, LinesInv, PostedInv, ClientInv, StreamInv, NobodyRemoved, pcM = "commit",
         NEW c \in Client
  PROVE  sender[c] = "done" /\ Cardinality(Posted(c)) = nsent[c]
<1>0. TypeOK /\ SlotsInv /\ Posts
      BY DEF IInv, LinesInv, PostedInv
<1>1. PICK i \in 1..Len(clients) :
        clients[i] = c /\ (EndsExecution(buf[i]) \/ EndLines(Processed(i)) # {})
      BY EverybodyEnded
<1>2. SlotInv(i) /\ Stream(sent[c], nsent[c]) /\ nsent[c] \in Nat
      BY <1>0 DEF SlotsInv, StreamInv, ClientInv
<1>3. Len(sent[c]) = 2 * nsent[c] + 2 /\ Cardinality(RegularLines(Processed(i))) = nsent[c]
      BY <1>0, <1>1, <1>2, EndedSlot
<1>4. PICK p \in Seq(Kind) : p = Processed(i)
      BY <1>0, <1>2, OffsetTypes
<1>5. Cardinality(Posted(c)) = Cardinality(RegularLines(p))
      BY <1>0, <1>1, <1>4 DEF Posts, PostedInOrder
<1> QED BY <1>3, <1>4, <1>5 DEF StreamInv

LEMMA SettledStep ==
  ASSUME IInv, LinesInv, PostedInv, GroupInv, [GNext]_gvars
  PROVE  SettledInv'
<1> USE DEF mainVars, workerVars, queueVars, sockIn, socketVars, mainAndBuf
<1>0. /\ TypeOK /\ IndexInv /\ RosterExact /\ CommitInv /\ SlotsInv /\ ClientInv
      /\ StreamInv /\ ThreadInv /\ ProcInv /\ BufferInv /\ AheadInv /\ SettledInv
      BY DEF IInv, LinesInv, GroupInv
<1>1. CASE pcM \in Over
  <2>1. order' = order /\ pcM' \in Over
        BY <1>0, <1>1, GroupSteps
        DEF Over, Accept, LoopTest, Select, LockClients, NextSlot, LastSlot, ReadData, NoLine,
            Regular, Finish, Discard, EnqueueCommit, StopRunning, WakeWorker, JoinWorker,
            CloseAndExit
  <2>2. \A c \in Client : Posted(c)' = Posted(c)
        BY <2>1 DEF Posted
  <2>3. \A c \in Client : sender[c] = "done"
        BY <1>0, <1>1 DEF SettledInv
  <2>4. nsent' = nsent /\ \A c \in Client : sender'[c] = "done"
    <3>1. CASE UNCHANGED <<nsent, sender>>
          BY <2>3, <3>1
    <3>2. ASSUME NEW c \in Client, JoinThreads(c) \/ SendEnd(c)
          PROVE  nsent' = nsent /\ \A d \in Client : sender'[d] = "done"
      <4>1. nsent' = nsent /\ sender' = [sender EXCEPT ![c] = "done"]
            BY <3>2 DEF JoinThreads, SendEnd
      <4> QED BY <2>3, <4>1 DEF ClientInv
    <3>3. ASSUME NEW c \in Client, Start(c)
          PROVE  FALSE
          BY <1>0, <2>3, <3>3 DEF Start, ClientInv
    <3>4. ASSUME NEW c \in Client, SendMessage(c) \/ LeaveLoop(c)
          PROVE  FALSE
          BY <2>3, <3>4 DEF SendMessage, LeaveLoop
    <3> QED BY <3>1, <3>2, <3>3, <3>4
            DEF GNext, ServerMain, ServerWorker, Network, ClientMain, CloseSocket, ClientSender,
                ClientReceiver, Receive, EndOfFile, Exited, clientVars, gvars
  <2> QED BY <1>0, <1>1, <2>2, <2>4 DEF SettledInv
<1>2. CASE pcM \notin Over /\ pcM' \in Over
  <2>1. EnqueueCommit /\ proc = "up" /\ UNCHANGED clientVars
    <3>1. ~LoopTest
      <4>1. pcM = "loop" => running
            BY <1>0 DEF ProcInv
      <4> QED BY <1>2, <4>1 DEF LoopTest, Over
    <3> QED BY <1>0, <1>2, <3>1, GroupSteps
            DEF Over, Accept, Select, LockClients, NextSlot, LastSlot, NextIteration, ReadData,
                NoLine, Regular, Finish, Discard, StopRunning, WakeWorker, JoinWorker,
                CloseAndExit
  <2>2. pcM = "commit" /\ order' = Append(order, Commit)
        BY <2>1, Sizes DEF EnqueueCommit, enqueue_message
  <2>3. NobodyRemoved
        BY <1>0, <2>1, NobodyIsRemoved
  <2>4. \A c \in Client : Posted(c)' = Posted(c)
        BY <1>0, <2>2, PostedAppend, NodeTypes
  <2> QED BY <1>0, <2>1, <2>2, <2>3, <2>4, AllSettled DEF SettledInv, clientVars
<1> QED BY <1>1, <1>2 DEF SettledInv

LEMMA InitGroupInv == GInit => GroupInv
<1> SUFFICES ASSUME GInit
             PROVE  GroupInv
    OBVIOUS
<1>1. /\ clients = <<>> /\ pcM = "loop" /\ running = TRUE /\ proc = "up"
      /\ sent = [c \in Client |-> <<>>] /\ delivered = [c \in Client |-> <<>>]
      /\ conn = [c \in Client |-> "none"]
      /\ cMain = [c \in Client |-> "start"] /\ nsent = [c \in Client |-> 0]
      /\ receiver = [c \in Client |-> "idle"] /\ got = [c \in Client |-> 0]
      /\ keep_running = [c \in Client |-> TRUE]
      BY DEF GInit, Init
<1>2. ClientInv
      BY InitClientInv
<1>3. StreamInv
      BY <1>1, StreamStarts DEF StreamInv
<1>4. ThreadInv
      BY <1>1 DEF ThreadInv
<1>5. ProcInv /\ BufferInv /\ AheadInv /\ SettledInv
      BY <1>1 DEF ProcInv, BufferInv, AheadInv, SettledInv, Over
<1> QED BY <1>2, <1>3, <1>4, <1>5 DEF GroupInv

LEMMA StepGroupInv ==
  IInv /\ LinesInv /\ PostedInv /\ GroupInv /\ [Next]_vars /\ [GNext]_gvars => GroupInv'
BY StepClientInv, StreamStep, ThreadStep, ProcStep, BufferStep, AheadStep, SettledStep
DEF GroupInv, IInv, LinesInv

(* The invariant of the whole: the server's with its lines and posts, and  *)
(* the clients'.                                                           *)
THEOREM GroupInvariance == GSpec => [](IInv /\ GroupInv)
<1>1. Spec => [](IInv /\ LinesInv /\ PostedInv)
      BY Sizes, PostedInvariance
<1>2. GSpec => Spec
      BY ClientsAreClients DEF RefinesChatServer
<1> QED BY <1>1, <1>2, InitGroupInv, StepGroupInv, PTL DEF GSpec, Spec

(* For any number of clients and messages, any cuts of the streams and any *)
(* schedule of the threads: the commit is enqueued behind every message of *)
(* every client, and when all of them have finished sending, so no message *)
(* is lost with the server and nobody writes to a server that has gone     *)
(* (server.c 252-285, client.c 55-100).                                    *)
THEOREM CommitComesLast == GSpec => []CommitAfterEverything
<1>1. IInv /\ GroupInv => CommitAfterEverything
      BY DEF IInv, CommitInv, GroupInv, ProcInv, SettledInv, PhaseTwo, Over,
             CommitAfterEverything
<1> QED BY GroupInvariance, <1>1, PTL

(* As long as the server is there a client stops only on the commit: it is *)
(* never rejected, taken for disconnected or cut off (server.c 420-486,    *)
(* client.c 119-220).                                                      *)
THEOREM NobodyIsDropped == GSpec => []NobodyDropped
<1>1. GroupInv => NobodyDropped
      BY DEF GroupInv, ThreadInv, NobodyDropped
<1> QED BY GroupInvariance, <1>1, PTL

-----------------------------------------------------------------------------
(* Waiting.  What the guards of the server's threads, of the network and   *)
(* of a client's threads come to, as long as the process is there.         *)

ServerMainCanStep ==
  /\ proc = "up"
  /\ \/ pcM \in {"select", "data", "stop", "wake"}
     \/ pcM = "loop" /\ (running => clientLock = "free")
     \/ pcM = "accept" /\ Pending # {} /\ clientLock = "free"
     \/ pcM \in {"lock", "remove", "relock", "close"} /\ clientLock = "free"
     \/ pcM = "handle" /\ (queueLock = "free" \/ ~HasLine(buf[slot])
                             \/ buf[slot][1].kind # "reg" \/ LineLen(buf[slot]) + Header > MaxMsg)
     \/ pcM = "commit" /\ queueLock = "free"
     \/ pcM = "join" /\ pcW = "done"

WorkerCanStep ==
  /\ proc = "up" /\ ~Blocked
  /\ \/ pcW \in {"test", "check", "wait", "send"}
     \/ pcW = "lockq" /\ queueLock = "free"
     \/ pcW = "lockc" /\ clientLock = "free"
     \/ pcW = "asleep" /\ signalled

NetworkCanStep(c) == arrived[c] < Len(sent[c])

ClientMainCanStep(c) ==
  \/ cMain[c] = "start" /\ proc = "up" /\ conn[c] = "none"
  \/ cMain[c] = "join" /\ receiver[c] = "done"
  \/ cMain[c] = "close"

SenderCanStep(c) ==
  \/ sender[c] = "loop"
  \/ sender[c] = "end" /\ (keep_running[c] => conn[c] \in {"backlog", "open"} /\ peer[c] = "up")

ReceiverCanStep(c) ==
  /\ receiver[c] = "run"
  /\ \/ got[c] < Len(delivered[c])
     \/ ServerGone(c) /\ (got[c] = Len(delivered[c]) \/ consumed[c] < Len(sent[c]))

(* Nothing is to be had from select(): main goes round by its timeout.     *)
Polling ==
  /\ pcM \in {"loop", "select"} /\ running
  /\ Pending = {} /\ \A c \in Roster : ~Readable(c)

AtRest ==
  /\ Polling \/ ~ServerMainCanStep
  /\ ~WorkerCanStep
  /\ \A c \in Client : /\ ~NetworkCanStep(c) /\ ~ClientMainCanStep(c)
                       /\ ~SenderCanStep(c) /\ ~ReceiverCanStep(c)

RestsOnlyAtTheEnd ==
  AtRest => proc = "exited" /\ \A c \in Client : cMain[c] = "done"

(* Where main stands: it is in "accept" only if there is a connection, and *)
(* it goes on to count as long as somebody has not finished.               *)
MainStands ==
  /\ proc # "killed" /\ (pcM = "exit" => proc # "up")
  /\ pcM \in {"wake", "join", "close", "exit"} => ~running
  /\ pcM = "accept" => Pending # {}
  /\ Client # {} /\ pcM \notin Over /\ pcM # "commit" => finished < Expected

(* Where a client stands: it stops receiving at the commit, which is the   *)
(* last it got, and has sent its Type 1 line before the commit is there.   *)
ClientStands(c) ==
  /\ cMain[c] = "start" => conn[c] = "none" /\ receiver[c] = "idle"
  /\ cMain[c] # "start" => sender[c] # "idle" /\ receiver[c] # "idle"
  /\ got[c] <= Len(delivered[c])
  /\ ~keep_running[c] => receiver[c] = "done" /\ got[c] # 0 /\ delivered[c][got[c]] = Commit
  /\ sender[c] = "done" => Len(sent[c]) = 2 * nsent[c] + 2 \/ pcM \in Over

StandInv == MainStands /\ \A c \in Client : ClientStands(c)

LEMMA MainStandsStep ==
  ASSUME TypeOK, IndexInv, RosterExact, CommitInv, SlotsInv, GroupInv, MainStands,
         [GNext]_gvars
  PROVE  MainStands'
<1> USE DEF mainVars, workerVars, queueVars, sockIn, socketVars, mainAndBuf, clientVars
<1>0. /\ ClientInv /\ StreamInv /\ ThreadInv /\ ProcInv /\ BufferInv /\ AheadInv
      BY DEF GroupInv
<1>1. CASE UNCHANGED <<proc, pcM, running, finished, conn>>
      BY <1>1 DEF MainStands, Pending
<1>2. CASE ServerStep
  <2>0. /\ Main \/ Worker \/ SpuriousWake
        /\ proc = "up"
        BY <1>2, ServerDelivers DEF ServerStep
  <2>1. NobodyRemoved
        BY <1>0, <2>0, NobodyIsRemoved
  <2>2. /\ ~ReadEnds /\ \A c \in Client : ~Reject(c)
        /\ ~SelectFails /\ ~AcceptFails /\ ~WriteKills /\ ~remove_client /\ ~Relock
        BY <1>0, <2>0, <2>1, NoReadEnds, NoReject, Sizes
        DEF ProcInv, SelectFails, AcceptFails, WriteKills, remove_client, Relock
  <2>3. CASE \/ LockClients \/ NextSlot \/ LastSlot \/ ReadData \/ NoLine \/ Regular \/ Discard
             \/ \E c \in Client : Accept(c)
    <3>1. /\ UNCHANGED <<proc, running, finished>>
          /\ pcM \in {"lock", "data", "handle", "accept"} /\ pcM' \in {"data", "loop", "handle"}
          BY <2>3 DEF LockClients, NextSlot, LastSlot, NextIteration, ReadData, NoLine,
                      Regular, Discard, Accept
    <3> QED BY <3>1 DEF MainStands, Over
  <2>4. CASE LoopTest
        BY <2>4 DEF LoopTest, MainStands, Over
  <2>5. CASE Select
    <3>1. /\ UNCHANGED <<proc, running, finished, conn>> /\ pcM = "select"
          /\ pcM' \in {"loop", "accept", "lock"} /\ (pcM' = "accept" => Pending # {})
          BY <2>5 DEF Select
    <3>2. Pending' = Pending
          BY <3>1 DEF Pending
    <3> QED BY <3>1, <3>2 DEF MainStands, Over
  <2>6. CASE Finish
    <3>1. /\ UNCHANGED <<proc, running>> /\ pcM = "handle" /\ finished' = finished + 1
          /\ pcM' = "commit" \/ (finished' # Expected /\ pcM' = "handle")
          BY <2>6 DEF Finish, AllFinished
    <3>2. finished \in Nat /\ Expected \in Nat
          BY Sizes DEF TypeOK, SharedTypes
    <3>3. Client # {} => finished < Expected
          BY <3>1 DEF MainStands, Over
    <3>4. Client # {} /\ pcM' # "commit" => finished' < Expected
          BY <3>1, <3>2, <3>3
    <3> QED BY <3>1, <3>4 DEF MainStands
  <2>7. CASE EnqueueCommit \/ StopRunning \/ WakeWorker \/ JoinWorker \/ CloseAndExit
        BY <2>7 DEF EnqueueCommit, StopRunning, WakeWorker, JoinWorker, CloseAndExit,
                    MainStands, Over
  <2>8. CASE Worker \/ SpuriousWake
        BY <1>1, <2>2, <2>8
        DEF Worker, WorkerStep, WakeUp, SpuriousWake, Awake, WorkerTest, LockQueue, TestQueue,
            Dequeue, CondWait, LockList, Write, EndBroadcast
  <2> QED BY <2>0, <2>2, <2>3, <2>4, <2>5, <2>6, <2>7, <2>8 DEF Main
<1>3. ASSUME NEW c \in Client, Start(c)
      PROVE  MainStands'
  <2>1. /\ conn' = [conn EXCEPT ![c] = "backlog"] /\ UNCHANGED <<proc, pcM, running, finished>>
        BY <1>3 DEF Start, Connect, serverVars
  <2>2. Pending \subseteq Pending'
        BY <1>0, <2>1 DEF Pending, ClientInv
  <2> QED BY <2>1, <2>2 DEF MainStands
<1>4. CASE \E c \in Client : \/ Network(c) \/ JoinThreads(c) \/ CloseSocket(c)
                             \/ ClientSender(c) \/ ClientReceiver(c)
      BY <1>1, <1>4 DEF Network, Arrive, JoinThreads, CloseSocket, ClientSender, SendMessage,
                        LeaveLoop, SendEnd, ClientWrite, ClientReceiver, Receive, EndOfFile,
                        serverVars, vars
<1>5. CASE UNCHANGED gvars
      BY <1>1, <1>5 DEF gvars, vars
<1> QED BY <1>2, <1>3, <1>4, <1>5
        DEF GNext, ServerMain, ServerWorker, ServerStep, ClientMain, Exited, gvars

(* What the server does leaves a client where it stands.                   *)
LEMMA ServerKeepsStand ==
  ASSUME TypeOK, IndexInv, RosterExact, CommitInv, SlotsInv, GroupInv, ServerStep, [GNext]_gvars,
         NEW c \in Client, ClientStands(c)
  PROVE  ClientStands(c)'
<1> USE DEF mainVars, workerVars, queueVars, sockIn, socketVars, mainAndBuf
<1>0. /\ ClientInv /\ StreamInv /\ ThreadInv /\ ProcInv /\ BufferInv /\ AheadInv
      BY DEF GroupInv
<1>1. /\ UNCHANGED <<cMain, sender, nsent, receiver, got, keep_running, sent>>
      /\ proc = "up" /\ (delivered' = delivered \/ Write)
      BY <1>0, ServerLeavesClients, ServerDelivers DEF ServerStep, clientVars
<1>2. pcM \in Over => pcM' \in Over
      BY <1>0, GroupSteps
      DEF Over, Accept, LoopTest, Select, LockClients, NextSlot, LastSlot, ReadData, NoLine,
          Regular, Finish, Discard, EnqueueCommit, StopRunning, WakeWorker, JoinWorker,
          CloseAndExit
<1>3. conn[c] = "none" => conn'[c] = "none"
  <2>1. CASE UNCHANGED conn
        BY <2>1
  <2>2. ASSUME NEW d \in Client, Accept(d) \/ Reject(d)
        PROVE  conn[c] = "none" => conn'[c] = "none"
    <3>1. conn[d] = "backlog" /\ \E v : conn' = [conn EXCEPT ![d] = v]
          BY <2>2 DEF Accept, Reject, Pending
    <3> QED BY <1>0, <3>1 DEF ClientInv
  <2>3. CASE remove_client
        BY <1>0, <2>3 DEF remove_client, ProcInv
  <2>4. CASE CloseAndExit
        BY <1>1, <2>4 DEF CloseAndExit, RosterExact
  <2> QED BY <2>1, <2>2, <2>3, <2>4
          DEF ServerStep, Main, Worker, WorkerStep, WakeUp, SpuriousWake, Awake,
              LoopTest, Select, SelectFails, AcceptFails, LockClients, NextSlot, LastSlot,
              ReadData, ReadEnds, Relock, NoLine, Regular, Finish, Discard,
              EnqueueCommit, StopRunning, WakeWorker, JoinWorker, WorkerTest, LockQueue,
              TestQueue, Dequeue, CondWait, LockList, Write, WriteKills, EndBroadcast
<1>4. /\ got[c] <= Len(delivered'[c])
      /\ ~keep_running[c] => delivered'[c][got[c]] = Commit
  <2>1. /\ delivered[c] \in Seq(Message) /\ Len(delivered[c]) \in Nat
        /\ got[c] \in Nat /\ got[c] <= Len(delivered[c])
        /\ ~keep_running[c] => got[c] # 0 /\ delivered[c][got[c]] = Commit
    <3>1. delivered[c] \in Seq(Message)
          BY DEF TypeOK, OutputTypes
    <3> QED BY <1>0, <3>1, LenProperties DEF ThreadInv, ClientStands
  <2>2. CASE delivered'[c] = delivered[c]
        BY <2>1, <2>2
  <2>3. CASE Write /\ delivered'[c] # delivered[c]
    <3>1. /\ delivered' = [delivered EXCEPT ![clients[wi]] = Append(@, node)]
          /\ pcW = "send"
          BY <2>3 DEF Write
    <3>2. delivered'[c] = Append(delivered[c], node)
          BY <2>3, <3>1 DEF TypeOK, OutputTypes
    <3>3. node \in Message
          BY <3>1 DEF TypeOK, WorkerTypes, IndexInv
    <3>4. /\ Len(delivered'[c]) = Len(delivered[c]) + 1
          /\ \A n \in 1..Len(delivered[c]) : delivered'[c][n] = delivered[c][n]
          BY <2>1, <3>2, <3>3, AppendProperties
    <3>5. got[c] # 0 => got[c] \in 1..Len(delivered[c])
          BY <2>1
    <3> QED BY <2>1, <3>4, <3>5
  <2> QED BY <1>1, <2>2, <2>3
<1> QED BY <1>1, <1>2, <1>3, <1>4 DEF ClientStands

LEMMA ClientStandsStep ==
  ASSUME TypeOK, IndexInv, RosterExact, CommitInv, SlotsInv, GroupInv, [GNext]_gvars,
         \A c \in Client : ClientStands(c)
  PROVE  \A c \in Client : ClientStands(c)'
<1> USE DEF clientVars, serverVars
<1>0. /\ ClientInv /\ StreamInv /\ ThreadInv /\ ProcInv /\ BufferInv /\ AheadInv
      BY DEF GroupInv
<1>1. CASE ServerStep
      BY <1>1, ServerKeepsStand
<1>2. CASE UNCHANGED <<cMain, conn, sender, receiver, got, delivered, keep_running, sent, nsent, pcM>>
      BY <1>2 DEF ClientStands
<1>3. PhaseTwo \/ proc # "up" => pcM \in Over
      BY <1>0 DEF CommitInv, PhaseTwo, ProcInv, Over
<1>4. ASSUME NEW c \in Client, Start(c)
      PROVE  \A d \in Client : ClientStands(d)'
  <2>1. /\ cMain' = [cMain EXCEPT ![c] = "join"] /\ sender' = [sender EXCEPT ![c] = "loop"]
        /\ receiver' = [receiver EXCEPT ![c] = "run"] /\ conn' = [conn EXCEPT ![c] = "backlog"]
        /\ UNCHANGED <<got, delivered, keep_running, sent, nsent, pcM>>
        /\ cMain[c] = "start"
        BY <1>4 DEF Start, Connect
  <2>2. keep_running[c]
    <3>1. receiver[c] # "done"
          BY <2>1 DEF ClientStands
    <3> QED BY <3>1 DEF ClientStands
  <2> QED BY <1>0, <2>1, <2>2 DEF ClientStands, ClientInv, ThreadInv
<1>5. ASSUME NEW c \in Client, JoinThreads(c)
      PROVE  \A d \in Client : ClientStands(d)'
  <2>1. /\ cMain' = [cMain EXCEPT ![c] = "close"] /\ sender' = [sender EXCEPT ![c] = "done"]
        /\ UNCHANGED <<conn, receiver, got, delivered, keep_running, sent, nsent, pcM, proc>>
        /\ cMain[c] = "join" /\ receiver[c] = "done"
        BY <1>5 DEF JoinThreads, vars
  <2>2. pcM \in Over
        BY <1>0, <1>3, <2>1 DEF ThreadInv
  <2> QED BY <1>0, <2>1, <2>2 DEF ClientStands, ClientInv
<1>6. ASSUME NEW c \in Client, CloseSocket(c)
      PROVE  \A d \in Client : ClientStands(d)'
  <2>1. /\ cMain' = [cMain EXCEPT ![c] = "done"] /\ cMain[c] = "close"
        /\ UNCHANGED <<conn, sender, receiver, got, delivered, keep_running, sent, nsent, pcM>>
        BY <1>6 DEF CloseSocket
  <2> QED BY <1>0, <2>1 DEF ClientStands, ClientInv
<1>7. ASSUME NEW c \in Client, SendMessage(c)
      PROVE  \A d \in Client : ClientStands(d)'
  <2>1. /\ sent' = [sent EXCEPT ![c] = @ \o RegularLine] /\ nsent' = [nsent EXCEPT ![c] = @ + 1]
        /\ UNCHANGED <<cMain, conn, sender, receiver, got, delivered, keep_running, pcM>>
        /\ sender[c] = "loop"
        BY <1>7 DEF SendMessage, ClientWrite
  <2>2. \A d \in Client : d # c => sent'[d] = sent[d] /\ nsent'[d] = nsent[d]
        BY <1>0, <2>1 DEF ClientInv
  <2> QED BY <2>1, <2>2 DEF ClientStands
<1>8. ASSUME NEW c \in Client, LeaveLoop(c)
      PROVE  \A d \in Client : ClientStands(d)'
  <2>1. /\ sender' = [sender EXCEPT ![c] = "end"]
        /\ UNCHANGED <<cMain, conn, receiver, got, delivered, keep_running, sent, nsent, pcM>>
        BY <1>8 DEF LeaveLoop, vars
  <2> QED BY <1>0, <2>1 DEF ClientStands, ClientInv
<1>9. ASSUME NEW c \in Client, SendEnd(c)
      PROVE  \A d \in Client : ClientStands(d)'
  <2>1. /\ sender' = [sender EXCEPT ![c] = "done"] /\ sender[c] = "end"
        /\ UNCHANGED <<cMain, conn, receiver, got, delivered, keep_running, nsent, pcM>>
        /\ IF keep_running[c] THEN sent' = [sent EXCEPT ![c] = @ \o EndLine] ELSE sent' = sent
        BY <1>9 DEF SendEnd, ClientWrite, vars
  <2>2. \A d \in Client : d # c => sent'[d] = sent[d] /\ sender'[d] = sender[d]
        BY <1>0, <2>1 DEF ClientInv
  <2>3. sender'[c] = "done"
        BY <1>0, <2>1 DEF ClientInv
  <2>4. Len(sent'[c]) = 2 * nsent[c] + 2 \/ pcM \in Over
    <3>1. CASE keep_running[c]
      <4>1. sent'[c] = sent[c] \o EndLine
            BY <1>0, <2>1, <3>1 DEF ClientInv
      <4>2. /\ sent[c] \in Seq(Kind) /\ nsent[c] \in Nat /\ Stream(sent[c], nsent[c])
            /\ Len(sent[c]) = 2 * nsent[c]
            BY <1>0, <2>1 DEF ClientInv, StreamInv, Stream
      <4> QED BY <4>1, <4>2, StreamGrows
    <3>2. CASE ~keep_running[c]
          BY <1>0, <1>3, <3>2 DEF ThreadInv
    <3> QED BY <3>1, <3>2
  <2> QED BY <2>1, <2>2, <2>3, <2>4 DEF ClientStands
<1>10. ASSUME NEW c \in Client, Receive(c)
       PROVE  \A d \in Client : ClientStands(d)'
  <2>1. /\ got' = [got EXCEPT ![c] = @ + 1] /\ receiver[c] = "run" /\ got[c] < Len(delivered[c])
        /\ UNCHANGED <<cMain, conn, sender, delivered, sent, nsent, pcM>>
        BY <1>10 DEF Receive, vars
  <2>2. got[c] \in Nat /\ Len(delivered[c]) \in Nat
    <3>1. delivered[c] \in Seq(Message)
          BY DEF TypeOK, OutputTypes
    <3> QED BY <1>0, <3>1, LenProperties DEF ThreadInv
  <2>3. /\ got'[c] = got[c] + 1 /\ got'[c] <= Len(delivered[c]) /\ got'[c] # 0
        /\ \A d \in Client : d # c => got'[d] = got[d]
        BY <1>0, <2>1, <2>2 DEF ThreadInv
  <2>4. keep_running[c]
        BY <2>1 DEF ClientStands
  <2>5. CASE delivered[c][got[c] + 1] = Commit
    <3>1. /\ keep_running' = [keep_running EXCEPT ![c] = FALSE]
          /\ receiver' = [receiver EXCEPT ![c] = "done"]
          BY <1>10, <2>5 DEF Receive
    <3> QED BY <1>0, <2>1, <2>3, <2>5, <3>1 DEF ClientStands, ThreadInv
  <2>6. CASE delivered[c][got[c] + 1] # Commit
    <3>1. UNCHANGED <<keep_running, receiver>>
          BY <1>10, <2>6 DEF Receive
    <3> QED BY <2>1, <2>3, <2>4, <3>1 DEF ClientStands
  <2> QED BY <2>5, <2>6
<1>11. ASSUME NEW c \in Client, EndOfFile(c)
       PROVE  \A d \in Client : ClientStands(d)'
  <2>1. /\ receiver' = [receiver EXCEPT ![c] = "done"]
        /\ UNCHANGED <<cMain, conn, sender, got, delivered, keep_running, sent, nsent, pcM>>
        /\ receiver[c] = "run"
        BY <1>11 DEF EndOfFile, vars
  <2> QED BY <1>0, <2>1 DEF ClientStands, ThreadInv
<1>12. CASE \E c \in Client : Network(c)
       BY <1>2, <1>12 DEF Network, Arrive
<1>13. CASE UNCHANGED gvars
       BY <1>2, <1>13 DEF gvars, vars
<1> QED BY <1>1, <1>4, <1>5, <1>6, <1>7, <1>8, <1>9, <1>10, <1>11, <1>12, <1>13
        DEF GNext, ServerMain, ServerWorker, ServerStep, ClientMain, ClientSender,
            ClientReceiver, Exited, gvars

LEMMA InitStandInv == GInit => StandInv
<1> SUFFICES ASSUME GInit
             PROVE  StandInv
    OBVIOUS
<1>1. /\ proc = "up" /\ pcM = "loop" /\ finished = 0
      /\ conn = [c \in Client |-> "none"] /\ delivered = [c \in Client |-> <<>>]
      /\ cMain = [c \in Client |-> "start"] /\ sender = [c \in Client |-> "idle"]
      /\ receiver = [c \in Client |-> "idle"] /\ got = [c \in Client |-> 0]
      /\ keep_running = [c \in Client |-> TRUE]
      BY DEF GInit, Init
<1>2. Client # {} => 0 < Expected
  <2>1. Client # {} => Cardinality(Client) # 0
        BY Sizes, FS_EmptySet
  <2> QED BY <2>1, Sizes
<1>3. MainStands
      BY <1>1, <1>2 DEF MainStands
<1>4. \A c \in Client : ClientStands(c)
      BY <1>1 DEF ClientStands
<1> QED BY <1>3, <1>4 DEF StandInv

(* A client all of whose bytes have been read, and of which no line is left *)
(* in the buffer, has been counted if it has sent its Type 1 line.         *)
LEMMA ReadToTheEnd ==
  ASSUME TypeOK, NEW i \in 1..Len(clients), SlotInv(i), ~HasLine(buf[i]),
         NEW n \in Nat, Stream(sent[clients[i]], n), Len(sent[clients[i]]) = 2 * n + 2,
         consumed[clients[i]] = Len(sent[clients[i]])
  PROVE  <<2 * n + 1, 2 * n + 2>> \in EndLines(Processed(i))
<1>1. PICK s \in Seq(Kind) : s = sent[clients[i]]
      BY SlotTypes
<1>2. PICK m \in 0..Len(s) : m = Offset(i) /\ Processed(i) = SubSeq(s, 1, m)
      BY <1>1, OffsetTypes
<1>3. Len(s) = 2 * n + 2 /\ s[2 * n + 1] = "end" /\ s[2 * n + 2] = "nl"
      BY <1>1 DEF Stream
<1>4. m + Len(buf[i]) = Len(s) /\ Len(buf[i]) \in Nat
  <2>1. Len(buf[i]) \in Nat /\ m = Len(s) - Len(buf[i])
        BY <1>1, <1>2, SlotTypes DEF Offset
  <2> QED BY <1>2, <1>3, <2>1
<1>5. Len(buf[i]) = 0
  <2> SUFFICES ASSUME Len(buf[i]) # 0
               PROVE  FALSE
      BY <1>4
  <2>1. PICK k \in 1..Len(buf[i]) : k = Len(buf[i])
        BY <1>4
  <2>2. buf[i][k].kind = s[m + k]
        BY <1>1, <1>2 DEF SlotInv
  <2>3. buf[i][k].kind = "nl"
        BY <1>3, <1>4, <2>1, <2>2
  <2> QED BY <2>3 DEF HasLine
<1>6. m = Len(s)
      BY <1>4, <1>5, <1>2
<1>7. PICK p \in Seq(Kind) : /\ p = SubSeq(s, 1, m) /\ Len(p) = 2 * n + 2
                             /\ \A k \in 1..m : p[k] = s[k]
  <2>1. m \in 0..Len(s)
        OBVIOUS
  <2> QED BY <1>3, <1>6, <2>1, Prefix
<1>8. PICK a \in 1..Len(p), b \in 1..Len(p) : a = 2 * n + 1 /\ b = 2 * n + 2
  <2>1. Len(p) = 2 * n + 2
        BY <1>7
  <2>2. 2 * n + 1 \in 1..(2 * n + 2) /\ 2 * n + 2 \in 1..(2 * n + 2)
        OBVIOUS
  <2> QED BY <2>1, <2>2
<1>9. p[a] = "end" /\ p[b] = "nl"
      BY <1>3, <1>6, <1>7, <1>8
<1>10. a = 1 \/ p[a - 1] = "nl"
  <2>1. CASE n > 0
    <3>1. PICK q \in 1..Len(s) : q = 2 * n
          BY <1>3, <2>1
    <3>2. s[q] = "nl"
      <4>1. n \in 1..n
            BY <2>1
      <4> QED BY <1>1, <3>1, <4>1 DEF Stream
    <3>3. p[q] = s[q] /\ a - 1 = q
          BY <1>6, <1>7, <1>8, <3>1
    <3> QED BY <3>2, <3>3
  <2>2. CASE ~(n > 0)
        BY <1>8, <2>2
  <2> QED BY <2>1, <2>2
<1>11. \A k \in a..(b - 1) : p[k] # "nl"
  <2>1. \A k \in a..(b - 1) : k = a
        BY <1>8
  <2> QED BY <1>9, <2>1
<1>12. a <= b
       BY <1>8
<1>13. <<a, b>> \in Lines(p)
       BY <1>9, <1>10, <1>11, <1>12, LineElements
<1>14. <<a, b>> \in EndLines(p)
       BY <1>8, <1>9, <1>13 DEF EndLines
<1> QED BY <1>2, <1>7, <1>8, <1>14

(* If that holds of everyone, main has counted as many as there are.       *)
LEMMA EverybodyCounted ==
  ASSUME IInv, LinesInv, NobodyRemoved, ~Stopping, NEW n \in [Client -> Nat],
         \A c \in Client : \E i \in 1..Len(clients) :
           /\ clients[i] = c
           /\ <<2 * n[c] + 1, 2 * n[c] + 2>> \in EndLines(Processed(i))
  PROVE  finished >= Cardinality(Client)
<1>1. IsFiniteSet(Ended) /\ finished = Cardinality(Ended)
  <2>1. IsFiniteSet(Ended) /\ finished = Cardinality(Ended) + 0
        BY DEF LinesInv, EndedInv
  <2>2. Cardinality(Ended) \in Nat
        BY <2>1, FS_CardinalityType
  <2> QED BY <2>1, <2>2
<1> DEFINE place == [c \in Client |-> CHOOSE i \in 1..Len(clients) :
                       /\ clients[i] = c
                       /\ <<2 * n[c] + 1, 2 * n[c] + 2>> \in EndLines(Processed(i))]
           f == [c \in Client |-> <<place[c], <<2 * n[c] + 1, 2 * n[c] + 2>>>>]
<1>2. \A c \in Client : /\ place[c] \in 1..Len(clients) /\ clients[place[c]] = c
                        /\ <<2 * n[c] + 1, 2 * n[c] + 2>> \in EndLines(Processed(place[c]))
      OBVIOUS
<1>3. \A c \in Client : f[c] = <<place[c], <<2 * n[c] + 1, 2 * n[c] + 2>>>>
      OBVIOUS
<1> HIDE DEF place
<1>4. \A c \in Client : <<place[c], <<2 * n[c] + 1, 2 * n[c] + 2>>>> \in Ended
      BY <1>2, EndedElements
<1>5. f \in [Client -> Ended]
      BY <1>4
<1> HIDE DEF f
<1>6. \A c, d \in Client : f[c] = f[d] => c = d
  <2> SUFFICES ASSUME NEW c \in Client, NEW d \in Client, f[c] = f[d]
               PROVE  c = d
      OBVIOUS
  <2>1. place[c] = place[d]
        BY <1>3
  <2> QED BY <1>2, <2>1
<1>7. f \in Injection(Client, Ended)
      BY <1>5, <1>6, Fun_IsInj
<1>8. Cardinality(Client) <= Cardinality(Ended)
      BY <1>1, <1>7, FS_Injection
<1>9. Cardinality(Ended) \in Nat /\ Cardinality(Client) \in Nat
      BY <1>1, Sizes, FS_CardinalityType
<1> QED BY <1>1, <1>8, <1>9

(* A client that cannot go on before the server exits has sent its Type 1  *)
(* line, it has all arrived, and it has taken everything from its socket.  *)
LEMMA ClientWaits ==
  ASSUME TypeOK, GroupInv, BroadcastExact, proc = "up", NEW c \in Client, ClientStands(c),
         ~NetworkCanStep(c), ~ClientMainCanStep(c), ~SenderCanStep(c), ~ReceiverCanStep(c)
  PROVE  /\ conn[c] \in {"backlog", "open"} /\ sender[c] = "done"
         /\ arrived[c] = Len(sent[c]) /\ got[c] = Len(delivered[c])
<1>0. ClientInv /\ StreamInv /\ ThreadInv /\ ProcInv
      BY DEF GroupInv
<1>1. cMain[c] # "start"
      BY DEF ClientStands, ClientMainCanStep
<1>2. conn[c] \in {"backlog", "open"}
  <2>1. conn[c] # "none" /\ conn[c] # "shut"
        BY <1>0, <1>1 DEF ClientInv, ProcInv
  <2> QED BY <1>0, <2>1 DEF ClientInv
<1>3. sender[c] = "done"
  <2>1. sender[c] \in {"loop", "end", "done"}
        BY <1>0, <1>1 DEF ClientInv, ClientStands
  <2>2. sender[c] # "end"
    <3>1. keep_running[c] => peer[c] = "up"
          BY <1>0 DEF ClientInv, ThreadInv
    <3> QED BY <1>2, <3>1 DEF SenderCanStep
  <2> QED BY <2>1, <2>2 DEF SenderCanStep
<1>4. arrived[c] = Len(sent[c])
  <2>1. sent[c] \in Seq(Kind) /\ arrived[c] \in Nat /\ arrived[c] <= Len(sent[c])
        BY DEF TypeOK, SocketTypes
  <2> QED BY <2>1, LenProperties DEF NetworkCanStep
<1>5. got[c] = Len(delivered[c])
  <2>1. /\ delivered[c] \in Seq(Message) /\ Len(delivered[c]) \in Nat
        /\ got[c] \in Nat /\ got[c] <= Len(delivered[c])
    <3>1. delivered[c] \in Seq(Message)
          BY DEF TypeOK, OutputTypes
    <3> QED BY <1>0, <3>1, LenProperties DEF ThreadInv, ClientStands
  <2>2. CASE receiver[c] = "run"
        BY <2>1, <2>2 DEF ReceiverCanStep
  <2>3. CASE receiver[c] = "done"
    <3>1. got[c] \in 1..Len(delivered[c]) /\ delivered[c][got[c]] = Commit
      <4>1. ~keep_running[c]
            BY <1>0, <2>3 DEF ThreadInv
      <4> QED BY <2>1, <4>1 DEF ClientStands
    <3>2. /\ since[c] \in Nat /\ order \in Seq(Message)
          BY DEF TypeOK, OutputTypes, SharedTypes
    <3>3. /\ since[c] + Len(delivered[c]) <= Len(order) /\ Len(order) \in Nat
          /\ delivered[c][got[c]] = order[since[c] + got[c]]
          BY <3>1, <3>2, LenProperties DEF BroadcastExact, Broadcast!ContiguousPiece
    <3>4. PICK k \in 1..Len(order) : k = since[c] + got[c]
          BY <2>1, <3>1, <3>2, <3>3
    <3>5. k = Len(order)
          BY <3>1, <3>3, <3>4 DEF BroadcastExact, Broadcast!CommitIsLast
    <3> QED BY <2>1, <3>1, <3>2, <3>3, <3>4, <3>5
  <2>4. receiver[c] \in {"run", "done"}
        BY <1>0, <1>1 DEF ThreadInv, ClientStands
  <2> QED BY <2>2, <2>3, <2>4
<1> QED BY <1>2, <1>3, <1>4, <1>5

(* Then main would not be polling: it would have counted everybody.        *)
LEMMA PollingIsNotTheEnd ==
  ASSUME IInv, LinesInv, GroupInv, StandInv, Client # {}, proc = "up", Polling,
         \A c \in Client : /\ conn[c] \in {"backlog", "open"} /\ sender[c] = "done"
                           /\ arrived[c] = Len(sent[c])
  PROVE  FALSE
<1>0. /\ TypeOK /\ RosterExact /\ SlotsInv
      /\ ClientInv /\ StreamInv /\ ThreadInv /\ ProcInv /\ BufferInv
      /\ MainStands /\ \A c \in Client : ClientStands(c)
      BY DEF IInv, LinesInv, GroupInv, StandInv
<1>1. /\ pcM \notin Over /\ ~Stopping /\ pcM # "commit"
      /\ pcM \in {"loop", "select"}
      BY DEF Polling, Over, Stopping
<1>2. NobodyRemoved
      BY <1>0, NobodyIsRemoved
<1>3. ASSUME NEW c \in Client
      PROVE  \E i \in 1..Len(clients) :
               /\ clients[i] = c
               /\ <<2 * nsent[c] + 1, 2 * nsent[c] + 2>> \in EndLines(Processed(i))
  <2>1. c \in Roster /\ ~Readable(c)
    <3>1. conn[c] = "open"
          BY DEF Polling, Pending
    <3> QED BY <1>0, <3>1 DEF RosterExact, Polling
  <2>2. PICK i \in 1..Len(clients) : clients[i] = c
        BY <2>1 DEF Roster
  <2>3. consumed[c] = Len(sent[c])
    <3>1. /\ sent[c] \in Seq(Kind) /\ consumed[c] \in Nat /\ arrived[c] \in Nat
          /\ consumed[c] <= arrived[c]
          BY <1>0 DEF TypeOK, SocketTypes
    <3>2. ~(arrived[c] > consumed[c])
          BY <2>1 DEF Readable
    <3> QED BY <3>1, <3>2
  <2>4. Len(sent[c]) = 2 * nsent[c] + 2 /\ Stream(sent[c], nsent[c]) /\ nsent[c] \in Nat
        BY <1>0, <1>1 DEF ClientStands, StreamInv, ClientInv
  <2>5. SlotInv(i) /\ ~HasLine(buf[i])
        BY <1>0, <1>1, <1>2 DEF SlotsInv, BufferInv
  <2> QED BY <1>0, <2>2, <2>3, <2>4, <2>5, ReadToTheEnd
<1>4. nsent \in [Client -> Nat]
      BY <1>0 DEF ClientInv
<1>5. finished >= Cardinality(Client)
      BY <1>1, <1>2, <1>3, <1>4, EverybodyCounted
<1>6. finished < Cardinality(Client) /\ finished \in Nat /\ Cardinality(Client) \in Nat
      BY <1>0, <1>1, Sizes DEF MainStands, TypeOK, SharedTypes
<1> QED BY <1>5, <1>6

(* Nor would main or the worker wait: not for a lock, whose holder can     *)
(* step, nor for a client, whose socket is empty, nor for each other.      *)
LEMMA ServerWaits ==
  ASSUME IInv, GroupInv, StandInv, NoLostWakeup, proc = "up", ~WorkerCanStep,
         Polling \/ ~ServerMainCanStep,
         \A c \in Client : got[c] = Len(delivered[c])
  PROVE  Polling
<1>0. /\ TypeOK /\ LockInv /\ IndexInv /\ ThreadInv /\ ProcInv /\ MainStands
      BY DEF IInv, GroupInv, StandInv
<1>1. ~Blocked
  <2> SUFFICES ASSUME Blocked
               PROVE  FALSE
      OBVIOUS
  <2>1. PICK i \in 1..Len(clients) : i = wi
        BY <1>0 DEF Blocked, TypeOK, WorkerTypes, SharedTypes
  <2>2. PICK c \in Client : c = clients[i]
        BY <1>0, SlotTypes
  <2>3. Len(delivered[c]) - got[c] >= SockCap /\ got[c] = Len(delivered[c]) /\ got[c] \in Nat
        BY <1>0, <2>1, <2>2 DEF Blocked, ThreadInv
  <2>4. SockCap \in Nat /\ SockCap # 0
        BY GroupChatAssumption
  <2> QED BY <2>3, <2>4
<1>2. /\ pcW \in {"lockq", "lockc", "asleep", "done"}
      /\ pcW = "lockq" => queueLock # "free"
      /\ pcW = "lockc" => clientLock # "free"
      /\ pcW = "asleep" => ~signalled
      BY <1>0, <1>1 DEF WorkerCanStep, TypeOK, WorkerTypes
<1>3. queueLock = "free" /\ clientLock # "worker"
      BY <1>0, <1>2 DEF LockInv, TypeOK, SharedTypes
<1>4. pcM \notin {"data", "handle", "commit", "stop", "wake"}
      BY <1>3 DEF ServerMainCanStep, Polling
<1>5. clientLock = "free"
      BY <1>0, <1>3, <1>4 DEF LockInv, TypeOK, SharedTypes
<1>6. pcW = "done" \/ (pcW = "asleep" /\ ~signalled)
      BY <1>2, <1>3, <1>5
<1>7. pcM # "join"
  <2> SUFFICES ASSUME pcM = "join"
               PROVE  FALSE
      OBVIOUS
  <2>1. ~running
        BY <1>0 DEF MainStands
  <2>2. pcW = "done"
        BY <1>6, <2>1 DEF NoLostWakeup
  <2> QED BY <2>2 DEF ServerMainCanStep, Polling
<1>8. pcM # "accept"
      BY <1>0, <1>5 DEF ServerMainCanStep, Polling, MainStands
<1>9. pcM \in {"loop", "select"}
      BY <1>0, <1>4, <1>5, <1>7, <1>8 DEF ServerMainCanStep, Polling, MainStands, TypeOK, MainTypes
<1> QED BY <1>5, <1>9 DEF ServerMainCanStep

LEMMA RestIsTheEnd ==
  ASSUME IInv, LinesInv, GroupInv, BroadcastExact, NoLostWakeup, StandInv, Client # {}
  PROVE  RestsOnlyAtTheEnd
<1> SUFFICES ASSUME AtRest
             PROVE  proc = "exited" /\ \A c \in Client : cMain[c] = "done"
    BY DEF RestsOnlyAtTheEnd
<1>0. /\ TypeOK /\ ClientInv /\ ThreadInv /\ ProcInv /\ SettledInv
      /\ MainStands /\ \A c \in Client : ClientStands(c)
      BY DEF IInv, GroupInv, StandInv
<1>1. CASE proc = "up"
  <2>1. \A c \in Client :
          /\ conn[c] \in {"backlog", "open"} /\ sender[c] = "done"
          /\ arrived[c] = Len(sent[c]) /\ got[c] = Len(delivered[c])
        BY <1>0, <1>1, ClientWaits DEF AtRest
  <2>2. Polling
        BY <1>1, <2>1, ServerWaits DEF AtRest
  <2> QED BY <1>1, <2>1, <2>2, PollingIsNotTheEnd
<1>2. CASE proc # "up"
  <2>1. proc = "exited" /\ pcM \in Over
        BY <1>0, <1>2 DEF MainStands, ProcInv, TypeOK, SocketTypes, Over
  <2>2. ASSUME NEW c \in Client
        PROVE  cMain[c] = "done"
    <3>1. cMain[c] # "start"
          BY <1>0, <2>1 DEF SettledInv, ClientInv
    <3>2. cMain[c] # "close"
          BY DEF AtRest, ClientMainCanStep
    <3>3. cMain[c] # "join"
      <4> SUFFICES ASSUME cMain[c] = "join"
                   PROVE  FALSE
          OBVIOUS
      <4>1. receiver[c] = "run"
            BY <1>0, <3>1 DEF AtRest, ClientMainCanStep, ClientStands, ThreadInv
      <4>2. got[c] <= Len(delivered[c]) /\ got[c] \in Nat /\ Len(delivered[c]) \in Nat
        <5>1. delivered[c] \in Seq(Message)
              BY <1>0 DEF TypeOK, OutputTypes
        <5> QED BY <1>0, <5>1, LenProperties DEF ThreadInv, ClientStands
      <4>3. got[c] < Len(delivered[c]) \/ got[c] = Len(delivered[c])
            BY <4>2
      <4> QED BY <1>2, <4>1, <4>3 DEF AtRest, ReceiverCanStep, ServerGone
    <3> QED BY <1>0, <3>1, <3>2, <3>3 DEF ClientInv
  <2> QED BY <2>1, <2>2
<1> QED BY <1>1, <1>2

(* Whatever the schedule and the cuts of the streams, and however small a  *)
(* socket, server and clients never all wait before everything is over:    *)
(* not for a lock, for a full socket, for a signal that was given too      *)
(* early, for input that nobody will send, or for the commit.              *)
THEOREM NeverAllWait ==
  ASSUME Client # {}
  PROVE  GSpec => []RestsOnlyAtTheEnd
<1>1. GSpec => Spec
      BY ClientsAreClients DEF RefinesChatServer
<1>2. Spec => []NoLostWakeup
      BY Bounds, NeverSleepsOverWork
<1>3. IInv /\ LinesInv /\ GroupInv /\ StandInv /\ [GNext]_gvars => StandInv'
      BY MainStandsStep, ClientStandsStep DEF IInv, LinesInv, StandInv
<1>4. IInv /\ LinesInv /\ GroupInv /\ BroadcastExact /\ NoLostWakeup /\ StandInv
        => RestsOnlyAtTheEnd
      BY RestIsTheEnd
<1> QED BY <1>1, <1>2, <1>3, <1>4, InitStandInv, LinesInvariance, GroupInvariance,
           ServerIsABroadcast, PTL DEF GSpec

=============================================================================
