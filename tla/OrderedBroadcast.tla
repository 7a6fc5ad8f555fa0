-------------------------- MODULE OrderedBroadcast --------------------------
(***************************************************************************)
(* What the group-chat server promises its clients, with no threads, locks *)
(* or buffers: the messages form one sequence, `order'; a broadcast hands  *)
(* the next message of it to every member before the next one starts; a    *)
(* client joins and leaves only between two broadcasts; and nothing is     *)
(* submitted once the commit message is in the sequence.                   *)
(***************************************************************************)
EXTENDS Naturals, Sequences

CONSTANTS Client, Message, Commit

VARIABLES
  order,      \* every message submitted so far, in the order of submission
  frontier,   \* how many of them have been handed to every member
  members,    \* clients that are joined
  served,     \* members that already have message frontier + 1
  gone,       \* clients whose end of the connection is closed
  since,      \* since[c]: the frontier at the moment c joined
  delivered   \* delivered[c]: the messages c's connection has accepted

vars == <<order, frontier, members, served, gone, since, delivered>>

Init ==
  /\ order = <<>>
  /\ frontier = 0
  /\ members = {}
  /\ served = {}
  /\ gone = {}
  /\ since = [c \in Client |-> 0]
  /\ delivered = [c \in Client |-> <<>>]

(* The sequence grows at its end, by one message, until the commit.        *)
Submit ==
  /\ \A n \in 1..Len(order) : order[n] # Commit
  /\ order' \in Seq(Message)
  /\ Len(order') = Len(order) + 1
  /\ \A n \in 1..Len(order) : order'[n] = order[n]
  /\ UNCHANGED <<frontier, members, served, gone, since, delivered>>

(* One client at a time joins, between two broadcasts; it has received     *)
(* nothing, and its first message will be the next one of the sequence.    *)
Join(c) ==
  /\ c \notin members
  /\ served = {}
  /\ delivered[c] = <<>>
  /\ members' = members \cup {c}
  /\ since' = [since EXCEPT ![c] = frontier]
  /\ UNCHANGED <<order, frontier, served, gone, delivered>>

Leave(c) ==
  /\ c \in members
  /\ served = {}
  /\ members' = members \ {c}
  /\ gone' = gone \cup {c}
  /\ UNCHANGED <<order, frontier, served, since, delivered>>

(* Any number of connections end on the clients' side, or all at once when *)
(* the server exits.                                                       *)
Vanish ==
  /\ gone' \in SUBSET Client
  /\ gone \subseteq gone'
  /\ UNCHANGED <<order, frontier, members, served, since, delivered>>

Deliver(c) ==
  /\ c \in members \ served
  /\ frontier < Len(order)
  /\ served' = served \cup {c}
  /\ delivered' = IF c \in gone
                    THEN delivered
                    ELSE [delivered EXCEPT ![c] = Append(@, order[frontier + 1])]
  /\ UNCHANGED <<order, frontier, members, gone, since>>

Advance ==
  /\ frontier < Len(order)
  /\ served = members
  /\ frontier' = frontier + 1
  /\ served' = {}
  /\ UNCHANGED <<order, members, gone, since, delivered>>

Next ==
  \/ \E c \in Client : Join(c) \/ Leave(c) \/ Deliver(c)
  \/ Advance
  \/ Vanish
  \/ Submit

Spec == Init /\ [][Next]_vars

-----------------------------------------------------------------------------

(* Every client has a contiguous piece of the one sequence, starting where *)
(* it joined: no gap, no repetition, no two clients that disagree.         *)
ContiguousPiece ==
  \A c \in Client :
    /\ since[c] + Len(delivered[c]) <= Len(order)
    /\ \A n \in 1..Len(delivered[c]) : delivered[c][n] = order[since[c] + n]

(* A member that is still there is exactly at the frontier, or one past it *)
(* when the broadcast in progress has already served it.                   *)
Lockstep ==
  \A c \in members \ gone :
    since[c] + Len(delivered[c]) = IF c \in served THEN frontier + 1 ELSE frontier

(* The commit, when it is there, is the last message of the sequence.      *)
CommitIsLast ==
  \A n \in 1..Len(order) : order[n] = Commit => n = Len(order)

=============================================================================
