---------------------------- MODULE MCChatServer ----------------------------
EXTENDS ChatServer, TLC, FiniteSetsExt

CONSTANTS c1, c2, c3

MCInput == {<<"reg", "nl">>, <<"end", "nl">>}
(* What has no newline is as long as the buffer (MCLines), or longer.      *)
MCLines == {<<"reg", "nl">>, <<"reg", "txt", "nl">>, <<"end", "nl">>, <<"end", "txt", "nl">>,
            <<"reg", "txt", "txt", "txt">>}
MCFlood == {<<"reg", "nl">>, <<"end", "nl">>, <<"reg", "txt", "txt">>}
Symmetry == Permutations(Client)

(* The bounds of the run with every fault: bytes the clients write in all, *)
(* enough for two messages or for a buffer filled without a newline; and   *)
(* clients that close or are reset.                                        *)
MaxTotal == 4
MaxGone  == 1

MCBound ==
  /\ MapThenSumSet(LAMBDA c : Len(sent[c]), Client) <= MaxTotal
  /\ Cardinality({c \in Client : peer[c] # "up"}) <= MaxGone
=============================================================================
