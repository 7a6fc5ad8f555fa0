--------------------------- MODULE MCThreadedChat ---------------------------
EXTENDS ThreadedChat, TLC

CONSTANTS c1, c2, c3
Symmetry == Permutations(Client)
=============================================================================
