----------------------------- MODULE MCGroupChat -----------------------------
EXTENDS GroupChat, TLC

CONSTANTS c1, c2

MCInput == {RegularLine, EndLine}
Symmetry == Permutations(Client)
=============================================================================
