------------------------------ MODULE MCRelayRoom ------------------------------
EXTENDS RelayRoom, TLC

\* The guests are alike.
GuestSymmetry == Permutations(Guest)
=============================================================================
