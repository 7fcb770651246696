------------------------- MODULE MCLockstepSession ---------------------------
(* LockstepSession for TLC: the clients are interchangeable.               *)
EXTENDS LockstepSession, TLC

ClientSymmetry == Permutations(Client)
===============================================================================
