--------------------------- MODULE MCLockstepMatch ---------------------------
(* Inputs for the model checker. *)
EXTENDS LockstepMatch

\* Every slot and tick has an input of its own, enough to tell a sample that
\* ends up in a wrong slot or tick.
TaggedInput(s, t) == {<<s, t>>}
=============================================================================
