--------------------------- MODULE MCRollbackMatch ---------------------------
(* Inputs for the model checker. *)
EXTENDS RollbackMatch

\* Every input of the host's player differs from the one before it, so that no
\* prediction of it is right; the other player's is predicted once it is known.
Alternating(s, t) ==
  IF s # Host THEN {"move"}
  ELSE IF t >= MaxTick THEN {}
  ELSE {IF t % 2 = 1 THEN "fire" ELSE Neutral}
=============================================================================
