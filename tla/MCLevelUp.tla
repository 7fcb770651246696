------------------------------- MODULE MCLevelUp -------------------------------
(* Inputs for the model checker. *)
EXTENDS LevelUp

\* The first choice of a list of perks is Infernal Contract.
FirstPerk == {<<"perk", 1, 1>>}
SecondPerk == {<<"perk", 2, 1>>}
===============================================================================
