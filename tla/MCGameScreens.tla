---------------------------- MODULE MCGameScreens -----------------------------
(* A profile with two relics and two cells, two network sessions, and three  *)
(* screens under the active one.                                             *)
EXTENDS GameScreens, TLC

Relics == {"r1", "r2"}
Cells == {"c1", "c2"}
===============================================================================
