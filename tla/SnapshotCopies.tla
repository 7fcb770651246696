---------------------------- MODULE SnapshotCopies ----------------------------
(***************************************************************************)
(* What the resynchronisation of a rollback match promises, whatever       *)
(* becomes of its messages: the host's simulation goes through numbered    *)
(* snapshots, and a peer's state is replaced by a copy of one of them, as  *)
(* a whole, and never by an older one than the one it has.                 *)
(***************************************************************************)
EXTENDS Naturals

CONSTANT Guest

VARIABLES
    latest,     \* the host's newest snapshot; 0: none yet
    copy        \* the snapshot each guest applied last; 0: none

Init == latest = 0 /\ copy = [g \in Guest |-> 0]

Store == latest' = latest + 1 /\ UNCHANGED copy

Copy(g) ==
    /\ \E v \in 1..latest : v >= copy[g] /\ copy' = [copy EXCEPT ![g] = v]
    /\ UNCHANGED latest

Next == Store \/ \E g \in Guest : Copy(g)

Spec == Init /\ [][Next]_<<latest, copy>>
===============================================================================
