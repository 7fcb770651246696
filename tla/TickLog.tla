------------------------------ MODULE TickLog ------------------------------
(***************************************************************************)
(* What a deterministic netplay match promises: one log of simulation      *)
(* ticks, written by the host, that every peer replays in order and        *)
(* without gaps.  Peers may lag behind the log, they never run ahead of it *)
(* and never see another version of an entry.  LockstepMatch implements    *)
(* this module.                                                            *)
(***************************************************************************)
EXTENDS Naturals, Sequences

CONSTANTS
  Peer,     \* the peers that replay the log
  Frame(_)  \* Frame(t): the frames that may be logged for tick t

VARIABLES
  log,      \* the frames the host has simulated, one per tick
  replayed  \* per peer, the frames it has simulated

vars == <<log, replayed>>

Init ==
  /\ log = << >>
  /\ replayed = [p \in Peer |-> << >>]

\* The host simulates the next tick.
Extend ==
  /\ Len(log') = Len(log) + 1
  /\ SubSeq(log', 1, Len(log)) = log
  /\ log'[Len(log')] \in Frame(Len(log))
  /\ UNCHANGED replayed

\* A peer simulates the next tick it has not simulated yet.
Replay(p) ==
  /\ Len(replayed[p]) < Len(log)
  /\ replayed' = [replayed EXCEPT ![p] = Append(@, log[Len(@) + 1])]
  /\ UNCHANGED log

Next == Extend \/ \E p \in Peer : Replay(p)

Spec == Init /\ [][Next]_vars
=============================================================================
