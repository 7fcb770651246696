----------------------------- MODULE FifoStreams -----------------------------
(***************************************************************************)
(* What the reliability layer promises its users: between two endpoints, a *)
(* stream of messages in each direction, delivered in order, exactly once, *)
(* and eventually.  ReliableLink implements it; the channel of             *)
(* LockstepMatch, which carries TickFrame and PauseState, is one such      *)
(* stream per client.                                                      *)
(***************************************************************************)
EXTENDS Integers, Sequences

CONSTANTS
  Node,       \* the two endpoints
  Other(_),   \* the peer of an endpoint
  Message

VARIABLES
  sent,       \* what each endpoint has handed to the layer, in order
  delivered   \* what each endpoint has been handed by the layer, in order

vars == <<sent, delivered>>

Init ==
  /\ sent = [n \in Node |-> << >>]
  /\ delivered = [n \in Node |-> << >>]

\* n is handed the messages up to the k-th of its peer's stream (none when k is
\* what it has already), and may answer within the same step.
Exchange(n, k, reply) ==
  /\ k \in Len(delivered[n])..Len(sent[Other(n)])
  /\ delivered' = [delivered EXCEPT ![n] = SubSeq(sent[Other(n)], 1, k)]
  /\ sent' = [sent EXCEPT ![n] = @ \o reply]

Reply == {<< >>} \cup {<<m>> : m \in Message}

Next ==
  \E n \in Node :
    \E k \in Len(delivered[n])..Len(sent[Other(n)]), reply \in Reply : Exchange(n, k, reply)

Spec == Init /\ [][Next]_vars

Progress(n) ==
  \E k \in (Len(delivered[n]) + 1)..Len(sent[Other(n)]), reply \in Reply : Exchange(n, k, reply)

FairSpec == Spec /\ \A n \in Node : WF_vars(Progress(n))
=============================================================================
