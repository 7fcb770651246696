---------------------------- MODULE ReliableLink ----------------------------
(***************************************************************************)
(* The reliability layer under every netplay session                       *)
(* (src/crimson/net/reliable.py; relay_reliable.py is the same algorithm). *)
(*                                                                         *)
(* A client and a host each own one ReliableLink object and exchange       *)
(* LockstepPackets over UDP: packets are lost, duplicated and reordered.   *)
(* Reliable packets carry a sequence number and are kept in `pending'      *)
(* until acknowledged; every packet, reliable or not, carries a cumulative *)
(* acknowledgement.  There is no packet that is only an acknowledgement.   *)
(*                                                                         *)
(* The client's link exists from the start.  The host creates its link     *)
(* when it accepts a Hello from an unknown address, answers Welcome        *)
(* *before* it primes the link with the Hello's sequence number, and from  *)
(* then on feeds every packet through ingest_packet.                       *)
(***************************************************************************)
EXTENDS Integers, Sequences, FiniteSets

CONSTANTS
  Payload,      \* the messages exchanged after the handshake
  MaxSeq,       \* bound: reliable messages one endpoint ever builds
  MaxInFlight   \* bound: distinct packets in the network at a time

ASSUME BoundsAssumption == MaxSeq \in Nat /\ MaxInFlight \in Nat

Client == "client"
Host == "host"
Node == {Client, Host}
Other(n) == IF n = Client THEN Host ELSE Client

Hello == "hello"
Welcome == "welcome"
\* The payload of an unreliable packet (KeepAlive): only its ack matters here.
KeepAlive == "keepalive"

ASSUME PayloadAssumption == Payload \cap {Hello, Welcome, KeepAlive} = {}

Message == Payload \cup {Hello, Welcome, KeepAlive}

Seqno == 1..MaxSeq

\* LockstepPacket, with the address it is sent to.
Packet == [dst : Node, seq : 0..MaxSeq, ack : 0..MaxSeq,
           reliable : BOOLEAN, message : Message]

\* What `_pending' and `_recv_buffer' keep of a packet, keyed by seq.
Slot == [seq : Seqno, message : Message]

VARIABLES
  open,         \* the host has accepted a Hello and created its link
  nextSeq,      \* _next_seq
  recvHighest,  \* _recv_highest_seq
  pending,      \* _pending
  recvBuffer,   \* _recv_buffer
  net,          \* packets in flight
  sent,         \* history: reliable messages built, in order
  delivered     \* history: reliable messages handed to the application

link == <<nextSeq, recvHighest, pending, recvBuffer>>
vars == <<open, nextSeq, recvHighest, pending, recvBuffer, net, sent, delivered>>

Seqs(slots) == {q.seq : q \in slots}

TypeOK ==
  /\ open \in BOOLEAN
  /\ nextSeq \in [Node -> 1..(MaxSeq + 1)]
  /\ recvHighest \in [Node -> 0..MaxSeq]
  /\ pending \in [Node -> SUBSET Slot]
  /\ recvBuffer \in [Node -> SUBSET Slot]
  /\ net \in SUBSET Packet
  /\ sent \in [Node -> Seq(Message)]
  /\ delivered \in [Node -> Seq(Message)]

\* Mutant of Init: sequence numbers that start at 0, the "unreliable" number.
InitSeqZero ==
  /\ open = FALSE
  /\ nextSeq = [n \in Node |-> 0]
  /\ recvHighest = [n \in Node |-> 0]
  /\ pending = [n \in Node |-> {}]
  /\ recvBuffer = [n \in Node |-> {}]
  /\ net = {}
  /\ sent = [n \in Node |-> << >>]
  /\ delivered = [n \in Node |-> << >>]

Init ==
  /\ open = FALSE
  /\ nextSeq = [n \in Node |-> 1]
  /\ recvHighest = [n \in Node |-> 0]
  /\ pending = [n \in Node |-> {}]
  /\ recvBuffer = [n \in Node |-> {}]
  /\ net = {}
  /\ sent = [n \in Node |-> << >>]
  /\ delivered = [n \in Node |-> << >>]

-----------------------------------------------------------------------------
\* The network takes a packet only while it has room (a bound of the model).
Transmit(pkts, base) ==
  /\ net' = base \cup pkts
  /\ Cardinality(net') <= MaxInFlight

\* The packet build_packet and poll_resends make for a pending message.
ReliablePacket(n, s, m) ==
  [dst |-> Other(n), seq |-> s, ack |-> recvHighest[n], reliable |-> TRUE, message |-> m]

\* build_packet(message, reliable=True), which every reliable send goes through.
BuildReliable(n, m) ==
  /\ nextSeq[n] <= MaxSeq
  /\ nextSeq' = [nextSeq EXCEPT ![n] = @ + 1]
  /\ pending' = [pending EXCEPT ![n] = @ \cup {[seq |-> nextSeq[n], message |-> m]}]
  /\ sent' = [sent EXCEPT ![n] = Append(@, m)]

\* The client says Hello while it has no Welcome and nothing unacknowledged.
SendHello ==
  /\ delivered[Client] = << >>
  /\ pending[Client] = {}
  /\ BuildReliable(Client, Hello)
  /\ Transmit({ReliablePacket(Client, nextSeq[Client], Hello)}, net)
  /\ UNCHANGED <<open, recvHighest, recvBuffer, delivered>>

\* An endpoint talks only to a peer it knows: the client once it has been
\* welcomed, the host once it has accepted a Hello.
Established(n) == IF n = Client THEN delivered[Client] # << >> ELSE open

\* Mutant of SendReliable: either side talks before the handshake.
SendBeforeHandshake(n, m) ==
  /\ BuildReliable(n, m)
  /\ Transmit({ReliablePacket(n, nextSeq[n], m)}, net)
  /\ UNCHANGED <<open, recvHighest, recvBuffer, delivered>>

SendReliable(n, m) ==
  /\ Established(n)
  /\ BuildReliable(n, m)
  /\ Transmit({ReliablePacket(n, nextSeq[n], m)}, net)
  /\ UNCHANGED <<open, recvHighest, recvBuffer, delivered>>

\* Mutant of SendUnreliable: only reliable packets carry the ack.
SendWithoutAck(n) ==
  /\ Established(n)
  /\ Transmit({[dst |-> Other(n), seq |-> 0, ack |-> 0,
                reliable |-> FALSE, message |-> KeepAlive]}, net)
  /\ UNCHANGED <<open, link, sent, delivered>>

\* build_packet(message, reliable=False): a KeepAlive carries the ack.
SendUnreliable(n) ==
  /\ Established(n)
  /\ Transmit({[dst |-> Other(n), seq |-> 0, ack |-> recvHighest[n],
                reliable |-> FALSE, message |-> KeepAlive]}, net)
  /\ UNCHANGED <<open, link, sent, delivered>>

\* Mutant of PollResends: only the packet built last is ever sent again.
ResendLast(n, due) ==
  /\ due # {}
  /\ due \subseteq {q \in pending[n] : q.seq + 1 = nextSeq[n]}
  /\ Transmit({ReliablePacket(n, q.seq, q.message) : q \in due}, net)
  /\ UNCHANGED <<open, link, sent, delivered>>

\* poll_resends: `due' are the pending packets older than resend_ms.
PollResends(n, due) ==
  /\ due # {}
  /\ due \subseteq pending[n]
  /\ Transmit({ReliablePacket(n, q.seq, q.message) : q \in due}, net)
  /\ UNCHANGED <<open, link, sent, delivered>>

\* Mutant of ApplyAck: the ack is taken for the next expected number.
ApplyAckNext(n, ack) ==
  pending' = [pending EXCEPT ![n] = {q \in @ : q.seq > ack + 1}]

\* _apply_ack
ApplyAck(n, ack) ==
  pending' = [pending EXCEPT ![n] = {q \in @ : q.seq > ack}]

\* A received packet leaves the network, or stays in it as its own duplicate.
Remaining(p) == {net, net \ {p}}

\* Mutant of IngestAckOnly: a duplicate is handed to the application again.
IngestDuplicate(n, p) ==
  /\ \/ ~p.reliable
     \/ p.seq <= recvHighest[n]
     \/ p.seq \in Seqs(recvBuffer[n])
  /\ ApplyAck(n, p.ack)
  /\ delivered' = IF p.reliable THEN [delivered EXCEPT ![n] = Append(@, p.message)] ELSE delivered
  /\ UNCHANGED <<open, nextSeq, recvHighest, recvBuffer, sent>>

\* ingest_packet of anything that only carries an ack: an unreliable packet,
\* and a duplicate (already delivered, or already buffered).
IngestAckOnly(n, p) ==
  /\ \/ ~p.reliable
     \/ p.seq <= recvHighest[n]
     \/ p.seq \in Seqs(recvBuffer[n])
  /\ ApplyAck(n, p.ack)
  /\ UNCHANGED <<open, nextSeq, recvHighest, recvBuffer, sent, delivered>>

\* Mutants of IngestNew: delivery in order of arrival; and an `if' for the
\* `while', which delivers one message of the run and leaves the rest buffered.
IngestOnArrival(n, p) ==
  /\ p.reliable
  /\ p.seq > recvHighest[n]
  /\ ApplyAck(n, p.ack)
  /\ recvHighest' = [recvHighest EXCEPT ![n] = p.seq]
  /\ delivered' = [delivered EXCEPT ![n] = Append(@, p.message)]
  /\ UNCHANGED <<open, nextSeq, recvBuffer, sent>>

IngestOne(n, p) ==
  LET buffer == recvBuffer[n] \cup {[seq |-> p.seq, message |-> p.message]}
      next == recvHighest[n] + 1
  IN /\ p.reliable
     /\ p.seq > recvHighest[n]
     /\ p.seq \notin Seqs(recvBuffer[n])
     /\ ApplyAck(n, p.ack)
     /\ IF p.seq = next
          THEN /\ recvHighest' = [recvHighest EXCEPT ![n] = next]
               /\ delivered' = [delivered EXCEPT ![n] = Append(@, p.message)]
               /\ UNCHANGED recvBuffer
          ELSE /\ recvBuffer' = [recvBuffer EXCEPT ![n] = buffer]
               /\ UNCHANGED <<recvHighest, delivered>>
     /\ UNCHANGED <<open, nextSeq, sent>>

\* ingest_packet of a reliable packet never seen before: it is buffered, then
\* the contiguous run that starts after recvHighest is delivered in order.
IngestNew(n, p) ==
  LET buffer == recvBuffer[n] \cup {[seq |-> p.seq, message |-> p.message]}
      first == recvHighest[n] + 1
      MessageAt(s) == (CHOOSE q \in buffer : q.seq = s).message
  IN /\ p.reliable
     /\ p.seq > recvHighest[n]
     /\ p.seq \notin Seqs(recvBuffer[n])
     /\ ApplyAck(n, p.ack)
     /\ \E last \in recvHighest[n]..MaxSeq :
          /\ first..last \subseteq Seqs(buffer)
          /\ last + 1 \notin Seqs(buffer)
          /\ recvHighest' = [recvHighest EXCEPT ![n] = last]
          /\ recvBuffer' = [recvBuffer EXCEPT ![n] = {q \in buffer : q.seq > last}]
          /\ delivered' = [delivered EXCEPT
                 ![n] = @ \o [i \in 1..(last - recvHighest[n]) |-> MessageAt(recvHighest[n] + i)]]
     /\ UNCHANGED <<open, nextSeq, sent>>

\* recv_packets + ingest_packet for a known peer.
Ingest(n, p) ==
  /\ p \in net
  /\ p.dst = n
  /\ n = Client \/ open
  /\ net' \in Remaining(p)
  /\ IngestAckOnly(n, p) \/ IngestNew(n, p)

\* A Hello from an address the host does not know: the host creates the link,
\* sends Welcome (its ack is still 0), then prime_recv_seq(packet.seq).  The
\* LobbyState broadcast that follows is one of the SendReliable messages.
AcceptHello(p) ==
  /\ p \in net
  /\ p.dst = Host
  /\ ~open
  /\ p.message = Hello
  /\ open' = TRUE
  /\ BuildReliable(Host, Welcome)
  /\ \E rest \in Remaining(p) : Transmit({ReliablePacket(Host, nextSeq[Host], Welcome)}, rest)
  /\ recvHighest' = [recvHighest EXCEPT ![Host] = p.seq]
  /\ delivered' = [delivered EXCEPT ![Host] = Append(@, Hello)]
  /\ UNCHANGED recvBuffer

\* UDP loses a packet.
Lose(p) ==
  /\ p \in net
  /\ net' = net \ {p}
  /\ UNCHANGED <<open, link, sent, delivered>>

Next ==
  \/ SendHello
  \/ \E n \in Node, m \in Payload : SendReliable(n, m)
  \/ \E n \in Node : SendUnreliable(n)
  \/ \E n \in Node : \E due \in SUBSET pending[n] : PollResends(n, due)
  \/ \E n \in Node, p \in net : Ingest(n, p)
  \/ \E p \in net : AcceptHello(p)
  \/ \E p \in net : Lose(p)

Spec == Init /\ [][Next]_vars

(***************************************************************************)
(* Fairness.  Every update() of either endpoint polls the resend timers,   *)
(* so a packet that stays pending is sent again and again; both roles send *)
(* keepalives while connected; and the network is fair-lossy: a packet     *)
(* sent for ever is received for ever.  Strong fairness, because the bound *)
(* on packets in flight may disable a sender that the code never blocks.   *)
(***************************************************************************)
ResendOldest(n) ==
  \E q \in pending[n] : (\A r \in pending[n] : q.seq <= r.seq) /\ PollResends(n, {q})

ReceiveNext(n) ==
  \E p \in net :
    /\ p.dst = n /\ p.reliable /\ p.seq = recvHighest[n] + 1
    /\ Ingest(n, p) \/ (n = Host /\ AcceptHello(p))

ReceiveFreshAck(n) ==
  \E p \in net : p.dst = n /\ ~p.reliable /\ p.ack = recvHighest[Other(n)] /\ Ingest(n, p)

Fairness ==
  /\ WF_vars(SendHello)
  /\ WF_vars(\E p \in net : Lose(p))
  /\ \A n \in Node :
       /\ SF_vars(ResendOldest(n))
       /\ SF_vars(SendUnreliable(n))
       /\ SF_vars(ReceiveNext(n))
       /\ SF_vars(ReceiveFreshAck(n))

FairSpec == Spec /\ Fairness

-----------------------------------------------------------------------------
(***************************************************************************)
(* What the layer promises.                                                *)
(***************************************************************************)

\* In order, exactly once: what an endpoint's application has been handed is a
\* prefix of what the peer's application has sent (ingest_packet's duplicate
\* tests, its buffer, and the priming of the Hello all contribute).
InOrderExactlyOnce ==
  \A n \in Node :
    /\ Len(delivered[n]) = recvHighest[n]
    /\ recvHighest[n] <= Len(sent[Other(n)])
    /\ \A i \in 1..recvHighest[n] : delivered[n][i] = sent[Other(n)][i]

\* Nothing is forgotten: a message the peer has not delivered is still pending
\* at its sender, so that poll_resends can repair any loss, whatever stale,
\* duplicated or reordered acks _apply_ack has seen.
UndeliveredIsPending ==
  \A n \in Node : \A s \in 1..Len(sent[n]) :
    s > recvHighest[Other(n)] => [seq |-> s, message |-> sent[n][s]] \in pending[n]

\* The reorder buffer holds only packets beyond a gap, each the message its
\* sequence number was given to: no deliverable message waits in it.
BufferBeyondGap ==
  \A n \in Node : \A q \in recvBuffer[n] :
    /\ q.seq > recvHighest[n] + 1
    /\ q.seq <= Len(sent[Other(n)])
    /\ q.message = sent[Other(n)][q.seq]

\* The host knows the client exactly when the Hello was delivered to it, and
\* the client hears of the host first by its Welcome.
HandshakeFirst ==
  /\ open <=> delivered[Host] # << >>
  /\ delivered[Host] # << >> => delivered[Host][1] = Hello
  /\ delivered[Client] # << >> => open /\ delivered[Client][1] = Welcome

\* The two directions of the link are in-order, exactly-once FIFO streams: this
\* is the abstraction the rest of the netplay code is written against.
Fifo == INSTANCE FifoStreams

FifoSpec == Fifo!Spec

\* ... and live ones: every reliable message is eventually delivered, however
\* often the network loses it, when both sides keep polling.
FifoFairSpec == Fifo!FairSpec

\* Every pending packet is eventually acknowledged: acks ride on the peer's
\* own traffic, so this rests on the keepalives.
EventuallyAcked ==
  \A n \in Node, s \in Seqno : (s \in Seqs(pending[n])) ~> (s \notin Seqs(pending[n]))
=============================================================================
