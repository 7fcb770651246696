-------------------------- MODULE ReliableLinkProofs --------------------------
(***************************************************************************)
(* Proofs about ReliableLink for every Payload, MaxSeq and MaxInFlight.    *)
(***************************************************************************)
EXTENDS ReliableLink, TLAPS

\* The nodes are two different strings, each the other's peer.
LEMMA NodeFacts ==
  /\ Client # Host /\ Client \in Node /\ Host \in Node
  /\ \A n \in Node : Other(n) \in Node /\ Other(n) # n /\ Other(Other(n)) = n
  /\ \A n, k \in Node : n # k => k = Other(n)
  BY DEF Client, Host, Node, Other

\* What the history variables and the counters always have to do with each
\* other, one conjunct per invariant of the link.
StreamInv ==
  \A n \in Node :
    /\ nextSeq[n] = Len(sent[n]) + 1
    /\ Len(delivered[n]) = recvHighest[n]
    /\ recvHighest[n] <= Len(sent[Other(n)])
    /\ \A i \in 1..recvHighest[n] : delivered[n][i] = sent[Other(n)][i]

\* Every packet in flight, pending or buffered carries the message that its
\* sequence number was given to.
SlotInv(n, q) ==
  /\ q.seq \in 1..Len(sent[n])
  /\ q.message = sent[n][q.seq]

PendingInv == \A n \in Node : \A q \in pending[n] : SlotInv(n, q)

BufferInv == \A n \in Node : \A q \in recvBuffer[n] :
  SlotInv(Other(n), q) /\ q.seq > recvHighest[n] + 1

\* ... and no packet acknowledges more than its sender has received.
NetInv == \A p \in net :
  /\ p.ack <= recvHighest[Other(p.dst)]
  /\ p.reliable => SlotInv(Other(p.dst), p)
  /\ p.message = Hello => p.reliable

\* Before the host knows the client, nothing was sent to the client, and the
\* client has said Hello at most once.
HandshakeInv ==
  /\ ~open => /\ sent[Host] = << >> /\ delivered[Host] = << >>
              /\ Len(sent[Client]) <= 1
              /\ recvBuffer[Host] = {}
              /\ \A p \in net : p.dst = Host

IInv ==
  /\ TypeOK
  /\ StreamInv
  /\ PendingInv
  /\ UndeliveredIsPending
  /\ BufferInv
  /\ NetInv
  /\ HandshakeInv

-----------------------------------------------------------------------------
\* The invariant holds initially.
LEMMA InitIInv == Init => IInv
  <1> SUFFICES ASSUME Init PROVE IInv
    OBVIOUS
  <1> USE NodeFacts, BoundsAssumption
  <1>1. TypeOK
    <2>1. << >> \in Seq(Message) /\ 1 \in 1..(MaxSeq + 1) /\ 0 \in 0..MaxSeq
      OBVIOUS
    <2>2. QED
      BY <2>1, Zenon DEF Init, TypeOK
  <1>2. StreamInv /\ UndeliveredIsPending
    BY DEF Init, StreamInv, UndeliveredIsPending
  <1>3. PendingInv /\ BufferInv /\ NetInv
    BY DEF Init, PendingInv, BufferInv, NetInv
  <1>4. HandshakeInv
    BY DEF Init, HandshakeInv
  <1>5. QED
    BY <1>1, <1>2, <1>3, <1>4 DEF IInv

\* build_packet of a reliable message keeps every part of the invariant: the
\* new message is the last of its stream and is pending.
LEMMA BuildPreserves ==
  ASSUME IInv, NEW n \in Node, NEW m \in Message,
         BuildReliable(n, m),
         net' = net \cup {ReliablePacket(n, nextSeq[n], m)},
         UNCHANGED <<open, recvHighest, recvBuffer, delivered>>,
         open \/ (n = Client /\ sent[Client] = << >>)
  PROVE  IInv'
  <1> USE NodeFacts
  <1>0. /\ TypeOK /\ StreamInv /\ PendingInv /\ UndeliveredIsPending
        /\ BufferInv /\ NetInv /\ HandshakeInv
    BY DEF IInv
  <1>1. PICK s \in Seqno : s = nextSeq[n] /\ s = Len(sent[n]) + 1
    BY <1>0, BoundsAssumption DEF TypeOK, StreamInv, BuildReliable, Seqno
  <1>p. PICK pkt \in Packet :
          /\ pkt = ReliablePacket(n, s, m)
          /\ pkt = [dst |-> Other(n), seq |-> s, ack |-> recvHighest[n],
                    reliable |-> TRUE, message |-> m]
    <2>1. recvHighest[n] \in 0..MaxSeq /\ s \in 0..MaxSeq /\ Other(n) \in Node
      BY <1>0, <1>1, BoundsAssumption DEF TypeOK, Seqno
    <2>2. [dst |-> Other(n), seq |-> s, ack |-> recvHighest[n],
           reliable |-> TRUE, message |-> m] \in Packet
      BY <2>1 DEF Packet
    <2>3. QED
      BY <1>1, <2>2 DEF ReliablePacket
  <1>2. /\ \A k \in Node : k # n => sent'[k] = sent[k] /\ nextSeq'[k] = nextSeq[k]
                                    /\ pending'[k] = pending[k]
        /\ sent'[n] = Append(sent[n], m)
        /\ nextSeq'[n] = s + 1
        /\ pending'[n] = pending[n] \cup {[seq |-> s, message |-> m]}
    BY <1>0, <1>1 DEF BuildReliable, TypeOK
  <1>3. \A k \in Node : sent[k] \in Seq(Message) /\ sent'[k] \in Seq(Message)
    <2>1. \A k \in Node : sent[k] \in Seq(Message)
      BY <1>0 DEF TypeOK
    <2>2. Append(sent[n], m) \in Seq(Message)
      BY <2>1
    <2>3. QED
      BY <1>2, <2>1, <2>2
  <1>4. /\ Len(sent'[n]) = s
        /\ sent'[n][s] = m
        /\ \A i \in 1..(s - 1) : sent'[n][i] = sent[n][i]
    BY <1>1, <1>2, <1>3
  <1>5. TypeOK'
    <2>1. net' \in SUBSET Packet
      BY <1>0, <1>1, <1>p DEF TypeOK
    <2>2. [seq |-> s, message |-> m] \in Slot
      BY <1>1 DEF Slot
    <2>3. pending' \in [Node -> SUBSET Slot]
      <3>1. pending \in [Node -> SUBSET Slot]
        BY <1>0 DEF TypeOK
      <3>2. pending[n] \cup {[seq |-> s, message |-> m]} \in SUBSET Slot
        BY <2>2, <3>1
      <3>3. QED
        BY <1>1, <3>1, <3>2, Zenon DEF BuildReliable
    <2>4. nextSeq' \in [Node -> 1..(MaxSeq + 1)] /\ sent' \in [Node -> Seq(Message)]
      BY <1>0, <1>1, BoundsAssumption DEF BuildReliable, TypeOK, Seqno
    <2>5. QED
      BY <1>0, <2>1, <2>3, <2>4 DEF TypeOK
  <1>6. StreamInv'
    <2>1. SUFFICES ASSUME NEW k \in Node
                   PROVE  /\ nextSeq'[k] = Len(sent'[k]) + 1
                          /\ Len(delivered[k]) = recvHighest[k]
                          /\ recvHighest[k] <= Len(sent'[Other(k)])
                          /\ \A i \in 1..recvHighest[k] :
                               delivered[k][i] = sent'[Other(k)][i]
      BY DEF StreamInv
    <2>2. /\ Len(delivered[k]) = recvHighest[k]
          /\ recvHighest[k] \in Nat
          /\ recvHighest[k] <= Len(sent[Other(k)])
          /\ \A i \in 1..recvHighest[k] : delivered[k][i] = sent[Other(k)][i]
          /\ nextSeq[k] = Len(sent[k]) + 1
      BY <1>0, BoundsAssumption DEF StreamInv, TypeOK
    <2>3. CASE k = n
      <3>1. sent'[Other(k)] = sent[Other(k)] /\ nextSeq'[k] = s + 1 /\ Len(sent'[k]) = s
        BY <1>2, <1>4, <2>3
      <3>2. nextSeq'[k] = Len(sent'[k]) + 1
        BY <3>1
      <3>3. /\ recvHighest[k] <= Len(sent'[Other(k)])
            /\ \A i \in 1..recvHighest[k] : delivered[k][i] = sent'[Other(k)][i]
        BY <3>1, <2>2, Zenon
      <3>4. QED
        BY <3>2, <3>3, <2>2, Zenon
    <2>4. CASE k = Other(n)
      <3>1. Other(k) = n /\ k # n
        BY <2>4
      <3>2. nextSeq'[k] = Len(sent'[k]) + 1
        BY <1>2, <2>2, <3>1
      <3>3. recvHighest[k] <= s - 1 /\ Len(sent'[n]) = s
        BY <1>1, <1>4, <2>2, <3>1
      <3>4. /\ recvHighest[k] <= Len(sent'[Other(k)])
            /\ \A i \in 1..recvHighest[k] : delivered[k][i] = sent'[Other(k)][i]
        BY <1>1, <1>4, <2>2, <3>1, <3>3
      <3>5. QED
        BY <3>2, <3>4, <2>2, Zenon
    <2>5. QED
      BY <2>3, <2>4
  <1>7. \A k \in Node : \A q : SlotInv(k, q) => SlotInv(k, q)'
    BY <1>1, <1>2, <1>3, <1>4 DEF SlotInv
  <1>8. PendingInv'
    <2>1. ASSUME NEW k \in Node, NEW q \in pending'[k]
          PROVE  SlotInv(k, q)'
      <3>1. CASE q \in pending[k]
        BY <1>0, <3>1, <1>7 DEF PendingInv
      <3>2. CASE q \notin pending[k]
        <4>1. k = n /\ q = [seq |-> s, message |-> m]
          BY <1>1, <1>2, <3>2
        <4>2. QED
          BY <4>1, <1>1, <1>4 DEF SlotInv, Seqno
      <3>3. QED
        BY <3>1, <3>2
    <2>2. QED
      BY <2>1 DEF PendingInv
  <1>9. UndeliveredIsPending'
    <2>1. SUFFICES ASSUME NEW k \in Node, NEW i \in 1..Len(sent'[k]), i > recvHighest[Other(k)]
                   PROVE  [seq |-> i, message |-> sent'[k][i]] \in pending'[k]
      BY DEF UndeliveredIsPending
    <2>2. CASE i \in 1..Len(sent[k]) /\ sent'[k][i] = sent[k][i]
      BY <1>0, <1>2, <2>1, <2>2 DEF UndeliveredIsPending
    <2>3. CASE k = n /\ i = s
      BY <1>2, <1>4, <2>3
    <2>4. QED
      BY <1>1, <1>2, <1>3, <1>4, <2>2, <2>3
  <1>10. BufferInv'
    BY <1>0, <1>7 DEF BufferInv
  <1>11. NetInv'
    <2>1. SlotInv(n, pkt)'
      BY <1>1, <1>p, <1>4 DEF SlotInv, Seqno
    <2>2. /\ pkt.ack = recvHighest[n] /\ recvHighest[n] \in Int
          /\ Other(pkt.dst) = n /\ pkt.reliable
      BY <1>0, <1>p, BoundsAssumption DEF TypeOK
    <2>3. net' = net \cup {pkt} /\ recvHighest' = recvHighest
      BY <1>1, <1>p
    <2>4. ASSUME NEW p \in net'
          PROVE  /\ p.ack <= recvHighest[Other(p.dst)]
                 /\ p.reliable => SlotInv(Other(p.dst), p)'
                 /\ p.message = Hello => p.reliable
      <3>1. CASE p \in net
        <4>1. Other(p.dst) \in Node
          BY <1>0, <3>1 DEF TypeOK, Packet
        <4>2. QED
          BY <1>0, <1>7, <2>3, <3>1, <4>1 DEF NetInv
      <3>2. CASE p = pkt
        BY <2>1, <2>2, <3>2
      <3>3. QED
        BY <2>3, <3>1, <3>2
    <2>5. QED
      BY <2>3, <2>4 DEF NetInv
  <1>12. HandshakeInv'
    BY <1>0, <1>1, <1>p, <1>2, <1>4 DEF HandshakeInv
  <1>13. QED
    BY <1>5, <1>6, <1>8, <1>9, <1>10, <1>11, <1>12 DEF IInv

-----------------------------------------------------------------------------
\* Receiving a packet that only carries an ack (unreliable or duplicate) keeps
\* the invariant: the ack covers nothing the peer still misses.
LEMMA AckOnlyPreserves ==
  ASSUME IInv, NEW n \in Node, NEW p \in net, p.dst = n,
         net' \in Remaining(p), IngestAckOnly(n, p)
  PROVE  IInv'
  <1> USE NodeFacts
  <1>0. /\ TypeOK /\ StreamInv /\ PendingInv /\ UndeliveredIsPending
        /\ BufferInv /\ NetInv /\ HandshakeInv
    BY DEF IInv
  <1>1. /\ UNCHANGED <<open, nextSeq, recvHighest, recvBuffer, sent, delivered>>
        /\ pending' = [pending EXCEPT ![n] = {q \in @ : q.seq > p.ack}]
    BY DEF IngestAckOnly, ApplyAck
  <1>2. net' \subseteq net
    BY DEF Remaining
  <1>3. /\ \A k \in Node : pending'[k] \subseteq pending[k]
        /\ \A k \in Node : k # n => pending'[k] = pending[k]
        /\ \A q \in pending[n] : q.seq > p.ack => q \in pending'[n]
    BY <1>0, <1>1 DEF TypeOK
  <1>4. TypeOK'
    <2>1. pending' \in [Node -> SUBSET Slot]
      BY <1>0, <1>1 DEF TypeOK
    <2>2. QED
      BY <1>0, <1>1, <1>2, <2>1 DEF TypeOK
  <1>5. StreamInv' /\ BufferInv' /\ PendingInv'
    BY <1>0, <1>1, <1>3 DEF StreamInv, BufferInv, PendingInv, SlotInv
  <1>6. UndeliveredIsPending'
    <2>1. p.ack <= recvHighest[Other(n)] /\ p.ack \in Int /\ recvHighest[Other(n)] \in Int
      BY <1>0, BoundsAssumption DEF NetInv, TypeOK, Packet
    <2>2. QED
      BY <1>0, <1>1, <1>3, <2>1 DEF UndeliveredIsPending
  <1>7. NetInv' /\ HandshakeInv'
    BY <1>0, <1>1, <1>2 DEF NetInv, HandshakeInv, SlotInv
  <1>8. QED
    BY <1>4, <1>5, <1>6, <1>7 DEF IInv

\* Receiving a new reliable packet keeps the invariant: the run drained from the
\* buffer is the next segment of the peer's stream.
LEMMA IngestNewPreserves ==
  ASSUME IInv, NEW n \in Node, NEW p \in net, p.dst = n,
         n = Client \/ open,
         net' \in Remaining(p), IngestNew(n, p)
  PROVE  IInv'
  <1> USE NodeFacts
  <1>0. /\ TypeOK /\ StreamInv /\ PendingInv /\ UndeliveredIsPending
        /\ BufferInv /\ NetInv /\ HandshakeInv
    BY DEF IInv
  <1> DEFINE buffer == recvBuffer[n] \cup {[seq |-> p.seq, message |-> p.message]}
             MessageAt(s) == (CHOOSE q \in buffer : q.seq = s).message
  <1>1. PICK last \in recvHighest[n]..MaxSeq :
          /\ (recvHighest[n] + 1)..last \subseteq Seqs(buffer)
          /\ last + 1 \notin Seqs(buffer)
          /\ recvHighest' = [recvHighest EXCEPT ![n] = last]
          /\ recvBuffer' = [recvBuffer EXCEPT ![n] = {q \in buffer : q.seq > last}]
          /\ delivered' = [delivered EXCEPT
                ![n] = @ \o [i \in 1..(last - recvHighest[n]) |-> MessageAt(recvHighest[n] + i)]]
    BY DEF IngestNew
  <1>2. /\ UNCHANGED <<open, nextSeq, sent>>
        /\ pending' = [pending EXCEPT ![n] = {q \in @ : q.seq > p.ack}]
        /\ p.reliable /\ p.seq > recvHighest[n]
    BY DEF IngestNew, ApplyAck
  <1>3. net' \subseteq net
    BY DEF Remaining
  <1>4. /\ \A k \in Node : pending'[k] \subseteq pending[k]
        /\ \A k \in Node : k # n => pending'[k] = pending[k]
        /\ \A q \in pending[n] : q.seq > p.ack => q \in pending'[n]
    BY <1>0, <1>2 DEF TypeOK
  <1>5. \A q \in buffer : SlotInv(Other(n), q) /\ q.seq > recvHighest[n] /\ q \in Slot
    <2>1. SlotInv(Other(n), p) /\ p \in Packet
      BY <1>0, <1>2 DEF NetInv, TypeOK
    <2>2. p.seq \in Seqno
      BY <2>1, BoundsAssumption DEF SlotInv, Packet, Seqno
    <2>3. [seq |-> p.seq, message |-> p.message] \in Slot
      BY <2>1, <2>2 DEF Slot, Packet
    <2>4. SlotInv(Other(n), [seq |-> p.seq, message |-> p.message])
      BY <2>1 DEF SlotInv
    <2>5. \A q \in recvBuffer[n] : SlotInv(Other(n), q) /\ q.seq > recvHighest[n] + 1 /\ q \in Slot
      BY <1>0 DEF BufferInv, TypeOK
    <2>6. \A q \in recvBuffer[n] : q.seq > recvHighest[n]
      BY <1>0, <2>5, BoundsAssumption DEF Slot, Seqno, TypeOK
    <2>7. QED
      BY <1>2, <2>3, <2>4, <2>5, <2>6
  <1>6. \A s \in (recvHighest[n] + 1)..last :
          /\ s \in 1..Len(sent[Other(n)])
          /\ MessageAt(s) = sent[Other(n)][s]
    <2>1. SUFFICES ASSUME NEW s \in (recvHighest[n] + 1)..last
                   PROVE  s \in 1..Len(sent[Other(n)]) /\ MessageAt(s) = sent[Other(n)][s]
      OBVIOUS
    <2>2. \E q \in buffer : q.seq = s
      BY <1>1 DEF Seqs
    <2>3. PICK q \in buffer : q.seq = s /\ MessageAt(s) = q.message
      BY <2>2
    <2>4. QED
      BY <1>5, <2>3 DEF SlotInv
  <1>7. /\ recvHighest[n] \in Nat /\ last \in Nat /\ last >= recvHighest[n]
        /\ last \in 0..MaxSeq
    BY <1>0, <1>1, BoundsAssumption DEF TypeOK
  <1>8. PICK run \in Seq(Message) :
          /\ Len(run) = last - recvHighest[n]
          /\ \A i \in 1..(last - recvHighest[n]) : run[i] = sent[Other(n)][recvHighest[n] + i]
          /\ delivered'[n] = delivered[n] \o run
    <2> DEFINE segment == [i \in 1..(last - recvHighest[n]) |-> MessageAt(recvHighest[n] + i)]
    <2>1. \A i \in 1..(last - recvHighest[n]) :
            recvHighest[n] + i \in (recvHighest[n] + 1)..last
      BY <1>7
    <2>2. sent[Other(n)] \in Seq(Message)
      BY <1>0 DEF TypeOK
    <2>3. \A i \in 1..(last - recvHighest[n]) :
            /\ MessageAt(recvHighest[n] + i) = sent[Other(n)][recvHighest[n] + i]
            /\ MessageAt(recvHighest[n] + i) \in Message
      BY <1>6, <2>1, <2>2
    <2>4. last - recvHighest[n] \in Nat
      BY <1>7
    <2>5. delivered'[n] = delivered[n] \o segment
      BY <1>0, <1>1 DEF TypeOK
    <2>6. segment \in Seq(Message) /\ Len(segment) = last - recvHighest[n]
      BY <2>3, <2>4
    <2>7. \A i \in 1..(last - recvHighest[n]) : segment[i] = sent[Other(n)][recvHighest[n] + i]
      BY <2>3
    <2> HIDE DEF segment
    <2>8. QED
      BY <2>5, <2>6, <2>7
  <1>9. /\ delivered'[n] \in Seq(Message)
        /\ Len(delivered'[n]) = last
        /\ \A i \in 1..last : delivered'[n][i] = sent[Other(n)][i]
    <2>1. /\ delivered[n] \in Seq(Message)
          /\ Len(delivered[n]) = recvHighest[n]
          /\ \A i \in 1..recvHighest[n] : delivered[n][i] = sent[Other(n)][i]
      BY <1>0 DEF TypeOK, StreamInv
    <2>2. PICK d \in Seq(Message) : d = delivered[n]
      BY <2>1
    <2>3. /\ delivered'[n] \in Seq(Message)
          /\ Len(delivered'[n]) = last
      <3>1. d \o run \in Seq(Message) /\ Len(d \o run) = Len(d) + Len(run)
        OBVIOUS
      <3>2. Len(d) + Len(run) = last
        BY <1>7, <1>8, <2>1, <2>2
      <3>3. QED
        BY <1>8, <2>2, <3>1, <3>2
    <2>4. ASSUME NEW i \in 1..last PROVE delivered'[n][i] = sent[Other(n)][i]
      <3>1. CASE i <= recvHighest[n]
        <4>1. i \in 1..Len(d) /\ (d \o run)[i] = d[i]
          BY <1>7, <2>1, <2>2, <3>1
        <4>2. QED
          BY <1>7, <1>8, <2>1, <2>2, <3>1, <4>1
      <3>2. CASE i > recvHighest[n]
        <4>1. PICK j \in 1..Len(run) : i = recvHighest[n] + j
          <5>1. i - recvHighest[n] \in 1..Len(run)
            BY <1>7, <1>8, <3>2
          <5>2. i = recvHighest[n] + (i - recvHighest[n])
            BY <1>7
          <5>3. QED
            BY <5>1, <5>2
        <4>2. (d \o run)[Len(d) + j] = run[j]
          OBVIOUS
        <4>3. delivered'[n][i] = run[j]
          BY <1>8, <2>1, <2>2, <4>1, <4>2
        <4>4. QED
          BY <1>8, <4>1, <4>3
      <3>3. QED
        BY <1>7, <3>1, <3>2
    <2>5. QED
      BY <2>3, <2>4
  <1>10. TypeOK'
    <2>1. pending' \in [Node -> SUBSET Slot]
      BY <1>0, <1>2 DEF TypeOK
    <2>2. recvBuffer' \in [Node -> SUBSET Slot]
      BY <1>0, <1>1, <1>5 DEF TypeOK
    <2>3. recvHighest' \in [Node -> 0..MaxSeq]
      BY <1>0, <1>1, <1>7 DEF TypeOK
    <2>4. delivered' \in [Node -> Seq(Message)]
      BY <1>0, <1>1, <1>9 DEF TypeOK
    <2>5. QED
      BY <1>0, <1>2, <1>3, <2>1, <2>2, <2>3, <2>4 DEF TypeOK
  <1>11. last <= Len(sent[Other(n)])
    <2>1. recvHighest[n] <= Len(sent[Other(n)]) /\ Len(sent[Other(n)]) \in Nat
      BY <1>0 DEF StreamInv, TypeOK
    <2>2. CASE last = recvHighest[n]
      BY <2>1, <2>2
    <2>3. CASE last > recvHighest[n]
      <3>1. last \in (recvHighest[n] + 1)..last
        BY <1>7, <2>3
      <3>2. QED
        BY <1>6, <3>1
    <2>4. QED
      BY <1>7, <2>2, <2>3
  <1>12. /\ recvHighest'[n] = last
         /\ \A k \in Node : k # n => /\ recvHighest'[k] = recvHighest[k]
                                     /\ delivered'[k] = delivered[k]
                                     /\ recvBuffer'[k] = recvBuffer[k]
         /\ recvBuffer'[n] = {q \in buffer : q.seq > last}
    BY <1>0, <1>1 DEF TypeOK
  <1>13. StreamInv'
    <2>1. SUFFICES ASSUME NEW k \in Node
                   PROVE  /\ nextSeq[k] = Len(sent[k]) + 1
                          /\ Len(delivered'[k]) = recvHighest'[k]
                          /\ recvHighest'[k] <= Len(sent[Other(k)])
                          /\ \A i \in 1..recvHighest'[k] :
                               delivered'[k][i] = sent[Other(k)][i]
      BY <1>2 DEF StreamInv
    <2>2. nextSeq[k] = Len(sent[k]) + 1
      BY <1>0 DEF StreamInv
    <2>3. CASE k = n
      <3>1. /\ Len(delivered'[n]) = recvHighest'[n]
            /\ recvHighest'[n] <= Len(sent[Other(n)])
        BY <1>9, <1>11, <1>12
      <3>2. \A i \in 1..recvHighest'[n] : delivered'[n][i] = sent[Other(n)][i]
        BY <1>9, <1>12
      <3>3. QED
        BY <2>2, <2>3, <3>1, <3>2
    <2>4. CASE k # n
      <3>1. delivered'[k] = delivered[k] /\ recvHighest'[k] = recvHighest[k]
        BY <1>12, <2>4
      <3>2. QED
        BY <1>0, <3>1 DEF StreamInv
    <2>5. QED
      BY <2>3, <2>4
  <1>14. PendingInv'
    BY <1>0, <1>2, <1>4 DEF PendingInv, SlotInv
  <1>15. UndeliveredIsPending'
    <2>1. p.ack <= recvHighest[Other(n)] /\ p.ack \in Int /\ recvHighest[Other(n)] \in Int
      BY <1>0, BoundsAssumption DEF NetInv, TypeOK, Packet
    <2>2. QED
      BY <1>0, <1>2, <1>4, <1>7, <1>12, <2>1 DEF UndeliveredIsPending
  <1>16. BufferInv'
    <2>1. ASSUME NEW q \in recvBuffer'[n] PROVE SlotInv(Other(n), q)' /\ q.seq > last + 1
      <3>1. q \in buffer /\ q.seq > last /\ q.seq # last + 1 /\ q.seq \in Int
        BY <1>1, <1>5, <1>12 DEF Seqs, Slot, Seqno
      <3>2. QED
        BY <1>2, <1>5, <1>7, <3>1 DEF SlotInv
    <2>2. ASSUME NEW k \in Node, k # n, NEW q \in recvBuffer'[k]
          PROVE SlotInv(Other(k), q)' /\ q.seq > recvHighest'[k] + 1
      BY <1>0, <1>2, <1>12, <2>2 DEF BufferInv, SlotInv
    <2>3. QED
      BY <1>12, <2>1, <2>2 DEF BufferInv
  <1>17. NetInv'
    <2>1. \A k \in Node : recvHighest[k] <= recvHighest'[k] /\ recvHighest[k] \in Int /\ recvHighest'[k] \in Int
      <3>1. \A k \in Node : recvHighest[k] \in Int
        BY <1>0, BoundsAssumption DEF TypeOK
      <3>2. QED
        BY <1>7, <1>12, <3>1
    <2>2. \A r \in net' : r \in Packet /\ r.ack \in Int /\ Other(r.dst) \in Node
      <3>1. \A r \in Packet : r.ack \in Int /\ r.dst \in Node
        BY BoundsAssumption DEF Packet
      <3>2. QED
        BY <1>0, <1>3, <3>1 DEF TypeOK
    <2>3. QED
      BY <1>0, <1>2, <1>3, <2>1, <2>2 DEF NetInv, SlotInv
  <1>18. HandshakeInv'
    BY <1>0, <1>2, <1>3, <1>12 DEF HandshakeInv
  <1>19. QED
    BY <1>10, <1>13, <1>14, <1>15, <1>16, <1>17, <1>18 DEF IInv

\* Accepting the Hello keeps the invariant: it is the client's first message, so
\* priming the fresh link with its sequence number skips nothing.
LEMMA AcceptHelloPreserves ==
  ASSUME IInv, NEW p \in net, AcceptHello(p)
  PROVE  IInv'
  <1> USE NodeFacts
  <1>0. /\ TypeOK /\ StreamInv /\ PendingInv /\ UndeliveredIsPending
        /\ BufferInv /\ NetInv /\ HandshakeInv
    BY DEF IInv
  <1>1. /\ p.dst = Host /\ ~open /\ p.message = Hello
        /\ open' = TRUE
        /\ BuildReliable(Host, Welcome)
        /\ recvHighest' = [recvHighest EXCEPT ![Host] = p.seq]
        /\ delivered' = [delivered EXCEPT ![Host] = Append(@, Hello)]
        /\ recvBuffer' = recvBuffer
    BY DEF AcceptHello
  <1>2. /\ sent[Host] = << >> /\ delivered[Host] = << >> /\ recvBuffer[Host] = {}
        /\ Len(sent[Client]) <= 1
        /\ \A q \in net : q.dst = Host
    BY <1>0, <1>1 DEF HandshakeInv
  <1>3. /\ recvHighest[Host] = 0 /\ recvHighest[Client] = 0 /\ nextSeq[Host] = 1
        /\ Other(Client) = Host /\ Other(Host) = Client
        /\ delivered[Client] = << >> /\ pending[Host] = {} /\ recvBuffer[Client] = {}
    <2>1. recvHighest[Host] = 0 /\ recvHighest[Client] = 0 /\ nextSeq[Host] = 1
          /\ Other(Client) = Host /\ Other(Host) = Client
      BY <1>0, <1>2, BoundsAssumption DEF StreamInv, TypeOK, Other
    <2>2. delivered[Client] = << >>
      BY <1>0, <2>1 DEF StreamInv, TypeOK
    <2>3. pending[Host] = {} /\ recvBuffer[Client] = {}
      BY <1>0, <1>2, <2>1 DEF PendingInv, BufferInv, SlotInv
    <2>4. QED
      BY <2>1, <2>2, <2>3
  <1>4. /\ p.seq = 1 /\ Len(sent[Client]) = 1 /\ sent[Client][1] = Hello
    <2>1. PICK length \in Nat : length = Len(sent[Client])
      BY <1>0 DEF TypeOK
    <2>2. p.seq \in 1..length /\ sent[Client][p.seq] = Hello
      BY <1>0, <1>1, <1>3, <2>1 DEF NetInv, SlotInv
    <2>3. length <= 1
      BY <1>2, <2>1
    <2>4. length = 1 /\ p.seq = 1
      BY <2>2, <2>3
    <2>5. QED
      BY <2>1, <2>2, <2>4
  <1>5. PICK pkt \in Packet :
          pkt = [dst |-> Client, seq |-> 1, ack |-> 0, reliable |-> TRUE, message |-> Welcome]
    <2>1. 1 \in 0..MaxSeq /\ 0 \in 0..MaxSeq /\ Welcome \in Message
      BY <1>1, <1>3, BoundsAssumption DEF BuildReliable, Message
    <2>2. QED
      BY <2>1 DEF Packet
  <1>6. net' \subseteq net \cup {pkt}
    BY <1>3, <1>5 DEF AcceptHello, Transmit, Remaining, ReliablePacket
  <1>7. /\ sent'[Host] = <<Welcome>> /\ sent'[Client] = sent[Client]
        /\ nextSeq'[Host] = 2 /\ nextSeq'[Client] = nextSeq[Client]
        /\ pending'[Host] = {[seq |-> 1, message |-> Welcome]} /\ pending'[Client] = pending[Client]
        /\ delivered'[Host] = <<Hello>> /\ delivered'[Client] = << >>
        /\ recvHighest'[Host] = 1 /\ recvHighest'[Client] = 0
    BY <1>0, <1>1, <1>2, <1>3, <1>4 DEF BuildReliable, TypeOK
  <1>8. TypeOK'
    <2>1. 1 \in Seqno /\ Welcome \in Message /\ Hello \in Message
      BY <1>1, <1>3, BoundsAssumption DEF BuildReliable, Message, Seqno
    <2>2. nextSeq' \in [Node -> 1..(MaxSeq + 1)] /\ recvHighest' \in [Node -> 0..MaxSeq]
      BY <1>0, <1>1, <1>3, <1>4, <2>1, BoundsAssumption DEF BuildReliable, TypeOK, Seqno
    <2>3. pending' \in [Node -> SUBSET Slot]
      <3>1. [seq |-> 1, message |-> Welcome] \in Slot
        BY <2>1 DEF Slot
      <3>2. QED
        BY <1>0, <1>1, <1>3, <3>1 DEF BuildReliable, TypeOK
    <2>4. sent' \in [Node -> Seq(Message)] /\ delivered' \in [Node -> Seq(Message)]
      BY <1>0, <1>1, <2>1 DEF BuildReliable, TypeOK
    <2>5. net' \in SUBSET Packet
      BY <1>0, <1>6 DEF TypeOK
    <2>6. QED
      BY <1>0, <1>1, <2>2, <2>3, <2>4, <2>5 DEF TypeOK
  <1>9. StreamInv'
    <2>1. \A k \in Node : k = Client \/ k = Host
      BY DEF Node
    <2>2. nextSeq[Client] = Len(sent[Client]) + 1
      BY <1>0 DEF StreamInv
    <2>3. nextSeq'[Client] = Len(sent'[Client]) + 1
      BY <1>7, <2>2
    <2>4. /\ nextSeq'[Host] = Len(sent'[Host]) + 1
          /\ Len(delivered'[Host]) = 1 /\ delivered'[Host][1] = Hello
          /\ Len(delivered'[Client]) = 0 /\ Len(sent'[Host]) = 1
      BY <1>7
    <2>5. /\ recvHighest'[Host] <= Len(sent'[Client])
          /\ \A i \in 1..recvHighest'[Host] : delivered'[Host][i] = sent'[Client][i]
      BY <1>4, <1>7, <2>4
    <2>6. /\ recvHighest'[Client] <= Len(sent'[Host])
          /\ \A i \in 1..recvHighest'[Client] : delivered'[Client][i] = sent'[Host][i]
      BY <1>7, <2>4
    <2>7. QED
      BY <1>3, <1>7, <2>1, <2>3, <2>4, <2>5, <2>6 DEF StreamInv
  <1>10. \A k \in Node : k = Client \/ k = Host
    BY DEF Node
  <1>11. PendingInv'
    BY <1>0, <1>7, <1>10 DEF PendingInv, SlotInv
  <1>12. UndeliveredIsPending'
    BY <1>3, <1>4, <1>7, <1>10 DEF UndeliveredIsPending
  <1>13. BufferInv'
    BY <1>1, <1>2, <1>3, <1>10 DEF BufferInv
  <1>14. NetInv'
    <2>1. ASSUME NEW q \in net
          PROVE  /\ q.ack <= recvHighest'[Other(q.dst)]
                 /\ q.reliable => SlotInv(Other(q.dst), q)'
                 /\ q.message = Hello => q.reliable
      BY <1>0, <1>2, <1>3, <1>7 DEF NetInv, SlotInv
    <2>2. /\ pkt.ack <= recvHighest'[Other(pkt.dst)]
          /\ SlotInv(Other(pkt.dst), pkt)'
          /\ pkt.reliable
      BY <1>3, <1>5, <1>7 DEF SlotInv
    <2>3. QED
      BY <1>6, <2>1, <2>2 DEF NetInv
  <1>15. HandshakeInv'
    BY <1>1 DEF HandshakeInv
  <1>16. QED
    BY <1>8, <1>9, <1>11, <1>12, <1>13, <1>14, <1>15 DEF IInv

\* What the network does alone, keepalives and resends keep the invariant: a
\* resent packet carries its message and an up-to-date ack.
LEMMA TrafficPreserves ==
  ASSUME IInv,
         UNCHANGED <<open, link, sent, delivered>>,
         NEW n \in Node, open \/ n = Client,
         \A p \in net' : \/ p \in net
                         \/ /\ p \in Packet /\ p.dst = Other(n) /\ p.ack = recvHighest[n]
                            /\ p.message = Hello => p.reliable
                            /\ p.reliable => SlotInv(n, p)
                            /\ ~open => sent[n] # << >>
  PROVE  IInv'
  <1> USE NodeFacts
  <1>0. /\ TypeOK /\ StreamInv /\ PendingInv /\ UndeliveredIsPending
        /\ BufferInv /\ NetInv /\ HandshakeInv
    BY DEF IInv
  <1>1. UNCHANGED <<open, nextSeq, recvHighest, pending, recvBuffer, sent, delivered>>
    BY DEF link
  <1>2. TypeOK' /\ StreamInv' /\ PendingInv' /\ UndeliveredIsPending' /\ BufferInv'
    <2>1. TypeOK'
      BY <1>0, <1>1 DEF TypeOK, Packet
    <2>2. StreamInv'
      BY <1>0, <1>1 DEF StreamInv
    <2>3. PendingInv' /\ UndeliveredIsPending' /\ BufferInv'
      BY <1>0, <1>1 DEF PendingInv, UndeliveredIsPending, BufferInv, SlotInv
    <2>4. QED
      BY <2>1, <2>2, <2>3
  <1>3. NetInv'
    <2>1. recvHighest[n] \in Int
      BY <1>0, BoundsAssumption DEF TypeOK
    <2>2. QED
      BY <1>0, <1>1, <2>1 DEF NetInv, SlotInv
  <1>4. HandshakeInv'
    BY <1>0, <1>1 DEF HandshakeInv
  <1>5. QED
    BY <1>2, <1>3, <1>4 DEF IInv

\* An unreliable packet keeps the invariant.
LEMMA SendUnreliablePreserves ==
  ASSUME IInv, NEW n \in Node, SendUnreliable(n)
  PROVE  IInv'
  <1> USE NodeFacts
  <1>0. TypeOK /\ StreamInv /\ HandshakeInv
    BY DEF IInv
  <1>1. open \/ n = Client
    BY DEF SendUnreliable, Established
  <1>2. PICK p : /\ p = [dst |-> Other(n), seq |-> 0, ack |-> recvHighest[n],
                         reliable |-> FALSE, message |-> KeepAlive]
                 /\ net' = net \cup {p}
    BY DEF SendUnreliable, Transmit
  <1>3. p \in Packet
    <2>1. recvHighest[n] \in 0..MaxSeq /\ 0 \in 0..MaxSeq /\ KeepAlive \in Message
      BY <1>0, BoundsAssumption DEF TypeOK, Message
    <2>2. QED
      BY <1>2, <2>1 DEF Packet
  <1>4. p.message # Hello /\ ~p.reliable /\ p.dst = Other(n) /\ p.ack = recvHighest[n]
    BY <1>2 DEF KeepAlive, Hello
  <1>5. open
    BY <1>0, <1>1, BoundsAssumption
       DEF SendUnreliable, Established, HandshakeInv, StreamInv, TypeOK
  <1>6. UNCHANGED <<open, link, sent, delivered>>
    BY DEF SendUnreliable
  <1>7. QED
    BY <1>2, <1>3, <1>4, <1>5, <1>6, TrafficPreserves

\* Resending keeps the invariant.
LEMMA PollResendsPreserves ==
  ASSUME IInv, NEW n \in Node, NEW due \in SUBSET pending[n], PollResends(n, due)
  PROVE  IInv'
  <1> USE NodeFacts
  <1>0. TypeOK /\ PendingInv /\ HandshakeInv
    BY DEF IInv
  <1>1. /\ UNCHANGED <<open, link, sent, delivered>>
        /\ net' = net \cup {ReliablePacket(n, q.seq, q.message) : q \in due}
        /\ due # {}
    BY DEF PollResends, Transmit
  <1>2. ASSUME NEW q \in due
        PROVE  LET p == ReliablePacket(n, q.seq, q.message)
               IN /\ p \in Packet /\ p.dst = Other(n) /\ p.ack = recvHighest[n]
                  /\ p.reliable
                  /\ SlotInv(n, p)
    <2>1. q \in Slot /\ SlotInv(n, q)
      BY <1>0 DEF TypeOK, PendingInv
    <2>2. q.seq \in 0..MaxSeq /\ q.message \in Message /\ recvHighest[n] \in 0..MaxSeq
      BY <1>0, <2>1, BoundsAssumption DEF Slot, Seqno, TypeOK
    <2>3. QED
      BY <2>1, <2>2 DEF ReliablePacket, Packet, SlotInv
  <1>3. sent[n] # << >>
    BY <1>0, <1>1 DEF PendingInv, SlotInv
  <1>4. open \/ n = Client
    BY <1>0, <1>3 DEF HandshakeInv, Node
  <1>5. QED
    BY <1>1, <1>2, <1>3, <1>4, TrafficPreserves

\* Losing a packet keeps the invariant.
LEMMA LosePreserves ==
  ASSUME IInv, NEW p \in net, Lose(p)
  PROVE  IInv'
  BY NodeFacts, TrafficPreserves DEF Lose

\* The client's Hello keeps the invariant.
LEMMA SendHelloPreserves ==
  ASSUME IInv, SendHello
  PROVE  IInv'
  <1> USE NodeFacts
  <1>0. TypeOK /\ StreamInv /\ UndeliveredIsPending /\ HandshakeInv
    BY DEF IInv
  <1>1. Hello \in Message
    BY DEF Message
  <1>2. open \/ sent[Client] = << >>
    <2>1. SUFFICES ASSUME ~open, sent[Client] # << >> PROVE FALSE
      OBVIOUS
    <2>2. recvHighest[Host] = 0 /\ Other(Client) = Host
      BY <1>0, <2>1 DEF HandshakeInv, StreamInv, Other
    <2>3. 1 \in 1..Len(sent[Client])
      BY <1>0, <2>1 DEF TypeOK
    <2>4. [seq |-> 1, message |-> sent[Client][1]] \in pending[Client]
      BY <1>0, <2>2, <2>3 DEF UndeliveredIsPending
    <2>5. QED
      BY <2>4 DEF SendHello
  <1>3. QED
    BY <1>1, <1>2, BuildPreserves DEF SendHello, Transmit

\* A reliable packet keeps the invariant: its number is new.
LEMMA SendReliablePreserves ==
  ASSUME IInv, NEW n \in Node, NEW m \in Payload, SendReliable(n, m)
  PROVE  IInv'
  <1> USE NodeFacts
  <1>0. TypeOK /\ StreamInv /\ HandshakeInv
    BY DEF IInv
  <1>1. m \in Message
    BY DEF Message
  <1>2. open
    BY <1>0, BoundsAssumption
       DEF SendReliable, Established, HandshakeInv, StreamInv, TypeOK
  <1>3. QED
    BY <1>1, <1>2, BuildPreserves DEF SendReliable, Transmit

\* Every step keeps the invariant.
LEMMA NextIInv == IInv /\ [Next]_vars => IInv'
  <1> SUFFICES ASSUME IInv, [Next]_vars PROVE IInv'
    OBVIOUS
  <1>1. CASE SendHello
    BY <1>1, SendHelloPreserves
  <1>2. ASSUME NEW n \in Node, NEW m \in Payload, SendReliable(n, m) PROVE IInv'
    BY <1>2, SendReliablePreserves
  <1>3. ASSUME NEW n \in Node, SendUnreliable(n) PROVE IInv'
    BY <1>3, SendUnreliablePreserves
  <1>4. ASSUME NEW n \in Node, NEW due \in SUBSET pending[n], PollResends(n, due) PROVE IInv'
    BY <1>4, PollResendsPreserves
  <1>5. ASSUME NEW n \in Node, NEW p \in net, Ingest(n, p) PROVE IInv'
    BY <1>5, AckOnlyPreserves, IngestNewPreserves DEF Ingest
  <1>6. ASSUME NEW p \in net, AcceptHello(p) PROVE IInv'
    BY <1>6, AcceptHelloPreserves
  <1>7. ASSUME NEW p \in net, Lose(p) PROVE IInv'
    BY <1>7, LosePreserves
  <1>8. CASE UNCHANGED vars
    BY <1>8, TrafficPreserves, NodeFacts DEF vars, link
  <1>9. QED
    BY <1>1, <1>2, <1>3, <1>4, <1>5, <1>6, <1>7, <1>8 DEF Next

\* The inductive invariant holds of every behaviour of the link.
THEOREM Invariant == Spec => []IInv
  BY InitIInv, NextIInv, PTL DEF Spec

-----------------------------------------------------------------------------
(***************************************************************************)
(* The results.                                                            *)
(***************************************************************************)

\* Every field of both links, and every packet in flight, keeps its type.
THEOREM TypeCorrect == Spec => []TypeOK
  BY Invariant, PTL DEF IInv

\* What ingest_packet hands to the application is a prefix of what the peer
\* sent: in order, nothing skipped, nothing twice, under any loss, duplication
\* and reordering.
THEOREM Delivery == Spec => []InOrderExactlyOnce
  <1>1. IInv => InOrderExactlyOnce
    BY DEF IInv, StreamInv, InOrderExactlyOnce
  <1>2. QED
    BY <1>1, Invariant, PTL

\* _apply_ack never drops a message that poll_resends may still have to repeat.
THEOREM NoLoss == Spec => []UndeliveredIsPending
  BY Invariant, PTL DEF IInv

\* The reorder buffer never withholds a message that is due.
THEOREM BufferSound == Spec => []BufferBeyondGap
  <1>1. IInv => BufferBeyondGap
    BY DEF IInv, TypeOK, BufferInv, SlotInv, BufferBeyondGap
  <1>2. QED
    BY <1>1, Invariant, PTL

\* The first messages of the two streams are the handshake.
FirstInv ==
  /\ sent[Client] # << >> => sent[Client][1] = Hello
  /\ open => sent[Host] # << >> /\ sent[Host][1] = Welcome /\ recvHighest[Host] >= 1

\* Every step keeps what is known of the first message of each stream.
LEMMA FirstStep == IInv /\ FirstInv /\ [Next]_vars => FirstInv'
  <1> SUFFICES ASSUME IInv, FirstInv, [Next]_vars PROVE FirstInv'
    OBVIOUS
  <1> USE NodeFacts
  <1>0. TypeOK /\ StreamInv /\ HandshakeInv /\ NetInv
    BY DEF IInv
  <1>a. TypeOK' /\ \A n \in Node : recvHighest'[n] \in Int
    <2>1. TypeOK'
      BY NextIInv DEF IInv
    <2>2. QED
      BY <2>1, BoundsAssumption DEF TypeOK
  <1>1. ASSUME NEW n \in Node, NEW m \in Message, BuildReliable(n, m),
               UNCHANGED <<open, recvHighest>>,
               sent[n] # << >> \/ (n = Client /\ m = Hello)
        PROVE  FirstInv'
    <2>1. PICK stream \in Seq(Message) : stream = sent[n]
      BY <1>0 DEF TypeOK
    <2>2. /\ sent'[n] = Append(stream, m)
          /\ \A k \in Node : k # n => sent'[k] = sent[k]
      BY <1>0, <1>1, <2>1 DEF BuildReliable, TypeOK
    <2>3. Append(stream, m) # << >>
      OBVIOUS
    <2>4. stream # << >> => Append(stream, m)[1] = stream[1]
      OBVIOUS
    <2>5. stream = << >> => Append(stream, m)[1] = m
      OBVIOUS
    <2>6. QED
      BY <1>1, <2>1, <2>2, <2>3, <2>4, <2>5 DEF FirstInv
  <1>2. ASSUME UNCHANGED <<open, sent>>,
               \A n \in Node : recvHighest'[n] >= recvHighest[n]
        PROVE  FirstInv'
    <2>1. recvHighest[Host] \in Int /\ recvHighest'[Host] >= recvHighest[Host]
      BY <1>0, <1>2, BoundsAssumption DEF TypeOK
    <2>2. recvHighest'[Host] \in Int
      BY <1>a DEF TypeOK
    <2>3. QED
      BY <1>2, <2>1, <2>2 DEF FirstInv
  <1>3. \A n \in Node : recvHighest[n] \in Int
    BY <1>0, BoundsAssumption DEF TypeOK
  <1>4. CASE SendHello
    <2>1. Hello \in Message
      BY DEF Message
    <2>2. QED
      BY <1>1, <1>4, <2>1 DEF SendHello
  <1>5. ASSUME NEW n \in Node, NEW m \in Payload, SendReliable(n, m) PROVE FirstInv'
    <2>1. m \in Message
      BY DEF Message
    <2>2. sent[n] # << >>
      <3>1. CASE n = Host
        BY <1>5, <3>1 DEF SendReliable, Established, FirstInv
      <3>2. CASE n = Client
        <4>1. open
          BY <1>0, <1>5, <3>2, BoundsAssumption
             DEF SendReliable, Established, HandshakeInv, StreamInv, TypeOK
        <4>2. recvHighest[Host] <= Len(sent[Client]) /\ recvHighest[Host] >= 1
          BY <1>0, <4>1 DEF StreamInv, FirstInv, Other
        <4>3. QED
          BY <1>3, <3>2, <4>2
      <3>3. QED
        BY <3>1, <3>2 DEF Node
    <2>3. QED
      BY <1>1, <1>5, <2>1, <2>2 DEF SendReliable
  <1>6. ASSUME NEW n \in Node, NEW p \in net, Ingest(n, p) PROVE FirstInv'
    <2>1. CASE IngestAckOnly(n, p)
      BY <1>2, <1>3, <2>1 DEF IngestAckOnly
    <2>2. CASE IngestNew(n, p)
      <3>1. PICK last \in recvHighest[n]..MaxSeq :
              recvHighest' = [recvHighest EXCEPT ![n] = last]
        BY <2>2 DEF IngestNew
      <3>2. \A k \in Node : recvHighest'[k] >= recvHighest[k]
        <4>1. \A k \in Node : recvHighest'[k] = IF k = n THEN last ELSE recvHighest[k]
          BY <1>0, <3>1 DEF TypeOK
        <4>2. last >= recvHighest[n]
          BY <1>3, <3>1, BoundsAssumption
        <4>3. QED
          BY <1>3, <4>1, <4>2
      <3>3. UNCHANGED <<open, sent>>
        BY <2>2 DEF IngestNew
      <3>4. QED
        BY <1>2, <3>2, <3>3
    <2>3. QED
      BY <1>6, <2>1, <2>2 DEF Ingest
  <1>7. ASSUME NEW p \in net, AcceptHello(p) PROVE FirstInv'
    <2>1. p.seq \in 1..Len(sent[Client]) /\ sent[Host] = << >>
      BY <1>0, <1>7 DEF AcceptHello, NetInv, SlotInv, HandshakeInv, Other
    <2>2. /\ sent'[Host] = <<Welcome>> /\ sent'[Client] = sent[Client]
          /\ recvHighest'[Host] = p.seq
      BY <1>0, <1>7, <2>1 DEF AcceptHello, BuildReliable, TypeOK
    <2>3. QED
      BY <2>1, <2>2 DEF FirstInv
  <1>8. ASSUME UNCHANGED <<open, link, sent, delivered>> PROVE FirstInv'
    BY <1>2, <1>3, <1>8 DEF link
  <1>9. QED
    BY <1>4, <1>5, <1>6, <1>7, <1>8
       DEF Next, SendUnreliable, PollResends, Lose, vars, link

\* The host knows the client exactly from its Hello on, and the client hears of
\* the host first by its Welcome: the order in which AcceptHello answers before
\* it primes the link does not let any message overtake the handshake.
THEOREM Handshake == Spec => []HandshakeFirst
  <1>1. Init => FirstInv
    BY NodeFacts DEF Init, FirstInv
  <1>2. IInv /\ FirstInv => HandshakeFirst
    <2> SUFFICES ASSUME IInv, FirstInv PROVE HandshakeFirst
      OBVIOUS
    <2> USE NodeFacts
    <2>1. TypeOK /\ StreamInv /\ HandshakeInv
      BY DEF IInv
    <2>2. Other(Client) = Host /\ Other(Host) = Client
      BY DEF Other
    <2>3. \A n \in Node : delivered[n] # << >> =>
             /\ recvHighest[n] >= 1 /\ Len(sent[Other(n)]) >= 1
             /\ delivered[n][1] = sent[Other(n)][1]
      <3>1. SUFFICES ASSUME NEW n \in Node, delivered[n] # << >>
                     PROVE  /\ recvHighest[n] >= 1 /\ Len(sent[Other(n)]) >= 1
                            /\ delivered[n][1] = sent[Other(n)][1]
        OBVIOUS
      <3>2. PICK high \in Nat : /\ high = recvHighest[n] /\ Len(delivered[n]) = high
                                /\ high <= Len(sent[Other(n)])
                                /\ \A i \in 1..high : delivered[n][i] = sent[Other(n)][i]
        <4>1. recvHighest[n] \in Nat
          BY <2>1, BoundsAssumption DEF TypeOK
        <4>2. QED
          BY <2>1, <4>1 DEF StreamInv
      <3>3. high >= 1 /\ 1 \in 1..high
        BY <2>1, <3>1, <3>2 DEF TypeOK
      <3>4. Len(sent[Other(n)]) \in Nat
        BY <2>1 DEF TypeOK
      <3>5. QED
        BY <3>2, <3>3, <3>4
    <2>4. open => delivered[Host] # << >>
      BY <2>1, <2>2 DEF StreamInv, FirstInv
    <2>5. ~open => delivered[Host] = << >>
      BY <2>1 DEF HandshakeInv
    <2>6. delivered[Host] # << >> => delivered[Host][1] = Hello
      BY <2>2, <2>3 DEF FirstInv
    <2>7. delivered[Client] # << >> => open
      BY <2>1, <2>2, <2>3 DEF HandshakeInv
    <2>8. delivered[Client] # << >> => delivered[Client][1] = Welcome
      BY <2>2, <2>3, <2>7 DEF FirstInv
    <2>9. QED
      BY <2>4, <2>5, <2>6, <2>7, <2>8 DEF HandshakeFirst
  <1>3. QED
    BY <1>1, <1>2, FirstStep, Invariant, PTL DEF Spec

-----------------------------------------------------------------------------
(***************************************************************************)
(* The link implements the FIFO streams of FifoStreams.                    *)
(***************************************************************************)

\* What has been delivered is literally the prefix SubSeq of what was sent.
PrefixInv ==
  \A n \in Node :
    /\ delivered[n] = SubSeq(sent[Other(n)], 1, Len(delivered[n]))
    /\ Len(delivered[n]) \in 0..Len(sent[Other(n)])

\* What was delivered is a prefix of what was sent.
LEMMA DeliveredIsPrefix == TypeOK /\ StreamInv => PrefixInv
  <1> SUFFICES ASSUME TypeOK, StreamInv, NEW n \in Node
               PROVE  /\ delivered[n] = SubSeq(sent[Other(n)], 1, Len(delivered[n]))
                      /\ Len(delivered[n]) \in 0..Len(sent[Other(n)])
    BY DEF PrefixInv
  <1> USE NodeFacts
  <1>1. PICK d \in Seq(Message), s \in Seq(Message) : d = delivered[n] /\ s = sent[Other(n)]
    BY DEF TypeOK
  <1>2. Len(d) = recvHighest[n] /\ Len(d) <= Len(s) /\ \A i \in 1..Len(d) : d[i] = s[i]
    BY <1>1 DEF StreamInv
  <1>3. d = SubSeq(s, 1, Len(d))
    <2>1. /\ SubSeq(s, 1, Len(d)) \in Seq(Message)
          /\ Len(SubSeq(s, 1, Len(d))) = Len(d)
          /\ \A i \in 1..Len(d) : SubSeq(s, 1, Len(d))[i] = s[i]
      BY <1>2
    <2>2. QED
      BY <1>2, <2>1
  <1>4. QED
    BY <1>1, <1>2, <1>3

\* A reliable send alone is an exchange that delivers nothing.
LEMMA BuildIsExchange ==
  ASSUME TypeOK, StreamInv, NEW n \in Node, NEW m \in Message,
         BuildReliable(n, m), UNCHANGED delivered
  PROVE  Fifo!Next
  <1>1. /\ delivered[n] = SubSeq(sent[Other(n)], 1, Len(delivered[n]))
        /\ Len(delivered[n]) \in 0..Len(sent[Other(n)])
        /\ Len(delivered[n]) \in Nat
    BY DeliveredIsPrefix DEF TypeOK, PrefixInv
  <1>2. Len(sent[Other(n)]) \in Nat
    BY NodeFacts DEF TypeOK
  <1>3. Len(delivered[n]) \in Len(delivered[n])..Len(sent[Other(n)])
    BY <1>1, <1>2
  <1>4. delivered' = [delivered EXCEPT ![n] = SubSeq(sent[Other(n)], 1, Len(delivered[n]))]
    BY <1>1 DEF TypeOK
  <1>5. sent' = [sent EXCEPT ![n] = @ \o <<m>>]
    <2>1. Append(sent[n], m) = sent[n] \o <<m>>
      BY DEF TypeOK
    <2>2. QED
      BY <2>1 DEF BuildReliable
  <1>6. Fifo!Exchange(n, Len(delivered[n]), <<m>>)
    BY <1>3, <1>4, <1>5 DEF Fifo!Exchange
  <1>7. <<m>> \in Fifo!Reply
    BY DEF Fifo!Reply
  <1>8. QED
    BY <1>3, <1>6, <1>7 DEF Fifo!Next

\* Steps that touch neither stream are stutters; a drained run and the accepted
\* Hello are exchanges.
LEMMA StepImplementsFifo ==
  IInv /\ IInv' /\ [Next]_vars => [Fifo!Next]_(Fifo!vars)
  <1> SUFFICES ASSUME IInv, IInv', [Next]_vars PROVE [Fifo!Next]_(Fifo!vars)
    OBVIOUS
  <1> USE NodeFacts
  <1>0. TypeOK /\ StreamInv /\ TypeOK' /\ StreamInv' /\ HandshakeInv
    BY DEF IInv
  <1>p. PrefixInv'
    BY <1>0, DeliveredIsPrefix, PTL
  <1>1. CASE SendHello
    <2>1. Hello \in Message
      BY DEF Message
    <2>2. QED
      BY <1>0, <1>1, <2>1, BuildIsExchange DEF SendHello
  <1>2. ASSUME NEW n \in Node, NEW m \in Payload, SendReliable(n, m) PROVE Fifo!Next
    <2>1. m \in Message
      BY DEF Message
    <2>2. QED
      BY <1>0, <1>2, <2>1, BuildIsExchange DEF SendReliable
  <1>3. ASSUME UNCHANGED <<sent, delivered>> PROVE UNCHANGED Fifo!vars
    BY <1>3 DEF Fifo!vars
  <1>4. ASSUME NEW n \in Node, NEW p \in net, Ingest(n, p)
        PROVE  [Fifo!Next]_(Fifo!vars)
    <2>1. CASE IngestAckOnly(n, p)
      BY <1>3, <2>1 DEF IngestAckOnly
    <2>2. CASE IngestNew(n, p)
      <3>0. PICK last \in recvHighest[n]..MaxSeq :
              /\ recvHighest' = [recvHighest EXCEPT ![n] = last]
              /\ \E run : delivered' = [delivered EXCEPT ![n] = @ \o run]
        BY <2>2 DEF IngestNew
      <3>1. PICK run : delivered' = [delivered EXCEPT ![n] = @ \o run]
        BY <3>0
      <3>2. sent' = sent
        BY <2>2 DEF IngestNew
      <3>3. Len(delivered'[n]) = last
        BY <1>0, <3>0 DEF StreamInv, TypeOK
      <3>4. /\ delivered'[n] = SubSeq(sent[Other(n)], 1, last)
            /\ last \in 0..Len(sent[Other(n)])
        <4>1. /\ delivered'[n] = SubSeq(sent'[Other(n)], 1, Len(delivered'[n]))
              /\ Len(delivered'[n]) \in 0..Len(sent'[Other(n)])
          BY <1>p DEF PrefixInv
        <4>2. QED
          BY <3>2, <3>3, <4>1
      <3>5. last \in Len(delivered[n])..Len(sent[Other(n)])
        BY <1>0, <3>0, <3>4, BoundsAssumption DEF StreamInv, TypeOK
      <3>6. delivered' = [delivered EXCEPT ![n] = SubSeq(sent[Other(n)], 1, last)]
        BY <1>0, <3>1, <3>4 DEF TypeOK
      <3>7. sent' = [sent EXCEPT ![n] = @ \o << >>]
        BY <1>0, <3>2 DEF TypeOK
      <3>8. << >> \in Fifo!Reply
        BY DEF Fifo!Reply
      <3>9. Fifo!Exchange(n, last, << >>)
        BY <3>5, <3>6, <3>7 DEF Fifo!Exchange
      <3>10. QED
        BY <3>5, <3>8, <3>9 DEF Fifo!Next
    <2>3. QED
      BY <1>4, <2>1, <2>2 DEF Ingest
  <1>5. ASSUME NEW p \in net, AcceptHello(p) PROVE Fifo!Next
    <2>1. /\ sent' = [sent EXCEPT ![Host] = Append(@, Welcome)]
          /\ delivered' = [delivered EXCEPT ![Host] = Append(@, Hello)]
          /\ sent[Host] = << >> /\ delivered[Host] = << >> /\ Other(Host) = Client
      BY <1>0, <1>5 DEF AcceptHello, BuildReliable, HandshakeInv, Other
    <2>2. sent'[Client] = sent[Client] /\ delivered'[Host] = <<Hello>>
      BY <1>0, <2>1 DEF TypeOK
    <2>3. /\ <<Hello>> = SubSeq(sent[Client], 1, 1)
          /\ 1 \in 0..Len(sent[Client])
      <3>1. /\ delivered'[Host] = SubSeq(sent'[Client], 1, Len(delivered'[Host]))
            /\ Len(delivered'[Host]) \in 0..Len(sent'[Client])
        BY <1>p, <2>1 DEF PrefixInv
      <3>2. QED
        BY <2>2, <3>1
    <2>4. /\ 1 \in Len(delivered[Host])..Len(sent[Other(Host)])
      BY <2>1, <2>3
    <2>5. delivered' = [delivered EXCEPT ![Host] = SubSeq(sent[Other(Host)], 1, 1)]
      BY <1>0, <2>1, <2>2, <2>3 DEF TypeOK
    <2>6. sent' = [sent EXCEPT ![Host] = @ \o <<Welcome>>]
      BY <2>1
    <2>7. Fifo!Exchange(Host, 1, <<Welcome>>)
      BY <2>4, <2>5, <2>6 DEF Fifo!Exchange
    <2>8. <<Welcome>> \in Fifo!Reply
      BY DEF Fifo!Reply, Message
    <2>9. QED
      BY <2>4, <2>7, <2>8 DEF Fifo!Next
  <1>6. ASSUME UNCHANGED <<open, link, sent, delivered>> PROVE UNCHANGED Fifo!vars
    BY <1>6, <1>3
  <1>7. QED
    BY <1>1, <1>2, <1>3, <1>4, <1>5, <1>6
       DEF Next, SendUnreliable, PollResends, Lose, vars

\* The retransmission protocol implements in-order, exactly-once FIFO streams.
THEOREM ImplementsFifo == Spec => FifoSpec
  <1>1. Init => Fifo!Init
    BY DEF Init, Fifo!Init
  <1>2. QED
    BY <1>1, StepImplementsFifo, Invariant, PTL DEF Spec, FifoSpec, Fifo!Spec
=============================================================================
