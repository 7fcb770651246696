--------------------------- MODULE ResyncStreamProofs ---------------------------
(***************************************************************************)
(* Proofs about ResyncStream for every set of guests, number of chunks and *)
(* bound: a guest applies whole snapshots, never an older one, and does    *)
(* not wait for ever for one.                                              *)
(***************************************************************************)
EXTENDS ResyncStream, SequenceTheorems, TLAPS

-----------------------------------------------------------------------------
(* Queues of messages.                                                     *)

\* The snapshots in a queue never go down (a notice carries none, 0), ...
Rising(q) ==
    \A i, j \in 1..Len(q) : i < j /\ q[j].snapshot # 0 => q[i].snapshot <= q[j].snapshot
\* ... they are no older than v, no newer than v, ...
AtLeast(q, v) == \A i \in 1..Len(q) : q[i].snapshot # 0 => v <= q[i].snapshot
AtMost(q, v) == \A i \in 1..Len(q) : q[i].snapshot <= v
\* ... and each is the one its request was answered with.
Tagged(q, ver) == \A i \in 1..Len(q) : q[i].snapshot # 0 => q[i].snapshot = ver[q[i].id]
\* The queue p comes before the queue q on the way to a guest.
Before(p, q) == \A i \in 1..Len(p) : AtLeast(q, p[i].snapshot)

\* What a message of each kind carries.
LEMMA MessageFacts ==
    ASSUME NEW m \in Message
    PROVE  /\ m.snapshot \in Nat
           /\ m.kind \in {"begin", "chunk", "commit"} =>
                m.id \in Request /\ m.snapshot \in Snapshot /\ m.snapshot # 0
           /\ m.kind = "chunk" => m.index \in Index
  BY StreamAssumption
  DEF Message, StreamMessage, Begin, Chunk, Commit, Left, State, Request, Snapshot, Index

\* The two notices of the relay are messages.
LEMMA NoticeFacts == Left \in Message /\ State \in Message
                     /\ Left.snapshot = 0 /\ State.snapshot = 0
  BY DEF Message, Left, State

\* A stream is a sequence of messages of one request and one snapshot.
LEMMA StreamFacts ==
    ASSUME NEW id \in Request, NEW v \in Snapshot
    PROVE  /\ Stream(id, v) \in Seq(StreamMessage)
           /\ \A i \in 1..Len(Stream(id, v)) :
                Stream(id, v)[i].id = id /\ Stream(id, v)[i].snapshot = v
  <1> DEFINE head == <<Begin(id, v)>>
             body == [i \in Index |-> Chunk(id, v, i)]
             end == <<Commit(id, v)>>
             S == {m \in StreamMessage : m.id = id /\ m.snapshot = v}
  <1>1. Begin(id, v) \in S /\ Commit(id, v) \in S /\ \A i \in Index : Chunk(id, v, i) \in S
    BY DEF StreamMessage, Begin, Commit, Chunk
  <1>2. head \in Seq(S) /\ end \in Seq(S)
    BY <1>1
  <1>3. body \in Seq(S)
    <2>1. Index = 1..Chunks /\ Chunks \in Nat
      BY StreamAssumption DEF Index
    <2>2. \A i \in 1..Chunks : Chunk(id, v, i) \in S
      BY <1>1, <2>1
    <2> HIDE DEF S
    <2> QED BY <2>1, <2>2, IsASeq
  <1>4. Stream(id, v) = head \o body \o end
    BY DEF Stream
  <1>5. Stream(id, v) \in Seq(S)
    <2> HIDE DEF S, head, body, end
    <2> QED BY <1>2, <1>3, <1>4, ConcatProperties
  <1>6. \A i \in 1..Len(Stream(id, v)) : Stream(id, v)[i] \in S
    <2> HIDE DEF S
    <2> QED BY <1>5, ElementOfSeq
  <1>7. Seq(S) \subseteq Seq(StreamMessage)
    <2>1. S \subseteq StreamMessage
      OBVIOUS
    <2> HIDE DEF S
    <2> QED BY <2>1, SeqMonotonic
  <1> QED BY <1>5, <1>6, <1>7

\* Taking the first message of a queue.
LEMMA TailFacts ==
    ASSUME NEW q \in Seq(Message), q # <<>>
    PROVE  /\ Head(q) \in Message /\ Tail(q) \in Seq(Message)
           /\ Rising(q) => Rising(Tail(q))
           /\ Rising(q) => AtLeast(Tail(q), Head(q).snapshot)
           /\ \A v : AtLeast(q, v) => AtLeast(Tail(q), v)
           /\ \A v : AtLeast(q, v) /\ Head(q).snapshot # 0 => v <= Head(q).snapshot
           /\ \A v : AtMost(q, v) => AtMost(Tail(q), v) /\ Head(q).snapshot <= v
           /\ \A ver : Tagged(q, ver) => Tagged(Tail(q), ver)
           /\ \A ver : Tagged(q, ver) /\ Head(q).snapshot # 0 =>
                         Head(q).snapshot = ver[Head(q).id]
           /\ \A r : Before(q, r) => Before(Tail(q), r) /\ AtLeast(r, Head(q).snapshot)
           /\ \A r : Before(r, q) => Before(r, Tail(q))
  <1>1. /\ Head(q) = q[1] /\ Len(q) \in Nat \ {0} /\ Len(Tail(q)) = Len(q) - 1
        /\ Tail(q) \in Seq(Message) /\ Head(q) \in Message
        /\ \A i \in 1..Len(Tail(q)) : Tail(q)[i] = q[i + 1]
    OBVIOUS
  <1>2. \A v : AtLeast(q, v) => AtLeast(Tail(q), v)
    BY <1>1 DEF AtLeast
  <1>3. Rising(q) => Rising(Tail(q)) /\ AtLeast(Tail(q), Head(q).snapshot)
    BY <1>1 DEF Rising, AtLeast
  <1>4. \A v : AtLeast(q, v) /\ Head(q).snapshot # 0 => v <= Head(q).snapshot
    BY <1>1 DEF AtLeast
  <1>5. \A v : AtMost(q, v) => AtMost(Tail(q), v) /\ Head(q).snapshot <= v
    BY <1>1 DEF AtMost
  <1>6. \A ver : Tagged(q, ver) => Tagged(Tail(q), ver)
                   /\ (Head(q).snapshot # 0 => Head(q).snapshot = ver[Head(q).id])
    BY <1>1 DEF Tagged
  <1>7. \A r : Before(q, r) => Before(Tail(q), r) /\ AtLeast(r, Head(q).snapshot)
    BY <1>1 DEF Before
  <1>8. \A r : Before(r, q) => Before(r, Tail(q))
    BY <1>2 DEF Before
  <1> QED BY <1>1, <1>2, <1>3, <1>4, <1>5, <1>6, <1>7, <1>8

\* Adding messages to a queue.
LEMMA CatFacts ==
    ASSUME NEW q \in Seq(Message), NEW r \in Seq(Message)
    PROVE  /\ q \o r \in Seq(Message)
           /\ Rising(q) /\ Rising(r) /\ Before(q, r) => Rising(q \o r)
           /\ \A v : AtLeast(q, v) /\ AtLeast(r, v) => AtLeast(q \o r, v)
           /\ \A v : AtMost(q, v) /\ AtMost(r, v) => AtMost(q \o r, v)
           /\ \A ver : Tagged(q, ver) /\ Tagged(r, ver) => Tagged(q \o r, ver)
           /\ \A p : Before(q, p) /\ Before(r, p) => Before(q \o r, p)
           /\ \A p : Before(p, q) /\ Before(p, r) => Before(p, q \o r)
  <1> DEFINE s == q \o r
  <1>1. /\ s \in Seq(Message) /\ Len(s) = Len(q) + Len(r)
        /\ Len(q) \in Nat /\ Len(r) \in Nat
        /\ \A i \in 1..Len(s) : s[i] = IF i <= Len(q) THEN q[i] ELSE r[i - Len(q)]
    BY ConcatProperties, LenProperties
  <1> HIDE DEF s
  <1>2. \A i \in 1..Len(s) : \/ i \in 1..Len(q) /\ s[i] = q[i]
                             \/ (i - Len(q)) \in 1..Len(r) /\ s[i] = r[i - Len(q)] /\ i > Len(q)
    BY <1>1
  <1>3. \A v : AtLeast(q, v) /\ AtLeast(r, v) => AtLeast(s, v)
    BY <1>2 DEF AtLeast
  <1>4. \A v : AtMost(q, v) /\ AtMost(r, v) => AtMost(s, v)
    BY <1>2 DEF AtMost
  <1>5. \A ver : Tagged(q, ver) /\ Tagged(r, ver) => Tagged(s, ver)
    BY <1>2 DEF Tagged
  <1>6. \A p : Before(q, p) /\ Before(r, p) => Before(s, p)
    BY <1>2 DEF Before
  <1>7. \A p : Before(p, q) /\ Before(p, r) => Before(p, s)
    BY <1>3 DEF Before
  <1>8. Rising(q) /\ Rising(r) /\ Before(q, r) => Rising(s)
    <2> SUFFICES ASSUME Rising(q), Rising(r), Before(q, r), NEW i \in 1..Len(s),
                        NEW j \in 1..Len(s), i < j, s[j].snapshot # 0
                 PROVE  s[i].snapshot <= s[j].snapshot
      BY DEF Rising
    <2>1. CASE j \in 1..Len(q)
      BY <1>1, <1>2, <2>1 DEF Rising
    <2>2. CASE i \in 1..Len(q) /\ j \notin 1..Len(q)
      BY <1>1, <1>2, <2>2 DEF Before, AtLeast
    <2>3. CASE i \notin 1..Len(q) /\ j \notin 1..Len(q)
      <3> DEFINE a == i - Len(q)  b == j - Len(q)
      <3>1. a \in 1..Len(r) /\ b \in 1..Len(r) /\ a < b /\ s[i] = r[a] /\ s[j] = r[b]
        BY <1>1, <1>2, <2>3
      <3> HIDE DEF a, b
      <3> QED BY <3>1 DEF Rising
    <2> QED BY <1>1, <2>1, <2>2, <2>3
  <1> QED BY <1>1, <1>3, <1>4, <1>5, <1>6, <1>7, <1>8 DEF s

\* Two notices, and one, as queues.
LEMMA NoticeQueues ==
    /\ <<State, Left>> \in Seq(Message) /\ <<State>> \in Seq(Message)
    /\ \A q \in {<<State, Left>>, <<State>>} : \A i \in 1..Len(q) : q[i].snapshot = 0
  <1>1. <<State, Left>> \in Seq(Message) /\ <<State>> \in Seq(Message)
    BY NoticeFacts
  <1>2. \A i \in 1..Len(<<State, Left>>) : <<State, Left>>[i].snapshot = 0
    BY NoticeFacts
  <1>3. \A i \in 1..Len(<<State>>) : <<State>>[i].snapshot = 0
    BY NoticeFacts
  <1> QED BY <1>1, <1>2, <1>3

\* A queue of notices goes with everything.
LEMMA NoticesAreNeutral ==
    ASSUME NEW q, \A i \in 1..Len(q) : q[i].snapshot = 0
    PROVE  /\ Rising(q) /\ \A v : AtLeast(q, v) /\ (v \in Nat => AtMost(q, v))
           /\ \A ver : Tagged(q, ver)
           /\ \A p : Before(p, q)
  BY DEF Rising, AtLeast, AtMost, Tagged, Before

-----------------------------------------------------------------------------
(* Types.                                                                  *)

\* The initial state has the right types.
LEMMA InitType == Init => TypeOK
  <1> SUFFICES ASSUME Init PROVE TypeOK
    OBVIOUS
  <1>1. Playing \in Runtime
    BY DEF Playing, Runtime
  <1>2. <<>> \in Seq(Request) /\ <<>> \in Seq(StreamMessage) /\ <<>> \in Seq(Message)
    BY EmptySeq
  <1> QED BY <1>1, <1>2, StreamAssumption DEF Init, TypeOK, Peer

\* Telling a guest something keeps the channels well-typed.
LEMMA ToldType ==
    ASSUME TypeOK, NEW p, NEW news \in Seq(Message)
    PROVE  Told(p, news) \in [Guest -> Seq(Message)]
  BY CatFacts DEF TypeOK, Told

\* What a guest takes is a message, and it has a running runtime.
LEMMA TakeType ==
    ASSUME TypeOK, NEW g \in Guest, NEW kind, Take(g, kind)
    PROVE  /\ Head(down[g]) \in Message /\ down' \in [Guest -> Seq(Message)]
           /\ Head(down[g]).kind = kind
           /\ guest[g] \in Runtime /\ guest[g] # Ended
  BY TailFacts DEF TypeOK, Take, On

\* The types are kept when a runtime fails.
LEMMA FailType ==
    ASSUME TypeOK, NEW g \in Guest, Fail(g)
    PROVE  TypeOK'
  <1>1. down' \in [Guest -> Seq(Message)]
    BY EmptySeq DEF TypeOK, Fail
  <1> QED BY <1>1 DEF TypeOK, Fail

\* Every step keeps the types.
LEMMA NextType == TypeOK /\ [Next]_vars => TypeOK'
  <1> SUFFICES ASSUME TypeOK, [Next]_vars PROVE TypeOK'
    OBVIOUS
  <1>1. ASSUME Store PROVE TypeOK'
    BY <1>1, StreamAssumption DEF TypeOK, Store, links, Snapshot
  <1>2. ASSUME Forward PROVE TypeOK'
    <2>1. Head(toRelay) \in StreamMessage /\ Tail(toRelay) \in Seq(StreamMessage)
      BY <1>2 DEF TypeOK, Forward
    <2>2. \A g \in Guest : Append(down[g], Head(toRelay)) \in Seq(Message)
      BY <2>1 DEF TypeOK, Message
    <2> QED BY <1>2, <2>1, <2>2 DEF TypeOK, Forward
  <1>3. ASSUME CutHost PROVE TypeOK'
    <2>1. down' \in [Guest -> Seq(Message)]
      BY <1>3, ToldType, NoticeQueues DEF CutHost
    <2>2. toRelay' \in Seq(StreamMessage) /\ toHost' \in [Guest -> Seq(Request)]
      BY <1>3, EmptySeq DEF CutHost
    <2>3. cuts' \in 0..MaxCuts
      BY <1>3, StreamAssumption DEF CutHost, TypeOK
    <2> QED BY <1>3, <2>1, <2>2, <2>3 DEF CutHost, TypeOK
  <1>4. ASSUME NEW g \in Guest, HandleRequest(g) PROVE TypeOK'
    <2>1. Head(toHost[g]) \in Request /\ Tail(toHost[g]) \in Seq(Request)
      BY <1>4 DEF TypeOK, HandleRequest
    <2>2. latest # 0 => toRelay \o Stream(Head(toHost[g]), latest) \in Seq(StreamMessage)
      <3> SUFFICES ASSUME latest # 0
                   PROVE  toRelay \o Stream(Head(toHost[g]), latest) \in Seq(StreamMessage)
        OBVIOUS
      <3>1. latest \in Snapshot
        BY StreamAssumption DEF TypeOK, Snapshot
      <3> QED BY <2>1, <3>1, StreamFacts, ConcatProperties DEF TypeOK
    <2> QED BY <1>4, <2>1, <2>2 DEF TypeOK, HandleRequest
  <1>5. ASSUME NEW g \in Guest, AskForResync(g) PROVE TypeOK'
    <2>1. requests + 1 \in Request
      BY <1>5, StreamAssumption DEF TypeOK, AskForResync, Request
    <2>2. guest[g] \in Runtime
      BY <1>5 DEF TypeOK, AskForResync, On
    <2>3. guest' \in [Guest -> Runtime \cup {Ended}]
      BY <1>5, <2>1, <2>2 DEF TypeOK, AskForResync, Runtime
    <2>4. toHost' \in [Guest -> Seq(Request)] /\ unanswered' \subseteq Request
      <3>1. Append(toHost[g], requests + 1) \in Seq(Request)
        BY <2>1 DEF TypeOK
      <3>2. CASE Host \in seated
        BY <1>5, <3>1, <3>2 DEF TypeOK, AskForResync
      <3>3. CASE Host \notin seated
        BY <1>5, <2>1, <3>3 DEF TypeOK, AskForResync
      <3> QED BY <3>2, <3>3
    <2>5. requests' \in 0..MaxRequests
      BY <1>5, <2>1 DEF AskForResync, Request
    <2> QED BY <1>5, <2>3, <2>4, <2>5 DEF TypeOK, AskForResync
  <1>6. ASSUME NEW g \in Guest, Receive(g) PROVE TypeOK'
    <2>0. ASSUME NEW kind, Take(g, kind), guest' \in [Guest -> Runtime \cup {Ended}]
          PROVE  TypeOK'
      <3>1. down' \in [Guest -> Seq(Message)]
        BY <2>0, TakeType
      <3> QED BY <2>0, <3>1 DEF TypeOK, Take
    <2> DEFINE m == Head(down[g])
    <2>1. CASE RecvBegin(g)
      <3>1. Take(g, "begin") /\ m.id \in Request /\ m.snapshot \in Snapshot
            /\ guest[g] \in Runtime
        BY <2>1, TakeType, MessageFacts DEF RecvBegin
      <3>2. [id |-> m.id, snapshot |-> m.snapshot, got |-> [i \in Index |-> 0]] \in Assembler
        BY <3>1 DEF Assembler
      <3>3. guest' \in [Guest -> Runtime \cup {Ended}]
        BY <2>1, <3>1, <3>2 DEF RecvBegin, Runtime, TypeOK
      <3> QED BY <2>0, <3>1, <3>3
    <2>2. CASE RecvChunk(g)
      <3>1. Take(g, "chunk") /\ m.index \in Index /\ m.snapshot \in Snapshot
            /\ guest[g] \in Runtime
        BY <2>2, TakeType, MessageFacts DEF RecvChunk
      <3>2. CASE Assembles(g, m)
        <4>1. guest[g].assembler \in Assembler
          BY <3>1, <3>2 DEF Assembles, Runtime
        <4>2. [guest[g].assembler EXCEPT !.got[m.index] = m.snapshot] \in Assembler
          BY <3>1, <4>1 DEF Assembler
        <4>3. guest' \in [Guest -> Runtime \cup {Ended}]
          <5>1. guest' = [guest EXCEPT ![g] = [guest[g] EXCEPT !.assembler =
                            [guest[g].assembler EXCEPT !.got[m.index] = m.snapshot]]]
            BY <2>2, <3>2, <4>1 DEF RecvChunk, TypeOK, Runtime
          <5>2. [guest[g] EXCEPT !.assembler =
                   [guest[g].assembler EXCEPT !.got[m.index] = m.snapshot]] \in Runtime
            BY <3>1, <4>2 DEF Runtime
          <5> QED BY <5>1, <5>2 DEF TypeOK
        <4> QED BY <2>0, <3>1, <4>3
      <3>3. CASE ~Assembles(g, m)
        <4>1. guest' \in [Guest -> Runtime \cup {Ended}]
          BY <2>2, <3>3 DEF RecvChunk, TypeOK
        <4> QED BY <2>0, <3>1, <4>1
      <3> QED BY <3>2, <3>3
    <2>3. CASE RecvCommit(g)
      <3>1. CASE Fail(g)
        BY <3>1, FailType
      <3>2. CASE Take(g, "commit") /\ guest' =
                   IF Assembles(g, m)
                   THEN [guest EXCEPT ![g].assembler = None, ![g].pending = guest[g].assembler.got,
                                      ![g].paused = TRUE, ![g].deadline = TRUE]
                   ELSE guest
        <4>1. guest[g] \in Runtime
          BY <3>2, TakeType
        <4>2. Assembles(g, m) => guest[g].assembler.got \in [Index -> Snapshot \cup {0}]
          BY <4>1 DEF Assembles, Runtime, Assembler
        <4>3. guest' \in [Guest -> Runtime \cup {Ended}]
          BY <3>2, <4>1, <4>2 DEF TypeOK, Runtime
        <4> QED BY <2>0, <3>2, <4>3
      <3> QED BY <2>3, <3>1, <3>2 DEF RecvCommit
    <2>4. CASE RecvLeft(g)
      <3>1. Take(g, "left") /\ guest[g] \in Runtime
        BY <2>4, TakeType DEF RecvLeft
      <3>2. guest' \in [Guest -> Runtime \cup {Ended}]
        BY <2>4, <3>1 DEF RecvLeft, TypeOK, Runtime
      <3> QED BY <2>0, <3>1, <3>2
    <2>5. CASE RecvState(g)
      <3>1. Take(g, "state") /\ guest[g] \in Runtime
        BY <2>5, TakeType DEF RecvState
      <3>2. guest' \in [Guest -> Runtime \cup {Ended}]
        BY <2>5, <3>1 DEF RecvState, TypeOK, Runtime
      <3> QED BY <2>0, <3>1, <3>2
    <2> QED BY <1>6, <2>1, <2>2, <2>3, <2>4, <2>5 DEF Receive
  <1>7. ASSUME NEW g \in Guest, Apply(g) PROVE TypeOK'
    <2>1. guest[g] \in Runtime
      BY <1>7 DEF Apply, On, TypeOK
    <2>2. guest[g].pending[1] \in Snapshot \cup {0}
      BY <1>7, <2>1, StreamAssumption DEF Apply, Runtime, Index
    <2>3. guest' \in [Guest -> Runtime \cup {Ended}]
      BY <1>7, <2>1 DEF Apply, TypeOK, Runtime
    <2> QED BY <1>7, <2>2, <2>3 DEF Apply, TypeOK, links
  <1>8. ASSUME NEW g \in Guest, DeadlineExpires(g) PROVE TypeOK'
    BY <1>8, FailType DEF DeadlineExpires
  <1>9. ASSUME NEW g \in Guest, CutGuest(g) PROVE TypeOK'
    <2>1. down' \in [Guest -> Seq(Message)] /\ toHost' \in [Guest -> Seq(Request)]
      BY <1>9, ToldType, NoticeQueues, EmptySeq DEF CutGuest, TypeOK
    <2>2. guest[g] \in Runtime
      BY <1>9 DEF CutGuest, On, TypeOK
    <2>3. guest' \in [Guest -> Runtime \cup {Ended}]
      BY <1>9, <2>2 DEF CutGuest, TypeOK, Runtime
    <2>4. cuts' \in 0..MaxCuts /\ seated' \subseteq Peer
      BY <1>9, StreamAssumption DEF CutGuest, TypeOK
    <2> QED BY <1>9, <2>1, <2>3, <2>4 DEF CutGuest, TypeOK
  <1>10. ASSUME NEW g \in Guest, Prune(g) PROVE TypeOK'
    <2>1. down' \in [Guest -> Seq(Message)] /\ toHost' \in [Guest -> Seq(Request)]
      BY <1>10, ToldType, NoticeQueues, EmptySeq DEF Prune, TypeOK
    <2> QED BY <1>10, <2>1 DEF Prune, TypeOK
  <1>11. ASSUME NEW p \in Peer, Rejoin(p) PROVE TypeOK'
    <2>1. down' \in [Guest -> Seq(Message)]
      BY <1>11, ToldType, NoticeQueues DEF Rejoin
    <2>2. guest' \in [Guest -> Runtime \cup {Ended}]
      <3>1. CASE p = Host
        BY <1>11, <3>1 DEF Rejoin, TypeOK
      <3>2. CASE p # Host
        <4>1. p \in Guest /\ guest[p] \in Runtime
          BY <1>11, <3>2 DEF Rejoin, Peer, On, TypeOK
        <4> QED BY <1>11, <3>2, <4>1 DEF Rejoin, TypeOK, Runtime
      <3> QED BY <3>1, <3>2
    <2> QED BY <1>11, <2>1, <2>2 DEF Rejoin, TypeOK, Peer
  <1>12. ASSUME UNCHANGED vars PROVE TypeOK'
    BY <1>12 DEF vars, links, TypeOK
  <1> QED BY <1>1, <1>2, <1>3, <1>4, <1>5, <1>6, <1>7, <1>8, <1>9, <1>10, <1>11, <1>12 DEF Next

\* Every variable has its type.
THEOREM TypeCorrect == Spec => []TypeOK
  BY InitType, NextType, PTL DEF Spec

-----------------------------------------------------------------------------
(* The inductive invariant.  `ver' is the snapshot each request was        *)
(* answered with, 0 when it has not been: there is one answer to a request,*)
(* so all messages of a stream carry the same snapshot.                    *)

QueueOK(ver) ==
    /\ Rising(toRelay) /\ AtMost(toRelay, latest) /\ Tagged(toRelay, ver)
    /\ \A g \in Guest : /\ Rising(down[g]) /\ AtMost(down[g], latest) /\ Tagged(down[g], ver)
                        /\ Before(down[g], toRelay)

\* Nothing older than v is on its way to g.
Newest(g, v) == v \in 0..latest /\ AtLeast(down[g], v) /\ AtLeast(toRelay, v)

PendingOK(g) ==
    \E v \in 1..latest : /\ guest[g].pending = [i \in Index |-> v]
                         /\ applied[g] <= v /\ Newest(g, v)

AssemblerOK(g, ver) ==
    LET a == guest[g].assembler
    IN  /\ Newest(g, a.snapshot) /\ applied[g] <= a.snapshot /\ a.snapshot = ver[a.id]
        /\ \A i \in Index : a.got[i] \in {0, a.snapshot}
        /\ guest[g].pending # None => guest[g].pending[1] <= a.snapshot

GuestOK(g, ver) ==
    /\ Newest(g, applied[g])
    /\ On(g) /\ guest[g].pending # None => PendingOK(g)
    /\ On(g) /\ guest[g].assembler # None => AssemblerOK(g, ver)

RequestOK(ver) ==
    /\ \A id \in Request : id > requests => ver[id] = 0
    /\ \A g \in Guest : \A i \in 1..Len(toHost[g]) :
          ver[toHost[g][i]] = 0 /\ toHost[g][i] <= requests
    /\ \A g, h \in Guest : \A i \in 1..Len(toHost[g]), j \in 1..Len(toHost[h]) :
          toHost[g][i] = toHost[h][j] => g = h /\ i = j

Answers(ver) == QueueOK(ver) /\ RequestOK(ver) /\ \A g \in Guest : GuestOK(g, ver)

IInv == TypeOK /\ \E ver \in [Request -> Nat] : Answers(ver)

\* The initial state satisfies the inductive invariant.
LEMMA InitIInv == Init => IInv
  <1> SUFFICES ASSUME Init PROVE IInv
    OBVIOUS
  <1> DEFINE ver == [id \in Request |-> 0]
  <1>1. Len(<<>>) = 0 /\ \A i \in 1..Len(<<>>) : <<>>[i].snapshot = 0
    BY EmptySeq
  <1>2. /\ Rising(<<>>) /\ \A v : AtLeast(<<>>, v) /\ (v \in Nat => AtMost(<<>>, v))
        /\ Tagged(<<>>, ver)
        /\ \A p : Before(p, <<>>)
    BY <1>1, NoticesAreNeutral
  <1>3. QueueOK(ver)
    BY <1>2 DEF QueueOK, Init
  <1>4. RequestOK(ver)
    BY <1>1 DEF RequestOK, Init
  <1>5. \A g \in Guest : GuestOK(g, ver)
    BY <1>2 DEF GuestOK, Newest, Init, Playing
  <1>6. ver \in [Request -> Nat]
    OBVIOUS
  <1> HIDE DEF ver
  <1> QED BY <1>3, <1>4, <1>5, <1>6, InitType DEF IInv, Answers

\* A guest that keeps what it assembles and what it has assembled is as it should
\* be when nothing older than before comes to it.
LEMMA GuestStays ==
    ASSUME NEW g, NEW ver, NEW w, GuestOK(g, ver), applied'[g] = applied[g],
           latest \in Nat, latest' \in Nat, latest <= latest',
           \A v : Newest(g, v) => Newest(g, v)',
           On(g)' => /\ On(g) /\ guest'[g].pending = guest[g].pending
                     /\ guest'[g].assembler = guest[g].assembler,
           On(g) /\ guest[g].assembler # None =>
             w[guest[g].assembler.id] = ver[guest[g].assembler.id]
    PROVE  GuestOK(g, w)'
  <1>1. Newest(g, applied[g])'
    BY DEF GuestOK
  <1>2. ASSUME On(g)', guest'[g].pending # None PROVE PendingOK(g)'
    <2>1. PICK v \in 1..latest : /\ guest[g].pending = [i \in Index |-> v]
                                 /\ applied[g] <= v /\ Newest(g, v)
      BY <1>2 DEF GuestOK, PendingOK
    <2>2. v \in 1..latest' /\ Newest(g, v)'
      BY <2>1
    <2> QED BY <1>2, <2>1, <2>2 DEF PendingOK
  <1>3. ASSUME On(g)', guest'[g].assembler # None PROVE AssemblerOK(g, w)'
    BY <1>3 DEF GuestOK, AssemblerOK
  <1> QED BY <1>1, <1>2, <1>3 DEF GuestOK

\* Queues that others than the host's requests leave alone.
LEMMA RequestsStay ==
    ASSUME NEW ver, RequestOK(ver), TypeOK, requests' = requests,
           \A g \in Guest : toHost'[g] \in {toHost[g], <<>>}
    PROVE  RequestOK(ver)'
  <1>1. \A g \in Guest : \A i \in 1..Len(toHost'[g]) :
          i \in 1..Len(toHost[g]) /\ toHost'[g][i] = toHost[g][i]
    BY EmptySeq
  <1> QED BY <1>1 DEF RequestOK

\* g takes the next message of its link.
LEMMA TakeQueues ==
    ASSUME TypeOK, NEW ver, Answers(ver), NEW g \in Guest, NEW kind, Take(g, kind),
           NEW m, m = Head(down[g])
    PROVE  /\ QueueOK(ver)' /\ RequestOK(ver)'
           /\ \A h \in Guest : \A v : Newest(h, v) => Newest(h, v)'
           /\ \A h \in Guest \ {g} : guest'[h] = guest[h] => GuestOK(h, ver)'
           /\ m.snapshot # 0 => /\ m.snapshot \in 1..latest
                                /\ m.snapshot = ver[m.id]
                                /\ Newest(g, m.snapshot)'
                                /\ \A v : Newest(g, v) => v <= m.snapshot
  <1>1. /\ down[g] \in Seq(Message) /\ down[g] # <<>> /\ m \in Message
        /\ down' = [down EXCEPT ![g] = Tail(down[g])] /\ down'[g] = Tail(down[g])
        /\ \A h \in Guest \ {g} : down'[h] = down[h]
    BY TakeType DEF TypeOK, Take
  <1>2. /\ UNCHANGED <<latest, toHost, toRelay, requests, applied>>
    BY DEF Take
  <1>3. QueueOK(ver)'
    BY <1>1, <1>2, TailFacts DEF QueueOK, Answers
  <1>4. RequestOK(ver)'
    BY <1>2, RequestsStay DEF Answers
  <1>5. \A h \in Guest : \A v : Newest(h, v) => Newest(h, v)'
    BY <1>1, <1>2, TailFacts DEF Newest
  <1>6. ASSUME NEW h \in Guest \ {g}, guest'[h] = guest[h] PROVE GuestOK(h, ver)'
    <2>1. latest \in Nat /\ latest' = latest
      BY <1>2, StreamAssumption DEF TypeOK
    <2>2. On(h)' => On(h)
      BY <1>6 DEF On
    <2> QED BY <1>2, <1>5, <1>6, <2>1, <2>2, GuestStays DEF Answers
  <1>7. ASSUME m.snapshot # 0
        PROVE  /\ m.snapshot \in 1..latest /\ m.snapshot = ver[m.id]
               /\ Newest(g, m.snapshot)' /\ \A v : Newest(g, v) => v <= m.snapshot
    <2>1. m.snapshot \in 1..latest
      BY <1>1, <1>7, TailFacts, MessageFacts DEF QueueOK, Answers
    <2>2. m.snapshot = ver[m.id]
      BY <1>1, <1>7, TailFacts DEF QueueOK, Answers
    <2>3. Newest(g, m.snapshot)'
      BY <1>1, <1>2, <2>1, TailFacts DEF QueueOK, Answers, Newest
    <2>4. \A v : Newest(g, v) => v <= m.snapshot
      BY <1>1, <1>7, TailFacts DEF Newest
    <2> QED BY <2>1, <2>2, <2>3, <2>4
  <1> QED BY <1>3, <1>4, <1>5, <1>6, <1>7

\* A guest whose runtime has an error takes part no more.
LEMMA FailKeeps ==
    ASSUME TypeOK, NEW ver, Answers(ver), NEW g \in Guest, Fail(g)
    PROVE  Answers(ver)'
  <1>00. /\ latest \in Nat /\ \A h \in Guest : applied[h] \in Nat
    BY StreamAssumption DEF TypeOK, Snapshot
  <1>0. PICK e : e = <<>>
    OBVIOUS
  <1>1. /\ guest' = [guest EXCEPT ![g] = Ended] /\ down' = [down EXCEPT ![g] = e]
        /\ UNCHANGED <<latest, toHost, toRelay, requests, applied>>
    BY <1>0 DEF Fail
  <1>2. Len(e) = 0 /\ Rising(e) /\ Tagged(e, ver) /\ Before(e, toRelay) /\ AtMost(e, latest)
        /\ \A v : AtLeast(e, v)
    BY <1>0, EmptySeq DEF Rising, Tagged, Before, AtMost, AtLeast
  <1>3. QueueOK(ver)'
    BY <1>1, <1>2 DEF QueueOK, Answers, TypeOK
  <1>4. RequestOK(ver)'
    BY <1>1, RequestsStay DEF Answers
  <1>5. \A h \in Guest : \A v : Newest(h, v) => Newest(h, v)'
    BY <1>1, <1>2 DEF Newest, TypeOK
  <1>6. ASSUME NEW h \in Guest PROVE GuestOK(h, ver)'
    <2>1. On(h)' => On(h) /\ guest'[h] = guest[h]
      BY <1>1 DEF On, TypeOK
    <2> QED BY <1>00, <1>1, <1>5, <2>1, GuestStays DEF Answers
  <1> QED BY <1>3, <1>4, <1>6 DEF Answers

\* A guest's message changes its assembler, what is pending, or neither.
LEMMA ReceiveKeeps ==
    ASSUME TypeOK, NEW ver \in [Request -> Nat], Answers(ver), NEW g \in Guest, Receive(g)
    PROVE  Answers(ver)'
  <1> PICK m : m = Head(down[g])
    OBVIOUS
  <1>0. ASSUME NEW kind, Take(g, kind), GuestOK(g, ver)',
               guest' = [guest EXCEPT ![g] = guest'[g]]
        PROVE  Answers(ver)'
    <2>1. \A h \in Guest \ {g} : guest'[h] = guest[h]
      BY <1>0 DEF TypeOK
    <2>2. \A h \in Guest : GuestOK(h, ver)'
      BY <1>0, <2>1, TakeQueues
    <2>3. QueueOK(ver)' /\ RequestOK(ver)'
      BY <1>0, TakeQueues
    <2> QED BY <2>2, <2>3 DEF Answers
  <1>00. /\ latest \in Nat /\ \A h \in Guest : applied[h] \in Nat
    BY StreamAssumption DEF TypeOK, Snapshot
  \* A message that changes neither.
  <1>1. ASSUME NEW kind, Take(g, kind), guest' = [guest EXCEPT ![g] = guest'[g]],
               On(g)' => /\ guest'[g].pending = guest[g].pending
                         /\ guest'[g].assembler = guest[g].assembler
        PROVE  Answers(ver)'
    <2>1. \A v : Newest(g, v) => Newest(g, v)'
      BY <1>1, TakeQueues
    <2>2. On(g) /\ latest' = latest /\ applied' = applied
      BY <1>1 DEF Take
    <2>3. GuestOK(g, ver)'
      BY <1>00, <1>1, <2>1, <2>2, GuestStays DEF Answers
    <2> QED BY <1>0, <1>1, <2>3
  <1>2. CASE RecvBegin(g)
    <2>1. /\ Take(g, "begin") /\ guest[g] \in Runtime /\ m.snapshot # 0
          /\ latest' = latest /\ applied' = applied
      BY <1>2, TakeType, MessageFacts DEF RecvBegin, Take
    <2>2. CASE Wanted(g, m)
      <3> DEFINE a == [id |-> m.id, snapshot |-> m.snapshot, got |-> [i \in Index |-> 0]]
      <3>1. /\ guest' = [guest EXCEPT ![g] = guest'[g]]
            /\ guest'[g].assembler = a /\ guest'[g].pending = guest[g].pending
        BY <1>2, <2>1, <2>2 DEF RecvBegin, TypeOK, Runtime
      <3>2. /\ m.snapshot \in 1..latest /\ m.snapshot = ver[m.id] /\ Newest(g, m.snapshot)'
            /\ \A v : Newest(g, v) => v <= m.snapshot
            /\ \A v : Newest(g, v) => Newest(g, v)'
        BY <2>1, TakeQueues
      <3>3. On(g) /\ GuestOK(g, ver)
        BY <2>1 DEF Answers, Take
      <3>4. applied[g] <= m.snapshot /\ Newest(g, applied[g])'
        BY <2>1, <3>2, <3>3 DEF GuestOK
      <3>5. ASSUME guest[g].pending # None PROVE PendingOK(g)' /\ guest[g].pending[1] <= m.snapshot
        <4>1. PICK v \in 1..latest : /\ guest[g].pending = [i \in Index |-> v]
                                     /\ applied[g] <= v /\ Newest(g, v)
          BY <3>3, <3>5 DEF GuestOK, PendingOK
        <4>2. 1 \in Index
          BY StreamAssumption DEF Index
        <4>3. PendingOK(g)'
          BY <2>1, <3>1, <3>2, <4>1 DEF PendingOK
        <4> QED BY <3>2, <4>1, <4>2, <4>3
      <3>6. AssemblerOK(g, ver)'
        BY <2>1, <3>1, <3>2, <3>4, <3>5 DEF AssemblerOK
      <3>7. GuestOK(g, ver)'
        BY <3>1, <3>4, <3>5, <3>6 DEF GuestOK
      <3> QED BY <1>0, <2>1, <3>1, <3>7
    <2>3. CASE ~Wanted(g, m)
      BY <1>1, <1>2, <2>1, <2>3 DEF RecvBegin, TypeOK
    <2> QED BY <2>2, <2>3
  <1>3. CASE RecvChunk(g)
    <2>1. /\ Take(g, "chunk") /\ guest[g] \in Runtime /\ m.snapshot # 0 /\ m.index \in Index
          /\ latest' = latest /\ applied' = applied
      BY <1>3, TakeType, MessageFacts DEF RecvChunk, Take
    <2>2. CASE Assembles(g, m)
      <3> PICK a : a = guest[g].assembler
        OBVIOUS
      <3> PICK b : b = [a EXCEPT !.got[m.index] = m.snapshot]
        OBVIOUS
      <3>0. a \in Assembler /\ a.id = m.id /\ a # None
        BY <2>1, <2>2 DEF Assembles, Runtime
      <3>1. /\ guest' = [guest EXCEPT ![g] = guest'[g]]
            /\ guest'[g].assembler = b /\ guest'[g].pending = guest[g].pending
        BY <1>3, <2>1, <2>2, <3>0 DEF RecvChunk, TypeOK, Runtime
      <3>2. /\ m.snapshot = ver[m.id]
            /\ \A v : Newest(g, v) => Newest(g, v)'
        BY <2>1, TakeQueues
      <3>3. On(g) /\ GuestOK(g, ver) /\ AssemblerOK(g, ver)
        BY <2>1, <3>0 DEF Answers, Take, GuestOK
      <3>4. a.snapshot = m.snapshot
        BY <3>0, <3>2, <3>3 DEF AssemblerOK
      <3>5. /\ b.snapshot = a.snapshot /\ b.id = a.id
            /\ \A i \in Index : b.got[i] \in {0, a.snapshot}
        BY <2>1, <3>0, <3>3, <3>4 DEF Assembler, AssemblerOK
      <3>6. Newest(g, a.snapshot) /\ applied[g] <= a.snapshot /\ a.snapshot = ver[a.id]
            /\ (guest[g].pending # None => guest[g].pending[1] <= a.snapshot)
        BY <3>3 DEF AssemblerOK
      <3>7. AssemblerOK(g, ver)'
        BY <2>1, <3>1, <3>2, <3>5, <3>6 DEF AssemblerOK
      <3>8. ASSUME guest[g].pending # None PROVE PendingOK(g)'
        BY <2>1, <3>1, <3>2, <3>3, <3>8 DEF GuestOK, PendingOK
      <3>9. GuestOK(g, ver)'
        BY <2>1, <3>1, <3>2, <3>3, <3>7, <3>8 DEF GuestOK
      <3> QED BY <1>0, <2>1, <3>1, <3>9
    <2>3. CASE ~Assembles(g, m)
      BY <1>1, <1>3, <2>1, <2>3 DEF RecvChunk, TypeOK
    <2> QED BY <2>2, <2>3
  <1>4. CASE RecvCommit(g) /\ ~Fail(g)
    <2>1. /\ Take(g, "commit") /\ guest[g] \in Runtime
          /\ latest' = latest /\ applied' = applied
          /\ Assembles(g, m) => Complete(guest[g].assembler)
          /\ guest' = IF Assembles(g, m)
                      THEN [guest EXCEPT ![g].assembler = None,
                                         ![g].pending = guest[g].assembler.got,
                                         ![g].paused = TRUE, ![g].deadline = TRUE]
                      ELSE guest
      BY <1>4, TakeType DEF RecvCommit, Take
    <2>2. CASE Assembles(g, m)
      <3> PICK a : a = guest[g].assembler
        OBVIOUS
      <3>0. a \in Assembler /\ a # None
        BY <2>1, <2>2 DEF Assembles, Runtime
      <3>1. /\ guest' = [guest EXCEPT ![g] = guest'[g]]
            /\ guest'[g].assembler = None /\ guest'[g].pending = a.got
        BY <2>1, <2>2 DEF TypeOK, Runtime
      <3>2. On(g) /\ GuestOK(g, ver) /\ AssemblerOK(g, ver)
        BY <2>1, <3>0 DEF Answers, Take, GuestOK
      <3>3. /\ Newest(g, a.snapshot) /\ applied[g] <= a.snapshot
            /\ \A i \in Index : a.got[i] \in {0, a.snapshot}
        BY <3>2 DEF AssemblerOK
      <3>4. a.got = [i \in Index |-> a.snapshot]
        BY <2>1, <2>2, <3>0, <3>3 DEF Complete, Assembler
      <3>5. a.snapshot \in 1..latest
        BY <3>0, <3>3, StreamAssumption DEF Newest, Assembler, Snapshot
      <3>6. \A v : Newest(g, v) => Newest(g, v)'
        BY <2>1, TakeQueues
      <3>7. PendingOK(g)'
        BY <2>1, <3>1, <3>3, <3>4, <3>5, <3>6 DEF PendingOK
      <3>8. GuestOK(g, ver)'
        BY <2>1, <3>1, <3>2, <3>6, <3>7 DEF GuestOK
      <3> QED BY <1>0, <2>1, <3>1, <3>8
    <2>3. CASE ~Assembles(g, m)
      BY <1>1, <2>1, <2>3 DEF TypeOK
    <2> QED BY <2>2, <2>3
  <1>5. CASE RecvLeft(g)
    <2>1. Take(g, "left") /\ guest[g] \in Runtime
      BY <1>5, TakeType DEF RecvLeft
    <2>2. /\ guest' = [guest EXCEPT ![g] = guest'[g]]
          /\ guest'[g].pending = guest[g].pending /\ guest'[g].assembler = guest[g].assembler
      BY <1>5, <2>1 DEF RecvLeft, TypeOK, Runtime
    <2> QED BY <1>1, <2>1, <2>2
  <1>6. CASE RecvState(g)
    <2>1. Take(g, "state") /\ guest[g] \in Runtime
      BY <1>6, TakeType DEF RecvState
    <2>2. /\ guest' = [guest EXCEPT ![g] = guest'[g]]
          /\ guest'[g].pending = guest[g].pending /\ guest'[g].assembler = guest[g].assembler
      BY <1>6, <2>1 DEF RecvState, TypeOK, Runtime
    <2> QED BY <1>1, <2>1, <2>2
  <1>7. CASE Fail(g)
    BY <1>7, FailKeeps
  <1> QED BY <1>2, <1>3, <1>4, <1>5, <1>6, <1>7 DEF Receive

\* A peer comes or goes: the others are told, the links of the peer may be
\* empty, and no guest's assembler or pending snapshot changes.
LEMMA ComingsAndGoings ==
    ASSUME TypeOK, NEW ver, Answers(ver), NEW p, NEW news \in {<<State, Left>>, <<State>>},
           \A g \in Guest : down'[g] \in {Told(p, news)[g], <<>>},
           \A g \in Guest : toHost'[g] \in {toHost[g], <<>>},
           toRelay' \in {toRelay, <<>>},
           \A g \in Guest : On(g)' => /\ On(g) /\ guest'[g].pending = guest[g].pending
                                      /\ guest'[g].assembler = guest[g].assembler,
           UNCHANGED <<latest, requests, applied>>
    PROVE  Answers(ver)'
  <1>1. /\ news \in Seq(Message) /\ Rising(news) /\ Tagged(news, ver)
        /\ \A v : AtLeast(news, v) /\ (v \in Nat => AtMost(news, v))
        /\ \A q : Before(q, news)
        /\ \A q : Before(news, q) <=> \A i \in 1..Len(news) : AtLeast(q, 0)
    BY NoticeQueues, NoticesAreNeutral DEF Before
  <1>2. PICK e : e = <<>>
    OBVIOUS
  <1>3. /\ e \in Seq(Message) /\ Rising(e) /\ Tagged(e, ver)
        /\ \A v : AtLeast(e, v) /\ AtMost(e, v)
        /\ \A q : Before(q, e) /\ Before(e, q)
    BY <1>2, EmptySeq DEF Rising, Tagged, Before, AtMost, AtLeast
  <1>4. latest \in Nat /\ toRelay \in Seq(StreamMessage)
    BY StreamAssumption DEF TypeOK
  <1>5. AtLeast(toRelay, 0)
    BY <1>4, MessageFacts, ElementOfSeq DEF AtLeast, Message
  <1>6. Before(news, toRelay)
    BY <1>1, <1>5
  <1>7. \A g \in Guest : down[g] \in Seq(Message)
    BY DEF TypeOK
  <1>8. \A g \in Guest : down'[g] \in {down[g] \o news, down[g], e}
    BY <1>2 DEF Told
  <1>9. QueueOK(ver)'
    <2>1. \A g \in Guest : /\ Rising(down'[g]) /\ AtMost(down'[g], latest)
                           /\ Tagged(down'[g], ver) /\ Before(down'[g], toRelay)
      <3> SUFFICES ASSUME NEW g \in Guest
                   PROVE  /\ Rising(down'[g]) /\ AtMost(down'[g], latest)
                          /\ Tagged(down'[g], ver) /\ Before(down'[g], toRelay)
        OBVIOUS
      <3>1. /\ Rising(down[g]) /\ AtMost(down[g], latest) /\ Tagged(down[g], ver)
            /\ Before(down[g], toRelay)
        BY DEF Answers, QueueOK
      <3>2. CASE down'[g] = down[g] \o news
        BY <1>1, <1>4, <1>6, <1>7, <3>1, <3>2, CatFacts
      <3>3. CASE down'[g] = down[g]
        BY <3>1, <3>3
      <3>4. CASE down'[g] = e
        BY <1>3, <3>4
      <3> QED BY <1>8, <3>2, <3>3, <3>4
    <2>2. toRelay' \in {toRelay, e}
      BY <1>2
    <2> QED BY <1>3, <2>1, <2>2 DEF Answers, QueueOK
  <1>10. RequestOK(ver)'
    BY RequestsStay DEF Answers
  <1>11. \A g \in Guest : \A v : Newest(g, v) => Newest(g, v)'
    <2>1. toRelay' \in {toRelay, e}
      BY <1>2
    <2>2. ASSUME NEW g \in Guest, NEW v, AtLeast(down[g], v) PROVE AtLeast(down'[g], v)
      <3>1. CASE down'[g] = down[g] \o news
        BY <1>1, <1>7, <2>2, <3>1, CatFacts
      <3>2. CASE down'[g] \in {down[g], e}
        BY <1>3, <2>2, <3>2
      <3> QED BY <1>8, <3>1, <3>2
    <2> QED BY <1>3, <2>1, <2>2 DEF Newest
  <1>12. \A g \in Guest : GuestOK(g, ver)'
    BY <1>4, <1>11, GuestStays DEF Answers
  <1> QED BY <1>9, <1>10, <1>12 DEF Answers

\* The host answers a request: the stream is the newest of all, and the first of
\* its request.
LEMMA AnswerKeeps ==
    ASSUME TypeOK, NEW ver \in [Request -> Nat], Answers(ver), NEW g \in Guest,
           HandleRequest(g)
    PROVE  \E w \in [Request -> Nat] : Answers(w)'
  <1> PICK id : id = Head(toHost[g])
    OBVIOUS
  <1>1. /\ toHost[g] \in Seq(Request) /\ toHost[g] # <<>>
        /\ toHost' = [toHost EXCEPT ![g] = Tail(toHost[g])]
        /\ UNCHANGED <<latest, down, guest, requests, applied>>
    BY DEF HandleRequest, TypeOK
  <1>2. /\ id \in Request /\ id = toHost[g][1] /\ Len(toHost[g]) \in Nat \ {0}
        /\ Len(Tail(toHost[g])) = Len(toHost[g]) - 1
        /\ \A i \in 1..Len(Tail(toHost[g])) : Tail(toHost[g])[i] = toHost[g][i + 1]
    BY <1>1
  <1>3. latest \in Nat /\ \A h \in Guest : On(h)' <=> On(h)
    BY <1>1, StreamAssumption DEF TypeOK, On
  \* The requests that are left are others than this one.
  <1>4. \A h \in Guest : \A i \in 1..Len(toHost'[h]) :
          \E j \in 1..Len(toHost[h]) : /\ toHost'[h][i] = toHost[h][j]
                                       /\ toHost[h][j] # id
                                       /\ h = g => j = i + 1
                                       /\ h # g => j = i
    <2> SUFFICES ASSUME NEW h \in Guest, NEW i \in 1..Len(toHost'[h])
                 PROVE  \E j \in 1..Len(toHost[h]) : /\ toHost'[h][i] = toHost[h][j]
                                                     /\ toHost[h][j] # id
                                                     /\ h = g => j = i + 1
                                                     /\ h # g => j = i
      OBVIOUS
    <2>1. CASE h = g
      <3>1. toHost'[h] = Tail(toHost[g])
        BY <1>1, <2>1 DEF TypeOK
      <3>2. i + 1 \in 1..Len(toHost[h]) /\ toHost'[h][i] = toHost[h][i + 1]
        BY <1>2, <2>1, <3>1
      <3>3. toHost[h][i + 1] # id
        <4>1. 1 \in 1..Len(toHost[g]) /\ i + 1 # 1
          BY <1>2
        <4> QED BY <1>2, <2>1, <3>2, <4>1 DEF Answers, RequestOK
      <3> QED BY <2>1, <3>2, <3>3
    <2>2. CASE h # g
      <3>1. toHost'[h] = toHost[h]
        BY <1>1, <2>2 DEF TypeOK
      <3>2. toHost[h][i] # id
        BY <1>2, <2>2, <3>1 DEF Answers, RequestOK
      <3> QED BY <2>2, <3>1, <3>2
    <2> QED BY <2>1, <2>2
  <1>5. ver[id] = 0 /\ id <= requests
    BY <1>2 DEF Answers, RequestOK
  <1>6. ASSUME NEW w \in [Request -> Nat], \A r \in Request \ {id} : w[r] = ver[r]
        PROVE  RequestOK(w)'
    <2>1. \A r \in Request : r > requests => w[r] = 0
      BY <1>5, <1>6, StreamAssumption DEF Answers, RequestOK, Request, TypeOK
    <2>2. \A h \in Guest : \A i \in 1..Len(toHost'[h]) :
            w[toHost'[h][i]] = 0 /\ toHost'[h][i] <= requests
      <3> SUFFICES ASSUME NEW h \in Guest, NEW i \in 1..Len(toHost'[h])
                   PROVE  w[toHost'[h][i]] = 0 /\ toHost'[h][i] <= requests
        OBVIOUS
      <3>1. PICK j \in 1..Len(toHost[h]) : toHost'[h][i] = toHost[h][j] /\ toHost[h][j] # id
        BY <1>4
      <3>2. toHost[h][j] \in Request
        BY ElementOfSeq DEF TypeOK
      <3> QED BY <1>6, <3>1, <3>2 DEF Answers, RequestOK
    <2>3. \A h, k \in Guest : \A i \in 1..Len(toHost'[h]), j \in 1..Len(toHost'[k]) :
            toHost'[h][i] = toHost'[k][j] => h = k /\ i = j
      <3> SUFFICES ASSUME NEW h \in Guest, NEW k \in Guest, NEW i \in 1..Len(toHost'[h]),
                          NEW j \in 1..Len(toHost'[k]), toHost'[h][i] = toHost'[k][j]
                   PROVE  h = k /\ i = j
        OBVIOUS
      <3>1. PICK a \in 1..Len(toHost[h]) : /\ toHost'[h][i] = toHost[h][a]
                                           /\ h = g => a = i + 1
                                           /\ h # g => a = i
        BY <1>4
      <3>2. PICK b \in 1..Len(toHost[k]) : /\ toHost'[k][j] = toHost[k][b]
                                           /\ k = g => b = j + 1
                                           /\ k # g => b = j
        BY <1>4
      <3>3. toHost[h][a] = toHost[k][b]
        BY <3>1, <3>2
      <3>4. h = k /\ a = b
        BY <3>3 DEF Answers, RequestOK
      <3> QED BY <3>1, <3>2, <3>4
    <2>4. requests' = requests
      BY <1>1
    <2> QED BY <2>1, <2>2, <2>3, <2>4 DEF RequestOK
  <1>7. CASE latest = 0
    <2>1. toRelay' = toRelay
      BY <1>7 DEF HandleRequest
    <2>2. QueueOK(ver)' /\ \A h \in Guest : \A v : Newest(h, v) => Newest(h, v)'
      BY <1>1, <2>1 DEF Answers, QueueOK, Newest
    <2>3. \A h \in Guest : GuestOK(h, ver)'
      BY <1>1, <1>3, <2>2, GuestStays DEF Answers
    <2>4. RequestOK(ver)'
      BY <1>6
    <2> QED BY <2>2, <2>3, <2>4 DEF Answers
  <1>8. CASE latest # 0
    <2> PICK w : w = [ver EXCEPT ![id] = latest]
      OBVIOUS
    <2> PICK s : s = Stream(id, latest)
      OBVIOUS
    <2>1. toRelay' = toRelay \o s /\ toRelay \in Seq(Message) /\ latest \in Snapshot
      BY <1>3, <1>8, SeqMonotonic DEF HandleRequest, TypeOK, Message, Snapshot
    <2>2. w \in [Request -> Nat] /\ w[id] = latest /\ \A r \in Request \ {id} : w[r] = ver[r]
      BY <1>2, <1>3
    <2>3. s \in Seq(Message) /\ \A i \in 1..Len(s) : s[i].id = id /\ s[i].snapshot = latest
      <3>1. /\ s \in Seq(StreamMessage)
            /\ \A i \in 1..Len(s) : s[i].id = id /\ s[i].snapshot = latest
        BY <1>2, <2>1, StreamFacts
      <3>2. StreamMessage \subseteq Message
        BY DEF Message
      <3> QED BY <3>1, <3>2, SeqMonotonic
    <2>4. /\ Rising(s) /\ AtMost(s, latest) /\ Tagged(s, w)
          /\ \A v \in 0..latest : AtLeast(s, v)
      BY <1>3, <2>2, <2>3 DEF Rising, AtMost, Tagged, AtLeast
    \* No message of this request is on its way yet.
    <2>5. \A q : q \in Seq(Message) /\ Tagged(q, ver) => Tagged(q, w)
      <3> SUFFICES ASSUME NEW q \in Seq(Message), Tagged(q, ver), NEW i \in 1..Len(q),
                          q[i].snapshot # 0
                   PROVE  q[i].snapshot = w[q[i].id]
        BY DEF Tagged
      <3>1. q[i] \in Message
        BY ElementOfSeq
      <3>2. q[i].id \in Request
        BY <3>1 DEF Message, StreamMessage, Begin, Chunk, Commit, Left, State
      <3> QED BY <1>5, <2>2, <3>2 DEF Tagged
    <2>6. \A q : q \in Seq(Message) /\ AtMost(q, latest) => Before(q, s)
      <3> SUFFICES ASSUME NEW q \in Seq(Message), AtMost(q, latest), NEW i \in 1..Len(q)
                   PROVE  AtLeast(s, q[i].snapshot)
        BY DEF Before
      <3>1. q[i].snapshot \in 0..latest
        BY ElementOfSeq, MessageFacts DEF AtMost
      <3> QED BY <2>4, <3>1
    <2>7. \A h \in Guest : down[h] \in Seq(Message) /\ down'[h] = down[h]
      BY <1>1 DEF TypeOK
    <2>8. QueueOK(w)'
      <3>1. Rising(toRelay') /\ AtMost(toRelay', latest) /\ Tagged(toRelay', w)
        BY <2>1, <2>3, <2>4, <2>5, <2>6, CatFacts DEF Answers, QueueOK
      <3>2. \A h \in Guest : Tagged(down[h], w) /\ Before(down[h], toRelay')
        BY <2>1, <2>3, <2>5, <2>6, <2>7, CatFacts DEF Answers, QueueOK
      <3> QED BY <1>1, <2>7, <3>1, <3>2 DEF Answers, QueueOK
    <2>9. \A h \in Guest : \A v : Newest(h, v) => Newest(h, v)'
      BY <1>1, <2>1, <2>3, <2>4, CatFacts DEF Newest
    <2>10. ASSUME NEW h \in Guest PROVE GuestOK(h, w)'
      <3>1. ASSUME On(h), guest[h].assembler # None
            PROVE  w[guest[h].assembler.id] = ver[guest[h].assembler.id]
        <4>1. guest[h].assembler \in Assembler
          BY <3>1 DEF TypeOK, On, Runtime
        <4>2. guest[h].assembler.id \in Request /\ guest[h].assembler.snapshot # 0
          BY <4>1, StreamAssumption DEF Assembler, Snapshot
        <4>3. guest[h].assembler.snapshot = ver[guest[h].assembler.id]
          BY <3>1 DEF Answers, GuestOK, AssemblerOK
        <4> QED BY <1>5, <2>2, <4>2, <4>3
      <3>2. GuestOK(h, ver) /\ applied'[h] = applied[h] /\ latest' = latest
            /\ guest'[h] = guest[h] /\ (On(h)' => On(h))
        BY <1>1, <1>3 DEF Answers
      <3>3. latest \in Nat /\ latest' \in Nat /\ latest <= latest'
        BY <1>3, <3>2
      <3>4. \A v : Newest(h, v) => Newest(h, v)'
        BY <2>9
      <3> QED BY <3>1, <3>2, <3>3, <3>4, GuestStays
    <2>11. RequestOK(w)'
      BY <1>6, <2>2
    <2> QED BY <2>2, <2>8, <2>10, <2>11 DEF Answers
  <1> QED BY <1>7, <1>8

\* The relay passes the host's next message on to the guests that are there.
LEMMA ForwardKeeps ==
    ASSUME TypeOK, NEW ver, Answers(ver), Forward
    PROVE  Answers(ver)'
  <1> PICK m : m = Head(toRelay)
    OBVIOUS
  <1>1. /\ toRelay \in Seq(Message) /\ toRelay # <<>> /\ m \in Message /\ m.snapshot # 0
        /\ toRelay' = Tail(toRelay)
        /\ UNCHANGED <<latest, toHost, guest, requests, applied>>
    <2>1. m \in StreamMessage /\ toRelay \in Seq(StreamMessage)
      BY DEF Forward, TypeOK
    <2>2. m.snapshot # 0
      BY <2>1, StreamAssumption DEF StreamMessage, Begin, Chunk, Commit, Snapshot
    <2>3. StreamMessage \subseteq Message
      BY DEF Message
    <2> QED BY <2>1, <2>2, <2>3, SeqMonotonic DEF Forward
  <1>2. \A g \in Guest : down[g] \in Seq(Message) /\ down'[g] \in {down[g] \o <<m>>, down[g]}
    BY <1>1, AppendIsConcat DEF Forward, TypeOK
  <1> PICK r : r = <<m>>
    OBVIOUS
  <1>3. r \in Seq(Message) /\ Len(r) = 1 /\ r[1] = m
    BY <1>1
  <1>4. latest \in Nat
    BY StreamAssumption DEF TypeOK
  <1>5. /\ Rising(r) /\ AtMost(r, latest) /\ Tagged(r, ver) /\ Before(r, Tail(toRelay))
        /\ Before(r, toRelay')
    <2>1. AtLeast(Tail(toRelay), m.snapshot) /\ m.snapshot <= latest /\ m.snapshot = ver[m.id]
      BY <1>1, TailFacts DEF Answers, QueueOK
    <2> QED BY <1>1, <1>3, <2>1 DEF Rising, AtMost, Tagged, Before
  <1>6. /\ \A v : AtLeast(toRelay, v) => AtLeast(r, v) /\ AtLeast(toRelay', v)
        /\ \A p : Before(p, toRelay) => Before(p, r) /\ Before(p, toRelay')
    <2>1. \A v : AtLeast(toRelay, v) => AtLeast(r, v) /\ AtLeast(toRelay', v)
      <3>1. SUFFICES ASSUME NEW v, AtLeast(toRelay, v)
                     PROVE  AtLeast(r, v) /\ AtLeast(toRelay', v)
        OBVIOUS
      <3>3. AtLeast(Tail(toRelay), v) /\ v <= m.snapshot
        BY <1>1, <3>1, TailFacts
      <3>4. AtLeast(toRelay', v)
        BY <1>1, <3>3
      <3>5. AtLeast(r, v)
        BY <1>3, <3>3 DEF AtLeast
      <3> QED BY <3>4, <3>5
    <2> QED BY <2>1 DEF Before
  <1>7. QueueOK(ver)'
    <2>1. Rising(toRelay') /\ AtMost(toRelay', latest) /\ Tagged(toRelay', ver)
      BY <1>1, TailFacts DEF Answers, QueueOK
    <2>2. ASSUME NEW g \in Guest
          PROVE  /\ Rising(down'[g]) /\ AtMost(down'[g], latest)
                 /\ Tagged(down'[g], ver) /\ Before(down'[g], toRelay')
      <3>1. /\ Rising(down[g]) /\ AtMost(down[g], latest) /\ Tagged(down[g], ver)
            /\ Before(down[g], r) /\ Before(down[g], toRelay') /\ down[g] \in Seq(Message)
        BY <1>2, <1>6 DEF Answers, QueueOK
      <3>2. CASE down'[g] = down[g] \o r
        BY <1>3, <1>5, <3>1, <3>2, CatFacts
      <3>3. CASE down'[g] = down[g]
        BY <3>1, <3>3
      <3> QED BY <1>2, <3>2, <3>3
    <2>3. latest' = latest
      BY <1>1
    <2> QED BY <2>1, <2>2, <2>3 DEF QueueOK
  <1>8. RequestOK(ver)'
    BY <1>1, RequestsStay DEF Answers
  <1>9. ASSUME NEW g \in Guest PROVE GuestOK(g, ver)'
    <2>1. \A v : Newest(g, v) => Newest(g, v)'
      <3>1. \A v : AtLeast(down[g], v) /\ AtLeast(r, v) => AtLeast(down'[g], v)
        <4>1. CASE down'[g] = down[g]
          BY <4>1
        <4>2. CASE down'[g] = down[g] \o r
          <5>1. down[g] \in Seq(Message)
            BY <1>2
          <5>2. \A v : AtLeast(down[g], v) /\ AtLeast(r, v) => AtLeast(down[g] \o r, v)
            BY <1>3, <5>1, CatFacts
          <5> QED BY <4>2, <5>2
        <4> QED BY <1>2, <4>1, <4>2
      <3> QED BY <1>1, <1>6, <3>1 DEF Newest
    <2>2. /\ GuestOK(g, ver) /\ applied'[g] = applied[g] /\ guest'[g] = guest[g]
          /\ (On(g)' => On(g)) /\ latest' \in Nat /\ latest <= latest'
      BY <1>1, <1>4 DEF Answers, On
    <2> QED BY <1>4, <2>1, <2>2, GuestStays
  <1> QED BY <1>7, <1>8, <1>9 DEF Answers

\* A guest asks: its request is a new one, and unanswered.
LEMMA AskKeeps ==
    ASSUME TypeOK, NEW ver, Answers(ver), NEW g \in Guest, AskForResync(g)
    PROVE  Answers(ver)'
  <1>1. /\ guest[g] \in Runtime /\ On(g)
        /\ requests \in 0..MaxRequests /\ requests + 1 \in Request /\ requests' = requests + 1
        /\ latest \in Nat
        /\ UNCHANGED <<latest, toRelay, down, applied>>
    BY StreamAssumption DEF AskForResync, On, TypeOK, Request
  <1>2. \A h \in Guest : /\ On(h)' => On(h)
                         /\ On(h) => /\ guest'[h].pending = guest[h].pending
                                     /\ guest'[h].assembler = guest[h].assembler
    BY <1>1 DEF AskForResync, On, TypeOK, Runtime
  <1>3. QueueOK(ver)' /\ \A h \in Guest : \A v : Newest(h, v) => Newest(h, v)'
    BY <1>1 DEF Answers, QueueOK, Newest
  <1>4. ASSUME NEW h \in Guest PROVE GuestOK(h, ver)'
    BY <1>1, <1>2, <1>3, GuestStays DEF Answers
  <1>5. RequestOK(ver)'
    <2>1. \A h \in Guest : \A i \in 1..Len(toHost'[h]) :
            \/ i \in 1..Len(toHost[h]) /\ toHost'[h][i] = toHost[h][i]
            \/ h = g /\ i = Len(toHost[h]) + 1 /\ toHost'[h][i] = requests + 1
      <3>1. \A h \in Guest : toHost[h] \in Seq(Request)
        BY DEF TypeOK
      <3>2. CASE toHost' = [toHost EXCEPT ![g] = Append(@, requests + 1)]
        <4>1. /\ \A h \in Guest \ {g} : toHost'[h] = toHost[h]
              /\ toHost'[g] = Append(toHost[g], requests + 1)
          BY <3>2 DEF TypeOK
        <4>2. /\ Len(toHost[g]) \in Nat /\ Len(toHost'[g]) = Len(toHost[g]) + 1
              /\ \A i \in 1..Len(toHost[g]) : toHost'[g][i] = toHost[g][i]
              /\ toHost'[g][Len(toHost[g]) + 1] = requests + 1
          BY <1>1, <3>1, <4>1, AppendProperties, LenProperties
        <4> QED BY <4>1, <4>2
      <3>3. CASE UNCHANGED toHost
        BY <3>3
      <3> QED BY <3>2, <3>3 DEF AskForResync
    <2>2. ver[requests + 1] = 0 /\ \A id \in Request : id > requests + 1 => ver[id] = 0
      BY <1>1 DEF Answers, RequestOK, Request
    <2>3. \A h \in Guest : \A i \in 1..Len(toHost[h]) :
            /\ toHost[h][i] \in Nat /\ toHost[h][i] <= requests /\ ver[toHost[h][i]] = 0
      <3> SUFFICES ASSUME NEW h \in Guest, NEW i \in 1..Len(toHost[h])
                   PROVE  /\ toHost[h][i] \in Nat /\ toHost[h][i] <= requests
                          /\ ver[toHost[h][i]] = 0
        OBVIOUS
      <3>1. toHost[h] \in Seq(Request)
        BY DEF TypeOK
      <3>2. toHost[h][i] \in Request
        BY <3>1, ElementOfSeq
      <3> QED BY <3>2 DEF Answers, RequestOK, Request
    <2>4. ASSUME NEW h \in Guest, NEW i \in 1..Len(toHost'[h])
          PROVE  ver[toHost'[h][i]] = 0 /\ toHost'[h][i] <= requests + 1
      <3>1. CASE i \in 1..Len(toHost[h]) /\ toHost'[h][i] = toHost[h][i]
        <4>1. /\ toHost[h][i] \in Nat /\ toHost[h][i] <= requests /\ ver[toHost[h][i]] = 0
          BY <2>3, <3>1
        <4> QED BY <1>1, <3>1, <4>1
      <3>2. CASE toHost'[h][i] = requests + 1
        BY <1>1, <2>2, <3>2
      <3> QED BY <2>1, <3>1, <3>2
    <2>5. ASSUME NEW h \in Guest, NEW k \in Guest, NEW i \in 1..Len(toHost'[h]),
                 NEW j \in 1..Len(toHost'[k]), toHost'[h][i] = toHost'[k][j]
          PROVE  h = k /\ i = j
      <3> DEFINE Old(f, n) == n \in 1..Len(toHost[f]) /\ toHost'[f][n] = toHost[f][n]
                 New(f, n) == f = g /\ n = Len(toHost[f]) + 1 /\ toHost'[f][n] = requests + 1
      <3>1. (Old(h, i) \/ New(h, i)) /\ (Old(k, j) \/ New(k, j))
        BY <2>1
      <3>2. \A f \in Guest : \A n \in 1..Len(toHost'[f]) : Old(f, n) =>
                toHost'[f][n] # requests + 1
        BY <1>1, <2>3
      <3>3. CASE Old(h, i) /\ Old(k, j)
        <4>1. toHost[h][i] = toHost[k][j]
          BY <2>5, <3>3
        <4> QED BY <3>3, <4>1 DEF Answers, RequestOK
      <3>4. CASE New(h, i) /\ New(k, j)
        BY <3>4
      <3>5. CASE Old(h, i) /\ New(k, j)
        BY <2>5, <3>2, <3>5
      <3>6. CASE New(h, i) /\ Old(k, j)
        BY <2>5, <3>2, <3>6
      <3> QED BY <3>1, <3>3, <3>4, <3>5, <3>6
    <2> QED BY <1>1, <2>2, <2>4, <2>5 DEF RequestOK
  <1> QED BY <1>3, <1>4, <1>5 DEF Answers

\* A guest applies what it has assembled.
LEMMA ApplyKeeps ==
    ASSUME TypeOK, NEW ver, Answers(ver), NEW g \in Guest, Apply(g)
    PROVE  /\ Answers(ver)'
           /\ \E v \in 1..latest : v >= applied[g] /\ applied' = [applied EXCEPT ![g] = v]
  <1>1. /\ guest[g] \in Runtime /\ On(g) /\ guest[g].pending # None /\ latest \in Nat
        /\ UNCHANGED <<latest, toRelay, toHost, down, requests>>
    BY StreamAssumption DEF Apply, On, TypeOK, links
  <1>2. PICK v \in 1..latest : /\ guest[g].pending = [i \in Index |-> v]
                               /\ applied[g] <= v /\ Newest(g, v)
    BY <1>1 DEF Answers, GuestOK, PendingOK
  <1>3. guest[g].pending[1] = v
    BY <1>2, StreamAssumption DEF Index
  <1>4. /\ applied' = [applied EXCEPT ![g] = v] /\ applied'[g] = v
        /\ \A h \in Guest \ {g} : applied'[h] = applied[h] /\ guest'[h] = guest[h]
        /\ On(g)' => guest'[g].pending = None /\ guest'[g].assembler = guest[g].assembler
    BY <1>1, <1>3 DEF Apply, TypeOK, Runtime
  <1>5. \A h \in Guest : \A u : Newest(h, u) => Newest(h, u)'
    BY <1>1 DEF Newest
  <1>6. ASSUME NEW h \in Guest, h # g PROVE GuestOK(h, ver)'
    <2>1. /\ GuestOK(h, ver) /\ applied'[h] = applied[h] /\ guest'[h] = guest[h]
          /\ (On(h)' => On(h)) /\ latest' \in Nat /\ latest <= latest'
      BY <1>1, <1>4, <1>6 DEF Answers, On
    <2> QED BY <1>1, <1>5, <2>1, GuestStays
  <1>7. GuestOK(g, ver)'
    <2>1. Newest(g, v)'
      BY <1>2, <1>5
    <2>2. ASSUME On(g)', guest'[g].assembler # None PROVE AssemblerOK(g, ver)'
      <3> PICK a : a = guest[g].assembler
        OBVIOUS
      <3>1. /\ guest'[g].assembler = a /\ guest'[g].pending = None
            /\ Newest(g, a.snapshot) /\ a.snapshot = ver[a.id]
            /\ \A i \in Index : a.got[i] \in {0, a.snapshot}
            /\ v <= a.snapshot
        BY <1>1, <1>3, <1>4, <2>2 DEF Answers, GuestOK, AssemblerOK
      <3>2. Newest(g, a.snapshot)'
        BY <1>5, <3>1
      <3> QED BY <1>4, <3>1, <3>2 DEF AssemblerOK
    <2> QED BY <1>4, <2>1, <2>2 DEF GuestOK
  <1>8. QueueOK(ver)' /\ RequestOK(ver)'
    BY <1>1 DEF Answers, QueueOK, RequestOK
  <1>9. Answers(ver)'
    BY <1>6, <1>7, <1>8 DEF Answers
  <1> QED BY <1>2, <1>4, <1>9, StreamAssumption DEF TypeOK, Snapshot

\* The host has a new snapshot: nothing on its way is newer.
LEMMA StoreKeeps ==
    ASSUME TypeOK, NEW ver, Answers(ver), Store
    PROVE  Answers(ver)'
  <1>1. /\ latest \in Nat /\ latest' = latest + 1
        /\ UNCHANGED <<toHost, toRelay, down, guest, requests, applied>>
        /\ toRelay \in Seq(Message) /\ \A g \in Guest : down[g] \in Seq(Message)
    <2>1. StreamMessage \subseteq Message
      BY DEF Message
    <2> QED BY <2>1, SeqMonotonic, StreamAssumption DEF Store, links, TypeOK
  <1>2. \A q \in Seq(Message) : AtMost(q, latest) => AtMost(q, latest + 1)
    <2> SUFFICES ASSUME NEW q \in Seq(Message), AtMost(q, latest), NEW i \in 1..Len(q)
                 PROVE  q[i].snapshot <= latest + 1
      BY DEF AtMost
    <2>1. q[i].snapshot \in Nat /\ q[i].snapshot <= latest
      BY ElementOfSeq, MessageFacts DEF AtMost
    <2> QED BY <1>1, <2>1
  <1>3. QueueOK(ver)'
    <2>1. QueueOK(ver)
      BY DEF Answers
    <2>2. AtMost(toRelay, latest + 1) /\ \A g \in Guest : AtMost(down[g], latest + 1)
      BY <1>1, <1>2, <2>1 DEF QueueOK
    <2> QED BY <1>1, <2>1, <2>2 DEF QueueOK
  <1>4. RequestOK(ver)'
    BY <1>1 DEF Answers, RequestOK
  <1>5. \A g \in Guest : \A v : Newest(g, v) => Newest(g, v)'
    BY <1>1 DEF Newest
  <1>6. ASSUME NEW g \in Guest PROVE GuestOK(g, ver)'
    <2>1. /\ GuestOK(g, ver) /\ applied'[g] = applied[g] /\ guest'[g] = guest[g]
          /\ (On(g)' => On(g)) /\ latest' \in Nat /\ latest <= latest'
      BY <1>1 DEF Answers, On
    <2> QED BY <1>1, <1>5, <2>1, GuestStays
  <1> QED BY <1>3, <1>4, <1>6 DEF Answers

\* Every step keeps the inductive invariant.
LEMMA NextIInv == IInv /\ [Next]_vars => IInv'
  <1> SUFFICES ASSUME IInv, [Next]_vars PROVE IInv'
    OBVIOUS
  <1>1. TypeOK /\ TypeOK'
    BY NextType DEF IInv
  <1> PICK ver \in [Request -> Nat] : Answers(ver)
    BY DEF IInv
  <1>2. SUFFICES \E w \in [Request -> Nat] : Answers(w)'
    BY <1>1 DEF IInv
  <1>3. CASE Store
    BY <1>1, <1>3, StoreKeeps
  <1>4. CASE Forward
    BY <1>1, <1>4, ForwardKeeps
  <1>5. CASE CutHost
    <2>1. Answers(ver)'
      BY <1>1, <1>5, ComingsAndGoings DEF CutHost, On
    <2> QED BY <2>1
  <1>6. ASSUME NEW g \in Guest, HandleRequest(g) PROVE \E w \in [Request -> Nat] : Answers(w)'
    BY <1>1, <1>6, AnswerKeeps
  <1>7. ASSUME NEW g \in Guest, AskForResync(g) PROVE Answers(ver)'
    BY <1>1, <1>7, AskKeeps
  <1>8. ASSUME NEW g \in Guest, Receive(g) PROVE Answers(ver)'
    BY <1>1, <1>8, ReceiveKeeps
  <1>9. ASSUME NEW g \in Guest, Apply(g) PROVE Answers(ver)'
    BY <1>1, <1>9, ApplyKeeps
  <1>10. ASSUME NEW g \in Guest, DeadlineExpires(g) PROVE Answers(ver)'
    BY <1>1, <1>10, FailKeeps DEF DeadlineExpires
  <1>11. ASSUME NEW g \in Guest, CutGuest(g) PROVE Answers(ver)'
    <2>1. \A h \in Guest : down'[h] \in {Told(g, <<State, Left>>)[h], <<>>}
      BY <1>11 DEF CutGuest, Told
    <2>2. \A h \in Guest : toHost'[h] \in {toHost[h], <<>>}
      BY <1>1, <1>11 DEF CutGuest, TypeOK
    <2>3. \A h \in Guest : On(h)' => /\ On(h) /\ guest'[h].pending = guest[h].pending
                                     /\ guest'[h].assembler = guest[h].assembler
      <3>1. guest[g] \in Runtime
        BY <1>1, <1>11 DEF CutGuest, On, TypeOK
      <3> QED BY <1>1, <1>11, <3>1 DEF CutGuest, On, TypeOK, Runtime
    <2> QED BY <1>1, <1>11, <2>1, <2>2, <2>3, ComingsAndGoings DEF CutGuest
  <1>12. ASSUME NEW g \in Guest, Prune(g) PROVE Answers(ver)'
    <2>1. \A h \in Guest : toHost'[h] \in {toHost[h], <<>>}
      BY <1>1, <1>12 DEF Prune, TypeOK
    <2> QED BY <1>1, <1>12, <2>1, ComingsAndGoings DEF Prune, On
  <1>13. ASSUME NEW p \in Peer, Rejoin(p) PROVE Answers(ver)'
    <2>1. \A h \in Guest : On(h)' => /\ On(h) /\ guest'[h].pending = guest[h].pending
                                     /\ guest'[h].assembler = guest[h].assembler
      <3>1. CASE p = Host
        BY <1>13, <3>1 DEF Rejoin, On
      <3>2. CASE p # Host
        <4>1. p \in Guest /\ guest[p] \in Runtime
          BY <1>1, <1>13, <3>2 DEF Rejoin, Peer, On, TypeOK
        <4> QED BY <1>1, <1>13, <3>2, <4>1 DEF Rejoin, On, TypeOK, Runtime
      <3> QED BY <3>1, <3>2
    <2> QED BY <1>1, <1>13, <2>1, ComingsAndGoings DEF Rejoin
  <1>14. CASE UNCHANGED vars
    BY <1>14 DEF vars, links, Answers, QueueOK, RequestOK, GuestOK, Newest, PendingOK,
                 AssemblerOK, On
  <1> QED BY <1>3, <1>4, <1>5, <1>6, <1>7, <1>8, <1>9, <1>10, <1>11, <1>12, <1>13, <1>14 DEF Next

-----------------------------------------------------------------------------

\* A guest never applies a mixture of snapshots, nor part of one: what it has
\* assembled is all the chunks of one snapshot that the host had, whatever heads
\* and tails of streams broken links have left it.
THEOREM AssembledWhole == Spec => []WholeSnapshots
  <1>1. IInv => WholeSnapshots
    BY DEF IInv, Answers, GuestOK, PendingOK, WholeSnapshots
  <1> QED BY <1>1, InitIInv, NextIInv, PTL DEF Spec

\* The resynchronisation implements its abstract specification: a guest's state is
\* replaced by a copy of a snapshot of the host, never by an older one.
THEOREM ImplementsCopies == Spec => CopySpec
  <1>1. Init => Copies!Init
    BY DEF Init, Copies!Init
  <1>2. IInv /\ [Next]_vars => [Copies!Next]_<<latest, applied>>
    <2> SUFFICES ASSUME IInv, [Next]_vars, ~ UNCHANGED <<latest, applied>>
                 PROVE  Copies!Next
      OBVIOUS
    <2>1. CASE Store
      BY <2>1 DEF Store, Copies!Next, Copies!Store
    <2>2. ASSUME NEW g \in Guest, Apply(g) PROVE Copies!Next
      <3> PICK ver : Answers(ver)
        BY DEF IInv
      <3>1. \E v \in 1..latest : v >= applied[g] /\ applied' = [applied EXCEPT ![g] = v]
        BY <2>2, ApplyKeeps DEF IInv
      <3> QED BY <2>2, <3>1 DEF Apply, Copies!Next, Copies!Copy
    <2> QED BY <2>1, <2>2
            DEF Next, vars, links, Forward, CutHost, HandleRequest, AskForResync, Receive,
                RecvBegin, RecvChunk, RecvCommit, RecvLeft, RecvState, Take, Fail,
                DeadlineExpires, CutGuest, Prune, Rejoin
  <1> QED BY <1>1, <1>2, InitIInv, NextIInv, PTL DEF Spec, CopySpec, Copies!Spec

-----------------------------------------------------------------------------
(* Pauses.  A guest that begins to wait because the head of a stream has    *)
(* come relies on the rest of it: whatever begins on the way to a guest     *)
(* ends there, by its commit or by the notice that a peer has left, for     *)
(* the host may have been that peer.                                        *)

Ends(m, id) == m = Left \/ (m.kind = "commit" /\ m.id = id)

Closed(q) ==
    \A i \in 1..Len(q) : q[i].kind = "begin" =>
        \E j \in 1..Len(q) : i < j /\ Ends(q[j], q[i].id)

\* A guest without a seat starts over with an empty link.
WayOK(g) ==
    On(g) => IF g \in seated THEN Closed(down[g] \o toRelay) ELSE down[g] = <<>>

\* What g waits for, if it is paused, is on its way.
Answered(g, id) ==
    \/ id \in unanswered
    \/ id \in ToSet(toHost[g])
    \/ /\ Coming(g, "commit", id)
       /\ Coming(g, "begin", id) \/ Assembles(g, [id |-> id])

HasEnd(g) ==
    \/ g \notin seated \/ guest[g].deadline \/ guest[g].pending # None
    \/ Left \in ToSet(down[g])
    \/ Answered(g, guest[g].active)

PauseInv ==
    /\ Closed(toRelay)
    /\ \A g \in Guest : WayOK(g) /\ (On(g) /\ guest[g].paused => HasEnd(g))

\* A queue after a queue, message by message.
LEMMA CatIs ==
    \A q, r \in Seq(Message) :
        /\ q \o r \in Seq(Message) /\ Len(q) \in Nat /\ Len(r) \in Nat
        /\ Len(q \o r) = Len(q) + Len(r)
        /\ \A i \in 1..(Len(q) + Len(r)) :
              (q \o r)[i] = IF i <= Len(q) THEN q[i] ELSE r[i - Len(q)]
  BY ConcatProperties, LenProperties

LEMMA CatCat == \A q, r, s \in Seq(Message) : (q \o r) \o s = q \o (r \o s)
  BY ConcatAssociative

\* A sequence and the set of its elements.
LEMMA SetFacts ==
    ASSUME NEW q \in Seq(Message), NEW r \in Seq(Message)
    PROVE  /\ \A m : m \in ToSet(q) <=> \E i \in 1..Len(q) : q[i] = m
           /\ ToSet(q \o r) = ToSet(q) \cup ToSet(r)
           /\ q # <<>> => ToSet(q) = {Head(q)} \cup ToSet(Tail(q))
  <1>1. /\ Len(q) \in Nat /\ Len(r) \in Nat /\ DOMAIN q = 1..Len(q) /\ DOMAIN r = 1..Len(r)
        /\ DOMAIN (q \o r) = 1..(Len(q) + Len(r))
    BY LenProperties, ConcatProperties
  <1>2. /\ \A i \in 1..Len(q) : (q \o r)[i] = q[i]
        /\ \A i \in 1..Len(r) : i + Len(q) \in DOMAIN (q \o r) /\ (q \o r)[i + Len(q)] = r[i]
        /\ \A i \in DOMAIN (q \o r) : \/ i \in 1..Len(q) /\ (q \o r)[i] = q[i]
                                      \/ i - Len(q) \in 1..Len(r) /\ (q \o r)[i] = r[i - Len(q)]
    BY <1>1, ConcatProperties
  <1>3. ToSet(q \o r) = ToSet(q) \cup ToSet(r)
    <2> DEFINE s == q \o r
    <2>1. /\ \A i \in 1..Len(q) : i \in DOMAIN s /\ s[i] = q[i]
          /\ \A i \in 1..Len(r) : i + Len(q) \in DOMAIN s /\ s[i + Len(q)] = r[i]
          /\ \A i \in DOMAIN s : (\E j \in DOMAIN q : s[i] = q[j]) \/ (\E j \in DOMAIN r : s[i] = r[j])
      BY <1>1, <1>2
    <2> HIDE DEF s
    <2>2. ToSet(s) \subseteq ToSet(q) \cup ToSet(r)
      BY <2>1 DEF ToSet
    <2>3. ToSet(q) \subseteq ToSet(s) /\ ToSet(r) \subseteq ToSet(s)
      BY <1>1, <2>1 DEF ToSet
    <2> QED BY <2>2, <2>3 DEF s
  <1>4. ASSUME q # <<>> PROVE ToSet(q) = {Head(q)} \cup ToSet(Tail(q))
    <2>1. /\ Head(q) = q[1] /\ Len(q) >= 1 /\ Len(Tail(q)) = Len(q) - 1
          /\ DOMAIN Tail(q) = 1..(Len(q) - 1)
          /\ \A i \in 1..(Len(q) - 1) : Tail(q)[i] = q[i + 1]
      BY <1>4, HeadTailProperties, LenProperties, EmptySeq
    <2>2. \A i \in 1..Len(q) : i = 1 \/ (i - 1 \in 1..(Len(q) - 1) /\ q[i] = Tail(q)[i - 1])
      BY <1>1, <2>1
    <2>3. \A i \in 1..(Len(q) - 1) : i + 1 \in 1..Len(q)
      BY <1>1
    <2>4. 1 \in 1..Len(q)
      BY <1>1, <2>1
    <2> DEFINE t == Tail(q)  h == Head(q)
    <2>5. /\ h = q[1] /\ \A i \in DOMAIN q : q[i] = h \/ \E j \in DOMAIN t : q[i] = t[j]
          /\ \A j \in DOMAIN t : \E i \in DOMAIN q : t[j] = q[i]
          /\ 1 \in DOMAIN q
      BY <1>1, <2>1, <2>2, <2>3, <2>4
    <2> HIDE DEF t, h
    <2>6. ToSet(q) = {h} \cup ToSet(t)
      BY <2>5 DEF ToSet
    <2> QED BY <2>6 DEF t, h
  <1>5. \A m : m \in ToSet(q) <=> \E i \in 1..Len(q) : q[i] = m
    BY <1>1 DEF ToSet
  <1> QED BY <1>3, <1>4, <1>5

\* Taking the first message of what comes to a guest.
LEMMA ClosedTail ==
    ASSUME NEW q \in Seq(Message), q # <<>>, Closed(q)
    PROVE  /\ Closed(Tail(q))
           /\ Head(q).kind = "begin" => \E m \in ToSet(Tail(q)) : Ends(m, Head(q).id)
  <1>1. /\ Head(q) = q[1] /\ Len(q) >= 1 /\ Len(q) \in Nat /\ Len(Tail(q)) = Len(q) - 1
        /\ Tail(q) \in Seq(Message)
        /\ \A i \in 1..Len(Tail(q)) : Tail(q)[i] = q[i + 1]
    BY HeadTailProperties, LenProperties, EmptySeq
  <1>2. Closed(Tail(q))
    <2> SUFFICES ASSUME NEW i \in 1..Len(Tail(q)), Tail(q)[i].kind = "begin"
                 PROVE  \E j \in 1..Len(Tail(q)) : i < j /\ Ends(Tail(q)[j], Tail(q)[i].id)
      BY DEF Closed
    <2>1. i + 1 \in 1..Len(q) /\ q[i + 1] = Tail(q)[i]
      BY <1>1
    <2>2. PICK j \in 1..Len(q) : i + 1 < j /\ Ends(q[j], Tail(q)[i].id)
      BY <2>1 DEF Closed
    <2>3. j - 1 \in 1..Len(Tail(q)) /\ i < j - 1 /\ Tail(q)[j - 1] = q[j]
      BY <1>1, <2>2
    <2> QED BY <2>2, <2>3
  <1>3. ASSUME Head(q).kind = "begin" PROVE \E m \in ToSet(Tail(q)) : Ends(m, Head(q).id)
    <2>1. 1 \in 1..Len(q)
      BY <1>1
    <2>2. PICK j \in 1..Len(q) : 1 < j /\ Ends(q[j], q[1].id)
      BY <1>1, <1>3, <2>1 DEF Closed
    <2>3. j - 1 \in 1..Len(Tail(q)) /\ Tail(q)[j - 1] = q[j]
      BY <1>1, <2>2
    <2>4. q[j] \in ToSet(Tail(q))
      BY <1>1, <2>3, SetFacts
    <2> QED BY <1>1, <2>2, <2>4
  <1> QED BY <1>2, <1>3

\* A queue after a queue.
LEMMA ClosedCat ==
    ASSUME NEW q \in Seq(Message), NEW r \in Seq(Message), Closed(q), Closed(r)
    PROVE  Closed(q \o r)
  <1> DEFINE s == q \o r
  <1>1. /\ Len(s) = Len(q) + Len(r) /\ Len(q) \in Nat /\ Len(r) \in Nat
        /\ \A i \in 1..Len(q) : i \in 1..Len(s) /\ s[i] = q[i]
        /\ \A i \in 1..Len(r) : i + Len(q) \in 1..Len(s) /\ s[i + Len(q)] = r[i]
    BY ConcatProperties, LenProperties
  <1> HIDE DEF s
  <1> SUFFICES ASSUME NEW i \in 1..Len(s), s[i].kind = "begin"
               PROVE  \E j \in 1..Len(s) : i < j /\ Ends(s[j], s[i].id)
    BY DEF Closed, s
  <1>2. CASE i \in 1..Len(q)
    BY <1>1, <1>2 DEF Closed
  <1>3. CASE i \notin 1..Len(q)
    <2> DEFINE k == i - Len(q)
    <2>1. k \in 1..Len(r) /\ s[i] = r[k]
      <3>1. k \in 1..Len(r) /\ k + Len(q) = i
        BY <1>1, <1>3
      <3> QED BY <1>1, <3>1
    <2>2. PICK j \in 1..Len(r) : k < j /\ Ends(r[j], r[k].id)
      BY <2>1 DEF Closed
    <2>3. j + Len(q) \in 1..Len(s) /\ s[j + Len(q)] = r[j] /\ i < j + Len(q)
      BY <1>1, <2>2
    <2> QED BY <2>1, <2>2, <2>3
  <1> QED BY <1>2, <1>3

\* The first message of a queue that another follows.
LEMMA CatHead ==
    ASSUME NEW q \in Seq(Message), NEW r \in Seq(Message), q # <<>>
    PROVE  /\ q \o r \in Seq(Message) /\ q \o r # <<>>
           /\ Head(q \o r) = Head(q) /\ Tail(q \o r) = Tail(q) \o r
  <1> DEFINE s == q \o r  t == Tail(q)  u == t \o r  v == Tail(s)
  <1>1. /\ t \in Seq(Message) /\ Len(t) = Len(q) - 1 /\ Len(q) \in Nat /\ Len(q) >= 1
        /\ \A i \in 1..Len(t) : t[i] = q[i + 1]
        /\ Head(q) = q[1]
    BY HeadTailProperties, LenProperties, EmptySeq
  <1>2. /\ s \in Seq(Message) /\ Len(r) \in Nat /\ Len(s) = Len(q) + Len(r)
        /\ \A i \in 1..Len(s) : s[i] = IF i <= Len(q) THEN q[i] ELSE r[i - Len(q)]
    BY CatIs
  <1> HIDE DEF s, t
  <1>3. /\ u \in Seq(Message) /\ Len(u) = Len(t) + Len(r)
        /\ \A i \in 1..Len(u) : u[i] = IF i <= Len(t) THEN t[i] ELSE r[i - Len(t)]
    <2>1. /\ t \o r \in Seq(Message) /\ Len(t \o r) = Len(t) + Len(r)
          /\ \A i \in 1..(Len(t) + Len(r)) : (t \o r)[i] = IF i <= Len(t) THEN t[i] ELSE r[i - Len(t)]
      BY <1>1, CatIs
    <2> QED BY <2>1
  <1>4. s # <<>>
    BY <1>1, <1>2, EmptySeq
  <1>5. /\ v \in Seq(Message) /\ Len(v) = Len(s) - 1
        /\ \A i \in 1..Len(v) : v[i] = s[i + 1]
        /\ Head(s) = s[1]
    BY <1>2, <1>4, HeadTailProperties
  <1> HIDE DEF u, v
  <1>6. Len(v) = Len(u) /\ 1 \in 1..Len(s) /\ s[1] = q[1]
    BY <1>1, <1>2, <1>3, <1>5
  <1>7. \A i \in 1..Len(v) : v[i] = u[i]
    <2> SUFFICES ASSUME NEW i \in 1..Len(v) PROVE v[i] = u[i]
      OBVIOUS
    <2>1. v[i] = s[i + 1] /\ i + 1 \in 1..Len(s) /\ i \in 1..Len(u)
      BY <1>1, <1>2, <1>3, <1>5, <1>6
    <2>2. CASE i <= Len(t)
      <3>1. i \in 1..Len(t) /\ i + 1 <= Len(q)
        BY <1>1, <2>2, <2>1
      <3> QED BY <1>1, <1>2, <1>3, <2>1, <2>2, <3>1
    <2>3. CASE i > Len(t)
      <3>1. i + 1 > Len(q) /\ i + 1 - Len(q) = i - Len(t)
        BY <1>1, <2>3, <2>1
      <3>2. s[i + 1] = r[i + 1 - Len(q)]
        BY <1>1, <1>2, <2>1, <3>1
      <3>3. u[i] = r[i - Len(t)]
        BY <1>1, <1>3, <2>1, <2>3
      <3> QED BY <2>1, <3>1, <3>2, <3>3
    <2> QED BY <1>1, <2>1, <2>2, <2>3
  <1>8. v = u
    BY <1>3, <1>5, <1>6, <1>7, SeqEqual
  <1> QED BY <1>1, <1>2, <1>4, <1>5, <1>6, <1>8 DEF s, t, u, v

\* Notices that come in between.
LEMMA ClosedInsert ==
    ASSUME NEW q \in Seq(Message), NEW n \in Seq(Message), NEW r \in Seq(Message),
           Closed(q \o r), \A i \in 1..Len(n) : n[i].kind # "begin"
    PROVE  Closed((q \o n) \o r)
  <1> DEFINE s == q \o r  t == (q \o n) \o r
  <1>1. /\ Len(s) = Len(q) + Len(r) /\ Len(t) = Len(q) + Len(n) + Len(r)
        /\ Len(q) \in Nat /\ Len(n) \in Nat /\ Len(r) \in Nat
        /\ \A i \in 1..Len(s) : s[i] = IF i <= Len(q) THEN q[i] ELSE r[i - Len(q)]
        /\ \A i \in 1..Len(t) : t[i] = IF i <= Len(q) THEN q[i]
                                       ELSE IF i <= Len(q) + Len(n) THEN n[i - Len(q)]
                                       ELSE r[i - (Len(q) + Len(n))]
    <2> DEFINE p == q \o n
    <2>1. /\ p \in Seq(Message) /\ Len(p) = Len(q) + Len(n)
          /\ \A i \in 1..Len(p) : p[i] = IF i <= Len(q) THEN q[i] ELSE n[i - Len(q)]
      BY ConcatProperties
    <2> HIDE DEF p
    <2>2. /\ Len(p \o r) = Len(p) + Len(r)
          /\ \A i \in 1..(Len(p) + Len(r)) : (p \o r)[i] = IF i <= Len(p) THEN p[i] ELSE r[i - Len(p)]
      BY <2>1, CatIs
    <2>3. /\ Len(s) = Len(q) + Len(r)
          /\ \A i \in 1..Len(s) : s[i] = IF i <= Len(q) THEN q[i] ELSE r[i - Len(q)]
      BY ConcatProperties
    <2>4. Len(q) \in Nat /\ Len(n) \in Nat /\ Len(r) \in Nat
      BY LenProperties
    <2>5. t = p \o r
      BY DEF p
    <2> HIDE DEF s, t
    <2> QED BY <2>1, <2>2, <2>3, <2>4, <2>5
  <1>2. Closed(s)
    OBVIOUS
  <1> HIDE DEF s, t
  <1> DEFINE f(i) == IF i <= Len(q) THEN i ELSE i + Len(n)
  <1>3. \A i \in 1..Len(s) : f(i) \in 1..Len(t) /\ t[f(i)] = s[i]
    BY <1>1
  <1>4. \A i, j \in 1..Len(s) : i < j => f(i) < f(j)
    BY <1>1
  <1>5. \A i \in 1..Len(t) : t[i].kind = "begin" => \E k \in 1..Len(s) : f(k) = i
    <2> SUFFICES ASSUME NEW i \in 1..Len(t), t[i].kind = "begin" PROVE \E k \in 1..Len(s) : f(k) = i
      OBVIOUS
    <2>1. i <= Len(q) \/ i > Len(q) + Len(n)
      <3> SUFFICES ASSUME i > Len(q), i <= Len(q) + Len(n) PROVE FALSE
        BY <1>1
      <3>1. i - Len(q) \in 1..Len(n) /\ t[i] = n[i - Len(q)]
        BY <1>1
      <3> QED BY <3>1
    <2>2. CASE i <= Len(q)
      <3>1. i \in 1..Len(s) /\ f(i) = i
        BY <1>1, <2>2
      <3> QED BY <3>1
    <2>3. CASE i > Len(q) + Len(n)
      <3>1. i - Len(n) \in 1..Len(s) /\ f(i - Len(n)) = i
        BY <1>1, <2>3
      <3> QED BY <3>1
    <2> QED BY <2>1, <2>2, <2>3
  <1> HIDE DEF f
  <1> SUFFICES ASSUME NEW i \in 1..Len(t), t[i].kind = "begin"
               PROVE  \E j \in 1..Len(t) : i < j /\ Ends(t[j], t[i].id)
    BY DEF Closed, t
  <1>6. PICK k \in 1..Len(s) : f(k) = i
    BY <1>5
  <1>7. PICK j \in 1..Len(s) : k < j /\ Ends(s[j], s[k].id)
    BY <1>2, <1>3, <1>6 DEF Closed
  <1> QED BY <1>3, <1>4, <1>6, <1>7

\* What a lost host has begun ends with the notice that it has left.
LEMMA ClosedByLeft ==
    ASSUME NEW q \in Seq(Message)
    PROVE  Closed(q \o <<State, Left>>) /\ Left \in ToSet(q \o <<State, Left>>)
  <1> DEFINE n == <<State, Left>>  s == q \o n
  <1>1. n \in Seq(Message) /\ Len(n) = 2 /\ n[2] = Left /\ n[1] = State
    BY NoticeQueues
  <1> HIDE DEF n
  <1>2. /\ s \in Seq(Message) /\ Len(s) = Len(q) + 2 /\ Len(q) \in Nat
        /\ \A i \in 1..Len(s) : s[i] = IF i <= Len(q) THEN q[i] ELSE n[i - Len(q)]
    <2>1. /\ q \o n \in Seq(Message) /\ Len(q \o n) = Len(q) + Len(n) /\ Len(q) \in Nat
          /\ \A i \in 1..(Len(q) + Len(n)) : (q \o n)[i] = IF i <= Len(q) THEN q[i] ELSE n[i - Len(q)]
      BY <1>1, CatIs
    <2> QED BY <1>1, <2>1
  <1> HIDE DEF s
  <1>3. Len(s) \in 1..Len(s) /\ s[Len(s)] = Left
    BY <1>1, <1>2
  <1>4. s[Len(s)].kind # "begin"
    BY <1>3 DEF Left
  <1>5. \A i \in 1..Len(s) : i = Len(s) \/ i < Len(s)
    BY <1>2
  <1>6. Closed(s)
    BY <1>3, <1>4, <1>5 DEF Closed, Ends
  <1> QED BY <1>2, <1>3, <1>6, SetFacts DEF s, n

\* A message that goes from one queue to the next.
LEMMA MoveHead ==
    ASSUME NEW q \in Seq(Message), NEW r \in Seq(Message), r # <<>>
    PROVE  Append(q, Head(r)) \o Tail(r) = q \o r
  <1> DEFINE a == Append(q, Head(r))  u == Tail(r)  s == a \o u  t == q \o r
  <1>1. /\ Head(r) \in Message /\ Head(r) = r[1] /\ u \in Seq(Message)
        /\ Len(u) = Len(r) - 1 /\ Len(r) \in Nat /\ Len(r) >= 1 /\ Len(q) \in Nat
        /\ \A i \in 1..Len(u) : u[i] = r[i + 1]
    BY HeadTailProperties, LenProperties, EmptySeq
  <1>2. /\ a \in Seq(Message) /\ Len(a) = Len(q) + 1
        /\ \A i \in 1..Len(a) : a[i] = IF i <= Len(q) THEN q[i] ELSE r[1]
    BY <1>1
  <1> HIDE DEF a, u
  <1>3. /\ s \in Seq(Message) /\ Len(s) = Len(a) + Len(u)
        /\ \A i \in 1..Len(s) : s[i] = IF i <= Len(a) THEN a[i] ELSE u[i - Len(a)]
    <2>1. a \in Seq(Message) /\ u \in Seq(Message)
      BY <1>1, <1>2
    <2>2. /\ a \o u \in Seq(Message) /\ Len(a \o u) = Len(a) + Len(u)
          /\ \A i \in 1..(Len(a) + Len(u)) : (a \o u)[i] = IF i <= Len(a) THEN a[i] ELSE u[i - Len(a)]
      BY <2>1, CatIs
    <2> QED BY <2>2
  <1>4. /\ t \in Seq(Message) /\ Len(t) = Len(q) + Len(r)
        /\ \A i \in 1..Len(t) : t[i] = IF i <= Len(q) THEN q[i] ELSE r[i - Len(q)]
    BY CatIs
  <1> HIDE DEF s, t
  <1>5. Len(s) = Len(t)
    BY <1>1, <1>2, <1>3, <1>4
  <1>6. \A i \in 1..Len(s) : s[i] = t[i]
    <2> SUFFICES ASSUME NEW i \in 1..Len(s) PROVE s[i] = t[i]
      OBVIOUS
    <2>1. CASE i <= Len(q)
      <3>1. i \in 1..Len(a) /\ i <= Len(a) /\ i \in 1..Len(t)
        BY <1>1, <1>2, <1>5, <2>1
      <3> QED BY <1>2, <1>3, <1>4, <2>1, <3>1
    <2>2. CASE i = Len(q) + 1
      BY <1>1, <1>2, <1>3, <1>4, <1>5, <2>2
    <2>3. CASE i > Len(q) + 1
      <3> DEFINE k == i - Len(a)
      <3>1. k \in 1..Len(u) /\ k + 1 = i - Len(q)
        BY <1>1, <1>2, <1>3, <2>3
      <3>2. s[i] = u[k] /\ t[i] = r[i - Len(q)]
        BY <1>1, <1>2, <1>3, <1>4, <1>5, <2>3
      <3> QED BY <1>1, <3>1, <3>2
    <2> QED BY <1>1, <2>1, <2>2, <2>3
  <1>7. s = t
    BY <1>3, <1>4, <1>5, <1>6, SeqEqual
  <1> QED BY <1>7 DEF s, t, a, u

\* A stream is closed: its commit comes last.
LEMMA ClosedStream ==
    ASSUME NEW id \in Request, NEW v \in Snapshot
    PROVE  /\ Stream(id, v) \in Seq(Message) /\ Closed(Stream(id, v))
           /\ Begin(id, v) \in ToSet(Stream(id, v)) /\ Commit(id, v) \in ToSet(Stream(id, v))
  <1> DEFINE s == Stream(id, v)
             head == <<Begin(id, v)>>
             body == [i \in Index |-> Chunk(id, v, i)]
             end == <<Commit(id, v)>>
             hb == head \o body
  <1>1. s \in Seq(Message) /\ \A i \in 1..Len(s) : s[i].id = id
    <2>1. StreamMessage \subseteq Message
      BY DEF Message
    <2> QED BY <2>1, StreamFacts, SeqMonotonic
  <1>2. Begin(id, v) \in Message /\ Commit(id, v) \in Message /\ \A i \in Index : Chunk(id, v, i) \in Message
    BY DEF Message, StreamMessage
  <1>3. head \in Seq(Message) /\ Len(head) = 1 /\ head[1] = Begin(id, v)
    BY <1>2
  <1>4. end \in Seq(Message) /\ Len(end) = 1 /\ end[1] = Commit(id, v)
    BY <1>2
  <1>5. body \in Seq(Message) /\ Len(body) \in Nat
    <2>1. Index = 1..Chunks /\ Chunks \in Nat
      BY StreamAssumption DEF Index
    <2>2. \A i \in 1..Chunks : Chunk(id, v, i) \in Message
      BY <1>2, <2>1
    <2> HIDE DEF body
    <2>3. body \in Seq(Message)
      BY <2>1, <2>2, IsASeq DEF body
    <2> QED BY <2>3, LenProperties
  <1> HIDE DEF body, head, end
  <1>6. hb \in Seq(Message) /\ Len(hb) = 1 + Len(body) /\ hb[1] = Begin(id, v)
    <2>1. /\ hb \in Seq(Message) /\ Len(hb) = Len(head) + Len(body)
          /\ \A i \in 1..(Len(head) + Len(body)) : hb[i] = IF i <= Len(head) THEN head[i] ELSE body[i - Len(head)]
      BY <1>3, <1>5, CatIs
    <2> HIDE DEF hb
    <2>2. 1 \in 1..(Len(head) + Len(body)) /\ 1 <= Len(head)
      BY <1>3, <1>5
    <2> QED BY <1>3, <2>1, <2>2
  <1> HIDE DEF hb
  <1>7. s = hb \o end
    BY DEF Stream, hb, head, body, end
  <1> HIDE DEF s
  <1>8. /\ Len(s) = Len(hb) + 1 /\ s[Len(s)] = Commit(id, v) /\ s[1] = Begin(id, v)
        /\ Len(s) \in 1..Len(s) /\ 1 \in 1..Len(s)
        /\ \A i \in 1..Len(s) : i = Len(s) \/ i < Len(s)
    BY <1>4, <1>5, <1>6, <1>7, CatIs
  <1>9. Closed(s)
    <2>1. Ends(Commit(id, v), id) /\ Commit(id, v).kind # "begin"
      BY DEF Ends, Commit
    <2> QED BY <1>1, <1>8, <2>1 DEF Closed
  <1> QED BY <1>1, <1>8, <1>9, SetFacts DEF s

\* The types of the queues, and of a runtime.
LEMMA QueueTypes ==
    ASSUME TypeOK
    PROVE  /\ toRelay \in Seq(Message) /\ Left \notin ToSet(toRelay)
           /\ \A g \in Guest : /\ down[g] \in Seq(Message) /\ toHost[g] \in Seq(Request)
                               /\ On(g) => guest[g] \in Runtime
  <1>1. StreamMessage \subseteq Message
    BY DEF Message
  <1>2. Left \notin StreamMessage
    <2>1. \A m \in StreamMessage : m.kind # "left"
      BY DEF StreamMessage, Begin, Chunk, Commit
    <2> QED BY <2>1 DEF Left
  <1>3. toRelay \in Seq(StreamMessage) /\ toRelay \in Seq(Message)
    BY <1>1, SeqMonotonic DEF TypeOK
  <1>4. \A i \in 1..Len(toRelay) : toRelay[i] \in StreamMessage
    BY <1>3, ElementOfSeq
  <1>5. Left \notin ToSet(toRelay)
    BY <1>2, <1>3, <1>4, SetFacts
  <1> QED BY <1>3, <1>5 DEF TypeOK, On

\* Whoever is left alone still has what it waits for, unless a message on its
\* way, or a request, is lost: then it is told that somebody has left.
LEMMA StillEnds ==
    ASSUME NEW g \in Guest, On(g)', guest'[g] = guest[g],
           On(g) /\ guest[g].paused => HasEnd(g),
           g \in seated' => g \in seated,
           unanswered \subseteq unanswered',
           Left \in ToSet(down[g]) => Left \in ToSet(down'[g]),
           \/ Left \in ToSet(down'[g])
           \/ /\ ToSet(down[g] \o toRelay) \subseteq ToSet(down'[g] \o toRelay')
              /\ \A id \in ToSet(toHost[g]) :
                    \/ id \in unanswered' \/ id \in ToSet(toHost'[g])
                    \/ (Coming(g, "begin", id)' /\ Coming(g, "commit", id)')
    PROVE  guest'[g].paused => HasEnd(g)'
  <1> SUFFICES ASSUME guest'[g].paused, Left \notin ToSet(down'[g]), ~HasEnd(g)' PROVE FALSE
    BY DEF HasEnd
  <1> PICK id : id = guest[g].active
    OBVIOUS
  <1>1. HasEnd(g) /\ guest'[g].active = id
    BY DEF On
  <1>2. Answered(g, id)
    BY <1>1 DEF HasEnd
  <1>3. \A kind : Coming(g, kind, id) => Coming(g, kind, id)'
    BY DEF Coming
  <1>4. Assembles(g, [id |-> id]) => Assembles(g, [id |-> id])'
    BY DEF Assembles
  <1>5. Answered(g, id)'
    BY <1>2, <1>3, <1>4 DEF Answered
  <1> QED BY <1>1, <1>5 DEF HasEnd

\* A guest takes a message: what else comes to it is still closed.
LEMMA TakeRest ==
    ASSUME TypeOK, PauseInv, NEW g \in Guest, NEW kind, Take(g, kind)
    PROVE  LET m == Head(down[g])
               w == down[g] \o toRelay
           IN  /\ On(g) /\ guest[g] \in Runtime /\ g \in seated
               /\ m.kind = kind /\ down' = [down EXCEPT ![g] = Tail(down[g])]
               /\ UNCHANGED <<toHost, toRelay, seated, unanswered>>
               /\ Closed(w) /\ Closed(Tail(w)) /\ down'[g] \o toRelay' = Tail(w)
               /\ ToSet(w) = {m} \cup ToSet(Tail(w))
               /\ ToSet(down[g]) = {m} \cup ToSet(down'[g])
               /\ Left \in ToSet(Tail(w)) => Left \in ToSet(down'[g])
               /\ kind = "begin" => \E n \in ToSet(Tail(w)) : Ends(n, m.id)
  <1> DEFINE q == down[g]  m == Head(q)  w == q \o toRelay
  <1>1. /\ On(g) /\ guest[g] \in Runtime /\ q # <<>> /\ m.kind = kind
        /\ down' = [down EXCEPT ![g] = Tail(q)] /\ down'[g] = Tail(q)
        /\ UNCHANGED <<toHost, toRelay, seated, unanswered>>
        /\ q \in Seq(Message) /\ toRelay \in Seq(Message) /\ Left \notin ToSet(toRelay)
    BY QueueTypes DEF Take, TypeOK
  <1>2. g \in seated /\ Closed(w)
    BY <1>1 DEF PauseInv, WayOK
  <1>3. w \in Seq(Message) /\ w # <<>> /\ Head(w) = m /\ Tail(w) = Tail(q) \o toRelay
    BY <1>1, CatHead
  <1>4. ToSet(w) = {m} \cup ToSet(Tail(w))
    BY <1>3, SetFacts
  <1>5. ToSet(q) = {m} \cup ToSet(Tail(q)) /\ Tail(q) \in Seq(Message)
    BY <1>1, SetFacts, HeadTailProperties
  <1>6. Left \in ToSet(Tail(w)) => Left \in ToSet(Tail(q))
    <2> DEFINE t == Tail(q)
    <2>1. t \in Seq(Message)
      BY <1>5
    <2> HIDE DEF t
    <2>2. ToSet(t \o toRelay) = ToSet(t) \cup ToSet(toRelay)
      BY <1>1, <2>1, SetFacts
    <2> QED BY <1>1, <1>3, <2>2 DEF t
  <1>7. Closed(Tail(w)) /\ (m.kind = "begin" => \E n \in ToSet(Tail(w)) : Ends(n, m.id))
    BY <1>2, <1>3, ClosedTail
  <1> QED BY <1>1, <1>2, <1>3, <1>4, <1>5, <1>6, <1>7

\* The guests that do not take it, ...
LEMMA TakeOthers ==
    ASSUME TypeOK, PauseInv, NEW g \in Guest, NEW kind, Take(g, kind),
           \A h \in Guest \ {g} : guest'[h] = guest[h],
           On(g)' /\ guest'[g].paused => HasEnd(g)'
    PROVE  PauseInv'
  <1>1. /\ g \in seated /\ down' = [down EXCEPT ![g] = Tail(down[g])]
        /\ UNCHANGED <<toHost, toRelay, seated, unanswered>>
        /\ Closed(Tail(down[g] \o toRelay)) /\ down'[g] \o toRelay' = Tail(down[g] \o toRelay)
    BY TakeRest
  <1>2. WayOK(g)'
    BY <1>1 DEF WayOK
  <1>3. ASSUME NEW h \in Guest, h # g
        PROVE  WayOK(h)' /\ (On(h)' /\ guest'[h].paused => HasEnd(h)')
    <2>1. down'[h] = down[h] /\ guest'[h] = guest[h]
      BY <1>1, <1>3 DEF TypeOK
    <2>2. WayOK(h) /\ (On(h) /\ guest[h].paused => HasEnd(h))
      BY DEF PauseInv
    <2>3. WayOK(h)'
      BY <1>1, <2>1, <2>2 DEF WayOK, On
    <2> QED BY <1>1, <2>1, <2>2, <2>3 DEF On, HasEnd, Answered, Coming, Assembles
  <1> QED BY <1>1, <1>2, <1>3 DEF PauseInv

\* ... and the one that does.
LEMMA RecvBeginEnds ==
    ASSUME TypeOK, PauseInv, NEW g \in Guest, RecvBegin(g)
    PROVE  PauseInv'
  <1> PICK m, id : m = Head(down[g]) /\ id = guest[g].active
    OBVIOUS
  <1> DEFINE w == down[g] \o toRelay
             a == [id |-> m.id, snapshot |-> m.snapshot, got |-> [i \in Index |-> 0]]
  <1>1. /\ Take(g, "begin")
        /\ guest' = IF Wanted(g, m)
                    THEN [guest EXCEPT ![g].assembler = a, ![g].active = m.id, ![g].paused = TRUE]
                    ELSE guest
    BY DEF RecvBegin
  <1>2. /\ On(g) /\ guest[g] \in Runtime /\ g \in seated
        /\ m.kind = "begin"
        /\ UNCHANGED <<toHost, toRelay, seated, unanswered>>
        /\ down'[g] \o toRelay' = Tail(w)
        /\ ToSet(w) = {m} \cup ToSet(Tail(w)) /\ ToSet(down[g]) = {m} \cup ToSet(down'[g])
        /\ Left \in ToSet(Tail(w)) => Left \in ToSet(down'[g])
        /\ \E n \in ToSet(Tail(w)) : Ends(n, m.id)
    BY <1>1, TakeRest
  <1>3. m \in Message /\ m.id \in Request /\ m.snapshot \in Snapshot
    BY <1>1, TakeType, MessageFacts
  <1> HIDE DEF w
  <1>4. CASE Wanted(g, m)
    <2>1. a \in Assembler /\ a # None /\ a.id = m.id
      BY <1>3, NoneAssumption DEF Assembler
    <2> HIDE DEF a
    <2>2. /\ guest'[g].assembler = a /\ guest'[g].active = m.id
          /\ \A h \in Guest \ {g} : guest'[h] = guest[h]
      BY <1>1, <1>2, <1>4 DEF TypeOK, Runtime
    <2>3. Assembles(g, [id |-> m.id])'
      BY <2>1, <2>2 DEF Assembles
    <2>4. Left \in ToSet(down'[g]) \/ Coming(g, "commit", m.id)'
      BY <1>2 DEF Ends, Coming
    <2>5. HasEnd(g)'
      BY <2>2, <2>3, <2>4 DEF HasEnd, Answered
    <2> QED BY <1>1, <2>2, <2>5, TakeOthers
  <1>5. CASE ~Wanted(g, m)
    <2>1. guest' = guest /\ m.id # id
      BY <1>1, <1>5 DEF Wanted
    <2>2. \A kind : Coming(g, kind, id) => Coming(g, kind, id)'
      BY <1>2, <2>1 DEF Coming, w
    <2>3. m # Left
      BY <1>2 DEF Left
    <2>4. On(g)' /\ guest'[g].paused => HasEnd(g)'
      <3> SUFFICES ASSUME guest[g].paused PROVE HasEnd(g)'
        BY <2>1
      <3>1. HasEnd(g)
        BY <1>2 DEF PauseInv
      <3>2. Left \in ToSet(down[g]) => Left \in ToSet(down'[g])
        BY <1>2, <2>3
      <3>3. Answered(g, id) => Answered(g, id)'
        BY <1>2, <2>1, <2>2 DEF Answered, Assembles
      <3> QED BY <1>2, <2>1, <3>1, <3>2, <3>3 DEF HasEnd
    <2> QED BY <1>1, <2>1, <2>4, TakeOthers
  <1> QED BY <1>4, <1>5

LEMMA RecvChunkEnds ==
    ASSUME TypeOK, PauseInv, NEW g \in Guest, RecvChunk(g)
    PROVE  PauseInv'
  <1> PICK m, id : m = Head(down[g]) /\ id = guest[g].active
    OBVIOUS
  <1> DEFINE w == down[g] \o toRelay
  <1>1. /\ Take(g, "chunk")
        /\ guest' = IF Assembles(g, m)
                    THEN [guest EXCEPT ![g].assembler.got[m.index] = m.snapshot] ELSE guest
    BY DEF RecvChunk
  <1>2. /\ On(g) /\ guest[g] \in Runtime /\ g \in seated
        /\ m.kind = "chunk"
        /\ UNCHANGED <<toHost, toRelay, seated, unanswered>>
        /\ down'[g] \o toRelay' = Tail(w)
        /\ ToSet(w) = {m} \cup ToSet(Tail(w)) /\ ToSet(down[g]) = {m} \cup ToSet(down'[g])
    BY <1>1, TakeRest
  <1>3. m \in Message /\ m.index \in Index /\ m.snapshot \in Snapshot
    BY <1>1, TakeType, MessageFacts
  <1> HIDE DEF w
  <1>4. /\ \A h \in Guest \ {g} : guest'[h] = guest[h]
        /\ guest'[g].active = id /\ guest'[g].paused = guest[g].paused
        /\ guest'[g].deadline = guest[g].deadline /\ guest'[g].pending = guest[g].pending
        /\ \A i : Assembles(g, [id |-> i]) => Assembles(g, [id |-> i])'
    <2>1. CASE Assembles(g, m)
      <3> DEFINE old == guest[g].assembler  new == [old EXCEPT !.got[m.index] = m.snapshot]
      <3>1. old \in Assembler
        BY <1>2, <2>1 DEF Assembles, Runtime
      <3>2. new \in Assembler /\ new.id = old.id /\ new # None
        BY <1>3, <3>1, NoneAssumption DEF Assembler
      <3>3. guest' = [guest EXCEPT ![g] = [guest[g] EXCEPT !.assembler = new]]
        BY <1>1, <2>1, <3>1 DEF TypeOK, Runtime
      <3> HIDE DEF new
      <3>4. guest'[g] = [guest[g] EXCEPT !.assembler = new] /\ \A h \in Guest \ {g} : guest'[h] = guest[h]
        BY <3>3 DEF TypeOK
      <3>5. /\ guest'[g].assembler = new /\ guest'[g].active = id
            /\ guest'[g].paused = guest[g].paused
            /\ guest'[g].deadline = guest[g].deadline /\ guest'[g].pending = guest[g].pending
        BY <1>2, <3>4 DEF Runtime
      <3>6. \A i : Assembles(g, [id |-> i]) => Assembles(g, [id |-> i])'
        BY <3>2, <3>5 DEF Assembles
      <3> QED BY <3>4, <3>5, <3>6
    <2>2. CASE ~Assembles(g, m)
      <3>1. guest' = guest
        BY <1>1, <2>2
      <3> QED BY <3>1 DEF Assembles
    <2> QED BY <2>1, <2>2
  <1>5. On(g)' /\ guest'[g].paused => HasEnd(g)'
    <2> SUFFICES ASSUME guest[g].paused PROVE HasEnd(g)'
      BY <1>4
    <2>1. HasEnd(g)
      BY <1>2 DEF PauseInv
    <2>2. m # Left
      BY <1>2 DEF Left
    <2>3. Left \in ToSet(down[g]) => Left \in ToSet(down'[g])
      BY <1>2, <2>2
    <2>4. \A kind \in {"begin", "commit"} : Coming(g, kind, id) => Coming(g, kind, id)'
      BY <1>2 DEF Coming, w
    <2>5. Answered(g, id) => Answered(g, id)'
      BY <1>2, <1>4, <2>4 DEF Answered
    <2> QED BY <1>2, <1>4, <2>1, <2>3, <2>5 DEF HasEnd
  <1> QED BY <1>1, <1>4, <1>5, TakeOthers

LEMMA RecvCommitEnds ==
    ASSUME TypeOK, PauseInv, NEW g \in Guest, Take(g, "commit"),
           guest' = IF Assembles(g, Head(down[g]))
                    THEN [guest EXCEPT ![g].assembler = None, ![g].pending = guest[g].assembler.got,
                                       ![g].paused = TRUE, ![g].deadline = TRUE]
                    ELSE guest
    PROVE  PauseInv'
  <1> PICK m, id : m = Head(down[g]) /\ id = guest[g].active
    OBVIOUS
  <1> DEFINE w == down[g] \o toRelay
  <1>1. /\ On(g) /\ guest[g] \in Runtime /\ g \in seated
        /\ m.kind = "commit" /\ down' = [down EXCEPT ![g] = Tail(down[g])]
        /\ UNCHANGED <<toHost, toRelay, seated, unanswered>>
        /\ down'[g] \o toRelay' = Tail(w) /\ Closed(Tail(w))
        /\ ToSet(w) = {m} \cup ToSet(Tail(w)) /\ ToSet(down[g]) = {m} \cup ToSet(down'[g])
        /\ Left \in ToSet(Tail(w)) => Left \in ToSet(down'[g])
        /\ Tail(w) \in Seq(Message)
    <2>1. Tail(w) \in Seq(Message)
      <3>1. down[g] \in Seq(Message) /\ down[g] # <<>> /\ toRelay \in Seq(Message)
        BY QueueTypes DEF Take
      <3>2. w \in Seq(Message) /\ w # <<>>
        BY <3>1, CatHead
      <3> HIDE DEF w
      <3> QED BY <3>2, HeadTailProperties
    <2> QED BY <2>1, TakeRest
  <1> HIDE DEF w
  <1>2. CASE guest' = [guest EXCEPT ![g].assembler = None, ![g].pending = guest[g].assembler.got,
                                    ![g].paused = TRUE, ![g].deadline = TRUE]
    <2>1. guest'[g].deadline /\ \A h \in Guest \ {g} : guest'[h] = guest[h]
      BY <1>1, <1>2 DEF TypeOK, Runtime
    <2> QED BY <2>1, TakeOthers DEF HasEnd
  <1>3. CASE guest' = guest /\ ~Assembles(g, m)
    <2> SUFFICES ASSUME On(g)', guest'[g].paused PROVE HasEnd(g)'
      BY <1>3, TakeOthers
    <2>1. HasEnd(g)
      BY <1>1, <1>3 DEF PauseInv
    <2>2. m # Left
      BY <1>1 DEF Left
    <2>3. Left \in ToSet(down[g]) => Left \in ToSet(down'[g])
      BY <1>1, <2>2
    <2>4. ASSUME Answered(g, id) PROVE Answered(g, id)' \/ Left \in ToSet(down'[g])
      <3>1. CASE id \in unanswered \/ id \in ToSet(toHost[g])
        BY <1>1, <3>1 DEF Answered
      <3>2. CASE Coming(g, "commit", id) /\ m.id # id
        <4>1. \A kind : Coming(g, kind, id) => Coming(g, kind, id)'
          BY <1>1, <3>2 DEF Coming, w
        <4>2. Coming(g, "begin", id) \/ Assembles(g, [id |-> id]) \/ id \in unanswered
              \/ id \in ToSet(toHost[g])
          BY <2>4 DEF Answered
        <4> QED BY <1>1, <1>3, <3>2, <4>1, <4>2 DEF Answered, Assembles
      <3>3. CASE m.id = id /\ Coming(g, "begin", id)
        <4>1. PICK n \in ToSet(Tail(w)) : n.kind = "begin" /\ n.id = id
          BY <1>1, <3>3 DEF Coming, w
        <4>2. \E e \in ToSet(Tail(w)) : Ends(e, id)
          <5>1. PICK i \in 1..Len(Tail(w)) : Tail(w)[i] = n
            BY <1>1, <4>1, SetFacts
          <5>2. PICK j \in 1..Len(Tail(w)) : Ends(Tail(w)[j], id)
            BY <1>1, <4>1, <5>1 DEF Closed
          <5> QED BY <1>1, <5>2, SetFacts
        <4>3. Coming(g, "begin", id)'
          BY <1>1, <4>1 DEF Coming
        <4>4. Coming(g, "commit", id)' \/ Left \in ToSet(down'[g])
          BY <1>1, <4>2 DEF Coming, Ends
        <4> QED BY <4>3, <4>4 DEF Answered
      <3>4. m.id = id => ~Assembles(g, [id |-> id])
        BY <1>3 DEF Assembles
      <3> QED BY <2>4, <3>1, <3>2, <3>3, <3>4 DEF Answered
    <2> QED BY <1>1, <1>3, <2>1, <2>3, <2>4 DEF HasEnd
  <1> QED BY <1>2, <1>3

LEMMA RecvNoticeEnds ==
    ASSUME TypeOK, PauseInv, NEW g \in Guest, RecvLeft(g) \/ RecvState(g)
    PROVE  PauseInv'
  <1>1. CASE RecvLeft(g)
    <2>1. Take(g, "left") /\ guest[g] \in Runtime
      BY <1>1, TakeType DEF RecvLeft
    <2>2. guest'[g].deadline /\ \A h \in Guest \ {g} : guest'[h] = guest[h]
      BY <1>1, <2>1 DEF RecvLeft, TypeOK, Runtime
    <2> QED BY <2>1, <2>2, TakeOthers DEF HasEnd
  <1>2. CASE RecvState(g)
    <2> PICK m, id : m = Head(down[g]) /\ id = guest[g].active
      OBVIOUS
    <2> DEFINE w == down[g] \o toRelay
    <2>1. Take(g, "state") /\ guest[g] \in Runtime
      BY <1>2, TakeType DEF RecvState
    <2>2. \A h \in Guest \ {g} : guest'[h] = guest[h]
      BY <1>2 DEF RecvState, TypeOK
    <2>3. CASE guest[g].waiting
      <3>1. ~guest'[g].paused
        BY <1>2, <2>1, <2>3 DEF RecvState, TypeOK, Runtime
      <3> QED BY <2>1, <2>2, <3>1, TakeOthers
    <2>4. CASE ~guest[g].waiting
      <3>1. guest' = guest
        BY <1>2, <2>4 DEF RecvState
      <3>2. /\ On(g) /\ m.kind = "state"
            /\ UNCHANGED <<toHost, toRelay, seated, unanswered>>
            /\ down'[g] \o toRelay' = Tail(w)
            /\ ToSet(w) = {m} \cup ToSet(Tail(w)) /\ ToSet(down[g]) = {m} \cup ToSet(down'[g])
        BY <2>1, TakeRest
      <3>3. m # Left
        BY <3>2 DEF Left
      <3>4. Left \in ToSet(down[g]) => Left \in ToSet(down'[g])
        BY <3>2, <3>3
      <3>5. \A kind \in {"begin", "commit"} : Coming(g, kind, id) => Coming(g, kind, id)'
        BY <3>2 DEF Coming
      <3>6. Answered(g, id) => Answered(g, id)'
        BY <3>1, <3>2, <3>5 DEF Answered, Assembles
      <3>7. On(g)' /\ guest'[g].paused => HasEnd(g)'
        BY <3>1, <3>2, <3>4, <3>6 DEF HasEnd, PauseInv
      <3> QED BY <2>1, <2>2, <3>7, TakeOthers
    <2> QED BY <2>3, <2>4
  <1> QED BY <1>1, <1>2

\* A guest that applies its snapshot, or fails, waits no longer.
LEMMA ApplyEnds ==
    ASSUME TypeOK, PauseInv, NEW g \in Guest, Apply(g)
    PROVE  PauseInv'
  <1>1. /\ guest[g] \in Runtime /\ On(g) /\ UNCHANGED <<toHost, toRelay, down, seated, unanswered>>
        /\ \A h \in Guest \ {g} : guest'[h] = guest[h]
    BY DEF Apply, links, TypeOK, On
  <1>2. ~guest'[g].paused
    BY <1>1 DEF Apply, TypeOK, Runtime
  <1>3. \A h \in Guest : WayOK(h)'
    BY <1>1 DEF PauseInv, WayOK, On
  <1>4. \A h \in Guest \ {g} : On(h)' /\ guest'[h].paused => HasEnd(h)'
    BY <1>1 DEF PauseInv, On, HasEnd, Answered, Coming, Assembles
  <1> QED BY <1>1, <1>2, <1>3, <1>4 DEF PauseInv

LEMMA FailEnds ==
    ASSUME TypeOK, PauseInv, NEW g \in Guest, Fail(g)
    PROVE  PauseInv'
  <1>1. /\ ~On(g)' /\ UNCHANGED <<toHost, toRelay, seated, unanswered>>
        /\ \A h \in Guest \ {g} : guest'[h] = guest[h] /\ down'[h] = down[h]
    BY DEF Fail, On, TypeOK
  <1>2. \A h \in Guest : WayOK(h)'
    BY <1>1 DEF PauseInv, WayOK, On
  <1>3. \A h \in Guest \ {g} : On(h)' /\ guest'[h].paused => HasEnd(h)'
    BY <1>1 DEF PauseInv, On, HasEnd, Answered, Coming, Assembles
  <1> QED BY <1>1, <1>2, <1>3 DEF PauseInv

\* A guest that asks has its request on the way, or it is dropped at once.
LEMMA AskEnds ==
    ASSUME TypeOK, PauseInv, NEW g \in Guest, AskForResync(g)
    PROVE  PauseInv'
  <1> PICK id : id = requests + 1
    OBVIOUS
  <1>1. /\ guest[g] \in Runtime /\ On(g) /\ UNCHANGED <<toRelay, down, seated>>
        /\ \A h \in Guest \ {g} : guest'[h] = guest[h] /\ toHost'[h] = toHost[h]
        /\ unanswered \subseteq unanswered'
        /\ id \in Request
    BY StreamAssumption DEF AskForResync, TypeOK, On, Request
  <1>2. guest'[g].active = id
    BY <1>1 DEF AskForResync, TypeOK, Runtime
  <1>3. id \in unanswered' \/ id \in ToSet(toHost'[g])
    <2>1. CASE Host \in seated
      <3>1. toHost'[g] = Append(toHost[g], id) /\ toHost[g] \in Seq(Request)
        BY <2>1 DEF AskForResync, TypeOK
      <3>2. /\ Len(toHost'[g]) \in DOMAIN toHost'[g] /\ toHost'[g][Len(toHost'[g])] = id
        BY <1>1, <3>1, AppendProperties, LenProperties
      <3> QED BY <3>2 DEF ToSet
    <2>2. CASE Host \notin seated
      BY <2>2 DEF AskForResync
    <2> QED BY <2>1, <2>2
  <1>4. HasEnd(g)'
    BY <1>2, <1>3 DEF HasEnd, Answered
  <1>5. \A h \in Guest : WayOK(h)'
    BY <1>1 DEF PauseInv, WayOK, On
  <1>6. \A h \in Guest \ {g} : On(h)' /\ guest'[h].paused => HasEnd(h)'
    BY <1>1 DEF PauseInv, On, HasEnd, Answered, Coming, Assembles
  <1> QED BY <1>1, <1>4, <1>5, <1>6 DEF PauseInv

\* A request gets a whole stream, or the host has no snapshot.
LEMMA AnswerEnds ==
    ASSUME TypeOK, PauseInv, NEW g \in Guest, HandleRequest(g)
    PROVE  PauseInv'
  <1> PICK id : id = Head(toHost[g])
    OBVIOUS
  <1> DEFINE s == Stream(id, latest)  q == toHost[g]
  <1>1. /\ q \in Seq(Request) /\ q # <<>> /\ toHost' = [toHost EXCEPT ![g] = Tail(q)]
        /\ \/ latest = 0 /\ unanswered' = unanswered \cup {id} /\ toRelay' = toRelay
           \/ latest # 0 /\ toRelay' = toRelay \o s /\ unanswered' = unanswered
        /\ UNCHANGED <<latest, down, seated, guest>>
        /\ toRelay \in Seq(Message) /\ \A h \in Guest : down[h] \in Seq(Message)
    BY QueueTypes DEF HandleRequest, TypeOK
  <1>2. /\ id \in Request /\ ToSet(q) \subseteq {id} \cup ToSet(toHost'[g])
        /\ \A h \in Guest \ {g} : toHost'[h] = toHost[h]
    <2>1. /\ Head(q) \in Request /\ Len(Tail(q)) = Len(q) - 1 /\ Head(q) = q[1]
          /\ \A i \in 1..Len(Tail(q)) : Tail(q)[i] = q[i + 1]
          /\ Len(q) \in Nat /\ DOMAIN q = 1..Len(q) /\ DOMAIN Tail(q) = 1..Len(Tail(q))
      BY <1>1, HeadTailProperties, LenProperties
    <2>2. ASSUME NEW i \in DOMAIN q, i # 1 PROVE i - 1 \in DOMAIN Tail(q) /\ q[i] = Tail(q)[i - 1]
      BY <2>1, <2>2
    <2>3. toHost'[g] = Tail(q) /\ \A h \in Guest \ {g} : toHost'[h] = toHost[h]
      BY <1>1 DEF TypeOK
    <2> QED BY <2>1, <2>2, <2>3 DEF ToSet
  <1> HIDE DEF q
  <1>3. latest # 0 => /\ s \in Seq(Message) /\ Closed(s)
                      /\ Begin(id, latest) \in ToSet(s) /\ Commit(id, latest) \in ToSet(s)
    <2>1. latest # 0 => latest \in Snapshot
      BY StreamAssumption DEF TypeOK, Snapshot
    <2> QED BY <1>2, <2>1, ClosedStream
  <1> HIDE DEF s
  <1>4. Closed(toRelay)'
    BY <1>1, <1>3, ClosedCat DEF PauseInv
  <1>5. ASSUME NEW h \in Guest
        PROVE  /\ Closed(down[h] \o toRelay) => Closed(down[h] \o toRelay')
               /\ ToSet(down[h] \o toRelay) \subseteq ToSet(down[h] \o toRelay')
               /\ latest # 0 => ToSet(s) \subseteq ToSet(down[h] \o toRelay')
    <2>1. CASE toRelay' = toRelay /\ latest = 0
      BY <2>1
    <2>2. CASE toRelay' = toRelay \o s /\ latest # 0
      <3> DEFINE c == down[h] \o toRelay
      <3>1. c \in Seq(Message) /\ down[h] \o toRelay' = c \o s
        <4>1. down[h] \in Seq(Message) /\ toRelay \in Seq(Message) /\ s \in Seq(Message)
          BY <1>1, <1>3, <2>2
        <4>2. down[h] \o (toRelay \o s) = (down[h] \o toRelay) \o s
          BY <4>1, CatCat
        <4>3. down[h] \o toRelay \in Seq(Message)
          BY <4>1, CatIs
        <4> QED BY <2>2, <4>2, <4>3
      <3> HIDE DEF c
      <3>2. (Closed(c) => Closed(c \o s)) /\ ToSet(c \o s) = ToSet(c) \cup ToSet(s)
        BY <1>3, <2>2, <3>1, ClosedCat, SetFacts
      <3> QED BY <3>1, <3>2 DEF c
    <2> QED BY <1>1, <2>1, <2>2
  <1>6. \A h \in Guest : WayOK(h)'
    BY <1>1, <1>5 DEF PauseInv, WayOK, On
  <1>7. ASSUME NEW h \in Guest, On(h)' PROVE guest'[h].paused => HasEnd(h)'
    <2>1. id \in unanswered' \/ (Coming(h, "begin", id)' /\ Coming(h, "commit", id)')
      <3>1. CASE latest # 0
        <4>1. {Begin(id, latest), Commit(id, latest)} \subseteq ToSet(down'[h] \o toRelay')
          BY <1>1, <1>3, <1>5, <3>1
        <4>2. Coming(h, "begin", id)'
          BY <4>1 DEF Coming, Begin
        <4>3. Coming(h, "commit", id)'
          BY <4>1 DEF Coming, Commit
        <4> QED BY <4>2, <4>3
      <3> QED BY <1>1, <3>1
    <2>2. \A i \in ToSet(toHost[h]) : i = id \/ i \in ToSet(toHost'[h])
      BY <1>2 DEF q
    <2>3. guest' = guest /\ down' = down /\ seated' = seated /\ unanswered \subseteq unanswered'
      BY <1>1
    <2>4. On(h) /\ guest[h].paused => HasEnd(h)
      BY DEF PauseInv
    <2> QED BY <1>5, <1>7, <2>1, <2>2, <2>3, <2>4, StillEnds
  <1> QED BY <1>4, <1>6, <1>7 DEF PauseInv

\* The relay forwards a message to those with a seat; the rest of a stream is
\* closed without its head.
LEMMA ForwardEnds ==
    ASSUME TypeOK, PauseInv, Forward
    PROVE  PauseInv'
  <1>1. /\ toRelay # <<>> /\ toRelay' = Tail(toRelay)
        /\ down' = [g \in Guest |-> IF g \in seated /\ On(g)
                                    THEN Append(down[g], Head(toRelay)) ELSE down[g]]
        /\ UNCHANGED <<toHost, seated, guest, unanswered>>
        /\ toRelay \in Seq(Message) /\ \A h \in Guest : down[h] \in Seq(Message)
        /\ Closed(toRelay)
    BY QueueTypes DEF Forward, PauseInv
  <1>2. Closed(toRelay)'
    BY <1>1, ClosedTail
  <1>3. ASSUME NEW h \in Guest PROVE WayOK(h)' /\ (On(h)' /\ guest'[h].paused => HasEnd(h)')
    <2>1. On(h)' = On(h) /\ WayOK(h) /\ (On(h) /\ guest[h].paused => HasEnd(h))
      BY <1>1 DEF PauseInv, On
    <2>2. CASE h \in seated /\ On(h)
      <3>1. down'[h] = Append(down[h], Head(toRelay))
        BY <1>1, <2>2
      <3>2. down'[h] \o toRelay' = down[h] \o toRelay
        BY <1>1, <3>1, MoveHead
      <3>3. ToSet(down[h]) \subseteq ToSet(down'[h])
        <4>1. /\ DOMAIN down[h] = 1..Len(down[h]) /\ Len(down[h]) \in Nat
              /\ DOMAIN down'[h] = 1..(Len(down[h]) + 1)
              /\ \A i \in 1..Len(down[h]) : down'[h][i] = down[h][i]
          BY <1>1, <3>1, AppendProperties, LenProperties, HeadTailProperties
        <4> QED BY <4>1 DEF ToSet
      <3>4. guest'[h].paused => HasEnd(h)'
        BY <1>1, <2>1, <2>2, <3>2, <3>3, StillEnds
      <3> QED BY <1>1, <2>1, <2>2, <3>2, <3>4 DEF WayOK
    <2>3. CASE ~(h \in seated /\ On(h))
      BY <1>1, <2>1, <2>3 DEF WayOK, HasEnd
    <2> QED BY <2>2, <2>3
  <1> QED BY <1>2, <1>3 DEF PauseInv

\* What is told of a peer's comings and goings comes in between.
LEMMA ToldEnds ==
    ASSUME TypeOK, NEW p, NEW n \in {<<State, Left>>, <<State>>}, NEW h \in Guest,
           NEW d, d = Told(p, n)[h]
    PROVE  /\ Closed(down[h] \o toRelay) => Closed(d \o toRelay)
           /\ ToSet(down[h] \o toRelay) \subseteq ToSet(d \o toRelay)
           /\ ToSet(down[h]) \subseteq ToSet(d)
           /\ h \notin seated \/ h = p => d = down[h]
           /\ h \in seated /\ h # p /\ h # Host /\ On(h) => d = down[h] \o n
  <1>1. n \in Seq(Message) /\ down[h] \in Seq(Message) /\ toRelay \in Seq(Message)
    BY QueueTypes, NoticeQueues
  <1>2. \A i \in 1..Len(n) : n[i].kind # "begin"
    <2>1. /\ Len(<<State, Left>>) = 2 /\ <<State, Left>>[1] = State /\ <<State, Left>>[2] = Left
          /\ Len(<<State>>) = 1 /\ <<State>>[1] = State
      OBVIOUS
    <2>2. State.kind # "begin" /\ Left.kind # "begin"
      BY DEF State, Left
    <2>3. \A i \in 1..2 : i = 1 \/ i = 2
      OBVIOUS
    <2> QED BY <2>1, <2>2, <2>3
  <1>3. d = down[h] \/ d = down[h] \o n
    BY DEF Told
  <1>4. CASE d = down[h] \o n
    <2> DEFINE q == down[h]
    <2>1. q \in Seq(Message) /\ q \o n \in Seq(Message)
      BY <1>1, CatIs
    <2>2. Closed(q \o toRelay) => Closed((q \o n) \o toRelay)
      BY <1>1, <1>2, ClosedInsert
    <2>3. ToSet(q \o n) = ToSet(q) \cup ToSet(n)
      BY <1>1, SetFacts
    <2>4. ToSet((q \o n) \o toRelay) = ToSet(q \o n) \cup ToSet(toRelay)
      BY <1>1, <2>1, SetFacts
    <2>5. ToSet(q \o toRelay) = ToSet(q) \cup ToSet(toRelay)
      BY <1>1, SetFacts
    <2> QED BY <1>4, <2>2, <2>3, <2>4, <2>5 DEF Told, Others
  <1>5. CASE d = down[h]
    BY <1>5 DEF Told, Others
  <1> QED BY <1>3, <1>4, <1>5

\* A guest that is told of others' comings and goings, and waits on.
LEMMA ToldStays ==
    ASSUME TypeOK, PauseInv, NEW p, NEW n \in {<<State, Left>>, <<State>>}, NEW h \in Guest, h # p,
           down'[h] = Told(p, n)[h], toHost'[h] = toHost[h], guest'[h] = guest[h],
           UNCHANGED <<toRelay, unanswered>>,
           h \in seated' <=> h \in seated
    PROVE  WayOK(h)' /\ (On(h)' /\ guest'[h].paused => HasEnd(h)')
  <1> PICK d : d = Told(p, n)[h]
    OBVIOUS
  <1>1. /\ Closed(down[h] \o toRelay) => Closed(d \o toRelay)
        /\ ToSet(down[h] \o toRelay) \subseteq ToSet(d \o toRelay)
        /\ ToSet(down[h]) \subseteq ToSet(d)
        /\ h \notin seated => d = down[h]
    BY ToldEnds
  <1>2. WayOK(h) /\ (On(h) /\ guest[h].paused => HasEnd(h))
    BY DEF PauseInv
  <1>3. WayOK(h)'
    BY <1>1, <1>2 DEF WayOK, On
  <1>4. ASSUME On(h)' PROVE guest'[h].paused => HasEnd(h)'
    BY <1>1, <1>2, <1>4, StillEnds
  <1> QED BY <1>3, <1>4

LEMMA CutGuestEnds ==
    ASSUME TypeOK, PauseInv, NEW g \in Guest, CutGuest(g)
    PROVE  PauseInv'
  <1>1. /\ seated' = seated \ {g} /\ On(g)
        /\ UNCHANGED <<toRelay, unanswered>>
        /\ \A h \in Guest \ {g} : /\ guest'[h] = guest[h] /\ toHost'[h] = toHost[h]
                                  /\ down'[h] = Told(g, <<State, Left>>)[h]
        /\ down'[g] = <<>>
    BY DEF CutGuest, TypeOK, Told
  <1>2. WayOK(g)' /\ HasEnd(g)'
    BY <1>1 DEF WayOK, HasEnd
  <1>3. \A h \in Guest \ {g} : WayOK(h)' /\ (On(h)' /\ guest'[h].paused => HasEnd(h)')
    BY <1>1, ToldStays
  <1>4. Closed(toRelay)'
    BY <1>1 DEF PauseInv
  <1> QED BY <1>2, <1>3, <1>4 DEF PauseInv

\* A guest with an error waits for nothing.
LEMMA PruneEnds ==
    ASSUME TypeOK, PauseInv, NEW g \in Guest, Prune(g)
    PROVE  PauseInv'
  <1>1. /\ seated' = seated \ {g} /\ ~On(g)'
        /\ UNCHANGED <<toRelay, unanswered, guest>>
        /\ \A h \in Guest \ {g} : /\ toHost'[h] = toHost[h]
                                  /\ down'[h] = Told(g, <<State, Left>>)[h]
    BY DEF Prune, TypeOK, On
  <1>2. \A h \in Guest \ {g} : WayOK(h)' /\ (On(h)' /\ guest'[h].paused => HasEnd(h)')
    BY <1>1, ToldStays
  <1>3. Closed(toRelay)' /\ WayOK(g)'
    BY <1>1 DEF PauseInv, WayOK
  <1> QED BY <1>1, <1>2, <1>3 DEF PauseInv

LEMMA RejoinEnds ==
    ASSUME TypeOK, PauseInv, NEW p \in Peer, Rejoin(p)
    PROVE  PauseInv'
  <1>1. /\ seated' = seated \cup {p} /\ p \notin seated
        /\ UNCHANGED <<toHost, toRelay, unanswered>>
        /\ down' = Told(p, <<State>>)
        /\ \A h \in Guest \ {p} : guest'[h] = guest[h]
    BY DEF Rejoin, TypeOK
  <1>2. \A h \in Guest \ {p} : WayOK(h)' /\ (On(h)' /\ guest'[h].paused => HasEnd(h)')
    BY <1>1, ToldStays
  <1>3. Closed(toRelay)'
    BY <1>1 DEF PauseInv
  <1>4. ASSUME p \in Guest PROVE WayOK(p)' /\ ~guest'[p].paused
    <2>1. On(p) /\ p # Host /\ guest[p] \in Runtime /\ toRelay \in Seq(Message)
      BY <1>4, StreamAssumption, QueueTypes DEF Rejoin
    <2>2. down'[p] = down[p]
      BY <1>1, <1>4, ToldEnds
    <2>3. down[p] = <<>>
      BY <1>1, <1>4, <2>1 DEF PauseInv, WayOK
    <2>4. <<>> \o toRelay = toRelay
      BY <2>1, ConcatEmptySeq
    <2>5. ~guest'[p].paused
      BY <1>4, <2>1 DEF Rejoin, TypeOK, Runtime
    <2> QED BY <1>1, <1>3, <2>2, <2>3, <2>4, <2>5 DEF WayOK
  <1> QED BY <1>2, <1>3, <1>4 DEF PauseInv

\* When the host's link breaks, requests and streams are lost: every guest with
\* a seat is told that somebody has left.
LEMMA CutHostEnds ==
    ASSUME TypeOK, PauseInv, CutHost
    PROVE  PauseInv'
  <1>1. /\ seated' = seated \ {Host} /\ toRelay' = <<>> /\ UNCHANGED <<guest, unanswered>>
        /\ down' = Told(Host, <<State, Left>>)
        /\ \A h \in Guest : down[h] \in Seq(Message) /\ down'[h] \in Seq(Message) /\ h # Host
    <2>1. down' = Told(Host, <<State, Left>>) /\ Told(Host, <<State, Left>>) \in [Guest -> Seq(Message)]
      BY ToldType, NoticeQueues DEF CutHost
    <2>2. \A h \in Guest : down[h] \in Seq(Message) /\ down'[h] \in Seq(Message) /\ h # Host
      BY <2>1, StreamAssumption, QueueTypes
    <2> QED BY <2>1, <2>2 DEF CutHost
  <1>2. Closed(toRelay)'
    <2>1. Len(<<>>) = 0
      OBVIOUS
    <2> QED BY <1>1, <2>1 DEF Closed
  <1>3. ASSUME NEW h \in Guest, On(h)' PROVE WayOK(h)' /\ HasEnd(h)'
    <2>1. CASE h \in seated
      <3>1. down'[h] = down[h] \o <<State, Left>>
        BY <1>1, <1>3, <2>1, ToldEnds DEF On
      <3>2. Closed(down'[h]) /\ Left \in ToSet(down'[h])
        BY <1>1, <3>1, ClosedByLeft
      <3>3. down'[h] \o toRelay' = down'[h]
        <4> PICK d : d = down'[h]
          OBVIOUS
        <4>1. d \o <<>> = d
          BY <1>1, ConcatEmptySeq
        <4> QED BY <1>1, <4>1
      <3>4. WayOK(h)'
        BY <1>1, <2>1, <3>2, <3>3 DEF WayOK
      <3> QED BY <3>2, <3>4 DEF HasEnd
    <2>2. CASE h \notin seated
      <3>1. down'[h] = down[h] /\ h \notin seated'
        BY <1>1, <2>2, ToldEnds
      <3>2. WayOK(h) /\ On(h)
        BY <1>1, <1>3 DEF PauseInv, On
      <3> QED BY <2>2, <3>1, <3>2 DEF WayOK, HasEnd
    <2> QED BY <2>1, <2>2
  <1>4. \A h \in Guest : ~On(h)' => WayOK(h)'
    BY DEF WayOK
  <1> QED BY <1>2, <1>3, <1>4 DEF PauseInv

LEMMA InitPause == Init => PauseInv
  <1> SUFFICES ASSUME Init PROVE PauseInv
    OBVIOUS
  <1>1. Len(<<>>) = 0 /\ <<>> \in Seq(Message)
    BY EmptySeq
  <1>2. Closed(<<>>)
    BY <1>1 DEF Closed
  <1>3. <<>> \o <<>> = <<>>
    BY <1>1, ConcatEmptySeq
  <1>4. \A g \in Guest : ~guest[g].paused
    BY DEF Init, Playing
  <1> QED BY <1>2, <1>3, <1>4 DEF Init, PauseInv, WayOK, Peer

LEMMA NextPause == TypeOK /\ PauseInv /\ [Next]_vars => PauseInv'
  <1> SUFFICES ASSUME TypeOK, PauseInv, [Next]_vars PROVE PauseInv'
    OBVIOUS
  <1>1. CASE Store \/ UNCHANGED vars
    BY <1>1 DEF Store, vars, links, PauseInv, WayOK, On, HasEnd, Answered, Coming, Assembles
  <1>2. CASE Forward
    BY <1>2, ForwardEnds
  <1>3. CASE CutHost
    BY <1>3, CutHostEnds
  <1>4. ASSUME NEW g \in Guest, HandleRequest(g) \/ AskForResync(g) PROVE PauseInv'
    BY <1>4, AnswerEnds, AskEnds
  <1>5. ASSUME NEW g \in Guest, Receive(g) PROVE PauseInv'
    <2>1. CASE RecvBegin(g) \/ RecvChunk(g)
      BY <2>1, RecvBeginEnds, RecvChunkEnds
    <2>2. CASE RecvCommit(g)
      <3>1. CASE Fail(g)
        BY <3>1, FailEnds
      <3>2. CASE /\ Take(g, "commit")
                 /\ guest' = IF Assembles(g, Head(down[g]))
                             THEN [guest EXCEPT ![g].assembler = None,
                                                ![g].pending = guest[g].assembler.got,
                                                ![g].paused = TRUE, ![g].deadline = TRUE]
                             ELSE guest
        BY <3>2, RecvCommitEnds
      <3> QED BY <2>2, <3>1, <3>2 DEF RecvCommit
    <2>3. CASE RecvLeft(g) \/ RecvState(g)
      BY <2>3, RecvNoticeEnds
    <2> QED BY <1>5, <2>1, <2>2, <2>3 DEF Receive
  <1>6. ASSUME NEW g \in Guest, Apply(g) \/ DeadlineExpires(g) PROVE PauseInv'
    BY <1>6, ApplyEnds, FailEnds DEF DeadlineExpires
  <1>7. ASSUME NEW g \in Guest, CutGuest(g) \/ Prune(g) PROVE PauseInv'
    BY <1>7, CutGuestEnds, PruneEnds
  <1>8. ASSUME NEW p \in Peer, Rejoin(p) PROVE PauseInv'
    BY <1>8, RejoinEnds
  <1> QED BY <1>1, <1>2, <1>3, <1>4, <1>5, <1>6, <1>7, <1>8 DEF Next

\* Nobody is paused for ever, whatever links break and come back: a seat to
\* rejoin, a deadline, a departure, a snapshot to apply or a whole stream is on
\* its way, unless the request was one that the code drops
\* (_handle_resync_request without a snapshot, _forward_room_message without a
\* host).
THEOREM PausesHaveEnds == Spec => []PauseHasEnd
  <1>1. PauseInv => PauseHasEnd
    BY DEF PauseInv, HasEnd, Answered, PauseHasEnd
  <1> QED BY <1>1, InitType, NextType, InitPause, NextPause, PTL DEF Spec

=============================================================================
