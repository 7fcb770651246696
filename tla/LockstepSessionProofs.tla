------------------------- MODULE LockstepSessionProofs -------------------------
(***************************************************************************)
(* Proofs about LockstepSession, for every set of clients, every size of   *)
(* the lobby, all timeouts and any number of links that break.             *)
(***************************************************************************)
EXTENDS LockstepSession, FiniteSetTheorems, SequenceTheorems, TLAPS

-----------------------------------------------------------------------------
(* The invariant.                                                          *)

\* What the host has told a client, of the seats that there are.
Told == {Welcome(s) : s \in Slot}
        \cup {Note(k) : k \in {"reject", "state", "start", "pause", "resume", "frame", "disconnect"}}

Starts(q) == \E i \in 1..Len(q) : q[i] = Note("start")

Seat == [slot : Slot, ready : BOOLEAN, got : 1..2, again : BOOLEAN]

\* The types of the variables, in four parts; a Welcome names a seat.
HostTypes ==
  /\ playerCount \in PlayerCounts
  /\ hostPhase \in Phase \ {"new", "joining"}
  /\ seen \subseteq Slot /\ fresh \subseteq Client
  /\ stalled \in BOOLEAN /\ idle \in 0..1
ClientTypes ==
  /\ phase \in [Client -> Phase]
  /\ slot \in [Client -> Slot \cup {None}]
  /\ pend \in [Client -> SUBSET ({Hello} \cup {Ready(s) : s \in Slot})]
  /\ sawFrame \in [Client -> BOOLEAN]
  /\ toldPause \in [Client -> BOOLEAN]
  /\ lines \in [Client -> BOOLEAN]
LinkTypes ==
  /\ toClient \in [Client -> Seq(Told)]
  /\ word \in [Client -> {None, "alive", "empty", "input"}]
  /\ alive \subseteq up /\ up \subseteq Client
TimeTypes ==
  /\ hostSilence \in [Client -> 0..PausePatience]
  /\ silence \in [Client -> 0..PausePatience]
  /\ moved \subseteq Program /\ load \in [Program -> 0..LoadTime]
  /\ hurt \subseteq Client /\ lost \subseteq Client

\* Each peer has a seat of its own.
PeersOK(ps) ==
  /\ DOMAIN ps \subseteq Client
  /\ \A c \in DOMAIN ps : ps[c] \in Seat
  /\ \A a, b \in DOMAIN ps : ps[a].slot = ps[b].slot => a = b

\* A client is ready for the seat that it knows it has, so a peer that is ready
\* knows the seat that the host has given it.
PendOwn == \A c \in Client : pend[c] \subseteq {Hello, Ready(slot[c])}
ReadyOwn == \A c \in Known : peers[c].ready => slot[c] = peers[c].slot

\* In a match every seat is taken, by a peer that is ready.
Complete ==
  InMatch => (\A c \in Known : peers[c].ready) /\ {peers[c].slot : c \in Known} = Slot

\* Only the peers of a match have been told to start.
StartsTold ==
  On(Host) =>
    \A c \in Client : phase[c] \in MatchPhase \/ Starts(toClient[c]) => InMatch /\ c \in Known

Types == HostTypes /\ ClientTypes /\ LinkTypes /\ TimeTypes
Seats == PeersOK(peers) /\ PendOwn /\ ReadyOwn /\ Complete
SessionInv == Types /\ Seats /\ StartsTold

-----------------------------------------------------------------------------
(* Seats, messages, queues.                                                *)

LEMMA Patiences ==
  /\ LinkPatience \in Nat /\ LoadPatience \in Nat /\ PausePatience \in Nat /\ LoadTime \in Nat
  /\ 1 < LinkPatience /\ LinkPatience < LoadPatience /\ LoadPatience < PausePatience
  /\ LoadTime + 1 < LoadPatience /\ Host \notin Client
  BY SessionAssumption

LEMMA SlotFacts ==
  ASSUME playerCount \in PlayerCounts
  PROVE  /\ playerCount \in 2..4 /\ Slot \subseteq 1..3 /\ None \notin Slot
         /\ IsFiniteSet(Slot) /\ Cardinality(Slot) = playerCount - 1
  <1>1. playerCount \in 2..4 /\ None \notin 1..3
    BY SessionAssumption
  <1>2. Slot \subseteq 1..3
    BY <1>1 DEF Slot
  <1> DEFINE n == playerCount - 1
  <1>3. n \in 1..3
    BY <1>1
  <1> HIDE DEF n
  <1>4. IsFiniteSet(1..n) /\ Cardinality(1..n) = n
    <2>1. 1 \in Int /\ n \in Int
      BY <1>3
    <2>2. IsFiniteSet(1..n) /\ Cardinality(1..n) = IF 1 > n THEN 0 ELSE n - 1 + 1
      BY <2>1, FS_Interval
    <2> QED BY <1>3, <2>2
  <1> QED BY <1>1, <1>2, <1>4 DEF Slot, n

LEMMA MessageFacts ==
  /\ \A s, t : Ready(s) = Ready(t) => s = t
  /\ \A s : Ready(s) # Hello
  /\ \A s : Welcome(s)[1] = "welcome" /\ Welcome(s)[2] = s /\ Welcome(s) # Note("start")
  /\ \A k : Note(k)[1] = k
  /\ \A k : Note(k) = Note("start") => k = "start"
  BY DEF Ready, Hello, Welcome, Note

LEMMA ToldFacts ==
  ASSUME NEW m \in Told
  PROVE  /\ m[1] = "welcome" => m[2] \in Slot
         /\ m[1] = "start" <=> m = Note("start")
  BY MessageFacts DEF Told

\* A queue to which a message was added, unless it ends in the same message.
LEMMA QueueFacts ==
  ASSUME NEW q \in Seq(Told), NEW m \in Told
  PROVE  /\ Queue(q, m) \in Seq(Told) /\ Queue(q, m) # << >>
         /\ Starts(Queue(q, m)) => Starts(q) \/ m = Note("start")
  <1> DEFINE a == Append(q, m)
  <1>1. /\ a \in Seq(Told) /\ Len(a) = Len(q) + 1 /\ a[Len(q) + 1] = m /\ a # << >>
        /\ \A i \in 1..Len(q) : a[i] = q[i]
        /\ Len(q) \in Nat
    BY AppendProperties, LenProperties
  <1>2. Starts(a) => Starts(q) \/ m = Note("start")
    <2> SUFFICES ASSUME NEW i \in 1..Len(a), a[i] = Note("start") PROVE Starts(q) \/ m = Note("start")
      BY DEF Starts
    <2> HIDE DEF a
    <2>1. i \in 1..Len(q) \/ i = Len(q) + 1
      BY <1>1
    <2> QED BY <1>1, <2>1 DEF Starts
  <1> QED BY <1>1, <1>2 DEF Queue

\* The queues after a message to some of the clients.
LEMMA ToAllFacts ==
  ASSUME NEW qs \in [Client -> Seq(Told)], NEW cs, NEW m \in Told
  PROVE  /\ ToAll(qs, cs, m) \in [Client -> Seq(Told)]
         /\ \A c \in Client : c \notin cs => ToAll(qs, cs, m)[c] = qs[c]
         /\ \A c \in Client : Starts(ToAll(qs, cs, m)[c]) =>
              Starts(qs[c]) \/ (m = Note("start") /\ c \in cs)
  <1>1. \A c \in Client : qs[c] \in Seq(Told) /\ Queue(qs[c], m) \in Seq(Told)
    BY QueueFacts
  <1>2. \A c \in Client : Starts(Queue(qs[c], m)) => Starts(qs[c]) \/ m = Note("start")
    BY QueueFacts
  <1> QED BY <1>1, <1>2 DEF ToAll

\* The head of a queue, and the rest of it.
LEMMA HeadFacts ==
  ASSUME NEW q \in Seq(Told), q # << >>
  PROVE  /\ Head(q) \in Told /\ Tail(q) \in Seq(Told)
         /\ Starts(Tail(q)) \/ Head(q) = Note("start") => Starts(q)
  <1>1. /\ Tail(q) \in Seq(Told) /\ Len(Tail(q)) = Len(q) - 1 /\ Head(q) = q[1] /\ Head(q) \in Told
        /\ \A i \in 1..Len(Tail(q)) : Tail(q)[i] = q[i + 1]
        /\ Len(q) \in Nat /\ Len(q) >= 1
    BY HeadTailProperties, LenProperties, EmptySeq
  <1>2. ASSUME Starts(Tail(q)) PROVE Starts(q)
    <2>1. PICK i \in 1..Len(Tail(q)) : Tail(q)[i] = Note("start")
      BY <1>2 DEF Starts
    <2>2. i + 1 \in 1..Len(q) /\ q[i + 1] = Note("start")
      BY <1>1, <2>1
    <2> QED BY <2>2 DEF Starts
  <1>3. Head(q) = Note("start") => Starts(q)
    BY <1>1 DEF Starts
  <1> QED BY <1>1, <1>2, <1>3

LEMMA EmptyStarts == ~Starts(<< >>) /\ << >> \in Seq(Told)
  <1>1. Len(<< >>) = 0
    OBVIOUS
  <1>2. << >> \in Seq(Told)
    <2> DEFINE T == Told
    <2> HIDE DEF T
    <2>1. << >> \in Seq(T)
      OBVIOUS
    <2> QED BY <2>1 DEF T
  <1> QED BY <1>1, <1>2 DEF Starts

LEMMA OneMessage ==
  ASSUME NEW m \in Told
  PROVE  <<m>> \in Seq(Told) /\ (Starts(<<m>>) => m = Note("start"))
  <1> DEFINE T == Told
  <1>1. m \in T
    OBVIOUS
  <1> HIDE DEF T
  <1>2. <<m>> \in Seq(T) /\ Len(<<m>>) = 1 /\ <<m>>[1] = m
    BY <1>1
  <1> QED BY <1>2 DEF T, Starts

\* As many peers as there are seats have all of them.
LEMMA AllSeatsTaken ==
  ASSUME playerCount \in PlayerCounts, PeersOK(peers),
         NEW cs \in SUBSET Known, Cardinality(cs) >= playerCount - 1
  PROVE  {peers[c].slot : c \in cs} = Slot
  <1> DEFINE f == [c \in cs |-> peers[c].slot]
  <1>1. f \in Injection(cs, Slot)
    <2>1. f \in [cs -> Slot]
      BY DEF PeersOK, Seat, Known
    <2>2. \A a, b \in cs : f[a] = f[b] => a = b
      BY DEF PeersOK, Known
    <2> QED BY <2>1, <2>2 DEF Injection, IsInjective
  <1> HIDE DEF f
  <1>2. /\ IsFiniteSet(cs) /\ Cardinality(cs) <= Cardinality(Slot)
        /\ Cardinality(cs) = Cardinality(Slot) => f \in Surjection(cs, Slot)
    BY <1>1, SlotFacts, FS_Injection
  <1>3. Cardinality(cs) = Cardinality(Slot)
    BY <1>2, SlotFacts, FS_CardinalityType
  <1>4. \A s \in Slot : \E c \in cs : f[c] = s
    BY <1>2, <1>3 DEF Surjection
  <1> QED BY <1>4 DEF f, PeersOK, Seat, Known

LEMMA LowestExists ==
  ASSUME NEW S \in SUBSET (1..3), S # {}
  PROVE  \E s \in S : \A t \in S : s <= t
  <1>1. PICK x \in S : TRUE
    OBVIOUS
  <1>2. \A s \in S : s = 1 \/ s = 2 \/ s = 3
    OBVIOUS
  <1>3. CASE 1 \in S
    BY <1>2, <1>3
  <1>4. CASE 1 \notin S /\ 2 \in S
    BY <1>2, <1>4
  <1>5. CASE 1 \notin S /\ 2 \notin S
    <2>1. x = 3 /\ \A t \in S : t = 3
      BY <1>1, <1>2, <1>5
    <2> QED BY <1>1, <2>1
  <1> QED BY <1>3, <1>4, <1>5

\* The seat for the next peer.
LEMMA FreeSeat ==
  ASSUME playerCount \in PlayerCounts, Free # {}
  PROVE  /\ Lowest(Free) \in Slot
         /\ \A c \in Known : peers[c].slot # Lowest(Free)
  <1>1. Free \subseteq 1..3
    BY SlotFacts DEF Free
  <1>2. \E s \in Free : \A t \in Free : s <= t
    BY <1>1, LowestExists
  <1>3. Lowest(Free) \in Free
    BY <1>2 DEF Lowest
  <1> QED BY <1>3 DEF Free

LEMMA TypesOK == Types /\ PeersOK(peers) => TypeOK
  <1> SUFFICES ASSUME Types, PeersOK(peers) PROVE TypeOK
    OBVIOUS
  <1>1. Told \subseteq HostMessage
    BY SlotFacts DEF Types, HostTypes, Told, HostMessage
  <1>2. toClient \in [Client -> Seq(HostMessage)]
    <2>1. ASSUME NEW c \in Client PROVE toClient[c] \in Seq(HostMessage)
      BY <1>1 DEF Types, LinkTypes
    <2> QED BY <2>1 DEF Types, LinkTypes
  <1>3. \A c \in Known : peers[c] \in [slot : Slot, ready : BOOLEAN, got : 1..2, again : BOOLEAN]
    BY DEF PeersOK, Known, Seat
  <1>4. Known \subseteq Client
    BY DEF PeersOK, Known
  <1>5. {sawFrame, toldPause, lines} \subseteq [Client -> BOOLEAN]
    BY DEF Types, ClientTypes
  <1>6. {hostSilence, silence} \subseteq [Client -> 0..PausePatience] /\ {hurt, lost} \subseteq SUBSET Client
    BY DEF Types, TimeTypes
  <1> QED BY <1>2, <1>3, <1>4, <1>5, <1>6 DEF TypeOK, Types, HostTypes, ClientTypes, LinkTypes, TimeTypes

-----------------------------------------------------------------------------
(* One lemma per action: the host.                                         *)

\* What does not change with the number of players.
LEMMA SameSeats ==
  ASSUME playerCount' = playerCount
  PROVE  Slot' = Slot /\ Told' = Told /\ Seat' = Seat /\ Program' = Program
  BY DEF Slot, Told, Seat, Program, Welcome, Note

LEMMA HostReadsHelloKeeps ==
  ASSUME SessionInv, NEW c \in Client, HostReadsHello(c)
  PROVE  SessionInv'
  <1> USE DEF SessionInv, Types, Seats
  <1> DEFINE away == InMatch \/ Free = {}
             s == Lowest(Free)
             new == [slot |-> s, ready |-> FALSE, got |-> 1, again |-> slot[c] # None]
             m == IF away THEN Note("reject") ELSE Welcome(s)
             qs == [toClient EXCEPT ![c] = <<m>>]
  <1>1. /\ c \notin Known /\ toClient' = ToAll(qs, Known, Note("state"))
        /\ pend' = [pend EXCEPT ![c] = IF away THEN {} ELSE pend[c]]
        /\ hostSilence' = [hostSilence EXCEPT ![c] = 0]
        /\ away => peers' = peers
        /\ ~away => peers' = [q \in Known \cup {c} |-> IF q = c THEN new ELSE peers[q]]
    BY DEF HostReadsHello
  <1>2. UNCHANGED <<playerCount, hostPhase, seen, fresh, stalled, idle, phase, slot, sawFrame,
                    toldPause, lines, word, alive, up, silence, moved, load, hurt, lost>>
    BY DEF HostReadsHello
  <1>3. Slot' = Slot /\ Told' = Told /\ Seat' = Seat /\ Program' = Program
    BY <1>2, SameSeats
  <1>4. ~away => s \in Slot /\ \A d \in Known : peers[d].slot # s
    BY FreeSeat DEF HostTypes
  <1> HIDE DEF s
  <1>5. m \in Told /\ Note("state") \in Told /\ m # Note("start") /\ Note("state") # Note("start")
    BY <1>4, MessageFacts DEF Told
  <1> HIDE DEF m
  <1>6. qs \in [Client -> Seq(Told)] /\ \A d \in Client : Starts(qs[d]) => d # c /\ Starts(toClient[d])
    BY <1>5, OneMessage DEF LinkTypes
  <1> HIDE DEF qs
  <1>7. /\ toClient' \in [Client -> Seq(Told)]
        /\ \A d \in Client : Starts(toClient'[d]) => Starts(toClient[d])
    BY <1>1, <1>5, <1>6, ToAllFacts
  <1>8. HostTypes'
    BY <1>2, <1>3 DEF HostTypes
  <1>9. ClientTypes'
    BY <1>1, <1>2, <1>3 DEF ClientTypes
  <1>10. LinkTypes'
    BY <1>2, <1>3, <1>7 DEF LinkTypes
  <1>11. TimeTypes'
    <2>1. 0 \in 0..PausePatience
      BY Patiences
    <2> QED BY <1>1, <1>2, <1>3, <2>1 DEF TimeTypes
  <1>12. PeersOK(peers)'
    <2>1. CASE away
      BY <1>1, <1>3, <2>1 DEF PeersOK
    <2>2. CASE ~away
      <3>1. new \in Seat
        BY <1>4, <2>2 DEF Seat
      <3>2. DOMAIN peers' = Known \cup {c} /\ \A d \in Known : d # c /\ peers'[d] = peers[d]
        BY <1>1, <2>2
      <3>3. peers'[c] = new /\ new.slot = s
        BY <1>1, <2>2
      <3> HIDE DEF new
      <3>4. \A d \in DOMAIN peers' : peers'[d] \in Seat /\ d \in Client
        BY <3>1, <3>2, <3>3 DEF PeersOK, Known
      <3>5. \A a, b \in DOMAIN peers' : peers'[a].slot = peers'[b].slot => a = b
        BY <1>4, <2>2, <3>2, <3>3 DEF PeersOK, Known
      <3> QED BY <1>3, <3>4, <3>5 DEF PeersOK
    <2> QED BY <2>1, <2>2
  <1>13. PendOwn'
    BY <1>1, <1>2 DEF PendOwn, ClientTypes, Ready
  <1>14. ReadyOwn' /\ Complete'
    <2>1. CASE away
      BY <1>1, <1>2, <1>3, <2>1 DEF ReadyOwn, Complete, Known, InMatch
    <2>2. CASE ~away
      <3>1. \A d \in Known' : peers'[d].ready => d \in Known /\ peers'[d] = peers[d]
        BY <1>1, <2>2 DEF Known
      <3> QED BY <1>2, <2>2, <3>1 DEF ReadyOwn, Complete, InMatch
    <2> QED BY <2>1, <2>2
  <1>15. StartsTold'
    <2>1. InMatch => Known' = Known
      BY <1>1 DEF Known
    <2> QED BY <1>2, <1>7, <2>1 DEF StartsTold, On, InMatch
  <1> QED BY <1>8, <1>9, <1>10, <1>11, <1>12, <1>13, <1>14, <1>15

LEMMA HostReadsKeeps ==
  ASSUME SessionInv, NEW c \in Client, HostReads(c)
  PROVE  SessionInv'
  <1> USE DEF SessionInv, Types, Seats
  <1> DEFINE r == peers[c].ready \/ \E m \in Unread(c) : Accepts(c, m)
  <1>1. /\ c \in Known
        /\ hostSilence' = [hostSilence EXCEPT ![c] = 0]
        /\ \/ /\ peers' = [peers EXCEPT ![c].got = 2, ![c].ready = r]
              /\ toClient' = ToAll(toClient, Known, Note("state"))
           \/ peers' = peers /\ toClient' = toClient
        /\ seen' = IF InMatch /\ word[c] \in {"empty", "input"}
                   THEN seen \cup {peers[c].slot} ELSE seen
        /\ fresh' = IF InMatch /\ word[c] = "input" THEN fresh \cup {c} ELSE fresh
        /\ word' = [word EXCEPT ![c] = None]
    BY DEF HostReads
  <1>2. UNCHANGED <<playerCount, hostPhase, stalled, idle, phase, slot, pend, sawFrame, toldPause,
                    lines, alive, up, silence, moved, load, hurt, lost>>
    BY DEF HostReads, clientVars
  <1>3. Slot' = Slot /\ Told' = Told /\ Seat' = Seat /\ Program' = Program
    BY <1>2, SameSeats
  <1>4. /\ peers[c] \in Seat /\ c \in DOMAIN peers /\ r \in BOOLEAN
        /\ r => peers[c].ready \/ slot[c] = peers[c].slot
        /\ peers[c].ready => r
    <2>1. ASSUME NEW m \in Unread(c), Accepts(c, m) PROVE slot[c] = peers[c].slot
      <3>1. m \in pend[c] /\ m = Ready(peers[c].slot)
        BY <1>1, <2>1 DEF Unread, Accepts
      <3> QED BY <3>1, MessageFacts DEF PendOwn
    <2>2. peers[c] \in Seat /\ peers[c].ready \in BOOLEAN
      BY <1>1 DEF PeersOK, Known, Seat
    <2> QED BY <1>1, <2>1, <2>2 DEF Known
  <1> HIDE DEF r
  <1>5. /\ DOMAIN peers' = DOMAIN peers /\ \A d \in DOMAIN peers : d # c => peers'[d] = peers[d]
        /\ peers'[c] \in Seat /\ peers'[c].slot = peers[c].slot
        /\ peers'[c].ready = peers[c].ready \/ peers'[c].ready = r
        /\ peers[c].ready => peers'[c].ready
    <2>1. CASE peers' = peers
      BY <1>4, <2>1
    <2>2. CASE peers' = [peers EXCEPT ![c].got = 2, ![c].ready = r]
      <3>1. peers'[c] = [peers[c] EXCEPT !.got = 2, !.ready = r]
        BY <1>4, <2>2
      <3>3. 2 \in 1..2
        OBVIOUS
      <3>4. [peers[c] EXCEPT !.got = 2, !.ready = r] \in Seat
        BY <1>4, <3>3 DEF Seat
      <3>5. /\ [peers[c] EXCEPT !.got = 2, !.ready = r].slot = peers[c].slot
            /\ [peers[c] EXCEPT !.got = 2, !.ready = r].ready = r
        BY <1>4 DEF Seat
      <3> QED BY <1>4, <2>2, <3>1, <3>4, <3>5
    <2> QED BY <1>1, <2>1, <2>2
  <1>6. /\ toClient' \in [Client -> Seq(Told)]
        /\ \A d \in Client : Starts(toClient'[d]) => Starts(toClient[d])
    <2>1. Note("state") \in Told /\ Note("state") # Note("start")
      BY MessageFacts DEF Told
    <2>2. toClient \in [Client -> Seq(Told)]
      BY DEF LinkTypes
    <2> DEFINE qs == ToAll(toClient, Known, Note("state"))
    <2>3. toClient' = qs \/ toClient' = toClient
      <3>1. CASE Unread(c) # {}
        BY <3>1 DEF HostReads
      <3>2. CASE Unread(c) = {}
        BY <3>2 DEF HostReads
      <3> QED BY <3>1, <3>2
    <2>4. qs \in [Client -> Seq(Told)] /\ \A d \in Client : Starts(qs[d]) => Starts(toClient[d])
      BY <2>1, <2>2, ToAllFacts
    <2> HIDE DEF qs
    <2> QED BY <2>2, <2>3, <2>4
  <1>7. HostTypes'
    <2>1. peers[c].slot \in Slot
      BY <1>4 DEF Seat
    <2> QED BY <1>1, <1>2, <1>3, <2>1 DEF HostTypes
  <1>8. ClientTypes'
    BY <1>2, <1>3 DEF ClientTypes
  <1>9. LinkTypes'
    BY <1>1, <1>2, <1>3, <1>6 DEF LinkTypes
  <1>10. TimeTypes'
    <2>1. 0 \in 0..PausePatience
      BY Patiences
    <2> QED BY <1>1, <1>2, <1>3, <2>1 DEF TimeTypes
  <1>11. \A d \in DOMAIN peers : peers'[d] \in Seat /\ peers'[d].slot = peers[d].slot
    BY <1>5 DEF PeersOK
  <1>12. PeersOK(peers)'
    BY <1>3, <1>5, <1>11 DEF PeersOK
  <1>13. PendOwn'
    BY <1>2 DEF PendOwn, Ready
  <1>14. ReadyOwn'
    BY <1>2, <1>4, <1>5, <1>11 DEF ReadyOwn, Known
  <1>15. Complete'
    <2>1. Known' = Known /\ {peers'[d].slot : d \in Known} = {peers[d].slot : d \in Known}
      BY <1>5, <1>11 DEF Known
    <2>2. \A d \in Known : peers[d].ready => peers'[d].ready
      BY <1>5 DEF Known
    <2> QED BY <1>2, <1>3, <2>1, <2>2 DEF Complete, InMatch
  <1>16. StartsTold'
    BY <1>2, <1>5, <1>6 DEF StartsTold, On, InMatch, Known
  <1> QED BY <1>7, <1>8, <1>9, <1>10, <1>12, <1>13, <1>14, <1>15, <1>16

\* What the host does at the end of a poll, in the lobby and in the match.
LEMMA HostMovesFacts ==
  ASSUME SessionInv, HostMoves
  PROVE  /\ UNCHANGED <<playerCount, clientVars, word, up, silence, load, hurt>>
         /\ TimeTypes' /\ PeersOK(peers)' /\ ClientTypes'
         /\ Present \in SUBSET Known /\ Known' = Present /\ \A c \in Present : peers'[c] = peers[c]
         /\ PendOwn' /\ ReadyOwn'
  <1> USE DEF SessionInv, Types, Seats
  <1>1. /\ moved' = moved \cup {Host}
        /\ hostSilence' = [c \in Client |-> IF c \in Present /\ ~Heard(c) THEN hostSilence[c] ELSE 0]
        /\ lost' = lost \cup Silent
        /\ peers' = [x \in Present |-> peers[x]]
        /\ UNCHANGED <<playerCount, clientVars, word, up, silence, load, hurt>>
    BY DEF HostMoves, Restrict
  <1>2. Slot' = Slot /\ Told' = Told /\ Seat' = Seat /\ Program' = Program
    BY <1>1, SameSeats
  <1>3. Present \in SUBSET Known /\ Known' = Present /\ \A c \in Present : peers'[c] = peers[c]
    BY <1>1 DEF Present, Known
  <1>4. TimeTypes'
    <2>1. 0 \in 0..PausePatience /\ Host \in Program /\ Silent \subseteq Client
      BY Patiences DEF Program, Silent, PeersOK, Known
    <2> QED BY <1>1, <1>2, <2>1 DEF TimeTypes
  <1>5. PeersOK(peers)'
    BY <1>2, <1>3 DEF PeersOK, Known
  <1>6. ClientTypes' /\ PendOwn'
    BY <1>1, <1>2 DEF clientVars, ClientTypes, PendOwn, Ready
  <1>7. ReadyOwn'
    BY <1>1, <1>3 DEF ReadyOwn, clientVars
  <1> QED BY <1>1, <1>3, <1>4, <1>5, <1>6, <1>7

LEMMA HostInLobbyKeeps ==
  ASSUME SessionInv, HostInLobby
  PROVE  SessionInv'
  <1> USE DEF SessionInv, Types, Seats
  <1> DEFINE go == AllReady(Present)
             qs == [c \in Client |-> IF c \in Silent \ up THEN << >> ELSE toClient[c]]
             m == Note(IF go THEN "start" ELSE "state")
  <1>1. /\ hostPhase = "lobby" /\ HostMoves
        /\ hostPhase' = IF go THEN "started" ELSE "lobby"
        /\ toClient' = ToAll(qs, Present, m)
        /\ idle' = 0
        /\ UNCHANGED <<seen, fresh, stalled, alive>>
    BY DEF HostInLobby
  <1>2. /\ UNCHANGED <<playerCount, clientVars, word, up, silence, load, hurt>>
        /\ TimeTypes' /\ PeersOK(peers)' /\ ClientTypes'
        /\ Present \in SUBSET Known /\ Known' = Present /\ \A c \in Present : peers'[c] = peers[c]
        /\ PendOwn' /\ ReadyOwn'
    BY <1>1, HostMovesFacts
  <1>3. Slot' = Slot /\ Told' = Told /\ Seat' = Seat /\ Program' = Program
    BY <1>2, SameSeats
  <1>4. HostTypes'
    BY <1>1, <1>2, <1>3 DEF HostTypes, Phase
  <1>5. m \in Told /\ (m = Note("start") => go)
    BY MessageFacts DEF Told
  <1>6. qs \in [Client -> Seq(Told)] /\ \A c \in Client : Starts(qs[c]) => Starts(toClient[c])
    BY EmptyStarts DEF LinkTypes
  <1> HIDE DEF m, qs
  <1>7. /\ toClient' \in [Client -> Seq(Told)]
        /\ \A c \in Client : Starts(toClient'[c]) => Starts(toClient[c]) \/ (go /\ c \in Present)
    BY <1>1, <1>5, <1>6, ToAllFacts
  <1>8. LinkTypes'
    BY <1>1, <1>2, <1>3, <1>7 DEF LinkTypes
  <1>9. \A c \in Client : ~Starts(toClient[c]) /\ phase[c] \notin MatchPhase
    BY <1>1 DEF StartsTold, On, InMatch, MatchPhase
  <1>10. StartsTold'
    BY <1>1, <1>2, <1>7, <1>9 DEF StartsTold, InMatch, MatchPhase, clientVars
  <1>11. Complete'
    <2> SUFFICES ASSUME InMatch'
                 PROVE  (\A c \in Known' : peers'[c].ready) /\ {peers'[c].slot : c \in Known'} = Slot
      BY <1>3 DEF Complete
    <2>1. go
      BY <1>1 DEF InMatch, MatchPhase
    <2>2. Cardinality(Present) >= playerCount - 1 /\ \A c \in Present : peers[c].ready
      BY <2>1 DEF AllReady
    <2>3. {peers[c].slot : c \in Present} = Slot
      BY <1>2, <2>2, AllSeatsTaken DEF HostTypes
    <2> QED BY <1>2, <2>2, <2>3
  <1> QED BY <1>2, <1>4, <1>8, <1>10, <1>11

LEMMA HostAbortsKeeps ==
  ASSUME SessionInv, HostAborts
  PROVE  SessionInv'
  <1> USE DEF SessionInv, Types, Seats
  <1> DEFINE m == Note("disconnect")  qs == ToAll(toClient, Present, m)
  <1>1. /\ HostMoves /\ hostPhase' = "over" /\ toClient' = Sent(qs)
        /\ seen' = {} /\ fresh' = {} /\ stalled' = FALSE /\ idle' = 0 /\ UNCHANGED alive
    BY DEF HostAborts
  <1>2. /\ UNCHANGED <<playerCount, clientVars, word, up, silence, load, hurt>>
        /\ TimeTypes' /\ PeersOK(peers)' /\ ClientTypes' /\ PendOwn' /\ ReadyOwn'
    BY <1>1, HostMovesFacts
  <1>3. Slot' = Slot /\ Told' = Told /\ Seat' = Seat /\ Program' = Program
    BY <1>2, SameSeats
  <1>4. m \in Told
    BY DEF Told
  <1>5. qs \in [Client -> Seq(Told)]
    BY <1>4, ToAllFacts DEF LinkTypes
  <1> HIDE DEF qs
  <1>6. toClient' \in [Client -> Seq(Told)]
    BY <1>1, <1>5, EmptyStarts DEF Sent
  <1>7. HostTypes' /\ LinkTypes'
    <2>1. hostPhase' \in Phase \ {"new", "joining"} /\ 0 \in 0..1
      BY <1>1 DEF Phase
    <2>2. HostTypes'
      BY <1>1, <1>2, <2>1 DEF HostTypes
    <2> QED BY <1>1, <1>2, <1>3, <1>6, <2>2 DEF LinkTypes
  <1>8. ~InMatch' /\ ~On(Host)'
    BY <1>1 DEF InMatch, MatchPhase, On
  <1> QED BY <1>2, <1>7, <1>8 DEF Complete, StartsTold

LEMMA HostInMatchKeeps ==
  ASSUME SessionInv, HostInMatch
  PROVE  SessionInv'
  <1> USE DEF SessionInv, Types, Seats
  <1> DEFINE ready == hostPhase = "playing" /\ fresh = Known
             resumed == IF stalled THEN ToAll(toClient, Known, Note("resume")) ELSE toClient
             pauses == ~ready /\ ~stalled /\ idle = 1
  <1>1. /\ InMatch /\ Silent = {} /\ HostMoves
        /\ toClient' = IF ready THEN ToAll(resumed, Known, Note("frame"))
                       ELSE IF pauses THEN ToAll(toClient, Known, Note("pause"))
                       ELSE toClient
        /\ stalled' = (~ready /\ (stalled \/ pauses))
        /\ idle' = IF ready THEN 0 ELSE idle
        /\ fresh' = IF ready THEN {} ELSE fresh
        /\ alive' = alive \cup (Known \cap up) \/ alive' = alive
        /\ UNCHANGED <<hostPhase, seen>>
    BY DEF HostInMatch
  <1>2. /\ UNCHANGED <<playerCount, clientVars, word, up, silence, load, hurt>>
        /\ TimeTypes' /\ PeersOK(peers)' /\ ClientTypes'
        /\ Known' = Present /\ \A c \in Present : peers'[c] = peers[c]
        /\ PendOwn' /\ ReadyOwn'
    BY <1>1, HostMovesFacts
  <1>3. Slot' = Slot /\ Told' = Told /\ Seat' = Seat /\ Program' = Program
    BY <1>2, SameSeats
  <1>4. Present = Known
    BY <1>1 DEF Present
  <1>5. /\ Note("resume") \in Told /\ Note("frame") \in Told /\ Note("pause") \in Told
        /\ Note("resume") # Note("start") /\ Note("frame") # Note("start") /\ Note("pause") # Note("start")
    BY MessageFacts DEF Told
  <1>6. resumed \in [Client -> Seq(Told)] /\ \A c \in Client : Starts(resumed[c]) => Starts(toClient[c])
    BY <1>5, ToAllFacts DEF LinkTypes
  <1> HIDE DEF resumed
  <1>7. /\ toClient' \in [Client -> Seq(Told)]
        /\ \A c \in Client : Starts(toClient'[c]) => Starts(toClient[c])
    BY <1>1, <1>5, <1>6, ToAllFacts DEF LinkTypes
  <1>8. HostTypes' /\ LinkTypes'
    BY <1>1, <1>2, <1>3, <1>7 DEF HostTypes, LinkTypes
  <1>9. Complete'
    BY <1>1, <1>2, <1>3, <1>4 DEF Complete, InMatch
  <1>10. StartsTold'
    BY <1>1, <1>2, <1>4, <1>7 DEF StartsTold, On, InMatch, clientVars
  <1> QED BY <1>2, <1>8, <1>9, <1>10

-----------------------------------------------------------------------------
(* The clients.                                                            *)

LEMMA OpenKeeps ==
  ASSUME SessionInv, NEW c \in Client, Open(c)
  PROVE  SessionInv'
  <1> USE DEF SessionInv, Types, Seats
  <1>1. phase' = [phase EXCEPT ![c] = "joining"]
    BY DEF Open
  <1>2. UNCHANGED <<hostVars, slot, pend, sawFrame, toldPause, lines, toClient, word, alive, up,
                    timeVars, hurt, lost>>
    BY DEF Open
  <1>3. Slot' = Slot /\ Told' = Told /\ Seat' = Seat /\ Program' = Program
    BY <1>2, SameSeats DEF hostVars
  <1>4. HostTypes' /\ LinkTypes' /\ TimeTypes'
    BY <1>2, <1>3 DEF HostTypes, LinkTypes, TimeTypes, hostVars, timeVars
  <1>5. ClientTypes'
    BY <1>1, <1>2, <1>3 DEF ClientTypes, Phase
  <1>6. Seats'
    BY <1>2, <1>3 DEF PeersOK, PendOwn, ReadyOwn, Complete, Known, InMatch, Ready, hostVars
  <1>7. StartsTold'
    <2>1. \A d \in Client : phase'[d] \in MatchPhase => phase[d] \in MatchPhase
      BY <1>1 DEF ClientTypes, MatchPhase
    <2> QED BY <1>2, <2>1 DEF StartsTold, On, InMatch, Known, hostVars
  <1> QED BY <1>4, <1>5, <1>6, <1>7

\* The end of a client.
LEMMA OverKeeps ==
  ASSUME SessionInv, NEW c \in Client, Over(c), hurt' \subseteq Client, lost' \subseteq Client
  PROVE  SessionInv'
  <1> USE DEF SessionInv, Types, Seats
  <1>1. /\ phase' = [phase EXCEPT ![c] = "over"]
        /\ pend' = [pend EXCEPT ![c] = {}]
        /\ toClient' = [toClient EXCEPT ![c] = << >>]
        /\ alive' = alive \ {c}
        /\ silence' = [silence EXCEPT ![c] = 0]
        /\ sawFrame' = [sawFrame EXCEPT ![c] = FALSE]
        /\ toldPause' = [toldPause EXCEPT ![c] = FALSE]
        /\ lines' = [lines EXCEPT ![c] = FALSE]
    BY DEF Over
  <1>2. UNCHANGED <<hostVars, slot, word, up, hostSilence, moved, load>>
    BY DEF Over
  <1>3. Slot' = Slot /\ Told' = Told /\ Seat' = Seat /\ Program' = Program
    BY <1>2, SameSeats DEF hostVars
  <1>4. HostTypes'
    BY <1>2, <1>3 DEF HostTypes, hostVars
  <1>5. ClientTypes'
    BY <1>1, <1>2, <1>3 DEF ClientTypes, Phase
  <1>6. /\ toClient' \in [Client -> Seq(Told)]
        /\ \A d \in Client : Starts(toClient'[d]) => Starts(toClient[d])
    BY <1>1, EmptyStarts DEF LinkTypes
  <1>7. LinkTypes'
    BY <1>1, <1>2, <1>3, <1>6 DEF LinkTypes
  <1>8. TimeTypes'
    <2>1. 0 \in 0..PausePatience
      BY Patiences
    <2> QED BY <1>1, <1>2, <1>3, <2>1 DEF TimeTypes
  <1>9. Seats'
    <2>1. \A d \in Client : pend'[d] \subseteq pend[d]
      BY <1>1 DEF ClientTypes
    <2> QED BY <1>2, <1>3, <2>1 DEF PeersOK, PendOwn, ReadyOwn, Complete, Known, InMatch, Ready, hostVars
  <1>10. StartsTold'
    <2>1. \A d \in Client : phase'[d] \in MatchPhase => phase[d] \in MatchPhase
      BY <1>1 DEF ClientTypes, MatchPhase
    <2> QED BY <1>2, <1>6, <2>1 DEF StartsTold, On, InMatch, Known, hostVars
  <1> QED BY <1>4, <1>5, <1>7, <1>8, <1>9, <1>10

LEMMA TimesOutKeeps ==
  ASSUME SessionInv, NEW c \in Client, TimesOut(c)
  PROVE  SessionInv'
  <1>1. hurt' \subseteq Client /\ lost' \subseteq Client
    BY DEF TimesOut, SessionInv, Types, TimeTypes
  <1> QED BY <1>1, OverKeeps DEF TimesOut

LEMMA ClientReadsKeeps ==
  ASSUME SessionInv, NEW c \in Client, ClientReads(c)
  PROVE  SessionInv'
  <1> USE DEF SessionInv, Types, Seats
  <1> DEFINE q == toClient[c]  m == Head(q)
  <1>1. PICK dup \in Duplicate(c, m[1]) :
          LET kind == IF dup THEN "duplicate" ELSE m[1]
              taken == kind = "welcome"
          IN  IF kind \in {"reject", "disconnect"} THEN Over(c)
              ELSE /\ toClient' = [toClient EXCEPT ![c] = Tail(q)]
                   /\ silence' = [silence EXCEPT ![c] = 0]
                   /\ lines' = [lines EXCEPT ![c] = TRUE]
                   /\ phase' = [phase EXCEPT ![c] = IF taken THEN "lobby"
                                  ELSE IF kind = "start" THEN "started" ELSE phase[c]]
                   /\ slot' = [slot EXCEPT ![c] = IF taken THEN m[2] ELSE slot[c]]
                   /\ pend' = [pend EXCEPT ![c] =
                        IF taken THEN pend[c] \cup {Ready(m[2])}
                        ELSE IF m[1] # "welcome" /\ c \in Known THEN Unread(c) ELSE pend[c]]
                   /\ sawFrame' = [sawFrame EXCEPT ![c] = sawFrame[c] \/ kind = "frame"]
                   /\ toldPause' = [toldPause EXCEPT ![c] =
                        IF kind = "pause" THEN TRUE ELSE IF kind = "resume" THEN FALSE ELSE toldPause[c]]
                   /\ UNCHANGED <<hostVars, word, alive, up, hostSilence, moved, load>>
    BY DEF ClientReads
  <1>2. q # << >> /\ hurt' = hurt /\ lost' = lost
    BY DEF ClientReads
  <1> DEFINE kind == IF dup THEN "duplicate" ELSE m[1]  taken == kind = "welcome"
  <1>3. CASE kind \in {"reject", "disconnect"}
    <2>1. Over(c)
      BY <1>1, <1>3
    <2>2. hurt' \subseteq Client /\ lost' \subseteq Client
      BY <1>2 DEF TimeTypes
    <2> QED BY <2>1, <2>2, OverKeeps
  <1>4. CASE kind \notin {"reject", "disconnect"}
    <2>1. /\ toClient' = [toClient EXCEPT ![c] = Tail(q)]
          /\ silence' = [silence EXCEPT ![c] = 0]
          /\ lines' = [lines EXCEPT ![c] = TRUE]
          /\ phase' = [phase EXCEPT ![c] = IF taken THEN "lobby"
                         ELSE IF kind = "start" THEN "started" ELSE phase[c]]
          /\ slot' = [slot EXCEPT ![c] = IF taken THEN m[2] ELSE slot[c]]
          /\ pend' = [pend EXCEPT ![c] =
               IF taken THEN pend[c] \cup {Ready(m[2])}
               ELSE IF m[1] # "welcome" /\ c \in Known THEN Unread(c) ELSE pend[c]]
          /\ sawFrame' = [sawFrame EXCEPT ![c] = sawFrame[c] \/ kind = "frame"]
          /\ toldPause' = [toldPause EXCEPT ![c] =
               IF kind = "pause" THEN TRUE ELSE IF kind = "resume" THEN FALSE ELSE toldPause[c]]
          /\ UNCHANGED <<hostVars, word, alive, up, hostSilence, moved, load>>
      BY <1>1, <1>4
    <2>2. Slot' = Slot /\ Told' = Told /\ Seat' = Seat /\ Program' = Program
      BY <2>1, SameSeats DEF hostVars
    <2>3. q \in Seq(Told)
      BY DEF LinkTypes
    <2>4. m \in Told /\ Tail(q) \in Seq(Told) /\ (Starts(Tail(q)) \/ m = Note("start") => Starts(q))
      BY <1>2, <2>3, HeadFacts
    <2> HIDE DEF q, m
    <2>5. /\ taken => m[2] \in Slot /\ slot[c] = None
          /\ kind = "start" => Starts(q)
      <3>1. taken => ~dup /\ m[1] = "welcome"
        OBVIOUS
      <3>2. taken => slot[c] = None
        BY <1>1, <3>1 DEF Duplicate
      <3>3. kind = "start" => m[1] = "start"
        OBVIOUS
      <3> QED BY <2>4, <3>1, <3>2, <3>3, ToldFacts
    <2> HIDE DEF kind
    <2>6. Unread(c) \subseteq pend[c]
      BY DEF Unread
    <2>7. HostTypes'
      BY <2>1, <2>2 DEF HostTypes, hostVars
    <2>8. ClientTypes'
      <3>1. phase' \in [Client -> Phase]
        BY <2>1 DEF ClientTypes, Phase
      <3>2. slot' \in [Client -> Slot \cup {None}]
        BY <2>1, <2>5 DEF ClientTypes
      <3>3. pend' \in [Client -> SUBSET ({Hello} \cup {Ready(s) : s \in Slot})]
        <4> DEFINE P == {Hello} \cup {Ready(s) : s \in Slot}
                   x == IF taken THEN pend[c] \cup {Ready(m[2])}
                        ELSE IF m[1] # "welcome" /\ c \in Known THEN Unread(c) ELSE pend[c]
        <4>1. pend \in [Client -> SUBSET P] /\ (taken => Ready(m[2]) \in P)
          BY <2>5 DEF ClientTypes
        <4> HIDE DEF P
        <4>2. x \in SUBSET P
          BY <2>6, <4>1
        <4>3. pend' = [pend EXCEPT ![c] = x]
          BY <2>1
        <4> HIDE DEF x
        <4> QED BY <4>1, <4>2, <4>3 DEF P
      <3>4. sawFrame' \in [Client -> BOOLEAN] /\ toldPause' \in [Client -> BOOLEAN] /\ lines' \in [Client -> BOOLEAN]
        BY <2>1 DEF ClientTypes
      <3> QED BY <2>2, <3>1, <3>2, <3>3, <3>4 DEF ClientTypes, Ready
    <2>9. /\ toClient' \in [Client -> Seq(Told)]
          /\ \A d \in Client : Starts(toClient'[d]) => Starts(toClient[d])
      BY <2>1, <2>4 DEF LinkTypes, q
    <2>10. LinkTypes'
      BY <2>1, <2>2, <2>9 DEF LinkTypes
    <2>11. TimeTypes'
      <3>1. 0 \in 0..PausePatience
        BY Patiences
      <3> QED BY <1>2, <2>1, <2>2, <3>1 DEF TimeTypes
    <2>12. PeersOK(peers)' /\ Complete'
      BY <2>1, <2>2 DEF PeersOK, Complete, Known, InMatch, hostVars
    <2>13. PendOwn'
      <3>1. ASSUME NEW d \in Client, d # c PROVE pend'[d] = pend[d] /\ slot'[d] = slot[d]
        BY <2>1, <3>1 DEF ClientTypes
      <3>2. CASE taken
        <4>1. slot'[c] = m[2] /\ pend'[c] = pend[c] \cup {Ready(m[2])}
          BY <2>1, <3>2 DEF ClientTypes
        <4>2. \A s \in Slot : Ready(s) # Ready(slot[c])
          BY <2>5, <3>2, SlotFacts, MessageFacts DEF HostTypes
        <4>3. pend[c] \subseteq {Hello}
          BY <4>2 DEF PendOwn, ClientTypes
        <4> QED BY <3>1, <4>1, <4>3 DEF PendOwn, Ready
      <3>3. CASE ~taken
        <4>1. slot'[c] = slot[c] /\ pend'[c] \subseteq pend[c]
          BY <2>1, <2>6, <3>3 DEF ClientTypes
        <4> QED BY <3>1, <4>1 DEF PendOwn, Ready
      <3> QED BY <3>2, <3>3
    <2>14. ReadyOwn'
      <3> SUFFICES ASSUME NEW d \in Known, peers[d].ready PROVE slot'[d] = peers[d].slot
        BY <2>1 DEF ReadyOwn, Known, hostVars
      <3>1. slot[d] = peers[d].slot /\ peers[d].slot \in Slot /\ d \in Client
        BY DEF ReadyOwn, PeersOK, Known, Seat
      <3>2. slot[d] # None
        BY <3>1, SlotFacts DEF HostTypes
      <3>3. d = c => ~taken
        BY <2>5, <3>2
      <3> QED BY <2>1, <3>1, <3>3 DEF ClientTypes
    <2>15. StartsTold'
      <3>1. \A d \in Client : phase'[d] \in MatchPhase => phase[d] \in MatchPhase \/ Starts(toClient[d])
        BY <2>1, <2>5 DEF ClientTypes, MatchPhase, q
      <3> QED BY <2>1, <2>9, <3>1 DEF StartsTold, On, InMatch, Known, hostVars
    <2> QED BY <2>7, <2>8, <2>10, <2>11, <2>12, <2>13, <2>14, <2>15
  <1> QED BY <1>3, <1>4

LEMMA ClientHearsKeeps ==
  ASSUME SessionInv, NEW c \in Client, ClientHears(c)
  PROVE  SessionInv'
  <1> USE DEF SessionInv, Types, Seats
  <1> DEFINE x == IF c \in Known THEN Unread(c) ELSE pend[c]
  <1>1. /\ alive' = alive \ {c}
        /\ silence' = [silence EXCEPT ![c] = 0]
        /\ pend' = [pend EXCEPT ![c] = x]
    BY DEF ClientHears
  <1>2. UNCHANGED <<hostVars, phase, slot, sawFrame, toldPause, lines, toClient, word, up,
                    hostSilence, moved, load, hurt, lost>>
    BY DEF ClientHears
  <1>3. Slot' = Slot /\ Told' = Told /\ Seat' = Seat /\ Program' = Program
    BY <1>2, SameSeats DEF hostVars
  <1>4. x \subseteq pend[c]
    BY DEF Unread
  <1> HIDE DEF x
  <1>5. HostTypes' /\ LinkTypes'
    BY <1>1, <1>2, <1>3 DEF HostTypes, LinkTypes, hostVars
  <1>6. ClientTypes'
    BY <1>1, <1>2, <1>3, <1>4 DEF ClientTypes, Ready
  <1>7. TimeTypes'
    <2>1. 0 \in 0..PausePatience
      BY Patiences
    <2> QED BY <1>1, <1>2, <1>3, <2>1 DEF TimeTypes
  <1>8. Seats'
    <2>1. \A d \in Client : pend'[d] \subseteq pend[d]
      BY <1>1, <1>4 DEF ClientTypes
    <2> QED BY <1>2, <1>3, <2>1 DEF PeersOK, PendOwn, ReadyOwn, Complete, Known, InMatch, Ready, hostVars
  <1>9. StartsTold'
    BY <1>2 DEF StartsTold, On, InMatch, Known, hostVars
  <1> QED BY <1>5, <1>6, <1>7, <1>8, <1>9

LEMMA ClientMovesKeeps ==
  ASSUME SessionInv, NEW c \in Client, ClientMoves(c)
  PROVE  SessionInv'
  <1> USE DEF SessionInv, Types, Seats
  <1> DEFINE x == IF phase[c] = "joining" /\ pend[c] = {} THEN {Hello} ELSE pend[c]
             w == IF c \in up /\ Speech(c) # None THEN Speech(c) ELSE word[c]
             b == lines[c] /\ phase[c] = "joining"
  <1>1. /\ moved' = moved \cup {c}
        /\ pend' = [pend EXCEPT ![c] = x]
        /\ word' = [word EXCEPT ![c] = w]
        /\ lines' = [lines EXCEPT ![c] = b]
    BY DEF ClientMoves
  <1>2. UNCHANGED <<hostVars, phase, slot, sawFrame, toldPause, toClient, alive, up, hostSilence,
                    silence, load, hurt, lost>>
    BY DEF ClientMoves
  <1>3. Slot' = Slot /\ Told' = Told /\ Seat' = Seat /\ Program' = Program
    BY <1>2, SameSeats DEF hostVars
  <1>4. x \subseteq pend[c] \cup {Hello} /\ w \in {None, "alive", "empty", "input"} /\ b \in BOOLEAN
    BY DEF Speech, LinkTypes
  <1> HIDE DEF x, w, b
  <1>5. HostTypes'
    BY <1>2, <1>3 DEF HostTypes, hostVars
  <1>6. LinkTypes'
    BY <1>1, <1>2, <1>3, <1>4 DEF LinkTypes
  <1>7. ClientTypes'
    <2> DEFINE Q == {Hello} \cup {Ready(s) : s \in Slot}
    <2>1. pend \in [Client -> SUBSET Q] /\ Hello \in Q
      BY DEF ClientTypes
    <2> HIDE DEF Q
    <2>2. pend' \in [Client -> SUBSET Q]
      BY <1>1, <1>4, <2>1
    <2>3. Q' = Q
      BY <1>3 DEF Q, Ready, Hello
    <2> QED BY <1>1, <1>2, <1>3, <1>4, <2>2, <2>3 DEF ClientTypes, Q
  <1>8. TimeTypes'
    BY <1>1, <1>2, <1>3 DEF TimeTypes, Program
  <1>9. Seats'
    <2>1. PendOwn'
      <3>1. \A d \in Client : pend'[d] \subseteq pend[d] \cup {Hello}
        BY <1>1, <1>4 DEF ClientTypes
      <3> QED BY <1>2, <3>1 DEF PendOwn, Ready, Hello
    <2> QED BY <1>2, <1>3, <2>1 DEF PeersOK, ReadyOwn, Complete, Known, InMatch, hostVars
  <1>10. StartsTold'
    BY <1>2 DEF StartsTold, On, InMatch, Known, hostVars
  <1> QED BY <1>5, <1>6, <1>7, <1>8, <1>9, <1>10

-----------------------------------------------------------------------------
(* Loading, time and faults.                                               *)

\* A program goes from one phase of a match to the next.
LEMMA SetPhaseFacts ==
  ASSUME SessionInv, NEW p \in Program, NEW ph \in {"loading", "playing"},
         PhaseOf(p) \in MatchPhase, SetPhase(p, ph),
         UNCHANGED <<playerCount, peers, seen, fresh, stalled, idle, slot, pend, sawFrame, toldPause,
                     lines, toClient, word, alive, up, hostSilence, silence, moved, hurt, lost>>,
         load' \in [Program -> 0..LoadTime]
  PROVE  SessionInv'
  <1> USE DEF SessionInv, Types, Seats
  <1>1. Slot' = Slot /\ Told' = Told /\ Seat' = Seat /\ Program' = Program
    BY SameSeats
  <1>2. /\ hostPhase' \in Phase \ {"new", "joining"} /\ phase' \in [Client -> Phase]
        /\ InMatch' = InMatch /\ On(Host)' = On(Host)
        /\ \A c \in Client : phase'[c] \in MatchPhase => phase[c] \in MatchPhase
    <2>1. CASE p = Host
      <3>1. hostPhase' = ph /\ phase' = phase /\ hostPhase \in MatchPhase
        BY <2>1 DEF SetPhase, PhaseOf
      <3> QED BY <3>1 DEF HostTypes, ClientTypes, Phase, MatchPhase, InMatch, On
    <2>2. CASE p # Host
      <3>1. p \in Client /\ phase' = [phase EXCEPT ![p] = ph] /\ phase[p] \in MatchPhase /\ hostPhase' = hostPhase
        BY <2>2 DEF SetPhase, PhaseOf, Program, hostVars
      <3> QED BY <3>1 DEF HostTypes, ClientTypes, Phase, MatchPhase, InMatch, On
    <2> QED BY <2>1, <2>2
  <1>3. HostTypes' /\ LinkTypes'
    BY <1>1, <1>2 DEF HostTypes, LinkTypes
  <1>4. ClientTypes'
    BY <1>1, <1>2 DEF ClientTypes
  <1>5. TimeTypes'
    BY <1>1 DEF TimeTypes
  <1>6. PeersOK(peers)' /\ PendOwn' /\ ReadyOwn'
    BY <1>1 DEF PeersOK, PendOwn, ReadyOwn, Known, Ready
  <1>7. Complete'
    BY <1>1, <1>2 DEF Complete, Known
  <1>8. StartsTold'
    BY <1>2 DEF StartsTold, Known
  <1> QED BY <1>3, <1>4, <1>5, <1>6, <1>7, <1>8

LEMMA BeginLoadKeeps ==
  ASSUME SessionInv, NEW p \in Program, BeginLoad(p)
  PROVE  SessionInv'
  <1>1. PhaseOf(p) \in MatchPhase /\ SetPhase(p, "loading")
    BY DEF BeginLoad, MatchPhase
  <1>2. UNCHANGED <<playerCount, peers, seen, fresh, stalled, idle, slot, pend, sawFrame, toldPause,
                    lines, toClient, word, alive, up, hostSilence, silence, moved, load, hurt, lost>>
    BY DEF BeginLoad, timeVars
  <1>3. load' \in [Program -> 0..LoadTime]
    BY <1>2 DEF SessionInv, Types, TimeTypes
  <1> QED BY <1>1, <1>2, <1>3, SetPhaseFacts

LEMMA EnterGameplayKeeps ==
  ASSUME SessionInv, NEW p \in Program, EnterGameplay(p)
  PROVE  SessionInv'
  <1>1. PhaseOf(p) \in MatchPhase /\ SetPhase(p, "playing")
    BY DEF EnterGameplay, MatchPhase
  <1>2. UNCHANGED <<playerCount, peers, seen, fresh, stalled, idle, slot, pend, sawFrame, toldPause,
                    lines, toClient, word, alive, up, hostSilence, silence, moved, hurt, lost>>
    BY DEF EnterGameplay
  <1>3. load' \in [Program -> 0..LoadTime]
    <2>1. 0 \in 0..LoadTime
      BY Patiences
    <2> QED BY <2>1 DEF EnterGameplay, SessionInv, Types, TimeTypes
  <1> QED BY <1>1, <1>2, <1>3, SetPhaseFacts

LEMMA BeatKeeps ==
  ASSUME SessionInv, Beat
  PROVE  SessionInv'
  <1> USE DEF SessionInv, Types, Seats
  <1>1. /\ \A p \in Program : Opening(p) => load[p] < LoadTime
        /\ moved' = {}
        /\ hostSilence' = [c \in Client |->
               IF c \in Known /\ On(Host) THEN Older(hostSilence[c]) ELSE 0]
        /\ silence' = [c \in Client |-> IF On(c) THEN Older(silence[c]) ELSE 0]
        /\ load' = [p \in Program |-> IF Opening(p) THEN load[p] + 1 ELSE 0]
        /\ idle' = IF InMatch THEN 1 ELSE 0
    BY DEF Beat
  <1>2. UNCHANGED <<playerCount, hostPhase, peers, seen, fresh, stalled, clientVars, toClient, word,
                    alive, up, hurt, lost>>
    BY DEF Beat
  <1>3. Slot' = Slot /\ Told' = Told /\ Seat' = Seat /\ Program' = Program
    BY <1>2, SameSeats
  <1>4. HostTypes' /\ LinkTypes'
    BY <1>1, <1>2, <1>3 DEF HostTypes, LinkTypes
  <1>5. ClientTypes'
    BY <1>2, <1>3 DEF ClientTypes, clientVars
  <1>6. TimeTypes'
    <2>1. \A n \in 0..PausePatience : Older(n) \in 0..PausePatience
      BY Patiences DEF Older
    <2>2. 0 \in 0..PausePatience
      BY Patiences
    <2>3. hostSilence' \in [Client -> 0..PausePatience] /\ silence' \in [Client -> 0..PausePatience]
      BY <1>1, <2>1, <2>2 DEF TimeTypes
    <2>4. load' \in [Program -> 0..LoadTime]
      <3>1. \A p \in Program : load[p] \in 0..LoadTime
        BY DEF TimeTypes
      <3>2. \A p \in Program : (IF Opening(p) THEN load[p] + 1 ELSE 0) \in 0..LoadTime
        BY <1>1, <3>1, Patiences
      <3> QED BY <1>1, <3>2
    <2> QED BY <1>1, <1>2, <1>3, <2>3, <2>4 DEF TimeTypes
  <1>7. Seats' /\ StartsTold'
    BY <1>2, <1>3 DEF PeersOK, PendOwn, ReadyOwn, Complete, StartsTold, On, Known, InMatch, Ready, clientVars
  <1> QED BY <1>4, <1>5, <1>6, <1>7

LEMMA BreakKeeps ==
  ASSUME SessionInv, NEW c \in Client, Break(c)
  PROVE  SessionInv'
  <1> USE DEF SessionInv, Types, Seats
  <1> DEFINE q == IF c \in Known /\ On(Host) THEN toClient[c] ELSE << >>
  <1>1. /\ up' = up \ {c} /\ alive' = alive \ {c} /\ word' = [word EXCEPT ![c] = None]
        /\ toClient' = [toClient EXCEPT ![c] = q]
        /\ hurt' = hurt \cup {c}
    BY DEF Break
  <1>2. UNCHANGED <<hostVars, clientVars, timeVars, lost>>
    BY DEF Break
  <1>3. Slot' = Slot /\ Told' = Told /\ Seat' = Seat /\ Program' = Program
    BY <1>2, SameSeats DEF hostVars
  <1>4. HostTypes' /\ ClientTypes' /\ TimeTypes'
    BY <1>1, <1>2, <1>3 DEF HostTypes, ClientTypes, TimeTypes, hostVars, clientVars, timeVars
  <1>5. /\ toClient' \in [Client -> Seq(Told)]
        /\ \A d \in Client : Starts(toClient'[d]) => Starts(toClient[d])
    BY <1>1, EmptyStarts DEF LinkTypes
  <1>6. LinkTypes'
    BY <1>1, <1>3, <1>5 DEF LinkTypes
  <1>7. Seats'
    BY <1>2, <1>3 DEF PeersOK, PendOwn, ReadyOwn, Complete, Known, InMatch, Ready, hostVars, clientVars
  <1>8. StartsTold'
    BY <1>2, <1>5 DEF StartsTold, On, InMatch, Known, hostVars, clientVars
  <1> QED BY <1>4, <1>6, <1>7, <1>8

LEMMA MendKeeps ==
  ASSUME SessionInv, NEW c \in Client, Mend(c)
  PROVE  SessionInv'
  <1> USE DEF SessionInv, Types, Seats
  <1>1. up' = up \cup {c}
    BY DEF Mend
  <1>2. UNCHANGED <<hostVars, clientVars, toClient, word, alive, timeVars, hurt, lost>>
    BY DEF Mend
  <1>3. Slot' = Slot /\ Told' = Told /\ Seat' = Seat /\ Program' = Program
    BY <1>2, SameSeats DEF hostVars
  <1>4. HostTypes' /\ ClientTypes' /\ TimeTypes'
    BY <1>2, <1>3 DEF HostTypes, ClientTypes, TimeTypes, hostVars, clientVars, timeVars
  <1>5. LinkTypes'
    BY <1>1, <1>2, <1>3 DEF LinkTypes
  <1>6. Seats' /\ StartsTold'
    BY <1>2, <1>3 DEF PeersOK, PendOwn, ReadyOwn, Complete, StartsTold, On, Known, InMatch, Ready,
                      hostVars, clientVars
  <1> QED BY <1>4, <1>5, <1>6

-----------------------------------------------------------------------------
(* The invariant holds, and what follows from it.                          *)

LEMMA InitInv == Init => SessionInv
  <1> SUFFICES ASSUME Init PROVE SessionInv
    OBVIOUS
  <1> USE DEF Init
  <1>1. Known = {}
    BY DEF Known
  <1>2. 0 \in 0..PausePatience /\ 0 \in 0..LoadTime /\ 0 \in 0..1
    BY Patiences
  <1>3. HostTypes
    BY <1>2 DEF HostTypes, Phase
  <1>4. ClientTypes
    BY DEF ClientTypes, Phase
  <1>5. LinkTypes
    BY EmptyStarts DEF LinkTypes
  <1>6. TimeTypes
    BY <1>2 DEF TimeTypes
  <1>7. PeersOK(peers) /\ ReadyOwn
    BY <1>1 DEF PeersOK, ReadyOwn, Known
  <1>8. PendOwn
    BY DEF PendOwn
  <1>9. ~InMatch
    BY DEF InMatch, MatchPhase
  <1>10. StartsTold
    <2>1. \A c \in Client : phase[c] \notin MatchPhase /\ ~Starts(toClient[c])
      BY EmptyStarts DEF MatchPhase
    <2> QED BY <2>1 DEF StartsTold
  <1> QED BY <1>3, <1>4, <1>5, <1>6, <1>7, <1>8, <1>9, <1>10 DEF SessionInv, Types, Seats, Complete

LEMMA NextKeepsInv == SessionInv /\ [Next]_vars => SessionInv'
  <1> SUFFICES ASSUME SessionInv, [Next]_vars PROVE SessionInv'
    OBVIOUS
  <1>1. CASE HostInLobby
    BY <1>1, HostInLobbyKeeps
  <1>2. CASE HostAborts
    BY <1>2, HostAbortsKeeps
  <1>3. CASE HostInMatch
    BY <1>3, HostInMatchKeeps
  <1>4. CASE Beat
    BY <1>4, BeatKeeps
  <1>5. ASSUME NEW p \in Program, BeginLoad(p) \/ EnterGameplay(p) PROVE SessionInv'
    BY <1>5, BeginLoadKeeps, EnterGameplayKeeps
  <1>6. ASSUME NEW c \in Client, HostReadsHello(c) \/ HostReads(c) PROVE SessionInv'
    BY <1>6, HostReadsHelloKeeps, HostReadsKeeps
  <1>7. ASSUME NEW c \in Client,
               Open(c) \/ ClientReads(c) \/ ClientHears(c) \/ TimesOut(c) \/ ClientMoves(c)
        PROVE  SessionInv'
    BY <1>7, OpenKeeps, ClientReadsKeeps, ClientHearsKeeps, TimesOutKeeps, ClientMovesKeeps
  <1>8. ASSUME NEW c \in Client, Break(c) \/ Mend(c) PROVE SessionInv'
    BY <1>8, BreakKeeps, MendKeeps
  <1>9. CASE UNCHANGED vars
    BY <1>9 DEF vars, hostVars, clientVars, timeVars, SessionInv, Types, Seats, HostTypes, ClientTypes,
                LinkTypes, TimeTypes, PeersOK, PendOwn, ReadyOwn, Complete, StartsTold, On, Known,
                InMatch, Slot, Told, Seat, Program, Ready, Welcome, Note, Hello
  <1> QED BY <1>1, <1>2, <1>3, <1>4, <1>5, <1>6, <1>7, <1>8, <1>9 DEF Next

LEMMA SpecInv == Spec => []SessionInv
  BY InitInv, NextKeepsInv, PTL DEF Spec

\* Every variable of the session has its type: a seat that was given is one of
\* the lobby's, and no clock runs past the longest patience.
THEOREM AlwaysTypeOK == Spec => []TypeOK
  <1>1. SessionInv => TypeOK
    BY TypesOK DEF SessionInv, Seats
  <1> QED BY <1>1, SpecInv, PTL

\* A match has one player for each seat until it ends, whatever links break and
\* come back, whoever is forgotten in the lobby and joins again, and for every
\* timeout: who plays sits where the host sees it (process_hello, process_ready
\* and all_ready of net/lockstep_lobby.py, _abort_host_match of
\* net/lockstep_runtime.py).
THEOREM MatchAlwaysWhole == Spec => []MatchIsWhole
  <1>1. SessionInv => MatchIsWhole
    <2> SUFFICES ASSUME SessionInv, On(Host) PROVE MatchIsWhole
      BY DEF MatchIsWhole
    <2>1. IsInjective([c \in Known |-> peers[c].slot])
      BY DEF SessionInv, Seats, PeersOK, Known, IsInjective
    <2>2. InMatch => {peers[c].slot : c \in Known} = Slot
      BY DEF SessionInv, Seats, Complete
    <2>3. InMatch => \A c \in Known : slot[c] = peers[c].slot
      BY DEF SessionInv, Seats, Complete, ReadyOwn
    <2>4. \A c \in Client : phase[c] \in MatchPhase => InMatch /\ c \in Known
      BY DEF SessionInv, StartsTold
    <2> QED BY <2>1, <2>2, <2>3, <2>4 DEF MatchIsWhole
  <1> QED BY <1>1, SpecInv, PTL
-----------------------------------------------------------------------------
(* Patience.  Who is there speaks in every beat, or is loading, and that    *)
(* takes less than the patience of that time; so is heard and hears.  The   *)
(* exception is a match that waits: the keepalive is withheld from all      *)
(* while the host resends to one, but this one has then been silent for as  *)
(* long, and the host ends the match for it.                                *)

Healthy == Client \ hurt
Has(q, k) == \E i \in 1..Len(q) : q[i] = Note(k)

\* A beat or the time of loading, and a beat longer than that.
Short(n) == n <= 1 \/ n <= LoadTime
Later(n) == n <= 2 \/ n <= LoadTime + 1

\* A client that has read all there is; one that will say no more; one that
\* plays, or will once it has loaded.
HasRead(c) == toClient[c] = << >> /\ c \notin alive
Dead(h) == h \in Known /\ word[h] = None /\ (h \notin up \/ phase[h] = "over")
Takes(c) == c \in Healthy /\ c \in Known /\ InMatch /\ phase[c] # "over"

Basics ==
  /\ lost \subseteq hurt
  /\ Healthy \subseteq up
  /\ \A c \in Client :
       /\ c \notin up => word[c] = None
       /\ phase[c] \in {"new", "over"} => pend[c] = {}
       /\ phase[c] \in {"new", "joining"} => slot[c] = None
       /\ phase[c] = "lobby" => slot[c] # None
  /\ \A c \in Known : peers[c].ready => peers[c].got = 2
  /\ InMatch /\ Host \notin moved => idle = 1

\* Before the match nobody speaks of it.
NoMatchYet ==
  hostPhase = "lobby" =>
    /\ seen = {} /\ fresh = {} /\ ~stalled
    /\ \A c \in Client :
         /\ word[c] \in {None, "alive"} /\ ~sawFrame[c] /\ ~toldPause[c]
         /\ \A k \in {"pause", "resume", "frame"} : ~Has(toClient[c], k)

\* A client whose link works is asked in once, and stays; it gives up only in a
\* match that waits for somebody who is gone, which the host is about to end.
Stranger(c) == slot[c] = None /\ toClient[c] \in {<< >>, <<Note("reject")>>}
Joined(c) ==
  /\ ~peers[c].again
  /\ slot[c] = None => /\ phase[c] = "joining" /\ toClient[c] # << >>
                       /\ Head(toClient[c]) = Welcome(peers[c].slot)
  /\ ~Has(toClient[c], "reject") /\ ~Has(toClient[c], "disconnect")
Ending(c) ==
  /\ hostPhase = "playing" /\ stalled
  /\ \E h \in Known : Dead(h) /\ hostSilence[h] >= PausePatience
  /\ \/ word[c] # None
     \/ Short(hostSilence[c])
     \/ Host \notin moved /\ Later(hostSilence[c])
Stays ==
  On(Host) => \A c \in Healthy :
    IF c \in Known THEN Joined(c) /\ (phase[c] = "over" => Ending(c)) ELSE Stranger(c)

\* What a client knows of the match, once it has read its messages.
Pauses == {Note("pause"), Note("resume")}
WillKnow(q, told, st) ==
  \/ told = st /\ \A i \in 1..Len(q) : q[i] \notin Pauses
  \/ \E i \in 1..Len(q) : /\ q[i] = Note(IF st THEN "pause" ELSE "resume")
                          /\ \A j \in (i + 1)..Len(q) : q[j] \notin Pauses
StartsOnce(q) ==
  \E i \in 1..Len(q) : /\ q[i] = Note("start")
                       /\ \A j \in 1..Len(q) : j # i => q[j] # Note("start")
View(c) ==
  /\ \/ phase[c] \in MatchPhase /\ ~Starts(toClient[c])
     \/ phase[c] = "lobby" /\ StartsOnce(toClient[c])
  /\ WillKnow(toClient[c], toldPause[c], stalled)
  /\ Opening(Host) => ~sawFrame[c] /\ ~Has(toClient[c], "frame")
Views == \A c \in Client : Takes(c) => View(c)

\* Before its first input the host is patient with a client.
Awaited(c) == c \notin fresh /\ (stalled \/ peers[c].slot \notin seen)
Unplayed(c) ==
  phase[c] \in {"lobby", "started", "loading"} =>
    Awaited(c) /\ word[c] # "input" /\ (word[c] = "empty" => stalled)
Speaks(c) ==
  \/ word[c] # None
  \/ hostSilence[c] = 0
  \/ /\ c \notin moved
     /\ \/ phase[c] # "loading" /\ hostSilence[c] <= 1
        \/ phase[c] = "loading" /\ hostSilence[c] <= load[c]
        \/ phase[c] = "playing" /\ hostSilence[c] <= LoadTime /\ Awaited(c)
Speakers == \A c \in Client : Takes(c) => Unplayed(c) /\ Speaks(c)

\* In the lobby the host sends something in each beat, and who reads it speaks.
Chats(c) ==
  /\ HasRead(c) => silence[c] <= (IF Host \in moved THEN 0 ELSE 1)
  /\ \/ word[c] # None
     \/ hostSilence[c] = 0 /\ Host \notin moved
     \/ /\ toClient[c] # << >> \/ lines[c]
        /\ hostSilence[c] = 0 \/ (c \notin moved /\ hostSilence[c] <= 1)
Lobby == hostPhase = "lobby" => \A c \in Healthy \cap Known : Chats(c)

\* In a match a client with unread messages has said nothing since they were
\* sent, and has acked its Ready before the match could wait for it.
Mute ==
  InMatch /\ (Host \in moved \/ Loading(Host)) =>
     \A h \in Known : toClient[h] # << >> => word[h] = None
Acked ==
  InMatch => \A h \in Known \cap up : pend[h] # {} =>
     /\ phase[h] = "lobby" /\ Starts(toClient[h])
     /\ h \in moved => ~stalled /\ Host \in moved
     /\ Host \notin moved => ~stalled

\* c has read what h has not.
Ahead(c, h) ==
  /\ word[h] = None \/ (Polls(Host) /\ silence[c] = 0)
  /\ stalled => hostSilence[h] >= silence[c]
  /\ h \in up /\ On(h) =>
       /\ h \in moved => silence[c] = 0
       /\ IF Loading(h) THEN silence[c] <= load[h] ELSE Short(silence[c])
Aheads ==
  \A c, h \in Client :
    Takes(c) /\ HasRead(c) /\ h \in Known /\ toClient[h] # << >> => Ahead(c, h)

\* How long a client may not have heard the host.
Hears(c) ==
  /\ Opening(Host) => /\ silence[c] <= load[Host]
                      /\ Host \in moved /\ ~stalled => silence[c] = 0
  /\ hostPhase = "playing" /\ ~stalled =>
       \/ silence[c] <= (IF Host \in moved THEN 0 ELSE 1)
       \/ ~sawFrame[c] /\ Host \notin moved /\ silence[c] <= LoadTime
  /\ hostPhase = "playing" /\ stalled =>
       \/ \E h \in Known : Dead(h) /\ hostSilence[h] >= silence[c]
       \/ Short(silence[c])
       \/ Host \notin moved /\ Later(silence[c])
Hearers == \A c \in Client : Takes(c) /\ HasRead(c) => Hears(c)

HealthInv ==
  /\ SessionInv /\ Basics /\ NoMatchYet /\ Stays /\ Views /\ Speakers /\ Lobby
  /\ Mute /\ Acked /\ Aheads /\ Hearers

-----------------------------------------------------------------------------
(* Queues, clocks, peers.                                                  *)

\* What a queue holds after a message was added.
LEMMA GrownQueue ==
  ASSUME NEW q \in Seq(Told), NEW m \in Told
  PROVE  /\ \A k : Has(Queue(q, m), k) => Has(q, k) \/ m = Note(k)
         /\ \A k : Has(q, k) => Has(Queue(q, m), k)
         /\ q # << >> => Head(Queue(q, m)) = Head(q)
         /\ m \notin Pauses =>
              \A told, st \in BOOLEAN : WillKnow(q, told, st) => WillKnow(Queue(q, m), told, st)
         /\ \A told, st \in BOOLEAN :
              m = Note(IF st THEN "pause" ELSE "resume") => WillKnow(Queue(q, m), told, st)
  <1>1. CASE q # << >> /\ Last(q) = m
    <2>1. Queue(q, m) = q
      BY <1>1 DEF Queue
    <2>2. Len(q) \in 1..Len(q) /\ q[Len(q)] = m
      BY <1>1, LenProperties, EmptySeq DEF Last
    <2>3. \A j \in (Len(q) + 1)..Len(q) : FALSE
      BY <2>2
    <2>4. \A told, st \in BOOLEAN :
            m = Note(IF st THEN "pause" ELSE "resume") => WillKnow(q, told, st)
      BY <2>2, <2>3 DEF WillKnow
    <2> QED BY <2>1, <2>4
  <1>2. CASE ~(q # << >> /\ Last(q) = m)
    <2> DEFINE a == Append(q, m)
    <2>1. Queue(q, m) = a
      BY <1>2 DEF Queue
    <2>2. /\ Len(a) = Len(q) + 1 /\ a[Len(q) + 1] = m /\ Len(q) \in Nat
          /\ \A i \in 1..Len(q) : a[i] = q[i]
          /\ a \in Seq(Told) /\ a # << >>
      BY AppendProperties, LenProperties
    <2> HIDE DEF a
    <2>3. \A i \in 1..Len(a) : i \in 1..Len(q) \/ i = Len(q) + 1
      BY <2>2
    <2>4. \A i \in 1..Len(q) : i \in 1..Len(a)
      BY <2>2
    <2>5. \A k : Has(a, k) => Has(q, k) \/ m = Note(k)
      BY <2>2, <2>3 DEF Has
    <2>6. \A k : Has(q, k) => Has(a, k)
      BY <2>2, <2>4 DEF Has
    <2>7. q # << >> => Head(a) = Head(q)
      <3> SUFFICES ASSUME q # << >> PROVE Head(a) = Head(q)
        OBVIOUS
      <3>1. Head(q) = q[1] /\ Head(a) = a[1] /\ 1 \in 1..Len(q)
        BY <2>2, HeadTailProperties, LenProperties, EmptySeq
      <3> QED BY <2>2, <3>1
    <2>8. ASSUME m \notin Pauses, NEW told \in BOOLEAN, NEW st \in BOOLEAN, WillKnow(q, told, st)
          PROVE  WillKnow(a, told, st)
      <3>1. CASE told = st /\ \A i \in 1..Len(q) : q[i] \notin Pauses
        BY <2>2, <2>3, <2>8, <3>1 DEF WillKnow
      <3>2. ASSUME NEW i \in 1..Len(q), q[i] = Note(IF st THEN "pause" ELSE "resume"),
                   \A j \in (i + 1)..Len(q) : q[j] \notin Pauses
            PROVE  WillKnow(a, told, st)
        <4>1. \A j \in (i + 1)..Len(a) : j \in (i + 1)..Len(q) \/ j = Len(q) + 1
          BY <2>2
        <4>2. \A j \in (i + 1)..Len(q) : j \in 1..Len(q)
          BY <2>2
        <4>3. \A j \in (i + 1)..Len(a) : a[j] \notin Pauses
          BY <2>2, <2>8, <3>2, <4>1, <4>2
        <4> QED BY <2>2, <2>4, <3>2, <4>3 DEF WillKnow
      <3> QED BY <2>8, <3>1, <3>2 DEF WillKnow
    <2>9. ASSUME NEW told \in BOOLEAN, NEW st \in BOOLEAN, m = Note(IF st THEN "pause" ELSE "resume")
          PROVE  WillKnow(a, told, st)
      <3>1. Len(q) + 1 \in 1..Len(a) /\ \A j \in (Len(q) + 1 + 1)..Len(a) : FALSE
        BY <2>2
      <3> QED BY <2>2, <2>9, <3>1 DEF WillKnow
    <2> QED BY <2>1, <2>5, <2>6, <2>7, <2>8, <2>9
  <1> QED BY <1>1, <1>2

\* What it holds after the first message was taken, and what that one tells.
LEMMA ReadQueue ==
  ASSUME NEW q \in Seq(Told), q # << >>
  PROVE  /\ Head(q) \in Told
         /\ \A k : Has(Tail(q), k) => Has(q, k)
         /\ \A k : Has(q, k) => Has(Tail(q), k) \/ Head(q) = Note(k)
         /\ \A k : Head(q) = Note(k) => Has(q, k)
         /\ \A told, st \in BOOLEAN : WillKnow(q, told, st) =>
              WillKnow(Tail(q), IF Head(q) = Note("pause") THEN TRUE
                                ELSE IF Head(q) = Note("resume") THEN FALSE ELSE told, st)
  <1> DEFINE t == Tail(q)
  <1>1. /\ Len(t) = Len(q) - 1 /\ Head(q) = q[1] /\ Head(q) \in Told
        /\ \A i \in 1..Len(t) : t[i] = q[i + 1]
        /\ Len(q) \in Nat /\ Len(q) >= 1
    BY HeadTailProperties, LenProperties, EmptySeq
  <1> HIDE DEF t
  <1>2. \A i \in 1..Len(t) : i + 1 \in 1..Len(q)
    BY <1>1
  <1>3. \A i \in 1..Len(q) : i = 1 \/ (i - 1 \in 1..Len(t) /\ t[i - 1] = q[i])
    BY <1>1
  <1>4. \A k : Has(t, k) => Has(q, k)
    BY <1>1, <1>2 DEF Has
  <1>5. \A k : Has(q, k) => Has(t, k) \/ Head(q) = Note(k)
    BY <1>1, <1>3 DEF Has
  <1>6. 1 \in 1..Len(q)
    BY <1>1
  <1>7. \A k : Head(q) = Note(k) => Has(q, k)
    BY <1>1, <1>6 DEF Has
  <1>8. ASSUME NEW told \in BOOLEAN, NEW st \in BOOLEAN, WillKnow(q, told, st)
        PROVE  WillKnow(t, IF Head(q) = Note("pause") THEN TRUE
                           ELSE IF Head(q) = Note("resume") THEN FALSE ELSE told, st)
    <2>1. CASE told = st /\ \A i \in 1..Len(q) : q[i] \notin Pauses
      <3>1. Head(q) \notin Pauses
        BY <1>1, <1>6, <2>1
      <3> QED BY <1>1, <1>2, <2>1, <3>1 DEF WillKnow, Pauses
    <2>2. ASSUME NEW i \in 1..Len(q), q[i] = Note(IF st THEN "pause" ELSE "resume"),
                 \A j \in (i + 1)..Len(q) : q[j] \notin Pauses
          PROVE  WillKnow(t, IF Head(q) = Note("pause") THEN TRUE
                             ELSE IF Head(q) = Note("resume") THEN FALSE ELSE told, st)
      <3>1. \A j \in i..Len(t) : j + 1 \in (i + 1)..Len(q) /\ j \in 1..Len(t)
        BY <1>1
      <3>2. \A j \in i..Len(t) : t[j] \notin Pauses
        BY <1>1, <2>2, <3>1
      <3>3. CASE i = 1
        <4>1. Note("pause") # Note("resume")
          BY MessageFacts
        <4> QED BY <1>1, <2>2, <3>2, <3>3, <4>1 DEF WillKnow
      <3>4. CASE i # 1
        <4>1. i - 1 \in 1..Len(t) /\ t[i - 1] = q[i] /\ (i - 1) + 1 = i
          BY <1>3, <3>4
        <4> QED BY <2>2, <3>2, <4>1 DEF WillKnow
      <3> QED BY <3>3, <3>4
    <2> QED BY <1>8, <2>1, <2>2 DEF WillKnow
  <1> QED BY <1>1, <1>4, <1>5, <1>7, <1>8 DEF t

\* The start of the match is announced once.
LEMMA StartQueue ==
  ASSUME NEW q \in Seq(Told), NEW m \in Told
  PROVE  /\ m # Note("start") => (Starts(Queue(q, m)) => Starts(q))
         /\ m # Note("start") => (StartsOnce(q) => StartsOnce(Queue(q, m)))
         /\ Starts(q) => Starts(Queue(q, m))
         /\ m = Note("start") /\ ~Starts(q) => StartsOnce(Queue(q, m))
         /\ StartsOnce(q) => Starts(q)
  <1> DEFINE a == Append(q, m)
  <1>1. /\ Len(a) = Len(q) + 1 /\ a[Len(q) + 1] = m /\ Len(q) \in Nat
        /\ \A i \in 1..Len(q) : a[i] = q[i]
    BY AppendProperties, LenProperties
  <1> HIDE DEF a
  <1>2. \A i \in 1..Len(a) : i \in 1..Len(q) \/ i = Len(q) + 1
    BY <1>1
  <1>3. \A i \in 1..Len(q) : i \in 1..Len(a) /\ i # Len(q) + 1
    BY <1>1
  <1>4. m # Note("start") => (StartsOnce(q) => StartsOnce(a))
    BY <1>1, <1>2, <1>3 DEF StartsOnce
  <1>5. Starts(q) => Starts(a)
    BY <1>1, <1>3 DEF Starts
  <1>6. Len(q) + 1 \in 1..Len(a)
    BY <1>1
  <1>7. m = Note("start") /\ ~Starts(q) => StartsOnce(a)
    BY <1>1, <1>2, <1>6 DEF Starts, StartsOnce
  <1>8. m = Note("start") /\ q # << >> /\ Last(q) = m => Starts(q)
    <2>1. q # << >> => Len(q) \in 1..Len(q)
      BY LenProperties, EmptySeq
    <2> QED BY <2>1 DEF Last, Starts
  <1>9. Queue(q, m) = a \/ (Queue(q, m) = q /\ q # << >> /\ Last(q) = m)
    BY DEF Queue, a
  <1> QED BY <1>4, <1>5, <1>7, <1>8, <1>9, QueueFacts DEF StartsOnce, Starts

LEMMA StartRead ==
  ASSUME NEW q \in Seq(Told), q # << >>
  PROVE  /\ StartsOnce(q) => IF Head(q) = Note("start") THEN ~Starts(Tail(q)) ELSE StartsOnce(Tail(q))
         /\ Starts(q) => Head(q) = Note("start") \/ Starts(Tail(q))
  <1> DEFINE t == Tail(q)
  <1>1. /\ Len(t) = Len(q) - 1 /\ Head(q) = q[1]
        /\ \A i \in 1..Len(t) : t[i] = q[i + 1]
        /\ Len(q) \in Nat /\ Len(q) >= 1
    BY HeadTailProperties, LenProperties, EmptySeq
  <1> HIDE DEF t
  <1>2. \A i \in 1..Len(t) : i + 1 \in 1..Len(q) /\ i + 1 # 1
    BY <1>1
  <1>3. \A i \in 1..Len(q) : i = 1 \/ (i - 1 \in 1..Len(t) /\ t[i - 1] = q[i])
    BY <1>1
  <1>4. 1 \in 1..Len(q)
    BY <1>1
  <1>5. ASSUME StartsOnce(q), Head(q) = Note("start") PROVE ~Starts(t)
    BY <1>1, <1>2, <1>4, <1>5 DEF StartsOnce, Starts
  <1>6. ASSUME StartsOnce(q), Head(q) # Note("start") PROVE StartsOnce(t)
    <2>1. PICK i \in 1..Len(q) : /\ q[i] = Note("start")
                                /\ \A j \in 1..Len(q) : j # i => q[j] # Note("start")
      BY <1>6 DEF StartsOnce
    <2>2. i # 1 /\ i - 1 \in 1..Len(t) /\ t[i - 1] = Note("start")
      BY <1>1, <1>3, <1>6, <2>1
    <2>3. \A j \in 1..Len(t) : j # i - 1 => t[j] # Note("start")
      <3> SUFFICES ASSUME NEW j \in 1..Len(t), j # i - 1 PROVE t[j] # Note("start")
        OBVIOUS
      <3>1. j + 1 \in 1..Len(q) /\ j + 1 # i
        BY <1>2, <2>1
      <3> QED BY <1>1, <2>1, <3>1
    <2> QED BY <2>2, <2>3 DEF StartsOnce
  <1>7. Starts(q) => Head(q) = Note("start") \/ Starts(t)
    BY <1>1, <1>3 DEF Starts
  <1> QED BY <1>5, <1>6, <1>7 DEF t

LEMMA EmptyQueue ==
  /\ \A k : ~Has(<< >>, k)
  /\ \A told, st \in BOOLEAN : WillKnow(<< >>, told, st) => told = st
  <1>1. Len(<< >>) = 0
    OBVIOUS
  <1> QED BY <1>1 DEF Has, WillKnow

\* A message that is no Welcome is its kind.
LEMMA NoteFacts ==
  ASSUME NEW m \in Told
  PROVE  /\ m[1] # "welcome" => m = Note(m[1])
         /\ m[1] = "welcome" => m[2] \in Slot /\ m \notin Pauses /\ m # Note("start")
         /\ m = Note("start") <=> m[1] = "start"
  BY MessageFacts DEF Told, Pauses

LEMMA HasOne == \A m, k : Has(<<m>>, k) => m = Note(k)
  BY DEF Has

\* Clocks.
LEMMA Clocks ==
  ASSUME Types
  PROVE  /\ \A c \in Client : /\ silence[c] \in Nat /\ silence[c] <= PausePatience
                               /\ hostSilence[c] \in Nat /\ hostSilence[c] <= PausePatience
         /\ \A p \in Program : load[p] \in Nat /\ load[p] <= LoadTime
         /\ Host \in Program /\ \A c \in Client : c \in Program /\ c # Host
  BY Patiences DEF Types, TimeTypes, Program

LEMMA ShortFacts ==
  /\ Short(0) /\ Short(1)
  /\ \A n \in Nat : n <= LoadTime => Short(n)
  /\ \A n \in Nat : Short(n) => Later(n) /\ Later(n + 1)
  /\ \A n \in Nat : Later(n) => n < PausePatience
  /\ \A n \in Nat : n <= LoadTime => n < LoadPatience
  BY Patiences DEF Short, Later

\* In a match every peer has been ready for its seat.
LEMMA MatchPeers ==
  ASSUME HealthInv, InMatch, NEW h \in Known
  PROVE  /\ h \in Client /\ peers[h].ready /\ slot[h] = peers[h].slot /\ slot[h] # None
         /\ peers[h].slot \in Slot
         /\ phase[h] \in {"lobby", "over"} \cup MatchPhase
         /\ peers[h].got = 2 /\ Unread(h) = {}
  <1> USE DEF HealthInv, SessionInv, Seats, Types
  <1>1. h \in Client /\ peers[h] \in Seat
    BY DEF PeersOK, Known
  <1>2. peers[h].ready /\ slot[h] = peers[h].slot /\ peers[h].slot \in Slot
    BY <1>1 DEF Complete, ReadyOwn, Seat
  <1>3. slot[h] # None
    BY <1>2, SlotFacts DEF HostTypes
  <1>4. phase[h] \in Phase /\ phase[h] \notin {"new", "joining"}
    BY <1>1, <1>3 DEF Basics, ClientTypes
  <1>5. phase[h] \in {"lobby", "over"} \cup MatchPhase
    BY <1>4 DEF Phase, MatchPhase
  <1>6. peers[h].got = 2
    BY <1>2 DEF Basics
  <1>7. Unread(h) = {}
    BY <1>6 DEF Unread
  <1> QED BY <1>1, <1>2, <1>3, <1>5, <1>6, <1>7

\* The host does not drop a client whose link works.
LEMMA NoneDropped ==
  ASSUME HealthInv, Polls(Host), \A c \in Client : ~Readable(c)
  PROVE  /\ \A c \in Known : word[c] = None
         /\ \A c \in Healthy \cap Known : c \notin Silent /\ c \in up
         /\ hostPhase = "lobby" => \A c \in Healthy \cap Known : hostSilence[c] <= 1
         /\ Silent \subseteq Client
  <1> USE DEF HealthInv, SessionInv, Types, Seats
  <1>1. On(Host) /\ Host \notin moved
    BY DEF Polls
  <1>2. ASSUME NEW c \in Known PROVE word[c] = None /\ c \in Client
    BY DEF Readable, Basics, PeersOK, Known
  <1>3. ASSUME NEW c \in Healthy \cap Known
        PROVE  c \notin Silent /\ c \in up /\ (hostPhase = "lobby" => hostSilence[c] <= 1)
    <2>1. c \in Client /\ c \in up /\ word[c] = None /\ hostSilence[c] \in Nat
      BY <1>2, Clocks DEF Basics
    <2>2. CASE hostPhase = "lobby"
      <3>1. hostSilence[c] <= 1
        BY <2>1, <2>2 DEF Lobby, Chats
      <3>2. HostPatience = LinkPatience
        BY <2>2 DEF HostPatience, InMatch, MatchPhase
      <3> QED BY <2>1, <3>1, <3>2, Patiences DEF Silent
    <2>3. CASE InMatch /\ phase[c] = "over"
      <3>1. Ending(c)
        BY <1>1, <2>1, <2>3 DEF Stays
      <3>2. stalled /\ (Short(hostSilence[c]) \/ Later(hostSilence[c]))
        BY <2>1, <3>1 DEF Ending
      <3>3. HostPatience = PausePatience /\ hostSilence[c] < PausePatience
        BY <2>1, <2>3, <3>2, ShortFacts DEF HostPatience
      <3> QED BY <2>1, <2>3, <3>3, Patiences DEF Silent, InMatch, MatchPhase
    <2>4. CASE InMatch /\ phase[c] # "over"
      <3>1. Unplayed(c) /\ Speaks(c)
        BY <2>1, <2>4 DEF Speakers, Takes
      <3>2. \/ hostSilence[c] <= 1
            \/ hostSilence[c] <= LoadTime /\ Awaited(c)
        <4>1. load[c] \in Nat /\ load[c] <= LoadTime /\ LoadTime \in Nat
          BY <2>1, Clocks, Patiences
        <4> QED BY <2>1, <3>1, <4>1 DEF Speaks, Unplayed
      <3>3. HostPatience \in Nat /\ HostPatience > 1
        BY Patiences DEF HostPatience
      <3>4. Awaited(c) => HostPatience \in {PausePatience, LoadPatience}
        <4>1. peers[c].slot \in Slot
          BY <2>4, MatchPeers
        <4> QED BY <2>4, <4>1 DEF Awaited, HostPatience
      <3>5. hostSilence[c] < HostPatience
        BY <2>1, <3>2, <3>3, <3>4, Patiences
      <3> QED BY <2>1, <2>4, <3>3, <3>5 DEF Silent, InMatch, MatchPhase
    <2>5. hostPhase = "lobby" \/ InMatch
      BY <1>1 DEF On, InMatch, MatchPhase, HostTypes, Phase
    <2> QED BY <2>1, <2>2, <2>3, <2>4, <2>5
  <1>4. Silent \subseteq Client
    BY <1>2 DEF Silent
  <1> QED BY <1>2, <1>3, <1>4

-----------------------------------------------------------------------------
(* The steps of a client change nothing of the others.                     *)

OwnStep(c) ==
  /\ UNCHANGED <<playerCount, hostPhase, peers, seen, fresh, stalled, idle, hostSilence>>
  /\ \A p \in Program : p # c => load'[p] = load[p] /\ (p \in moved' <=> p \in moved)
  /\ \A d \in Client : d # c =>
       /\ phase'[d] = phase[d] /\ slot'[d] = slot[d] /\ pend'[d] = pend[d]
       /\ sawFrame'[d] = sawFrame[d] /\ toldPause'[d] = toldPause[d] /\ lines'[d] = lines[d]
       /\ toClient'[d] = toClient[d] /\ word'[d] = word[d] /\ silence'[d] = silence[d]
       /\ (d \in alive' <=> d \in alive) /\ (d \in up' <=> d \in up) /\ (d \in hurt' <=> d \in hurt)

\* What the invariant says of c.
OwnBasics(c) ==
  /\ c \in Healthy => c \in up
  /\ c \notin up => word[c] = None
  /\ phase[c] \in {"new", "over"} => pend[c] = {}
  /\ phase[c] \in {"new", "joining"} => slot[c] = None
  /\ phase[c] = "lobby" => slot[c] # None
  /\ hostPhase = "lobby" =>
       /\ word[c] \in {None, "alive"} /\ ~sawFrame[c] /\ ~toldPause[c]
       /\ \A k \in {"pause", "resume", "frame"} : ~Has(toClient[c], k)
OwnStay(c) ==
  On(Host) /\ c \in Healthy =>
    IF c \in Known THEN Joined(c) /\ (phase[c] = "over" => Ending(c)) ELSE Stranger(c)
OwnMatch(c) ==
  Takes(c) => View(c) /\ Unplayed(c) /\ Speaks(c) /\ (HasRead(c) => Hears(c))
OwnLobby(c) == hostPhase = "lobby" /\ c \in Healthy \cap Known => Chats(c)
OwnQueue(c) ==
  InMatch /\ c \in Known =>
    /\ Host \in moved \/ Loading(Host) => (toClient[c] # << >> => word[c] = None)
    /\ c \in up /\ pend[c] # {} =>
         /\ phase[c] = "lobby" /\ Starts(toClient[c])
         /\ c \in moved => ~stalled /\ Host \in moved
         /\ Host \notin moved => ~stalled
OwnLead(c) ==
  Takes(c) /\ HasRead(c) => \A h \in Known : toClient[h] # << >> => Ahead(c, h)
OwnLag(c) ==
  c \in Known /\ toClient[c] # << >> => \A d \in Client : Takes(d) /\ HasRead(d) => Ahead(d, c)

Own(c) == OwnBasics(c) /\ OwnStay(c) /\ OwnMatch(c) /\ OwnLobby(c) /\ OwnQueue(c)
          /\ OwnLead(c) /\ OwnLag(c)

LEMMA OwnHolds == ASSUME HealthInv, NEW c \in Client PROVE Own(c)
  <1> USE DEF HealthInv
  <1>1. Known \subseteq Client
    BY DEF SessionInv, Seats, PeersOK, Known
  <1>2. OwnBasics(c)
    BY DEF OwnBasics, Basics, NoMatchYet
  <1>3. OwnStay(c)
    BY DEF OwnStay, Stays
  <1>4. OwnMatch(c)
    BY DEF OwnMatch, Views, Speakers, Hearers
  <1>5. OwnLobby(c) /\ OwnQueue(c)
    BY DEF OwnLobby, OwnQueue, Lobby, Mute, Acked
  <1>6. OwnLead(c) /\ OwnLag(c)
    BY <1>1 DEF OwnLead, OwnLag, Aheads
  <1> QED BY <1>2, <1>3, <1>4, <1>5, <1>6 DEF Own

\* What only depends on the messages that a client has yet to read.
LEMMA NewQueue ==
  ASSUME NEW c \in Client, NEW q, toClient'[c] = q
  PROVE  /\ \A k : Has(toClient[c], k)' = Has(q, k)
         /\ Starts(toClient[c])' = Starts(q)
         /\ StartsOnce(toClient[c])' = StartsOnce(q)
         /\ WillKnow(toClient[c], toldPause[c], stalled)' = WillKnow(q, toldPause'[c], stalled')
  <1>1. \A k : Has(toClient[c], k)' = Has(q, k)
    BY DEF Has, Note
  <1>2. Starts(toClient[c])' = Starts(q)
    BY DEF Starts, Note
  <1>3. StartsOnce(toClient[c])' = StartsOnce(q)
    BY DEF StartsOnce, Note
  <1>4. WillKnow(toClient[c], toldPause[c], stalled)' = WillKnow(q, toldPause'[c], stalled')
    BY DEF WillKnow, Pauses, Note
  <1> QED BY <1>1, <1>2, <1>3, <1>4

LEMMA SameQueue ==
  ASSUME NEW c \in Client, toClient'[c] = toClient[c]
  PROVE  /\ \A k : Has(toClient[c], k)' = Has(toClient[c], k)
         /\ Starts(toClient[c])' = Starts(toClient[c])
         /\ StartsOnce(toClient[c])' = StartsOnce(toClient[c])
         /\ toldPause'[c] = toldPause[c] /\ stalled' = stalled =>
              WillKnow(toClient[c], toldPause[c], stalled)' = WillKnow(toClient[c], toldPause[c], stalled)
  BY NewQueue

LEMMA SameView ==
  ASSUME NEW c \in Client, toClient'[c] = toClient[c], phase'[c] = phase[c], sawFrame'[c] = sawFrame[c],
         toldPause'[c] = toldPause[c], stalled' = stalled, Opening(Host)' = Opening(Host)
  PROVE  View(c)' = View(c)
  <1>1. (WillKnow(toClient[c], toldPause[c], stalled)' = WillKnow(toClient[c], toldPause[c], stalled))
    BY SameQueue
  <1>2. (\/ phase[c] \in MatchPhase /\ ~Starts(toClient[c])
         \/ phase[c] = "lobby" /\ StartsOnce(toClient[c]))'
        = (\/ phase[c] \in MatchPhase /\ ~Starts(toClient[c])
           \/ phase[c] = "lobby" /\ StartsOnce(toClient[c]))
    BY SameQueue DEF MatchPhase
  <1>3. (Opening(Host) => ~sawFrame[c] /\ ~Has(toClient[c], "frame"))'
        = (Opening(Host) => ~sawFrame[c] /\ ~Has(toClient[c], "frame"))
    BY SameQueue
  <1> QED BY <1>1, <1>2, <1>3 DEF View

LEMMA OwnFacts ==
  ASSUME HealthInv, NEW c \in Client, OwnStep(c)
  PROVE  /\ Host \in Program /\ c # Host /\ Client \subseteq Program /\ Known \subseteq Client
         /\ Known' = Known /\ InMatch' = InMatch /\ On(Host)' = On(Host)
         /\ Opening(Host)' = Opening(Host) /\ Loading(Host)' = Loading(Host) /\ Polls(Host)' = Polls(Host)
         /\ (Host \in moved' <=> Host \in moved) /\ load'[Host] = load[Host]
         /\ \A d \in Client : d # c =>
              /\ On(d)' = On(d) /\ Loading(d)' = Loading(d) /\ HasRead(d)' = HasRead(d)
              /\ Takes(d)' = Takes(d) /\ (d \in Healthy' <=> d \in Healthy)
              /\ load'[d] = load[d] /\ (d \in moved' <=> d \in moved)
  <1> USE DEF HealthInv, OwnStep
  <1>1. Host \in Program /\ c # Host /\ Client \subseteq Program /\ Known \subseteq Client
    BY Patiences DEF Program, SessionInv, Seats, PeersOK, Known
  <1>2. /\ Known' = Known /\ InMatch' = InMatch /\ On(Host)' = On(Host)
        /\ Opening(Host)' = Opening(Host) /\ Loading(Host)' = Loading(Host)
        /\ (Host \in moved' <=> Host \in moved) /\ load'[Host] = load[Host]
    BY <1>1 DEF Known, InMatch, On, Opening, PhaseOf, Loading
  <1>3. Polls(Host)' = Polls(Host)
    BY <1>2 DEF Polls
  <1>4. \A d \in Client : d # c =>
          /\ On(d)' = On(d) /\ Loading(d)' = Loading(d) /\ HasRead(d)' = HasRead(d)
          /\ Takes(d)' = Takes(d) /\ (d \in Healthy' <=> d \in Healthy)
          /\ load'[d] = load[d] /\ (d \in moved' <=> d \in moved)
    BY <1>1, <1>2 DEF On, Loading, HasRead, Takes, Healthy
  <1> QED BY <1>1, <1>2, <1>3, <1>4

LEMMA OwnStepStays ==
  ASSUME HealthInv, NEW c \in Client, OwnStep(c), SessionInv', lost' \subseteq hurt',
         InMatch /\ Dead(c) => Dead(c)', Own(c)'
  PROVE  HealthInv'
  <1> USE DEF HealthInv, OwnStep, Own
  <1>1. Host \in Program /\ c # Host /\ Client \subseteq Program /\ Known \subseteq Client
    BY OwnFacts
  <1>2. /\ Known' = Known /\ InMatch' = InMatch /\ On(Host)' = On(Host)
        /\ Opening(Host)' = Opening(Host) /\ Loading(Host)' = Loading(Host)
        /\ (Host \in moved' <=> Host \in moved) /\ load'[Host] = load[Host]
    BY OwnFacts
  <1>3. Polls(Host)' = Polls(Host)
    BY OwnFacts
  <1>4. InMatch => \A h \in Known : Dead(h) => Dead(h)'
    BY <1>1, <1>2 DEF Dead
  <1>5. \A d \in Client : d # c =>
          /\ On(d)' = On(d) /\ Loading(d)' = Loading(d) /\ HasRead(d)' = HasRead(d)
          /\ Takes(d)' = Takes(d) /\ (d \in Healthy' <=> d \in Healthy)
          /\ load'[d] = load[d] /\ (d \in moved' <=> d \in moved)
    BY OwnFacts
  <1>6. Basics'
    <2>1. Healthy' \subseteq up'
      BY <1>5 DEF OwnBasics, Basics, Healthy
    <2> QED BY <1>2, <2>1 DEF OwnBasics, Basics
  <1>7. NoMatchYet'
    <2>1. hostPhase' = hostPhase /\ seen' = seen /\ fresh' = fresh /\ stalled' = stalled
      OBVIOUS
    <2>2. \A d \in Client : d # c => \A k : Has(toClient[d], k)' = Has(toClient[d], k)
      BY DEF Has, Note
    <2> QED BY <2>1, <2>2 DEF OwnBasics, NoMatchYet
  <1>8. Stays'
    <2> SUFFICES ASSUME On(Host), NEW d \in Healthy', d # c
                 PROVE  (IF d \in Known THEN Joined(d) /\ (phase[d] = "over" => Ending(d)) ELSE Stranger(d))'
      BY <1>2 DEF Stays, OwnStay
    <2>1. d \in Client /\ d \in Healthy
      BY <1>5 DEF Healthy
    <2>2. Joined(d)' = Joined(d) /\ Stranger(d)' = Stranger(d)
      BY <2>1 DEF Joined, Stranger, Has, Note, Welcome
    <2>3. Ending(d) => Ending(d)'
      BY <1>2, <1>4, <2>1 DEF Ending, Short, Later, InMatch, MatchPhase
    <2> QED BY <1>2, <2>1, <2>2, <2>3 DEF Stays
  <1>9. Views' /\ Speakers' /\ Hearers'
    <2> SUFFICES ASSUME NEW d \in Client, d # c, Takes(d)
                 PROVE  (View(d) /\ Unplayed(d) /\ Speaks(d) /\ (HasRead(d) => Hears(d)))'
      BY <1>5 DEF OwnMatch, Views, Speakers, Hearers
    <2>1. View(d)'
      BY <1>2, SameView DEF Views
    <2>2. Unplayed(d)' /\ Speaks(d)'
      BY <1>1, <1>5 DEF Speakers, Unplayed, Speaks, Awaited
    <2>3. HasRead(d) => Hears(d)'
      BY <1>2, <1>4 DEF Hearers, Hears, Short, Later, Takes
    <2> QED BY <1>5, <2>1, <2>2, <2>3
  <1>10. Lobby'
    <2> SUFFICES ASSUME hostPhase = "lobby", NEW d \in Healthy \cap Known, d # c PROVE Chats(d)'
      BY <1>2, <1>5 DEF OwnLobby, Lobby, Healthy
    <2> QED BY <1>1, <1>2, <1>5 DEF Lobby, Chats, Healthy
  <1>11. Mute' /\ Acked'
    BY <1>1, <1>2, <1>5 DEF OwnQueue, Mute, Acked
  <1>12. Aheads'
    <2> SUFFICES ASSUME NEW d \in Client, NEW h \in Client, Takes(d), HasRead(d), h \in Known,
                        toClient[h] # << >>, d # c, h # c
                 PROVE  Ahead(d, h)'
      BY <1>2, <1>5 DEF Aheads, OwnLead, OwnLag
    <2>1. Ahead(d, h)
      BY DEF Aheads
    <2> QED BY <1>1, <1>3, <1>5, <2>1 DEF Ahead, Short
  <1> QED BY <1>6, <1>7, <1>8, <1>9, <1>10, <1>11, <1>12

LEMMA OpenStays ==
  ASSUME HealthInv, NEW c \in Client, Open(c)
  PROVE  HealthInv'
  <1> USE DEF HealthInv
  <1>1. /\ phase[c] = "new" /\ phase' = [phase EXCEPT ![c] = "joining"]
        /\ UNCHANGED <<hostVars, slot, pend, sawFrame, toldPause, lines, toClient, word, alive, up,
                       timeVars, hurt, lost>>
    BY DEF Open
  <1>2. phase \in [Client -> Phase] /\ Known \subseteq Client
    BY DEF SessionInv, Types, ClientTypes, Seats, PeersOK, Known
  <1>3. phase'[c] = "joining" /\ \A d \in Client : d # c => phase'[d] = phase[d]
    BY <1>1, <1>2
  <1>4. OwnStep(c)
    BY <1>1, <1>3 DEF OwnStep, hostVars, timeVars
  <1>5. slot[c] = None
    BY <1>1 DEF Basics
  <1>6. c \in Known => ~InMatch
    BY <1>1, MatchPeers DEF MatchPhase
  <1>7. c \in Known /\ On(Host) => c \notin Healthy
    BY <1>1, <1>5 DEF Stays, Joined
  <1>8. /\ Known' = Known /\ InMatch' = InMatch /\ On(Host)' = On(Host) /\ Healthy' = Healthy
    BY <1>1, <1>2, Patiences DEF hostVars, Known, InMatch, On, Healthy
  <1>9. OwnBasics(c)'
    <2>1. \A k : Has(toClient[c], k)' = Has(toClient[c], k)
      BY <1>1 DEF Has, Note
    <2> QED BY <1>1, <1>3, <1>5, <1>8, <2>1 DEF Basics, NoMatchYet, OwnBasics, hostVars
  <1>10. OwnStay(c)'
    BY <1>1, <1>7, <1>8 DEF OwnStay, Stays, Stranger, Note
  <1>11. OwnMatch(c)' /\ OwnQueue(c)' /\ OwnLead(c)' /\ OwnLag(c)'
    BY <1>6, <1>8 DEF OwnMatch, OwnQueue, OwnLead, OwnLag, Takes
  <1>12. OwnLobby(c)'
    BY <1>1, <1>7, <1>8, Patiences DEF OwnLobby, On, hostVars
  <1>13. lost' \subseteq hurt'
    BY <1>1 DEF Basics
  <1>14. InMatch => ~Dead(c)
    BY <1>6 DEF Dead
  <1>15. SessionInv'
    BY OpenKeeps
  <1> QED BY <1>4, <1>9, <1>10, <1>11, <1>12, <1>13, <1>14, <1>15, OwnStepStays DEF Own

\* A client that has read all there is has not lost count of the beats.
LEMMA JustHeard ==
  ASSUME HealthInv, NEW c \in Client, Takes(c), silence'[c] = 0, OwnStep(c), stalled \in BOOLEAN
  PROVE  /\ Hears(c)'
         /\ \A h \in Known : h # c /\ toClient[h] # << >> => Ahead(c, h)'
  <1> USE DEF HealthInv
  <1>1. /\ Known' = Known /\ On(Host)' = On(Host) /\ InMatch' = InMatch
        /\ Opening(Host)' = Opening(Host) /\ Loading(Host)' = Loading(Host) /\ Polls(Host)' = Polls(Host)
        /\ (Host \in moved' <=> Host \in moved) /\ load'[Host] = load[Host] /\ Known \subseteq Client
        /\ Host \in Program
    BY OwnFacts
  <1>2. load[Host] \in Nat
    BY <1>1, Clocks DEF SessionInv
  <1>3. \A h \in Known : h # c =>
          /\ word'[h] = word[h] /\ hostSilence'[h] = hostSilence[h] /\ hostSilence[h] \in Nat
          /\ load'[h] = load[h] /\ load[h] \in Nat
    BY <1>1, Clocks DEF OwnStep, SessionInv, Program
  <1>4. Hears(c)'
    BY <1>1, <1>2, ShortFacts DEF Hears, Short
  <1>5. ASSUME NEW h \in Known, h # c, toClient[h] # << >> PROVE Ahead(c, h)'
    <2>1. word[h] = None \/ Polls(Host)
      BY <1>1, <1>5 DEF Mute, Takes, Polls, On, InMatch, MatchPhase
    <2> QED BY <1>1, <1>3, <1>5, <2>1 DEF Ahead, Short
  <1> QED BY <1>4, <1>5

LEMMA ClientHearsStays ==
  ASSUME HealthInv, NEW c \in Client, ClientHears(c)
  PROVE  HealthInv'
  <1> USE DEF HealthInv
  <1>1. /\ Polls(c) /\ c \in alive
        /\ alive' = alive \ {c}
        /\ silence' = [silence EXCEPT ![c] = 0]
        /\ pend' = [pend EXCEPT ![c] = IF c \in Known THEN Unread(c) ELSE @]
        /\ UNCHANGED <<hostVars, phase, slot, sawFrame, toldPause, lines, toClient, word, up,
                       hostSilence, moved, load, hurt, lost>>
    BY DEF ClientHears
  <1>2. ClientTypes /\ TimeTypes /\ LinkTypes /\ stalled \in BOOLEAN
    BY DEF SessionInv, Types, HostTypes
  <1>3. OwnStep(c) /\ silence'[c] = 0
    BY <1>1, <1>2 DEF OwnStep, hostVars, ClientTypes, TimeTypes
  <1>4. c # Host /\ phase[c] \notin {"new", "over"} /\ c \in up
    BY <1>1, <1>2, OwnFacts, <1>3 DEF Polls, On, LinkTypes
  <1>5. Own(c)
    BY OwnHolds
  <1>6. /\ Known' = Known /\ InMatch' = InMatch /\ On(Host)' = On(Host) /\ Healthy' = Healthy
        /\ Opening(Host)' = Opening(Host) /\ Loading(Host)' = Loading(Host)
        /\ On(c)' = On(c) /\ Loading(c)' = Loading(c) /\ Takes(c)' = Takes(c)
        /\ (Host \in moved' <=> Host \in moved) /\ Polls(Host)' = Polls(Host) /\ Known \subseteq Client
    BY <1>1, <1>3, <1>4, OwnFacts DEF Healthy, On, Loading, Takes
  <1>7. \A k : Has(toClient[c], k)' = Has(toClient[c], k)
    BY <1>1, SameQueue
  <1>8. OwnBasics(c)'
    BY <1>1, <1>4, <1>5, <1>6, <1>7 DEF Own, OwnBasics, hostVars
  <1>9. OwnStay(c)'
    BY <1>1, <1>4, <1>5, <1>6, <1>7 DEF Own, OwnStay, Joined, Stranger, Note, Welcome, hostVars
  <1>10. OwnMatch(c)'
    <2> SUFFICES ASSUME Takes(c) PROVE (View(c) /\ Unplayed(c) /\ Speaks(c) /\ Hears(c))'
      BY <1>6 DEF OwnMatch
    <2>1. View(c)'
      BY <1>1, <1>5, <1>6, SameView DEF Own, OwnMatch, hostVars
    <2>2. Unplayed(c)' /\ Speaks(c)'
      BY <1>1, <1>5, <1>6 DEF Own, OwnMatch, Unplayed, Speaks, Awaited, hostVars
    <2> QED BY <1>2, <1>3, <2>1, <2>2, JustHeard
  <1>11. OwnLobby(c)'
    BY <1>1, <1>3, <1>5, <1>6 DEF Own, OwnLobby, Chats, hostVars
  <1>12. OwnQueue(c)'
    <2>1. InMatch /\ c \in Known => pend'[c] = {}
      BY <1>1, <1>2, MatchPeers DEF ClientTypes
    <2> QED BY <1>1, <1>5, <1>6, <2>1 DEF Own, OwnQueue
  <1>13. OwnLead(c)'
    BY <1>1, <1>2, <1>3, <1>6, JustHeard DEF OwnLead, HasRead
  <1>14. OwnLag(c)'
    <2> SUFFICES ASSUME c \in Known, toClient[c] # << >>, NEW d \in Client, Takes(d)', HasRead(d)'
                 PROVE  Ahead(d, c)'
      BY <1>1, <1>6 DEF OwnLag
    <2>1. d # c
      BY <1>1 DEF HasRead
    <2>2. Takes(d) /\ HasRead(d) /\ silence'[d] = silence[d]
      BY <1>3, <2>1, OwnFacts DEF OwnStep
    <2> QED BY <1>1, <1>5, <1>6, <2>2 DEF Own, OwnLag, Ahead, Short, hostVars
  <1>15. lost' \subseteq hurt' /\ (Dead(c) => Dead(c)')
    BY <1>1, <1>6 DEF Basics, Dead
  <1>16. SessionInv'
    BY ClientHearsKeeps
  <1> QED BY <1>3, <1>8, <1>9, <1>10, <1>11, <1>12, <1>13, <1>14, <1>15, <1>16, OwnStepStays DEF Own

LEMMA NoneIsNoWord == None # "alive" /\ None # "empty" /\ None # "input"
  BY SessionAssumption

\* A client that has read all there is and has a say in the match.
LEMMA WhoHasRead ==
  ASSUME HealthInv, NEW c \in Client, Polls(c), HasRead(c), Takes(c)
  PROVE  /\ phase[c] \in {"started", "playing"} /\ toldPause[c] = stalled
         /\ pend[c] = {} /\ c \in up
  <1> USE DEF HealthInv
  <1>1. View(c) /\ toClient[c] = << >> /\ ~Loading(c) /\ c # Host
    BY Patiences DEF Views, HasRead, Polls
  <1>2. ~Starts(<< >>) /\ (StartsOnce(<< >>) => Starts(<< >>))
    BY EmptyStarts DEF Starts, StartsOnce
  <1>3. phase[c] \in {"started", "playing"}
    BY <1>1, <1>2 DEF View, MatchPhase, Loading
  <1>4. toldPause[c] = stalled
    <2>1. toldPause[c] \in BOOLEAN /\ stalled \in BOOLEAN
      BY DEF SessionInv, Types, HostTypes, ClientTypes
    <2>2. WillKnow(<< >>, toldPause[c], stalled)
      BY <1>1 DEF View
    <2> QED BY <2>1, <2>2, EmptyQueue
  <1>5. c \in up
    BY DEF Takes, Basics
  <1>6. pend[c] = {}
    BY <1>3, <1>5 DEF Takes, Acked
  <1> QED BY <1>3, <1>4, <1>5, <1>6

LEMMA ClientMovesStays ==
  ASSUME HealthInv, NEW c \in Client, ClientMoves(c)
  PROVE  HealthInv'
  <1> USE DEF HealthInv
  <1>1. /\ Polls(c) /\ (c \in up => HasRead(c))
        /\ moved' = moved \cup {c}
        /\ pend' = [pend EXCEPT ![c] = IF phase[c] = "joining" /\ @ = {} THEN {Hello} ELSE @]
        /\ word' = [word EXCEPT ![c] = IF c \in up /\ Speech(c) # None THEN Speech(c) ELSE @]
        /\ lines' = [lines EXCEPT ![c] = @ /\ phase[c] = "joining"]
        /\ UNCHANGED <<hostVars, phase, slot, sawFrame, toldPause, toClient, alive, up, hostSilence,
                       silence, load, hurt, lost>>
    BY DEF ClientMoves, Still, HasRead
  <1>2. ClientTypes /\ TimeTypes /\ LinkTypes /\ stalled \in BOOLEAN
    BY DEF SessionInv, Types, HostTypes
  <1>3. OwnStep(c)
    BY <1>1, <1>2, Patiences DEF OwnStep, hostVars, ClientTypes, TimeTypes, LinkTypes
  <1>4. c # Host /\ phase[c] \notin {"new", "over", "loading"}
    BY <1>1, <1>2, OwnFacts, <1>3 DEF Polls, On, Loading
  <1>5. Own(c)
    BY OwnHolds
  <1>6. /\ Known' = Known /\ InMatch' = InMatch /\ On(Host)' = On(Host) /\ Healthy' = Healthy
        /\ Opening(Host)' = Opening(Host) /\ Loading(Host)' = Loading(Host)
        /\ On(c)' = On(c) /\ Loading(c)' = Loading(c) /\ Takes(c)' = Takes(c) /\ HasRead(c)' = HasRead(c)
        /\ (Host \in moved' <=> Host \in moved) /\ Polls(Host)' = Polls(Host) /\ Known \subseteq Client
    BY <1>1, <1>3, <1>4, OwnFacts DEF Healthy, On, Loading, Takes, HasRead
  <1>7. \A k : Has(toClient[c], k)' = Has(toClient[c], k)
    BY <1>1, SameQueue
  <1>8. /\ word'[c] = IF c \in up /\ Speech(c) # None THEN Speech(c) ELSE word[c]
        /\ pend'[c] = IF phase[c] = "joining" /\ pend[c] = {} THEN {Hello} ELSE pend[c]
        /\ c \in moved'
    BY <1>1, <1>2 DEF LinkTypes, ClientTypes
  <1>9. hostPhase = "lobby" => phase[c] \notin MatchPhase /\ On(Host)
    BY DEF SessionInv, StartsTold, On, InMatch, MatchPhase
  <1>10. OwnBasics(c)'
    BY <1>1, <1>4, <1>5, <1>6, <1>7, <1>8, <1>9 DEF Own, OwnBasics, hostVars, Speech, MatchPhase
  <1>11. OwnStay(c)'
    BY <1>1, <1>4, <1>5, <1>6, <1>7 DEF Own, OwnStay, Joined, Stranger, Note, Welcome, hostVars
  <1>12. OwnMatch(c)'
    <2> SUFFICES ASSUME Takes(c) PROVE (View(c) /\ Unplayed(c) /\ Speaks(c) /\ (HasRead(c) => Hears(c)))'
      BY <1>6 DEF OwnMatch
    <2>1. c \in up /\ phase[c] \in {"started", "playing"} /\ toldPause[c] = stalled
      BY <1>1, WhoHasRead DEF Takes, Basics
    <2>2. View(c)'
      BY <1>1, <1>5, <1>6, SameView DEF Own, OwnMatch, hostVars
    <2>3. word'[c] = IF phase[c] = "playing" THEN "input" ELSE IF stalled THEN "empty" ELSE "alive"
      <3>1. word'[c] = IF Speech(c) # None THEN Speech(c) ELSE word[c]
        BY <1>8, <2>1
      <3>2. Speech(c) = IF phase[c] = "playing" THEN "input" ELSE IF stalled THEN "empty" ELSE "alive"
        BY <2>1 DEF Speech
      <3> QED BY <3>1, <3>2, NoneIsNoWord
    <2>4. word'[c] # None
      BY <2>3, NoneIsNoWord
    <2>5. Unplayed(c)' /\ Speaks(c)'
      BY <1>1, <1>5, <1>6, <2>3, <2>4 DEF Own, OwnMatch, Unplayed, Speaks, Awaited, hostVars
    <2>6. HasRead(c) => Hears(c)'
      <3>1. \A h \in Known : Dead(h) => Dead(h)'
        <4>1. ~Dead(c)
          BY <1>4, <2>1 DEF Dead
        <4> QED BY <1>1, <1>3, <1>6, <4>1 DEF Dead, OwnStep
      <3>2. load' = load /\ silence' = silence /\ hostSilence' = hostSilence /\ sawFrame' = sawFrame
            /\ hostPhase' = hostPhase /\ stalled' = stalled
        BY <1>1 DEF hostVars
      <3> QED BY <1>5, <1>6, <3>1, <3>2 DEF Own, OwnMatch, Hears, Short, Later
    <2> QED BY <1>6, <2>2, <2>5, <2>6
  <1>13. OwnLobby(c)'
    <2> SUFFICES ASSUME hostPhase = "lobby", c \in Healthy \cap Known PROVE Chats(c)'
      BY <1>1, <1>6 DEF OwnLobby, hostVars
    <2>1. HasRead(c) /\ toClient[c] = << >> /\ c \in up
      BY <1>1 DEF Basics, HasRead
    <2>2. slot[c] # None /\ phase[c] = "lobby"
      <3>1. slot[c] # None
        BY <1>9, <2>1 DEF Stays, Joined
      <3> QED BY <1>2, <1>4, <1>9, <3>1 DEF Basics, ClientTypes, Phase, MatchPhase
    <2>3. Chats(c)
      BY DEF Lobby
    <2>4. lines[c] => word'[c] = "alive"
      <3>1. lines[c] => Speech(c) = "alive"
        BY <2>2 DEF Speech
      <3> QED BY <1>8, <2>1, <3>1, NoneIsNoWord
    <2>5. word[c] # None => word'[c] # None
      BY <1>8
    <2> QED BY <1>1, <1>6, <2>1, <2>3, <2>4, <2>5, NoneIsNoWord DEF Chats
  <1>14. OwnQueue(c)'
    <2> SUFFICES ASSUME InMatch, c \in Known PROVE OwnQueue(c)'
      BY <1>6 DEF OwnQueue
    <2>1. pend'[c] = pend[c]
      BY <1>8, MatchPeers DEF MatchPhase
    <2>2. c \in up => toClient[c] = << >> /\ pend[c] = {}
      <3>1. ~Starts(<< >>)
        BY EmptyStarts DEF Starts
      <3> QED BY <1>1, <3>1 DEF HasRead, Acked
    <2>3. c \notin up => word'[c] = word[c]
      BY <1>8
    <2> QED BY <1>1, <1>5, <1>6, <2>1, <2>2, <2>3 DEF Own, OwnQueue
  <1>15. OwnLead(c)'
    <2> SUFFICES ASSUME Takes(c), HasRead(c), NEW h \in Known, toClient[h] # << >> PROVE Ahead(c, h)'
      BY <1>1, <1>6 DEF OwnLead
    <2>1. h # c /\ h \in Client
      BY <1>6 DEF HasRead
    <2>2. Ahead(c, h)
      BY <1>5 DEF Own, OwnLead
    <2>3. word'[h] = word[h] /\ (h \in moved' <=> h \in moved)
      BY <1>1, <1>2, <2>1 DEF LinkTypes
    <2> QED BY <1>1, <1>6, <2>2, <2>3 DEF Ahead, Short, On, Loading, hostVars
  <1>16. OwnLag(c)'
    <2> SUFFICES ASSUME c \in Known, toClient[c] # << >>, NEW d \in Client, Takes(d)', HasRead(d)'
                 PROVE  Ahead(d, c)'
      BY <1>1, <1>6 DEF OwnLag
    <2>1. d # c
      BY <1>1 DEF HasRead
    <2>2. Takes(d) /\ HasRead(d) /\ silence'[d] = silence[d]
      BY <1>1, <1>3, <2>1, OwnFacts
    <2>3. c \notin up /\ word'[c] = word[c]
      BY <1>1, <1>8 DEF HasRead
    <2> QED BY <1>1, <1>5, <1>6, <2>2, <2>3 DEF Own, OwnLag, Ahead, hostVars
  <1>17. lost' \subseteq hurt' /\ (Dead(c) => Dead(c)')
    <2>1. Dead(c) => word'[c] = word[c]
      BY <1>4, <1>8 DEF Dead
    <2> QED BY <1>1, <1>6, <2>1 DEF Basics, Dead
  <1>18. SessionInv'
    BY ClientMovesKeeps
  <1> QED BY <1>3, <1>10, <1>11, <1>12, <1>13, <1>14, <1>15, <1>16, <1>17, <1>18, OwnStepStays DEF Own

\* A client loads, or has loaded.
LEMMA LoadStays ==
  ASSUME HealthInv, NEW c \in Client, SessionInv',
         \/ phase[c] = "started" /\ c \in moved /\ phase' = [phase EXCEPT ![c] = "loading"] /\ load' = load
         \/ phase[c] = "loading" /\ phase' = [phase EXCEPT ![c] = "playing"]
            /\ load' = [load EXCEPT ![c] = 0],
         UNCHANGED <<hostVars, slot, pend, sawFrame, toldPause, lines, toClient, word, alive, up,
                     hostSilence, silence, moved, hurt, lost>>
  PROVE  HealthInv'
  <1> USE DEF HealthInv
  <1>1. phase \in [Client -> Phase] /\ load \in [Program -> 0..LoadTime] /\ c \in Program /\ c # Host
        /\ Host \in Program
    BY Patiences DEF SessionInv, Types, ClientTypes, TimeTypes, Program
  <1>2. OwnStep(c)
    BY <1>1, Patiences DEF OwnStep, hostVars
  <1>3. phase[c] \in {"started", "loading"} /\ phase'[c] \in {"loading", "playing"}
    BY <1>1
  <1>4. /\ Known' = Known /\ InMatch' = InMatch /\ On(Host)' = On(Host) /\ Healthy' = Healthy
        /\ Opening(Host)' = Opening(Host) /\ Loading(Host)' = Loading(Host)
        /\ Takes(c)' = Takes(c) /\ HasRead(c)' = HasRead(c) /\ Polls(Host)' = Polls(Host)
        /\ Known \subseteq Client /\ load'[Host] = load[Host]
    BY <1>2, <1>3, OwnFacts DEF Healthy, Takes, HasRead
  <1>5. Own(c) /\ \A k : Has(toClient[c], k)' = Has(toClient[c], k)
    BY OwnHolds, SameQueue
  <1>6. OwnBasics(c)'
    BY <1>3, <1>4, <1>5 DEF Own, OwnBasics, hostVars
  <1>7. OwnStay(c)'
    BY <1>3, <1>4, <1>5 DEF Own, OwnStay, Joined, Stranger, Note, Welcome, hostVars
  <1>8. OwnMatch(c)'
    <2> SUFFICES ASSUME Takes(c) PROVE (View(c) /\ Unplayed(c) /\ Speaks(c) /\ (HasRead(c) => Hears(c)))'
      BY <1>4 DEF OwnMatch
    <2>1. View(c)'
      <3>1. View(c) /\ phase[c] \in MatchPhase /\ phase'[c] \in MatchPhase /\ phase[c] # "lobby"
        BY <1>3, <1>5 DEF Own, OwnMatch, MatchPhase
      <3>2. Starts(toClient[c])' = Starts(toClient[c])
        BY SameQueue
      <3>3. WillKnow(toClient[c], toldPause[c], stalled)' = WillKnow(toClient[c], toldPause[c], stalled)
        BY SameQueue DEF hostVars
      <3>4. MatchPhase' = MatchPhase
        BY DEF MatchPhase
      <3> QED BY <1>4, <1>5, <3>1, <3>2, <3>3, <3>4 DEF View
    <2>2. Unplayed(c)'
      BY <1>1, <1>3, <1>5 DEF Own, OwnMatch, Unplayed, Awaited, hostVars
    <2>3. Speaks(c)'
      <3>1. load[c] \in Nat /\ load[c] <= LoadTime /\ hostSilence[c] \in Nat /\ LoadTime \in Nat
        BY <1>1, Clocks, Patiences DEF SessionInv
      <3>2. Awaited(c) /\ Awaited(c)' = Awaited(c) /\ Speaks(c)
        BY <1>3, <1>5 DEF Own, OwnMatch, Unplayed, Awaited, hostVars
      <3>3. \/ word[c] # None \/ hostSilence[c] = 0
            \/ c \notin moved /\ phase[c] = "loading" /\ hostSilence[c] <= load[c]
            \/ c \notin moved /\ phase[c] = "started"
        BY <1>3, <3>2 DEF Speaks
      <3>4. CASE word[c] # None \/ hostSilence[c] = 0
        BY <3>4 DEF Speaks
      <3>5. CASE c \notin moved /\ phase[c] = "loading" /\ hostSilence[c] <= load[c]
        <4>1. phase'[c] = "playing" /\ hostSilence[c] <= LoadTime
          BY <1>1, <3>1, <3>5
        <4> QED BY <3>2, <3>5, <4>1 DEF Speaks
      <3> QED BY <3>3, <3>4, <3>5
    <2>4. HasRead(c) => Hears(c)'
      <3>1. \A h \in Known : Dead(h) => Dead(h)'
        <4>1. Dead(c) => Dead(c)'
          BY <1>3, <1>4 DEF Dead
        <4> QED BY <1>2, <1>4, <4>1 DEF Dead, OwnStep
      <3> QED BY <1>4, <1>5, <3>1 DEF Own, OwnMatch, Hears, Short, Later, hostVars
    <2> QED BY <1>4, <2>1, <2>2, <2>3, <2>4
  <1>9. OwnLobby(c)'
    BY <1>3, <1>4, <1>5 DEF OwnLobby, SessionInv, StartsTold, On, InMatch, MatchPhase, hostVars
  <1>10. OwnQueue(c)'
    BY <1>3, <1>4, <1>5 DEF Own, OwnQueue
  <1>11. OwnLead(c)'
    <2> SUFFICES ASSUME Takes(c), HasRead(c), NEW h \in Known, toClient[h] # << >> PROVE Ahead(c, h)'
      BY <1>4 DEF OwnLead
    <2>1. h # c /\ h \in Client /\ h # Host
      BY <1>4, Patiences DEF HasRead
    <2>2. Ahead(c, h)
      BY <1>5 DEF Own, OwnLead
    <2>3. On(h)' = On(h) /\ Loading(h)' = Loading(h) /\ load'[h] = load[h]
      BY <1>2, <2>1, OwnFacts
    <2> QED BY <1>4, <2>2, <2>3 DEF Ahead, Short, hostVars
  <1>12. OwnLag(c)'
    <2> SUFFICES ASSUME c \in Known, toClient[c] # << >>, NEW d \in Client, Takes(d)', HasRead(d)'
                 PROVE  Ahead(d, c)'
      BY <1>4 DEF OwnLag
    <2>1. d # c
      BY DEF HasRead
    <2>2. Takes(d) /\ HasRead(d)
      BY <1>2, <2>1, OwnFacts
    <2>3. On(c) /\ Loading(c) = (phase[c] = "loading") /\ Loading(c)' = (phase'[c] = "loading")
      BY <1>1, <1>3 DEF On, Loading
    <2>4. silence[d] \in Nat /\ load[c] \in Nat /\ load[c] <= LoadTime /\ LoadTime \in Nat
      BY <1>1, Clocks, Patiences DEF SessionInv
    <2>5. Ahead(d, c)
      BY <1>5, <2>2 DEF Own, OwnLag
    <2>6. c \in up => /\ c \in moved => silence[d] = 0
                      /\ IF phase[c] = "loading" THEN silence[d] <= load[c] ELSE Short(silence[d])
      BY <2>3, <2>5 DEF Ahead
    <2>7. c \in up => /\ c \in moved => silence[d] = 0
                      /\ IF phase'[c] = "loading" THEN silence[d] <= load'[c] ELSE Short(silence[d])
      BY <1>1, <2>4, <2>6 DEF Short
    <2> QED BY <1>4, <2>3, <2>5, <2>7 DEF Ahead, Short, hostVars
  <1>13. lost' \subseteq hurt' /\ (Dead(c) => Dead(c)')
    BY <1>3, <1>4 DEF Basics, Dead
  <1> QED BY <1>2, <1>6, <1>7, <1>8, <1>9, <1>10, <1>11, <1>12, <1>13, OwnStepStays DEF Own

LEMMA BreakStays ==
  ASSUME HealthInv, NEW c \in Client, Break(c)
  PROVE  HealthInv'
  <1> USE DEF HealthInv
  <1>1. /\ c \in up /\ On(c)
        /\ up' = up \ {c} /\ alive' = alive \ {c} /\ hurt' = hurt \cup {c}
        /\ word' = [word EXCEPT ![c] = None]
        /\ toClient' = [toClient EXCEPT ![c] = IF c \in Known /\ On(Host) THEN @ ELSE << >>]
        /\ UNCHANGED <<hostVars, clientVars, timeVars, lost>>
    BY DEF Break
  <1>2. LinkTypes /\ c # Host
    BY Patiences DEF SessionInv, Types
  <1>3. OwnStep(c)
    BY <1>1, <1>2 DEF OwnStep, hostVars, clientVars, timeVars, LinkTypes
  <1>4. /\ Known' = Known /\ InMatch' = InMatch /\ On(Host)' = On(Host)
        /\ Loading(Host)' = Loading(Host) /\ Polls(Host)' = Polls(Host) /\ Known \subseteq Client
    BY <1>3, OwnFacts
  <1>5. c \notin Healthy' /\ ~Takes(c)' /\ c \notin up' /\ word'[c] = None
        /\ toClient'[c] = IF c \in Known /\ On(Host) THEN toClient[c] ELSE << >>
    BY <1>1, <1>2 DEF Healthy, Takes, LinkTypes
  <1>6. Own(c)
    BY OwnHolds
  <1>7. \A k : Has(toClient[c], k)' => Has(toClient[c], k)
    <2>1. \A k : ~Has(<< >>, k)
      BY EmptyQueue
    <2> QED BY <1>5, <2>1 DEF Has, Note
  <1>8. OwnBasics(c)'
    BY <1>1, <1>5, <1>6, <1>7 DEF Own, OwnBasics, hostVars, clientVars
  <1>9. OwnStay(c)' /\ OwnMatch(c)' /\ OwnLobby(c)' /\ OwnLead(c)'
    BY <1>5 DEF OwnStay, OwnMatch, OwnLobby, OwnLead
  <1>10. OwnQueue(c)'
    BY <1>5 DEF OwnQueue
  <1>11. OwnLag(c)'
    <2> SUFFICES ASSUME c \in Known, toClient'[c] # << >>, NEW d \in Client, Takes(d)', HasRead(d)'
                 PROVE  Ahead(d, c)'
      BY <1>4 DEF OwnLag
    <2>1. d # c /\ toClient[c] # << >>
      BY <1>5 DEF HasRead
    <2>2. Takes(d) /\ HasRead(d)
      BY <1>3, <2>1, OwnFacts
    <2> QED BY <1>1, <1>5, <1>6, <2>1, <2>2 DEF Own, OwnLag, Ahead, hostVars, timeVars
  <1>12. lost' \subseteq hurt' /\ ~Dead(c)
    BY <1>1, <1>2 DEF Basics, Dead, On
  <1>13. SessionInv'
    BY BreakKeeps
  <1> QED BY <1>3, <1>8, <1>9, <1>10, <1>11, <1>12, <1>13, OwnStepStays DEF Own

LEMMA MendStays ==
  ASSUME HealthInv, ~Flaps, NEW c \in Client, Mend(c)
  PROVE  HealthInv'
  <1> USE DEF HealthInv
  <1>1. /\ c \notin up /\ ~InMatch /\ up' = up \cup {c}
        /\ UNCHANGED <<hostVars, clientVars, toClient, word, alive, timeVars, hurt, lost>>
    BY DEF Mend
  <1>2. OwnStep(c)
    BY <1>1 DEF OwnStep, hostVars, clientVars, timeVars
  <1>3. Known' = Known /\ InMatch' = InMatch /\ On(Host)' = On(Host) /\ Healthy' = Healthy
    BY <1>1, <1>2, OwnFacts DEF Healthy
  <1>4. c \notin Healthy /\ ~InMatch
    BY <1>1 DEF Basics
  <1>5. \A k : Has(toClient[c], k)' = Has(toClient[c], k)
    BY <1>1, SameQueue
  <1>6. OwnBasics(c)'
    BY <1>1, <1>3, <1>4, <1>5, OwnHolds DEF Own, OwnBasics, hostVars, clientVars
  <1>7. OwnStay(c)' /\ OwnMatch(c)' /\ OwnLobby(c)' /\ OwnQueue(c)' /\ OwnLead(c)' /\ OwnLag(c)'
    BY <1>3, <1>4 DEF OwnStay, OwnMatch, OwnLobby, OwnQueue, OwnLead, OwnLag, Takes
  <1>8. lost' \subseteq hurt'
    BY <1>1 DEF Basics
  <1>9. SessionInv'
    BY MendKeeps
  <1> QED BY <1>2, <1>4, <1>6, <1>7, <1>8, <1>9, OwnStepStays DEF Own

\* A client whose link works gives up only in a match that is about to end.
GivesUp(c) ==
  /\ HasRead(c) /\ hostPhase = "playing" /\ stalled
  /\ \E h \in Known : Dead(h) /\ hostSilence[h] >= PausePatience
  /\ word[c] # None \/ Short(hostSilence[c])

LEMMA GivesUpLast ==
  ASSUME HealthInv, NEW c \in Client, c \in Healthy, c \in Known, On(Host),
         Still(c), silence[c] >= Patience(c)
  PROVE  GivesUp(c)
  <1> USE DEF HealthInv
  <1>1. c \in up /\ HasRead(c) /\ Polls(c) /\ c # Host
    BY Patiences DEF Basics, Still, HasRead
  <1>2. /\ silence[c] \in Nat /\ silence[c] <= PausePatience /\ hostSilence[c] \in Nat
        /\ load[Host] \in Nat /\ load[Host] <= LoadTime
        /\ \A h \in Known : hostSilence[h] \in Nat
    BY Clocks DEF SessionInv, Seats, PeersOK, Known
  <1>3. Patience(c) \in Nat /\ Patience(c) > 1
    BY Patiences DEF Patience
  <1>4. hostPhase # "lobby"
    <2> SUFFICES ASSUME hostPhase = "lobby" PROVE FALSE
      OBVIOUS
    <2>1. silence[c] <= 1
      BY <1>1, <1>2 DEF Lobby, Chats
    <2> QED BY <1>2, <1>3, <2>1
  <1>5. InMatch /\ (Opening(Host) \/ hostPhase = "playing")
    BY <1>4 DEF SessionInv, Types, HostTypes, On, InMatch, MatchPhase, Phase, Opening, PhaseOf
  <1>6. Takes(c)
    BY <1>1, <1>5 DEF Takes, Polls, On
  <1>7. /\ phase[c] \in {"started", "playing"} /\ toldPause[c] = stalled
        /\ View(c) /\ Hears(c) /\ Unplayed(c) /\ Speaks(c)
    BY <1>1, <1>6, WhoHasRead DEF Views, Hearers, Speakers
  <1>8. Patience(c) = IF stalled THEN PausePatience ELSE IF ~sawFrame[c] THEN LoadPatience ELSE LinkPatience
    BY <1>7 DEF Patience, MatchPhase
  <1>9. ~Opening(Host)
    <2> SUFFICES ASSUME Opening(Host) PROVE FALSE
      OBVIOUS
    <2>1. ~sawFrame[c] /\ silence[c] <= load[Host]
      BY <1>7 DEF View, Hears
    <2> QED BY <1>2, <1>8, <2>1, Patiences
  <1>10. hostPhase = "playing"
    BY <1>5, <1>9
  <1>11. stalled
    <2> SUFFICES ASSUME ~stalled PROVE FALSE
      OBVIOUS
    <2>1. silence[c] <= 1 \/ (~sawFrame[c] /\ silence[c] <= LoadTime)
      BY <1>2, <1>7, <1>10 DEF Hears
    <2> QED BY <1>2, <1>8, <2>1, Patiences
  <1>12. silence[c] = PausePatience
    BY <1>2, <1>8, <1>11, Patiences
  <1>13. ~Short(silence[c]) /\ ~Later(silence[c])
    BY <1>2, <1>12, ShortFacts
  <1>14. \E h \in Known : Dead(h) /\ hostSilence[h] >= PausePatience
    BY <1>7, <1>10, <1>11, <1>12, <1>13 DEF Hears
  <1>15. word[c] # None \/ Short(hostSilence[c])
    BY <1>2, <1>7, ShortFacts DEF Speaks
  <1> QED BY <1>1, <1>10, <1>11, <1>14, <1>15 DEF GivesUp

\* The end of a client, when it is no end for one whose link works.
LEMMA OverStays ==
  ASSUME HealthInv, NEW c \in Client, Over(c), c \in Healthy /\ c \in Known /\ On(Host) => GivesUp(c),
         hurt' = hurt, lost' \subseteq hurt, SessionInv'
  PROVE  HealthInv'
  <1> USE DEF HealthInv
  <1>1. /\ phase' = [phase EXCEPT ![c] = "over"]
        /\ pend' = [pend EXCEPT ![c] = {}]
        /\ toClient' = [toClient EXCEPT ![c] = << >>]
        /\ alive' = alive \ {c}
        /\ silence' = [silence EXCEPT ![c] = 0]
        /\ sawFrame' = [sawFrame EXCEPT ![c] = FALSE]
        /\ toldPause' = [toldPause EXCEPT ![c] = FALSE]
        /\ lines' = [lines EXCEPT ![c] = FALSE]
        /\ UNCHANGED <<hostVars, slot, word, up, hostSilence, moved, load>>
    BY DEF Over
  <1>2. ClientTypes /\ LinkTypes /\ TimeTypes /\ c # Host
    BY Patiences DEF SessionInv, Types
  <1>3. /\ phase'[c] = "over" /\ pend'[c] = {} /\ toClient'[c] = << >> /\ ~sawFrame'[c] /\ ~toldPause'[c]
    BY <1>1, <1>2 DEF ClientTypes, LinkTypes
  <1>4. OwnStep(c)
    BY <1>1, <1>2 DEF OwnStep, hostVars, ClientTypes, LinkTypes, TimeTypes
  <1>5. Known' = Known /\ InMatch' = InMatch /\ On(Host)' = On(Host) /\ Healthy' = Healthy
        /\ Known \subseteq Client
    BY <1>4, OwnFacts DEF Healthy
  <1>6. ~Takes(c)'
    BY <1>3 DEF Takes
  <1>7. \A k : ~Has(toClient'[c], k)
    BY <1>3, EmptyQueue
  <1>8. OwnBasics(c)'
    <2>1. \A k : ~Has(toClient[c], k)'
      BY <1>7 DEF Has, Note
    <2> QED BY <1>1, <1>3, <1>5, <2>1, OwnHolds DEF Own, OwnBasics, hostVars
  <1>9. OwnStay(c)'
    <2> SUFFICES ASSUME On(Host), c \in Healthy
                 PROVE  (IF c \in Known THEN Joined(c) /\ Ending(c) ELSE Stranger(c))'
      BY <1>5 DEF OwnStay
    <2>1. CASE c \in Known
      <3>1. Joined(c) /\ toClient[c] = << >>
        BY <2>1 DEF Stays, GivesUp, HasRead
      <3>2. Joined(c)'
        <4>1. \A k : ~Has(toClient[c], k)'
          BY <1>7 DEF Has, Note
        <4> QED BY <1>1, <3>1, <4>1 DEF Joined, hostVars
      <3>3. \A h \in Known : Dead(h) => Dead(h)'
        BY <1>1, <1>2, <1>5 DEF Dead, ClientTypes
      <3>4. Ending(c)'
        BY <1>1, <1>5, <2>1, <3>3 DEF GivesUp, Ending, Short, hostVars
      <3> QED BY <1>5, <2>1, <3>2, <3>4
    <2>2. CASE c \notin Known
      <3>1. Stranger(c)
        BY <2>2 DEF Stays
      <3> QED BY <1>1, <1>3, <1>5, <2>2, <3>1 DEF Stranger
    <2> QED BY <2>1, <2>2
  <1>10. OwnMatch(c)' /\ OwnLead(c)'
    BY <1>6 DEF OwnMatch, OwnLead
  <1>11. OwnLobby(c)'
    <2>1. hostPhase = "lobby" => On(Host) /\ hostPhase # "playing"
      BY DEF On
    <2> QED BY <1>1, <1>5, <2>1 DEF OwnLobby, GivesUp, hostVars
  <1>12. OwnQueue(c)' /\ OwnLag(c)'
    BY <1>3 DEF OwnQueue, OwnLag
  <1>13. lost' \subseteq hurt' /\ (Dead(c) => Dead(c)')
    BY <1>1, <1>3, <1>5 DEF Dead
  <1> QED BY <1>4, <1>8, <1>9, <1>10, <1>11, <1>12, <1>13, OwnStepStays DEF Own

LEMMA TimesOutStays ==
  ASSUME HealthInv, NEW c \in Client, TimesOut(c)
  PROVE  HealthInv'
  <1> USE DEF HealthInv
  <1>1. /\ Still(c) /\ silence[c] >= Patience(c) /\ Over(c) /\ Polls(c)
        /\ lost' = IF On(Host) /\ slot[c] # None /\ (InMatch => Silent = {})
                   THEN lost \cup {c} ELSE lost
        /\ hurt' = hurt
    BY DEF TimesOut, Still
  <1>2. c \in Healthy /\ c \in Known /\ On(Host) => GivesUp(c)
    BY <1>1, GivesUpLast
  <1>3. ASSUME c \in Healthy, On(Host), slot[c] # None PROVE InMatch /\ Silent # {}
    <2>1. c \in Known
      BY <1>3 DEF Stays, Stranger
    <2>2. PICK h \in Known : Dead(h) /\ hostSilence[h] >= PausePatience
      BY <1>2, <1>3, <2>1 DEF GivesUp
    <2>3. InMatch /\ HostPatience = PausePatience
      BY <1>2, <1>3, <2>1 DEF GivesUp, InMatch, MatchPhase, HostPatience
    <2>4. Unread(h) = {} /\ h \in Client
      BY <2>3, MatchPeers
    <2>5. ~Heard(h)
      BY <2>2, <2>4 DEF Heard, Readable, Dead, Basics
    <2>6. h \in Silent
      BY <2>2, <2>3, <2>5 DEF Silent
    <2> QED BY <2>3, <2>6
  <1>4. lost' \subseteq hurt
    BY <1>1, <1>3 DEF Basics, Healthy
  <1>5. SessionInv'
    BY TimesOutKeeps
  <1> QED BY <1>1, <1>2, <1>4, <1>5, OverStays

\* A client reads a message that does not end it.
LEMMA MessageStays ==
  ASSUME HealthInv, NEW c \in Client, NEW dup \in Duplicate(c, Head(toClient[c])[1]),
         NEW kind, NEW m,
         m = Head(toClient[c]), kind = IF dup THEN "duplicate" ELSE m[1],
         kind \notin {"reject", "disconnect"},
         Polls(c), c \in up, toClient[c] # << >>, SessionInv',
         toClient' = [toClient EXCEPT ![c] = Tail(@)],
         silence' = [silence EXCEPT ![c] = 0],
         lines' = [lines EXCEPT ![c] = TRUE],
         phase' = [phase EXCEPT ![c] = IF kind = "welcome" THEN "lobby"
                                       ELSE IF kind = "start" THEN "started" ELSE @],
         slot' = [slot EXCEPT ![c] = IF kind = "welcome" THEN m[2] ELSE @],
         pend' = [pend EXCEPT ![c] =
                    IF kind = "welcome" THEN @ \cup {Ready(m[2])}
                    ELSE IF m[1] # "welcome" /\ c \in Known THEN Unread(c) ELSE @],
         sawFrame' = [sawFrame EXCEPT ![c] = @ \/ kind = "frame"],
         toldPause' = [toldPause EXCEPT ![c] =
                         IF kind = "pause" THEN TRUE ELSE IF kind = "resume" THEN FALSE ELSE @],
         UNCHANGED <<hostVars, word, alive, up, hostSilence, moved, load, hurt, lost>>
  PROVE  HealthInv'
  <1> USE DEF HealthInv
  <1> DEFINE q == toClient[c]  t == Tail(q)
  <1>1. ClientTypes /\ LinkTypes /\ TimeTypes /\ c # Host /\ stalled \in BOOLEAN
        /\ playerCount \in PlayerCounts /\ PeersOK(peers)
    BY Patiences DEF SessionInv, Types, HostTypes, Seats
  <1>2. q \in Seq(Told) /\ q # << >> /\ m = Head(q)
    BY <1>1 DEF LinkTypes
  <1>3. /\ toClient'[c] = t /\ silence'[c] = 0 /\ lines'[c]
        /\ phase'[c] = IF kind = "welcome" THEN "lobby" ELSE IF kind = "start" THEN "started" ELSE phase[c]
        /\ slot'[c] = IF kind = "welcome" THEN m[2] ELSE slot[c]
        /\ pend'[c] = IF kind = "welcome" THEN pend[c] \cup {Ready(m[2])}
                      ELSE IF m[1] # "welcome" /\ c \in Known THEN Unread(c) ELSE pend[c]
        /\ sawFrame'[c] = (sawFrame[c] \/ kind = "frame")
        /\ toldPause'[c] = IF kind = "pause" THEN TRUE ELSE IF kind = "resume" THEN FALSE ELSE toldPause[c]
    BY <1>1 DEF ClientTypes, LinkTypes, TimeTypes
  <1>4. OwnStep(c)
    BY <1>1 DEF OwnStep, hostVars, ClientTypes, LinkTypes, TimeTypes
  <1>5. phase[c] \notin {"new", "over", "loading"} /\ phase'[c] \notin {"new", "over", "loading"}
    BY <1>1, <1>3 DEF Polls, On, Loading
  <1>6. /\ Known' = Known /\ InMatch' = InMatch /\ On(Host)' = On(Host) /\ Healthy' = Healthy
        /\ Opening(Host)' = Opening(Host) /\ Loading(Host)' = Loading(Host)
        /\ On(c)' = On(c) /\ Loading(c)' = Loading(c) /\ Takes(c)' = Takes(c)
        /\ (Host \in moved' <=> Host \in moved) /\ Polls(Host)' = Polls(Host) /\ Known \subseteq Client
    BY <1>1, <1>4, <1>5, OwnFacts DEF Healthy, On, Loading, Takes
  <1>7. Own(c)
    BY OwnHolds
  <1> HIDE DEF q, t
  <1>8. /\ m \in Told
        /\ \A k : Has(t, k) => Has(q, k)
        /\ \A k : m = Note(k) => Has(q, k)
    BY <1>2, ReadQueue DEF t
  <1>9. /\ m[1] # "welcome" => m = Note(m[1])
        /\ m[1] = "welcome" => m[2] \in Slot /\ m \notin Pauses /\ m # Note("start")
        /\ m = Note("start") <=> m[1] = "start"
    BY <1>8, NoteFacts
  <1>10. \A k : kind = k /\ k # "duplicate" /\ k # "welcome" => m = Note(k)
    BY <1>9
  <1>11. kind = "welcome" => slot[c] = None
    BY DEF Duplicate
  <1>12. \A k : Has(toClient[c], k)' => Has(q, k)
    BY <1>3, <1>8 DEF Has, Note
  <1>13. OwnBasics(c)'
    <2>1. phase'[c] \in {"new", "joining"} => slot'[c] = None
      BY <1>3, <1>7 DEF Own, OwnBasics
    <2>2. phase'[c] = "lobby" => slot'[c] # None
      BY <1>1, <1>3, <1>7, <1>9, SlotFacts DEF Own, OwnBasics
    <2>3. hostPhase = "lobby" =>
            /\ word'[c] \in {None, "alive"} /\ ~sawFrame'[c] /\ ~toldPause'[c]
            /\ \A k \in {"pause", "resume", "frame"} : ~Has(toClient[c], k)'
      BY <1>3, <1>7, <1>8, <1>10, <1>12 DEF Own, OwnBasics, q
    <2> QED BY <1>5, <2>1, <2>2, <2>3 DEF OwnBasics, hostVars
  <1>14. On(Host) /\ c \in Healthy => c \in Known
    <2> SUFFICES ASSUME On(Host), c \in Healthy, c \notin Known PROVE FALSE
      OBVIOUS
    <2>1. slot[c] = None /\ q = <<Note("reject")>>
      BY <1>2, <1>7 DEF Own, OwnStay, Stranger, q
    <2>2. m = Note("reject")
      <3>1. \A x : Head(<<x>>) = x
        OBVIOUS
      <3> QED BY <1>2, <2>1, <3>1
    <2>3. kind = "reject"
      <3>1. m[1] = "reject"
        BY <2>2, MessageFacts
      <3> QED BY <3>1 DEF Duplicate
    <2> QED BY <2>3
  <1>15. OwnStay(c)'
    <2> SUFFICES ASSUME On(Host), c \in Healthy PROVE Joined(c)'
      BY <1>5, <1>6, <1>14 DEF OwnStay
    <2>1. Joined(c) /\ c \in Known
      BY <1>14, <1>7 DEF Own, OwnStay
    <2>2. ~Has(toClient[c], "reject")' /\ ~Has(toClient[c], "disconnect")'
      BY <1>12, <2>1 DEF Joined, q
    <2>3. slot'[c] # None
      <3>1. CASE slot[c] = None
        <4>1. m = Welcome(peers[c].slot) /\ ~peers[c].again
          BY <1>2, <2>1, <3>1 DEF Joined, q
        <4>2. kind = "welcome" /\ m[2] = peers[c].slot
          BY <3>1, <4>1, MessageFacts DEF Duplicate
        <4> QED BY <1>1, <1>3, <1>6, <1>9, <2>1, <4>2, SlotFacts
      <3>2. CASE slot[c] # None
        BY <1>3, <1>11, <3>2
      <3> QED BY <3>1, <3>2
    <2> QED BY <2>1, <2>2, <2>3 DEF Joined, hostVars
  <1>16. OwnMatch(c)'
    <2> SUFFICES ASSUME Takes(c) PROVE (View(c) /\ Unplayed(c) /\ Speaks(c) /\ Hears(c))'
      BY <1>6 DEF OwnMatch
    <2>1. c \in Known /\ c \in Healthy /\ InMatch /\ On(Host)
      BY DEF Takes, On, InMatch, MatchPhase
    <2>2. slot[c] # None /\ ~peers[c].again
      BY <1>7, <2>1, MatchPeers DEF Own, OwnStay, Joined
    <2>3. kind = IF m[1] = "welcome" THEN "duplicate" ELSE m[1]
      BY <2>1, <2>2 DEF Duplicate
    <2>4. View(c) /\ Unplayed(c) /\ Speaks(c)
      BY <1>7 DEF Own, OwnMatch
    <2>5. /\ phase'[c] = IF m = Note("start") THEN "started" ELSE phase[c]
          /\ sawFrame'[c] = (sawFrame[c] \/ m = Note("frame"))
          /\ toldPause'[c] = IF m = Note("pause") THEN TRUE ELSE IF m = Note("resume") THEN FALSE ELSE toldPause[c]
      <3>1. \A k : k # "welcome" => (m = Note(k) <=> m[1] = k)
        BY <1>9, MessageFacts
      <3>2. /\ kind = "start" <=> m = Note("start")
            /\ kind = "frame" <=> m = Note("frame")
            /\ kind = "pause" <=> m = Note("pause")
            /\ kind = "resume" <=> m = Note("resume")
            /\ kind # "welcome"
        BY <2>3, <3>1
      <3>3. phase'[c] = IF m = Note("start") THEN "started" ELSE phase[c]
        BY <1>3, <3>2
      <3>4. sawFrame'[c] = (sawFrame[c] \/ m = Note("frame"))
        BY <1>3, <3>2
      <3>5. toldPause'[c] = IF m = Note("pause") THEN TRUE ELSE IF m = Note("resume") THEN FALSE ELSE toldPause[c]
        BY <1>3, <3>2
      <3> QED BY <3>3, <3>4, <3>5
    <2>6. /\ phase[c] \in MatchPhase => m # Note("start")
          /\ \/ phase'[c] \in MatchPhase /\ ~Starts(t)
             \/ phase'[c] = "lobby" /\ StartsOnce(t)
      <3>1. CASE phase[c] \in MatchPhase /\ ~Starts(q)
        <4>1. ~Starts(t) /\ m # Note("start")
          BY <1>2, <3>1, HeadFacts DEF t
        <4> QED BY <2>5, <3>1, <4>1
      <3>2. CASE phase[c] = "lobby" /\ StartsOnce(q)
        <4>1. IF m = Note("start") THEN ~Starts(t) ELSE StartsOnce(t)
          BY <1>2, <3>2, StartRead DEF t
        <4> QED BY <2>5, <3>2, <4>1 DEF MatchPhase
      <3> QED BY <2>4, <3>1, <3>2 DEF View, q
    <2>7. View(c)'
      <3>1. Starts(toClient[c])' = Starts(t) /\ StartsOnce(toClient[c])' = StartsOnce(t)
        BY <1>3, NewQueue
      <3>2. WillKnow(t, toldPause'[c], stalled)
        <4>1. WillKnow(q, toldPause[c], stalled) /\ toldPause[c] \in BOOLEAN
          BY <1>1, <2>4 DEF View, q, ClientTypes
        <4>2. WillKnow(t, IF m = Note("pause") THEN TRUE
                          ELSE IF m = Note("resume") THEN FALSE ELSE toldPause[c], stalled)
          BY <1>1, <1>2, <4>1, ReadQueue DEF t
        <4> QED BY <2>5, <4>2
      <3>3. WillKnow(toClient[c], toldPause[c], stalled)'
        <4>1. stalled' = stalled
          BY DEF hostVars
        <4> QED BY <1>3, <3>2, <4>1, NewQueue
      <3>4. Opening(Host) => ~sawFrame'[c] /\ ~Has(toClient[c], "frame")'
        BY <1>8, <1>12, <2>4, <2>5 DEF View, q
      <3>5. MatchPhase' = MatchPhase
        BY DEF MatchPhase
      <3> QED BY <1>6, <2>6, <3>1, <3>3, <3>4, <3>5 DEF View
    <2>8. Unplayed(c)' /\ Speaks(c)'
      <3>1. phase'[c] \in {"lobby", "started", "loading"} => phase[c] \in {"lobby", "started", "loading"}
        BY <2>4, <2>5, <2>6 DEF MatchPhase, View
      <3>2. Unplayed(c)'
        BY <2>4, <3>1 DEF Unplayed, Awaited, hostVars
      <3>3. phase'[c] = "playing" <=> phase[c] = "playing"
        BY <2>5, <2>6 DEF MatchPhase
      <3> QED BY <1>5, <2>4, <3>2, <3>3 DEF Speaks, Awaited, hostVars
    <2> QED BY <1>1, <1>3, <1>4, <2>7, <2>8, JustHeard
  <1>17. OwnLobby(c)'
    BY <1>2, <1>3, <1>6, <1>7 DEF Own, OwnLobby, Chats, hostVars
  <1>18. OwnQueue(c)'
    <2> SUFFICES ASSUME InMatch, c \in Known, pend'[c] # {} 
                 PROVE  /\ phase'[c] = "lobby" /\ Starts(toClient[c])'
                        /\ c \in moved => ~stalled /\ Host \in moved
                        /\ Host \notin moved => ~stalled
      BY <1>2, <1>3, <1>6, <1>7 DEF Own, OwnQueue, hostVars, q
    <2>1. slot[c] # None /\ Unread(c) = {}
      BY MatchPeers
    <2>2. m[1] = "welcome" /\ kind = "duplicate" /\ pend'[c] = pend[c]
      BY <1>3, <2>1 DEF Duplicate
    <2>3. /\ phase[c] = "lobby" /\ Starts(q)
          /\ c \in moved => ~stalled /\ Host \in moved
          /\ Host \notin moved => ~stalled
      BY <1>7, <2>2 DEF Own, OwnQueue, q
    <2>4. Starts(t)
      BY <1>2, <1>9, <2>2, <2>3, StartRead DEF t
    <2>5. Starts(toClient[c])'
      BY <1>3, <2>4 DEF Starts, Note
    <2> QED BY <1>3, <2>2, <2>3, <2>5
  <1>19. OwnLead(c)'
    <2> SUFFICES ASSUME Takes(c), HasRead(c)', NEW h \in Known, toClient'[h] # << >> PROVE Ahead(c, h)'
      BY <1>6 DEF OwnLead
    <2>1. h # c /\ toClient[h] # << >>
      <3>1. h # c
        BY DEF HasRead
      <3> QED BY <1>4, <1>6, <3>1 DEF OwnStep
    <2> QED BY <1>1, <1>3, <1>4, <2>1, JustHeard
  <1>20. OwnLag(c)'
    <2> SUFFICES ASSUME c \in Known, toClient'[c] # << >>, NEW d \in Client, Takes(d)', HasRead(d)'
                 PROVE  Ahead(d, c)'
      BY <1>6 DEF OwnLag
    <2>1. d # c
      BY DEF HasRead
    <2>2. Takes(d) /\ HasRead(d) /\ silence'[d] = silence[d]
      BY <1>4, <2>1, OwnFacts DEF OwnStep
    <2>3. Ahead(d, c)
      BY <1>2, <1>7, <2>2 DEF Own, OwnLag, q
    <2> QED BY <1>6, <2>2, <2>3 DEF Ahead, Short, hostVars
  <1>21. lost' \subseteq hurt' /\ ~Dead(c)
    BY <1>5 DEF Basics, Dead
  <1> QED BY <1>4, <1>13, <1>15, <1>16, <1>17, <1>18, <1>19, <1>20, <1>21, OwnStepStays DEF Own

LEMMA ClientReadsStays ==
  ASSUME HealthInv, NEW c \in Client, ClientReads(c)
  PROVE  HealthInv'
  <1> USE DEF HealthInv
  <1>1. Polls(c) /\ c \in up /\ toClient[c] # << >> /\ hurt' = hurt /\ lost' = lost
    BY DEF ClientReads
  <1>2. SessionInv'
    BY ClientReadsKeeps
  <1>3. PICK dup \in Duplicate(c, Head(toClient[c])[1]) :
          LET m == Head(toClient[c])
              kind == IF dup THEN "duplicate" ELSE m[1]
              taken == kind = "welcome"
          IN  IF kind \in {"reject", "disconnect"} THEN Over(c)
              ELSE /\ toClient' = [toClient EXCEPT ![c] = Tail(@)]
                   /\ silence' = [silence EXCEPT ![c] = 0]
                   /\ lines' = [lines EXCEPT ![c] = TRUE]
                   /\ phase' = [phase EXCEPT ![c] = IF taken THEN "lobby"
                                  ELSE IF kind = "start" THEN "started" ELSE @]
                   /\ slot' = [slot EXCEPT ![c] = IF taken THEN m[2] ELSE @]
                   /\ pend' = [pend EXCEPT ![c] =
                        IF taken THEN @ \cup {Ready(m[2])}
                        ELSE IF m[1] # "welcome" /\ c \in Known THEN Unread(c) ELSE @]
                   /\ sawFrame' = [sawFrame EXCEPT ![c] = @ \/ kind = "frame"]
                   /\ toldPause' = [toldPause EXCEPT ![c] =
                        IF kind = "pause" THEN TRUE ELSE IF kind = "resume" THEN FALSE ELSE @]
                   /\ UNCHANGED <<hostVars, word, alive, up, hostSilence, moved, load>>
    BY DEF ClientReads
  <1> DEFINE m == Head(toClient[c])  kind == IF dup THEN "duplicate" ELSE m[1]
  <1>4. CASE kind \in {"reject", "disconnect"}
    <2>1. Over(c)
      BY <1>3, <1>4
    <2>2. m[1] \in {"reject", "disconnect"}
      BY <1>4
    <2>3. ~(c \in Healthy /\ c \in Known /\ On(Host))
      <3>1. toClient[c] \in Seq(Told)
        BY DEF SessionInv, Types, LinkTypes
      <3>2. m \in Told /\ \A k : m = Note(k) => Has(toClient[c], k)
        BY <1>1, <3>1, ReadQueue
      <3>3. m = Note(m[1])
        BY <2>2, <3>2, NoteFacts
      <3>4. Has(toClient[c], "reject") \/ Has(toClient[c], "disconnect")
        BY <2>2, <3>2, <3>3
      <3> QED BY <3>4 DEF Stays, Joined
    <2>4. lost \subseteq hurt
      BY DEF Basics
    <2> QED BY <1>1, <1>2, <2>1, <2>3, <2>4, OverStays
  <1>5. CASE kind \notin {"reject", "disconnect"}
    <2> HIDE DEF m, kind
    <2>1. m = Head(toClient[c]) /\ kind = IF dup THEN "duplicate" ELSE m[1]
      BY DEF m, kind
    <2>2. /\ toClient' = [toClient EXCEPT ![c] = Tail(@)]
          /\ silence' = [silence EXCEPT ![c] = 0]
          /\ lines' = [lines EXCEPT ![c] = TRUE]
          /\ phase' = [phase EXCEPT ![c] = IF kind = "welcome" THEN "lobby"
                                           ELSE IF kind = "start" THEN "started" ELSE @]
          /\ slot' = [slot EXCEPT ![c] = IF kind = "welcome" THEN m[2] ELSE @]
          /\ pend' = [pend EXCEPT ![c] =
                        IF kind = "welcome" THEN @ \cup {Ready(m[2])}
                        ELSE IF m[1] # "welcome" /\ c \in Known THEN Unread(c) ELSE @]
          /\ sawFrame' = [sawFrame EXCEPT ![c] = @ \/ kind = "frame"]
          /\ toldPause' = [toldPause EXCEPT ![c] =
                             IF kind = "pause" THEN TRUE ELSE IF kind = "resume" THEN FALSE ELSE @]
          /\ UNCHANGED <<hostVars, word, alive, up, hostSilence, moved, load>>
      BY <1>3, <1>5 DEF m, kind
    <2> QED BY <1>1, <1>2, <1>5, <2>1, <2>2, MessageStays
  <1> QED BY <1>4, <1>5

-----------------------------------------------------------------------------
(* The steps of the host.                                                  *)

\* A message to everybody in the lobby or the match, that is not about who is
\* in it.
LEMMA JoinedGrows ==
  ASSUME HealthInv, NEW c \in Known, Joined(c), NEW m \in Told,
         m \notin {Note("reject"), Note("disconnect")},
         toClient'[c] = Queue(toClient[c], m) \/ toClient'[c] = toClient[c],
         phase'[c] = phase[c], slot'[c] = slot[c],
         peers'[c].slot = peers[c].slot, peers'[c].again = peers[c].again
  PROVE  Joined(c)'
  <1>1. c \in Client /\ toClient[c] \in Seq(Told)
    BY DEF HealthInv, SessionInv, Types, LinkTypes, Seats, PeersOK, Known
  <1>2. \A k \in {"reject", "disconnect"} : Has(toClient[c], k)' => Has(toClient[c], k)
    <2>1. \A k : Has(toClient[c], k)' = Has(toClient'[c], k)
      BY <1>1, NewQueue
    <2>2. \A k : Has(Queue(toClient[c], m), k) => Has(toClient[c], k) \/ m = Note(k)
      BY <1>1, GrownQueue
    <2> QED BY <2>1, <2>2
  <1>3. toClient[c] # << >> => toClient'[c] # << >> /\ Head(toClient'[c]) = Head(toClient[c])
    BY <1>1, GrownQueue, QueueFacts
  <1> QED BY <1>2, <1>3 DEF Joined, Welcome

LEMMA ViewGrows ==
  ASSUME HealthInv, NEW c \in Client, View(c), NEW m \in Told,
         m \notin Pauses, m # Note("start"), m = Note("frame") => ~Opening(Host),
         toClient'[c] = Queue(toClient[c], m), phase'[c] = phase[c], sawFrame'[c] = sawFrame[c],
         toldPause'[c] = toldPause[c], stalled' = stalled, Opening(Host)' => Opening(Host)
  PROVE  View(c)'
  <1> DEFINE q == toClient[c]  g == Queue(q, m)
  <1>1. q \in Seq(Told) /\ toldPause[c] \in BOOLEAN /\ stalled \in BOOLEAN
    BY DEF HealthInv, SessionInv, Types, LinkTypes, HostTypes, ClientTypes
  <1>2. /\ \A k : Has(toClient[c], k)' = Has(g, k)
        /\ Starts(toClient[c])' = Starts(g)
        /\ StartsOnce(toClient[c])' = StartsOnce(g)
        /\ WillKnow(toClient[c], toldPause[c], stalled)' = WillKnow(g, toldPause[c], stalled)
    BY NewQueue
  <1>3. /\ Starts(g) => Starts(q)
        /\ StartsOnce(q) => StartsOnce(g)
        /\ Has(g, "frame") => Has(q, "frame") \/ m = Note("frame")
        /\ WillKnow(q, toldPause[c], stalled) => WillKnow(g, toldPause[c], stalled)
    BY <1>1, GrownQueue, StartQueue
  <1> HIDE DEF g
  <1> QED BY <1>2, <1>3 DEF View, MatchPhase

\* A stranger is welcomed, or turned away.
LEMMA HostReadsHelloStays ==
  ASSUME HealthInv, NEW c \in Client, HostReadsHello(c)
  PROVE  HealthInv'
  <1> USE DEF HealthInv
  <1> DEFINE state == Note("state")  no == InMatch \/ Free = {}
             answer == IF no THEN Note("reject") ELSE Welcome(Lowest(Free))
  <1>1. /\ Polls(Host) /\ c \notin Known /\ Readable(c)
        /\ toClient' = ToAll([toClient EXCEPT ![c] = <<answer>>], Known, state)
        /\ IF no THEN peers' = peers
           ELSE peers' = [q \in Known \cup {c} |->
                  IF q = c THEN [slot |-> Lowest(Free), ready |-> FALSE, got |-> 1,
                                 again |-> slot[c] # None]
                  ELSE peers[q]]
        /\ pend' = [pend EXCEPT ![c] = IF no THEN {} ELSE @]
        /\ hostSilence' = [hostSilence EXCEPT ![c] = 0]
        /\ UNCHANGED <<playerCount, hostPhase, seen, fresh, stalled, idle, phase, slot, sawFrame,
                       toldPause, lines, word, alive, up, silence, moved, load, hurt, lost>>
    BY DEF HostReadsHello
  <1> HIDE DEF no
  <1>2. ClientTypes /\ LinkTypes /\ TimeTypes /\ c # Host /\ Known \subseteq Client /\ HostTypes
    BY Patiences DEF SessionInv, Types, Seats, PeersOK, Known
  <1>3. state \in Told /\ state \notin Pauses /\ state # Note("start") /\ state # Note("frame")
        /\ state # Note("reject") /\ state # Note("disconnect")
    BY DEF Told, Pauses, Note
  <1>4. /\ \A d \in Known : d # c /\ toClient'[d] = Queue(toClient[d], state)
        /\ \A d \in Client \ Known : d # c => toClient'[d] = toClient[d]
        /\ toClient'[c] = <<answer>>
    BY <1>1, <1>2 DEF ToAll, LinkTypes
  <1> HIDE DEF state, answer
  <1>5. \A d \in Known : toClient'[d] # << >>
    BY <1>2, <1>3, <1>4, QueueFacts DEF LinkTypes
  <1>6. /\ Known' = IF no THEN Known ELSE Known \cup {c}
        /\ \A d \in Known : peers'[d] = peers[d]
        /\ ~no => peers'[c] = [slot |-> Lowest(Free), ready |-> FALSE, got |-> 1, again |-> slot[c] # None]
    BY <1>1 DEF Known
  <1>7. /\ InMatch' = InMatch /\ On(Host)' /\ On(Host) /\ Host \notin moved' /\ Host \notin moved
        /\ Healthy' = Healthy /\ ~Loading(Host) /\ ~Loading(Host)' /\ Opening(Host)' = Opening(Host)
    BY <1>1 DEF InMatch, On, Healthy, Polls, Loading, Opening, PhaseOf
  <1>8. \A d \in Client : pend'[d] \subseteq pend[d] /\ (d # c => pend'[d] = pend[d] /\ hostSilence'[d] = hostSilence[d])
    BY <1>1, <1>2 DEF ClientTypes, TimeTypes
  <1>9. c \in up /\ pend[c] # {} /\ hostSilence'[c] = 0
    BY <1>1, <1>2 DEF Readable, Unread, TimeTypes
  <1>10. Basics'
    <2>1. \A d \in Known' : peers'[d].ready => peers'[d].got = 2
      BY <1>6 DEF Basics
    <2>2. \A d \in Client : phase'[d] \in {"new", "over"} => pend'[d] = {}
      BY <1>1, <1>8 DEF Basics
    <2> QED BY <1>1, <1>7, <2>1, <2>2 DEF Basics
  <1>11. NoMatchYet'
    <2> SUFFICES ASSUME hostPhase = "lobby", NEW d \in Client, NEW k \in {"pause", "resume", "frame"}
                 PROVE  ~Has(toClient[d], k)'
      BY <1>1 DEF NoMatchYet
    <2>1. ~Has(toClient[d], k) /\ toClient[d] \in Seq(Told)
      BY <1>2 DEF NoMatchYet, LinkTypes
    <2>2. Has(toClient[d], k)' = Has(toClient'[d], k)
      BY NewQueue
    <2>3. CASE d \in Known
      <3>1. Note(k) # state
        BY DEF Note, state
      <3> QED BY <1>3, <1>4, <2>1, <2>2, <2>3, <3>1, GrownQueue
    <2>4. CASE d = c
      <3>1. answer # Note(k)
        BY DEF answer, Note, Welcome
      <3> QED BY <1>4, <2>2, <2>4, <3>1, HasOne
    <2> QED BY <1>4, <2>1, <2>2, <2>3, <2>4
  <1>12. Stays'
    <2> SUFFICES ASSUME NEW d \in Healthy
                 PROVE  (IF d \in Known THEN Joined(d) /\ (phase[d] = "over" => Ending(d)) ELSE Stranger(d))'
      BY <1>7 DEF Stays
    <2>1. CASE d \in Known
      <3>1. Joined(d)'
        BY <1>1, <1>3, <1>4, <1>6, <1>7, <2>1, JoinedGrows DEF Stays
      <3>2. Ending(d) => Ending(d)'
        <4>1. \A h \in Known : Dead(h) /\ hostSilence[h] >= PausePatience =>
                h \in Known' /\ Dead(h)' /\ hostSilence'[h] >= PausePatience
          BY <1>1, <1>2, <1>6, <1>8 DEF Dead
        <4>2. hostSilence'[d] = hostSilence[d]
          BY <1>1, <1>2, <1>8, <2>1
        <4> QED BY <1>1, <1>7, <4>1, <4>2 DEF Ending, Short, Later
      <3> QED BY <1>1, <1>6, <1>7, <2>1, <3>1, <3>2 DEF Stays
    <2>2. CASE d \notin Known /\ d # c
      BY <1>1, <1>4, <1>6, <1>7, <2>2 DEF Stays, Stranger, Healthy, Note
    <2>3. CASE d = c
      <3>1. slot[c] = None
        BY <1>1, <1>7, <2>3 DEF Stays, Stranger
      <3>2. CASE no
        BY <1>1, <1>4, <1>6, <2>3, <3>1, <3>2 DEF Stranger, Note, answer
      <3>3. CASE ~no
        <4>1. phase[c] = "joining"
          <5>1. phase[c] \notin MatchPhase
            BY <1>1, <1>7 DEF SessionInv, StartsTold
          <5>2. phase[c] \notin {"new", "over", "lobby"} /\ phase[c] \in Phase
            BY <1>2, <1>9, <3>1 DEF Basics, ClientTypes
          <5> QED BY <5>1, <5>2 DEF Phase, MatchPhase
        <4>2. /\ toClient'[c] # << >> /\ Head(toClient'[c]) = Welcome(Lowest(Free))
              /\ \A k \in {"reject", "disconnect"} : ~Has(toClient[c], k)'
          <5>1. toClient'[c] = <<Welcome(Lowest(Free))>>
            BY <1>4, <3>3 DEF answer
          <5>2. \A k \in {"reject", "disconnect"} : Welcome(Lowest(Free)) # Note(k)
            BY DEF Welcome, Note
          <5>3. \A k : Has(toClient[c], k)' = Has(<<Welcome(Lowest(Free))>>, k)
            BY <5>1, NewQueue
          <5> QED BY <5>1, <5>2, <5>3, HasOne
        <4>3. Joined(c)'
          <5>1. peers'[c].slot = Lowest(Free) /\ ~peers'[c].again
            <6> DEFINE b == slot[c] # None
            <6>1. peers'[c] = [slot |-> Lowest(Free), ready |-> FALSE, got |-> 1, again |-> b]
              BY <1>6, <3>3
            <6>2. b = FALSE
              BY <3>1
            <6> HIDE DEF b
            <6>3. peers'[c].slot = Lowest(Free) /\ peers'[c].again = FALSE
              BY <6>1, <6>2
            <6> QED BY <6>3
          <5>2. Head(toClient'[c]) = Welcome(peers[c].slot)'
            BY <4>2, <5>1 DEF Welcome
          <5>3. ~Has(toClient[c], "reject")' /\ ~Has(toClient[c], "disconnect")'
            BY <4>2
          <5>4. phase'[c] = "joining"
            BY <1>1, <4>1
          <5> QED BY <4>2, <5>1, <5>2, <5>3, <5>4 DEF Joined
        <4> QED BY <1>1, <1>6, <2>3, <3>3, <4>1, <4>3
      <3> QED BY <3>2, <3>3
    <2> QED BY <2>1, <2>2, <2>3
  <1>13. \A d \in Client : Takes(d)' => Takes(d) /\ d \in Known /\ d # c /\ no
    BY <1>1, <1>6, <1>7 DEF Takes, no
  <1>14. Views'
    BY <1>1, <1>3, <1>4, <1>7, <1>13, ViewGrows DEF Views
  <1>15. Speakers'
    <2> SUFFICES ASSUME NEW d \in Client, Takes(d)' PROVE Unplayed(d)' /\ Speaks(d)'
      BY DEF Speakers
    <2> QED BY <1>1, <1>6, <1>8, <1>13 DEF Speakers, Unplayed, Speaks, Awaited
  <1>16. Lobby'
    <2> SUFFICES ASSUME hostPhase = "lobby", NEW d \in Healthy, d \in Known' PROVE Chats(d)'
      BY <1>1, <1>7 DEF Lobby
    <2>1. toClient'[d] # << >>
      BY <1>4, <1>5, <1>6
    <2>2. d # c => Chats(d)
      BY <1>6 DEF Lobby
    <2>3. d # c => hostSilence'[d] = hostSilence[d]
      BY <1>8 DEF Healthy
    <2> QED BY <1>1, <1>7, <1>9, <2>1, <2>2, <2>3 DEF Chats, HasRead
  <1>17. Mute' /\ Acked'
    <2>1. Mute'
      BY <1>7 DEF Mute
    <2>2. Acked'
      <3> SUFFICES ASSUME InMatch, NEW h \in Known, h \in up, pend[h] # {}
                   PROVE  Starts(toClient[h])'
        BY <1>1, <1>2, <1>6, <1>7, <1>8 DEF Acked, no
      <3>1. Starts(toClient[h]) /\ h \in Client /\ toClient[h] \in Seq(Told)
        BY <1>2 DEF Acked, LinkTypes
      <3> QED BY <1>3, <1>4, <3>1, StartQueue, NewQueue
    <2> QED BY <2>1, <2>2
  <1>18. \A d \in Client : Takes(d)' => ~HasRead(d)'
    BY <1>5, <1>13 DEF HasRead
  <1>19. Aheads' /\ Hearers'
    BY <1>18 DEF Aheads, Hearers
  <1>20. SessionInv'
    BY HostReadsHelloKeeps
  <1> QED BY <1>10, <1>11, <1>12, <1>14, <1>15, <1>16, <1>17, <1>19, <1>20

\* The host hears a peer.
LEMMA HostReadsStays ==
  ASSUME HealthInv, NEW c \in Client, HostReads(c)
  PROVE  HealthInv'
  <1> USE DEF HealthInv
  <1> DEFINE state == Note("state")
  <1>1. /\ Polls(Host) /\ c \in Known /\ Readable(c)
        /\ hostSilence' = [hostSilence EXCEPT ![c] = 0]
        /\ IF Unread(c) # {}
           THEN /\ peers' = [peers EXCEPT ![c].got = 2,
                               ![c].ready = @ \/ \E m \in Unread(c) : Accepts(c, m)]
                /\ toClient' = ToAll(toClient, Known, state)
           ELSE UNCHANGED <<peers, toClient>>
        /\ seen' = IF InMatch /\ word[c] \in {"empty", "input"}
                   THEN seen \cup {peers[c].slot} ELSE seen
        /\ fresh' = IF InMatch /\ word[c] = "input" THEN fresh \cup {c} ELSE fresh
        /\ word' = [word EXCEPT ![c] = None]
        /\ UNCHANGED <<playerCount, hostPhase, stalled, idle, clientVars, alive, up, silence, moved,
                       load, hurt, lost>>
    BY DEF HostReads
  <1>2. ClientTypes /\ LinkTypes /\ TimeTypes /\ c # Host /\ Known \subseteq Client /\ PeersOK(peers)
    BY Patiences DEF SessionInv, Types, Seats, PeersOK, Known
  <1>3. state \in Told /\ state \notin Pauses /\ state # Note("start") /\ state # Note("frame")
        /\ state # Note("reject") /\ state # Note("disconnect")
    BY DEF Told, Pauses, Note
  <1>4. \A d \in Client : toClient'[d] = toClient[d] \/ (d \in Known /\ toClient'[d] = Queue(toClient[d], state))
    BY <1>1, <1>2 DEF ToAll
  <1> HIDE DEF state
  <1>5. /\ Known' = Known
        /\ \A d \in Known : d # c => peers'[d] = peers[d]
        /\ peers'[c].slot = peers[c].slot /\ peers'[c].again = peers[c].again
        /\ peers'[c] = peers[c] \/ peers'[c].got = 2
    <2>1. Known' = Known
      BY <1>1 DEF Known
    <2>2. \A d \in Known : d # c => peers'[d] = peers[d]
      BY <1>1 DEF Known
    <2>3. peers[c] \in Seat
      BY <1>1, <1>2 DEF PeersOK, Known
    <2>4. /\ peers'[c].slot = peers[c].slot /\ peers'[c].again = peers[c].again
          /\ peers'[c] = peers[c] \/ peers'[c].got = 2
      <3>1. CASE Unread(c) # {}
        <4> DEFINE b == peers[c].ready \/ \E m \in Unread(c) : Accepts(c, m)
        <4>1. peers' = [peers EXCEPT ![c] = [peers[c] EXCEPT !.got = 2, !.ready = b]]
          BY <1>1, <3>1
        <4> HIDE DEF b
        <4>2. peers'[c] = [peers[c] EXCEPT !.got = 2, !.ready = b]
          BY <1>1, <4>1 DEF Known
        <4> QED BY <2>3, <4>2 DEF Seat
      <3>2. CASE Unread(c) = {}
        BY <1>1, <3>2
      <3> QED BY <3>1, <3>2
    <2> QED BY <2>1, <2>2, <2>4
  <1>6. InMatch => Unread(c) = {} /\ word[c] # None /\ toClient' = toClient /\ peers' = peers
    BY <1>1, MatchPeers DEF Readable
  <1>7. c \in up /\ hostSilence'[c] = 0 /\ word'[c] = None
        /\ \A d \in Client : d # c => hostSilence'[d] = hostSilence[d] /\ word'[d] = word[d]
    BY <1>1, <1>2 DEF Readable, TimeTypes, LinkTypes
  <1>8. /\ InMatch' = InMatch /\ On(Host)' /\ On(Host) /\ Host \notin moved' /\ Host \notin moved
        /\ Healthy' = Healthy /\ Opening(Host)' = Opening(Host) /\ Polls(Host)'
        /\ \A d \in Client : Takes(d)' = Takes(d)
    BY <1>1, <1>5 DEF InMatch, On, Healthy, Polls, Loading, Opening, PhaseOf, clientVars, Takes
  <1>9. ASSUME InMatch, NEW h \in Known, Dead(h) PROVE h # c /\ Dead(h)' /\ hostSilence'[h] = hostSilence[h]
    <2>1. h # c
      BY <1>6, <1>9 DEF Dead
    <2> QED BY <1>1, <1>2, <1>5, <1>7, <1>9, <2>1 DEF Dead, clientVars
  <1>10. Basics'
    <2>1. \A d \in Known' : peers'[d].ready => peers'[d].got = 2
      BY <1>5 DEF Basics
    <2>2. \A d \in Client : d \notin up => word'[d] = None
      BY <1>7 DEF Basics
    <2> QED BY <1>1, <1>8, <2>1, <2>2 DEF Basics, clientVars
  <1>11. NoMatchYet'
    <2> SUFFICES ASSUME hostPhase = "lobby"
                 PROVE  \A d \in Client : word'[d] \in {None, "alive"}
                          /\ \A k \in {"pause", "resume", "frame"} : ~Has(toClient[d], k)'
      BY <1>1, <1>8 DEF NoMatchYet, clientVars, InMatch, MatchPhase
    <2>1. \A d \in Client : word'[d] \in {None, "alive"}
      BY <1>7 DEF NoMatchYet
    <2>2. ASSUME NEW d \in Client, NEW k \in {"pause", "resume", "frame"} PROVE ~Has(toClient[d], k)'
      <3>1. ~Has(toClient[d], k) /\ toClient[d] \in Seq(Told)
        BY <1>2 DEF NoMatchYet, LinkTypes
      <3>2. Has(toClient[d], k)' = Has(toClient'[d], k)
        BY NewQueue
      <3>3. Note(k) # state
        BY DEF Note, state
      <3> QED BY <1>3, <1>4, <3>1, <3>2, <3>3, GrownQueue
    <2> QED BY <2>1, <2>2
  <1>12. Stays'
    <2> SUFFICES ASSUME NEW d \in Healthy
                 PROVE  (IF d \in Known THEN Joined(d) /\ (phase[d] = "over" => Ending(d)) ELSE Stranger(d))'
      BY <1>8 DEF Stays
    <2>1. CASE d \in Known
      <3>1. Joined(d)'
        <4>1. peers'[d].slot = peers[d].slot /\ peers'[d].again = peers[d].again
          BY <1>5, <2>1
        <4>2. Joined(d) /\ d \in Client
          BY <1>2, <1>8, <2>1 DEF Stays
        <4> QED BY <1>1, <1>3, <1>4, <2>1, <4>1, <4>2, JoinedGrows DEF clientVars
      <3>2. Ending(d) => Ending(d)'
        <4> SUFFICES ASSUME Ending(d) PROVE Ending(d)'
          OBVIOUS
        <4>1. InMatch
          BY DEF Ending, InMatch, MatchPhase
        <4>2. (\E h \in Known : Dead(h) /\ hostSilence[h] >= PausePatience)'
          BY <1>5, <1>9, <4>1 DEF Ending
        <4>3. (word[d] # None \/ Short(hostSilence[d]) \/ (Host \notin moved /\ Later(hostSilence[d])))'
          <5>1. CASE d = c
            BY <1>7, <5>1 DEF Short
          <5>2. CASE d # c
            BY <1>1, <1>7, <5>2 DEF Ending, Short, Later, Healthy
          <5> QED BY <5>1, <5>2
        <4> QED BY <1>1, <4>2, <4>3 DEF Ending
      <3> QED BY <1>1, <1>5, <1>8, <2>1, <3>1, <3>2 DEF Stays, clientVars
    <2>2. CASE d \notin Known
      BY <1>1, <1>4, <1>5, <1>8, <2>2 DEF Stays, Stranger, Healthy, Note, clientVars
    <2> QED BY <2>1, <2>2
  <1>13. Views'
    <2> SUFFICES ASSUME NEW d \in Client, Takes(d) PROVE View(d)'
      BY <1>8 DEF Views
    <2>1. View(d) /\ toClient'[d] = toClient[d]
      BY <1>6 DEF Views, Takes
    <2> QED BY <1>1, <1>8, <2>1, SameView DEF clientVars
  <1>14. Speakers'
    <2> SUFFICES ASSUME NEW d \in Client, Takes(d) PROVE Unplayed(d)' /\ Speaks(d)'
      BY <1>8 DEF Speakers
    <2>1. Unplayed(d) /\ Speaks(d) /\ InMatch /\ d \in Known /\ peers' = peers
      BY <1>6 DEF Speakers, Takes
    <2>2. CASE d = c
      <3>1. Speaks(d)'
        BY <1>7, <2>2 DEF Speaks
      <3>2. Unplayed(d)'
        <4> SUFFICES ASSUME phase[d] \in {"lobby", "started", "loading"} PROVE Awaited(d)'
          BY <1>1, <1>7, <2>2, NoneIsNoWord DEF Unplayed, clientVars
        <4>1. Awaited(d) /\ word[d] # "input" /\ (word[d] = "empty" => stalled)
          BY <2>1 DEF Unplayed
        <4> QED BY <1>1, <2>1, <2>2, <4>1 DEF Awaited
      <3> QED BY <3>1, <3>2
    <2>3. CASE d # c
      <3>1. peers[d].slot # peers[c].slot
        BY <1>1, <1>2, <2>1, <2>3 DEF PeersOK, Known
      <3>2. Awaited(d)' = Awaited(d)
        BY <1>1, <2>1, <2>3, <3>1 DEF Awaited
      <3>3. hostSilence'[d] = hostSilence[d] /\ word'[d] = word[d] /\ phase' = phase /\ load' = load
            /\ moved' = moved /\ stalled' = stalled
        BY <1>1, <1>7, <2>3 DEF clientVars
      <3> QED BY <2>1, <3>2, <3>3 DEF Unplayed, Speaks
    <2> QED BY <2>2, <2>3
  <1>15. Lobby'
    <2> SUFFICES ASSUME hostPhase = "lobby", NEW d \in Healthy \cap Known PROVE Chats(d)'
      BY <1>1, <1>5, <1>8 DEF Lobby
    <2>1. d \in Client /\ toClient[d] \in Seq(Told) /\ Chats(d)
      BY <1>2 DEF Lobby, LinkTypes
    <2>2. toClient[d] # << >> => toClient'[d] # << >>
      BY <1>3, <1>4, <2>1, QueueFacts
    <2>3. d = c => word'[d] = None /\ hostSilence'[d] = 0
      BY <1>7
    <2>4. d # c => word'[d] = word[d] /\ hostSilence'[d] = hostSilence[d]
      BY <1>7, <2>1
    <2>5. HasRead(d)' => HasRead(d)
      BY <1>1, <2>2 DEF HasRead
    <2>6. (\/ word[d] # None
           \/ hostSilence[d] = 0 /\ Host \notin moved
           \/ /\ toClient[d] # << >> \/ lines[d]
              /\ hostSilence[d] = 0 \/ (d \notin moved /\ hostSilence[d] <= 1))'
      BY <1>1, <1>8, <2>1, <2>2, <2>3, <2>4 DEF Chats, clientVars
    <2> QED BY <1>1, <1>8, <2>1, <2>5, <2>6 DEF Chats
  <1>16. Mute' /\ Acked'
    <2>1. Mute'
      BY <1>8 DEF Mute, Polls
    <2>2. Acked'
      <3> SUFFICES ASSUME InMatch PROVE Acked'
        BY <1>8 DEF Acked
      <3>1. \A h \in Known : Starts(toClient[h])' = Starts(toClient[h])
        BY <1>2, <1>6, SameQueue
      <3> QED BY <1>1, <1>5, <1>8, <3>1 DEF Acked, clientVars
    <2> QED BY <2>1, <2>2
  <1>17. Aheads'
    <2> SUFFICES ASSUME NEW d \in Client, NEW h \in Client, Takes(d), HasRead(d)', h \in Known,
                        toClient'[h] # << >>
                 PROVE  Ahead(d, h)'
      BY <1>5, <1>8 DEF Aheads
    <2>1. HasRead(d) /\ toClient[h] # << >>
      BY <1>1, <1>6 DEF HasRead, Takes
    <2>2. Ahead(d, h)
      BY <2>1 DEF Aheads
    <2>3. h = c => silence[d] = 0
      BY <1>6, <2>2 DEF Ahead, Takes
    <2>4. word[h] = None => word'[h] = None
      BY <1>7
    <2>5. On(h)' = On(h) /\ Loading(h)' = Loading(h)
      BY <1>1, <1>2 DEF On, Loading, clientVars
    <2>6. stalled => hostSilence'[h] >= silence[d]
      BY <1>7, <2>2, <2>3 DEF Ahead
    <2> QED BY <1>1, <1>8, <2>2, <2>4, <2>5, <2>6 DEF Ahead, Short
  <1>18. Hearers'
    <2> SUFFICES ASSUME NEW d \in Client, Takes(d), HasRead(d)' PROVE Hears(d)'
      BY <1>8 DEF Hearers
    <2>1. HasRead(d) /\ Hears(d) /\ InMatch
      BY <1>1, <1>6 DEF HasRead, Takes, Hearers
    <2>2. \A h \in Known : Dead(h) => Dead(h)' /\ hostSilence'[h] = hostSilence[h]
      BY <1>9, <2>1
    <2> QED BY <1>1, <1>5, <1>8, <2>1, <2>2 DEF Hears, Short, Later, clientVars
  <1>19. SessionInv'
    BY HostReadsKeeps
  <1> QED BY <1>10, <1>11, <1>12, <1>13, <1>14, <1>15, <1>16, <1>17, <1>18, <1>19

\* The host loads, or has loaded.
LEMMA HostLoadStays ==
  ASSUME HealthInv, SessionInv',
         \/ hostPhase = "started" /\ Host \in moved /\ hostPhase' = "loading" /\ load' = load
         \/ hostPhase = "loading" /\ hostPhase' = "playing" /\ load' = [load EXCEPT ![Host] = 0],
         UNCHANGED <<playerCount, peers, seen, fresh, stalled, idle, clientVars, toClient, word,
                     alive, up, hostSilence, silence, moved, hurt, lost>>
  PROVE  HealthInv'
  <1> USE DEF HealthInv
  <1>1. ClientTypes /\ LinkTypes /\ TimeTypes /\ Known \subseteq Client /\ Host \notin Client
    BY Patiences DEF SessionInv, Types, Seats, PeersOK, Known
  <1>2. /\ InMatch /\ InMatch' /\ On(Host) /\ On(Host)' /\ ~Polls(Host) /\ Opening(Host)
        /\ Known' = Known /\ Healthy' = Healthy /\ hostPhase' # "lobby" /\ hostPhase # "playing"
    BY DEF InMatch, MatchPhase, On, Polls, Loading, Opening, PhaseOf, Known, Healthy
  <1>3. \A d \in Client : /\ load'[d] = load[d] /\ Takes(d)' = Takes(d) /\ HasRead(d)' = HasRead(d)
                          /\ On(d)' = On(d) /\ Loading(d)' = Loading(d)
    <2> SUFFICES ASSUME NEW d \in Client
                 PROVE  /\ load'[d] = load[d] /\ Takes(d)' = Takes(d) /\ HasRead(d)' = HasRead(d)
                        /\ On(d)' = On(d) /\ Loading(d)' = Loading(d)
      OBVIOUS
    <2>1. d # Host /\ load'[d] = load[d]
      BY <1>1 DEF TimeTypes, Program
    <2>2. Takes(d)' = Takes(d) /\ HasRead(d)' = HasRead(d)
      BY <1>2 DEF Takes, HasRead, clientVars
    <2>3. On(d)' = On(d) /\ Loading(d)' = Loading(d)
      BY <2>1 DEF On, Loading, clientVars
    <2> QED BY <2>1, <2>2, <2>3
  <1>4. \A d \in Client : silence[d] \in Nat /\ load[Host] \in Nat /\ load[Host] <= LoadTime
    BY Clocks DEF SessionInv
  <1>5. Basics'
    BY <1>2 DEF Basics, clientVars
  <1>6. NoMatchYet' /\ Lobby'
    BY <1>2 DEF NoMatchYet, Lobby
  <1>7. Stays'
    <2> SUFFICES ASSUME NEW d \in Healthy
                 PROVE  (IF d \in Known THEN Joined(d) /\ (phase[d] = "over" => Ending(d)) ELSE Stranger(d))'
      BY <1>2 DEF Stays
    <2>1. d \in Client
      BY DEF Healthy
    <2>2. \A k : Has(toClient[d], k)' = Has(toClient[d], k)
      BY <2>1, SameQueue
    <2>3. d \in Known => Joined(d)'
      BY <1>2, <2>2 DEF Stays, Joined, Welcome, clientVars
    <2>4. d \in Known => phase'[d] # "over"
      BY <1>2 DEF Stays, Ending, clientVars
    <2>5. d \notin Known => Stranger(d)'
      BY <1>2 DEF Stays, Stranger, Note, clientVars
    <2> QED BY <1>2, <2>3, <2>4, <2>5
  <1>8. Views'
    <2> SUFFICES ASSUME NEW d \in Client, Takes(d) PROVE View(d)'
      BY <1>3 DEF Views
    <2>1. View(d) /\ Starts(toClient[d])' = Starts(toClient[d])
          /\ StartsOnce(toClient[d])' = StartsOnce(toClient[d])
          /\ WillKnow(toClient[d], toldPause[d], stalled)' = WillKnow(toClient[d], toldPause[d], stalled)
          /\ \A k : Has(toClient[d], k)' = Has(toClient[d], k)
      BY SameQueue DEF Views, clientVars
    <2> QED BY <1>2, <2>1 DEF View, MatchPhase, clientVars
  <1>9. Speakers'
    <2> SUFFICES ASSUME NEW d \in Client, Takes(d) PROVE Unplayed(d)' /\ Speaks(d)'
      BY <1>3 DEF Speakers
    <2> QED BY <1>3 DEF Speakers, Unplayed, Speaks, Awaited, clientVars
  <1>10. Mute'
    <2>1. Host \in moved' \/ Loading(Host)' => Host \in moved \/ Loading(Host)
      BY DEF Loading
    <2> QED BY <1>2, <2>1 DEF Mute
  <1>11. Acked'
    <2>1. \A h \in Known : Starts(toClient[h])' = Starts(toClient[h])
      BY <1>1, SameQueue
    <2> QED BY <1>2, <2>1 DEF Acked, clientVars
  <1>12. Aheads'
    <2> SUFFICES ASSUME NEW d \in Client, NEW h \in Client, Takes(d), HasRead(d), h \in Known,
                        toClient[h] # << >>
                 PROVE  Ahead(d, h)'
      BY <1>2, <1>3 DEF Aheads
    <2>1. Ahead(d, h) /\ word[h] = None
      BY <1>2 DEF Aheads, Ahead
    <2> QED BY <1>3, <2>1 DEF Ahead, Short
  <1>13. Hearers'
    <2> SUFFICES ASSUME NEW d \in Client, Takes(d), HasRead(d) PROVE Hears(d)'
      BY <1>3 DEF Hearers
    <2>1. Hears(d) /\ View(d)
      BY DEF Hearers, Views
    <2>2. silence[d] <= load[Host] /\ (Host \in moved /\ ~stalled => silence[d] = 0) /\ ~sawFrame[d]
      BY <1>2, <2>1 DEF Hears, View
    <2>3. CASE hostPhase = "started" /\ hostPhase' = "loading" /\ load' = load
      BY <2>2, <2>3 DEF Hears
    <2>4. CASE hostPhase' = "playing"
      <3>1. silence[d] <= LoadTime
        BY <1>4, <2>2, Patiences
      <3>2. ~Opening(Host)'
        BY <2>4 DEF Opening, PhaseOf
      <3> QED BY <2>2, <2>4, <3>1, <3>2 DEF Hears, Short, clientVars
    <2> QED BY <2>3, <2>4
  <1> QED BY <1>5, <1>6, <1>7, <1>8, <1>9, <1>10, <1>11, <1>12, <1>13

LEMMA BeginLoadStays ==
  ASSUME HealthInv, NEW p \in Program, BeginLoad(p)
  PROVE  HealthInv'
  <1>1. SessionInv'
    BY BeginLoadKeeps DEF HealthInv
  <1>2. CASE p = Host
    BY <1>1, <1>2, HostLoadStays DEF BeginLoad, SetPhase, PhaseOf, clientVars, timeVars
  <1>3. CASE p # Host
    <2>1. p \in Client
      BY <1>3 DEF Program
    <2> QED BY <1>1, <1>3, <2>1, LoadStays DEF BeginLoad, SetPhase, PhaseOf, hostVars, timeVars
  <1> QED BY <1>2, <1>3

LEMMA EnterGameplayStays ==
  ASSUME HealthInv, NEW p \in Program, EnterGameplay(p)
  PROVE  HealthInv'
  <1>1. SessionInv'
    BY EnterGameplayKeeps DEF HealthInv
  <1>2. CASE p = Host
    BY <1>1, <1>2, HostLoadStays DEF EnterGameplay, SetPhase, PhaseOf, clientVars
  <1>3. CASE p # Host
    <2>1. p \in Client
      BY <1>3 DEF Program
    <2> QED BY <1>1, <1>3, <2>1, LoadStays DEF EnterGameplay, SetPhase, PhaseOf, hostVars
  <1> QED BY <1>2, <1>3

LEMMA OlderFacts ==
  ASSUME NEW n \in Nat
  PROVE  /\ Older(n) \in {n, n + 1} /\ Older(n) >= n
         /\ n >= PausePatience => Older(n) >= PausePatience
         /\ \A k \in Nat : k >= n => Older(k) >= Older(n)
         /\ Short(n) => Later(Older(n))
         /\ n = 0 => Older(n) = 1
  BY Patiences DEF Older, Short, Later

\* A beat passes.
LEMMA BeatStays ==
  ASSUME HealthInv, Beat
  PROVE  HealthInv'
  <1> USE DEF HealthInv
  <1>1. /\ \A p \in Program : ~Polls(p)
        /\ moved' = {}
        /\ hostSilence' = [c \in Client |-> IF c \in Known /\ On(Host) THEN Older(hostSilence[c]) ELSE 0]
        /\ silence' = [c \in Client |-> IF On(c) THEN Older(silence[c]) ELSE 0]
        /\ load' = [p \in Program |-> IF Opening(p) THEN load[p] + 1 ELSE 0]
        /\ idle' = IF InMatch THEN 1 ELSE 0
        /\ UNCHANGED <<playerCount, hostPhase, peers, seen, fresh, stalled, clientVars, toClient, word,
                       alive, up, hurt, lost>>
    BY DEF Beat
  <1>2. Known \subseteq Client /\ Host \notin Client /\ Program = Client \cup {Host}
    BY Patiences DEF SessionInv, Seats, PeersOK, Known, Program
  <1>3. /\ \A c \in Client : /\ silence[c] \in Nat /\ hostSilence[c] \in Nat
        /\ \A p \in Program : load[p] \in Nat /\ load[p] <= LoadTime
        /\ LoadTime \in Nat
    BY Clocks, Patiences DEF SessionInv
  <1>4. /\ InMatch' = InMatch /\ On(Host)' = On(Host) /\ Known' = Known /\ Healthy' = Healthy
        /\ Opening(Host)' = Opening(Host) /\ Loading(Host)' = Loading(Host)
        /\ \A c \in Client : /\ Takes(c)' = Takes(c) /\ HasRead(c)' = HasRead(c)
                             /\ On(c)' = On(c) /\ Loading(c)' = Loading(c)
    <2>1. /\ InMatch' = InMatch /\ On(Host)' = On(Host) /\ Known' = Known /\ Healthy' = Healthy
          /\ Opening(Host)' = Opening(Host) /\ Loading(Host)' = Loading(Host)
      BY <1>1 DEF InMatch, On, Known, Healthy, Opening, PhaseOf, Loading
    <2>2. ASSUME NEW c \in Client
          PROVE  /\ Takes(c)' = Takes(c) /\ HasRead(c)' = HasRead(c)
                 /\ On(c)' = On(c) /\ Loading(c)' = Loading(c)
      <3>1. Takes(c)' = Takes(c) /\ HasRead(c)' = HasRead(c)
        BY <1>1, <2>1 DEF Takes, HasRead, clientVars
      <3>2. On(c)' = On(c) /\ Loading(c)' = Loading(c)
        BY <1>1, <1>2 DEF On, Loading, clientVars
      <3> QED BY <3>1, <3>2
    <2> QED BY <2>1, <2>2
  <1>5. \A p \in Program : On(p) /\ ~Loading(p) => p \in moved
    BY <1>1 DEF Polls
  <1>6. /\ \A c \in Client : c \notin moved'
        /\ Host \notin moved'
        /\ On(Host) => \A c \in Known : hostSilence'[c] = Older(hostSilence[c])
        /\ \A c \in Client : silence'[c] = IF On(c) THEN Older(silence[c]) ELSE 0
        /\ \A p \in Program : Opening(p) => load'[p] = load[p] + 1
    BY <1>1, <1>2
  <1>7. \A h \in Known : Dead(h)' = Dead(h)
    BY <1>1, <1>4 DEF Dead, clientVars
  <1>8. ASSUME NEW c \in Client, Takes(c)
        PROVE  /\ c \in Known /\ On(Host) /\ On(c) /\ c # Host
               /\ phase[c] \in {"lobby"} \cup MatchPhase
    BY <1>2, <1>8, MatchPeers DEF Takes, InMatch, MatchPhase, On
  <1>9. Basics' /\ NoMatchYet'
    <2>1. Basics'
      BY <1>1, <1>4 DEF Basics, clientVars
    <2>2. \A d \in Client : \A k : Has(toClient[d], k)' = Has(toClient[d], k)
      BY <1>1, SameQueue
    <2>3. NoMatchYet'
      BY <1>1, <2>2 DEF NoMatchYet, clientVars
    <2> QED BY <2>1, <2>3
  <1>10. Stays'
    <2> SUFFICES ASSUME On(Host), NEW d \in Healthy
                 PROVE  (IF d \in Known THEN Joined(d) /\ (phase[d] = "over" => Ending(d)) ELSE Stranger(d))'
      BY <1>4 DEF Stays
    <2>1. d \in Client /\ \A k : Has(toClient[d], k)' = Has(toClient[d], k)
      <3>1. d \in Client
        BY DEF Healthy
      <3> QED BY <1>1, <3>1, SameQueue
    <2>2. d \in Known => Joined(d)'
      BY <1>1, <2>1 DEF Stays, Joined, Welcome, clientVars
    <2>3. d \notin Known => Stranger(d)'
      BY <1>1, <2>1 DEF Stays, Stranger, Note, clientVars
    <2>4. ASSUME d \in Known, Ending(d) PROVE Ending(d)'
      <3>1. Host \in moved
        BY <1>2, <1>5, <2>4 DEF Ending, Loading
      <3>2. \E h \in Known : Dead(h)' /\ hostSilence'[h] >= PausePatience
        BY <1>2, <1>3, <1>6, <1>7, <2>4, OlderFacts DEF Ending
      <3>3. word[d] # None \/ Later(hostSilence'[d])
        BY <1>3, <1>6, <2>1, <2>4, <3>1, OlderFacts DEF Ending
      <3>4. word'[d] # None \/ (Host \notin moved' /\ Later(hostSilence[d])')
        BY <1>1, <1>6, <3>3 DEF Later
      <3> QED BY <1>1, <1>4, <2>4, <3>2, <3>4 DEF Ending
    <2> QED BY <1>1, <1>4, <2>2, <2>3, <2>4 DEF Stays, clientVars
  <1>11. Views'
    <2> SUFFICES ASSUME NEW d \in Client, Takes(d) PROVE View(d)'
      BY <1>4 DEF Views
    <2> QED BY <1>1, <1>4, SameView DEF Views, clientVars
  <1>12. Speakers'
    <2> SUFFICES ASSUME NEW d \in Client, Takes(d) PROVE Unplayed(d)' /\ Speaks(d)'
      BY <1>4 DEF Speakers
    <2>1. Unplayed(d) /\ Speaks(d) /\ Awaited(d)' = Awaited(d)
      BY <1>1 DEF Speakers, Awaited
    <2>2. Unplayed(d)'
      BY <1>1, <2>1 DEF Unplayed, clientVars
    <2>3. /\ hostSilence'[d] = Older(hostSilence[d]) /\ Loading(d) = (phase[d] = "loading")
          /\ phase[d] = "loading" => load'[d] = load[d] + 1 /\ load[d] \in Nat
          /\ d \notin moved => phase[d] = "loading"
      <3>1. phase[d] = "loading" => Opening(d)
        BY <1>8 DEF Opening, PhaseOf
      <3>2. Loading(d) = (phase[d] = "loading")
        BY <1>8 DEF Loading
      <3> QED BY <1>2, <1>3, <1>5, <1>6, <1>8, <3>1, <3>2
    <2>4. CASE word[d] # None
      BY <1>1, <2>2, <2>4 DEF Speaks
    <2>5. CASE hostSilence[d] = 0
      <3>1. hostSilence'[d] = 1
        BY <2>3, <2>5, OlderFacts
      <3>2. phase[d] = "loading" => hostSilence'[d] <= load'[d]
        BY <2>3, <3>1
      <3> QED BY <1>1, <1>6, <2>2, <3>1, <3>2 DEF Speaks, clientVars
    <2>6. CASE d \notin moved /\ hostSilence[d] <= load[d]
      <3>1. phase[d] = "loading" /\ hostSilence'[d] <= load'[d]
        <4>1. hostSilence[d] \in Nat
          BY <1>3
        <4> QED BY <2>3, <2>6, <4>1, OlderFacts
      <3> QED BY <1>1, <1>6, <2>2, <3>1 DEF Speaks, clientVars
    <2> QED BY <2>1, <2>2, <2>3, <2>4, <2>5, <2>6 DEF Speaks
  <1>13. Lobby'
    <2> SUFFICES ASSUME hostPhase = "lobby", NEW d \in Healthy \cap Known PROVE Chats(d)'
      BY <1>1, <1>4 DEF Lobby
    <2>1. On(Host) /\ Host \in moved /\ d \in Client /\ Chats(d)
      BY <1>2, <1>5 DEF On, Loading, Lobby
    <2>2. d \in moved
      <3>1. phase[d] # "over"
        BY <2>1 DEF Stays, Ending
      <3>2. phase[d] # "new"
        BY <2>1 DEF Stays, Joined, Basics
      <3>3. phase[d] \notin MatchPhase
        BY <2>1 DEF SessionInv, StartsTold, InMatch, MatchPhase
      <3> QED BY <1>2, <1>5, <2>1, <3>1, <3>2, <3>3 DEF On, Loading, MatchPhase
    <2>3. HasRead(d)' => silence'[d] <= 1
      <3>1. HasRead(d) => silence[d] = 0
        BY <1>3, <2>1 DEF Chats
      <3> QED BY <1>4, <1>6, <2>1, <3>1, OlderFacts
    <2>4. word[d] # None \/ ((toClient[d] # << >> \/ lines[d]) /\ hostSilence[d] = 0)
      BY <2>1, <2>2 DEF Chats
    <2>5. hostSilence[d] = 0 => hostSilence'[d] <= 1
      BY <1>6, <2>1, OlderFacts
    <2> QED BY <1>1, <1>6, <2>1, <2>3, <2>4, <2>5 DEF Chats, clientVars
  <1>14. Mute'
    BY <1>1, <1>4, <1>6 DEF Mute
  <1>15. Acked'
    <2> SUFFICES ASSUME InMatch, NEW h \in Known, h \in up, pend[h] # {}
                 PROVE  phase[h] = "lobby" /\ Starts(toClient[h])' /\ ~stalled
      BY <1>1, <1>4, <1>6 DEF Acked, clientVars
    <2>1. /\ phase[h] = "lobby" /\ Starts(toClient[h])
          /\ h \in moved => ~stalled
      BY DEF Acked
    <2>2. h \in moved
      BY <1>2, <1>5, <2>1 DEF On, Loading
    <2>3. Starts(toClient[h])' = Starts(toClient[h])
      BY <1>1, <1>2, SameQueue
    <2> QED BY <2>1, <2>2, <2>3
  <1>16. Aheads'
    <2> SUFFICES ASSUME NEW d \in Client, NEW h \in Client, Takes(d), HasRead(d), h \in Known,
                        toClient[h] # << >>
                 PROVE  Ahead(d, h)'
      BY <1>1, <1>4 DEF Aheads
    <2>1. Ahead(d, h) /\ silence'[d] = Older(silence[d]) /\ On(Host)
      BY <1>6, <1>8 DEF Aheads
    <2>2. word'[h] = None
      BY <1>1, <1>2, <2>1 DEF Ahead
    <2>3. stalled => hostSilence'[h] >= silence'[d]
      BY <1>3, <1>6, <2>1, OlderFacts DEF Ahead
    <2>4. ASSUME h \in up, On(h)
          PROVE  IF Loading(h) THEN silence'[d] <= load'[h] ELSE Short(silence[d])'
      <3>1. CASE Loading(h)
        <4>1. Opening(h) /\ h \in Program
          BY <1>2, <3>1 DEF Opening, PhaseOf, Loading
        <4>2. silence[d] <= load[h] /\ load'[h] = load[h] + 1
          BY <1>6, <2>1, <2>4, <3>1, <4>1 DEF Ahead
        <4> QED BY <1>3, <2>1, <3>1, <4>1, <4>2, OlderFacts
      <3>2. CASE ~Loading(h)
        <4>1. silence[d] = 0
          BY <1>2, <1>5, <2>1, <2>4, <3>2 DEF Ahead
        <4>2. silence'[d] = 1
          BY <2>1, <4>1, OlderFacts
        <4> QED BY <3>2, <4>2 DEF Short
      <3> QED BY <3>1, <3>2
    <2> QED BY <1>1, <1>4, <1>6, <2>2, <2>3, <2>4 DEF Ahead
  <1>17. Hearers'
    <2> SUFFICES ASSUME NEW d \in Client, Takes(d), HasRead(d) PROVE Hears(d)'
      BY <1>4 DEF Hearers
    <2>1. Hears(d) /\ silence'[d] = Older(silence[d]) /\ On(Host)
      BY <1>6, <1>8 DEF Hearers
    <2>2. Opening(Host) => silence'[d] <= load'[Host]
      BY <1>2, <1>3, <1>6, <2>1, OlderFacts DEF Hears
    <2>3. hostPhase = "playing" => Host \in moved
      BY <1>2, <1>5, <2>1 DEF Loading
    <2>4. hostPhase = "playing" /\ ~stalled => silence'[d] <= 1
      <3>1. hostPhase = "playing" /\ ~stalled => silence[d] = 0
        BY <1>3, <2>1, <2>3 DEF Hears
      <3> QED BY <2>1, <3>1, OlderFacts
    <2>5. ASSUME hostPhase = "playing", stalled
          PROVE  (\E h \in Known : Dead(h)' /\ hostSilence'[h] >= silence'[d]) \/ Later(silence'[d])
      <3>1. CASE \E h \in Known : Dead(h) /\ hostSilence[h] >= silence[d]
        BY <1>2, <1>3, <1>6, <1>7, <2>1, <3>1, OlderFacts
      <3>2. CASE Short(silence[d])
        BY <1>3, <2>1, <3>2, OlderFacts
      <3> QED BY <2>1, <2>3, <2>5, <3>1, <3>2 DEF Hears
    <2>6. Later(silence[d])' = Later(silence'[d])
      BY DEF Later
    <2> QED BY <1>1, <1>4, <1>6, <2>2, <2>4, <2>5, <2>6 DEF Hears
  <1>18. SessionInv'
    BY BeatKeeps
  <1> QED BY <1>9, <1>10, <1>11, <1>12, <1>13, <1>14, <1>15, <1>16, <1>17, <1>18

\* The host has looked at its clocks, and given up nobody whose link works.
LEMMA HostMovesStays ==
  ASSUME HealthInv, HostMoves
  PROVE  /\ Polls(Host) /\ On(Host) /\ Host \notin moved
         /\ moved' = moved \cup {Host} /\ Host \in moved'
         /\ UNCHANGED <<playerCount, clientVars, word, up, silence, load, hurt>>
         /\ Present \subseteq Known /\ Known' = Present /\ Known \subseteq Client
         /\ \A c \in Present : peers'[c] = peers[c]
         /\ lost' \subseteq hurt' /\ Healthy' = Healthy
         /\ Healthy \cap Known \subseteq Present
         /\ \A c \in Known : word[c] = None
         /\ \A c \in Client : hostSilence'[c] \in {0, hostSilence[c]}
         /\ \A c \in Present : pend[c] = {} \/ c \notin up => hostSilence'[c] = hostSilence[c]
  <1> USE DEF HealthInv
  <1>1. /\ Polls(Host) /\ \A c \in Client : ~Readable(c)
        /\ moved' = moved \cup {Host}
        /\ hostSilence' = [c \in Client |-> IF c \in Present /\ ~Heard(c) THEN hostSilence[c] ELSE 0]
        /\ lost' = lost \cup Silent
    BY DEF HostMoves
  <1>2. /\ UNCHANGED <<playerCount, clientVars, word, up, silence, load, hurt>>
        /\ Present \subseteq Known /\ Known' = Present /\ \A c \in Present : peers'[c] = peers[c]
    BY HostMovesFacts
  <1>3. Known \subseteq Client
    BY DEF SessionInv, Seats, PeersOK, Known
  <1>4. /\ \A c \in Known : word[c] = None
        /\ \A c \in Healthy \cap Known : c \notin Silent
        /\ Silent \subseteq Client /\ Silent \subseteq Known
    BY <1>1, NoneDropped DEF Silent
  <1>5. lost' \subseteq hurt' /\ Healthy' = Healthy /\ Healthy \cap Known \subseteq Present
    BY <1>1, <1>2, <1>4 DEF Basics, Healthy, Present
  <1>6. \A c \in Present : pend[c] = {} \/ c \notin up => ~Heard(c)
    BY <1>1, <1>2, <1>3 DEF Heard
  <1>7. /\ \A c \in Client : hostSilence'[c] \in {0, hostSilence[c]}
        /\ \A c \in Present : pend[c] = {} \/ c \notin up => hostSilence'[c] = hostSilence[c]
    BY <1>1, <1>2, <1>3, <1>6
  <1> QED BY <1>1, <1>2, <1>3, <1>4, <1>5, <1>7 DEF Polls

LEMMA HostAbortsStays ==
  ASSUME HealthInv, HostAborts
  PROVE  HealthInv'
  <1> USE DEF HealthInv
  <1>1. HostMoves /\ hostPhase' = "over"
    BY DEF HostAborts
  <1>2. /\ UNCHANGED <<playerCount, clientVars, word, up, silence, load, hurt>>
        /\ Present \subseteq Known /\ Known' = Present /\ \A c \in Present : peers'[c] = peers[c]
        /\ lost' \subseteq hurt' /\ Healthy' = Healthy
    BY <1>1, HostMovesStays
  <1>3. ~InMatch' /\ ~On(Host)' /\ hostPhase' # "lobby"
    BY <1>1 DEF InMatch, MatchPhase, On
  <1>4. Basics'
    BY <1>2, <1>3 DEF Basics, clientVars
  <1>5. NoMatchYet' /\ Stays' /\ Lobby' /\ Mute' /\ Acked'
    BY <1>3 DEF NoMatchYet, Stays, Lobby, Mute, Acked
  <1>6. Views' /\ Speakers' /\ Aheads' /\ Hearers'
    BY <1>3 DEF Views, Speakers, Aheads, Hearers, Takes
  <1>7. SessionInv'
    BY HostAbortsKeeps
  <1> QED BY <1>4, <1>5, <1>6, <1>7

LEMMA HostInLobbyStays ==
  ASSUME HealthInv, HostInLobby
  PROVE  HealthInv'
  <1> USE DEF HealthInv
  <1> DEFINE go == AllReady(Present)
             qs == [c \in Client |-> IF c \in Silent \ up THEN << >> ELSE toClient[c]]
             m == Note(IF go THEN "start" ELSE "state")
  <1>1. /\ hostPhase = "lobby" /\ HostMoves
        /\ hostPhase' = IF go THEN "started" ELSE "lobby"
        /\ toClient' = ToAll(qs, Present, m)
        /\ idle' = 0
        /\ UNCHANGED <<seen, fresh, stalled, alive>>
    BY DEF HostInLobby
  <1>2. /\ Polls(Host) /\ On(Host) /\ Host \notin moved
        /\ moved' = moved \cup {Host} /\ Host \in moved'
        /\ UNCHANGED <<playerCount, clientVars, word, up, silence, load, hurt>>
        /\ Present \subseteq Known /\ Known' = Present /\ Known \subseteq Client
        /\ \A c \in Present : peers'[c] = peers[c]
        /\ lost' \subseteq hurt' /\ Healthy' = Healthy
        /\ Healthy \cap Known \subseteq Present
        /\ \A c \in Known : word[c] = None
        /\ \A c \in Client : hostSilence'[c] \in {0, hostSilence[c]}
    BY <1>1, HostMovesStays
  <1>3. m \in Told /\ m \notin Pauses /\ m # Note("frame") /\ m # Note("reject") /\ m # Note("disconnect")
        /\ (go => m = Note("start")) /\ (~go => m # Note("start"))
    BY DEF Told, Pauses, Note
  <1>4. \A c \in Client : toClient[c] \in Seq(Told) /\ qs[c] \in Seq(Told) /\ qs[c] \in {toClient[c], << >>}
    BY EmptyStarts DEF SessionInv, Types, LinkTypes
  <1>5. \A c \in Client : toClient'[c] = IF c \in Present THEN Queue(qs[c], m) ELSE qs[c]
    BY <1>1 DEF ToAll
  <1>6. \A c \in Client : c \in Present \/ c \notin Known => qs[c] = toClient[c]
    BY DEF Present, Silent
  <1> HIDE DEF go, qs, m
  <1>7. ~InMatch /\ On(Host)' /\ \A c \in Client : phase[c] \notin MatchPhase /\ ~Starts(toClient[c])
    BY <1>1 DEF InMatch, MatchPhase, On, SessionInv, StartsTold
  <1>8. \A c \in Present : toClient'[c] # << >> /\ toClient'[c] = Queue(toClient[c], m) /\ c \in Client
    BY <1>2, <1>3, <1>4, <1>5, <1>6, QueueFacts
  <1>9. Basics'
    BY <1>1, <1>2 DEF Basics, clientVars
  <1>10. ASSUME NEW c \in Client, NEW k \in {"pause", "resume", "frame"} PROVE ~Has(toClient[c], k)'
    <2>1. ~Has(toClient[c], k) /\ ~Has(<< >>, k)
      BY <1>1, EmptyQueue DEF NoMatchYet
    <2>2. ~Has(qs[c], k)
      <3>1. qs[c] = toClient[c] \/ qs[c] = << >>
        BY <1>4
      <3> QED BY <2>1, <3>1
    <2>3. m # Note(k)
      BY <1>3 DEF Pauses
    <2>4. ~Has(toClient'[c], k)
      BY <1>3, <1>4, <1>5, <2>2, <2>3, GrownQueue
    <2> QED BY <2>4, NewQueue
  <1>11. NoMatchYet'
    BY <1>1, <1>2, <1>10 DEF NoMatchYet, clientVars
  <1>12. \A d \in Healthy \cap Known : phase[d] # "over"
    BY <1>1, <1>2 DEF Stays, Ending
  <1>13. Stays'
    <2> SUFFICES ASSUME NEW d \in Healthy
                 PROVE  (IF d \in Known THEN Joined(d) /\ (phase[d] = "over" => Ending(d)) ELSE Stranger(d))'
      BY <1>2 DEF Stays
    <2>1. CASE d \in Known
      <3>1. d \in Present /\ phase'[d] # "over"
        BY <1>2, <1>12, <2>1 DEF clientVars
      <3>2. Joined(d)'
        <4>1. /\ Joined(d) /\ peers'[d].slot = peers[d].slot /\ peers'[d].again = peers[d].again
              /\ m \notin {Note("reject"), Note("disconnect")}
              /\ toClient'[d] = Queue(toClient[d], m) /\ phase'[d] = phase[d] /\ slot'[d] = slot[d]
          BY <1>2, <1>3, <1>8, <2>1, <3>1 DEF Stays, clientVars
        <4> QED BY <1>3, <2>1, <4>1, JoinedGrows
      <3> QED BY <1>2, <3>1, <3>2
    <2>2. CASE d \notin Known
      <3>1. d \in Client /\ toClient'[d] = toClient[d] /\ d \notin Present
        BY <1>2, <1>5, <1>6, <2>2 DEF Healthy
      <3> QED BY <1>2, <2>2, <3>1 DEF Stays, Stranger, Note, clientVars
    <2> QED BY <2>1, <2>2
  <1>14. \A d \in Client : d \in Present => ~HasRead(d)'
    BY <1>8 DEF HasRead
  <1>15. Aheads' /\ Hearers'
    BY <1>2, <1>14 DEF Aheads, Hearers, Takes
  <1>16. Mute'
    BY <1>2 DEF Mute
  <1>17. InMatch' => go
    BY <1>1 DEF InMatch, MatchPhase
  <1>18. ASSUME InMatch', NEW d \in Present, phase[d] # "over"
         PROVE  phase[d] = "lobby" /\ StartsOnce(toClient[d])' /\ Starts(toClient[d])'
    <2>1. go /\ peers[d].ready /\ d \in Known /\ d \in Client
      BY <1>2, <1>17, <1>18 DEF go, AllReady
    <2>2. slot[d] # None
      <3>1. slot[d] = peers[d].slot /\ peers[d].slot \in Slot
        BY <2>1 DEF SessionInv, Seats, ReadyOwn, PeersOK, Known, Seat
      <3> QED BY <3>1, SlotFacts DEF SessionInv, Types, HostTypes
    <2>3. phase[d] = "lobby"
      BY <1>7, <1>18, <2>1, <2>2 DEF Basics, SessionInv, Types, ClientTypes, Phase, MatchPhase
    <2>4. StartsOnce(Queue(toClient[d], m)) /\ Starts(Queue(toClient[d], m))
      <3>1. StartsOnce(Queue(toClient[d], m))
        BY <1>3, <1>4, <1>7, <2>1, StartQueue
      <3>2. \A q : StartsOnce(q) => Starts(q)
        BY DEF StartsOnce, Starts
      <3> QED BY <3>1, <3>2
    <2> QED BY <1>8, <2>1, <2>3, <2>4, NewQueue
  <1>19. Acked'
    <2> SUFFICES ASSUME InMatch', NEW h \in Present, h \in up, pend[h] # {}
                 PROVE  phase[h] = "lobby" /\ Starts(toClient[h])' /\ ~stalled
      BY <1>1, <1>2 DEF Acked, clientVars
    <2>1. phase[h] # "over"
      BY <1>2 DEF Basics
    <2> QED BY <1>1, <1>18, <2>1 DEF NoMatchYet
  <1>20. ASSUME NEW d \in Healthy \cap Known PROVE hostSilence'[d] = 0 \/ (d \notin moved' /\ hostSilence'[d] <= 1)
    <2>1. Chats(d) /\ d \in Client /\ word[d] = None /\ d # Host /\ hostSilence[d] \in Nat
      BY <1>1, <1>2, Patiences, Clocks DEF Lobby, SessionInv
    <2>2. hostSilence[d] = 0 \/ (d \notin moved /\ hostSilence[d] <= 1)
      BY <2>1 DEF Chats
    <2> QED BY <1>2, <2>1, <2>2
  <1>21. Lobby'
    <2> SUFFICES ASSUME NEW d \in Healthy \cap Known, d \in Present PROVE Chats(d)'
      BY <1>2 DEF Lobby
    <2> QED BY <1>8, <1>14, <1>20 DEF Chats
  <1>22. \A d \in Client : Takes(d)' => d \in Healthy \cap Known /\ d \in Present /\ phase[d] # "over" /\ InMatch'
    BY <1>2 DEF Takes, clientVars
  <1>23. Views'
    <2> SUFFICES ASSUME NEW d \in Client, Takes(d)' PROVE View(d)'
      BY DEF Views
    <2>1. phase[d] = "lobby" /\ StartsOnce(toClient[d])'
      BY <1>18, <1>22
    <2>2. ~stalled /\ ~toldPause[d] /\ ~sawFrame[d] /\ toldPause[d] \in BOOLEAN /\ stalled \in BOOLEAN
      BY <1>1 DEF NoMatchYet, SessionInv, Types, ClientTypes, HostTypes
    <2>3. WillKnow(toClient[d], toldPause[d], stalled)'
      <3>1. toldPause'[d] = stalled'
        BY <1>1, <1>2, <2>2 DEF clientVars
      <3>2. ~Has(toClient[d], "pause")' /\ ~Has(toClient[d], "resume")' 
        BY <1>10
      <3>3. \A i \in 1..Len(toClient'[d]) : toClient'[d][i] \notin Pauses
        BY <3>2 DEF Has, Pauses, Note
      <3> QED BY <3>1, <3>3 DEF WillKnow, Pauses, Note
    <2>4. ~Has(toClient[d], "frame")'
      BY <1>10
    <2> QED BY <1>2, <2>1, <2>2, <2>3, <2>4 DEF View, clientVars
  <1>24. Speakers'
    <2> SUFFICES ASSUME NEW d \in Client, Takes(d)' PROVE Unplayed(d)' /\ Speaks(d)'
      BY DEF Speakers
    <2>1. phase[d] = "lobby" /\ d \in Healthy \cap Known /\ d \in Present
      BY <1>18, <1>22
    <2>2. seen = {} /\ fresh = {} /\ word[d] = None
      BY <1>1, <1>2, <2>1 DEF NoMatchYet
    <2>3. Unplayed(d)'
      BY <1>1, <1>2, <2>2, NoneIsNoWord DEF Unplayed, Awaited, clientVars
    <2>4. Speaks(d)'
      BY <1>2, <1>20, <2>1 DEF Speaks, clientVars
    <2> QED BY <2>3, <2>4
  <1>25. SessionInv'
    BY HostInLobbyKeeps
  <1> QED BY <1>9, <1>11, <1>13, <1>15, <1>16, <1>19, <1>21, <1>23, <1>24, <1>25

\* The host looks at its clocks in a match, and goes on, waits, or starts to.
LEMMA HostInMatchStays ==
  ASSUME HealthInv, HostInMatch
  PROVE  HealthInv'
  <1> USE DEF HealthInv
  <1> DEFINE ready == hostPhase = "playing" /\ fresh = Known
             resumed == IF stalled THEN ToAll(toClient, Known, Note("resume")) ELSE toClient
             pauses == ~ready /\ ~stalled /\ idle = 1
  <1>1. /\ InMatch /\ Silent = {} /\ HostMoves
        /\ toClient' = IF ready THEN ToAll(resumed, Known, Note("frame"))
                       ELSE IF pauses THEN ToAll(toClient, Known, Note("pause"))
                       ELSE toClient
        /\ stalled' = (~ready /\ (stalled \/ pauses))
        /\ fresh' = IF ready THEN {} ELSE fresh
        /\ \/ alive' = alive \cup (Known \cap up)
           \/ (ready \/ pauses \/ \E c \in Known : toClient[c] # << >>) /\ alive' = alive
        /\ UNCHANGED <<hostPhase, seen>>
    BY DEF HostInMatch
  <1>2. /\ Polls(Host) /\ On(Host) /\ Host \notin moved
        /\ moved' = moved \cup {Host} /\ Host \in moved'
        /\ UNCHANGED <<playerCount, clientVars, word, up, silence, load, hurt>>
        /\ Known' = Present /\ Known \subseteq Client
        /\ \A c \in Present : peers'[c] = peers[c]
        /\ lost' \subseteq hurt' /\ Healthy' = Healthy
        /\ \A c \in Known : word[c] = None
        /\ \A c \in Client : hostSilence'[c] \in {0, hostSilence[c]}
        /\ \A c \in Present : pend[c] = {} \/ c \notin up => hostSilence'[c] = hostSilence[c]
    BY <1>1, HostMovesStays
  <1>3. Present = Known /\ Host \notin Client
    BY <1>1, Patiences DEF Present
  <1>4. /\ InMatch' = InMatch /\ On(Host)' = On(Host) /\ Opening(Host)' = Opening(Host)
        /\ \A d \in Client : Takes(d)' = Takes(d) /\ (d \in moved' <=> d \in moved)
    BY <1>1, <1>2, <1>3 DEF InMatch, On, Opening, PhaseOf, Takes, clientVars
  <1>5. stalled \in BOOLEAN /\ idle = 1 /\ (pauses <=> ~ready /\ ~stalled)
    BY <1>1, <1>2 DEF SessionInv, Types, HostTypes, Basics
  <1>6. stalled' = ~ready
    BY <1>1, <1>5
  <1> HIDE DEF ready, pauses
  <1>7. \A c \in Client : toClient[c] \in Seq(Told)
    BY DEF SessionInv, Types, LinkTypes
  <1>8. /\ \A k \in {"resume", "frame", "pause"} : Note(k) \in Told /\ Note(k) # Note("start")
        /\ Note("frame") \notin Pauses /\ Note("pause") # Note("frame") /\ Note("resume") # Note("frame")
        /\ \A k \in {"resume", "frame", "pause"}, j \in {"reject", "disconnect"} : Note(k) # Note(j)
    BY DEF Told, Pauses, Note
  <1>9. ASSUME NEW c \in Client
        PROVE  /\ resumed[c] = IF stalled /\ c \in Known THEN Queue(toClient[c], Note("resume")) ELSE toClient[c]
               /\ resumed[c] \in Seq(Told)
               /\ c \notin Known => toClient'[c] = toClient[c]
               /\ c \in Known =>
                    toClient'[c] = IF ready THEN Queue(resumed[c], Note("frame"))
                                   ELSE IF pauses THEN Queue(toClient[c], Note("pause")) ELSE toClient[c]
    <2>1. resumed[c] = IF stalled /\ c \in Known THEN Queue(toClient[c], Note("resume")) ELSE toClient[c]
      BY DEF ToAll
    <2>2. resumed[c] \in Seq(Told)
      BY <1>7, <1>8, <2>1, QueueFacts
    <2>3. /\ c \notin Known => toClient'[c] = toClient[c]
          /\ c \in Known =>
               toClient'[c] = IF ready THEN Queue(resumed[c], Note("frame"))
                              ELSE IF pauses THEN Queue(toClient[c], Note("pause")) ELSE toClient[c]
      <3> DEFINE r == resumed
      <3>1. c \notin Known => resumed[c] = toClient[c]
        BY <2>1
      <3>2. toClient' = IF ready THEN ToAll(r, Known, Note("frame"))
                        ELSE IF pauses THEN ToAll(toClient, Known, Note("pause")) ELSE toClient
        BY <1>1
      <3> HIDE DEF r
      <3>3. r = resumed
        BY DEF r
      <3> HIDE DEF resumed
      <3> QED BY <3>1, <3>2, <3>3 DEF ToAll
    <2> QED BY <2>1, <2>2, <2>3
  <1> HIDE DEF resumed
  <1>10. \A c \in Known : ready \/ pauses => toClient'[c] # << >>
    <2> SUFFICES ASSUME NEW c \in Known, ready \/ pauses PROVE toClient'[c] # << >>
      OBVIOUS
    <2>1. /\ Queue(resumed[c], Note("frame")) # << >>
          /\ Queue(toClient[c], Note("pause")) # << >>
      <3>1. c \in Client /\ resumed[c] \in Seq(Told) /\ toClient[c] \in Seq(Told)
        BY <1>2, <1>7, <1>9
      <3>2. Note("frame") \in Told /\ Note("pause") \in Told
        BY <1>8
      <3> QED BY <3>1, <3>2, QueueFacts
    <2>2. \/ toClient'[c] = Queue(resumed[c], Note("frame"))
          \/ toClient'[c] = Queue(toClient[c], Note("pause"))
      BY <1>2, <1>9
    <2> QED BY <2>1, <2>2
  <1>10a. ASSUME NEW c \in Client, NEW told \in BOOLEAN
         PROVE  /\ WillKnow(Queue(toClient[c], Note("pause")), told, TRUE)
                /\ WillKnow(Queue(toClient[c], Note("resume")), told, FALSE)
    <2>1. toClient[c] \in Seq(Told) /\ Note("pause") \in Told /\ Note("resume") \in Told
      BY <1>7, <1>8
    <2>2. /\ Note("pause") = Note(IF TRUE THEN "pause" ELSE "resume")
          /\ Note("resume") = Note(IF FALSE THEN "pause" ELSE "resume")
      OBVIOUS
    <2>3. \A m \in Told, st \in BOOLEAN :
             m = Note(IF st THEN "pause" ELSE "resume") => WillKnow(Queue(toClient[c], m), told, st)
      BY <2>1, GrownQueue
    <2> QED BY <2>1, <2>2, <2>3
  <1>11. ASSUME NEW c \in Known
         PROVE  /\ \A k : Has(toClient[c], k)' =>
                     Has(toClient[c], k) \/ (k = "frame" /\ ready) \/ k \in {"resume", "pause"}
                /\ Starts(toClient[c]) => Starts(toClient[c])'
                /\ Starts(toClient[c])' => Starts(toClient[c])
                /\ StartsOnce(toClient[c]) => StartsOnce(toClient[c])'
                /\ toClient[c] # << >> => toClient'[c] # << >> /\ Head(toClient'[c]) = Head(toClient[c])
    <2>1. /\ c \in Client /\ toClient[c] \in Seq(Told) /\ resumed[c] \in Seq(Told)
          /\ resumed[c] = toClient[c] \/ resumed[c] = Queue(toClient[c], Note("resume"))
          /\ \/ ready /\ toClient'[c] = Queue(resumed[c], Note("frame"))
             \/ toClient'[c] = Queue(toClient[c], Note("pause"))
             \/ toClient'[c] = toClient[c]
      BY <1>2, <1>7, <1>9
    <2>2. /\ \A k : Has(resumed[c], k) => Has(toClient[c], k) \/ Note("resume") = Note(k)
          /\ Starts(toClient[c]) <=> Starts(resumed[c])
          /\ StartsOnce(toClient[c]) => StartsOnce(resumed[c])
          /\ toClient[c] # << >> => resumed[c] # << >> /\ Head(resumed[c]) = Head(toClient[c])
      <3>1. CASE resumed[c] = toClient[c]
        BY <3>1
      <3>2. CASE resumed[c] = Queue(toClient[c], Note("resume"))
        <4>1. /\ toClient[c] \in Seq(Told) /\ Note("resume") \in Told
              /\ Note("resume") # Note("start")
          BY <1>8, <2>1
        <4> HIDE DEF Note
        <4> QED BY <3>2, <4>1, GrownQueue, StartQueue, QueueFacts
      <3> QED BY <2>1, <3>1, <3>2
    <2>3. /\ \A k : Has(Queue(resumed[c], Note("frame")), k) => Has(resumed[c], k) \/ Note("frame") = Note(k)
          /\ Starts(resumed[c]) <=> Starts(Queue(resumed[c], Note("frame")))
          /\ StartsOnce(resumed[c]) => StartsOnce(Queue(resumed[c], Note("frame")))
          /\ resumed[c] # << >> => /\ Queue(resumed[c], Note("frame")) # << >>
                                   /\ Head(Queue(resumed[c], Note("frame"))) = Head(resumed[c])
      BY <1>8, <2>1, GrownQueue, StartQueue, QueueFacts
    <2>4. /\ \A k : Has(Queue(toClient[c], Note("pause")), k) => Has(toClient[c], k) \/ Note("pause") = Note(k)
          /\ Starts(toClient[c]) <=> Starts(Queue(toClient[c], Note("pause")))
          /\ StartsOnce(toClient[c]) => StartsOnce(Queue(toClient[c], Note("pause")))
          /\ toClient[c] # << >> => /\ Queue(toClient[c], Note("pause")) # << >>
                                    /\ Head(Queue(toClient[c], Note("pause"))) = Head(toClient[c])
      BY <1>8, <2>1, GrownQueue, StartQueue, QueueFacts
    <2>5. /\ \A k : Has(toClient[c], k)' = Has(toClient'[c], k)
          /\ Starts(toClient[c])' = Starts(toClient'[c])
          /\ StartsOnce(toClient[c])' = StartsOnce(toClient'[c])
      BY <2>1, NewQueue
    <2>6. \A j, k : Note(j) = Note(k) => j = k
      BY DEF Note
    <2>7. CASE ready /\ toClient'[c] = Queue(resumed[c], Note("frame"))
      BY <2>2, <2>3, <2>5, <2>6, <2>7
    <2>8. CASE toClient'[c] = Queue(toClient[c], Note("pause"))
      BY <2>4, <2>5, <2>6, <2>8
    <2>9. CASE toClient'[c] = toClient[c]
      BY <2>5, <2>9
    <2> QED BY <2>1, <2>7, <2>8, <2>9
  <1>12. Basics'
    BY <1>2, <1>3 DEF Basics, clientVars
  <1>13. NoMatchYet' /\ Lobby'
    BY <1>1 DEF NoMatchYet, Lobby, InMatch, MatchPhase
  <1>14. \A d \in Healthy \cap Known : phase[d] # "over"
    <2> SUFFICES ASSUME NEW d \in Healthy, d \in Known, phase[d] = "over" PROVE FALSE
      OBVIOUS
    <2>1. PICK h \in Known : stalled /\ Dead(h) /\ hostSilence[h] >= PausePatience
      BY <1>2 DEF Stays, Ending
    <2>2. HostPatience = PausePatience
      BY <1>1, <2>1 DEF HostPatience
    <2>3. ~Heard(h)
      <3>1. Unread(h) = {} /\ h \in Client
        BY <1>1, MatchPeers
      <3> QED BY <2>1, <3>1 DEF Heard, Readable, Dead, Basics
    <2> QED BY <1>1, <2>1, <2>2, <2>3 DEF Silent
  <1>15. Stays'
    <2> SUFFICES ASSUME NEW d \in Healthy
                 PROVE  (IF d \in Known THEN Joined(d) /\ (phase[d] = "over" => Ending(d)) ELSE Stranger(d))'
      BY <1>2 DEF Stays
    <2>1. CASE d \in Known
      <3>1. phase'[d] # "over" /\ d \in Known'
        BY <1>2, <1>3, <1>14, <2>1 DEF clientVars
      <3>2. Joined(d)'
        <4>1. Joined(d) /\ peers'[d] = peers[d]
          BY <1>2, <1>3, <2>1 DEF Stays
        <4>2. ~Has(toClient[d], "reject")' /\ ~Has(toClient[d], "disconnect")'
          BY <1>11, <2>1, <4>1 DEF Joined
        <4>3. toClient[d] # << >> => toClient'[d] # << >> /\ Head(toClient'[d]) = Head(toClient[d])
          BY <1>11, <2>1
        <4> QED BY <1>2, <4>1, <4>2, <4>3 DEF Joined, Welcome, clientVars
      <3> QED BY <3>1, <3>2
    <2>2. CASE d \notin Known
      <3>1. d \in Client /\ toClient'[d] = toClient[d] /\ d \notin Known'
        BY <1>2, <1>3, <1>9, <2>2 DEF Healthy
      <3> QED BY <1>2, <2>2, <3>1 DEF Stays, Stranger, Note, clientVars
    <2> QED BY <2>1, <2>2
  <1>16. Views'
    <2> SUFFICES ASSUME NEW d \in Client, Takes(d) PROVE View(d)'
      BY <1>4 DEF Views
    <2>1. View(d) /\ d \in Known /\ toldPause[d] \in BOOLEAN
      BY DEF Views, Takes, SessionInv, Types, ClientTypes
    <2>2. (\/ phase[d] \in MatchPhase /\ ~Starts(toClient[d])
           \/ phase[d] = "lobby" /\ StartsOnce(toClient[d]))'
      BY <1>2, <1>11, <2>1 DEF View, MatchPhase, clientVars
    <2>3. (Opening(Host) => ~sawFrame[d] /\ ~Has(toClient[d], "frame"))'
      <3> SUFFICES ASSUME Opening(Host) PROVE ~sawFrame[d] /\ ~Has(toClient[d], "frame")'
        BY <1>2, <1>4 DEF clientVars
      <3>1. ~ready
        BY DEF ready, Opening, PhaseOf
      <3>2. ~Has(toClient[d], "frame")'
        BY <1>11, <2>1, <3>1 DEF View
      <3> QED BY <2>1, <3>2 DEF View
    <2>4. WillKnow(toClient'[d], toldPause[d], stalled')
      <3>1. CASE ready
        <4>1. WillKnow(resumed[d], toldPause[d], FALSE)
          <5>1. CASE stalled
            <6>1. resumed[d] = Queue(toClient[d], Note("resume"))
              BY <1>9, <2>1, <5>1
            <6>2. WillKnow(Queue(toClient[d], Note("resume")), toldPause[d], FALSE)
              BY <1>10a, <2>1
            <6> QED BY <6>1, <6>2
          <5>2. CASE ~stalled
            <6>1. stalled = FALSE
              BY <1>5, <5>2
            <6> QED BY <1>9, <2>1, <5>2, <6>1 DEF View
          <5> QED BY <5>1, <5>2
        <4>2. WillKnow(Queue(resumed[d], Note("frame")), toldPause[d], FALSE)
          <5>1. /\ resumed[d] \in Seq(Told) /\ Note("frame") \in Told /\ Note("frame") \notin Pauses
                /\ toldPause[d] \in BOOLEAN
            BY <1>8, <1>9, <2>1
          <5>2. \A told, st \in BOOLEAN :
                  WillKnow(resumed[d], told, st) => WillKnow(Queue(resumed[d], Note("frame")), told, st)
            BY <5>1, GrownQueue
          <5> QED BY <4>1, <5>1, <5>2
        <4>3. toClient'[d] = Queue(resumed[d], Note("frame")) /\ stalled' = FALSE
          BY <1>6, <1>9, <2>1, <3>1
        <4> QED BY <4>2, <4>3
      <3>2. CASE ~ready /\ ~stalled
        <4>1. WillKnow(Queue(toClient[d], Note("pause")), toldPause[d], TRUE)
          BY <1>10a, <2>1
        <4>2. toClient'[d] = Queue(toClient[d], Note("pause")) /\ stalled' = TRUE
          BY <1>5, <1>6, <1>9, <2>1, <3>2
        <4> QED BY <4>1, <4>2
      <3>3. CASE ~ready /\ stalled
        <4>1. toClient'[d] = toClient[d] /\ stalled' = TRUE /\ stalled = TRUE
          BY <1>5, <1>6, <1>9, <2>1, <3>3
        <4> QED BY <2>1, <4>1 DEF View
      <3> QED BY <3>1, <3>2, <3>3
    <2>5. WillKnow(toClient[d], toldPause[d], stalled)'
      BY <1>2, <2>4, NewQueue DEF clientVars
    <2> QED BY <2>2, <2>3, <2>5 DEF View
  <1>17. Speakers'
    <2> SUFFICES ASSUME NEW d \in Client, Takes(d) PROVE Unplayed(d)' /\ Speaks(d)'
      BY <1>4 DEF Speakers
    <2>1. d \in Known /\ word[d] = None /\ Unplayed(d) /\ Speaks(d) /\ peers'[d] = peers[d]
      BY <1>2, <1>3 DEF Speakers, Takes
    <2>2. Awaited(d) => Awaited(d)'
      <3>1. Awaited(d) => ~ready
        BY <2>1 DEF Awaited, ready
      <3> QED BY <1>1, <1>6, <3>1 DEF Awaited
    <2>3. Unplayed(d)'
      BY <1>2, <2>1, <2>2, NoneIsNoWord DEF Unplayed, clientVars
    <2>4. hostSilence'[d] = 0 \/ hostSilence'[d] = hostSilence[d]
      BY <1>2
    <2> QED BY <1>2, <1>4, <2>1, <2>2, <2>3, <2>4 DEF Speaks, clientVars
  <1>18. Mute'
    BY <1>2, <1>3 DEF Mute
  <1>19. \A h \in Known \cap up : pend[h] # {} => h \notin moved /\ ~stalled
    BY <1>1, <1>2 DEF Acked
  <1>20. Acked'
    <2> SUFFICES ASSUME NEW h \in Known, h \in up, pend[h] # {}
                 PROVE  phase[h] = "lobby" /\ Starts(toClient[h])' /\ h \notin moved'
      BY <1>2, <1>3 DEF Acked, clientVars
    <2>1. phase[h] = "lobby" /\ Starts(toClient[h]) /\ h \in Client
      BY <1>1, <1>2 DEF Acked
    <2> QED BY <1>4, <1>11, <1>19, <2>1
  <1>21. ASSUME NEW d \in Client, Takes(d), HasRead(d)'
         PROVE  /\ HasRead(d) /\ stalled /\ stalled' /\ toClient' = toClient
                /\ \E h \in Known : toClient[h] # << >>
                /\ \A h \in Known : hostSilence'[h] = hostSilence[h]
    <2>1. d \in Known /\ d \in up
      BY <1>21 DEF Takes, Basics
    <2>2. ~ready /\ ~pauses
      BY <1>10, <1>21, <2>1 DEF HasRead
    <2>3. toClient' = toClient /\ stalled /\ stalled'
      BY <1>1, <1>5, <1>6, <2>2
    <2>4. alive' = alive /\ \E h \in Known : toClient[h] # << >>
      BY <1>1, <1>21, <2>1, <2>2 DEF HasRead
    <2>5. \A h \in Known : hostSilence'[h] = hostSilence[h]
      BY <1>2, <1>3, <1>19, <2>3
    <2> QED BY <1>21, <2>3, <2>4, <2>5 DEF HasRead
  <1>22. \A d \in Client : On(d)' = On(d) /\ Loading(d)' = Loading(d)
    BY <1>2, <1>3 DEF On, Loading, clientVars
  <1>23. Aheads'
    <2> SUFFICES ASSUME NEW d \in Client, NEW h \in Client, Takes(d), HasRead(d)', h \in Known,
                        toClient'[h] # << >>
                 PROVE  Ahead(d, h)'
      BY <1>2, <1>3, <1>4 DEF Aheads
    <2>1. HasRead(d) /\ toClient[h] # << >> /\ hostSilence'[h] = hostSilence[h] /\ stalled
      BY <1>21
    <2>2. Ahead(d, h)
      BY <2>1 DEF Aheads
    <2> QED BY <1>2, <1>4, <1>22, <2>1, <2>2 DEF Ahead, Short
  <1>24. Hearers'
    <2> SUFFICES ASSUME NEW d \in Client, Takes(d), HasRead(d)' PROVE Hears(d)'
      BY <1>4 DEF Hearers
    <2>1. HasRead(d) /\ stalled /\ stalled' /\ Hears(d) /\ silence[d] \in Nat
      BY <1>21, Clocks DEF Hearers, SessionInv
    <2>2. PICK h \in Known : toClient[h] # << >> /\ hostSilence'[h] = hostSilence[h]
      BY <1>21
    <2>3. h \in Client /\ Ahead(d, h)
      BY <1>2, <2>1, <2>2 DEF Aheads
    <2>4. (Dead(h)' /\ hostSilence'[h] >= silence[d]) \/ Short(silence[d])
      <3>1. CASE h \notin up \/ phase[h] = "over"
        BY <1>2, <1>3, <2>1, <2>2, <2>3, <3>1 DEF Dead, Ahead, clientVars
      <3>2. CASE h \in up /\ phase[h] # "over"
        <4>1. On(h)
          BY <1>1, <1>3, <2>3, <3>2, MatchPeers DEF On, MatchPhase
        <4>2. load[h] \in Nat /\ load[h] <= LoadTime /\ LoadTime \in Nat
          BY <2>3, Clocks, Patiences DEF SessionInv
        <4> QED BY <2>1, <2>3, <3>2, <4>1, <4>2, ShortFacts DEF Ahead
      <3> QED BY <3>1, <3>2
    <2>5. Short(silence[d])' = Short(silence[d])
      BY <1>2 DEF Short
    <2> QED BY <1>1, <1>2, <1>3, <1>4, <2>1, <2>4, <2>5 DEF Hears
  <1>25. SessionInv'
    BY HostInMatchKeeps
  <1> QED BY <1>12, <1>13, <1>15, <1>16, <1>17, <1>18, <1>20, <1>23, <1>24, <1>25

LEMMA InitHealth == Init => HealthInv
  <1> SUFFICES ASSUME Init PROVE HealthInv
    OBVIOUS
  <1>1. Known = {} /\ Host \notin Client
    BY Patiences DEF Init, Known
  <1>2. SessionInv
    BY InitInv
  <1>3. \A c \in Client : /\ phase[c] = "new" /\ slot[c] = None /\ pend[c] = {} /\ ~sawFrame[c]
                          /\ ~toldPause[c] /\ toClient[c] = << >> /\ word[c] = None
    BY DEF Init
  <1>4. ~InMatch
    BY DEF Init, InMatch, MatchPhase
  <1>5. Basics
    BY <1>1, <1>3, <1>4 DEF Init, Basics, Healthy
  <1>6. NoMatchYet
    BY <1>3, EmptyQueue DEF Init, NoMatchYet
  <1>7. Stays
    BY <1>1, <1>3 DEF Stays, Stranger, Healthy
  <1>8. \A c \in Client : ~Takes(c)
    BY <1>4 DEF Takes
  <1> QED BY <1>1, <1>2, <1>4, <1>5, <1>6, <1>7, <1>8
          DEF HealthInv, Views, Speakers, Lobby, Mute, Acked, Aheads, Hearers

\* Nothing moves.
LEMMA StutterStays ==
  ASSUME HealthInv, UNCHANGED vars
  PROVE  HealthInv'
  <1> USE DEF HealthInv
  <1>1. UNCHANGED <<playerCount, hostPhase, peers, seen, fresh, stalled, idle, phase, slot, pend, sawFrame,
                    toldPause, lines, toClient, word, alive, up, hostSilence, silence, moved, load, hurt, lost>>
    BY DEF vars, hostVars, clientVars, timeVars
  <1>2. SessionInv'
    BY NextKeepsInv
  <1>3. /\ Known' = Known /\ Healthy' = Healthy /\ InMatch' = InMatch
        /\ On(Host)' = On(Host) /\ Opening(Host)' = Opening(Host) /\ Loading(Host)' = Loading(Host)
        /\ Polls(Host)' = Polls(Host)
        /\ \A c \in Client : /\ On(c)' = On(c) /\ Loading(c)' = Loading(c) /\ HasRead(c)' = HasRead(c)
                             /\ Takes(c)' = Takes(c) /\ Dead(c)' = Dead(c)
    BY <1>1 DEF Known, Healthy, InMatch, On, Opening, Loading, Polls, PhaseOf, HasRead, Takes, Dead
  <1>4. \A c \in Client : \A k : Has(toClient[c], k)' = Has(toClient[c], k)
    BY <1>1, SameQueue
  <1>5. \A c \in Client : Starts(toClient[c])' = Starts(toClient[c])
    BY <1>1, SameQueue
  <1>6. Basics'
    BY <1>1, <1>3 DEF Basics
  <1>7. NoMatchYet'
    BY <1>1, <1>4 DEF NoMatchYet
  <1>8. Stays'
    <2> SUFFICES ASSUME On(Host), NEW c \in Healthy
                 PROVE  (IF c \in Known THEN Joined(c) /\ (phase[c] = "over" => Ending(c)) ELSE Stranger(c))'
      BY <1>3 DEF Stays
    <2>1. c \in Client
      BY DEF Healthy
    <2>2. Joined(c)' = Joined(c)
      <3>1. Joined(c) => Joined(c)'
        BY <1>1, <1>4, <2>1 DEF Joined, Welcome
      <3>2. Joined(c)' => Joined(c)
        BY <1>1, <1>4, <2>1 DEF Joined, Welcome
      <3> QED BY <3>1, <3>2 DEF Joined
    <2>3. Ending(c) => Ending(c)'
      BY <1>1, <1>3 DEF Ending, Short, Later, Dead
    <2>4. Stranger(c) => Stranger(c)'
      BY <1>1 DEF Stranger, Note
    <2> QED BY <1>1, <1>3, <2>2, <2>3, <2>4 DEF Stays
  <1>9. Views'
    <2> SUFFICES ASSUME NEW c \in Client, Takes(c) PROVE View(c)'
      BY <1>3 DEF Views
    <2> QED BY <1>1, <1>3, SameView DEF Views
  <1>10. Speakers'
    BY <1>1, <1>3 DEF Speakers, Unplayed, Speaks, Awaited
  <1>11. Lobby' /\ Mute'
    BY <1>1, <1>3 DEF Lobby, Chats, Mute, Healthy, Known
  <1>12. Acked'
    BY <1>1, <1>3, <1>5, <1>2 DEF Acked, Known
  <1>13. Aheads'
    BY <1>1, <1>3 DEF Aheads, Ahead, Short
  <1>14. Hearers'
    BY <1>1, <1>3 DEF Hearers, Hears, Short, Later, Dead
  <1> QED BY <1>2, <1>6, <1>7, <1>8, <1>9, <1>10, <1>11, <1>12, <1>13, <1>14

LEMMA NextStays ==
  ASSUME HealthInv, ~Flaps, [Next]_vars
  PROVE  HealthInv'
  <1>1. CASE HostInLobby
    BY <1>1, HostInLobbyStays
  <1>2. CASE HostAborts
    BY <1>2, HostAbortsStays
  <1>3. CASE HostInMatch
    BY <1>3, HostInMatchStays
  <1>4. CASE Beat
    BY <1>4, BeatStays
  <1>5. ASSUME NEW p \in Program, BeginLoad(p) \/ EnterGameplay(p) PROVE HealthInv'
    BY <1>5, BeginLoadStays, EnterGameplayStays
  <1>6. ASSUME NEW c \in Client, HostReadsHello(c) \/ HostReads(c) PROVE HealthInv'
    BY <1>6, HostReadsHelloStays, HostReadsStays
  <1>7. ASSUME NEW c \in Client,
               Open(c) \/ ClientReads(c) \/ ClientHears(c) \/ TimesOut(c) \/ ClientMoves(c)
        PROVE  HealthInv'
    BY <1>7, OpenStays, ClientReadsStays, ClientHearsStays, TimesOutStays, ClientMovesStays
  <1>8. ASSUME NEW c \in Client, Break(c) \/ Mend(c) PROVE HealthInv'
    BY <1>8, BreakStays, MendStays
  <1>9. CASE UNCHANGED vars
    BY <1>9, StutterStays
  <1> QED BY <1>1, <1>2, <1>3, <1>4, <1>5, <1>6, <1>7, <1>8, <1>9 DEF Next

\* Nobody whose link works is given up on, in either direction: the timeouts of
\* net/lockstep_runtime.py (_update_host, _update_client) are longer than a
\* program that polls, loads or waits in a stalled match is silent, for every
\* number of players, every order of polls, and every link that breaks.  A link
\* that broke must not come back during a match (~Flaps): then it is false.
THEOREM HealthyAlwaysStay == ASSUME ~Flaps PROVE Spec => []HealthyStay
  <1>1. HealthInv /\ [Next]_vars => HealthInv'
    BY NextStays
  <1>2. HealthInv => HealthyStay
    BY DEF HealthInv, Basics, HealthyStay
  <1> QED BY <1>1, <1>2, InitHealth, PTL DEF Spec
===============================================================================
