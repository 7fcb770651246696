---------------------------- MODULE RelayRoomProofs ----------------------------
(***************************************************************************)
(* Proofs about RelayRoom, for every number of guests, seats and peers and *)
(* every number of mishaps: the relay's tables agree (SeatsAgree), nobody  *)
(* misses the start (StartReaches), a pause has a reason (PauseEnds) and a *)
(* player keeps its seat (SeatKept).                                       *)
(***************************************************************************)
EXTENDS RelayRoom, SequenceTheorems, WellFoundedInduction, TLAPS

UpMessage == [kind : {"create", "ready"}] \cup [kind : {"join"}, token : Slot \cup {None}]

DownMessage == [kind : {"welcome", "disconnect", "error"}]
               \cup [kind : {"state"}, taken : SUBSET Slot] \cup [kind : {"start"}, slot : Slot]

QueuesOK ==
  /\ up \in [Player -> Seq(UpMessage)]
  /\ down \in [Peer -> Seq(DownMessage)]
  /\ tookOver \in BOOLEAN

\* Before there is a room nobody has a seat, and after it nobody has one.
RoomInv ==
  /\ room = "none" => \A p \in Registered : peer[p].slot = None
  /\ ~Open => \A s \in Slot : seat[s] = None

\* A player has one live peer at most.
OneLink == \A c \in Player : \A p, q \in LiveOf(c) : p = q

\* What a queue q of a player with the runtime r asks the relay for; free: its
\* peer has no seat.  Before it is accepted it has sent nothing; the first message
\* after that, and only that one, asks for a seat, while its peer has none: for
\* the seat the player started in, if it has started.
AskedBy(q, r, free) ==
  /\ r.slot = None => r.state = "idle"
  /\ ~r.accepted => q = << >> /\ free /\ (r.slot # None => r.state = "self")
  /\ \A i \in 1..Len(q) : i # 1 => q[i].kind = "ready"
  /\ q # << >> =>
       /\ q[1].kind # "ready" => free
       /\ q[1].kind = "create" => r.slot = None
       /\ q[1].kind = "join" => q[1].token = r.slot

Free(c) == \A p \in LiveOf(c) : peer[p].slot = None

AskInv == OneLink /\ \A c \in Player : Running(c) => AskedBy(up[c], runtime[c], Free(c))

NoKind(queue, kind) == \A i \in 1..Len(queue) : queue[i].kind # kind
StartsFor(queue, slot) == \A i \in 1..Len(queue) : queue[i].kind = "start" => queue[i].slot = slot

\* A message that ends a wait when all seats are taken
Releases(msg) == msg.kind = "start" \/ (msg.kind = "state" /\ msg.taken = Slot)

\* The last departure told in a queue is followed by such a message.
Released(queue) ==
  \E i \in 1..Len(queue) :
    /\ Releases(queue[i])
    /\ \A j \in 1..Len(queue) : j > i => queue[j].kind # "disconnect"

\* What a queue q holds for a player with the runtime r whose peer has the seat
\* slot; started: it has a seat of the started room; full: a seat of a full room
\* in which no seat was taken over.
AnsweredBy(q, r, slot, started, full) ==
  \* nothing comes before the welcome, and no second one
  /\ r.accepted => NoKind(q, "welcome")
  /\ ~r.accepted => q # << >> /\ q[1].kind = "welcome" /\ NoKind(Tail(q), "welcome")
  \* the peer has the seat its player started in, and the starts name it
  /\ StartsFor(q, slot)
  /\ (slot # None /\ r.slot # None) => r.slot = slot
  \* the player has started, or will hear of it
  /\ started /\ NoKind(q, "start") => r.slot = slot
  \* the player does not wait, or will hear that it need not
  /\ full => (r.state # "waiting" /\ NoKind(q, "disconnect")) \/ Released(q)

InStarted(p) == room = "started" /\ p \in Seated(seat)
InFull(p) == FreeSlots = {} /\ ~tookOver /\ p \in Seated(seat)

Answered(p) ==
  AnsweredBy(down[p], runtime[peer[p].client], peer[p].slot, InStarted(p), InFull(p))

AnswerInv == \A p \in Peer : Heard(p) => Answered(p)

-----------------------------------------------------------------------------
\* What a queue is after a message was appended to it.
LEMMA AppendFacts ==
    ASSUME NEW q \in Seq(DownMessage), NEW m \in DownMessage
    PROVE  /\ Append(q, m) \in Seq(DownMessage)
           /\ Append(q, m) # << >>
           /\ q # << >> => Append(q, m)[1] = q[1] /\ Tail(Append(q, m)) = Append(Tail(q), m)
           /\ \A k : NoKind(Append(q, m), k) <=> (NoKind(q, k) /\ m.kind # k)
           /\ \A s : (StartsFor(q, s) /\ (m.kind = "start" => m.slot = s)) => StartsFor(Append(q, m), s)
           /\ (Released(q) /\ m.kind # "disconnect") => Released(Append(q, m))
           /\ (Releases(m) /\ m.kind # "disconnect") => Released(Append(q, m))
  <1> DEFINE a == Append(q, m)
  <1>1. /\ a \in Seq(DownMessage) /\ Len(a) = Len(q) + 1 /\ a[Len(q) + 1] = m
        /\ \A i \in 1..Len(q) : a[i] = q[i]
        /\ Len(q) \in Nat
    BY AppendProperties, LenProperties
  <1>2. a # << >>
    BY <1>1, EmptySeq
  <1>3. q # << >> => a[1] = q[1] /\ Tail(a) = Append(Tail(q), m)
    <2> SUFFICES ASSUME q # << >>
                 PROVE  a[1] = q[1] /\ Tail(a) = Append(Tail(q), m)
      OBVIOUS
    <2>1. Len(q) >= 1
      BY EmptySeq, LenProperties
    <2>2. /\ Tail(q) \in Seq(DownMessage) /\ Len(Tail(q)) = Len(q) - 1
          /\ \A i \in 1..Len(Tail(q)) : Tail(q)[i] = q[i + 1]
      BY HeadTailProperties
    <2>3. /\ Tail(a) \in Seq(DownMessage) /\ Len(Tail(a)) = Len(a) - 1
          /\ \A i \in 1..Len(Tail(a)) : Tail(a)[i] = a[i + 1]
      BY HeadTailProperties, <1>1, <1>2
    <2>4. /\ Append(Tail(q), m) \in Seq(DownMessage)
          /\ Len(Append(Tail(q), m)) = Len(Tail(q)) + 1
          /\ Append(Tail(q), m)[Len(Tail(q)) + 1] = m
          /\ \A i \in 1..Len(Tail(q)) : Append(Tail(q), m)[i] = Tail(q)[i]
      BY AppendProperties, <2>2
    <2>5. Len(Tail(a)) = Len(Append(Tail(q), m))
      BY <2>2, <2>3, <2>4, <1>1
    <2>6. ASSUME NEW i \in 1..Len(Tail(a))
          PROVE  Tail(a)[i] = Append(Tail(q), m)[i]
      <3> HIDE DEF a
      <3>1. Tail(a)[i] = a[i + 1] /\ i + 1 \in 1..(Len(q) + 1)
        BY <2>3, <1>1
      <3>2. CASE i = Len(q)
        BY <3>1, <3>2, <2>2, <2>4, <1>1
      <3>3. CASE i # Len(q)
        <4>1. i \in 1..(Len(q) - 1) /\ i + 1 \in 1..Len(q)
          <5>1. Len(Tail(a)) = Len(q)
            BY <2>3, <1>1
          <5>2. i \in 1..Len(q)
            BY <5>1
          <5> QED BY <5>2, <3>3, <1>1
        <4>2. i \in 1..Len(Tail(q))
          BY <4>1, <2>2
        <4> QED BY <4>1, <4>2, <3>1, <2>2, <2>4, <1>1
      <3> QED BY <3>2, <3>3
    <2> HIDE DEF a
    <2> QED BY <2>1, <2>3, <2>4, <2>5, <2>6, <1>1, SeqEqual
  <1> HIDE DEF a
  <1>4. \A k : NoKind(a, k) <=> (NoKind(q, k) /\ m.kind # k)
    BY <1>1 DEF NoKind
  <1>5. \A s : (StartsFor(q, s) /\ (m.kind = "start" => m.slot = s)) => StartsFor(a, s)
    BY <1>1 DEF StartsFor
  <1>6. (Released(q) /\ m.kind # "disconnect") => Released(a)
    BY <1>1 DEF Released
  <1>7. (Releases(m) /\ m.kind # "disconnect") => Released(a)
    <2> SUFFICES ASSUME Releases(m), m.kind # "disconnect"
                 PROVE  Released(a)
      OBVIOUS
    <2>1. Len(a) \in 1..Len(a) /\ Releases(a[Len(a)])
      BY <1>1
    <2>2. \A j \in 1..Len(a) : ~(j > Len(a))
      BY <1>1
    <2> QED BY <2>1, <2>2 DEF Released
  <1> QED BY <1>1, <1>2, <1>3, <1>4, <1>5, <1>6, <1>7 DEF a

\* What is left of a queue after its first message was taken.
LEMMA TailFacts ==
    ASSUME NEW q \in Seq(DownMessage), q # << >>
    PROVE  /\ Tail(q) \in Seq(DownMessage)
           /\ q[1] \in DownMessage /\ Head(q) = q[1]
           /\ \A k : NoKind(q, k) <=> (NoKind(Tail(q), k) /\ q[1].kind # k)
           /\ \A s : StartsFor(q, s) => StartsFor(Tail(q), s) /\ (q[1].kind = "start" => q[1].slot = s)
           /\ Released(q) => Released(Tail(q)) \/ (Releases(q[1]) /\ NoKind(Tail(q), "disconnect"))
  <1> DEFINE t == Tail(q)
  <1>1. /\ t \in Seq(DownMessage) /\ Len(t) = Len(q) - 1 /\ Len(q) \in Nat /\ Len(q) >= 1
        /\ \A i \in 1..Len(t) : t[i] = q[i + 1]
        /\ Head(q) = q[1]
    BY HeadTailProperties, EmptySeq, LenProperties
  <1> HIDE DEF t
  <1>2. \A i \in 1..Len(q) : i = 1 \/ (i - 1 \in 1..Len(t) /\ t[i - 1] = q[i])
    BY <1>1
  <1>3. \A i \in 1..Len(t) : i + 1 \in 1..Len(q) /\ q[i + 1] = t[i]
    BY <1>1
  <1>4. 1 \in 1..Len(q) /\ q[1] \in DownMessage
    BY <1>1, ElementOfSeq
  <1>5. \A k : NoKind(q, k) <=> (NoKind(t, k) /\ q[1].kind # k)
    BY <1>2, <1>3, <1>4 DEF NoKind
  <1>6. \A s : StartsFor(q, s) => StartsFor(t, s) /\ (q[1].kind = "start" => q[1].slot = s)
    BY <1>2, <1>3, <1>4 DEF StartsFor
  <1>7. ASSUME Released(q)
        PROVE  Released(t) \/ (Releases(q[1]) /\ NoKind(t, "disconnect"))
    <2>1. PICK i \in 1..Len(q) : /\ Releases(q[i])
                                 /\ \A j \in 1..Len(q) : j > i => q[j].kind # "disconnect"
      BY <1>7 DEF Released
    <2>2. CASE i = 1
      BY <2>1, <2>2, <1>1, <1>3 DEF NoKind
    <2>3. CASE i # 1
      <3>1. i - 1 \in 1..Len(t) /\ Releases(t[i - 1])
        BY <2>1, <2>3, <1>2
      <3>2. \A j \in 1..Len(t) : j > i - 1 => t[j].kind # "disconnect"
        BY <2>1, <1>1, <1>3
      <3> QED BY <3>1, <3>2 DEF Released
    <2> QED BY <2>2, <2>3
  <1> QED BY <1>1, <1>4, <1>5, <1>6, <1>7 DEF t

\* What is answered stays answered while nothing is asked that was not before,
LEMMA KeepsAnswered ==
    ASSUME NEW q, NEW r, NEW r2, NEW s, NEW st \in BOOLEAN, NEW fu \in BOOLEAN,
           NEW st2 \in BOOLEAN, NEW fu2 \in BOOLEAN,
           AnsweredBy(q, r, s, st, fu), st2 => st, fu2 => fu,
           r2.accepted = r.accepted, r2.slot = r.slot, r2.state = r.state
    PROVE  AnsweredBy(q, r2, s, st2, fu2)
  BY DEF AnsweredBy

\* when a message is sent that is no welcome, names the seat if it is a start,
\* and is no departure told to a full room,
LEMMA SentAnswered ==
    ASSUME NEW q \in Seq(DownMessage), NEW m \in DownMessage, NEW r, NEW s,
           NEW st \in BOOLEAN, NEW fu \in BOOLEAN, NEW st2 \in BOOLEAN, NEW fu2 \in BOOLEAN,
           AnsweredBy(q, r, s, st, fu),
           m.kind # "welcome", m.kind = "start" => m.slot = s,
           st2 => st \/ m.kind = "start",
           fu2 => Releases(m) \/ (fu /\ m.kind # "disconnect")
    PROVE  AnsweredBy(Append(q, m), r, s, st2, fu2)
  <1> DEFINE a == Append(q, m)
  <1>1. /\ a # << >>
        /\ q # << >> => a[1] = q[1] /\ Tail(a) = Append(Tail(q), m)
        /\ \A k : NoKind(a, k) <=> (NoKind(q, k) /\ m.kind # k)
        /\ StartsFor(q, s) => StartsFor(a, s)
        /\ (Released(q) /\ m.kind # "disconnect") => Released(a)
        /\ (Releases(m) /\ m.kind # "disconnect") => Released(a)
    BY AppendFacts
  <1>2. Releases(m) => m.kind # "disconnect"
    BY DEF Releases
  <1>3. ASSUME ~r.accepted
        PROVE  a # << >> /\ a[1].kind = "welcome" /\ NoKind(Tail(a), "welcome")
    <2>1. q # << >> /\ q[1].kind = "welcome" /\ NoKind(Tail(q), "welcome")
      BY <1>3 DEF AnsweredBy
    <2>2. Tail(q) \in Seq(DownMessage)
      BY <2>1, TailFacts
    <2>3. NoKind(Append(Tail(q), m), "welcome")
      BY <2>1, <2>2, AppendFacts
    <2> HIDE DEF a
    <2> QED BY <1>1, <2>1, <2>3
  <1> HIDE DEF a
  <1>4. r.accepted => NoKind(a, "welcome")
    BY <1>1 DEF AnsweredBy
  <1>5. StartsFor(a, s)
    BY <1>1 DEF AnsweredBy
  <1>6. (s # None /\ r.slot # None) => r.slot = s
    BY DEF AnsweredBy
  <1>7. (st2 /\ NoKind(a, "start")) => r.slot = s
    BY <1>1 DEF AnsweredBy
  <1>8. fu2 => (r.state # "waiting" /\ NoKind(a, "disconnect")) \/ Released(a)
    BY <1>1, <1>2 DEF AnsweredBy
  <1>9. AnsweredBy(a, r, s, st2, fu2)
    BY <1>3, <1>4, <1>5, <1>6, <1>7, <1>8 DEF AnsweredBy
  <1> QED BY <1>9 DEF a

\* when the player takes a message that is no welcome,
LEMMA TakenAnswered ==
    ASSUME NEW q \in Seq(DownMessage), q # << >>, NEW r, NEW r2, NEW s,
           NEW st \in BOOLEAN, NEW fu \in BOOLEAN,
           AnsweredBy(q, r, s, st, fu),
           q[1].kind # "welcome", r2.accepted = r.accepted,
           IF q[1].kind = "start" THEN r2.slot = q[1].slot ELSE r2.slot = r.slot,
           (q[1].kind # "disconnect" /\ r.state # "waiting") => r2.state # "waiting",
           Releases(q[1]) => r2.state # "waiting"
    PROVE  AnsweredBy(Tail(q), r2, s, st, fu)
  <1>1. /\ \A k : NoKind(q, k) <=> (NoKind(Tail(q), k) /\ q[1].kind # k)
        /\ StartsFor(q, s) => StartsFor(Tail(q), s) /\ (q[1].kind = "start" => q[1].slot = s)
        /\ Released(q) => Released(Tail(q)) \/ (Releases(q[1]) /\ NoKind(Tail(q), "disconnect"))
    BY TailFacts
  <1>2. r.accepted /\ r2.accepted /\ NoKind(Tail(q), "welcome")
    BY <1>1 DEF AnsweredBy
  <1>3. StartsFor(Tail(q), s)
    BY <1>1 DEF AnsweredBy
  <1>4. (s # None /\ r2.slot # None) => r2.slot = s
    BY <1>1 DEF AnsweredBy
  <1>5. (st /\ NoKind(Tail(q), "start")) => r2.slot = s
    BY <1>1 DEF AnsweredBy
  <1>6. fu => (r2.state # "waiting" /\ NoKind(Tail(q), "disconnect")) \/ Released(Tail(q))
    BY <1>1 DEF AnsweredBy
  <1> QED BY <1>2, <1>3, <1>4, <1>5, <1>6 DEF AnsweredBy

\* when it takes the welcome,
LEMMA WelcomeAnswered ==
    ASSUME NEW q \in Seq(DownMessage), q # << >>, NEW r, NEW r2, NEW s,
           NEW st \in BOOLEAN, NEW fu \in BOOLEAN,
           AnsweredBy(q, r, s, st, fu),
           q[1].kind = "welcome", r2.accepted, r2.slot = r.slot, r2.state = r.state
    PROVE  AnsweredBy(Tail(q), r2, s, st, fu) /\ ~r.accepted
  <1>1. /\ \A k : NoKind(q, k) <=> (NoKind(Tail(q), k) /\ q[1].kind # k)
        /\ StartsFor(q, s) => StartsFor(Tail(q), s)
        /\ Released(q) => Released(Tail(q)) \/ (Releases(q[1]) /\ NoKind(Tail(q), "disconnect"))
    BY TailFacts
  <1>2. ~r.accepted /\ NoKind(Tail(q), "welcome")
    BY <1>1 DEF AnsweredBy
  <1>3. ~Releases(q[1])
    BY DEF Releases
  <1> QED BY <1>1, <1>2, <1>3 DEF AnsweredBy

\* and when its peer gets the seat the player started in, if it has started.
LEMMA SeatedAnswered ==
    ASSUME NEW q \in Seq(DownMessage), NEW r, NEW s, NEW st \in BOOLEAN, NEW fu \in BOOLEAN,
           AnsweredBy(q, r, None, st, fu), r.slot # None => r.slot = s
    PROVE  AnsweredBy(q, r, s, FALSE, FALSE)
  <1>1. \A i \in 1..Len(q) : q[i].kind # "start"
    <2> SUFFICES ASSUME NEW i \in 1..Len(q), q[i].kind = "start"
                 PROVE  FALSE
      OBVIOUS
    <2>1. q[i] \in DownMessage
      BY ElementOfSeq
    <2>2. q[i].slot \in Slot
      BY <2>1 DEF DownMessage
    <2> QED BY <2>2, RelayNoneAssumption DEF AnsweredBy, StartsFor
  <1> QED BY <1>1 DEF AnsweredBy, StartsFor

-----------------------------------------------------------------------------
\* The numbers of seats and peers.
LEMMA Numbers ==
    /\ PlayerCount \in Nat /\ PlayerCount >= 1 /\ 0 \in Slot
    /\ Slot \subseteq Nat /\ Peer \subseteq Nat /\ Host \in Player
  BY RelayAssumption DEF Slot, Peer, Player

\* A set of numbers that is not empty has a smallest one.
LEMMA MinFacts ==
    ASSUME NEW S, S \subseteq Nat, S # {}
    PROVE  MinOf(S) \in S
  <1>1. PICK x \in S : \A y \in S : ~(<<y, x>> \in OpToRel(<, Nat))
    BY WFMin, NatLessThanWellFounded
  <1>2. \A y \in S : x <= y
    <2> SUFFICES ASSUME NEW y \in S PROVE x <= y
      OBVIOUS
    <2>1. x \in Nat /\ y \in Nat
      OBVIOUS
    <2>2. ~(y < x)
      BY <1>1, <2>1 DEF OpToRel
    <2> QED BY <2>1, <2>2
  <1> QED BY <1>1, <1>2 DEF MinOf

\* Messages are of the types the queues hold.
LEMMA MessageFacts ==
    /\ \A k \in {"welcome", "disconnect", "error"} : [kind |-> k] \in DownMessage
    /\ \A seats : StateOf(seats) \in DownMessage
    /\ \A s \in Slot : StartOf(s) \in DownMessage
    /\ \A k \in {"create", "ready"} : [kind |-> k] \in UpMessage
    /\ \A s \in Slot \cup {None} : [kind |-> "join", token |-> s] \in UpMessage
  BY DEF DownMessage, UpMessage, StateOf, StartOf

\* What a message of each kind carries.
LEMMA MessageTypes ==
    /\ \A m \in DownMessage : /\ m.kind \in {"welcome", "state", "start", "disconnect", "error"}
                              /\ m.kind = "start" => m.slot \in Slot
                              /\ m.kind = "state" => m.taken \in SUBSET Slot
    /\ \A m \in UpMessage : /\ m.kind \in {"create", "join", "ready"}
                            /\ m.kind = "join" => m.token \in Slot \cup {None}
  BY DEF DownMessage, UpMessage

\* Whatever is queued, up or down, is of a kind that is handled.
LEMMA Kinds ==
    ASSUME NEW u \in [Player -> Seq(UpMessage)], NEW d \in [Peer -> Seq(DownMessage)]
    PROVE  /\ \A c \in Player : \A i \in DOMAIN u[c] : u[c][i].kind \in {"create", "join", "ready"}
           /\ \A p \in Peer : \A i \in DOMAIN d[p] :
                d[p][i].kind \in {"welcome", "state", "start", "disconnect", "error"}
  <1>1. \A c \in Player : \A i \in DOMAIN u[c] : u[c][i] \in UpMessage
    BY ElementOfSeq, LenProperties
  <1>2. \A p \in Peer : \A i \in DOMAIN d[p] : d[p][i] \in DownMessage
    BY ElementOfSeq, LenProperties
  <1> QED BY <1>1, <1>2, MessageTypes

\* What a send does to each queue.
LEMMA SentFacts ==
    ASSUME NEW queues \in [Peer -> Seq(DownMessage)], NEW to, NEW m \in DownMessage
    PROVE  /\ Sent(queues, to, m) \in [Peer -> Seq(DownMessage)]
           /\ \A p \in Peer : Sent(queues, to, m)[p] =
                IF p \in to /\ Heard(p) THEN Append(queues[p], m) ELSE queues[p]
  BY AppendProperties DEF Sent

\* A room state goes to everyone seated who can be reached, and to nobody else.
LEMMA BroadcastStateFacts ==
    ASSUME NEW queues \in [Peer -> Seq(DownMessage)], NEW seats
    PROVE  /\ BroadcastState(queues, seats) \in [Peer -> Seq(DownMessage)]
           /\ \A p \in Peer : BroadcastState(queues, seats)[p] =
                IF p \in Seated(seats) /\ Heard(p) THEN Append(queues[p], StateOf(seats))
                ELSE queues[p]
  BY SentFacts, MessageFacts DEF BroadcastState

\* So does the start, which names each one's own slot.
LEMMA BroadcastStartFacts ==
    ASSUME NEW queues \in [Peer -> Seq(DownMessage)], SeatsAgree
    PROVE  /\ BroadcastStart(queues) \in [Peer -> Seq(DownMessage)]
           /\ \A p \in Peer : BroadcastStart(queues)[p] =
                IF p \in Seated(seat) /\ Heard(p) THEN Append(queues[p], StartOf(peer[p].slot))
                ELSE queues[p]
           /\ \A p \in Seated(seat) : StartOf(peer[p].slot) \in DownMessage
  <1>1. \A p \in Seated(seat) : peer[p].slot \in Slot
    BY RelayNoneAssumption DEF SeatsAgree, Seated
  <1>2. \A p \in Seated(seat) : StartOf(peer[p].slot) \in DownMessage
    BY <1>1, MessageFacts
  <1> QED BY <1>2, AppendProperties DEF BroadcastStart

\* A join of a started room is answered with the start, on the new link only.
LEMMA StartAfterJoinFacts ==
    ASSUME NEW queues \in [Peer -> Seq(DownMessage)], NEW p \in Peer, NEW s \in Slot
    PROVE  /\ StartAfterJoin(queues, p, s) \in [Peer -> Seq(DownMessage)]
           /\ \A q \in Peer : StartAfterJoin(queues, p, s)[q] =
                IF room = "started" /\ q = p /\ Heard(q) THEN Append(queues[q], StartOf(s))
                ELSE queues[q]
  <1>1. /\ Sent(queues, {p}, StartOf(s)) \in [Peer -> Seq(DownMessage)]
        /\ \A q \in Peer : Sent(queues, {p}, StartOf(s))[q] =
             IF q = p /\ Heard(q) THEN Append(queues[q], StartOf(s)) ELSE queues[q]
    BY SentFacts, MessageFacts
  <1>2. CASE room = "started"
    BY <1>1, <1>2 DEF StartAfterJoin
  <1>3. CASE room # "started"
    BY <1>1, <1>3 DEF StartAfterJoin
  <1> QED BY <1>2, <1>3

\* Sending up and taking from above.
LEMMA SentUpFacts ==
    ASSUME QueuesOK, NEW c \in Player, NEW m \in UpMessage, SentUp(c, m)
    PROVE  /\ up' \in [Player -> Seq(UpMessage)]
           /\ \A d \in Player : up'[d] = IF d = c /\ LiveOf(c) # {} THEN Append(up[d], m) ELSE up[d]
  BY AppendProperties DEF SentUp, QueuesOK

\* What the relay takes from a player, and what it leaves alone.
LEMMA TakesFacts ==
    ASSUME QueuesOK, NEW c \in Player, NEW p \in Peer, NEW kind, Takes(c, p, kind)
    PROVE  /\ up' \in [Player -> Seq(UpMessage)]
           /\ \A d \in Player : up'[d] = IF d = c THEN Tail(up[d]) ELSE up[d]
           /\ up[c] # << >> /\ Head(up[c]) = up[c][1] /\ Head(up[c]) \in UpMessage
           /\ Head(up[c]).kind = kind
           /\ p \in Registered /\ peer[p].client = c /\ Live(p)
           /\ UNCHANGED <<runtime, online, mishaps>>
  BY HeadTailProperties, EmptySeq DEF Takes, QueuesOK, LiveOf, PeersOf, network

\* What a player takes from the relay, and what it leaves alone.
LEMMA ReceivesFacts ==
    ASSUME QueuesOK, NEW c \in Player, NEW p \in Peer, NEW kind, Receives(c, p, kind)
    PROVE  /\ down[p] # << >> /\ Head(down[p]) = down[p][1] /\ Head(down[p]) \in DownMessage
           /\ Head(down[p]).kind = kind
           /\ p \in Registered /\ peer[p].client = c /\ Live(p) /\ Heard(p)
           /\ UNCHANGED <<peer, room, seat, ready, tookOver, online, mishaps>>
           /\ Consumed(p) => /\ down' \in [Peer -> Seq(DownMessage)]
                             /\ \A q \in Peer : down'[q] = IF q = p THEN Tail(down[q]) ELSE down[q]
  <1>1. /\ down[p] # << >> /\ p \in LiveOf(c) /\ Running(c) /\ Head(down[p]).kind = kind
        /\ UNCHANGED <<relay, network>>
    BY DEF Receives
  <1>2. p \in Registered /\ peer[p].client = c /\ Live(p) /\ Heard(p)
    BY <1>1 DEF LiveOf, PeersOf, Heard
  <1>3. Head(down[p]) = down[p][1] /\ Head(down[p]) \in DownMessage
        /\ Tail(down[p]) \in Seq(DownMessage)
    BY <1>1, TailFacts DEF QueuesOK
  <1>4. Consumed(p) => /\ down' \in [Peer -> Seq(DownMessage)]
                       /\ \A q \in Peer : down'[q] = IF q = p THEN Tail(down[q]) ELSE down[q]
    BY <1>3 DEF Consumed, QueuesOK
  <1> QED BY <1>1, <1>2, <1>3, <1>4 DEF network, relay

-----------------------------------------------------------------------------
(***************************************************************************)
(* Types.                                                                  *)
(***************************************************************************)
RuntimeRecord ==
  [accepted : BOOLEAN, joined : BOOLEAN, sentReady : BOOLEAN,
   state : {"idle", "waiting", "self"}, slot : Slot \cup {None}, failed : BOOLEAN]

Types ==
  /\ runtime \in [Player -> RuntimeRecord]
  /\ peer \in [Peer -> PeerRecord \cup {None}]
  /\ room \in {"none", "lobby", "started", "evicted"}
  /\ seat \in [Slot -> Peer \cup {None}]
  /\ ready \in [Slot -> BOOLEAN]
  /\ online \in [Player -> BOOLEAN]
  /\ QueuesOK

\* With the queues typed by their messages, this is the type invariant.
LEMMA TypesSuffice == Types => TypeOK
  <1> SUFFICES ASSUME Types PROVE TypeOK
    OBVIOUS
  <1>1. /\ \A c \in Player : \A i \in DOMAIN up[c] : up[c][i].kind \in {"create", "join", "ready"}
        /\ \A p \in Peer : \A i \in DOMAIN down[p] :
             down[p][i].kind \in {"welcome", "state", "start", "disconnect", "error"}
    BY Kinds DEF Types, QueuesOK
  <1> QED BY <1>1 DEF Types, TypeOK, RuntimeRecord

\* The initial state has the right types.
LEMMA InitTypes == Init => Types
  <1> SUFFICES ASSUME Init PROVE Types
    OBVIOUS
  <1>1. Fresh \in RuntimeRecord
    BY DEF Fresh, RuntimeRecord
  <1>2. << >> \in Seq(UpMessage) /\ << >> \in Seq(DownMessage)
    BY EmptySeq
  <1>3. QueuesOK
    BY <1>2 DEF Init, QueuesOK
  <1> QED BY <1>1, <1>3 DEF Init, Types

\* A peer that is registered is a record of the table.
LEMMA PeerFacts ==
    ASSUME Types, NEW p \in Registered
    PROVE  p \in Peer /\ peer[p] \in PeerRecord /\ peer[p].client \in Player
           /\ peer[p].slot \in Slot \cup {None} /\ p \in PeersOf(peer[p].client)
  BY DEF Types, Registered, PeerRecord, PeersOf

\* The types are kept when a runtime fails.
LEMMA FailsTypes ==
    ASSUME Types, NEW c \in Player, Fails(c)
    PROVE  runtime' \in [Player -> RuntimeRecord] /\ down' \in [Peer -> Seq(DownMessage)]
  <1>1. runtime[c].slot \in Slot \cup {None}
    BY DEF Types, RuntimeRecord
  <1>2. [Fresh EXCEPT !.failed = TRUE, !.slot = runtime[c].slot] \in RuntimeRecord
    BY <1>1 DEF Fresh, RuntimeRecord
  <1>3. runtime' \in [Player -> RuntimeRecord]
    BY <1>2 DEF Fails, Types
  <1>4. down' \in [Peer -> Seq(DownMessage)]
    BY EmptySeq DEF Fails, Types, QueuesOK
  <1> QED BY <1>3, <1>4

\* The types are kept when a runtime starts a new link.
LEMMA RelinkedTypes ==
    ASSUME Types, NEW c \in Player, NEW link \in {"live", "stale", "gone"}, Relinked(c, link)
    PROVE  /\ peer' \in [Peer -> PeerRecord \cup {None}]
           /\ up' \in [Player -> Seq(UpMessage)]
           /\ down' \in [Peer -> Seq(DownMessage)]
  <1>1. \A p \in Peer : p \in PeersOf(c) => [peer[p] EXCEPT !.link = link] \in PeerRecord
    BY DEF Types, PeersOf, Registered, PeerRecord
  <1>2. peer' \in [Peer -> PeerRecord \cup {None}]
    BY <1>1 DEF Relinked, Types
  <1>3. up' \in [Player -> Seq(UpMessage)]
    BY EmptySeq DEF Relinked, Types, QueuesOK
  <1>4. down' \in [Peer -> Seq(DownMessage)]
    BY EmptySeq DEF Relinked, Types, QueuesOK
  <1> QED BY <1>2, <1>3, <1>4

\* The seat a join is for, if there is one, is a seat of the room.
LEMMA SeatForFacts ==
    ASSUME NEW token \in Slot \cup {None}
    PROVE  /\ SeatFor(token) \in Slot \cup {None}
           /\ token # None => SeatFor(token) = token
           /\ (token = None /\ SeatFor(token) # None) => SeatFor(token) \in FreeSlots
  <1>1. FreeSlots # {} => MinOf(FreeSlots) \in FreeSlots
    BY MinFacts, Numbers DEF FreeSlots
  <1> QED BY <1>1 DEF SeatFor, FreeSlots

\* The three steps of the relay that a join, a create and a ready take
LEMMA JoinTypes ==
    ASSUME Types, NEW c \in Player, NEW p \in Peer, HandleJoin(c, p)
    PROVE  Types'
  <1> DEFINE s == SeatFor(Head(up[c]).token)
  <1>1. Takes(c, p, "join")
    BY DEF HandleJoin
  <1>2. /\ up' \in [Player -> Seq(UpMessage)]
        /\ UNCHANGED <<runtime, online, mishaps>> /\ p \in Registered
        /\ Head(up[c]).token \in Slot \cup {None}
    BY <1>1, TakesFacts, MessageTypes DEF Types
  <1>3. s \in Slot \cup {None}
    BY <1>2, SeatForFacts
  <1>4. \/ Refuse(p)
        \/ /\ s # None
           /\ seat' = [seat EXCEPT ![s] = p]
           /\ ready' = [ready EXCEPT ![s] = (room = "started")]
           /\ peer' = [peer EXCEPT ![p].slot = s]
           /\ tookOver' = (tookOver \/ s \notin FreeSlots)
           /\ down' = StartAfterJoin(BroadcastState(down, seat'), p, s)
           /\ UNCHANGED room
    BY DEF HandleJoin
  <1>5. CASE Refuse(p)
    <2>1. down' \in [Peer -> Seq(DownMessage)]
      BY <1>5, SentFacts, MessageFacts DEF Refuse, Types, QueuesOK
    <2> QED BY <1>2, <1>5, <2>1 DEF Refuse, relay, Types, QueuesOK
  <1>6. CASE ~Refuse(p)
    <2>1. s \in Slot
      BY <1>3, <1>4, <1>6
    <2>2. [peer[p] EXCEPT !.slot = s] \in PeerRecord
      BY <1>2, <2>1, PeerFacts DEF PeerRecord
    <2> HIDE DEF s
    <2>3. PICK b \in [Peer -> Seq(DownMessage)] : b = BroadcastState(down, seat')
      BY BroadcastStateFacts DEF Types, QueuesOK
    <2>4. down' \in [Peer -> Seq(DownMessage)]
      <3>1. StartAfterJoin(b, p, s) \in [Peer -> Seq(DownMessage)]
        BY <2>1, StartAfterJoinFacts
      <3> QED BY <1>4, <1>6, <2>3, <3>1
    <2>5. peer' \in [Peer -> PeerRecord \cup {None}]
      BY <1>4, <1>6, <2>2 DEF Types
    <2>6. seat' \in [Slot -> Peer \cup {None}] /\ ready' \in [Slot -> BOOLEAN]
          /\ tookOver' \in BOOLEAN /\ room' = room
      BY <1>4, <1>6, <2>1 DEF Types, QueuesOK
    <2> QED BY <1>2, <2>4, <2>5, <2>6 DEF Types, QueuesOK
  <1> QED BY <1>5, <1>6

\* The types are kept when a room is created.
LEMMA CreateTypes ==
    ASSUME Types, NEW c \in Player, NEW p \in Peer, HandleCreate(c, p)
    PROVE  Types'
  <1>1. /\ Takes(c, p, "create") /\ room' = "lobby" /\ seat' = [seat EXCEPT ![0] = p]
        /\ ready' = [ready EXCEPT ![0] = TRUE] /\ peer' = [peer EXCEPT ![p].slot = 0]
        /\ down' = BroadcastState(down, seat') /\ UNCHANGED tookOver
    BY DEF HandleCreate
  <1>2. up' \in [Player -> Seq(UpMessage)] /\ UNCHANGED <<runtime, online, mishaps>> /\ p \in Registered
    BY <1>1, TakesFacts DEF Types
  <1>3. [peer[p] EXCEPT !.slot = 0] \in PeerRecord
    BY <1>2, Numbers, PeerFacts DEF PeerRecord
  <1>4. peer' \in [Peer -> PeerRecord \cup {None}]
    BY <1>1, <1>3 DEF Types
  <1>5. down' \in [Peer -> Seq(DownMessage)]
    BY <1>1, BroadcastStateFacts DEF Types, QueuesOK
  <1>6. seat' \in [Slot -> Peer \cup {None}] /\ ready' \in [Slot -> BOOLEAN]
    BY <1>1, Numbers DEF Types
  <1> QED BY <1>1, <1>2, <1>4, <1>5, <1>6 DEF Types, QueuesOK

\* What the relay's tables and queues are after a ready that is not refused.
LEMMA ReadyFacts ==
    ASSUME Types, SeatsAgree, NEW c \in Player, NEW p \in Peer, HandleReady(c, p), ~Refuse(p)
    PROVE  /\ UNCHANGED <<peer, seat, tookOver>>
           /\ peer[p].slot \in Slot
           /\ ready' = [ready EXCEPT ![peer[p].slot] = TRUE]
           /\ Open
           /\ \/ /\ room' = room
                 /\ \A q \in Peer : down'[q] =
                      IF q \in Seated(seat) /\ Heard(q) THEN Append(down[q], StateOf(seat)) ELSE down[q]
              \/ /\ room' = "started"
                 /\ \A q \in Peer : down'[q] =
                      IF q \in Seated(seat) /\ Heard(q)
                      THEN Append(Append(down[q], StartOf(peer[q].slot)), StateOf(seat)) ELSE down[q]
           /\ down' \in [Peer -> Seq(DownMessage)]
  <1> DEFINE starts == room = "lobby" /\ \A t \in Slot : seat[t] # None /\ (t = peer[p].slot \/ ready[t])
             queues == IF starts THEN BroadcastStart(down) ELSE down
  <1>1. /\ Takes(c, p, "ready")
        /\ peer[p].slot # None /\ Open
        /\ ready' = [ready EXCEPT ![peer[p].slot] = TRUE]
        /\ room' = IF starts THEN "started" ELSE room
        /\ down' = BroadcastState(queues, seat)
        /\ UNCHANGED <<peer, seat, tookOver>>
    BY DEF HandleReady
  <1>2. p \in Registered
    BY <1>1, TakesFacts DEF Types
  <1>3. peer[p].slot \in Slot
    BY <1>1, <1>2, PeerFacts
  <1>4. /\ BroadcastStart(down) \in [Peer -> Seq(DownMessage)]
        /\ \A q \in Peer : BroadcastStart(down)[q] =
             IF q \in Seated(seat) /\ Heard(q) THEN Append(down[q], StartOf(peer[q].slot)) ELSE down[q]
    BY BroadcastStartFacts DEF Types, QueuesOK
  <1>5. down \in [Peer -> Seq(DownMessage)]
    BY DEF Types, QueuesOK
  <1> HIDE DEF starts
  <1>6. queues \in [Peer -> Seq(DownMessage)]
    BY <1>4, <1>5
  <1>7. /\ BroadcastState(queues, seat) \in [Peer -> Seq(DownMessage)]
        /\ \A q \in Peer : BroadcastState(queues, seat)[q] =
             IF q \in Seated(seat) /\ Heard(q) THEN Append(queues[q], StateOf(seat)) ELSE queues[q]
    BY <1>6, BroadcastStateFacts
  <1>8. CASE starts
    <2>1. queues = BroadcastStart(down)
      BY <1>8
    <2> HIDE DEF queues
    <2>2. \A q \in Peer : down'[q] =
            IF q \in Seated(seat) /\ Heard(q)
            THEN Append(Append(down[q], StartOf(peer[q].slot)), StateOf(seat)) ELSE down[q]
      BY <1>1, <1>4, <1>7, <2>1
    <2> QED BY <1>1, <1>3, <1>7, <1>8, <2>2
  <1>9. CASE ~starts
    <2>1. queues = down
      BY <1>9
    <2> HIDE DEF queues
    <2> QED BY <1>1, <1>3, <1>7, <1>9, <2>1
  <1> QED BY <1>8, <1>9

\* The types are kept when a player is ready.
LEMMA ReadyTypes ==
    ASSUME Types, SeatsAgree, NEW c \in Player, NEW p \in Peer, HandleReady(c, p)
    PROVE  Types'
  <1>1. up' \in [Player -> Seq(UpMessage)] /\ UNCHANGED <<runtime, online, mishaps>>
    BY TakesFacts DEF HandleReady, Types
  <1>2. CASE Refuse(p)
    <2>1. down' \in [Peer -> Seq(DownMessage)]
      BY <1>2, SentFacts, MessageFacts DEF Refuse, Types, QueuesOK
    <2> QED BY <1>1, <1>2, <2>1 DEF Refuse, relay, Types, QueuesOK
  <1>3. CASE ~Refuse(p)
    <2>1. /\ UNCHANGED <<peer, seat, tookOver>> /\ peer[p].slot \in Slot
          /\ ready' = [ready EXCEPT ![peer[p].slot] = TRUE]
          /\ room' \in {room, "started"} /\ down' \in [Peer -> Seq(DownMessage)]
      BY <1>3, ReadyFacts
    <2> QED BY <1>1, <2>1 DEF Types, QueuesOK
  <1> QED BY <1>2, <1>3

\* What a prune does, when the peer has no seat of an open room and when it has.
LEMMA PruneFacts ==
    ASSUME Types, NEW p \in Peer, Prune(p)
    PROVE  /\ p \in Registered
           /\ peer' = [peer EXCEPT ![p] = None]
           /\ up' \in [Player -> Seq(UpMessage)]
           /\ \A c \in Player : up'[c] = up[c] \/ (up'[c] = << >> /\ peer[p].client = c /\ Live(p))
           /\ down' \in [Peer -> Seq(DownMessage)]
           /\ down'[p] = << >>
           /\ UNCHANGED <<runtime, online, mishaps, tookOver>>
           /\ \/ /\ peer[p].slot = None \/ ~Open
                 /\ \A q \in Peer \ {p} : down'[q] = down[q]
                 /\ UNCHANGED <<room, seat, ready>>
              \/ /\ peer[p].slot # None /\ Open
                 /\ seat' = SeatsWithout(p)
                 /\ ready' \in [Slot -> BOOLEAN]
                 /\ room' = IF \A s \in Slot : seat'[s] = None THEN "evicted" ELSE room
                 /\ \A q \in Peer \ {p} : down'[q] =
                      IF q \in Seated(seat') /\ Heard(q)
                      THEN Append(Append(down[q], StateOf(seat')), [kind |-> "disconnect"])
                      ELSE down[q]
  <1>1. /\ p \in Registered
        /\ peer' = [peer EXCEPT ![p] = None]
        /\ up' = IF Live(p) THEN [up EXCEPT ![peer[p].client] = << >>] ELSE up
        /\ UNCHANGED <<runtime, online, mishaps, tookOver>>
    BY DEF Prune, network
  <1>2. << >> \in Seq(UpMessage) /\ << >> \in Seq(DownMessage)
    BY EmptySeq
  <1>3. /\ up' \in [Player -> Seq(UpMessage)]
        /\ \A c \in Player : up'[c] = up[c] \/ (up'[c] = << >> /\ peer[p].client = c /\ Live(p))
    <2>1. CASE Live(p)
      BY <1>1, <1>2, <2>1, PeerFacts DEF Types, QueuesOK
    <2>2. CASE ~Live(p)
      BY <1>1, <2>2 DEF Types, QueuesOK
    <2> QED BY <2>1, <2>2
  <1>4. CASE peer[p].slot = None \/ ~Open
    <2>1. down' = [down EXCEPT ![p] = << >>] /\ UNCHANGED <<room, seat, ready>>
      BY <1>4 DEF Prune
    <2>2. /\ down' \in [Peer -> Seq(DownMessage)] /\ down'[p] = << >>
          /\ \A q \in Peer \ {p} : down'[q] = down[q]
      BY <1>2, <2>1 DEF Types, QueuesOK
    <2> QED BY <1>1, <1>3, <1>4, <2>1, <2>2
  <1>5. CASE peer[p].slot # None /\ Open
    <2>1. /\ seat' = SeatsWithout(p)
          /\ ready' = [s \in Slot |-> ready[s] /\ seat[s] # p]
          /\ down' = [Sent(BroadcastState(down, seat'), Seated(seat'), [kind |-> "disconnect"])
                       EXCEPT ![p] = << >>]
          /\ room' = IF \A s \in Slot : seat'[s] = None THEN "evicted" ELSE room
      BY <1>5 DEF Prune
    <2>2. ready' \in [Slot -> BOOLEAN]
      BY <2>1 DEF Types
    <2>3. PICK b \in [Peer -> Seq(DownMessage)] :
            /\ b = BroadcastState(down, seat')
            /\ \A q \in Peer : b[q] =
                 IF q \in Seated(seat') /\ Heard(q) THEN Append(down[q], StateOf(seat')) ELSE down[q]
      BY BroadcastStateFacts DEF Types, QueuesOK
    <2>4. PICK seated : seated = Seated(seat')
      OBVIOUS
    <2>5. PICK d \in [Peer -> Seq(DownMessage)] :
            /\ d = Sent(b, seated, [kind |-> "disconnect"])
            /\ \A q \in Peer : d[q] =
                 IF q \in seated /\ Heard(q) THEN Append(b[q], [kind |-> "disconnect"]) ELSE b[q]
      BY SentFacts, MessageFacts
    <2>6. down' = [d EXCEPT ![p] = << >>]
      BY <2>1, <2>3, <2>4, <2>5
    <2>7. /\ down' \in [Peer -> Seq(DownMessage)] /\ down'[p] = << >>
          /\ \A q \in Peer \ {p} : down'[q] = d[q]
      BY <1>2, <2>6
    <2>8. \A q \in Peer \ {p} : down'[q] =
            IF q \in Seated(seat') /\ Heard(q)
            THEN Append(Append(down[q], StateOf(seat')), [kind |-> "disconnect"]) ELSE down[q]
      BY <2>3, <2>4, <2>5, <2>7
    <2> QED BY <1>1, <1>3, <1>5, <2>1, <2>2, <2>7, <2>8
  <1> QED BY <1>4, <1>5

\* The types are kept when the relay prunes a peer.
LEMMA PruneTypes ==
    ASSUME Types, NEW p \in Peer, Prune(p)
    PROVE  Types'
  <1>1. /\ peer' = [peer EXCEPT ![p] = None]
        /\ up' \in [Player -> Seq(UpMessage)] /\ down' \in [Peer -> Seq(DownMessage)]
        /\ UNCHANGED <<runtime, online, tookOver>>
    BY PruneFacts
  <1>2. peer' \in [Peer -> PeerRecord \cup {None}]
    BY <1>1 DEF Types
  <1>3. /\ seat' \in [Slot -> Peer \cup {None}] /\ ready' \in [Slot -> BOOLEAN]
        /\ room' \in {"none", "lobby", "started", "evicted"}
    <2>1. CASE UNCHANGED <<room, seat, ready>>
      BY <2>1 DEF Types
    <2>2. CASE ~UNCHANGED <<room, seat, ready>>
      <3>1. /\ seat' = SeatsWithout(p) /\ ready' \in [Slot -> BOOLEAN]
            /\ room' = IF \A s \in Slot : seat'[s] = None THEN "evicted" ELSE room
        BY <2>2, PruneFacts
      <3> QED BY <3>1 DEF SeatsWithout, Types
    <2> QED BY <2>1, <2>2
  <1> QED BY <1>1, <1>2, <1>3 DEF Types, QueuesOK

\* What a hello does: it makes a peer that was not registered.
LEMMA HelloFacts ==
    ASSUME Types, NEW c \in Player, HandleHello(c)
    PROVE  \E p \in Peer \ Registered :
             /\ peer' = [peer EXCEPT ![p] = [client |-> c, link |-> "live", slot |-> None]]
             /\ down' = [down EXCEPT ![p] = <<[kind |-> "welcome"]>>]
             /\ down' \in [Peer -> Seq(DownMessage)]
             /\ UNCHANGED <<runtime, room, seat, ready, up, online, mishaps, tookOver>>
  <1> DEFINE p == MinOf(Peer \ Registered)
  <1>1. Peer \ Registered # {}
    BY DEF HandleHello, Registered
  <1>2. p \in Peer \ Registered
    BY <1>1, Numbers, MinFacts
  <1>3. /\ peer' = [peer EXCEPT ![p] = [client |-> c, link |-> "live", slot |-> None]]
        /\ down' = [down EXCEPT ![p] = <<[kind |-> "welcome"]>>]
        /\ UNCHANGED <<runtime, room, seat, ready, up, online, mishaps, tookOver>>
    BY DEF HandleHello, network
  <1>4. [kind |-> "welcome"] \in DownMessage
    BY MessageFacts
  <1>5. <<[kind |-> "welcome"]>> \in Seq(DownMessage)
    BY <1>4
  <1> HIDE DEF p
  <1>6. down' \in [Peer -> Seq(DownMessage)]
    BY <1>2, <1>3, <1>5 DEF Types, QueuesOK
  <1> QED BY <1>2, <1>3, <1>6

\* The types are kept when the relay takes a hello.
LEMMA HelloTypes ==
    ASSUME Types, NEW c \in Player, HandleHello(c)
    PROVE  Types'
  <1>1. PICK p \in Peer \ Registered :
          /\ peer' = [peer EXCEPT ![p] = [client |-> c, link |-> "live", slot |-> None]]
          /\ down' \in [Peer -> Seq(DownMessage)]
          /\ UNCHANGED <<runtime, room, seat, ready, up, online, mishaps, tookOver>>
    BY HelloFacts
  <1>2. [client |-> c, link |-> "live", slot |-> None] \in PeerRecord
    BY DEF PeerRecord
  <1> QED BY <1>1, <1>2 DEF Types, QueuesOK

\* The steps of a player's runtime
LEMMA PlayerTypes ==
    ASSUME Types, NEW c \in Player,
           \/ GoOffline(c) \/ GoOnline(c) \/ Rebind(c) \/ SendReady(c) \/ Timeout(c)
           \/ DeadlineExpires(c)
    PROVE  Types'
  <1> USE DEF Types, QueuesOK
  <1>1. CASE GoOffline(c)
    BY <1>1 DEF GoOffline, relay
  <1>2. CASE GoOnline(c)
    BY <1>2 DEF GoOnline, relay
  <1>3. CASE Rebind(c)
    BY <1>3, RelinkedTypes DEF Rebind
  <1>4. CASE SendReady(c)
    <2>1. SentUp(c, [kind |-> "ready"]) /\ [kind |-> "ready"] \in UpMessage
      BY <1>4, MessageFacts DEF SendReady
    <2>2. up' \in [Player -> Seq(UpMessage)]
      BY <2>1, SentUpFacts
    <2>3. runtime' \in [Player -> RuntimeRecord]
      <3>1. runtime' = [runtime EXCEPT ![c] = [runtime[c] EXCEPT !.sentReady = TRUE]]
        BY <1>4 DEF SendReady
      <3>2. [runtime[c] EXCEPT !.sentReady = TRUE] \in RuntimeRecord
        BY DEF RuntimeRecord
      <3> QED BY <3>1, <3>2
    <2> QED BY <1>4, <2>2, <2>3 DEF SendReady, relay, network
  <1>5. CASE Timeout(c)
    <2>1. UNCHANGED <<room, seat, ready, online, tookOver>>
      BY <1>5 DEF Timeout, network
    <2>2. CASE runtime[c].slot = None
      <3>1. Fails(c) /\ UNCHANGED <<peer, up>>
        BY <1>5, <2>2 DEF Timeout
      <3> QED BY <2>1, <3>1, FailsTypes
    <2>3. CASE runtime[c].slot # None
      <3>1. /\ runtime' = [runtime EXCEPT ![c] = [Fresh EXCEPT !.state = "self", !.slot = runtime[c].slot]]
            /\ Relinked(c, "stale")
        BY <1>5, <2>3 DEF Timeout
      <3>2. runtime[c].slot \in Slot \cup {None}
        BY DEF RuntimeRecord
      <3>3. [Fresh EXCEPT !.state = "self", !.slot = runtime[c].slot] \in RuntimeRecord
        BY <3>2 DEF Fresh, RuntimeRecord
      <3>4. runtime' \in [Player -> RuntimeRecord]
        BY <3>1, <3>3
      <3> QED BY <2>1, <3>1, <3>4, RelinkedTypes
    <2> QED BY <2>2, <2>3
  <1>6. CASE DeadlineExpires(c)
    BY <1>6, FailsTypes DEF DeadlineExpires, relay, network
  <1> QED BY <1>1, <1>2, <1>3, <1>4, <1>5, <1>6

\* What a player does with a message.
LEMMA ReceiveTypes ==
    ASSUME Types, NEW c \in Player, NEW p \in Peer,
           \/ RecvWelcome(c, p) \/ RecvError(c, p) \/ RecvRoomState(c, p)
           \/ RecvRoomStart(c, p) \/ RecvPeerDisconnect(c, p)
    PROVE  Types'
  <1>0. PICK kind : Receives(c, p, kind)
    BY DEF RecvWelcome, RecvError, RecvRoomState, RecvRoomStart, RecvPeerDisconnect
  <1>1. /\ Head(down[p]) \in DownMessage
        /\ UNCHANGED <<peer, room, seat, ready, tookOver, online, mishaps>>
        /\ Consumed(p) => down' \in [Peer -> Seq(DownMessage)]
    BY <1>0, ReceivesFacts DEF Types
  <1>2. CASE RecvWelcome(c, p)
    <2>1. PICK m : SentUp(c, m) /\ m \in UpMessage
      <3>1. runtime[c].slot \in Slot \cup {None}
        BY DEF Types, RuntimeRecord
      <3>2. /\ [kind |-> "join", token |-> runtime[c].slot] \in UpMessage
            /\ [kind |-> "create"] \in UpMessage
            /\ [kind |-> "join", token |-> None] \in UpMessage
        BY <3>1, MessageFacts
      <3>3. \/ SentUp(c, [kind |-> "join", token |-> runtime[c].slot])
            \/ SentUp(c, [kind |-> "create"]) \/ SentUp(c, [kind |-> "join", token |-> None])
        BY <1>2 DEF RecvWelcome
      <3> QED BY <3>2, <3>3
    <2>2. up' \in [Player -> Seq(UpMessage)]
      BY <2>1, SentUpFacts DEF Types
    <2>3. runtime' \in [Player -> RuntimeRecord] /\ Consumed(p)
      BY <1>2 DEF RecvWelcome, Types, RuntimeRecord
    <2> QED BY <1>1, <2>2, <2>3 DEF Types, QueuesOK
  <1>3. CASE RecvError(c, p)
    BY <1>1, <1>3, FailsTypes DEF RecvError, Types, QueuesOK
  <1>4. CASE RecvRoomState(c, p)
    <2>1. PICK state \in {"idle", "waiting", "self"} :
            runtime' = [runtime EXCEPT ![c].joined = TRUE, ![c].state = state]
      BY <1>4 DEF RecvRoomState, Types, RuntimeRecord
    <2>2. [[runtime[c] EXCEPT !.joined = TRUE] EXCEPT !.state = state] \in RuntimeRecord
      BY DEF Types, RuntimeRecord
    <2>3. runtime' \in [Player -> RuntimeRecord]
      BY <2>1, <2>2 DEF Types
    <2>4. Consumed(p) /\ up' = up
      BY <1>4 DEF RecvRoomState
    <2> QED BY <1>1, <2>3, <2>4 DEF Types, QueuesOK
  <1>5. CASE RecvRoomStart(c, p)
    <2>1. Head(down[p]).slot \in Slot
      BY <1>1, <1>5, MessageTypes DEF RecvRoomStart, Receives
    <2>2. [runtime[c] EXCEPT !.slot = Head(down[p]).slot, !.state = "idle", !.sentReady = TRUE]
            \in RuntimeRecord
      BY <2>1 DEF Types, RuntimeRecord
    <2>3. runtime' = [runtime EXCEPT ![c] =
            [runtime[c] EXCEPT !.slot = Head(down[p]).slot, !.state = "idle", !.sentReady = TRUE]]
      BY <1>5 DEF RecvRoomStart, Types
    <2>4. Consumed(p) /\ up' = up
      BY <1>5 DEF RecvRoomStart
    <2> QED BY <1>1, <2>2, <2>3, <2>4 DEF Types, QueuesOK
  <1>6. CASE RecvPeerDisconnect(c, p)
    <2>1. CASE runtime[c].slot = None
      BY <1>1, <1>6, <2>1, FailsTypes DEF RecvPeerDisconnect, Types, QueuesOK
    <2>2. CASE runtime[c].slot # None
      <3>1. runtime' \in [Player -> RuntimeRecord] /\ Consumed(p) /\ up' = up
        BY <1>6, <2>2 DEF RecvPeerDisconnect, Types, RuntimeRecord
      <3> QED BY <1>1, <3>1 DEF Types, QueuesOK
    <2> QED BY <2>1, <2>2
  <1> QED BY <1>2, <1>3, <1>4, <1>5, <1>6

\* Every step keeps the types.
LEMMA NextTypes == Types /\ SeatsAgree /\ [Next]_vars => Types'
  <1> SUFFICES ASSUME Types, SeatsAgree, [Next]_vars PROVE Types'
    OBVIOUS
  <1>1. CASE UNCHANGED vars
    BY <1>1 DEF vars, Types, QueuesOK
  <1>2. CASE Next
    BY <1>2, PlayerTypes, HelloTypes, ReceiveTypes, CreateTypes, JoinTypes, ReadyTypes, PruneTypes
       DEF Next
  <1> QED BY <1>1, <1>2

-----------------------------------------------------------------------------
(***************************************************************************)
(* The relay's tables.                                                     *)
(***************************************************************************)
Tables == SeatsAgree /\ RoomInv

\* A registered peer is not None.
LEMMA RecordsAreSome ==
    ASSUME Types, NEW p \in Peer, NEW r \in PeerRecord
    PROVE  r # None
  BY RelayNoneAssumption

\* The relay's tables agree at first: they are empty.
LEMMA InitTables == Init => Tables
  BY DEF Init, Tables, SeatsAgree, RoomInv, Registered, Open

\* A step that leaves the room, its seats and the slots of the peers alone
LEMMA TablesSame ==
    ASSUME Tables, UNCHANGED <<room, seat, tookOver>>,
           \A p \in Peer : (peer'[p] = None <=> peer[p] = None)
                           /\ (peer[p] # None => peer'[p].slot = peer[p].slot)
    PROVE  Tables'
  BY DEF Tables, SeatsAgree, RoomInv, Registered, Open

\* The tables agree after a runtime starts a new link.
LEMMA RelinkedTables ==
    ASSUME Types, NEW c \in Player, NEW link \in {"live", "stale", "gone"}, Relinked(c, link)
    PROVE  \A p \in Peer : (peer'[p] = None <=> peer[p] = None)
                           /\ (peer[p] # None => peer'[p].slot = peer[p].slot
                                                 /\ peer'[p].client = peer[p].client)
  <1> SUFFICES ASSUME NEW p \in Peer
               PROVE  (peer'[p] = None <=> peer[p] = None)
                      /\ (peer[p] # None => peer'[p].slot = peer[p].slot
                                            /\ peer'[p].client = peer[p].client)
    OBVIOUS
  <1>1. CASE p \in PeersOf(c) /\ peer[p].link # "gone"
    <2>1. peer'[p] = [peer[p] EXCEPT !.link = link]
      BY <1>1 DEF Relinked
    <2>2. peer[p] # None /\ peer[p] \in PeerRecord
      BY <1>1 DEF PeersOf, Registered, Types
    <2>3. peer'[p] \in PeerRecord /\ peer'[p].slot = peer[p].slot /\ peer'[p].client = peer[p].client
      BY <2>1, <2>2 DEF PeerRecord
    <2> QED BY <2>2, <2>3, RelayNoneAssumption
  <1>2. CASE ~(p \in PeersOf(c) /\ peer[p].link # "gone")
    BY <1>2 DEF Relinked
  <1> QED BY <1>1, <1>2

\* A peer with a seat in the ledger is in the room, and the room is open.
LEMMA SeatedFacts ==
    ASSUME Types, Tables, NEW p \in Seated(seat)
    PROVE  p \in Registered /\ peer[p].slot \in Slot /\ seat[peer[p].slot] = p /\ Open
  <1>1. PICK s \in Slot : seat[s] = p
    BY DEF Seated
  <1>2. p # None
    BY RelayNoneAssumption DEF Seated
  <1> QED BY <1>1, <1>2 DEF Tables, SeatsAgree, RoomInv

\* The tables agree after a room is created.
LEMMA CreateTables ==
    ASSUME Types, Tables, NEW c \in Player, NEW p \in Peer, HandleCreate(c, p)
    PROVE  Tables'
  <1>1. /\ Takes(c, p, "create") /\ room = "none" /\ room' = "lobby" /\ seat' = [seat EXCEPT ![0] = p]
        /\ peer' = [peer EXCEPT ![p].slot = 0] /\ UNCHANGED tookOver
    BY DEF HandleCreate
  <1>2. p \in Registered
    BY <1>1, TakesFacts DEF Types
  <1>3. [peer[p] EXCEPT !.slot = 0] \in PeerRecord /\ [peer[p] EXCEPT !.slot = 0].slot = 0
    BY <1>2, Numbers, PeerFacts DEF PeerRecord
  <1>4. /\ peer'[p].slot = 0 /\ peer'[p] # None
        /\ \A q \in Peer \ {p} : peer'[q] = peer[q]
        /\ seat'[0] = p /\ \A s \in Slot \ {0} : seat'[s] = seat[s]
    BY <1>1, <1>2, <1>3, Numbers, RelayNoneAssumption DEF Types
  <1>5. (\A s \in Slot : seat[s] = None) /\ (\A q \in Registered : peer[q].slot = None)
    BY <1>1 DEF Tables, RoomInv, Open
  <1>6. SeatsAgree'
    BY <1>2, <1>4, <1>5, Numbers DEF SeatsAgree, Registered
  <1>7. RoomInv'
    BY <1>1 DEF RoomInv, Open
  <1> QED BY <1>6, <1>7 DEF Tables

\* What a join does to the tables.
LEMMA JoinFacts ==
    ASSUME Types, Tables, NEW c \in Player, NEW p \in Peer, HandleJoin(c, p), ~Refuse(p)
    PROVE  \E s \in Slot :
             /\ p \in Registered /\ peer[p].slot = None /\ Open /\ UNCHANGED room
             /\ Head(up[c]).token # None => s = Head(up[c]).token
             /\ seat' = [seat EXCEPT ![s] = p]
             /\ peer' = [peer EXCEPT ![p].slot = s]
             /\ peer'[p] \in PeerRecord /\ peer'[p] # None
             /\ peer'[p].slot = s /\ peer'[p].client = peer[p].client /\ peer'[p].link = peer[p].link
             /\ tookOver' = (tookOver \/ s \notin FreeSlots)
             /\ down' \in [Peer -> Seq(DownMessage)]
             /\ \A q \in Peer : down'[q] =
                  IF q \in Seated(seat') /\ Heard(q)
                  THEN IF room = "started" /\ q = p
                       THEN Append(Append(down[q], StateOf(seat')), StartOf(s))
                       ELSE Append(down[q], StateOf(seat'))
                  ELSE down[q]
  <1> DEFINE s == SeatFor(Head(up[c]).token)
  <1>1. /\ Takes(c, p, "join")
        /\ peer[p].slot = None /\ Open /\ s # None
        /\ seat' = [seat EXCEPT ![s] = p]
        /\ peer' = [peer EXCEPT ![p].slot = s]
        /\ tookOver' = (tookOver \/ s \notin FreeSlots)
        /\ down' = StartAfterJoin(BroadcastState(down, seat'), p, s)
        /\ UNCHANGED room
    BY DEF HandleJoin
  <1>2. p \in Registered /\ Head(up[c]).token \in Slot \cup {None}
    BY <1>1, TakesFacts, MessageTypes DEF Types
  <1>3. s \in Slot /\ (Head(up[c]).token # None => s = Head(up[c]).token)
    BY <1>1, <1>2, SeatForFacts
  <1> HIDE DEF s
  <1>4. /\ [peer[p] EXCEPT !.slot = s] \in PeerRecord /\ [peer[p] EXCEPT !.slot = s].slot = s
        /\ [peer[p] EXCEPT !.slot = s].client = peer[p].client
        /\ [peer[p] EXCEPT !.slot = s].link = peer[p].link
    BY <1>2, <1>3, PeerFacts DEF PeerRecord
  <1>5. peer'[p] = [peer[p] EXCEPT !.slot = s]
    BY <1>1, <1>2 DEF Types
  <1>6. PICK b \in [Peer -> Seq(DownMessage)] :
          /\ b = BroadcastState(down, seat')
          /\ \A q \in Peer : b[q] =
               IF q \in Seated(seat') /\ Heard(q) THEN Append(down[q], StateOf(seat')) ELSE down[q]
    BY BroadcastStateFacts DEF Types, QueuesOK
  <1>7. /\ StartAfterJoin(b, p, s) \in [Peer -> Seq(DownMessage)]
        /\ \A q \in Peer : StartAfterJoin(b, p, s)[q] =
             IF room = "started" /\ q = p /\ Heard(q) THEN Append(b[q], StartOf(s)) ELSE b[q]
    BY <1>3, StartAfterJoinFacts
  <1>8. p \in Seated(seat')
    BY <1>1, <1>3 DEF Seated, Types
  <1>9. \A q \in Peer : down'[q] =
          IF q \in Seated(seat') /\ Heard(q)
          THEN IF room = "started" /\ q = p
               THEN Append(Append(down[q], StateOf(seat')), StartOf(s))
               ELSE Append(down[q], StateOf(seat'))
          ELSE down[q]
    BY <1>1, <1>6, <1>7, <1>8
  <1>10. /\ peer'[p] \in PeerRecord /\ peer'[p] # None
         /\ peer'[p].slot = s /\ peer'[p].client = peer[p].client /\ peer'[p].link = peer[p].link
    BY <1>4, <1>5, RelayNoneAssumption
  <1>11. down' \in [Peer -> Seq(DownMessage)]
    BY <1>1, <1>6, <1>7
  <1>12. s \in Slot
    BY <1>3
  <1> WITNESS s \in Slot
  <1> QED BY <1>1, <1>2, <1>3, <1>9, <1>10, <1>11

\* The tables agree after a join, with or without a token.
LEMMA JoinTables ==
    ASSUME Types, Tables, NEW c \in Player, NEW p \in Peer, HandleJoin(c, p)
    PROVE  Tables'
  <1>1. CASE Refuse(p)
    BY <1>1, TablesSame DEF Refuse, relay
  <1>2. CASE ~Refuse(p)
    <2>1. PICK s \in Slot :
            /\ p \in Registered /\ peer[p].slot = None /\ Open /\ UNCHANGED room
            /\ seat' = [seat EXCEPT ![s] = p]
            /\ peer' = [peer EXCEPT ![p].slot = s]
            /\ peer'[p] # None /\ peer'[p].slot = s
            /\ tookOver' = (tookOver \/ s \notin FreeSlots)
      BY <1>2, JoinFacts
    <2>2. /\ \A q \in Peer \ {p} : peer'[q] = peer[q]
          /\ seat'[s] = p /\ \A t \in Slot \ {s} : seat'[t] = seat[t]
      BY <2>1 DEF Types
    <2>3. \A t \in Slot : seat[t] # p
      BY <2>1, RelayNoneAssumption DEF Tables, SeatsAgree, Registered
    <2>4. \A t \in Slot : seat'[t] # None => seat'[t] \in Registered' /\ peer'[seat'[t]].slot = t
      <3> SUFFICES ASSUME NEW t \in Slot, seat'[t] # None
                   PROVE  seat'[t] \in Registered' /\ peer'[seat'[t]].slot = t
        OBVIOUS
      <3>1. CASE t = s
        BY <2>1, <2>2, <3>1 DEF Registered
      <3>2. CASE t # s
        BY <2>1, <2>2, <2>3, <3>2 DEF Tables, SeatsAgree, Registered
      <3> QED BY <3>1, <3>2
    <2>5. ASSUME ~tookOver', NEW q \in Registered', peer'[q].slot # None
          PROVE  seat'[peer'[q].slot] = q
      <3>1. CASE q = p
        BY <2>1, <2>2, <3>1
      <3>2. CASE q # p
        <4>1. q \in Registered /\ peer'[q] = peer[q] /\ ~tookOver /\ seat[s] = None
          BY <2>1, <2>2, <2>5, <3>2 DEF Registered, FreeSlots
        <4>2. seat[peer[q].slot] = q /\ peer[q].slot \in Slot /\ q # None
          BY <2>1, <2>5, <4>1, PeerFacts, RelayNoneAssumption DEF Tables, SeatsAgree, Registered
        <4> QED BY <2>2, <4>1, <4>2
      <3> QED BY <3>1, <3>2
    <2>6. SeatsAgree'
      BY <2>4, <2>5 DEF SeatsAgree
    <2>7. RoomInv'
      BY <2>1 DEF RoomInv, Open
    <2> QED BY <2>6, <2>7 DEF Tables
  <1> QED BY <1>1, <1>2

\* The tables agree after a ready, the one that starts the room included.
LEMMA ReadyTables ==
    ASSUME Types, Tables, NEW c \in Player, NEW p \in Peer, HandleReady(c, p)
    PROVE  Tables'
  <1>1. CASE Refuse(p)
    BY <1>1, TablesSame DEF Refuse, relay
  <1>2. CASE ~Refuse(p)
    <2>1. UNCHANGED <<peer, seat, tookOver>> /\ Open /\ (room' = room \/ room' = "started")
      BY <1>2, ReadyFacts DEF Tables
    <2> QED BY <2>1 DEF Tables, SeatsAgree, RoomInv, Open, Registered
  <1> QED BY <1>1, <1>2

\* The tables agree after a prune, the eviction of an empty room included.
LEMMA PruneTables ==
    ASSUME Types, Tables, NEW p \in Peer, Prune(p)
    PROVE  Tables'
  <1>1. /\ p \in Registered /\ peer' = [peer EXCEPT ![p] = None] /\ UNCHANGED tookOver
        /\ \/ (peer[p].slot = None \/ ~Open) /\ UNCHANGED <<room, seat>>
           \/ /\ peer[p].slot # None /\ Open /\ seat' = SeatsWithout(p)
              /\ room' = IF \A s \in Slot : seat'[s] = None THEN "evicted" ELSE room
    BY PruneFacts
  <1>2. peer'[p] = None /\ \A q \in Peer \ {p} : peer'[q] = peer[q]
    BY <1>1 DEF Types
  <1>3. CASE (peer[p].slot = None \/ ~Open) /\ UNCHANGED <<room, seat>>
    <2>1. \A s \in Slot : seat[s] # p
      BY <1>1, <1>3, RelayNoneAssumption DEF Tables, SeatsAgree, RoomInv, Registered
    <2> QED BY <1>1, <1>2, <1>3, <2>1 DEF Tables, SeatsAgree, RoomInv, Open, Registered
  <1>4. CASE ~((peer[p].slot = None \/ ~Open) /\ UNCHANGED <<room, seat>>)
    <2>1. /\ peer[p].slot # None /\ Open /\ seat' = SeatsWithout(p)
          /\ room' = IF \A s \in Slot : seat'[s] = None THEN "evicted" ELSE room
      BY <1>1, <1>4
    <2>2. \A s \in Slot : seat'[s] = IF seat[s] = p THEN None ELSE seat[s]
      BY <2>1 DEF SeatsWithout
    <2>3. \A q \in Registered' : q \in Registered /\ q # p /\ peer'[q] = peer[q]
      BY <1>2 DEF Registered
    <2>4. \A s \in Slot : seat'[s] # None => seat'[s] \in Registered' /\ peer'[seat'[s]].slot = s
      BY <1>2, <2>2 DEF Tables, SeatsAgree, Registered
    <2>5. ASSUME ~tookOver', NEW q \in Registered', peer'[q].slot # None
          PROVE  seat'[peer'[q].slot] = q
      <3>1. seat[peer[q].slot] = q /\ peer[q].slot \in Slot
        BY <1>1, <2>1, <2>3, <2>5, PeerFacts DEF Tables, SeatsAgree
      <3> QED BY <2>2, <2>3, <3>1
    <2>6. RoomInv'
      BY <2>1 DEF RoomInv, Open
    <2> QED BY <2>4, <2>5, <2>6 DEF Tables, SeatsAgree
  <1> QED BY <1>3, <1>4

\* The tables agree after a hello.
LEMMA HelloTables ==
    ASSUME Types, Tables, NEW c \in Player, HandleHello(c)
    PROVE  Tables'
  <1>1. PICK p \in Peer \ Registered :
          /\ peer' = [peer EXCEPT ![p] = [client |-> c, link |-> "live", slot |-> None]]
          /\ UNCHANGED <<room, seat, tookOver>>
    BY HelloFacts
  <1>2. /\ peer'[p].slot = None /\ \A q \in Peer \ {p} : peer'[q] = peer[q]
    BY <1>1 DEF Types
  <1>3. \A s \in Slot : seat[s] # p
    BY <1>1, RelayNoneAssumption DEF Tables, SeatsAgree
  <1> QED BY <1>1, <1>2, <1>3 DEF Tables, SeatsAgree, RoomInv, Open, Registered

\* Every step keeps the relay's tables in agreement.
LEMMA NextTables == Types /\ Tables /\ [Next]_vars => Tables'
  <1> SUFFICES ASSUME Types, Tables, [Next]_vars PROVE Tables'
    OBVIOUS
  <1>1. CASE UNCHANGED <<peer, room, seat, tookOver>>
    BY <1>1, TablesSame
  <1>2. ASSUME NEW c \in Player, Rebind(c) \/ Timeout(c)
        PROVE  Tables'
    <2>1. UNCHANGED <<room, seat, tookOver>>
      BY <1>2 DEF Rebind, Timeout
    <2>2. UNCHANGED peer \/ \E link \in {"live", "stale", "gone"} : Relinked(c, link)
      BY <1>2 DEF Rebind, Timeout
    <2>3. CASE UNCHANGED peer
      BY <2>1, <2>3, <1>1
    <2>4. CASE \E link \in {"live", "stale", "gone"} : Relinked(c, link)
      <3>1. \A p \in Peer : (peer'[p] = None <=> peer[p] = None)
                           /\ (peer[p] # None => peer'[p].slot = peer[p].slot)
        BY <2>4, RelinkedTables
      <3> QED BY <2>1, <3>1, TablesSame
    <2> QED BY <2>2, <2>3, <2>4
  <1>3. ASSUME NEW c \in Player, GoOffline(c) \/ GoOnline(c) \/ SendReady(c) \/ DeadlineExpires(c)
        PROVE  Tables'
    BY <1>1, <1>3 DEF GoOffline, GoOnline, SendReady, DeadlineExpires, relay
  <1>4. ASSUME NEW c \in Player, NEW p \in Peer,
               \/ RecvWelcome(c, p) \/ RecvError(c, p) \/ RecvRoomState(c, p)
               \/ RecvRoomStart(c, p) \/ RecvPeerDisconnect(c, p)
        PROVE  Tables'
    <2>1. UNCHANGED relay
      BY <1>4 DEF RecvWelcome, RecvError, RecvRoomState, RecvRoomStart, RecvPeerDisconnect, Receives
    <2> QED BY <1>1, <2>1 DEF relay
  <1>5. CASE UNCHANGED vars
    BY <1>1, <1>5 DEF vars
  <1>6. CASE Next
    BY <1>2, <1>3, <1>4, <1>6, HelloTables, CreateTables, JoinTables, ReadyTables, PruneTables
       DEF Next
  <1> QED BY <1>5, <1>6

-----------------------------------------------------------------------------
(***************************************************************************)
(* What the players ask for.                                               *)
(***************************************************************************)
LEMMA InitAsk == Init => AskInv
  <1> SUFFICES ASSUME Init PROVE AskInv
    OBVIOUS
  <1>1. OneLink
    BY DEF Init, OneLink, LiveOf, PeersOf, Registered
  <1>2. ASSUME NEW c \in Player
        PROVE  AskedBy(up[c], runtime[c], Free(c))
    <2>1. up[c] = << >> /\ runtime[c] = Fresh /\ LiveOf(c) = {}
      BY DEF Init, LiveOf, PeersOf, Registered
    <2>2. Free(c)
      BY <2>1 DEF Free
    <2>3. \A q : q = << >> => Len(q) = 0
      OBVIOUS
    <2> QED BY <2>1, <2>2, <2>3 DEF AskedBy, Fresh
  <1> QED BY <1>1, <1>2 DEF AskInv

\* A player that has no seat yet, or starts over, and has sent nothing
LEMMA NothingAsked ==
    ASSUME NEW q, NEW r, NEW free \in BOOLEAN, q = << >>,
           r.slot = None => r.state = "idle",
           ~r.accepted => free /\ (r.slot # None => r.state = "self")
    PROVE  AskedBy(q, r, free)
  BY DEF AskedBy

\* What is asked remains a fair account with more seats free, or nothing queued.
LEMMA AsksLess ==
    ASSUME NEW q, NEW r, NEW free \in BOOLEAN, NEW free2 \in BOOLEAN,
           AskedBy(q, r, free), free => free2
    PROVE  AskedBy(q, r, free2) /\ AskedBy(<< >>, r, free2)
  BY DEF AskedBy

\* The relay takes what was asked first.
LEMMA AskTaken ==
    ASSUME NEW q \in Seq(UpMessage), q # << >>, NEW r, NEW free \in BOOLEAN, NEW free2 \in BOOLEAN,
           AskedBy(q, r, free)
    PROVE  AskedBy(Tail(q), r, free2) /\ r.accepted
  <1>1. r.accepted /\ (r.slot = None => r.state = "idle")
    BY DEF AskedBy
  <1>2. /\ Len(Tail(q)) = Len(q) - 1 /\ Len(q) \in Nat /\ Len(q) >= 1
        /\ \A i \in 1..Len(Tail(q)) : Tail(q)[i] = q[i + 1]
        /\ Tail(q) \in Seq(UpMessage)
    BY HeadTailProperties, EmptySeq, LenProperties
  <1>3. \A i \in 1..Len(Tail(q)) : Tail(q)[i].kind = "ready"
    <2> SUFFICES ASSUME NEW i \in 1..Len(Tail(q)) PROVE Tail(q)[i].kind = "ready"
      OBVIOUS
    <2>1. i + 1 \in 1..Len(q) /\ i + 1 # 1
      BY <1>2
    <2> QED BY <1>2, <2>1 DEF AskedBy
  <1>4. Tail(q) # << >> => 1 \in 1..Len(Tail(q))
    BY <1>2, EmptySeq, LenProperties
  <1> QED BY <1>1, <1>3, <1>4 DEF AskedBy

\* A player says it is ready, after all else.
LEMMA ReadyAsked ==
    ASSUME NEW q \in Seq(UpMessage), NEW r, NEW r2, NEW free \in BOOLEAN,
           AskedBy(q, r, free), r.accepted, r2.accepted, r2.slot = r.slot, r2.state = r.state
    PROVE  AskedBy(Append(q, [kind |-> "ready"]), r2, free)
  <1> DEFINE m == [kind |-> "ready"]
             a == Append(q, m)
  <1>1. m \in UpMessage /\ m.kind = "ready"
    BY MessageFacts
  <1>2. /\ Len(a) = Len(q) + 1 /\ Len(q) \in Nat /\ a[Len(q) + 1] = m
        /\ \A i \in 1..Len(q) : a[i] = q[i]
        /\ Len(q) = 0 <=> q = << >>
    BY <1>1, AppendProperties, LenProperties, EmptySeq
  <1> HIDE DEF m, a
  <1>3. \A i \in 1..Len(a) : i # 1 => a[i].kind = "ready"
    BY <1>1, <1>2 DEF AskedBy
  <1>4. q # << >> => a[1] = q[1]
    BY <1>2
  <1>5. q = << >> => a[1] = m
    BY <1>2
  <1>6. AskedBy(a, r2, free)
    BY <1>1, <1>3, <1>4, <1>5 DEF AskedBy
  <1> QED BY <1>6 DEF a, m

\* For a player nobody acts for, nothing changes.
LEMMA SamePlayer ==
    ASSUME Types, AskInv, NEW c \in Player, runtime'[c] = runtime[c],
           up'[c] = up[c] \/ up'[c] = << >>, LiveOf(c)' \subseteq LiveOf(c),
           \A p \in LiveOf(c)' : peer'[p].slot = peer[p].slot, Running(c)'
    PROVE  AskedBy(up[c], runtime[c], Free(c))'
  <1>1. Running(c)
    BY DEF Running
  <1>2. AskedBy(up[c], runtime[c], Free(c))
    BY <1>1 DEF AskInv
  <1>3. Free(c) => Free(c)'
    BY DEF Free
  <1>4. Free(c) \in BOOLEAN /\ Free(c)' \in BOOLEAN
    BY DEF Free
  <1>5. AskedBy(up[c], runtime[c], Free(c)') /\ AskedBy(<< >>, runtime[c], Free(c)')
    BY <1>2, <1>3, <1>4, AsksLess
  <1>6. AskedBy(up'[c], runtime'[c], Free(c)')
    BY <1>5
  <1> QED BY <1>6

\* A step that leaves the peers alone leaves the live links alone.
LEMMA SameLinks ==
    ASSUME UNCHANGED peer
    PROVE  \A d \in Player : LiveOf(d)' = LiveOf(d)
  BY DEF LiveOf, PeersOf, Registered, Live

\* A player whose peers were told their link is dead has no live one.
LEMMA RelinkedLive ==
    ASSUME Types, NEW c \in Player, NEW link \in {"stale", "gone"}, Relinked(c, link)
    PROVE  /\ LiveOf(c)' = {}
           /\ up'[c] = << >> /\ \A d \in Player \ {c} : up'[d] = up[d]
           /\ \A d \in Player \ {c} : LiveOf(d)' = LiveOf(d)
           /\ \A p \in Peer : p \notin PeersOf(c) => peer'[p] = peer[p] /\ down'[p] = down[p]
           /\ \A p \in PeersOf(c) : ~Live(p)' /\ peer'[p] # None /\ peer'[p].client = c
                                    /\ peer'[p].slot = peer[p].slot
  <1>1. \A p \in Peer : (peer'[p] = None <=> peer[p] = None)
                        /\ (peer[p] # None => peer'[p].slot = peer[p].slot
                                              /\ peer'[p].client = peer[p].client)
    BY RelinkedTables
  <1>2. \A p \in Peer : p \notin PeersOf(c) => peer'[p] = peer[p] /\ down'[p] = down[p]
    BY DEF Relinked
  <1>3. \A p \in PeersOf(c) : peer'[p].link # "live"
    <2> SUFFICES ASSUME NEW p \in PeersOf(c) PROVE peer'[p].link # "live"
      OBVIOUS
    <2>1. p \in Peer /\ peer[p] \in PeerRecord
      BY PeerFacts DEF PeersOf, Types, Registered
    <2>2. CASE peer[p].link = "gone"
      BY <2>1, <2>2 DEF Relinked
    <2>3. CASE peer[p].link # "gone"
      <3>1. peer'[p] = [peer[p] EXCEPT !.link = link]
        BY <2>1, <2>3 DEF Relinked
      <3> QED BY <2>1, <3>1 DEF PeerRecord
    <2> QED BY <2>2, <2>3
  <1>4. LiveOf(c)' = {}
    BY <1>1, <1>3 DEF LiveOf, PeersOf, Registered, Live
  <1>5. \A d \in Player \ {c} : LiveOf(d)' = LiveOf(d)
    <2> SUFFICES ASSUME NEW d \in Player \ {c}, NEW p \in Peer
                 PROVE  p \in LiveOf(d)' <=> p \in LiveOf(d)
      BY DEF LiveOf, PeersOf, Registered
    <2>1. CASE p \in PeersOf(c)
      BY <1>1, <2>1 DEF LiveOf, PeersOf, Registered
    <2>2. CASE p \notin PeersOf(c)
      BY <1>2, <2>2 DEF LiveOf, PeersOf, Registered, Live
    <2> QED BY <2>1, <2>2
  <1>6. up'[c] = << >> /\ \A d \in Player \ {c} : up'[d] = up[d]
    BY DEF Relinked, Types, QueuesOK
  <1>7. \A p \in PeersOf(c) : ~Live(p)' /\ peer'[p] # None /\ peer'[p].client = c
                              /\ peer'[p].slot = peer[p].slot
    BY <1>1, <1>3 DEF Live, PeersOf, Registered
  <1> QED BY <1>2, <1>4, <1>5, <1>6, <1>7

\* A player who says hello has no live peer, and gets one.
LEMMA HelloLive ==
    ASSUME Types, NEW c \in Player, HandleHello(c)
    PROVE  \E p \in Peer \ Registered :
             /\ LiveOf(c)' = {p} /\ peer'[p].slot = None /\ peer'[p].client = c
             /\ down'[p] = <<[kind |-> "welcome"]>>
             /\ \A d \in Player \ {c} : LiveOf(d)' = LiveOf(d)
             /\ \A q \in Peer \ {p} : peer'[q] = peer[q] /\ down'[q] = down[q]
             /\ UNCHANGED <<runtime, room, seat, ready, up, online, mishaps, tookOver>>
  <1>1. PICK p \in Peer \ Registered :
          /\ peer' = [peer EXCEPT ![p] = [client |-> c, link |-> "live", slot |-> None]]
          /\ down' = [down EXCEPT ![p] = <<[kind |-> "welcome"]>>]
          /\ UNCHANGED <<runtime, room, seat, ready, up, online, mishaps, tookOver>>
    BY HelloFacts
  <1>2. [client |-> c, link |-> "live", slot |-> None] \in PeerRecord
    BY DEF PeerRecord
  <1>3. /\ peer'[p] = [client |-> c, link |-> "live", slot |-> None] /\ peer'[p] # None
        /\ \A q \in Peer \ {p} : peer'[q] = peer[q] /\ down'[q] = down[q]
        /\ down'[p] = <<[kind |-> "welcome"]>>
    BY <1>1, <1>2, RelayNoneAssumption DEF Types, QueuesOK
  <1>4. \A q \in PeersOf(c) : peer[q].link = "gone"
    BY DEF HandleHello
  <1>5. LiveOf(c)' = {p}
    BY <1>1, <1>3, <1>4 DEF LiveOf, PeersOf, Registered, Live
  <1>6. \A d \in Player \ {c} : LiveOf(d)' = LiveOf(d)
    <2> SUFFICES ASSUME NEW d \in Player \ {c}, NEW q \in Peer
                 PROVE  q \in LiveOf(d)' <=> q \in LiveOf(d)
      BY DEF LiveOf, PeersOf, Registered
    <2>1. CASE q = p
      BY <1>1, <1>3, <2>1 DEF LiveOf, PeersOf, Registered
    <2>2. CASE q # p
      BY <1>3, <2>2 DEF LiveOf, PeersOf, Registered, Live
    <2> QED BY <2>1, <2>2
  <1> QED BY <1>1, <1>3, <1>5, <1>6

\* A new seat changes nothing else of a peer.
LEMMA SeatedLive ==
    ASSUME Types, NEW p \in Registered, NEW s \in Slot, peer' = [peer EXCEPT ![p].slot = s]
    PROVE  /\ \A d \in Player : LiveOf(d)' = LiveOf(d)
           /\ peer'[p].slot = s /\ peer'[p].client = peer[p].client /\ (Live(p)' <=> Live(p))
           /\ \A q \in Peer \ {p} : peer'[q] = peer[q]
  <1>1. peer'[p] = [peer[p] EXCEPT !.slot = s] /\ peer[p] \in PeerRecord /\ p \in Peer
    BY PeerFacts DEF Types
  <1>2. peer'[p] \in PeerRecord /\ peer'[p].slot = s /\ peer'[p].client = peer[p].client
        /\ peer'[p].link = peer[p].link
    BY <1>1 DEF PeerRecord
  <1>3. \A q \in Peer \ {p} : peer'[q] = peer[q]
    BY DEF Types
  <1>4. peer'[p] # None /\ peer[p] # None
    BY <1>2, RelayNoneAssumption DEF Registered
  <1>5. ASSUME NEW d \in Player, NEW q \in Peer
        PROVE  q \in LiveOf(d)' <=> q \in LiveOf(d)
    <2>1. CASE q = p
      BY <1>2, <1>4, <2>1 DEF LiveOf, PeersOf, Registered, Live
    <2>2. CASE q # p
      BY <1>3, <2>2 DEF LiveOf, PeersOf, Registered, Live
    <2> QED BY <2>1, <2>2
  <1>6. \A d \in Player : LiveOf(d)' = LiveOf(d)
    BY <1>5 DEF LiveOf, PeersOf, Registered
  <1>7. Live(p)' <=> Live(p)
    BY <1>1, <1>2, <1>4 DEF Live, Registered
  <1> QED BY <1>2, <1>3, <1>6, <1>7

\* At most one live peer: only a hello makes one, and only for who has none.
LEMMA OneLinkKept ==
    ASSUME Types, Tables, OneLink, [Next]_vars
    PROVE  OneLink'
  <1>1. CASE \A d \in Player : LiveOf(d)' \subseteq LiveOf(d)
    BY <1>1 DEF OneLink
  <1>2. ASSUME NEW c \in Player, NEW link \in {"stale", "gone"}, Relinked(c, link)
        PROVE  OneLink'
    BY <1>2, RelinkedLive DEF OneLink
  <1>3. ASSUME NEW c \in Player, HandleHello(c)
        PROVE  OneLink'
    <2>1. PICK p : LiveOf(c)' = {p} /\ \A d \in Player \ {c} : LiveOf(d)' = LiveOf(d)
      BY <1>3, HelloLive
    <2> QED BY <2>1 DEF OneLink
  <1>4. ASSUME NEW c \in Player, NEW p \in Peer, HandleCreate(c, p) \/ HandleJoin(c, p)
        PROVE  OneLink'
    <2>1. UNCHANGED peer \/ \E s \in Slot : p \in Registered /\ peer' = [peer EXCEPT ![p].slot = s]
      <3>1. CASE HandleCreate(c, p)
        BY <3>1, TakesFacts, Numbers DEF HandleCreate, Types
      <3>2. CASE HandleJoin(c, p)
        <4>1. CASE Refuse(p)
          BY <4>1 DEF Refuse, relay
        <4>2. CASE ~Refuse(p)
          BY <3>2, <4>2, JoinFacts
        <4> QED BY <4>1, <4>2
      <3> QED BY <1>4, <3>1, <3>2
    <2> QED BY <2>1, <1>1, SeatedLive, SameLinks
  <1>5. ASSUME NEW p \in Peer, Prune(p)
        PROVE  OneLink'
    <2>1. p \in Registered /\ peer' = [peer EXCEPT ![p] = None]
      BY <1>5, PruneFacts
    <2>2. peer'[p] = None /\ \A q \in Peer \ {p} : peer'[q] = peer[q]
      BY <2>1 DEF Types
    <2> QED BY <2>2, <1>1 DEF LiveOf, PeersOf, Registered, Live
  <1>6. CASE UNCHANGED peer
    BY <1>1, <1>6, SameLinks
  <1>7. ASSUME NEW c \in Player, NEW p \in Peer, HandleReady(c, p)
        PROVE  UNCHANGED peer
    <2>1. CASE Refuse(p)
      BY <2>1 DEF Refuse, relay
    <2>2. CASE ~Refuse(p)
      BY <1>7, <2>2, ReadyFacts DEF Tables
    <2> QED BY <2>1, <2>2
  <1>8. ASSUME NEW c \in Player, Rebind(c) \/ Timeout(c)
        PROVE  OneLink'
    BY <1>2, <1>6, <1>8 DEF Rebind, Timeout
  <1>9. ASSUME NEW c \in Player, GoOffline(c) \/ GoOnline(c) \/ SendReady(c) \/ DeadlineExpires(c)
        PROVE  UNCHANGED peer
    BY <1>9 DEF GoOffline, GoOnline, SendReady, DeadlineExpires, relay
  <1>10. ASSUME NEW c \in Player, NEW p \in Peer,
               \/ RecvWelcome(c, p) \/ RecvError(c, p) \/ RecvRoomState(c, p)
               \/ RecvRoomStart(c, p) \/ RecvPeerDisconnect(c, p)
        PROVE  UNCHANGED peer
    BY <1>10 DEF RecvWelcome, RecvError, RecvRoomState, RecvRoomStart, RecvPeerDisconnect, Receives, relay
  <1>11. CASE UNCHANGED vars
    BY <1>6, <1>11 DEF vars
  <1>12. CASE Next
    BY <1>3, <1>4, <1>5, <1>6, <1>7, <1>8, <1>9, <1>10, <1>12 DEF Next
  <1> QED BY <1>11, <1>12

\* A player's own steps with its network and its clock
LEMMA PlayerAsk ==
    ASSUME Types, Tables, AskInv, NEW c \in Player,
           \/ GoOffline(c) \/ GoOnline(c) \/ Rebind(c) \/ SendReady(c) \/ Timeout(c)
           \/ DeadlineExpires(c),
           NEW d \in Player, Running(d)'
    PROVE  AskedBy(up[d], runtime[d], Free(d))'
  <1>1. CASE UNCHANGED <<runtime, up, peer>>
    BY <1>1, SamePlayer, SameLinks
  <1>2. CASE GoOffline(c) \/ GoOnline(c)
    BY <1>1, <1>2 DEF GoOffline, GoOnline, relay
  <1>3. ASSUME NEW link \in {"stale", "gone"}, Relinked(c, link), runtime'[d] = runtime[d]
        PROVE  AskedBy(up[d], runtime[d], Free(d))'
    <2>1. /\ LiveOf(d)' \subseteq LiveOf(d)
          /\ up'[d] = up[d] \/ up'[d] = << >>
          /\ \A p \in LiveOf(d)' : peer'[p].slot = peer[p].slot
      <3>1. CASE d = c
        BY <1>3, <3>1, RelinkedLive
      <3>2. CASE d # c
        <4>1. LiveOf(d)' = LiveOf(d) /\ up'[d] = up[d]
          BY <1>3, <3>2, RelinkedLive
        <4>2. \A p \in LiveOf(d) : p \in Peer /\ p \notin PeersOf(c)
          BY <3>2 DEF LiveOf, PeersOf, Registered
        <4> QED BY <1>3, <4>1, <4>2, RelinkedLive
      <3> QED BY <3>1, <3>2
    <2> QED BY <1>3, <2>1, SamePlayer
  <1>4. CASE Rebind(c)
    BY <1>3, <1>4 DEF Rebind
  <1>5. ASSUME Fails(c), UNCHANGED <<peer, up>>
        PROVE  AskedBy(up[d], runtime[d], Free(d))'
    <2>1. d # c
      BY <1>5 DEF Fails, Running, Types, Fresh
    <2>2. runtime'[d] = runtime[d]
      BY <1>5, <2>1 DEF Fails, Types
    <2> QED BY <1>5, <2>2, SamePlayer, SameLinks
  <1>6. CASE DeadlineExpires(c)
    BY <1>5, <1>6 DEF DeadlineExpires, relay
  <1>7. CASE Timeout(c)
    <2>1. CASE runtime[c].slot = None
      BY <1>5, <1>7, <2>1 DEF Timeout
    <2>2. CASE runtime[c].slot # None
      <3>1. /\ runtime' = [runtime EXCEPT ![c] = [Fresh EXCEPT !.state = "self", !.slot = runtime[c].slot]]
            /\ Relinked(c, "stale")
        BY <1>7, <2>2 DEF Timeout
      <3>2. CASE d # c
        <4>1. runtime'[d] = runtime[d]
          BY <3>1, <3>2 DEF Types
        <4> QED BY <1>3, <3>1, <4>1
      <3>3. CASE d = c
        <4>1. runtime'[c] = [Fresh EXCEPT !.state = "self", !.slot = runtime[c].slot]
          BY <3>1 DEF Types
        <4>2. runtime'[c].slot = runtime[c].slot /\ runtime'[c].state = "self"
          BY <4>1 DEF Fresh
        <4>3. LiveOf(c)' = {} /\ up'[c] = << >>
          BY <3>1, RelinkedLive
        <4>4. Free(c)'
          BY <4>3 DEF Free
        <4>5. AskedBy(up'[c], runtime'[c], Free(c)')
          BY <2>2, <4>2, <4>3, <4>4, NothingAsked
        <4> QED BY <3>3, <4>5
      <3> QED BY <3>2, <3>3
    <2> QED BY <2>1, <2>2
  <1>8. CASE SendReady(c)
    <2>1. /\ SentUp(c, [kind |-> "ready"]) /\ Running(c) /\ runtime[c].accepted
          /\ runtime' = [runtime EXCEPT ![c].sentReady = TRUE] /\ UNCHANGED peer
      BY <1>8 DEF SendReady, relay
    <2>2. \A e \in Player : up'[e] =
            IF e = c /\ LiveOf(c) # {} THEN Append(up[e], [kind |-> "ready"]) ELSE up[e]
      BY <2>1, SentUpFacts, MessageFacts DEF Types
    <2>3. CASE d # c
      <3>1. runtime'[d] = runtime[d] /\ up'[d] = up[d]
        BY <2>1, <2>2, <2>3 DEF Types
      <3> QED BY <2>1, <3>1, SamePlayer, SameLinks
    <2>4. CASE d = c
      <3>1. /\ runtime'[c].accepted /\ runtime[c].accepted
            /\ runtime'[c].slot = runtime[c].slot /\ runtime'[c].state = runtime[c].state
        BY <2>1 DEF Types, RuntimeRecord
      <3>2. AskedBy(up[c], runtime[c], Free(c)) /\ up[c] \in Seq(UpMessage)
        BY <2>1 DEF AskInv, Types, QueuesOK
      <3>3. Free(c)' <=> Free(c)
        BY <2>1, SameLinks DEF Free
      <3>4. Free(c) \in BOOLEAN /\ Free(c)' \in BOOLEAN
        BY DEF Free
      <3>5. AskedBy(Append(up[c], [kind |-> "ready"]), runtime'[c], Free(c))
        BY <3>1, <3>2, <3>4, ReadyAsked
      <3>6. AskedBy(up[c], runtime'[c], Free(c))
        BY <3>1, <3>2 DEF AskedBy
      <3>7. AskedBy(up'[c], runtime'[c], Free(c))
        BY <2>2, <3>5, <3>6
      <3>8. AskedBy(up'[c], runtime'[c], Free(c)')
        BY <3>3, <3>4, <3>7, AsksLess
      <3> QED BY <2>4, <3>8
    <2> QED BY <2>3, <2>4
  <1> QED BY <1>2, <1>4, <1>6, <1>7, <1>8

\* What the messages of the relay make of it
LEMMA ReceiveAsk ==
    ASSUME Types, Tables, AskInv, AnswerInv, NEW c \in Player, NEW p \in Peer,
           \/ RecvWelcome(c, p) \/ RecvError(c, p) \/ RecvRoomState(c, p)
           \/ RecvRoomStart(c, p) \/ RecvPeerDisconnect(c, p),
           NEW d \in Player, Running(d)'
    PROVE  AskedBy(up[d], runtime[d], Free(d))'
  <1>0. PICK kind : Receives(c, p, kind)
    BY DEF RecvWelcome, RecvError, RecvRoomState, RecvRoomStart, RecvPeerDisconnect
  <1>1. /\ Head(down[p]) \in DownMessage /\ down[p] # << >> /\ Head(down[p]) = down[p][1]
        /\ p \in Registered /\ peer[p].client = c /\ Live(p) /\ Heard(p) /\ p \in LiveOf(c)
        /\ UNCHANGED peer
    BY <1>0, ReceivesFacts DEF Types, LiveOf, PeersOf
  <1>2. Running(c) /\ AskedBy(up[c], runtime[c], Free(c)) /\ down[p] \in Seq(DownMessage)
    BY <1>0 DEF Receives, AskInv, Types, QueuesOK
  <1>3. AnsweredBy(down[p], runtime[c], peer[p].slot, InStarted(p), InFull(p))
    BY <1>1 DEF AnswerInv, Answered
  <1>4. Free(c)' <=> Free(c)
    BY <1>1, SameLinks DEF Free
  <1>5. Free(c) \in BOOLEAN /\ Free(c)' \in BOOLEAN
    BY DEF Free
  <1>6. d # c => runtime'[d] = runtime[d] /\ up'[d] = up[d]
    <2> SUFFICES ASSUME d # c PROVE runtime'[d] = runtime[d] /\ up'[d] = up[d]
      OBVIOUS
    <2>1. CASE RecvWelcome(c, p)
      <3>1. runtime'[d] = runtime[d]
        BY <2>1 DEF RecvWelcome, Types
      <3>2. \/ SentUp(c, [kind |-> "join", token |-> runtime[c].slot])
            \/ SentUp(c, [kind |-> "create"]) \/ SentUp(c, [kind |-> "join", token |-> None])
        BY <2>1 DEF RecvWelcome
      <3>3. up'[d] = up[d]
        BY <3>2 DEF SentUp, Types, QueuesOK
      <3> QED BY <3>1, <3>3
    <2>2. CASE RecvError(c, p)
      BY <2>2 DEF RecvError, Fails, Types
    <2>3. CASE RecvRoomState(c, p)
      BY <2>3 DEF RecvRoomState, Types
    <2>4. CASE RecvRoomStart(c, p)
      BY <2>4 DEF RecvRoomStart, Types
    <2>5. CASE RecvPeerDisconnect(c, p)
      BY <2>5 DEF RecvPeerDisconnect, Fails, Types
    <2> QED BY <2>1, <2>2, <2>3, <2>4, <2>5
  <1>7. CASE d # c
    BY <1>1, <1>6, <1>7, SamePlayer, SameLinks
  <1>8. ASSUME d = c, Fails(c)
        PROVE  FALSE
    BY <1>8 DEF Fails, Running, Types, Fresh
  <1>9. ASSUME d = c, down[p][1].kind # "welcome", up' = up,
               runtime'[c].accepted = runtime[c].accepted,
               runtime'[c].slot = None => runtime'[c].state = "idle",
               runtime'[c].slot = runtime[c].slot \/ (~Free(c) /\ runtime'[c].slot # None)
        PROVE  AskedBy(up[d], runtime[d], Free(d))'
    <2>1. runtime[c].accepted
      BY <1>3, <1>9 DEF AnsweredBy
    <2>2. up[c] \in Seq(UpMessage) /\ (up[c] # << >> => up[c][1] \in UpMessage)
      <3>1. up[c] \in Seq(UpMessage)
        BY DEF Types, QueuesOK
      <3>2. up[c] # << >> => up[c][1] \in UpMessage
        BY <3>1, EmptySeq, LenProperties, ElementOfSeq
      <3> QED BY <3>1, <3>2
    <2>3. up[c] # << >> => up[c][1].kind \in {"create", "join", "ready"}
      BY <2>2, MessageTypes
    <2>4. AskedBy(up[c], runtime'[c], Free(c))
      BY <1>2, <1>9, <2>1, <2>3 DEF AskedBy
    <2>5. AskedBy(up'[c], runtime'[c], Free(c)')
      BY <1>4, <1>5, <1>9, <2>4, AsksLess
    <2> QED BY <1>9, <2>5
  <1>10. CASE d = c /\ RecvWelcome(c, p)
    <2>1. /\ down[p][1].kind = "welcome"
          /\ runtime' = [runtime EXCEPT ![c].accepted = TRUE]
          /\ SentUp(c, CASE runtime[c].state = "self" -> [kind |-> "join", token |-> runtime[c].slot]
                         [] runtime[c].state # "self" /\ c = Host -> [kind |-> "create"]
                         [] OTHER -> [kind |-> "join", token |-> None])
      BY <1>1, <1>10 DEF RecvWelcome, Receives
    <2>2. /\ runtime'[c].accepted /\ runtime'[c].slot = runtime[c].slot
          /\ runtime'[c].state = runtime[c].state /\ runtime[c] \in RuntimeRecord
      BY <2>1 DEF Types, RuntimeRecord
    <2>3. ~runtime[c].accepted
      <3>1. ~NoKind(down[p], "welcome")
        BY <1>1, <1>2, <2>1, TailFacts
      <3> QED BY <1>3, <3>1 DEF AnsweredBy
    <2>4. up[c] = << >> /\ Free(c) /\ (runtime[c].slot # None => runtime[c].state = "self")
          /\ (runtime[c].slot = None => runtime[c].state = "idle")
      BY <1>2, <2>3 DEF AskedBy
    <2>5. PICK m \in UpMessage : /\ SentUp(c, m)
                                 /\ m.kind = "create" => runtime[c].slot = None
                                 /\ m.kind = "join" => m.token = runtime[c].slot
      <3>0. runtime[c].slot \in Slot \cup {None}
        BY <2>2 DEF RuntimeRecord
      <3>1. CASE runtime[c].state = "self"
        <4>1. SentUp(c, [kind |-> "join", token |-> runtime[c].slot])
          BY <2>1, <3>1
        <4> QED BY <3>0, <4>1, MessageFacts
      <3>2. CASE runtime[c].state # "self" /\ c = Host
        <4>1. SentUp(c, [kind |-> "create"])
          BY <2>1, <3>2
        <4> QED BY <2>4, <3>2, <4>1, MessageFacts
      <3>3. CASE runtime[c].state # "self" /\ c # Host
        <4>1. SentUp(c, [kind |-> "join", token |-> None])
          BY <2>1, <3>3
        <4> QED BY <2>4, <3>3, <4>1, MessageFacts
      <3> QED BY <3>1, <3>2, <3>3
    <2>6. up'[c] = <<m>>
      <3>1. up'[c] = Append(up[c], m)
        BY <1>1, <2>5, SentUpFacts DEF Types
      <3> QED BY <2>4, <3>1
    <2>7. AskedBy(<<m>>, runtime'[c], Free(c)')
      BY <1>4, <2>2, <2>4, <2>5 DEF AskedBy
    <2> QED BY <1>10, <2>6, <2>7
  <1>11. CASE d = c /\ RecvError(c, p)
    BY <1>8, <1>11 DEF RecvError
  <1>12. CASE d = c /\ RecvRoomState(c, p)
    <2>1. /\ down[p][1].kind = "state" /\ up' = up
          /\ runtime' = [runtime EXCEPT ![c].joined = TRUE,
               ![c].state = IF runtime[c].slot \in Head(down[p]).taken THEN "idle" ELSE @]
      BY <1>1, <1>12 DEF RecvRoomState, Receives
    <2>2. runtime'[c].accepted = runtime[c].accepted /\ runtime'[c].slot = runtime[c].slot
          /\ runtime'[c].state \in {"idle", runtime[c].state}
      BY <2>1 DEF Types, RuntimeRecord
    <2>3. runtime'[c].slot = None => runtime'[c].state = "idle"
      BY <1>2, <2>2 DEF AskedBy
    <2> QED BY <1>9, <1>12, <2>1, <2>2, <2>3
  <1>13. CASE d = c /\ RecvRoomStart(c, p)
    <2>1. /\ down[p][1].kind = "start" /\ up' = up
          /\ runtime' = [runtime EXCEPT ![c].slot = Head(down[p]).slot, ![c].state = "idle",
                                        ![c].sentReady = TRUE]
      BY <1>1, <1>13 DEF RecvRoomStart, Receives
    <2>2. runtime'[c].accepted = runtime[c].accepted /\ runtime'[c].slot = down[p][1].slot
          /\ runtime'[c].state = "idle"
      BY <1>1, <2>1 DEF Types, RuntimeRecord
    <2>3. down[p][1].slot \in Slot
      BY <1>1, <2>1, MessageTypes
    <2>4. peer[p].slot = down[p][1].slot
      BY <1>2, <1>3, <1>1, <2>1, TailFacts DEF AnsweredBy
    <2>5. ~Free(c)
      BY <1>1, <2>3, <2>4, RelayNoneAssumption DEF Free
    <2> QED BY <1>9, <1>13, <2>1, <2>2, <2>3, <2>5, RelayNoneAssumption
  <1>14. CASE d = c /\ RecvPeerDisconnect(c, p)
    <2>1. runtime[c].slot # None
      BY <1>8, <1>14 DEF RecvPeerDisconnect
    <2>2. /\ down[p][1].kind = "disconnect" /\ up' = up
          /\ runtime' = [runtime EXCEPT ![c].state = "waiting"]
      BY <1>1, <1>14, <2>1 DEF RecvPeerDisconnect, Receives
    <2>3. runtime'[c].accepted = runtime[c].accepted /\ runtime'[c].slot = runtime[c].slot
      BY <2>2 DEF Types, RuntimeRecord
    <2> QED BY <1>9, <1>14, <2>1, <2>2, <2>3
  <1> QED BY <1>7, <1>10, <1>11, <1>12, <1>13, <1>14

\* What the relay does with it
LEMMA RelayAsk ==
    ASSUME Types, Tables, AskInv, NEW c \in Player, NEW p \in Peer,
           HandleCreate(c, p) \/ HandleJoin(c, p) \/ HandleReady(c, p),
           NEW d \in Player, Running(d)'
    PROVE  AskedBy(up[d], runtime[d], Free(d))'
  <1>0. PICK kind : Takes(c, p, kind)
    BY DEF HandleCreate, HandleJoin, HandleReady
  <1>1. /\ \A e \in Player : up'[e] = IF e = c THEN Tail(up[e]) ELSE up[e]
        /\ up[c] # << >> /\ p \in Registered /\ peer[p].client = c /\ UNCHANGED runtime
    BY <1>0, TakesFacts DEF Types
  <1>2. CASE d = c
    <2>1. Running(c) /\ AskedBy(up[c], runtime[c], Free(c)) /\ up[c] \in Seq(UpMessage)
      BY <1>1, <1>2 DEF AskInv, Running, Types, QueuesOK
    <2>2. Free(c) \in BOOLEAN /\ Free(c)' \in BOOLEAN
      BY DEF Free
    <2>3. AskedBy(Tail(up[c]), runtime[c], Free(c)')
      BY <1>1, <2>1, <2>2, AskTaken
    <2>4. AskedBy(up'[c], runtime'[c], Free(c)')
      BY <1>1, <2>3
    <2> QED BY <1>2, <2>4
  <1>3. CASE d # c
    <2>1. UNCHANGED peer \/ \E s \in Slot : peer' = [peer EXCEPT ![p].slot = s]
      <3>1. CASE HandleCreate(c, p)
        BY <3>1, Numbers DEF HandleCreate
      <3>2. CASE HandleJoin(c, p)
        <4>1. CASE Refuse(p)
          BY <4>1 DEF Refuse, relay
        <4>2. CASE ~Refuse(p)
          BY <3>2, <4>2, JoinFacts
        <4> QED BY <4>1, <4>2
      <3>3. CASE HandleReady(c, p)
        <4>1. CASE Refuse(p)
          BY <4>1 DEF Refuse, relay
        <4>2. CASE ~Refuse(p)
          BY <3>3, <4>2, ReadyFacts DEF Tables
        <4> QED BY <4>1, <4>2
      <3> QED BY <3>1, <3>2, <3>3
    <2>2. LiveOf(d)' = LiveOf(d) /\ \A q \in Peer \ {p} : peer'[q] = peer[q]
      BY <1>1, <2>1, SeatedLive, SameLinks
    <2>3. \A q \in LiveOf(d) : q \in Peer \ {p}
      BY <1>1, <1>3 DEF LiveOf, PeersOf, Registered
    <2>4. runtime'[d] = runtime[d] /\ up'[d] = up[d]
      BY <1>1, <1>3
    <2> QED BY <2>2, <2>3, <2>4, SamePlayer
  <1> QED BY <1>2, <1>3

\* A hello leaves what the players have asked for.
LEMMA HelloAsk ==
    ASSUME Types, AskInv, NEW c \in Player, HandleHello(c), NEW d \in Player, Running(d)'
    PROVE  AskedBy(up[d], runtime[d], Free(d))'
  <1>1. PICK p \in Peer \ Registered :
          /\ LiveOf(c)' = {p} /\ peer'[p].slot = None
          /\ \A e \in Player \ {c} : LiveOf(e)' = LiveOf(e)
          /\ \A q \in Peer \ {p} : peer'[q] = peer[q]
          /\ UNCHANGED <<runtime, up>>
    BY HelloLive
  <1>2. CASE d = c
    <2>1. ~runtime[c].accepted /\ Running(c)
      BY DEF HandleHello
    <2>2. up[c] = << >> /\ (runtime[c].slot = None => runtime[c].state = "idle")
          /\ (runtime[c].slot # None => runtime[c].state = "self")
      BY <2>1 DEF AskInv, AskedBy
    <2>3. Free(c)'
      BY <1>1 DEF Free
    <2>4. AskedBy(up'[c], runtime'[c], Free(c)')
      BY <1>1, <2>2, <2>3, NothingAsked
    <2> QED BY <1>2, <2>4
  <1>3. CASE d # c
    <2>1. \A q \in LiveOf(d) : q \in Peer \ {p}
      BY <1>1 DEF LiveOf, PeersOf, Registered
    <2> QED BY <1>1, <1>3, <2>1, SamePlayer
  <1> QED BY <1>2, <1>3

\* A prune leaves what the players have asked for.
LEMMA PruneAsk ==
    ASSUME Types, AskInv, NEW p \in Peer, Prune(p), NEW d \in Player, Running(d)'
    PROVE  AskedBy(up[d], runtime[d], Free(d))'
  <1>1. /\ peer' = [peer EXCEPT ![p] = None] /\ UNCHANGED runtime
        /\ up'[d] = up[d] \/ up'[d] = << >>
    BY PruneFacts
  <1>2. peer'[p] = None /\ \A q \in Peer \ {p} : peer'[q] = peer[q]
    BY <1>1 DEF Types
  <1>3. LiveOf(d)' \subseteq LiveOf(d) /\ \A q \in LiveOf(d)' : peer'[q].slot = peer[q].slot
    BY <1>2 DEF LiveOf, PeersOf, Registered, Live
  <1> QED BY <1>1, <1>3, SamePlayer

\* Every step keeps the account of what each player has asked for.
LEMMA NextAsk == Types /\ Tables /\ AskInv /\ AnswerInv /\ [Next]_vars => AskInv'
  <1> SUFFICES ASSUME Types, Tables, AskInv, AnswerInv, [Next]_vars PROVE AskInv'
    OBVIOUS
  <1>1. OneLink'
    BY OneLinkKept DEF AskInv
  <1>2. ASSUME NEW d \in Player, Running(d)'
        PROVE  AskedBy(up[d], runtime[d], Free(d))'
    <2>1. CASE UNCHANGED vars
      BY <1>2, <2>1, SamePlayer, SameLinks DEF vars
    <2>2. CASE Next
      BY <1>2, <2>2, PlayerAsk, ReceiveAsk, RelayAsk, HelloAsk, PruneAsk DEF Next
    <2> QED BY <2>1, <2>2
  <1> QED BY <1>1, <1>2 DEF AskInv

-----------------------------------------------------------------------------
(***************************************************************************)
(* What the players are told.                                              *)
(***************************************************************************)
LEMMA InitAnswer == Init => AnswerInv
  BY DEF Init, AnswerInv, Heard, Live, Registered

\* The two flags of a link are Boolean.
LEMMA Flags ==
    ASSUME NEW p
    PROVE  /\ InStarted(p) \in BOOLEAN /\ InFull(p) \in BOOLEAN
           /\ InStarted(p)' \in BOOLEAN /\ InFull(p)' \in BOOLEAN
  BY DEF InStarted, InFull

\* What a live link says of its player
LEMMA HeardFacts ==
    ASSUME Types, AnswerInv, NEW p \in Peer, Heard(p)
    PROVE  /\ p \in Registered /\ peer[p].client \in Player /\ p \in LiveOf(peer[p].client)
           /\ Running(peer[p].client) /\ down[p] \in Seq(DownMessage)
           /\ AnsweredBy(down[p], runtime[peer[p].client], peer[p].slot, InStarted(p), InFull(p))
  BY PeerFacts DEF Heard, Live, AnswerInv, Answered, LiveOf, PeersOf, Types, QueuesOK, Registered

\* A peer that is heard after a step, its record and runtime unchanged, was heard before.
LEMMA HeardAfter ==
    ASSUME NEW p \in Peer, peer'[p] = peer[p], Heard(p)',
           runtime'[peer[p].client] = runtime[peer[p].client]
    PROVE  Heard(p)
  BY DEF Heard, Live, Registered, Running

\* A link nothing is sent on
LEMMA SameLink ==
    ASSUME Types, AnswerInv, NEW p \in Peer, Heard(p), down'[p] = down[p],
           peer'[p].client = peer[p].client, peer'[p].slot = peer[p].slot,
           runtime'[peer[p].client].accepted = runtime[peer[p].client].accepted,
           runtime'[peer[p].client].slot = runtime[peer[p].client].slot,
           runtime'[peer[p].client].state = runtime[peer[p].client].state,
           InStarted(p)' => InStarted(p), InFull(p)' => InFull(p)
    PROVE  Answered(p)'
  <1>1. AnsweredBy(down[p], runtime[peer[p].client], peer[p].slot, InStarted(p), InFull(p))
    BY HeardFacts
  <1>2. AnsweredBy(down[p], runtime'[peer[p].client], peer[p].slot, InStarted(p)', InFull(p)')
    BY <1>1, Flags, KeepsAnswered
  <1>3. AnsweredBy(down'[p], runtime'[peer'[p].client], peer'[p].slot, InStarted(p)', InFull(p)')
    BY <1>2
  <1> QED BY <1>3 DEF Answered

\* A link one message is sent on
LEMMA OneSent ==
    ASSUME Types, AnswerInv, NEW p \in Peer, Heard(p), NEW m \in DownMessage,
           down'[p] = Append(down[p], m),
           peer'[p] = peer[p], runtime'[peer[p].client] = runtime[peer[p].client],
           m.kind # "welcome", m.kind = "start" => m.slot = peer[p].slot,
           InStarted(p)' => InStarted(p) \/ m.kind = "start",
           InFull(p)' => Releases(m) \/ (InFull(p) /\ m.kind # "disconnect")
    PROVE  Answered(p)'
  <1>1. /\ AnsweredBy(down[p], runtime[peer[p].client], peer[p].slot, InStarted(p), InFull(p))
        /\ down[p] \in Seq(DownMessage)
    BY HeardFacts
  <1>2. AnsweredBy(Append(down[p], m), runtime[peer[p].client], peer[p].slot, InStarted(p)', InFull(p)')
    BY <1>1, Flags, SentAnswered
  <1>3. AnsweredBy(down'[p], runtime'[peer'[p].client], peer'[p].slot, InStarted(p)', InFull(p)')
    BY <1>2
  <1> QED BY <1>3 DEF Answered

\* A room state names every seat when none is free.
LEMMA FullState ==
    /\ FreeSlots = {} => Releases(StateOf(seat))
    /\ FreeSlots' = {} => Releases(StateOf(seat'))
    /\ \A seats : StateOf(seats).kind = "state" /\ StateOf(seats) \in DownMessage
  BY MessageFacts DEF FreeSlots, StateOf, Releases

\* The relay says no.
LEMMA RefuseAnswer ==
    ASSUME Types, AnswerInv, NEW p \in Peer, Refuse(p), UNCHANGED runtime,
           NEW q \in Peer, Heard(q)'
    PROVE  Answered(q)'
  <1>0. PICK m \in DownMessage : m = [kind |-> "error"] /\ m.kind = "error"
    BY MessageFacts
  <1>1. /\ UNCHANGED <<peer, room, seat, tookOver>>
        /\ down'[q] = IF q \in {p} /\ Heard(q) THEN Append(down[q], m) ELSE down[q]
    <2>1. UNCHANGED <<peer, room, seat, tookOver>> /\ down' = Sent(down, {p}, m)
      BY <1>0 DEF Refuse, relay
    <2>2. Sent(down, {p}, m)[q] = IF q \in {p} /\ Heard(q) THEN Append(down[q], m) ELSE down[q]
      <3>1. PICK to : to = {p}
        OBVIOUS
      <3>2. Sent(down, to, m)[q] = IF q \in to /\ Heard(q) THEN Append(down[q], m) ELSE down[q]
        BY SentFacts DEF Types, QueuesOK
      <3> QED BY <3>1, <3>2
    <2> QED BY <2>1, <2>2
  <1>2. Heard(q)
    BY <1>1, HeardAfter
  <1>3. (InStarted(q)' <=> InStarted(q)) /\ (InFull(q)' <=> InFull(q))
    BY <1>1 DEF InStarted, InFull, FreeSlots, Seated
  <1>4. CASE q = p
    BY <1>0, <1>1, <1>2, <1>3, <1>4, OneSent
  <1>5. CASE q # p
    BY <1>1, <1>2, <1>3, <1>5, SameLink
  <1> QED BY <1>4, <1>5

\* A player's own steps leave what its link holds for it.
LEMMA PlayerAnswer ==
    ASSUME Types, AnswerInv, NEW c \in Player,
           \/ GoOffline(c) \/ GoOnline(c) \/ Rebind(c) \/ SendReady(c) \/ Timeout(c)
           \/ DeadlineExpires(c),
           NEW q \in Peer, Heard(q)'
    PROVE  Answered(q)'
  <1>1. UNCHANGED <<room, seat, tookOver>>
    BY DEF GoOffline, GoOnline, Rebind, SendReady, Timeout, DeadlineExpires, relay
  <1>2. (InStarted(q)' <=> InStarted(q)) /\ (InFull(q)' <=> InFull(q))
    BY <1>1 DEF InStarted, InFull, FreeSlots, Seated
  <1>3. CASE UNCHANGED <<runtime, peer, down>>
    BY <1>2, <1>3, HeardAfter, SameLink
  <1>4. CASE GoOffline(c) \/ GoOnline(c)
    BY <1>3, <1>4 DEF GoOffline, GoOnline, relay
  <1>5. ASSUME NEW link \in {"stale", "gone"}, Relinked(c, link),
               \A d \in Player \ {c} : runtime'[d] = runtime[d]
        PROVE  Answered(q)'
    <2>1. q \notin PeersOf(c)
      BY <1>5, RelinkedLive DEF Heard
    <2>2. peer'[q] = peer[q] /\ down'[q] = down[q]
      BY <1>5, <2>1, RelinkedLive
    <2>3. q \in Registered /\ peer[q].client # c
      BY <2>1, <2>2 DEF Heard, Live, Registered, PeersOf
    <2>4. runtime'[peer[q].client] = runtime[peer[q].client]
      BY <1>5, <2>3, PeerFacts
    <2> QED BY <1>2, <2>2, <2>4, HeardAfter, SameLink
  <1>6. CASE Rebind(c)
    BY <1>5, <1>6 DEF Rebind
  <1>7. ASSUME Fails(c), UNCHANGED peer
        PROVE  Answered(q)'
    <2>1. runtime'[c].failed /\ \A d \in Player \ {c} : runtime'[d] = runtime[d]
      BY <1>7 DEF Fails, Types, Fresh
    <2>2. q \in Registered /\ peer[q].client # c
      BY <1>7, <2>1 DEF Heard, Live, Registered, Running
    <2>3. runtime'[peer[q].client] = runtime[peer[q].client]
      BY <2>1, <2>2, PeerFacts
    <2>4. down'[q] = down[q]
      BY <1>7, <2>2 DEF Fails, PeersOf
    <2> QED BY <1>2, <1>7, <2>3, <2>4, HeardAfter, SameLink
  <1>8. CASE DeadlineExpires(c)
    BY <1>7, <1>8 DEF DeadlineExpires, relay
  <1>9. CASE Timeout(c)
    <2>1. CASE runtime[c].slot = None
      BY <1>7, <1>9, <2>1 DEF Timeout
    <2>2. CASE runtime[c].slot # None
      <3>1. /\ runtime' = [runtime EXCEPT ![c] = [Fresh EXCEPT !.state = "self", !.slot = runtime[c].slot]]
            /\ Relinked(c, "stale")
        BY <1>9, <2>2 DEF Timeout
      <3>2. \A d \in Player \ {c} : runtime'[d] = runtime[d]
        BY <3>1 DEF Types
      <3> QED BY <1>5, <3>1, <3>2
    <2> QED BY <2>1, <2>2
  <1>10. CASE SendReady(c)
    <2>1. /\ runtime' = [runtime EXCEPT ![c].sentReady = TRUE] /\ UNCHANGED <<peer, down>>
      BY <1>10 DEF SendReady, relay
    <2>2. \A d \in Player : /\ runtime'[d].accepted = runtime[d].accepted
                            /\ runtime'[d].slot = runtime[d].slot
                            /\ runtime'[d].state = runtime[d].state
                            /\ runtime'[d].failed = runtime[d].failed
      BY <2>1 DEF Types, RuntimeRecord
    <2>3. q \in Registered
      BY <2>1 DEF Heard, Live, Registered
    <2>4. peer[q].client \in Player
      BY <2>3, PeerFacts
    <2>5. Heard(q)
      BY <2>1, <2>2, <2>4 DEF Heard, Live, Registered, Running
    <2> QED BY <1>2, <2>1, <2>2, <2>4, <2>5, SameLink
  <1> QED BY <1>4, <1>6, <1>8, <1>9, <1>10

\* The two ways a player takes a message from a link
LEMMA WelcomeLink ==
    ASSUME NEW c \in Player, NEW p \in Peer, down[p] \in Seq(DownMessage), down[p] # << >>,
           AnsweredBy(down[p], runtime[c], peer[p].slot, InStarted(p), InFull(p)),
           down[p][1].kind = "welcome", runtime'[c].accepted,
           runtime'[c].slot = runtime[c].slot, runtime'[c].state = runtime[c].state
    PROVE  AnsweredBy(Tail(down[p]), runtime'[c], peer[p].slot, InStarted(p), InFull(p))
  <1>1. PICK q, r, r2, s, st, fu :
          /\ q = down[p] /\ r = runtime[c] /\ r2 = runtime'[c] /\ s = peer[p].slot
          /\ st = InStarted(p) /\ fu = InFull(p)
    OBVIOUS
  <1>2. /\ q \in Seq(DownMessage) /\ st \in BOOLEAN /\ fu \in BOOLEAN
        /\ q # << >> /\ AnsweredBy(q, r, s, st, fu) /\ q[1].kind = "welcome"
        /\ r2.accepted /\ r2.slot = r.slot /\ r2.state = r.state
    BY <1>1, Flags
  <1>3. AnsweredBy(Tail(q), r2, s, st, fu)
    BY <1>2, WelcomeAnswered
  <1> QED BY <1>1, <1>3

\* Taking the first message of a link leaves a true account of the rest.
LEMMA TakenLink ==
    ASSUME NEW c \in Player, NEW p \in Peer, down[p] \in Seq(DownMessage), down[p] # << >>,
           AnsweredBy(down[p], runtime[c], peer[p].slot, InStarted(p), InFull(p)),
           down[p][1].kind # "welcome", runtime'[c].accepted = runtime[c].accepted,
           IF down[p][1].kind = "start" THEN runtime'[c].slot = down[p][1].slot
                                        ELSE runtime'[c].slot = runtime[c].slot,
           (down[p][1].kind # "disconnect" /\ runtime[c].state # "waiting") =>
             runtime'[c].state # "waiting",
           Releases(down[p][1]) => runtime'[c].state # "waiting"
    PROVE  AnsweredBy(Tail(down[p]), runtime'[c], peer[p].slot, InStarted(p), InFull(p))
  <1>1. PICK q, r, r2, s, st, fu :
          /\ q = down[p] /\ r = runtime[c] /\ r2 = runtime'[c] /\ s = peer[p].slot
          /\ st = InStarted(p) /\ fu = InFull(p)
    OBVIOUS
  <1>2. /\ q \in Seq(DownMessage) /\ st \in BOOLEAN /\ fu \in BOOLEAN
        /\ q # << >> /\ AnsweredBy(q, r, s, st, fu) /\ q[1].kind # "welcome"
        /\ r2.accepted = r.accepted
        /\ IF q[1].kind = "start" THEN r2.slot = q[1].slot ELSE r2.slot = r.slot
        /\ (q[1].kind # "disconnect" /\ r.state # "waiting") => r2.state # "waiting"
        /\ Releases(q[1]) => r2.state # "waiting"
    BY <1>1, Flags
  <1>3. AnsweredBy(Tail(q), r2, s, st, fu)
    BY <1>2, TakenAnswered
  <1> QED BY <1>1, <1>3

\* So every step that takes a message from the relay keeps what the links hold.
LEMMA ReceiveAnswer ==
    ASSUME Types, AskInv, AnswerInv, NEW c \in Player, NEW p \in Peer,
           \/ RecvWelcome(c, p) \/ RecvError(c, p) \/ RecvRoomState(c, p)
           \/ RecvRoomStart(c, p) \/ RecvPeerDisconnect(c, p),
           NEW q \in Peer, Heard(q)'
    PROVE  Answered(q)'
  <1>0. PICK kind : Receives(c, p, kind)
    BY DEF RecvWelcome, RecvError, RecvRoomState, RecvRoomStart, RecvPeerDisconnect
  <1>1. /\ Head(down[p]) \in DownMessage /\ down[p] # << >> /\ Head(down[p]) = down[p][1]
        /\ p \in Registered /\ peer[p].client = c /\ Live(p) /\ Heard(p) /\ p \in LiveOf(c)
        /\ UNCHANGED <<peer, room, seat, tookOver>>
        /\ Consumed(p) => \A x \in Peer : down'[x] = IF x = p THEN Tail(down[x]) ELSE down[x]
    BY <1>0, ReceivesFacts DEF Types, LiveOf, PeersOf
  <1>2. (InStarted(q)' <=> InStarted(q)) /\ (InFull(q)' <=> InFull(q))
    BY <1>1 DEF InStarted, InFull, FreeSlots, Seated
  <1>3. ASSUME Fails(c)
        PROVE  Answered(q)'
    <2>1. runtime'[c].failed /\ \A d \in Player \ {c} : runtime'[d] = runtime[d]
      BY <1>3 DEF Fails, Types, Fresh
    <2>2. q \in Registered /\ peer[q].client # c
      BY <1>1, <2>1 DEF Heard, Live, Registered, Running
    <2>3. runtime'[peer[q].client] = runtime[peer[q].client]
      BY <2>1, <2>2, PeerFacts
    <2>4. down'[q] = down[q]
      BY <1>3, <2>2 DEF Fails, PeersOf
    <2> QED BY <1>1, <1>2, <2>3, <2>4, HeardAfter, SameLink
  <1>4. ASSUME Consumed(p), q # p, \A d \in Player \ {c} : runtime'[d] = runtime[d]
        PROVE  Answered(q)'
    <2>1. q \in Registered /\ Live(q)
      BY <1>1 DEF Heard, Live, Registered
    <2>2. peer[q].client # c
      BY <1>1, <1>4, <2>1, PeerFacts DEF AskInv, OneLink, LiveOf, PeersOf
    <2>3. runtime'[peer[q].client] = runtime[peer[q].client]
      BY <1>4, <2>1, <2>2, PeerFacts
    <2> QED BY <1>1, <1>2, <1>4, <2>3, HeardAfter, SameLink
  <1>5. /\ AnsweredBy(down[p], runtime[c], peer[p].slot, InStarted(p), InFull(p))
        /\ AskedBy(up[c], runtime[c], Free(c)) /\ down[p] \in Seq(DownMessage)
    BY <1>1, HeardFacts DEF AskInv
  <1>6. ASSUME q = p, Consumed(p),
               AnsweredBy(Tail(down[p]), runtime'[c], peer[p].slot, InStarted(p), InFull(p))
        PROVE  Answered(q)'
    <2>1. AnsweredBy(Tail(down[p]), runtime'[c], peer[p].slot, InStarted(p)', InFull(p)')
      BY <1>2, <1>6, Flags, KeepsAnswered
    <2>2. AnsweredBy(down'[p], runtime'[peer'[p].client], peer'[p].slot, InStarted(p)', InFull(p)')
      BY <1>1, <1>6, <2>1
    <2> QED BY <1>6, <2>2 DEF Answered
  <1>7. CASE RecvWelcome(c, p)
    <2>1. /\ down[p][1].kind = "welcome" /\ Consumed(p)
          /\ runtime' = [runtime EXCEPT ![c].accepted = TRUE]
      BY <1>1, <1>7 DEF RecvWelcome, Receives
    <2>2. /\ runtime'[c].accepted /\ runtime'[c].slot = runtime[c].slot
          /\ runtime'[c].state = runtime[c].state
          /\ \A d \in Player \ {c} : runtime'[d] = runtime[d]
      BY <2>1 DEF Types, RuntimeRecord
    <2>3. AnsweredBy(Tail(down[p]), runtime'[c], peer[p].slot, InStarted(p), InFull(p))
      BY <1>1, <1>5, <2>1, <2>2, WelcomeLink
    <2> QED BY <1>4, <1>6, <2>1, <2>2, <2>3
  <1>8. CASE RecvError(c, p)
    BY <1>3, <1>8 DEF RecvError
  <1>9. CASE RecvRoomState(c, p)
    <2>1. /\ down[p][1].kind = "state" /\ Consumed(p)
          /\ runtime' = [runtime EXCEPT ![c].joined = TRUE,
               ![c].state = IF runtime[c].slot \in Head(down[p]).taken THEN "idle" ELSE @]
      BY <1>1, <1>9 DEF RecvRoomState, Receives
    <2>2. /\ runtime'[c].accepted = runtime[c].accepted /\ runtime'[c].slot = runtime[c].slot
          /\ runtime'[c].state = IF runtime[c].slot \in down[p][1].taken THEN "idle"
                                 ELSE runtime[c].state
          /\ \A d \in Player \ {c} : runtime'[d] = runtime[d]
          /\ runtime[c].slot \in Slot \cup {None}
      BY <1>1, <2>1 DEF Types, RuntimeRecord
    <2>3. Releases(down[p][1]) => runtime'[c].state # "waiting"
      <3>1. runtime[c].slot = None => runtime[c].state = "idle"
        BY <1>5 DEF AskedBy
      <3> QED BY <2>1, <2>2, <3>1 DEF Releases
    <2>4. runtime[c].state # "waiting" => runtime'[c].state # "waiting"
      BY <2>2
    <2>5. AnsweredBy(Tail(down[p]), runtime'[c], peer[p].slot, InStarted(p), InFull(p))
      <3>1. /\ down[p][1].kind # "welcome" /\ down[p][1].kind # "start"
            /\ runtime'[c].accepted = runtime[c].accepted /\ runtime'[c].slot = runtime[c].slot
        BY <2>1, <2>2
      <3> QED BY <1>1, <1>5, <2>3, <2>4, <3>1, TakenLink
    <2> QED BY <1>4, <1>6, <2>1, <2>2, <2>5
  <1>10. CASE RecvRoomStart(c, p)
    <2>1. /\ down[p][1].kind = "start" /\ Consumed(p)
          /\ runtime' = [runtime EXCEPT ![c].slot = Head(down[p]).slot, ![c].state = "idle",
                                        ![c].sentReady = TRUE]
      BY <1>1, <1>10 DEF RecvRoomStart, Receives
    <2>2. /\ runtime'[c].accepted = runtime[c].accepted /\ runtime'[c].slot = down[p][1].slot
          /\ runtime'[c].state = "idle"
          /\ \A d \in Player \ {c} : runtime'[d] = runtime[d]
      BY <1>1, <2>1 DEF Types, RuntimeRecord
    <2>3. AnsweredBy(Tail(down[p]), runtime'[c], peer[p].slot, InStarted(p), InFull(p))
      BY <1>1, <1>5, <2>1, <2>2, TakenLink
    <2> QED BY <1>4, <1>6, <2>1, <2>2, <2>3
  <1>11. CASE RecvPeerDisconnect(c, p)
    <2>1. CASE runtime[c].slot = None
      BY <1>3, <1>11, <2>1 DEF RecvPeerDisconnect
    <2>2. CASE runtime[c].slot # None
      <3>1. /\ down[p][1].kind = "disconnect" /\ Consumed(p)
            /\ runtime' = [runtime EXCEPT ![c].state = "waiting"]
        BY <1>1, <1>11, <2>2 DEF RecvPeerDisconnect, Receives
      <3>2. /\ runtime'[c].accepted = runtime[c].accepted /\ runtime'[c].slot = runtime[c].slot
            /\ \A d \in Player \ {c} : runtime'[d] = runtime[d]
            /\ ~Releases(down[p][1])
        BY <3>1 DEF Types, RuntimeRecord, Releases
      <3>3. AnsweredBy(Tail(down[p]), runtime'[c], peer[p].slot, InStarted(p), InFull(p))
        BY <1>1, <1>5, <3>1, <3>2, TakenLink
      <3> QED BY <1>4, <1>6, <3>1, <3>2, <3>3
    <2> QED BY <2>1, <2>2
  <1> QED BY <1>7, <1>8, <1>9, <1>10, <1>11

\* A hello keeps what the links hold: the new one starts with a welcome.
LEMMA HelloAnswer ==
    ASSUME Types, Tables, AskInv, AnswerInv, NEW c \in Player, HandleHello(c),
           NEW q \in Peer, Heard(q)'
    PROVE  Answered(q)'
  <1>1. PICK p \in Peer \ Registered :
          /\ LiveOf(c)' = {p} /\ peer'[p].slot = None /\ peer'[p].client = c
          /\ down'[p] = <<[kind |-> "welcome"]>>
          /\ \A x \in Peer \ {p} : peer'[x] = peer[x] /\ down'[x] = down[x]
          /\ UNCHANGED <<runtime, room, seat, tookOver>>
    BY HelloLive
  <1>2. (InStarted(q)' <=> InStarted(q)) /\ (InFull(q)' <=> InFull(q))
    BY <1>1 DEF InStarted, InFull, FreeSlots, Seated
  <1>3. CASE q = p
    <2>1. q \notin Seated(seat)
      BY <1>1, <1>3, SeatedFacts
    <2>2. ~InStarted(q)' /\ ~InFull(q)'
      BY <1>2, <2>1 DEF InStarted, InFull
    <2>3. ~runtime[c].accepted
      BY DEF HandleHello
    <2>4. PICK m \in DownMessage : m = [kind |-> "welcome"] /\ m.kind = "welcome"
      BY MessageFacts
    <2>5. /\ <<m>> # << >> /\ <<m>>[1] = m /\ Tail(<<m>>) = << >> /\ Len(<<m>>) = 1 /\ Len(<< >>) = 0
      OBVIOUS
    <2>6. NoKind(Tail(<<m>>), "welcome") /\ StartsFor(<<m>>, None)
      BY <2>4, <2>5 DEF NoKind, StartsFor
    <2>7. AnsweredBy(<<m>>, runtime[c], None, InStarted(q)', InFull(q)')
      BY <2>2, <2>3, <2>4, <2>5, <2>6 DEF AnsweredBy
    <2>8. AnsweredBy(down'[q], runtime'[peer'[q].client], peer'[q].slot, InStarted(q)', InFull(q)')
      BY <1>1, <1>3, <2>4, <2>7
    <2> QED BY <2>8 DEF Answered
  <1>4. CASE q # p
    BY <1>1, <1>2, <1>4, HeardAfter, SameLink
  <1> QED BY <1>3, <1>4

\* A player who is given a seat was given it as it asked.
LEMMA NewSeat ==
    ASSUME Types, AnswerInv, NEW p \in Peer, Heard(p), NEW s \in Slot, peer[p].slot = None,
           runtime[peer[p].client].slot # None => runtime[peer[p].client].slot = s
    PROVE  AnsweredBy(down[p], runtime[peer[p].client], s, FALSE, FALSE)
  <1>1. /\ AnsweredBy(down[p], runtime[peer[p].client], None, InStarted(p), InFull(p))
        /\ down[p] \in Seq(DownMessage)
    BY HeardFacts
  <1> QED BY <1>1, Flags, SeatedAnswered

\* What a player asked for
LEMMA AskFacts ==
    ASSUME Types, AskInv, NEW c \in Player, NEW p \in Peer, NEW kind, Takes(c, p, kind),
           Heard(p)
    PROVE  /\ peer[p].client = c /\ p \in Registered
           /\ kind = "create" => peer[p].slot = None /\ runtime[c].slot = None
           /\ kind = "join" => peer[p].slot = None /\ runtime[c].slot = Head(up[c]).token
  <1>1. /\ peer[p].client = c /\ p \in Registered /\ Live(p)
        /\ up[c] # << >> /\ Head(up[c]) = up[c][1] /\ Head(up[c]).kind = kind
    BY TakesFacts DEF Types
  <1>2. p \in LiveOf(c) /\ Running(c)
    BY <1>1 DEF LiveOf, PeersOf, Heard
  <1>3. AskedBy(up[c], runtime[c], Free(c))
    BY <1>2 DEF AskInv
  <1> QED BY <1>1, <1>2, <1>3 DEF AskedBy, Free

\* Creating the room keeps what the links hold.
LEMMA CreateAnswer ==
    ASSUME Types, Tables, AskInv, AnswerInv, NEW c \in Player, NEW p \in Peer, HandleCreate(c, p),
           NEW q \in Peer, Heard(q)'
    PROVE  Answered(q)'
  <1>1. /\ Takes(c, p, "create") /\ room = "none" /\ room' = "lobby" /\ seat' = [seat EXCEPT ![0] = p]
        /\ peer' = [peer EXCEPT ![p].slot = 0] /\ down' = BroadcastState(down, seat')
        /\ UNCHANGED tookOver
    BY DEF HandleCreate
  <1>2. p \in Registered /\ peer[p].client = c /\ UNCHANGED runtime
    BY <1>1, TakesFacts DEF Types
  <1>3. /\ peer'[p].slot = 0 /\ peer'[p].client = c /\ (Live(p)' <=> Live(p))
        /\ \A x \in Peer \ {p} : peer'[x] = peer[x]
    BY <1>1, <1>2, Numbers, SeatedLive
  <1>4. down'[q] = IF q \in Seated(seat') /\ Heard(q) THEN Append(down[q], StateOf(seat')) ELSE down[q]
    BY <1>1, BroadcastStateFacts DEF Types, QueuesOK
  <1>5. ~InStarted(q)'
    BY <1>1 DEF InStarted
  <1>6. Seated(seat') = {p}
    <2>1. \A s \in Slot : seat[s] = None
      BY <1>1 DEF Tables, RoomInv, Open
    <2>2. seat'[0] = p /\ \A s \in Slot \ {0} : seat'[s] = None
      BY <1>1, <2>1, Numbers DEF Types
    <2>3. p # None /\ None \notin Peer
      BY RelayNoneAssumption
    <2> QED BY <2>2, <2>3, Numbers DEF Seated
  <1>7. CASE q = p
    <2>1. Heard(p)
      BY <1>2, <1>3, <1>7 DEF Heard, Running
    <2>2. peer[p].slot = None /\ runtime[c].slot = None
      BY <1>1, <2>1, AskFacts
    <2>3. AnsweredBy(down[p], runtime[c], 0, FALSE, FALSE) /\ down[p] \in Seq(DownMessage)
      BY <1>2, <2>1, <2>2, Numbers, NewSeat, HeardFacts
    <2>4. InFull(p)' => Releases(StateOf(seat'))
      BY FullState DEF InFull
    <2>5. AnsweredBy(Append(down[p], StateOf(seat')), runtime[c], 0, InStarted(p)', InFull(p)')
      <3>1. PICK m \in DownMessage : m = StateOf(seat') /\ m.kind = "state"
        BY FullState
      <3>2. AnsweredBy(Append(down[p], m), runtime[c], 0, InStarted(p)', InFull(p)')
        BY <1>5, <1>7, <2>3, <2>4, <3>1, Flags, SentAnswered
      <3> QED BY <3>1, <3>2
    <2>6. AnsweredBy(down'[q], runtime'[peer'[q].client], peer'[q].slot, InStarted(q)', InFull(q)')
      BY <1>2, <1>3, <1>4, <1>6, <1>7, <2>1, <2>5
    <2> QED BY <2>6 DEF Answered
  <1>8. CASE q # p
    <2>1. ~InFull(q)' /\ down'[q] = down[q] /\ peer'[q] = peer[q]
      BY <1>3, <1>4, <1>6, <1>8 DEF InFull
    <2> QED BY <1>2, <1>5, <2>1, HeardAfter, SameLink
  <1> QED BY <1>7, <1>8

\* A join keeps what the links hold: the new seat is told state and start.
LEMMA JoinAnswer ==
    ASSUME Types, Tables, AskInv, AnswerInv, NEW c \in Player, NEW p \in Peer, HandleJoin(c, p),
           NEW q \in Peer, Heard(q)'
    PROVE  Answered(q)'
  <1>0. Takes(c, p, "join")
    BY DEF HandleJoin
  <1>1. UNCHANGED runtime /\ peer[p].client = c
    BY <1>0, TakesFacts DEF Types
  <1>2. CASE Refuse(p)
    BY <1>1, <1>2, RefuseAnswer
  <1>3. CASE ~Refuse(p)
    <2>1. PICK s \in Slot :
            /\ p \in Registered /\ peer[p].slot = None /\ UNCHANGED room
            /\ Head(up[c]).token # None => s = Head(up[c]).token
            /\ seat' = [seat EXCEPT ![s] = p]
            /\ peer' = [peer EXCEPT ![p].slot = s]
            /\ \A x \in Peer : down'[x] =
                 IF x \in Seated(seat') /\ Heard(x)
                 THEN IF room = "started" /\ x = p
                      THEN Append(Append(down[x], StateOf(seat')), StartOf(s))
                      ELSE Append(down[x], StateOf(seat'))
                 ELSE down[x]
      BY <1>3, JoinFacts
    <2>2. /\ peer'[p].slot = s /\ peer'[p].client = c /\ (Live(p)' <=> Live(p))
          /\ \A x \in Peer \ {p} : peer'[x] = peer[x]
      BY <1>1, <2>1, SeatedLive
    <2>3. \A x : InFull(x)' => Releases(StateOf(seat'))
      BY FullState DEF InFull
    <2>4. PICK m \in DownMessage : m = StateOf(seat') /\ m.kind = "state"
      BY FullState
    <2>5. \A t \in Slot : seat'[t] = IF t = s THEN p ELSE seat[t]
      BY <2>1 DEF Types
    <2>6. CASE q # p
      <3>1. Heard(q) /\ peer'[q] = peer[q]
        BY <1>1, <2>2, <2>6, HeardAfter
      <3>2. q \in Seated(seat') => q \in Seated(seat)
        BY <2>5, <2>6 DEF Seated
      <3>3. InStarted(q)' => InStarted(q)
        BY <2>1, <3>2 DEF InStarted
      <3>4. CASE q \in Seated(seat')
        <4>1. down'[q] = Append(down[q], m)
          BY <2>1, <2>4, <2>6, <3>1, <3>4
        <4> QED BY <1>1, <2>3, <2>4, <3>1, <3>3, <4>1, OneSent
      <3>5. CASE q \notin Seated(seat')
        <4>1. down'[q] = down[q] /\ ~InFull(q)'
          BY <2>1, <3>5 DEF InFull
        <4> QED BY <1>1, <3>1, <3>3, <4>1, SameLink
      <3> QED BY <3>4, <3>5
    <2>7. CASE q = p
      <3>1. Heard(p)
        BY <1>1, <2>2, <2>7 DEF Heard, Running
      <3>2. runtime[c].slot = Head(up[c]).token
        BY <1>0, <3>1, AskFacts
      <3>3. AnsweredBy(down[p], runtime[c], s, FALSE, FALSE) /\ down[p] \in Seq(DownMessage)
        BY <1>1, <2>1, <3>1, <3>2, NewSeat, HeardFacts
      <3>4. p \in Seated(seat')
        BY <2>5 DEF Seated
      <3>0. PICK no \in BOOLEAN : no = FALSE
        OBVIOUS
      <3>5. AnsweredBy(Append(down[p], m), runtime[c], s, no, InFull(p)')
            /\ Append(down[p], m) \in Seq(DownMessage)
        <4>1. AnsweredBy(down[p], runtime[c], s, no, no)
          BY <3>0, <3>3
        <4> QED BY <2>3, <2>4, <3>0, <3>3, <4>1, Flags, SentAnswered, AppendFacts
      <3>6. AnsweredBy(down'[p], runtime[c], s, InStarted(p)', InFull(p)')
        <4>1. CASE room = "started"
          <5>1. PICK n \in DownMessage : n = StartOf(s) /\ n.kind = "start" /\ n.slot = s
            BY MessageFacts DEF StartOf
          <5>2. Releases(n)
            BY <5>1 DEF Releases
          <5>3. AnsweredBy(Append(Append(down[p], m), n), runtime[c], s, InStarted(p)', InFull(p)')
            BY <3>5, <5>1, <5>2, Flags, SentAnswered
          <5>4. down'[p] = Append(Append(down[p], m), n)
            BY <2>1, <2>4, <3>1, <3>4, <4>1, <5>1
          <5> QED BY <5>3, <5>4
        <4>2. CASE room # "started"
          <5>1. ~InStarted(p)'
            BY <2>1, <4>2 DEF InStarted
          <5>2. down'[p] = Append(down[p], m)
            BY <2>1, <2>4, <3>1, <3>4, <4>2
          <5>3. AnsweredBy(Append(down[p], m), runtime[c], s, InStarted(p)', InFull(p)')
            BY <3>0, <3>5, <5>1, Flags, KeepsAnswered
          <5> QED BY <5>2, <5>3
        <4> QED BY <4>1, <4>2
      <3>7. AnsweredBy(down'[q], runtime'[peer'[q].client], peer'[q].slot, InStarted(q)', InFull(q)')
        BY <1>1, <2>2, <2>7, <3>6
      <3> QED BY <3>7 DEF Answered
    <2> QED BY <2>6, <2>7
  <1> QED BY <1>2, <1>3

\* A ready keeps what the links hold: the start reaches every seat.
LEMMA ReadyAnswer ==
    ASSUME Types, Tables, AnswerInv, NEW c \in Player, NEW p \in Peer, HandleReady(c, p),
           NEW q \in Peer, Heard(q)'
    PROVE  Answered(q)'
  <1>1. UNCHANGED runtime
    BY TakesFacts DEF HandleReady, Types
  <1>2. CASE Refuse(p)
    BY <1>1, <1>2, RefuseAnswer
  <1>3. CASE ~Refuse(p)
    <2>1. UNCHANGED <<peer, seat, tookOver>>
      BY <1>3, ReadyFacts DEF Tables
    <2>2. Heard(q) /\ peer'[q] = peer[q]
      BY <1>1, <2>1, HeardAfter
    <2>3. InFull(q)' <=> InFull(q)
      BY <2>1 DEF InFull, FreeSlots, Seated
    <2>4. InFull(q)' => Releases(StateOf(seat))
      BY <2>3, FullState DEF InFull
    <2>5. PICK m \in DownMessage : m = StateOf(seat) /\ m.kind = "state"
      BY FullState
    <2>6. CASE q \notin Seated(seat)
      <3>1. down'[q] = down[q]
        BY <1>3, <2>6, ReadyFacts DEF Tables
      <3>2. ~InStarted(q)' /\ ~InFull(q)'
        BY <2>1, <2>6 DEF InStarted, InFull
      <3> QED BY <1>1, <2>2, <3>1, <3>2, SameLink
    <2>7. CASE q \in Seated(seat)
      <3>1. CASE room' = room /\ down'[q] = Append(down[q], m)
        <4>1. InStarted(q)' => InStarted(q)
          BY <2>1, <3>1 DEF InStarted
        <4> QED BY <1>1, <2>2, <2>4, <2>5, <3>1, <4>1, OneSent
      <3>2. CASE down'[q] = Append(Append(down[q], StartOf(peer[q].slot)), m)
        <4>1. peer[q].slot \in Slot
          BY <2>7, SeatedFacts
        <4>2. PICK n \in DownMessage : n = StartOf(peer[q].slot) /\ n.kind = "start" /\ n.slot = peer[q].slot
          BY <4>1, MessageFacts DEF StartOf
        <4>3. Releases(n)
          BY <4>2 DEF Releases
        <4>4. /\ AnsweredBy(down[q], runtime[peer[q].client], peer[q].slot, InStarted(q), InFull(q))
              /\ down[q] \in Seq(DownMessage)
          BY <2>2, HeardFacts
        <4>0. PICK yes \in BOOLEAN : yes = TRUE
          OBVIOUS
        <4>5. AnsweredBy(Append(down[q], n), runtime[peer[q].client], peer[q].slot, yes, yes)
              /\ Append(down[q], n) \in Seq(DownMessage)
          BY <4>2, <4>3, <4>4, Flags, SentAnswered, AppendFacts
        <4>6. AnsweredBy(Append(Append(down[q], n), m), runtime[peer[q].client], peer[q].slot,
                         InStarted(q)', InFull(q)')
          BY <2>4, <2>5, <4>0, <4>5, Flags, SentAnswered
        <4>7. AnsweredBy(down'[q], runtime'[peer'[q].client], peer'[q].slot, InStarted(q)', InFull(q)')
          BY <1>1, <2>2, <3>2, <4>2, <4>6
        <4> QED BY <4>7 DEF Answered
      <3> QED BY <1>3, <2>2, <2>5, <2>7, <3>1, <3>2, ReadyFacts DEF Tables
    <2> QED BY <2>6, <2>7
  <1> QED BY <1>2, <1>3

\* A prune keeps what the links hold: those left are told of the departure.
LEMMA PruneAnswer ==
    ASSUME Types, Tables, AnswerInv, NEW p \in Peer, Prune(p), NEW q \in Peer, Heard(q)'
    PROVE  Answered(q)'
  <1>1. p \in Registered /\ peer' = [peer EXCEPT ![p] = None] /\ UNCHANGED <<runtime, tookOver>>
    BY PruneFacts
  <1>2. peer'[p] = None /\ \A x \in Peer \ {p} : peer'[x] = peer[x]
    BY <1>1 DEF Types
  <1>3. q # p /\ peer'[q] = peer[q]
    BY <1>2 DEF Heard, Live, Registered
  <1>4. Heard(q)
    BY <1>1, <1>3, HeardAfter
  <1>5. CASE (peer[p].slot = None \/ ~Open) /\ down'[q] = down[q] /\ UNCHANGED <<room, seat>>
    <2>1. (InStarted(q)' <=> InStarted(q)) /\ (InFull(q)' <=> InFull(q))
      BY <1>1, <1>5 DEF InStarted, InFull, FreeSlots, Seated
    <2> QED BY <1>1, <1>3, <1>4, <1>5, <2>1, SameLink
  <1>6. CASE /\ peer[p].slot # None /\ Open /\ seat' = SeatsWithout(p)
             /\ room' = IF \A s \in Slot : seat'[s] = None THEN "evicted" ELSE room
             /\ down'[q] = IF q \in Seated(seat') /\ Heard(q)
                           THEN Append(Append(down[q], StateOf(seat')), [kind |-> "disconnect"])
                           ELSE down[q]
    <2>1. \A s \in Slot : seat'[s] = IF seat[s] = p THEN None ELSE seat[s]
      BY <1>6 DEF SeatsWithout
    <2>2. q \in Seated(seat') => q \in Seated(seat)
      BY <2>1, RelayNoneAssumption DEF Seated
    <2>3. InStarted(q)' => InStarted(q)
      BY <1>6, <2>2 DEF InStarted
    <2>4. ~InFull(q)'
      <3> SUFFICES ASSUME InFull(q)' PROVE FALSE
        OBVIOUS
      <3>1. ~tookOver
        BY <1>1 DEF InFull
      <3>2. peer[p].slot \in Slot /\ seat[peer[p].slot] = p
        BY <1>1, <1>6, <3>1, PeerFacts DEF Tables, SeatsAgree
      <3>3. peer[p].slot \in FreeSlots'
        BY <2>1, <3>2 DEF FreeSlots
      <3> QED BY <3>3 DEF InFull
    <2>5. CASE q \notin Seated(seat')
      <3>1. down'[q] = down[q]
        BY <1>6, <2>5
      <3> QED BY <1>1, <1>3, <1>4, <2>3, <2>4, <3>1, SameLink
    <2>6. CASE q \in Seated(seat')
      <3>1. PICK m \in DownMessage : m = StateOf(seat') /\ m.kind = "state"
        BY FullState
      <3>2. PICK n \in DownMessage : n = [kind |-> "disconnect"] /\ n.kind = "disconnect"
        BY MessageFacts
      <3>3. down'[q] = Append(Append(down[q], m), n)
        BY <1>4, <1>6, <2>6, <3>1, <3>2
      <3>4. /\ AnsweredBy(down[q], runtime[peer[q].client], peer[q].slot, InStarted(q), InFull(q))
            /\ down[q] \in Seq(DownMessage)
        BY <1>4, HeardFacts
      <3>0. PICK no \in BOOLEAN : no = FALSE
        OBVIOUS
      <3>5. AnsweredBy(Append(down[q], m), runtime[peer[q].client], peer[q].slot, InStarted(q), no)
            /\ Append(down[q], m) \in Seq(DownMessage)
        BY <3>0, <3>1, <3>4, Flags, SentAnswered, AppendFacts
      <3>6. AnsweredBy(Append(Append(down[q], m), n), runtime[peer[q].client], peer[q].slot,
                       InStarted(q)', InFull(q)')
        BY <2>3, <2>4, <3>2, <3>5, Flags, SentAnswered
      <3>7. AnsweredBy(down'[q], runtime'[peer'[q].client], peer'[q].slot, InStarted(q)', InFull(q)')
        BY <1>1, <1>3, <3>3, <3>6
      <3> QED BY <3>7 DEF Answered
    <2> QED BY <2>5, <2>6
  <1> QED BY <1>3, <1>5, <1>6, PruneFacts

\* Every step keeps what each live link holds for its player.
LEMMA NextAnswer == Types /\ Tables /\ AskInv /\ AnswerInv /\ [Next]_vars => AnswerInv'
  <1> SUFFICES ASSUME Types, Tables, AskInv, AnswerInv, [Next]_vars, NEW q \in Peer, Heard(q)'
               PROVE  Answered(q)'
    BY DEF AnswerInv
  <1>1. CASE UNCHANGED vars
    <2>1. (InStarted(q)' <=> InStarted(q)) /\ (InFull(q)' <=> InFull(q))
      BY <1>1 DEF InStarted, InFull, FreeSlots, Seated, vars
    <2> QED BY <1>1, <2>1, HeardAfter, SameLink DEF vars
  <1>2. CASE Next
    BY <1>2, PlayerAnswer, ReceiveAnswer, HelloAnswer, CreateAnswer, JoinAnswer, ReadyAnswer,
       PruneAnswer DEF Next
  <1> QED BY <1>1, <1>2

-----------------------------------------------------------------------------
(***************************************************************************)
(* The theorems.                                                           *)
(***************************************************************************)
IInv == Types /\ Tables /\ AskInv /\ AnswerInv

\* The invariant the theorems rest on: the relay's tables agree, and of every
\* player that plays on a link of its own the messages under way, both ways, are
\* those its seat calls for.
THEOREM Inductive == Spec => []IInv
  <1>1. Init => IInv
    BY InitTypes, InitTables, InitAsk, InitAnswer DEF IInv
  <1>2. IInv /\ [Next]_vars => IInv'
    BY NextTypes, NextTables, NextAsk, NextAnswer DEF IInv, Tables
  <1> QED BY <1>1, <1>2, PTL DEF Spec

\* The runtimes, the relay's tables and the queues are of their types.
THEOREM TypeCorrect == Spec => []TypeOK
  <1>1. IInv => TypeOK
    BY TypesSuffice DEF IInv
  <1> QED BY <1>1, Inductive, PTL

\* A seat names a registered peer that has this seat, and a peer with a seat of
\* the open room holds it unless a token took a seat over (_disconnect_peer,
\* _handle_room_join).
THEOREM TablesAgree == Spec => []SeatsAgree
  <1>1. IInv => SeatsAgree
    BY DEF IInv, Tables
  <1> QED BY <1>1, Inductive, PTL

\* A player that was told everything in a seat of a started room has started in
\* that seat, whether it was ready last, came late or came back.
THEOREM NobodyMissesTheStart == Spec => []StartReaches
  <1>1. IInv => StartReaches
    <2> SUFFICES ASSUME IInv, NEW c \in Player, NEW p \in LiveOf(c), NEW s \in Slot,
                        room = "started", seat[s] = p, down[p] = << >>, Running(c)
                 PROVE  runtime[c].slot = s
      BY DEF StartReaches
    <2>1. p \in Peer /\ peer[p].client = c /\ Heard(p)
      BY DEF LiveOf, PeersOf, Registered, Heard
    <2>2. AnsweredBy(down[p], runtime[c], peer[p].slot, InStarted(p), InFull(p))
      BY <2>1, HeardFacts DEF IInv
    <2>3. peer[p].slot = s
      BY <2>1, RelayNoneAssumption DEF IInv, Tables, SeatsAgree
    <2>4. InStarted(p)
      BY <2>1 DEF InStarted, Seated
    <2>5. NoKind(down[p], "start")
      <3>1. Len(down[p]) = 0
        OBVIOUS
      <3> QED BY <3>1 DEF NoKind
    <2> QED BY <2>2, <2>3, <2>4, <2>5 DEF AnsweredBy
  <1> QED BY <1>1, Inductive, PTL

\* A player that waits and was told everything waits for a free seat, when no
\* token took over the seat of a peer that was not yet pruned.
THEOREM PausesHaveReasons == Spec => []PauseEnds
  <1>1. IInv => PauseEnds
    <2> SUFFICES ASSUME IInv, NEW c \in Player, UpToDate(c), runtime[c].state = "waiting",
                        ~tookOver, FreeSlots = {}
                 PROVE  FALSE
      BY DEF PauseEnds
    <2>1. PICK p \in LiveOf(c) : down[p] = << >> /\ seat[runtime[c].slot] = p
      BY DEF UpToDate
    <2>2. p \in Peer /\ peer[p].client = c /\ Heard(p)
      BY <2>1 DEF LiveOf, PeersOf, Registered, Heard, UpToDate
    <2>3. AnsweredBy(down[p], runtime[c], peer[p].slot, InStarted(p), InFull(p))
      BY <2>2, HeardFacts DEF IInv
    <2>4. runtime[c].slot \in Slot
      BY DEF IInv, Types, RuntimeRecord, UpToDate
    <2>5. InFull(p)
      BY <2>1, <2>2, <2>4 DEF InFull, Seated
    <2>6. ~Released(down[p])
      <3>1. Len(down[p]) = 0
        BY <2>1
      <3> QED BY <3>1 DEF Released
    <2> QED BY <2>3, <2>5, <2>6 DEF AnsweredBy
  <1> QED BY <1>1, Inductive, PTL

\* A player of a started match keeps the seat it started in, over outages, new
\* addresses and takeovers: every start it will ever be told names that seat.
THEOREM SeatIsKept == Spec => SeatKept
  <1>1. IInv /\ [Next]_vars =>
          [\A c \in Player : runtime[c].slot # None => runtime'[c].slot = runtime[c].slot]_vars
    <2> SUFFICES ASSUME IInv, Next, NEW d \in Player, runtime[d].slot # None
                 PROVE  runtime'[d].slot = runtime[d].slot
      OBVIOUS
    <2>0. Types
      BY DEF IInv
    <2>1. CASE UNCHANGED runtime
      BY <2>1
    <2>2. ASSUME NEW c \in Player, Fails(c)
          PROVE  runtime'[d].slot = runtime[d].slot
      BY <2>0, <2>2 DEF Fails, Types, Fresh
    <2>3. ASSUME NEW c \in Player, Timeout(c)
          PROVE  runtime'[d].slot = runtime[d].slot
      <3>1. CASE runtime[c].slot = None
        BY <2>2, <2>3, <3>1 DEF Timeout
      <3>2. CASE runtime[c].slot # None
        <4>1. runtime' = [runtime EXCEPT ![c] = [Fresh EXCEPT !.state = "self", !.slot = runtime[c].slot]]
          BY <2>3, <3>2 DEF Timeout
        <4> QED BY <2>0, <4>1 DEF Types, Fresh
      <3> QED BY <3>1, <3>2
    <2>4. ASSUME NEW c \in Player, SendReady(c)
          PROVE  runtime'[d].slot = runtime[d].slot
      BY <2>0, <2>4 DEF SendReady, Types, RuntimeRecord
    <2>5. ASSUME NEW c \in Player, NEW p \in Peer, RecvWelcome(c, p)
          PROVE  runtime'[d].slot = runtime[d].slot
      BY <2>0, <2>5 DEF RecvWelcome, Types, RuntimeRecord
    <2>6. ASSUME NEW c \in Player, NEW p \in Peer, RecvRoomState(c, p)
          PROVE  runtime'[d].slot = runtime[d].slot
      BY <2>0, <2>6 DEF RecvRoomState, Types, RuntimeRecord
    <2>7. ASSUME NEW c \in Player, NEW p \in Peer, RecvPeerDisconnect(c, p)
          PROVE  runtime'[d].slot = runtime[d].slot
      BY <2>0, <2>2, <2>7 DEF RecvPeerDisconnect, Types, RuntimeRecord
    <2>8. ASSUME NEW c \in Player, NEW p \in Peer, RecvRoomStart(c, p)
          PROVE  runtime'[d].slot = runtime[d].slot
      <3>1. /\ Receives(c, p, "start")
            /\ runtime' = [runtime EXCEPT ![c].slot = Head(down[p]).slot, ![c].state = "idle",
                                          ![c].sentReady = TRUE]
        BY <2>8 DEF RecvRoomStart
      <3>2. CASE d # c
        BY <2>0, <3>1, <3>2 DEF Types
      <3>3. CASE d = c
        <4>1. /\ down[p] # << >> /\ Head(down[p]) = down[p][1] /\ Head(down[p]).kind = "start"
              /\ peer[p].client = c /\ Heard(p) /\ Head(down[p]) \in DownMessage
          BY <2>0, <3>1, ReceivesFacts DEF Types
        <4>2. /\ AnsweredBy(down[p], runtime[c], peer[p].slot, InStarted(p), InFull(p))
              /\ down[p] \in Seq(DownMessage)
          BY <4>1, HeardFacts DEF IInv
        <4>3. Head(down[p]).slot = peer[p].slot
          BY <4>1, <4>2, TailFacts DEF AnsweredBy
        <4>4. Head(down[p]).slot \in Slot
          BY <4>1, MessageTypes
        <4>5. runtime[c].slot = peer[p].slot
          BY <3>3, <4>2, <4>3, <4>4, RelayNoneAssumption DEF AnsweredBy
        <4>6. runtime'[c].slot = Head(down[p]).slot
          BY <2>0, <3>1 DEF Types, RuntimeRecord
        <4> QED BY <3>3, <4>3, <4>5, <4>6
      <3> QED BY <3>2, <3>3
    <2>9. ASSUME NEW c \in Player, NEW p \in Peer,
                 HandleCreate(c, p) \/ HandleJoin(c, p) \/ HandleReady(c, p)
          PROVE  UNCHANGED runtime
      BY <2>9 DEF HandleCreate, HandleJoin, HandleReady, Takes
    <2>10. ASSUME NEW c \in Player, DeadlineExpires(c)
           PROVE  runtime'[d].slot = runtime[d].slot
      BY <2>2, <2>10 DEF DeadlineExpires
    <2>11. ASSUME NEW c \in Player, NEW p \in Peer, RecvError(c, p)
           PROVE  runtime'[d].slot = runtime[d].slot
      BY <2>2, <2>11 DEF RecvError
    <2>12. ASSUME NEW c \in Player, GoOffline(c) \/ GoOnline(c) \/ Rebind(c) \/ HandleHello(c)
           PROVE  UNCHANGED runtime
      BY <2>12 DEF GoOffline, GoOnline, Rebind, HandleHello
    <2>13. ASSUME NEW p \in Peer, Prune(p)
           PROVE  UNCHANGED runtime
      BY <2>13 DEF Prune
    <2> QED BY <2>1, <2>3, <2>4, <2>5, <2>6, <2>7, <2>8, <2>9, <2>10, <2>11, <2>12, <2>13 DEF Next
  <1> QED BY <1>1, Inductive, PTL DEF Spec, SeatKept
=============================================================================
