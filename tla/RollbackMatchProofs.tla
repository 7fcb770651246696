------------------------- MODULE RollbackMatchProofs -------------------------
(***************************************************************************)
(* Proofs about RollbackMatch, for any number of players and every value   *)
(* of the delay, the windows and the bounds.                               *)
(***************************************************************************)
EXTENDS RollbackMatch, SequenceTheorems, FiniteSetTheorems, WellFoundedInduction, TLAPS

(* Numbers, and functions defined by recursion on them.                    *)

\* A set of numbers that is not empty has a smallest one.
LEMMA LeastNumber ==
  ASSUME NEW S, S \subseteq Nat, S # {}
  PROVE  \E m \in S : \A n \in S : m <= n
  <1>1. PICK x \in S : \A y \in S : ~(<<y, x>> \in OpToRel(<, Nat))
    BY WFMin, NatLessThanWellFounded
  <1>2. ASSUME NEW y \in S PROVE x <= y
    <2>1. x \in Nat /\ y \in Nat
      OBVIOUS
    <2>2. ~(y < x)
      BY <1>1, <2>1 DEF OpToRel
    <2> QED BY <2>1, <2>2
  <1> QED BY <1>2

\* What holds of 0 and of the successor of what it holds of, holds of all.
LEMMA Counting ==
  ASSUME NEW S, 0 \in S, \A n \in Nat : n \in S => n + 1 \in S
  PROVE  Nat \subseteq S
  <1> SUFFICES ASSUME Nat \ S # {} PROVE FALSE
    OBVIOUS
  <1>1. PICK m \in Nat \ S : \A n \in Nat \ S : m <= n
    BY LeastNumber
  <1>2. m # 0 /\ m - 1 \in Nat /\ m - 1 \notin Nat \ S
    BY <1>1
  <1>3. (m - 1) + 1 \in S
    BY <1>2
  <1> QED BY <1>1, <1>2, <1>3

\* n steps that can be taken one after the other from the base, and the values
\* they give.
Walk(n, S, base, step) == n \in Nat /\ base \in S /\ step \in [1..n -> [S -> S]]
Walked(n, S, base, step) ==
  \E f \in [0..n -> S] : f[0] = base /\ \A i \in 1..n : f[i] = step[i][f[i - 1]]

\* A value computed in n steps from the one before exists.
LEMMA InSteps ==
  ASSUME NEW n, NEW S, NEW base, NEW step, Walk(n, S, base, step)
  PROVE  Walked(n, S, base, step)
  <1> USE DEF Walk, Walked
  <1> DEFINE To(m) == \E f \in [0..m -> S] :
                        f[0] = base /\ \A i \in 1..m : f[i] = step[i][f[i - 1]]
             Good == {m \in Nat : m <= n => To(m)}
  <1>1. 0 \in Good
    <2> DEFINE f == [i \in 0..0 |-> base]
    <2>1. f \in [0..0 -> S] /\ f[0] = base /\ 1..0 = {}
      OBVIOUS
    <2>2. To(0)
      <3> HIDE DEF f
      <3> QED BY <2>1
    <2> QED BY <2>2
  <1>2. ASSUME NEW m \in Nat, m \in Good PROVE m + 1 \in Good
    <2> SUFFICES ASSUME m + 1 <= n PROVE To(m + 1)
      OBVIOUS
    <2>1. PICK f \in [0..m -> S] : f[0] = base /\ \A i \in 1..m : f[i] = step[i][f[i - 1]]
      BY <1>2
    <2> DEFINE g == [i \in 0..(m + 1) |-> IF i <= m THEN f[i] ELSE step[m + 1][f[m]]]
    <2>2. step[m + 1] \in [S -> S] /\ f[m] \in S
      BY <2>1
    <2>3. g \in [0..(m + 1) -> S] /\ g[0] = base
      BY <2>1, <2>2
    <2>4. ASSUME NEW i \in 1..(m + 1) PROVE g[i] = step[i][g[i - 1]]
      <3>1. CASE i <= m
        BY <2>1, <3>1
      <3>2. CASE i = m + 1
        BY <2>1, <3>2
      <3> QED BY <3>1, <3>2
    <2> QED BY <2>3, <2>4
  <1>3. n \in Good
    <2> HIDE DEF Good
    <2> QED BY <1>1, <1>2, Counting
  <1> QED BY <1>3

\* What stays of a queue, place by place.
LEMMA OnlyInSteps ==
  ASSUME NEW T, NEW q \in Seq(T), NEW places
  PROVE  \E f \in [0..Len(q) -> Seq(T)] :
           /\ f[0] = << >> /\ Only(q, places) = f[Len(q)]
           /\ \A i \in 1..Len(q) :
                f[i] = IF i \in places THEN Append(f[i - 1], q[i]) ELSE f[i - 1]
  <1> DEFINE n == Len(q)
             kept[i \in 0..Len(q)] ==
               IF i = 0 THEN << >>
               ELSE IF i \in places THEN Append(kept[i - 1], q[i]) ELSE kept[i - 1]
             step == [i \in 1..n |-> [k \in Seq(T) |-> IF i \in places THEN Append(k, q[i]) ELSE k]]
             Body(g) == [i \in 0..n |->
               IF i = 0 THEN << >>
               ELSE IF i \in places THEN Append(g[i - 1], q[i]) ELSE g[i - 1]]
  <1>1. n \in Nat /\ \A i \in 1..n : q[i] \in T
    OBVIOUS
  <1>2. << >> \in Seq(T) /\ step \in [1..n -> [Seq(T) -> Seq(T)]]
    BY <1>1
  <1>3. PICK f \in [0..n -> Seq(T)] : f[0] = << >> /\ \A i \in 1..n : f[i] = step[i][f[i - 1]]
    <2> DEFINE S == Seq(T)  base == << >>
    <2>1. Walk(n, S, base, step)
      BY <1>1, <1>2 DEF Walk
    <2> HIDE DEF step, n, S, base
    <2>2. Walked(n, S, base, step)
      BY <2>1, InSteps, Zenon
    <2> QED BY <2>2 DEF Walked, n, S, base, step
  <1>0. \A i \in 1..n : i - 1 \in 0..n /\ i \in 0..n /\ i # 0
    BY <1>1
  <1>4. \A i \in 1..n : f[i] = IF i \in places THEN Append(f[i - 1], q[i]) ELSE f[i - 1]
    <2> SUFFICES ASSUME NEW i \in 1..n
                 PROVE  f[i] = IF i \in places THEN Append(f[i - 1], q[i]) ELSE f[i - 1]
      OBVIOUS
    <2>1. f[i - 1] \in Seq(T)
      BY <1>0, <1>3
    <2> DEFINE k == f[i - 1]
    <2>2. f[i] = step[i][k]
      BY <1>3
    <2>3. step[i] = [j \in Seq(T) |-> IF i \in places THEN Append(j, q[i]) ELSE j]
      OBVIOUS
    <2>4. k \in Seq(T)
      BY <2>1
    <2> HIDE DEF k, step
    <2>5. f[i] = IF i \in places THEN Append(k, q[i]) ELSE k
      BY <2>2, <2>3, <2>4
    <2> QED BY <2>5 DEF k
  <1>5. f = Body(f)
    <2>1. ASSUME NEW i \in 0..n PROVE f[i] = Body(f)[i]
      <3>1. CASE i = 0
        BY <1>3, <3>1
      <3>2. CASE i \in 1..n
        BY <1>0, <1>4, <3>2
      <3> QED BY <1>1, <3>1, <3>2
    <2> QED BY <1>3, <2>1
  <1>6. kept = Body(kept)
    BY <1>5
  <1>7. kept \in [0..n -> Seq(T)]
    <2> DEFINE Good == {m \in Nat : m <= n => kept[m] = f[m]}
    <2> HIDE DEF kept
    <2>1. 0 \in Good
      BY <1>1, <1>3, <1>6
    <2>2. ASSUME NEW m \in Nat, m \in Good PROVE m + 1 \in Good
      <3> SUFFICES ASSUME m + 1 <= n PROVE kept[m + 1] = f[m + 1]
        OBVIOUS
      <3>1. m + 1 \in 1..n /\ m + 1 \in 0..n /\ m + 1 # 0 /\ (m + 1) - 1 = m
        BY <1>1
      <3>2. kept[m] = f[m]
        BY <2>2, <1>1
      <3> QED BY <1>4, <1>6, <3>1, <3>2
    <2>3. Nat \subseteq Good
      <3> HIDE DEF Good
      <3> QED BY <2>1, <2>2, Counting
    <2>4. \A m \in 0..n : kept[m] = f[m]
      BY <1>1, <2>3
    <2> QED BY <1>3, <1>6, <2>4
  <1>8. Only(q, places) = kept[n]
    BY DEF Only
  <1>9. kept[0] = << >> /\ \A i \in 1..n :
          kept[i] = IF i \in places THEN Append(kept[i - 1], q[i]) ELSE kept[i - 1]
    <2> HIDE DEF kept
    <2>1. 0 \in 0..n
      BY <1>1
    <2> QED BY <1>0, <1>6, <2>1
  <1> HIDE DEF kept
  <1> QED BY <1>7, <1>8, <1>9

\* What stays is a queue of the same elements.
LEMMA OnlyTyped ==
  ASSUME NEW T, NEW q \in Seq(T), NEW places
  PROVE  Only(q, places) \in Seq(T)
  <1>1. PICK f \in [0..Len(q) -> Seq(T)] : Only(q, places) = f[Len(q)]
    BY OnlyInSteps
  <1> QED BY <1>1

\* When the first m elements stay, what stays is those m.
LEMMA OnlyFirst ==
  ASSUME NEW T, NEW q \in Seq(T), NEW m \in 0..Len(q), NEW places,
         \A i \in 1..Len(q) : i \in places <=> i <= m
  PROVE  /\ Only(q, places) \in Seq(T) /\ Len(Only(q, places)) = m
         /\ \A i \in 1..m : Only(q, places)[i] = q[i]
  <1>1. PICK f \in [0..Len(q) -> Seq(T)] :
          /\ f[0] = << >> /\ Only(q, places) = f[Len(q)]
          /\ \A i \in 1..Len(q) :
               f[i] = IF i \in places THEN Append(f[i - 1], q[i]) ELSE f[i - 1]
    BY OnlyInSteps
  <1> DEFINE n == Len(q)
             Holds(j) == /\ Len(f[j]) = IF j <= m THEN j ELSE m
                         /\ \A i \in 1..Len(f[j]) : f[j][i] = q[i]
             Good == {j \in Nat : j <= n => Holds(j)}
  <1>2. n \in Nat /\ m \in Nat /\ m <= n
    OBVIOUS
  <1>3. 0 \in Good
    BY <1>1, <1>2
  <1>4. ASSUME NEW j \in Nat, j \in Good PROVE j + 1 \in Good
    <2> SUFFICES ASSUME j + 1 <= n PROVE Holds(j + 1)
      OBVIOUS
    <2>1. Holds(j) /\ j + 1 \in 1..n /\ j \in 0..n /\ j + 1 \in 0..n /\ (j + 1) - 1 = j
      BY <1>2, <1>4
    <2>2. f[j] \in Seq(T) /\ q[j + 1] \in T
      BY <1>1, <2>1
    <2>3. f[j + 1] = IF j + 1 <= m THEN Append(f[j], q[j + 1]) ELSE f[j]
      BY <1>1, <2>1
    <2>4. CASE j + 1 <= m
      <3>1. f[j + 1] = Append(f[j], q[j + 1]) /\ Len(f[j]) = j
        BY <1>2, <2>1, <2>3, <2>4
      <3>2. Len(f[j + 1]) = j + 1 /\ \A i \in 1..(j + 1) : f[j + 1][i] = q[i]
        BY <2>1, <2>2, <3>1
      <3> QED BY <2>4, <3>2
    <2>5. CASE ~(j + 1 <= m)
      <3>1. f[j + 1] = f[j] /\ Len(f[j]) = m
        BY <1>2, <2>1, <2>3, <2>5
      <3> QED BY <2>1, <2>5, <3>1
    <2> QED BY <2>4, <2>5
  <1>5. n \in Good
    <2> HIDE DEF Good
    <2> QED BY <1>2, <1>3, <1>4, Counting
  <1> QED BY <1>1, <1>2, <1>5

\* The smallest of a set of ticks, and the largest.
LEMMA SmallestTick ==
  ASSUME NEW S, S \subseteq Nat, S # {}
  PROVE  MinOf(S) \in S /\ \A n \in S : MinOf(S) <= n
  BY LeastNumber DEF MinOf

LEMMA LargestTick ==
  ASSUME NEW S, S \subseteq Tick, S # {}
  PROVE  MaxOf(S) \in S /\ \A n \in S : n <= MaxOf(S)
  <1> DEFINE R == {MaxTick - n : n \in S}
  <1>1. MaxTick \in Nat /\ \A n \in S : n \in 0..MaxTick
    BY RollbackAssumption DEF Tick
  <1>2. R \subseteq Nat /\ R # {}
    BY <1>1
  <1>3. PICK r \in R : \A x \in R : r <= x
    BY <1>2, LeastNumber
  <1>4. PICK m \in S : r = MaxTick - m
    BY <1>3
  <1>5. ASSUME NEW n \in S PROVE n <= m
    <2>1. MaxTick - n \in R
      OBVIOUS
    <2>2. MaxTick - m <= MaxTick - n
      BY <1>3, <1>4, <2>1
    <2>3. MaxTick \in Nat /\ n \in Nat /\ m \in Nat
      BY <1>1
    <2> HIDE DEF R
    <2> QED BY <2>2, <2>3
  <1> QED BY <1>4, <1>5 DEF MaxOf

\* The larger of two numbers.
LEMMA LargerOfTwo ==
  ASSUME NEW a \in Int, NEW b \in Int
  PROVE  MaxOf({a, b}) = IF a >= b THEN a ELSE b
  <1>1. \E m \in {a, b} : \A n \in {a, b} : n <= m
    OBVIOUS
  <1> QED BY <1>1 DEF MaxOf

-----------------------------------------------------------------------------
(* The frames of a timeline.                                               *)

Table == [Slot -> [Tick -> Input \cup {None}]]

LEMMA Numbers ==
  /\ PlayerCount \in Nat /\ Host \in Slot /\ Slot \subseteq Nat
  /\ MaxTick \in Nat /\ InputDelay \in Nat /\ MaxRequests \in Nat /\ MaxHistory \in Nat
  /\ MaxRollback \in Nat /\ MaxRollback >= 1
  /\ Tick \subseteq Nat /\ Request \subseteq Nat /\ Neutral \in Input
  /\ None \notin Input /\ None \notin Tick /\ None \notin Request
  <1>1. /\ PlayerCount \in 1..4 /\ InputDelay \in Nat /\ MaxTick \in Nat /\ MaxRequests \in Nat
        /\ MaxHistory \in Nat /\ MaxRollback \in Nat \ {0}
    BY RollbackAssumption
  <1>2. MaxRollback \in Nat /\ MaxRollback >= 1
    BY <1>1
  <1>3. /\ PlayerCount \in Nat /\ Host \in Slot /\ Slot \subseteq Nat
        /\ Tick \subseteq Nat /\ Request \subseteq Nat
    BY <1>1 DEF Host, Slot, Tick, Request
  <1>4. Neutral \in Input
    BY DEF Input
  <1> QED BY <1>1, <1>2, <1>3, <1>4, RollbackNoneAssumption

\* A frame holds the input that is known, and some input where none is.
LEMMA FrameFacts ==
  ASSUME NEW k \in Table, NEW t \in Tick
  PROVE  /\ FrameAt(k, t) \in Frame /\ FrameAt(k, t).tick = t
         /\ FrameAt(k, t).inputs \in [Slot -> Input]
         /\ \A s \in Slot : k[s][t] # None => FrameAt(k, t).inputs[s] = k[s][t]
  <1>1. ASSUME NEW s \in Slot PROVE Predict(k, s, t) \in Input
    <2> DEFINE before == {u \in Tick : u < t /\ k[s][u] # None}
    <2>1. before # {} => MaxOf(before) \in before
      BY LargestTick
    <2>2. \A u \in before : k[s][u] \in Input
      BY <1>1 DEF Table
    <2> QED BY <2>1, <2>2, Numbers DEF Predict
  <1>2. ASSUME NEW s \in Slot, k[s][t] # None PROVE k[s][t] \in Input
    BY <1>2 DEF Table
  <1> QED BY <1>1, <1>2 DEF FrameAt, Frame

\* Frames for consecutive ticks.
LEMMA FramesFacts ==
  ASSUME NEW k \in Table, NEW a \in Nat, NEW b \in Nat, a <= b, b <= MaxTick + 1
  PROVE  /\ FramesFrom(k, a, b) \in Seq(Frame) /\ Len(FramesFrom(k, a, b)) = b - a
         /\ \A i \in 1..(b - a) : FramesFrom(k, a, b)[i].tick = a + i - 1
  <1>1. ASSUME NEW i \in 1..(b - a)
        PROVE  FrameAt(k, a + i - 1) \in Frame /\ FrameAt(k, a + i - 1).tick = a + i - 1
    <2>1. a + i - 1 \in Tick
      BY Numbers DEF Tick
    <2> QED BY <2>1, FrameFacts
  <1>2. b - a \in Nat
    OBVIOUS
  <1> DEFINE n == b - a  F(i) == FrameAt(k, a + i - 1)
  <1>3. [i \in 1..n |-> F(i)] \in Seq(Frame) /\ Len([i \in 1..n |-> F(i)]) = n
    <2>1. n \in Nat /\ \A i \in 1..n : F(i) \in Frame
      BY <1>1, <1>2
    <2> HIDE DEF n, F
    <2> QED BY <2>1
  <1> QED BY <1>1, <1>3 DEF FramesFrom

\* A queue of frames for consecutive ticks, up to the one before `end'.
Contiguous(q, end) == \A i \in 1..Len(q) : q[i].tick = end - 1 - Len(q) + i

\* ... it stays one when the frames emitted next are appended,
LEMMA ExtendedQueue ==
  ASSUME NEW q \in Seq(Frame), NEW a \in Nat, Contiguous(q, a), NEW k \in Table,
         NEW b \in Nat, a <= b, b <= MaxTick + 1
  PROVE  q \o FramesFrom(k, a, b) \in Seq(Frame) /\ Contiguous(q \o FramesFrom(k, a, b), b)
  <1> DEFINE new == FramesFrom(k, a, b)
  <1>1. new \in Seq(Frame) /\ Len(new) = b - a /\ \A i \in 1..(b - a) : new[i].tick = a + i - 1
    BY FramesFacts
  <1> HIDE DEF new
  <1>2. q \o new \in Seq(Frame) /\ Len(q \o new) = Len(q) + (b - a)
    <2> DEFINE F == Frame
    <2> HIDE DEF F
    <2>1. q \in Seq(F) /\ new \in Seq(F)
      BY <1>1 DEF F
    <2>2. q \o new \in Seq(F) /\ Len(q \o new) = Len(q) + Len(new)
      BY <2>1, ConcatProperties
    <2> QED BY <1>1, <2>2 DEF F
  <1>3. ASSUME NEW i \in 1..Len(q \o new)
        PROVE  (q \o new)[i].tick = b - 1 - Len(q \o new) + i
    <2>1. Len(q) \in Nat /\ i \in Nat
      OBVIOUS
    <2>2. CASE i <= Len(q)
      <3>1. (q \o new)[i] = q[i] /\ i \in 1..Len(q)
        BY <1>1, <2>1, <2>2
      <3>2. q[i].tick = a - 1 - Len(q) + i
        BY <3>1 DEF Contiguous
      <3> QED BY <1>2, <2>1, <3>1, <3>2
    <2>3. CASE ~(i <= Len(q))
      <3>1. i - Len(q) \in 1..(b - a) /\ (q \o new)[i] = new[i - Len(q)]
        BY <1>1, <1>2, <2>1, <2>3
      <3>2. new[i - Len(q)].tick = a + (i - Len(q)) - 1
        BY <1>1, <3>1
      <3> QED BY <1>2, <2>1, <3>1, <3>2
    <2> QED BY <2>2, <2>3
  <1> QED BY <1>2, <1>3 DEF Contiguous, new

\* ... when the first of them is taken,
LEMMA ShortenedQueue ==
  ASSUME NEW q \in Seq(Frame), q # << >>, NEW a \in Nat, Contiguous(q, a)
  PROVE  Tail(q) \in Seq(Frame) /\ Contiguous(Tail(q), a)
  <1>1. Tail(q) \in Seq(Frame) /\ Len(Tail(q)) = Len(q) - 1 /\ Len(q) \in Nat
    OBVIOUS
  <1>2. ASSUME NEW i \in 1..Len(Tail(q))
        PROVE  Tail(q)[i].tick = a - 1 - Len(Tail(q)) + i
    <2>1. Tail(q)[i] = q[i + 1] /\ i + 1 \in 1..Len(q)
      BY <1>1
    <2>2. q[i + 1].tick = a - 1 - Len(q) + (i + 1)
      BY <2>1 DEF Contiguous
    <2> QED BY <1>1, <2>1, <2>2
  <1> QED BY <1>1, <1>2 DEF Contiguous

\* ... and when the frames from `first' on are replaced by rebuilt ones.
LEMMA RewoundQueue ==
  ASSUME NEW q \in Seq(Frame), NEW a \in Nat, Contiguous(q, a), NEW k \in Table,
         NEW first \in Nat, first <= a, NEW b \in Nat, a <= b, b <= MaxTick + 1
  PROVE  LET new == Rewound(q, FramesFrom(k, first, b), first)
         IN  /\ new \in Seq(Frame) /\ Contiguous(new, b)
             /\ first = a => Len(new) = Len(q) + (b - a)
  <1> DEFINE n == Len(q)
             places == {i \in DOMAIN q : q[i].tick < first}
             m == IF first + n < a THEN 0 ELSE first + n - a
             old == Only(q, places)
  <1>1. n \in Nat /\ m \in 0..n
    OBVIOUS
  <1>2. \A i \in 1..n : i \in places <=> i <= m
    <2> SUFFICES ASSUME NEW i \in 1..n PROVE i \in places <=> i <= m
      OBVIOUS
    <2>1. i \in DOMAIN q /\ q[i].tick = a - 1 - n + i
      BY DEF Contiguous
    <2>2. q[i].tick < first <=> i <= m
      BY <1>1, <2>1
    <2> QED BY <2>1, <2>2
  <1>3. old \in Seq(Frame) /\ Len(old) = m /\ \A i \in 1..m : old[i] = q[i]
    <2> HIDE DEF places, m
    <2> QED BY <1>1, <1>2, OnlyFirst
  <1>4. Contiguous(old, first)
    <2> SUFFICES ASSUME NEW i \in 1..m PROVE old[i].tick = first - 1 - m + i
      BY <1>3 DEF Contiguous
    <2>1. old[i] = q[i] /\ i \in 1..n /\ i \in Nat
      BY <1>1, <1>3
    <2>2. q[i].tick = a - 1 - n + i
      BY <2>1 DEF Contiguous
    <2>3. m = first + n - a
      BY <1>1, <2>1
    <2> QED BY <1>1, <2>1, <2>2, <2>3
  <1>5. old \o FramesFrom(k, first, b) \in Seq(Frame) /\ Contiguous(old \o FramesFrom(k, first, b), b)
    <2> HIDE DEF old
    <2> QED BY <1>3, <1>4, ExtendedQueue
  <1>6. first = a => Len(old \o FramesFrom(k, first, b)) = n + (b - a)
    <2> DEFINE rebuilt == FramesFrom(k, first, b)
    <2>0. first <= b
      OBVIOUS
    <2>1. rebuilt \in Seq(Frame) /\ Len(rebuilt) = b - first
      BY <2>0, FramesFacts
    <2> DEFINE F == Frame
    <2> HIDE DEF old, rebuilt, m, F
    <2>2. Len(old \o rebuilt) = m + (b - first)
      <3>1. old \in Seq(F) /\ rebuilt \in Seq(F)
        BY <1>3, <2>1 DEF F
      <3>2. Len(old \o rebuilt) = Len(old) + Len(rebuilt)
        BY <3>1, ConcatProperties
      <3> QED BY <1>3, <2>1, <3>2
    <2>3. first = a => m = n
      BY <1>1 DEF m
    <2> QED BY <2>2, <2>3 DEF rebuilt
  <1> QED BY <1>5, <1>6 DEF Rewound

\* What a peer has emitted, when the frames from first on are rebuilt.
LEMMA EmittedFacts ==
  ASSUME NEW p \in Slot, NEW k \in Table, NEW first \in Nat, NEW next \in Nat,
         emitted[p] \in [Tick -> [Slot -> Input] \cup {None}],
         \A t \in Tick : emitted[p][t] # None => t < nextEmit[p],
         nextEmit[p] \in Nat, nextEmit[p] <= next, first <= nextEmit[p]
  PROVE  LET e == EmittedFrom(p, k, first, next) IN
         /\ e \in [Tick -> [Slot -> Input] \cup {None}]
         /\ \A t \in Tick : e[t] # None => t < next
         /\ \A t \in Tick : e[t] # None =>
              IF first <= t THEN e[t] = FrameAt(k, t).inputs ELSE e[t] = emitted[p][t]
  <1> DEFINE e == EmittedFrom(p, k, first, next)
  <1>1. \A t \in Tick : e[t] \in [Slot -> Input] \cup {None}
    BY FrameFacts DEF EmittedFrom
  <1>2. ASSUME NEW t \in Tick, e[t] # None
        PROVE  t < next /\ IF first <= t THEN e[t] = FrameAt(k, t).inputs ELSE e[t] = emitted[p][t]
    <2>1. CASE t \in first..(next - 1)
      BY <1>2, <2>1 DEF EmittedFrom
    <2>2. CASE t \notin first..(next - 1)
      <3>1. e[t] = emitted[p][t]
        BY <1>2, <2>2 DEF EmittedFrom
      <3>2. t < nextEmit[p] /\ t \in Nat
        BY <1>2, <3>1, Numbers
      <3> QED BY <2>2, <3>1, <3>2
    <2> QED BY <2>1, <2>2
  <1>3. e \in [Tick -> [Slot -> Input] \cup {None}]
    BY <1>1 DEF EmittedFrom
  <1> QED BY <1>2, <1>3

-----------------------------------------------------------------------------
(* The inductive invariant.                                                *)

\* No tick is emitted past the last one, or before its turn.
EmittedInTurn ==
  /\ \A p \in Slot : nextEmit[p] \in 0..(MaxTick + 1)
  /\ \A p \in Slot : \A t \in Tick : emitted[p][t] # None => t < nextEmit[p]

\* A player has given no input yet for the ticks to come, and what is under way
\* to another peer is what it gave.
CapturedInTurn == \A s \in Slot : \A t \in Tick : captured[s][t] # None => t < Target(s)

BatchesAuthentic ==
  \A b \in batches :
    /\ b.to \in Slot /\ b.slot \in Slot \ {b.to}
    /\ DOMAIN b.samples \subseteq Tick
    /\ \A t \in DOMAIN b.samples :
         b.samples[t] # None /\ b.samples[t] = captured[b.slot][t]

MatchInv ==
  /\ TypeOK /\ EmittedInTurn /\ CapturedInTurn /\ BatchesAuthentic
  /\ KnownAuthentic /\ QueueContiguous /\ CorrectionApplied

\* The types of one peer's state.
LEMMA PeerFacts ==
  ASSUME TypeOK, NEW p \in Slot
  PROVE  /\ capture[p] \in Nat /\ nextEmit[p] \in Nat
         /\ known[p] \in Table /\ emitted[p] \in [Tick -> [Slot -> Input] \cup {None}]
         /\ frames[p] \in Seq(Frame) /\ snapshots[p] \in Seq(Tick)
         /\ channel[p] \in Seq(Message)
         /\ captured[p] \in [Tick -> Input \cup {None}]
         /\ known[p][p] \in [Tick -> Input \cup {None}]
  BY DEF TypeOK, Table

\* One peer's entry of a variable that has one for each.
LEMMA EntryFacts ==
  ASSUME NEW f, NEW V, f \in [Slot -> V], NEW p \in Slot, NEW v
  PROVE  /\ v \in V => [f EXCEPT ![p] = v] \in [Slot -> V]
         /\ [f EXCEPT ![p] = v][p] = v
         /\ \A q \in Slot \ {p} : [f EXCEPT ![p] = v][q] = f[q]
  OBVIOUS

\* The queues, one by one.
LEMMA QueueFacts ==
  ASSUME TypeOK
  PROVE  QueueContiguous <=> \A p \in Slot : Contiguous(frames[p], nextEmit[p])
  <1>1. \A p \in Slot : frames[p] \in Seq(Frame)
    BY DEF TypeOK
  <1>2. \A p \in Slot : DOMAIN frames[p] = 1..Len(frames[p])
    BY <1>1
  <1> QED BY <1>2 DEF QueueContiguous, Contiguous

LEMMA InitMatchInv == Init => MatchInv
  <1> SUFFICES ASSUME Init PROVE MatchInv
    OBVIOUS
  <1>1. Primed \in [Tick -> Input \cup {None}]
    BY Numbers DEF Primed
  <1>2. TypeOK
    <2>1. /\ capture \in [Slot -> Nat] /\ nextEmit \in [Slot -> Nat]
          /\ known \in [Slot -> [Slot -> [Tick -> Input \cup {None}]]]
          /\ captured \in [Slot -> [Tick -> Input \cup {None}]]
      BY <1>1 DEF Init
    <2>2. /\ emitted \in [Slot -> [Tick -> [Slot -> Input] \cup {None}]]
          /\ frames \in [Slot -> Seq(Frame)] /\ snapshots \in [Slot -> Seq(Tick)]
          /\ channel \in [Slot -> Seq(Message)]
      <3>1. << >> \in Seq(Frame) /\ << >> \in Seq(Tick) /\ << >> \in Seq(Message)
        OBVIOUS
      <3>2. [t \in Tick |-> None] \in [Tick -> [Slot -> Input] \cup {None}]
        OBVIOUS
      <3> DEFINE E == [Tick -> [Slot -> Input] \cup {None}]  F == Seq(Frame)  S == Seq(Tick)
                 M == Seq(Message)
      <3> HIDE DEF E, F, S, M
      <3>3. emitted \in [Slot -> E] /\ frames \in [Slot -> F] /\ snapshots \in [Slot -> S]
            /\ channel \in [Slot -> M]
        BY <3>1, <3>2 DEF Init, E, F, S, M
      <3> QED BY <3>3 DEF E, F, S, M
    <2>3. seenSlots \in SUBSET (Slot \ {Host}) /\ requests \in 0..MaxRequests
      <3>1. seenSlots = {} /\ requests = 0
        BY DEF Init
      <3> QED BY <3>1, Numbers
    <2>4. /\ paused \in [Slot -> BOOLEAN] /\ deadline \in [Slot -> BOOLEAN]
          /\ inFrame \in [Slot -> BOOLEAN] /\ resynced \in [Slot -> BOOLEAN]
          /\ active \in [Slot -> Request \cup {None}]
          /\ assembling \in [Slot -> Request \cup {None}]
          /\ pendingSnapshot \in [Slot -> Tick \cup {None}]
          /\ error \in [Slot -> {"", "invalid_resync_sender", "reconnect_timeout"}]
      BY DEF Init
    <2> QED BY <2>1, <2>2, <2>3, <2>4 DEF TypeOK
  <1>3. EmittedInTurn
    <2>1. ASSUME NEW p \in Slot PROVE nextEmit[p] = 0 /\ \A t \in Tick : emitted[p][t] = None
      BY <2>1 DEF Init
    <2>2. 0 \in 0..(MaxTick + 1)
      BY Numbers
    <2> QED BY <2>1, <2>2 DEF EmittedInTurn
  <1>4. CapturedInTurn
    <2> SUFFICES ASSUME NEW s \in Slot, NEW t \in Tick, captured[s][t] # None PROVE t < Target(s)
      BY DEF CapturedInTurn
    <2>1. captured[s][t] = Primed[t] /\ capture[s] = 0
      BY DEF Init
    <2>2. t < InputDelay
      BY <2>1 DEF Primed
    <2> QED BY <2>1, <2>2, Numbers DEF Target
  <1>5. KnownAuthentic
    BY DEF Init, KnownAuthentic
  <1>6. QueueContiguous
    <2>1. \A p \in Slot : frames[p] = << >>
      BY DEF Init
    <2> QED BY <2>1 DEF QueueContiguous
  <1>7. CorrectionApplied
    <2>1. \A p \in Slot : \A t \in Tick : emitted[p][t] = None
      BY DEF Init
    <2> QED BY <2>1 DEF CorrectionApplied
  <1>8. BatchesAuthentic
    <2>1. batches = {}
      BY DEF Init
    <2> QED BY <2>1 DEF BatchesAuthentic
  <1> QED BY <1>2, <1>3, <1>4, <1>5, <1>6, <1>7, <1>8 DEF MatchInv

\* The batch of a gameplay frame says what the player gave.
LEMMA SamplesFacts ==
  ASSUME NEW p \in Slot, NEW slotMap
  PROVE  /\ DOMAIN Samples(p, slotMap) \subseteq Tick
         /\ \A t \in DOMAIN Samples(p, slotMap) :
              Samples(p, slotMap)[t] = slotMap[t] /\ slotMap[t] # None
  BY DEF Samples, BatchTicks

LEMMA CaptureKeeps ==
  ASSUME MatchInv, NEW p \in Slot, NEW in \in Input, Capture(p, in)
  PROVE  MatchInv'
  <1>0. /\ TypeOK /\ EmittedInTurn /\ CapturedInTurn /\ BatchesAuthentic
        /\ KnownAuthentic /\ QueueContiguous /\ CorrectionApplied
    BY DEF MatchInv
  <1> DEFINE T == Target(p)
             slotMap == [known[p][p] EXCEPT ![T] = in]
             oldest == MaxOf({nextEmit[p], T - MaxHistory + 1})
             own == [t \in Tick |-> IF t \in oldest..T THEN slotMap[t] ELSE None]
             k == [known[p] EXCEPT ![p] = own]
  <1>1. /\ T \in Tick
        /\ Forward(p, Samples(p, slotMap))
        /\ known' = [known EXCEPT ![p] = k]
        /\ capture' = [capture EXCEPT ![p] = capture[p] + 1]
        /\ inFrame' = [inFrame EXCEPT ![p] = TRUE]
        /\ captured' = [captured EXCEPT ![p] = [captured[p] EXCEPT ![T] = in]]
        /\ UNCHANGED <<snapshots, seenSlots, resync>>
    BY DEF Capture
  <1>2. PICK next \in nextEmit[p]..(MaxTick + 1) :
          /\ nextEmit' = [nextEmit EXCEPT ![p] = next]
          /\ emitted' = [emitted EXCEPT ![p] = EmittedFrom(p, k, nextEmit[p], next)]
          /\ frames' = [frames EXCEPT ![p] = frames[p] \o FramesFrom(k, nextEmit[p], next)]
    BY DEF Capture
  <1>a. T = capture[p] + InputDelay
    BY DEF Target
  <1>b. own \in [Tick -> {own[t] : t \in Tick}] /\ \A t \in Tick : own[t] \in {slotMap[t], None}
    OBVIOUS
  <1>5. /\ slotMap \in [Tick -> Input \cup {None}] /\ slotMap[T] = in
        /\ \A t \in Tick \ {T} : slotMap[t] = known[p][p][t]
    <2> HIDE DEF T
    <2> QED BY <1>0, <1>1, PeerFacts
  <1> HIDE DEF T, slotMap, own
  <1>3. /\ nextEmit[p] \in Nat /\ nextEmit[p] <= MaxTick + 1 /\ next \in Nat
        /\ nextEmit[p] <= next /\ next <= MaxTick + 1
    BY <1>0, Numbers DEF EmittedInTurn
  <1>4. captured[p][T] = None
    <2>1. capture[p] + InputDelay \in Nat
      BY <1>0, PeerFacts, Numbers
    <2>2. ~(T < Target(p))
      BY <1>a, <2>1 DEF Target
    <2> QED BY <1>0, <1>1, <2>2 DEF CapturedInTurn
  <1>6. k \in Table /\ (\A s \in Slot \ {p} : k[s] = known[p][s]) /\ k[p] = own
    <2>1. own \in [Tick -> Input \cup {None}]
      BY <1>5, <1>b
    <2> QED BY <1>0, <2>1, PeerFacts, EntryFacts DEF Table
  <1> HIDE DEF k
  <1>7. /\ captured' \in [Slot -> [Tick -> Input \cup {None}]] /\ captured'[p][T] = in
        /\ \A s \in Slot : \A t \in Tick : ~(s = p /\ t = T) => captured'[s][t] = captured[s][t]
    <2>1. captured \in [Slot -> [Tick -> Input \cup {None}]]
      BY <1>0 DEF TypeOK
    <2> QED BY <1>1, <2>1
  <1>8. \A s \in Slot : \A t \in Tick : captured[s][t] # None => captured'[s][t] = captured[s][t]
    BY <1>4, <1>7
  <1>9. \A t \in Tick : slotMap[t] # None => slotMap[t] = captured'[p][t]
    <2> SUFFICES ASSUME NEW t \in Tick, slotMap[t] # None PROVE slotMap[t] = captured'[p][t]
      OBVIOUS
    <2>1. CASE t = T
      BY <1>5, <1>7, <2>1
    <2>2. CASE t # T
      BY <1>0, <1>5, <1>7, <2>2 DEF KnownAuthentic
    <2> QED BY <2>1, <2>2
  <1> DEFINE e == EmittedFrom(p, k, nextEmit[p], next)
  <1>11. /\ e \in [Tick -> [Slot -> Input] \cup {None}]
         /\ \A t \in Tick : e[t] # None => t < next
         /\ \A t \in Tick : e[t] # None =>
              IF nextEmit[p] <= t THEN e[t] = FrameAt(k, t).inputs ELSE e[t] = emitted[p][t]
    <2>1. emitted[p] \in [Tick -> [Slot -> Input] \cup {None}]
      BY <1>0, PeerFacts
    <2>2. \A t \in Tick : emitted[p][t] # None => t < nextEmit[p]
      BY <1>0 DEF EmittedInTurn
    <2> QED BY <1>3, <1>6, <2>1, <2>2, EmittedFacts
  <1> HIDE DEF e
  <1>c. /\ known' \in [Slot -> Table] /\ known'[p] = k
        /\ \A q \in Slot \ {p} : known'[q] = known[q]
    <2>1. known \in [Slot -> Table]
      BY <1>0 DEF TypeOK, Table
    <2> QED BY <1>1, <1>6, <2>1, EntryFacts
  <1>d. /\ nextEmit' \in [Slot -> Nat] /\ nextEmit'[p] = next
        /\ \A q \in Slot \ {p} : nextEmit'[q] = nextEmit[q]
    <2>1. nextEmit \in [Slot -> Nat]
      BY <1>0 DEF TypeOK
    <2> QED BY <1>2, <1>3, <2>1, EntryFacts
  <1>e. /\ emitted' \in [Slot -> [Tick -> [Slot -> Input] \cup {None}]] /\ emitted'[p] = e
        /\ \A q \in Slot \ {p} : emitted'[q] = emitted[q]
    <2>1. emitted \in [Slot -> [Tick -> [Slot -> Input] \cup {None}]]
      BY <1>0 DEF TypeOK
    <2> QED BY <1>2, <1>11, <2>1, EntryFacts DEF e
  <1>f. /\ frames' \in [Slot -> Seq(Frame)]
        /\ frames'[p] = frames[p] \o FramesFrom(k, nextEmit[p], next)
        /\ \A q \in Slot \ {p} : frames'[q] = frames[q]
    <2>1. frames \in [Slot -> Seq(Frame)]
      BY <1>0 DEF TypeOK
    <2>2. frames[p] \o FramesFrom(k, nextEmit[p], next) \in Seq(Frame)
      BY <1>0, <1>3, <1>6, PeerFacts, FramesFacts, ConcatProperties
    <2> QED BY <1>2, <2>1, <2>2, EntryFacts
  <1>g. /\ capture' \in [Slot -> Nat] /\ capture'[p] = capture[p] + 1
        /\ \A q \in Slot \ {p} : capture'[q] = capture[q]
    <2>0. capture[p] \in Nat
      BY <1>0, PeerFacts
    <2>1. capture[p] + 1 \in Nat
      BY <2>0
    <2>2. capture \in [Slot -> Nat]
      BY <1>0 DEF TypeOK
    <2> QED BY <1>1, <2>1, <2>2, EntryFacts
  <1>12. TypeOK'
    <2>1. inFrame' \in [Slot -> BOOLEAN]
      BY <1>0, <1>1 DEF TypeOK
    <2> QED BY <1>0, <1>1, <1>7, <1>c, <1>d, <1>e, <1>f, <1>g, <2>1 DEF TypeOK, Table, resync
  <1>13. EmittedInTurn'
    <2>1. next \in 0..(MaxTick + 1)
      BY <1>3, Numbers
    <2> QED BY <1>0, <1>11, <1>d, <1>e, <2>1 DEF EmittedInTurn
  <1>14. CapturedInTurn'
    <2> SUFFICES ASSUME NEW s \in Slot, NEW t \in Tick, captured'[s][t] # None
                 PROVE  t < capture'[s] + InputDelay
      BY DEF CapturedInTurn, Target
    <2>1. capture[s] \in Nat /\ t \in Nat /\ InputDelay \in Nat
      BY <1>0, PeerFacts, Numbers
    <2>2. capture'[s] \in {capture[s], capture[s] + 1}
      BY <1>g
    <2>3. CASE s = p /\ t = T
      BY <1>a, <1>g, <2>1, <2>3
    <2>4. CASE ~(s = p /\ t = T)
      <3>1. captured[s][t] # None
        BY <1>7, <2>4
      <3>2. t < capture[s] + InputDelay
        BY <1>0, <3>1 DEF CapturedInTurn, Target
      <3> QED BY <2>1, <2>2, <3>2
    <2> QED BY <2>3, <2>4
  <1>15. BatchesAuthentic'
    <2>1. batches' = batches \cup {[to |-> q, slot |-> p, samples |-> Samples(p, slotMap)] : q \in Slot \ {p}}
      BY <1>1 DEF Forward
    <2> SUFFICES ASSUME NEW b \in batches'
                 PROVE  /\ b.to \in Slot /\ b.slot \in Slot \ {b.to}
                        /\ DOMAIN b.samples \subseteq Tick
                        /\ \A t \in DOMAIN b.samples :
                             b.samples[t] # None /\ b.samples[t] = captured'[b.slot][t]
      BY DEF BatchesAuthentic
    <2>2. CASE b \in batches
      BY <1>0, <1>8, <2>2 DEF BatchesAuthentic
    <2>3. CASE b \notin batches
      <3>1. PICK q \in Slot \ {p} : b = [to |-> q, slot |-> p, samples |-> Samples(p, slotMap)]
        BY <2>1, <2>3
      <3> QED BY <1>9, <3>1, SamplesFacts
    <2> QED BY <2>2, <2>3
  <1>16. KnownAuthentic'
    <2> SUFFICES ASSUME NEW q \in Slot, NEW s \in Slot, NEW t \in Tick, known'[q][s][t] # None
                 PROVE  known'[q][s][t] = captured'[s][t]
      BY DEF KnownAuthentic
    <2>1. CASE q = p /\ s = p
      <3>1. known'[q][s][t] = own[t]
        BY <1>6, <1>c, <2>1
      <3>2. own[t] = slotMap[t]
        BY <1>b, <3>1
      <3> QED BY <1>9, <2>1, <3>1, <3>2
    <2>2. CASE ~(q = p /\ s = p)
      <3>1. known'[q][s][t] = known[q][s][t]
        BY <1>6, <1>c, <2>2
      <3> QED BY <1>0, <1>8, <3>1 DEF KnownAuthentic
    <2> QED BY <2>1, <2>2
  <1>17. QueueContiguous'
    <2>1. \A q \in Slot : Contiguous(frames[q], nextEmit[q])
      BY <1>0, QueueFacts
    <2>2. Contiguous(frames'[p], nextEmit'[p])
      BY <1>0, <1>3, <1>6, <1>d, <1>f, <2>1, PeerFacts, ExtendedQueue
    <2>3. \A q \in Slot : Contiguous(frames'[q], nextEmit'[q])
      BY <1>d, <1>f, <2>1, <2>2
    <2>4. \A q \in Slot : DOMAIN frames'[q] = 1..Len(frames'[q])
      BY <1>f
    <2> QED BY <2>3, <2>4 DEF QueueContiguous, Contiguous
  <1>18. CorrectionApplied'
    <2> SUFFICES ASSUME NEW q \in Slot, NEW s \in Slot, NEW t \in Tick, s # q,
                        ~paused[q], ~resynced[q], emitted'[q][t] # None, known'[q][s][t] # None
                 PROVE  emitted'[q][t][s] = known'[q][s][t]
      BY <1>1 DEF CorrectionApplied, resync
    <2>1. known'[q][s][t] = known[q][s][t]
      BY <1>6, <1>c
    <2>2. CASE q = p
      <3>1. CASE nextEmit[p] <= t
        <4>1. e[t] = FrameAt(k, t).inputs /\ k[s][t] = known[q][s][t]
          BY <1>6, <1>11, <1>e, <2>2, <3>1
        <4>2. FrameAt(k, t).inputs[s] = k[s][t]
          BY <1>6, <2>1, <4>1, FrameFacts
        <4> QED BY <1>e, <2>1, <2>2, <4>1, <4>2
      <3>2. CASE ~(nextEmit[p] <= t)
        <4>1. emitted'[q][t] = emitted[q][t]
          BY <1>11, <1>e, <2>2, <3>2
        <4> QED BY <1>0, <2>1, <4>1 DEF CorrectionApplied
      <3> QED BY <3>1, <3>2
    <2>3. CASE q # p
      BY <1>0, <1>e, <2>1, <2>3 DEF CorrectionApplied
    <2> QED BY <2>2, <2>3
  <1> QED BY <1>12, <1>13, <1>14, <1>15, <1>16, <1>17, <1>18 DEF MatchInv

\* A step that rebuilds no frame and lets nobody play on keeps the timelines.
LEMMA TimelinesKept ==
  ASSUME MatchInv, TypeOK', QueueContiguous', UNCHANGED <<controller, captured, resynced>>,
         batches' \subseteq batches, \A p \in Slot : paused[p] => paused'[p]
  PROVE  MatchInv'
  <1>0. /\ EmittedInTurn /\ CapturedInTurn /\ BatchesAuthentic
        /\ KnownAuthentic /\ CorrectionApplied
    BY DEF MatchInv
  <1>1. /\ capture' = capture /\ nextEmit' = nextEmit /\ known' = known /\ emitted' = emitted
        /\ captured' = captured /\ resynced' = resynced
    BY DEF controller
  <1>2. EmittedInTurn'
    BY <1>0, <1>1 DEF EmittedInTurn
  <1>3. CapturedInTurn'
    BY <1>0, <1>1 DEF CapturedInTurn, Target
  <1>4. BatchesAuthentic'
    BY <1>0, <1>1 DEF BatchesAuthentic
  <1>5. KnownAuthentic'
    BY <1>0, <1>1 DEF KnownAuthentic
  <1>6. CorrectionApplied'
    BY <1>0, <1>1 DEF CorrectionApplied
  <1> QED BY <1>2, <1>3, <1>4, <1>5, <1>6 DEF MatchInv

\* What the messages of the resynchronisation carry.
LEMMA MessageFacts ==
  ASSUME NEW m \in Message
  PROVE  /\ m.kind \in {"request", "begin", "commit"} => m.id \in Request
         /\ m.kind = "commit" => m.tick \in Tick
  BY DEF Message

\* The first message of a link, and what is left when it is taken.
LEMMA TakenFacts ==
  ASSUME TypeOK, NEW p \in Slot, NEW kind, Take(p, kind)
  PROVE  /\ FirstOf(p) \in Message /\ FirstOf(p).kind = kind
         /\ Tail(channel[p]) \in Seq(Message) /\ Taken(p) \in [Slot -> Seq(Message)]
  <1> DEFINE M == Message
  <1> HIDE DEF M
  <1>1. channel \in [Slot -> Seq(M)] /\ channel[p] \in Seq(M) /\ channel[p] # << >>
    BY DEF TypeOK, Take, M
  <1>2. Head(channel[p]) \in M /\ Tail(channel[p]) \in Seq(M)
    BY <1>1, HeadTailProperties
  <1>3. Taken(p) \in [Slot -> Seq(M)]
    BY <1>1, <1>2 DEF Taken
  <1> QED BY <1>2, <1>3 DEF M, Take, FirstOf

LEMMA PopFrameKeeps ==
  ASSUME MatchInv, NEW p \in Slot, PopFrame(p)
  PROVE  MatchInv'
  <1>0. TypeOK /\ QueueContiguous
    BY DEF MatchInv
  <1>1. /\ frames[p] # << >> /\ frames' = [frames EXCEPT ![p] = Tail(frames[p])]
        /\ snapshots' = [snapshots EXCEPT ![p] = Stored(snapshots[p], Head(frames[p]).tick)]
        /\ inFrame' = [inFrame EXCEPT ![p] = FALSE]
        /\ UNCHANGED <<controller, seenSlots, resync, batches, captured>>
    BY DEF PopFrame
  <1>2. /\ \A q \in Slot : Contiguous(frames[q], nextEmit[q]) /\ frames[q] \in Seq(Frame)
        /\ \A q \in Slot : nextEmit[q] \in Nat
    BY <1>0, QueueFacts DEF TypeOK
  <1>3. Tail(frames[p]) \in Seq(Frame) /\ Contiguous(Tail(frames[p]), nextEmit[p])
    BY <1>1, <1>2, ShortenedQueue
  <1>4. /\ frames' \in [Slot -> Seq(Frame)] /\ frames'[p] = Tail(frames[p])
        /\ \A q \in Slot \ {p} : frames'[q] = frames[q]
    <2>1. frames \in [Slot -> Seq(Frame)]
      BY <1>0 DEF TypeOK
    <2> QED BY <1>1, <1>3, <2>1, EntryFacts
  <1>5. QueueContiguous'
    <2>1. \A q \in Slot : Contiguous(frames'[q], nextEmit'[q])
      BY <1>1, <1>2, <1>3, <1>4 DEF controller
    <2>2. \A q \in Slot : DOMAIN frames'[q] = 1..Len(frames'[q])
      BY <1>4
    <2> QED BY <2>1, <2>2 DEF QueueContiguous, Contiguous
  <1>6. snapshots' \in [Slot -> Seq(Tick)]
    <2>1. Head(frames[p]) \in Frame
      BY <1>1, <1>2, HeadTailProperties
    <2>2. Head(frames[p]).tick \in Tick
      BY <2>1 DEF Frame
    <2>3. snapshots \in [Slot -> Seq(Tick)] /\ snapshots[p] \in Seq(Tick)
      BY <1>0, PeerFacts DEF TypeOK
    <2>4. Stored(snapshots[p], Head(frames[p]).tick) \in Seq(Tick)
      <3> DEFINE t == Head(frames[p]).tick
                 kept == {i \in DOMAIN snapshots[p] :
                            snapshots[p][i] # t /\ snapshots[p][i] >= t - KeepSnapshots}
                 o == Only(snapshots[p], kept)
      <3> HIDE DEF t, kept
      <3>1. o \in Seq(Tick)
        BY <2>3, OnlyTyped
      <3>2. t \in Tick
        BY <2>2 DEF t
      <3> HIDE DEF o
      <3>3. Append(o, t) \in Seq(Tick)
        BY <3>1, <3>2, AppendProperties
      <3>4. Stored(snapshots[p], t) = IF t % SnapshotEvery # 0 THEN snapshots[p] ELSE Append(o, t)
        BY DEF Stored, o, kept
      <3> QED BY <2>3, <3>3, <3>4 DEF t
    <2> QED BY <1>1, <2>3, <2>4, EntryFacts
  <1>7. TypeOK'
    BY <1>0, <1>1, <1>4, <1>6 DEF TypeOK, controller, resync
  <1>8. paused' = paused /\ resynced' = resynced
    BY <1>1 DEF resync
  <1> QED BY <1>1, <1>5, <1>7, <1>8, TimelinesKept

LEMMA NoFrameKeeps ==
  ASSUME MatchInv, NEW p \in Slot, NoFrame(p)
  PROVE  MatchInv'
  <1>0. TypeOK /\ QueueContiguous
    BY DEF MatchInv
  <1>1. /\ inFrame' = [inFrame EXCEPT ![p] = FALSE]
        /\ UNCHANGED <<controller, frames, snapshots, seenSlots, resync, batches, captured>>
    BY DEF NoFrame
  <1>2. TypeOK'
    BY <1>0, <1>1 DEF TypeOK, controller, resync
  <1>3. QueueContiguous' /\ paused' = paused /\ resynced' = resynced
    BY <1>0, <1>1 DEF QueueContiguous, controller, resync
  <1> QED BY <1>1, <1>2, <1>3, TimelinesKept

LEMMA LoseBatchKeeps ==
  ASSUME MatchInv, NEW b \in batches, LoseBatch(b)
  PROVE  MatchInv'
  <1>0. TypeOK /\ QueueContiguous
    BY DEF MatchInv
  <1>1. /\ batches' \subseteq batches
        /\ UNCHANGED <<controller, frames, snapshots, seenSlots, resync, inFrame, captured>>
    BY DEF LoseBatch
  <1>2. TypeOK'
    BY <1>0, <1>1 DEF TypeOK, controller, resync
  <1>3. QueueContiguous' /\ paused' = paused /\ resynced' = resynced
    BY <1>0, <1>1 DEF QueueContiguous, controller, resync
  <1> QED BY <1>1, <1>2, <1>3, TimelinesKept

\* What the host answers a request with.
LEMMA AnswerTyped ==
  ASSUME TypeOK, NEW id \in Request
  PROVE  Answer(Host, id) \in Seq(Message)
  <1>1. snapshots[Host] \in Seq(Tick)
    BY PeerFacts, Numbers
  <1>2. CASE snapshots[Host] = << >>
    BY <1>2 DEF Answer
  <1>3. CASE snapshots[Host] # << >>
    <2> DEFINE tick == snapshots[Host][Len(snapshots[Host])]
               begin == [kind |-> "begin", id |-> id]
               commit == [kind |-> "commit", id |-> id, tick |-> tick]
    <2>1. tick \in Tick
      BY <1>1, <1>3
    <2>2. begin \in Message /\ commit \in Message
      <3> HIDE DEF tick
      <3> QED BY <2>1 DEF Message
    <2>3. Answer(Host, id) = <<begin, commit>>
      BY <1>3 DEF Answer
    <2> HIDE DEF begin, commit
    <2> QED BY <2>2, <2>3
  <1> QED BY <1>2, <1>3

LEMMA HandleRequestKeeps ==
  ASSUME MatchInv, HandleRequest
  PROVE  MatchInv'
  <1>0. TypeOK /\ QueueContiguous /\ Host \in Slot
    BY Numbers DEF MatchInv
  <1> DEFINE answer == Answer(Host, FirstOf(Host).id)
  <1>1. /\ Take(Host, "request")
        /\ channel' = [p \in Slot |-> IF p = Host THEN Tail(channel[p]) ELSE channel[p] \o answer]
        /\ UNCHANGED <<controller, frames, snapshots, seenSlots, paused, active, assembling,
                 pendingSnapshot, deadline, error, inFrame, requests, batches, captured, resynced>>
    BY DEF HandleRequest
  <1>2. Tail(channel[Host]) \in Seq(Message) /\ answer \in Seq(Message)
    <2>1. FirstOf(Host) \in Message /\ FirstOf(Host).kind = "request"
      BY <1>0, <1>1, TakenFacts
    <2> QED BY <1>0, <1>1, <2>1, TakenFacts, MessageFacts, AnswerTyped
  <1> HIDE DEF answer
  <1>3. channel' \in [Slot -> Seq(Message)]
    <2>1. \A p \in Slot : channel[p] \o answer \in Seq(Message)
      <3>1. \A p \in Slot : channel[p] \in Seq(Message)
        BY <1>0, PeerFacts
      <3> QED BY <1>2, <3>1, ConcatProperties
    <2> QED BY <1>1, <1>2, <2>1
  <1>4. TypeOK'
    BY <1>0, <1>1, <1>3 DEF TypeOK, controller
  <1>5. QueueContiguous'
    BY <1>0, <1>1 DEF QueueContiguous, controller
  <1> QED BY <1>1, <1>4, <1>5, TimelinesKept

LEMMA HandleRefusalKeeps ==
  ASSUME MatchInv, NEW p \in Slot, HandleRefusal(p)
  PROVE  MatchInv'
  <1>0. TypeOK /\ QueueContiguous
    BY DEF MatchInv
  <1>1. /\ Take(p, "refused") /\ channel' = Taken(p)
        /\ error' = [error EXCEPT ![p] = "invalid_resync_sender"]
        /\ UNCHANGED <<controller, frames, snapshots, seenSlots, paused, active, assembling,
                 pendingSnapshot, deadline, inFrame, requests, batches, captured, resynced>>
    BY DEF HandleRefusal
  <1>2. channel' \in [Slot -> Seq(Message)]
    BY <1>0, <1>1, TakenFacts
  <1>3. TypeOK'
    BY <1>0, <1>1, <1>2 DEF TypeOK, controller
  <1>4. QueueContiguous'
    BY <1>0, <1>1 DEF QueueContiguous, controller
  <1> QED BY <1>1, <1>3, <1>4, TimelinesKept

LEMMA HandleBeginKeeps ==
  ASSUME MatchInv, NEW p \in Slot, HandleBegin(p)
  PROVE  MatchInv'
  <1>0. TypeOK /\ QueueContiguous
    BY DEF MatchInv
  <1> DEFINE id == FirstOf(p).id
  <1>1. /\ Take(p, "begin") /\ channel' = Taken(p)
        /\ \/ UNCHANGED <<paused, active, assembling>>
           \/ /\ assembling' = [assembling EXCEPT ![p] = id]
              /\ active' = [active EXCEPT ![p] = id]
              /\ paused' = [paused EXCEPT ![p] = TRUE]
        /\ UNCHANGED <<controller, frames, snapshots, seenSlots, pendingSnapshot, deadline, error,
                 inFrame, requests, batches, captured, resynced>>
    BY DEF HandleBegin
  <1>2. channel' \in [Slot -> Seq(Message)] /\ id \in Request
    <2>1. FirstOf(p) \in Message /\ FirstOf(p).kind = "begin"
      BY <1>0, <1>1, TakenFacts
    <2> QED BY <1>0, <1>1, <2>1, TakenFacts, MessageFacts
  <1> HIDE DEF id
  <1>3. /\ paused' \in [Slot -> BOOLEAN] /\ \A q \in Slot : paused[q] => paused'[q]
        /\ active' \in [Slot -> Request \cup {None}]
        /\ assembling' \in [Slot -> Request \cup {None}]
    <2>1. /\ paused \in [Slot -> BOOLEAN] /\ active \in [Slot -> Request \cup {None}]
          /\ assembling \in [Slot -> Request \cup {None}] /\ id \in Request \cup {None}
      BY <1>0, <1>2 DEF TypeOK
    <2>2. CASE UNCHANGED <<paused, active, assembling>>
      BY <2>1, <2>2
    <2>3. CASE ~UNCHANGED <<paused, active, assembling>>
      BY <1>1, <2>1, <2>3
    <2> QED BY <2>2, <2>3
  <1>4. TypeOK'
    BY <1>0, <1>1, <1>2, <1>3 DEF TypeOK, controller
  <1>5. QueueContiguous'
    BY <1>0, <1>1 DEF QueueContiguous, controller
  <1> QED BY <1>1, <1>3, <1>4, <1>5, TimelinesKept

LEMMA HandleCommitKeeps ==
  ASSUME MatchInv, NEW p \in Slot, HandleCommit(p)
  PROVE  MatchInv'
  <1>0. TypeOK /\ QueueContiguous
    BY DEF MatchInv
  <1> DEFINE tick == FirstOf(p).tick
  <1>1. /\ Take(p, "commit") /\ channel' = Taken(p)
        /\ \/ UNCHANGED <<paused, assembling, pendingSnapshot, deadline>>
           \/ /\ assembling' = [assembling EXCEPT ![p] = None]
              /\ pendingSnapshot' = [pendingSnapshot EXCEPT ![p] = tick]
              /\ paused' = [paused EXCEPT ![p] = TRUE]
              /\ deadline' = [deadline EXCEPT ![p] = TRUE]
        /\ UNCHANGED <<controller, frames, snapshots, seenSlots, active, error, inFrame, requests,
                 batches, captured, resynced>>
    BY DEF HandleCommit
  <1>2. channel' \in [Slot -> Seq(Message)] /\ tick \in Tick
    <2>1. FirstOf(p) \in Message /\ FirstOf(p).kind = "commit"
      BY <1>0, <1>1, TakenFacts
    <2> QED BY <1>0, <1>1, <2>1, TakenFacts, MessageFacts
  <1> HIDE DEF tick
  <1>3. /\ paused' \in [Slot -> BOOLEAN] /\ \A q \in Slot : paused[q] => paused'[q]
        /\ assembling' \in [Slot -> Request \cup {None}]
        /\ pendingSnapshot' \in [Slot -> Tick \cup {None}]
        /\ deadline' \in [Slot -> BOOLEAN]
    <2>1. /\ paused \in [Slot -> BOOLEAN] /\ deadline \in [Slot -> BOOLEAN]
          /\ assembling \in [Slot -> Request \cup {None}]
          /\ pendingSnapshot \in [Slot -> Tick \cup {None}] /\ tick \in Tick \cup {None}
      BY <1>0, <1>2 DEF TypeOK
    <2>2. CASE UNCHANGED <<paused, assembling, pendingSnapshot, deadline>>
      BY <2>1, <2>2
    <2>3. CASE ~UNCHANGED <<paused, assembling, pendingSnapshot, deadline>>
      BY <1>1, <2>1, <2>3
    <2> QED BY <2>2, <2>3
  <1>4. TypeOK'
    BY <1>0, <1>1, <1>2, <1>3 DEF TypeOK, controller
  <1>5. QueueContiguous'
    BY <1>0, <1>1 DEF QueueContiguous, controller
  <1> QED BY <1>1, <1>3, <1>4, <1>5, TimelinesKept

LEMMA DeadlineExpiresKeeps ==
  ASSUME MatchInv, NEW p \in Slot, DeadlineExpires(p)
  PROVE  MatchInv'
  <1>0. TypeOK /\ QueueContiguous
    BY DEF MatchInv
  <1>1. /\ error' = [error EXCEPT ![p] = "reconnect_timeout"]
        /\ UNCHANGED <<controller, frames, snapshots, seenSlots, paused, active, assembling,
                 pendingSnapshot, deadline, inFrame, requests, batches, channel, captured, resynced>>
    BY DEF DeadlineExpires
  <1>2. TypeOK'
    BY <1>0, <1>1 DEF TypeOK, controller
  <1>3. QueueContiguous'
    BY <1>0, <1>1 DEF QueueContiguous, controller
  <1> QED BY <1>1, <1>2, <1>3, TimelinesKept

\* What a peer asks for when `count' resync requests leave it, and whether it
\* plays on.
LEMMA AskFacts ==
  ASSUME TypeOK, NEW p \in Slot, NEW count \in Nat, AskForResync(p, count)
  PROVE  /\ requests' \in 0..MaxRequests /\ channel' \in [Slot -> Seq(Message)]
         /\ paused' \in [Slot -> BOOLEAN] /\ active' \in [Slot -> Request \cup {None}]
         /\ \A q \in Slot : paused[q] => paused'[q]
         /\ ~paused'[p] => count = 0
  <1>1. /\ requests \in Nat /\ requests + count <= MaxRequests /\ requests' = requests + count
        /\ MaxRequests \in Nat
    <2>1. requests \in 0..MaxRequests
      BY DEF TypeOK
    <2>2. requests + count <= MaxRequests /\ requests' = requests + count
      BY DEF AskForResync
    <2> QED BY <2>1, <2>2, Numbers
  <1>2. /\ channel \in [Slot -> Seq(Message)] /\ paused \in [Slot -> BOOLEAN]
        /\ active \in [Slot -> Request \cup {None}]
    BY DEF TypeOK
  <1>3. requests' \in 0..MaxRequests
    BY <1>1
  <1>4. CASE count = 0
    <2>1. channel' = channel /\ paused' = paused /\ active' = active
      BY <1>4 DEF AskForResync
    <2> QED BY <1>2, <1>3, <1>4, <2>1
  <1>5. CASE count # 0
    <2> DEFINE M(i) == IF p = Host THEN [kind |-> "refused"] ELSE [kind |-> "request", id |-> requests + i]
               sent == [i \in 1..count |-> M(i)]
    <2>1. /\ paused' = [paused EXCEPT ![p] = TRUE]
          /\ active' = [active EXCEPT ![p] = requests + count]
          /\ channel' = [channel EXCEPT ![Host] = channel[Host] \o sent]
      BY <1>5 DEF AskForResync
    <2>2. \A i \in 1..count : requests + i \in Request
      BY <1>1 DEF Request
    <2>3. \A i \in 1..count : M(i) \in Message
      BY <2>2 DEF Message
    <2>4. sent \in Seq(Message)
      <3> HIDE DEF M
      <3> QED BY <2>3
    <2> HIDE DEF sent
    <2>5. channel[Host] \o sent \in Seq(Message)
      <3>1. channel[Host] \in Seq(Message)
        BY PeerFacts, Numbers
      <3> QED BY <2>4, <3>1, ConcatProperties
    <2>6. channel' \in [Slot -> Seq(Message)]
      BY <1>2, <2>1, <2>5, Numbers, EntryFacts
    <2>7. requests + count \in Request \cup {None}
      BY <1>1, <1>5 DEF Request
    <2>8. active' \in [Slot -> Request \cup {None}]
      BY <1>2, <2>1, <2>7
    <2>9. /\ paused' \in [Slot -> BOOLEAN] /\ paused'[p]
          /\ \A q \in Slot : paused[q] => paused'[q]
      BY <1>2, <2>1
    <2> QED BY <1>3, <2>6, <2>8, <2>9
  <1> QED BY <1>4, <1>5

LEMMA ReceiveKeeps ==
  ASSUME MatchInv, NEW b \in batches, Receive(b)
  PROVE  MatchInv'
  <1>0. /\ TypeOK /\ EmittedInTurn /\ CapturedInTurn /\ BatchesAuthentic
        /\ KnownAuthentic /\ QueueContiguous /\ CorrectionApplied
    BY DEF MatchInv
  <1> DEFINE p == b.to
             own == [t \in Tick |-> IF t \in DOMAIN b.samples THEN b.samples[t] ELSE known[p][b.slot][t]]
             k == [known[p] EXCEPT ![b.slot] = own]
             late == Late(p, b)
             tooLate == {t \in late : nextEmit[p] - t > MaxRollback}
             from == MinOf(late \ tooLate)
             rollback == late \ tooLate # {} /\ HasSnapshot(p, from - 1)
             first == IF rollback THEN from ELSE nextEmit[p]
             count == (IF late \ tooLate # {} /\ ~rollback THEN 1 ELSE 0)
                          + (IF tooLate # {} THEN 1 ELSE 0)
  <1>1. /\ seenSlots' = IF p = Host THEN seenSlots \cup {b.slot} ELSE seenSlots
        /\ known' = [known EXCEPT ![p] = k]
        /\ AskForResync(p, count)
        /\ batches' \in {batches, batches \ {b}}
        /\ UNCHANGED <<capture, snapshots, assembling, pendingSnapshot, deadline, error, inFrame,
                    captured, resynced>>
    BY DEF Receive
  <1>2. PICK next \in nextEmit[p]..(MaxTick + 1) :
          /\ nextEmit' = [nextEmit EXCEPT ![p] = next]
          /\ emitted' = [emitted EXCEPT ![p] = EmittedFrom(p, k, first, next)]
          /\ frames' = [frames EXCEPT ![p] = Rewound(frames[p], FramesFrom(k, first, next), first)]
    BY DEF Receive
  <1>3. /\ p \in Slot /\ b.slot \in Slot \ {p} /\ DOMAIN b.samples \subseteq Tick
        /\ \A t \in DOMAIN b.samples : b.samples[t] # None /\ b.samples[t] = captured[b.slot][t]
    BY <1>0 DEF BatchesAuthentic
  <1>6. count \in Nat /\ (count = 0 => tooLate = {} /\ (late = {} \/ rollback))
    OBVIOUS
  <1>9. first = IF rollback THEN from ELSE nextEmit[p]
    OBVIOUS
  <1>7. rollback => from \in late /\ \A t \in late \ tooLate : from <= t
    <2>1. late \subseteq Nat
      BY <1>0, <1>3, Numbers DEF Late
    <2> HIDE DEF late, tooLate
    <2>2. late \ tooLate # {} => from \in late /\ \A t \in late \ tooLate : from <= t
      BY <2>1, SmallestTick
    <2> QED BY <2>2
  <1>5. \A t \in late : t \in Tick /\ t < nextEmit[p]
    BY <1>0, <1>3 DEF Late, EmittedInTurn
  <1>10. own \in [Tick -> Input \cup {None}]
    <2>1. \A t \in DOMAIN b.samples : b.samples[t] \in Input \cup {None}
      BY <1>0, <1>3, PeerFacts
    <2>2. \A t \in Tick : known[p][b.slot][t] \in Input \cup {None}
      BY <1>0, <1>3, PeerFacts DEF Table
    <2> QED BY <2>1, <2>2
  <1>11. /\ \A t \in Tick : t \in DOMAIN b.samples => own[t] = b.samples[t]
         /\ \A t \in Tick : t \notin DOMAIN b.samples => own[t] = known[p][b.slot][t]
    OBVIOUS
  <1> HIDE DEF p, own, late, tooLate, from, rollback, first, count
  <1>4. /\ nextEmit[p] \in Nat /\ nextEmit[p] <= MaxTick + 1 /\ next \in Nat
        /\ nextEmit[p] <= next /\ next <= MaxTick + 1
    <2>1. nextEmit[p] \in 0..(MaxTick + 1)
      BY <1>0, <1>3 DEF EmittedInTurn
    <2> QED BY <2>1, Numbers
  <1>8. first \in Nat /\ first <= nextEmit[p]
    <2>1. CASE rollback
      <3>1. from \in Nat /\ from < nextEmit[p]
        BY <1>5, <1>7, <2>1, Numbers
      <3> QED BY <1>4, <1>9, <2>1, <3>1
    <2>2. CASE ~rollback
      BY <1>4, <1>9, <2>2
    <2> QED BY <2>1, <2>2
  <1>12. k \in Table /\ k[b.slot] = own /\ \A s \in Slot \ {b.slot} : k[s] = known[p][s]
    BY <1>0, <1>3, <1>10, PeerFacts, EntryFacts DEF Table
  <1> HIDE DEF k
  <1>13. /\ requests' \in 0..MaxRequests /\ channel' \in [Slot -> Seq(Message)]
         /\ paused' \in [Slot -> BOOLEAN] /\ active' \in [Slot -> Request \cup {None}]
         /\ (\A q \in Slot : paused[q] => paused'[q])
         /\ (~paused'[p] => count = 0)
    BY <1>0, <1>1, <1>3, <1>6, AskFacts
  <1> DEFINE e == EmittedFrom(p, k, first, next)
             new == Rewound(frames[p], FramesFrom(k, first, next), first)
  <1>14. /\ e \in [Tick -> [Slot -> Input] \cup {None}]
         /\ \A t \in Tick : e[t] # None => t < next
         /\ \A t \in Tick : e[t] # None =>
              IF first <= t THEN e[t] = FrameAt(k, t).inputs ELSE e[t] = emitted[p][t]
    <2>1. emitted[p] \in [Tick -> [Slot -> Input] \cup {None}]
      BY <1>0, <1>3, PeerFacts
    <2>2. \A t \in Tick : emitted[p][t] # None => t < nextEmit[p]
      BY <1>0, <1>3 DEF EmittedInTurn
    <2> QED BY <1>3, <1>4, <1>8, <1>12, <2>1, <2>2, EmittedFacts
  <1>15. new \in Seq(Frame) /\ Contiguous(new, next)
    <2>1. frames[p] \in Seq(Frame) /\ Contiguous(frames[p], nextEmit[p])
      BY <1>0, <1>3, PeerFacts, QueueFacts
    <2> QED BY <1>4, <1>8, <1>12, <2>1, RewoundQueue
  <1> HIDE DEF e, new
  <1>16. /\ known' \in [Slot -> Table] /\ known'[p] = k
         /\ \A q \in Slot \ {p} : known'[q] = known[q]
    <2>1. known \in [Slot -> Table]
      BY <1>0 DEF TypeOK, Table
    <2> QED BY <1>1, <1>3, <1>12, <2>1, EntryFacts
  <1>17. /\ nextEmit' \in [Slot -> Nat] /\ nextEmit'[p] = next
         /\ \A q \in Slot \ {p} : nextEmit'[q] = nextEmit[q]
    <2>1. nextEmit \in [Slot -> Nat]
      BY <1>0 DEF TypeOK
    <2> QED BY <1>2, <1>3, <1>4, <2>1, EntryFacts
  <1>18. /\ emitted' \in [Slot -> [Tick -> [Slot -> Input] \cup {None}]] /\ emitted'[p] = e
         /\ \A q \in Slot \ {p} : emitted'[q] = emitted[q]
    <2>1. emitted \in [Slot -> [Tick -> [Slot -> Input] \cup {None}]]
      BY <1>0 DEF TypeOK
    <2> QED BY <1>2, <1>3, <1>14, <2>1, EntryFacts DEF e
  <1>19. /\ frames' \in [Slot -> Seq(Frame)] /\ frames'[p] = new
         /\ \A q \in Slot \ {p} : frames'[q] = frames[q]
    <2>1. frames \in [Slot -> Seq(Frame)]
      BY <1>0 DEF TypeOK
    <2> QED BY <1>2, <1>3, <1>15, <2>1, EntryFacts DEF new
  <1>20. TypeOK'
    <2>1. seenSlots' \in SUBSET (Slot \ {Host})
      BY <1>0, <1>1, <1>3 DEF TypeOK
    <2> QED BY <1>0, <1>1, <1>13, <1>16, <1>17, <1>18, <1>19, <2>1 DEF TypeOK, Table
  <1>21. EmittedInTurn'
    <2>1. next \in 0..(MaxTick + 1)
      BY <1>4
    <2> QED BY <1>0, <1>14, <1>17, <1>18, <2>1 DEF EmittedInTurn
  <1>22. CapturedInTurn'
    BY <1>0, <1>1 DEF CapturedInTurn, Target
  <1>23. BatchesAuthentic'
    BY <1>0, <1>1 DEF BatchesAuthentic
  <1>24. KnownAuthentic'
    <2> SUFFICES ASSUME NEW q \in Slot, NEW s \in Slot, NEW t \in Tick, known'[q][s][t] # None
                 PROVE  known'[q][s][t] = captured[s][t]
      BY <1>1 DEF KnownAuthentic
    <2>1. CASE q = p /\ s = b.slot /\ t \in DOMAIN b.samples
      BY <1>3, <1>11, <1>12, <1>16, <2>1
    <2>2. CASE ~(q = p /\ s = b.slot /\ t \in DOMAIN b.samples)
      <3>1. known'[q][s][t] = known[q][s][t]
        BY <1>11, <1>12, <1>16, <2>2
      <3> QED BY <1>0, <3>1 DEF KnownAuthentic
    <2> QED BY <2>1, <2>2
  <1>25. QueueContiguous'
    <2>1. \A q \in Slot : Contiguous(frames[q], nextEmit[q])
      BY <1>0, QueueFacts
    <2>2. \A q \in Slot : Contiguous(frames'[q], nextEmit'[q])
      BY <1>15, <1>17, <1>19, <2>1
    <2>3. \A q \in Slot : DOMAIN frames'[q] = 1..Len(frames'[q])
      BY <1>19
    <2> QED BY <2>2, <2>3 DEF QueueContiguous, Contiguous
  <1>26. CorrectionApplied'
    <2> SUFFICES ASSUME NEW q \in Slot, NEW s \in Slot, NEW t \in Tick, s # q,
                        ~paused'[q], ~resynced[q], emitted'[q][t] # None, known'[q][s][t] # None
                 PROVE  emitted'[q][t][s] = known'[q][s][t]
      BY <1>1 DEF CorrectionApplied
    <2>1. ~paused[q]
      BY <1>13
    <2>2. CASE q # p
      BY <1>0, <1>16, <1>18, <2>1, <2>2 DEF CorrectionApplied
    <2>3. CASE q = p /\ first <= t
      <3>1. e[t] = FrameAt(k, t).inputs /\ k[s][t] # None
        BY <1>14, <1>16, <1>18, <2>3
      <3>2. FrameAt(k, t).inputs[s] = k[s][t]
        BY <1>12, <3>1, FrameFacts
      <3> QED BY <1>16, <1>18, <2>3, <3>1, <3>2
    <2>4. CASE q = p /\ ~(first <= t)
      <3>1. emitted'[p][t] = emitted[p][t] /\ emitted[p][t] # None
        BY <1>14, <1>18, <2>4
      <3>2. CASE s = b.slot /\ t \in DOMAIN b.samples
        <4>1. k[s][t] = b.samples[t] /\ known'[q][s][t] = k[s][t]
          BY <1>11, <1>12, <1>16, <2>4, <3>2
        <4>2. CASE known[p][s][t] = b.samples[t]
          BY <1>0, <2>1, <2>4, <3>1, <4>1, <4>2 DEF CorrectionApplied
        <4>3. CASE known[p][s][t] # b.samples[t]
          <5>1. t \notin late
            BY <1>6, <1>7, <1>9, <1>13, <2>4
          <5> QED BY <2>4, <3>1, <3>2, <4>1, <4>3, <5>1 DEF late, Late
        <4> QED BY <4>2, <4>3
      <3>3. CASE ~(s = b.slot /\ t \in DOMAIN b.samples)
        <4>1. known'[q][s][t] = known[q][s][t]
          BY <1>11, <1>12, <1>16, <2>4, <3>3
        <4> QED BY <1>0, <2>1, <2>4, <3>1, <4>1 DEF CorrectionApplied
      <3> QED BY <3>2, <3>3
    <2> QED BY <2>2, <2>3, <2>4
  <1> QED BY <1>20, <1>21, <1>22, <1>23, <1>24, <1>25, <1>26 DEF MatchInv

LEMMA ApplyResyncKeeps ==
  ASSUME MatchInv, NEW p \in Slot, ApplyResync(p)
  PROVE  MatchInv'
  <1>0. /\ TypeOK /\ EmittedInTurn /\ CapturedInTurn /\ BatchesAuthentic
        /\ KnownAuthentic /\ QueueContiguous /\ CorrectionApplied
    BY DEF MatchInv
  <1> DEFINE tick == pendingSnapshot[p] + 1
             Forget(table) == [t \in Tick |-> IF t < tick THEN None ELSE table[t]]
             k == [s \in Slot |-> Forget(known[p][s])]
             e == Forget(emitted[p])
  <1>1. /\ pendingSnapshot[p] # None
        /\ pendingSnapshot' = [pendingSnapshot EXCEPT ![p] = None]
        /\ active' = [active EXCEPT ![p] = None]
        /\ capture' = [capture EXCEPT ![p] = MaxOf({capture[p], tick})]
        /\ nextEmit' = [nextEmit EXCEPT ![p] = MaxOf({nextEmit[p], tick})]
        /\ known' = [known EXCEPT ![p] = k]
        /\ emitted' = [emitted EXCEPT ![p] = e]
        /\ frames' = [frames EXCEPT ![p] = << >>]
        /\ paused' = [paused EXCEPT ![p] = FALSE]
        /\ resynced' = [resynced EXCEPT ![p] = TRUE]
        /\ UNCHANGED <<snapshots, seenSlots, assembling, deadline, error, inFrame, requests, batches,
                    channel, captured>>
    BY DEF ApplyResync
  <1>2. tick \in Nat /\ tick <= MaxTick + 1
    <2>1. pendingSnapshot[p] \in Tick
      BY <1>0, <1>1 DEF TypeOK
    <2> QED BY <2>1, Numbers DEF Tick
  <1>3. /\ k \in Table /\ e \in [Tick -> [Slot -> Input] \cup {None}]
        /\ \A s \in Slot : \A t \in Tick : k[s][t] # None => k[s][t] = known[p][s][t]
        /\ \A t \in Tick : e[t] # None => emitted[p][t] # None
    <2>1. known[p] \in Table /\ emitted[p] \in [Tick -> [Slot -> Input] \cup {None}]
      BY <1>0, PeerFacts
    <2> HIDE DEF tick
    <2> QED BY <2>1 DEF Table
  <1> HIDE DEF tick, k, e
  <1> DEFINE c == MaxOf({capture[p], tick})  n == MaxOf({nextEmit[p], tick})
  <1>4. /\ capture[p] \in Nat /\ c \in Nat /\ capture[p] <= c
        /\ nextEmit[p] \in Nat /\ n \in Nat /\ nextEmit[p] <= n /\ n <= MaxTick + 1
    <2>1. capture[p] \in Nat /\ nextEmit[p] \in 0..(MaxTick + 1)
      BY <1>0, PeerFacts DEF EmittedInTurn
    <2>2. /\ c = IF capture[p] >= tick THEN capture[p] ELSE tick
          /\ n = IF nextEmit[p] >= tick THEN nextEmit[p] ELSE tick
      BY <1>2, <2>1, LargerOfTwo
    <2> HIDE DEF c, n
    <2> QED BY <1>2, <2>1, <2>2
  <1>5. /\ capture' = [capture EXCEPT ![p] = c] /\ nextEmit' = [nextEmit EXCEPT ![p] = n]
    BY <1>1
  <1> HIDE DEF c, n
  <1>6. /\ capture' \in [Slot -> Nat] /\ capture'[p] = c
        /\ \A q \in Slot \ {p} : capture'[q] = capture[q]
    <2>1. capture \in [Slot -> Nat]
      BY <1>0 DEF TypeOK
    <2> QED BY <1>4, <1>5, <2>1, EntryFacts
  <1>7. /\ nextEmit' \in [Slot -> Nat] /\ nextEmit'[p] = n
        /\ \A q \in Slot \ {p} : nextEmit'[q] = nextEmit[q]
    <2>1. nextEmit \in [Slot -> Nat]
      BY <1>0 DEF TypeOK
    <2> QED BY <1>4, <1>5, <2>1, EntryFacts
  <1>8. /\ known' \in [Slot -> Table] /\ known'[p] = k
        /\ \A q \in Slot \ {p} : known'[q] = known[q]
    <2>1. known \in [Slot -> Table]
      BY <1>0 DEF TypeOK, Table
    <2> QED BY <1>1, <1>3, <2>1, EntryFacts
  <1>9. /\ emitted' \in [Slot -> [Tick -> [Slot -> Input] \cup {None}]] /\ emitted'[p] = e
        /\ \A q \in Slot \ {p} : emitted'[q] = emitted[q]
    <2>1. emitted \in [Slot -> [Tick -> [Slot -> Input] \cup {None}]]
      BY <1>0 DEF TypeOK
    <2> QED BY <1>1, <1>3, <2>1, EntryFacts
  <1>10. /\ frames' \in [Slot -> Seq(Frame)] /\ frames'[p] = << >>
         /\ \A q \in Slot \ {p} : frames'[q] = frames[q]
    <2>1. frames \in [Slot -> Seq(Frame)]
      BY <1>0 DEF TypeOK
    <2>2. << >> \in Seq(Frame)
      OBVIOUS
    <2> QED BY <1>1, <2>1, <2>2, EntryFacts
  <1>11. TypeOK'
    <2>1. /\ pendingSnapshot' \in [Slot -> Tick \cup {None}]
          /\ active' \in [Slot -> Request \cup {None}]
      BY <1>0, <1>1 DEF TypeOK
    <2>2. paused' \in [Slot -> BOOLEAN] /\ resynced' \in [Slot -> BOOLEAN]
      BY <1>0, <1>1 DEF TypeOK
    <2> QED BY <1>0, <1>1, <1>6, <1>7, <1>8, <1>9, <1>10, <2>1, <2>2 DEF TypeOK, Table
  <1>12. EmittedInTurn'
    <2>1. \A q \in Slot : nextEmit'[q] \in 0..(MaxTick + 1)
      BY <1>0, <1>4, <1>7 DEF EmittedInTurn
    <2> SUFFICES ASSUME NEW q \in Slot, NEW t \in Tick, emitted'[q][t] # None
                 PROVE  t < nextEmit'[q]
      BY <2>1 DEF EmittedInTurn
    <2>2. emitted[q][t] # None
      BY <1>3, <1>9
    <2>3. t < nextEmit[q]
      BY <1>0, <2>2 DEF EmittedInTurn
    <2>4. t \in Nat
      BY Numbers
    <2>5. CASE q = p
      BY <1>4, <1>7, <2>3, <2>4, <2>5
    <2>6. CASE q # p
      BY <1>7, <2>3, <2>6
    <2> QED BY <2>5, <2>6
  <1>13. CapturedInTurn'
    <2> SUFFICES ASSUME NEW s \in Slot, NEW t \in Tick, captured[s][t] # None
                 PROVE  t < capture'[s] + InputDelay
      BY <1>1 DEF CapturedInTurn, Target
    <2>1. t < capture[s] + InputDelay
      BY <1>0 DEF CapturedInTurn, Target
    <2>2. t \in Nat /\ InputDelay \in Nat
      BY Numbers
    <2>3. CASE s = p
      BY <1>4, <1>6, <2>1, <2>2, <2>3
    <2>4. CASE s # p
      BY <1>6, <2>1, <2>4
    <2> QED BY <2>3, <2>4
  <1>14. BatchesAuthentic'
    BY <1>0, <1>1 DEF BatchesAuthentic
  <1>15. KnownAuthentic'
    BY <1>0, <1>1, <1>3, <1>8 DEF KnownAuthentic
  <1>16. QueueContiguous'
    <2>1. DOMAIN frames'[p] = {}
      BY <1>10
    <2>2. \A q \in Slot \ {p} : frames'[q] = frames[q] /\ nextEmit'[q] = nextEmit[q]
      BY <1>7, <1>10
    <2> QED BY <1>0, <2>1, <2>2 DEF QueueContiguous
  <1>17. CorrectionApplied'
    <2>1. resynced'[p] /\ \A q \in Slot \ {p} : paused'[q] = paused[q] /\ resynced'[q] = resynced[q]
      BY <1>0, <1>1 DEF TypeOK
    <2> QED BY <1>0, <1>8, <1>9, <2>1 DEF CorrectionApplied
  <1> QED BY <1>11, <1>12, <1>13, <1>14, <1>15, <1>16, <1>17 DEF MatchInv

-----------------------------------------------------------------------------
LEMMA NextKeepsMatchInv == MatchInv /\ [Next]_vars => MatchInv'
  <1> SUFFICES ASSUME MatchInv, [Next]_vars PROVE MatchInv'
    OBVIOUS
  <1>1. ASSUME NEW p \in Slot, NEW in \in Input, Capture(p, in) PROVE MatchInv'
    BY <1>1, CaptureKeeps
  <1>2. ASSUME NEW p \in Slot,
               \/ PopFrame(p) \/ NoFrame(p) \/ HandleRefusal(p) \/ HandleBegin(p)
               \/ HandleCommit(p) \/ ApplyResync(p) \/ DeadlineExpires(p)
        PROVE  MatchInv'
    BY <1>2, PopFrameKeeps, NoFrameKeeps, HandleRefusalKeeps, HandleBeginKeeps, HandleCommitKeeps,
       ApplyResyncKeeps, DeadlineExpiresKeeps
  <1>3. ASSUME NEW b \in batches, Receive(b) \/ LoseBatch(b) PROVE MatchInv'
    BY <1>3, ReceiveKeeps, LoseBatchKeeps
  <1>4. CASE HandleRequest
    BY <1>4, HandleRequestKeeps
  <1>5. CASE UNCHANGED vars
    <2>1. TypeOK /\ QueueContiguous
      BY DEF MatchInv
    <2>2. TypeOK'
      BY <1>5, <2>1 DEF TypeOK, vars
    <2>3. QueueContiguous'
      BY <1>5, <2>1 DEF QueueContiguous, vars
    <2>4. /\ UNCHANGED <<controller, captured, resynced>> /\ batches' = batches /\ paused' = paused
      BY <1>5 DEF vars, controller
    <2> QED BY <2>2, <2>3, <2>4, TimelinesKept
  <1> QED BY <1>1, <1>2, <1>3, <1>4, <1>5 DEF Next

LEMMA AlwaysMatchInv == Spec => []MatchInv
  BY InitMatchInv, NextKeepsMatchInv, PTL DEF Spec

\* The types.
THEOREM AlwaysTypeOK == Spec => []TypeOK
  <1>1. MatchInv => TypeOK
    BY DEF MatchInv
  <1> QED BY <1>1, AlwaysMatchInv, PTL

\* Whatever is lost, duplicated, reordered or forgotten, an input a peer knows
\* of another player is the one that player gave.
THEOREM KnownAlwaysAuthentic == Spec => []KnownAuthentic
  <1>1. MatchInv => KnownAuthentic
    BY DEF MatchInv
  <1> QED BY <1>1, AlwaysMatchInv, PTL

\* No rollback leaves a hole in the queue of frames, or a tick twice.
THEOREM QueueAlwaysContiguous == Spec => []QueueContiguous
  <1>1. MatchInv => QueueContiguous
    BY DEF MatchInv
  <1> QED BY <1>1, AlwaysMatchInv, PTL

\* A peer that plays on has applied every correction it was sent.
THEOREM CorrectionsAlwaysApplied == Spec => []CorrectionApplied
  <1>1. MatchInv => CorrectionApplied
    BY DEF MatchInv
  <1> QED BY <1>1, AlwaysMatchInv, PTL

-----------------------------------------------------------------------------
(* A peer that pauses is answered, in a match of two.                      *)

\* What the argument needs of the constants: the batches that reach a joined
\* peer are the host's, and the host does not forget the primed inputs before
\* it emits them.
TwoPlayers == PlayerCount <= 2 /\ InputDelay < MaxHistory

\* A queue that holds a message, and one that holds requests or refusals only.
Carries(q, m) == \E i \in 1..Len(q) : q[i] = m
HasRequest(q) == \E i \in 1..Len(q) : q[i].kind = "request"
AsksOnly(q) == \A i \in 1..Len(q) : q[i].kind \in {"request", "refused"}

\* No stream reaches the host: it never resynchronises.
HostServes == AsksOnly(channel[Host]) /\ pendingSnapshot[Host] = None

\* From its first input on the host has frames to simulate, or a snapshot, and
\* the first frame it simulates is one it takes a snapshot of.
HostPlays ==
  /\ capture[Host] > 0 => nextEmit[Host] > 0 /\ (snapshots[Host] # << >> \/ inFrame[Host])
  /\ snapshots[Host] = << >> => Len(frames[Host]) = nextEmit[Host]
  /\ capture[Host] = 0 /\ nextEmit[Host] = 0 => known[Host][Host] = Primed

\* A joined peer hears of the host, and asks it, after the host's first input.
HostHeard ==
  /\ \A b \in batches : b.slot = Host => capture[Host] > 0
  /\ HasRequest(channel[Host]) => capture[Host] > 0

ServiceInv == HostServes /\ HostPlays /\ HostHeard /\ PausedIsAnswered

\* What a queue holds when it grows, and when its first message is taken.
LEMMA GrownQueue ==
  ASSUME NEW q \in Seq(Message), NEW r \in Seq(Message), NEW m
  PROVE  /\ q \o r \in Seq(Message)
         /\ Carries(q, m) \/ Carries(r, m) => Carries(q \o r, m)
         /\ HasRequest(q \o r) => HasRequest(q) \/ HasRequest(r)
         /\ AsksOnly(q) /\ AsksOnly(r) => AsksOnly(q \o r)
  <1> DEFINE M == Message
  <1> HIDE DEF M
  <1>1. q \in Seq(M) /\ r \in Seq(M)
    BY DEF M
  <1>2. /\ q \o r \in Seq(M) /\ Len(q \o r) = Len(q) + Len(r) /\ Len(q) \in Nat /\ Len(r) \in Nat
        /\ \A i \in 1..(Len(q) + Len(r)) :
             (q \o r)[i] = IF i <= Len(q) THEN q[i] ELSE r[i - Len(q)]
    BY <1>1, ConcatProperties
  <1>3. \A i \in 1..Len(q) : i \in 1..Len(q \o r) /\ (q \o r)[i] = q[i]
    BY <1>2
  <1>4. \A i \in 1..Len(r) : Len(q) + i \in 1..Len(q \o r) /\ (q \o r)[Len(q) + i] = r[i]
    BY <1>2
  <1>5. \A i \in 1..Len(q \o r) :
          \/ i \in 1..Len(q) /\ (q \o r)[i] = q[i]
          \/ i - Len(q) \in 1..Len(r) /\ (q \o r)[i] = r[i - Len(q)]
    BY <1>2
  <1>6. Carries(q, m) \/ Carries(r, m) => Carries(q \o r, m)
    BY <1>3, <1>4 DEF Carries
  <1>7. HasRequest(q \o r) => HasRequest(q) \/ HasRequest(r)
    BY <1>5 DEF HasRequest
  <1>8. AsksOnly(q) /\ AsksOnly(r) => AsksOnly(q \o r)
    BY <1>5 DEF AsksOnly
  <1> QED BY <1>2, <1>6, <1>7, <1>8 DEF M

LEMMA ShortenedLink ==
  ASSUME NEW q \in Seq(Message), q # << >>, NEW m
  PROVE  /\ Carries(q, m) /\ Head(q) # m => Carries(Tail(q), m)
         /\ HasRequest(Tail(q)) => HasRequest(q)
         /\ AsksOnly(q) => AsksOnly(Tail(q)) /\ Head(q).kind \in {"request", "refused"}
         /\ Head(q).kind = "request" => HasRequest(q)
  <1> DEFINE M == Message
  <1> HIDE DEF M
  <1>1. q \in Seq(M)
    BY DEF M
  <1>2. Len(q) \in Nat \ {0} /\ Head(q) = q[1] /\ 1 \in 1..Len(q) /\ Len(Tail(q)) = Len(q) - 1
    BY <1>1
  <1>3. \A i \in 1..Len(Tail(q)) : i + 1 \in 1..Len(q) /\ Tail(q)[i] = q[i + 1]
    BY <1>1, <1>2
  <1>4. \A i \in 1..Len(q) : i # 1 => i - 1 \in 1..Len(Tail(q)) /\ Tail(q)[i - 1] = q[i]
    BY <1>1, <1>2
  <1>5. Carries(q, m) /\ Head(q) # m => Carries(Tail(q), m)
    BY <1>2, <1>4 DEF Carries
  <1>6. HasRequest(Tail(q)) => HasRequest(q)
    BY <1>3 DEF HasRequest
  <1>7. AsksOnly(q) => AsksOnly(Tail(q)) /\ Head(q).kind \in {"request", "refused"}
    BY <1>2, <1>3 DEF AsksOnly
  <1>8. Head(q).kind = "request" => HasRequest(q)
    BY <1>2 DEF HasRequest
  <1> QED BY <1>5, <1>6, <1>7, <1>8

\* PausedIsAnswered, peer by peer.
Asked(p) == Carries(channel[Host], [kind |-> "request", id |-> active[p]])
Streamed(p) == Carries(channel[p], [kind |-> "begin", id |-> active[p]])
Answered(p) ==
  paused[p] /\ error[Host] = "" =>
    Asked(p) \/ Streamed(p) \/ assembling[p] # None \/ pendingSnapshot[p] # None

LEMMA AnsweredFacts ==
  ASSUME TypeOK
  PROVE  PausedIsAnswered <=> \A p \in Slot \ {Host} : Answered(p)
  <1>1. \A p \in Slot : channel[p] \in Seq(Message)
    BY PeerFacts
  <1>2. \A p \in Slot : DOMAIN channel[p] = 1..Len(channel[p])
    BY <1>1
  <1> QED BY <1>2, Numbers DEF PausedIsAnswered, Answered, Asked, Streamed, Carries

LEMMA AnsweredNext ==
  ASSUME TypeOK'
  PROVE  (\A p \in Slot \ {Host} : Answered(p)') => PausedIsAnswered'
  <1>1. \A p \in Slot : channel'[p] \in Seq(Message)
    BY DEF TypeOK
  <1>2. \A p \in Slot : DOMAIN channel'[p] = 1..Len(channel'[p])
    BY <1>1
  <1> QED BY <1>2, Numbers DEF PausedIsAnswered, Answered, Asked, Streamed, Carries

\* The step of a peer that leaves the links, and what the others wait for, alone.
LEMMA AnsweredKept ==
  ASSUME TypeOK, TypeOK', PausedIsAnswered,
         UNCHANGED <<paused, active, assembling, pendingSnapshot, channel>>, error[Host] # "" => error'[Host] # ""
  PROVE  PausedIsAnswered'
  BY DEF PausedIsAnswered

LEMMA InitServiceInv == Init => ServiceInv
  <1> SUFFICES ASSUME Init PROVE ServiceInv
    OBVIOUS
  <1>1. \A p \in Slot : /\ capture[p] = 0 /\ nextEmit[p] = 0 /\ known[p][p] = Primed
                        /\ frames[p] = << >> /\ channel[p] = << >> /\ ~paused[p]
                        /\ pendingSnapshot[p] = None
    BY DEF Init
  <1>2. batches = {} /\ Host \in Slot
    BY Numbers DEF Init
  <1>3. HostServes
    BY <1>1, <1>2 DEF HostServes, AsksOnly
  <1>4. HostPlays
    BY <1>1, <1>2 DEF HostPlays
  <1>5. HostHeard
    BY <1>1, <1>2 DEF HostHeard, HasRequest
  <1>6. PausedIsAnswered
    BY <1>1 DEF PausedIsAnswered
  <1> QED BY <1>3, <1>4, <1>5, <1>6 DEF ServiceInv

\* The first input of the host makes it emit a frame.
LEMMA HostEmits ==
  ASSUME TwoPlayers, TypeOK, HostPlays, NEW in \in Input, Capture(Host, in)
  PROVE  nextEmit'[Host] > 0
  <1> DEFINE T == Target(Host)
             slotMap == [known[Host][Host] EXCEPT ![T] = in]
             oldest == MaxOf({nextEmit[Host], T - MaxHistory + 1})
             own == [t \in Tick |-> IF t \in oldest..T THEN slotMap[t] ELSE None]
             k == [known[Host] EXCEPT ![Host] = own]
  <1>1. PICK next \in nextEmit[Host]..(MaxTick + 1) :
          EmitsUpTo(Host, k, next) /\ nextEmit' = [nextEmit EXCEPT ![Host] = next]
    BY DEF Capture
  <1>2. T \in Tick
    BY DEF Capture
  <1>3. /\ Host \in Slot /\ nextEmit[Host] \in Nat /\ capture[Host] \in Nat
        /\ nextEmit \in [Slot -> Nat] /\ known[Host] \in Table
        /\ known[Host][Host] \in [Tick -> Input \cup {None}]
    BY PeerFacts, Numbers DEF TypeOK
  <1>4. nextEmit'[Host] = next
    BY <1>1, <1>3
  <1>5. CASE nextEmit[Host] > 0 \/ capture[Host] > 0
    BY <1>1, <1>3, <1>4, <1>5, Numbers DEF HostPlays
  <1>6. CASE nextEmit[Host] = 0 /\ capture[Host] = 0
    <2>1. known[Host][Host] = Primed /\ T = InputDelay
      BY <1>3, <1>6, Numbers DEF HostPlays, Target
    <2>2. 0 \in Tick
      BY Numbers DEF Tick
    <2>3. slotMap[0] # None
      <3>1. CASE T = 0
        BY <1>2, <1>3, <3>1, Numbers
      <3>2. CASE T # 0
        <4>1. slotMap[0] = Primed[0]
          BY <1>3, <2>1, <2>2, <3>2
        <4>2. Primed[0] = Neutral
          BY <2>1, <2>2, <3>2, Numbers DEF Primed
        <4> QED BY <4>1, <4>2, Numbers
      <3> QED BY <3>1, <3>2
    <2>4. 0 \in oldest..T
      <3>1. oldest = IF 0 >= T - MaxHistory + 1 THEN 0 ELSE T - MaxHistory + 1
        BY <1>6, <2>1, Numbers, LargerOfTwo
      <3>2. T \in Nat /\ T < MaxHistory /\ MaxHistory \in Nat
        BY <2>1, Numbers DEF TwoPlayers
      <3> HIDE DEF T, oldest
      <3> QED BY <3>1, <3>2
    <2>5. own[0] # None
      <3> HIDE DEF T, oldest, slotMap
      <3> QED BY <2>2, <2>3, <2>4
    <2>6. k[Host][0] # None
      <3> HIDE DEF own
      <3> QED BY <1>3, <2>5 DEF Table
    <2>7. next # 0
      <3> HIDE DEF k
      <3> QED BY <1>1, <2>2, <2>6 DEF EmitsUpTo
    <2> QED BY <1>1, <1>3, <1>4, <2>7, Numbers
  <1> QED BY <1>3, <1>5, <1>6

\* What a gameplay frame leaves of the host's service.
LEMMA CaptureServes ==
  ASSUME TwoPlayers, MatchInv, MatchInv', ServiceInv, NEW p \in Slot, NEW in \in Input, Capture(p, in)
  PROVE  ServiceInv'
  <1>0. TypeOK /\ TypeOK' /\ HostServes /\ HostPlays /\ HostHeard /\ PausedIsAnswered
    BY DEF MatchInv, ServiceInv
  <1> DEFINE T == Target(p)
             slotMap == [known[p][p] EXCEPT ![T] = in]
             oldest == MaxOf({nextEmit[p], T - MaxHistory + 1})
             k == [known[p] EXCEPT ![p] = [t \in Tick |-> IF t \in oldest..T THEN slotMap[t] ELSE None]]
  <1>1. /\ Forward(p, Samples(p, slotMap))
        /\ known' = [known EXCEPT ![p] = k]
        /\ capture' = [capture EXCEPT ![p] = capture[p] + 1]
        /\ inFrame' = [inFrame EXCEPT ![p] = TRUE]
        /\ UNCHANGED <<snapshots, seenSlots, resync>>
    BY DEF Capture
  <1>2. PICK next \in nextEmit[p]..(MaxTick + 1) :
          /\ nextEmit' = [nextEmit EXCEPT ![p] = next]
          /\ frames' = [frames EXCEPT ![p] = frames[p] \o FramesFrom(k, nextEmit[p], next)]
    BY DEF Capture
  <1>3. \A b \in batches' \ batches : b.slot = p
    BY <1>1 DEF Forward
  <1>4. /\ capture \in [Slot -> Nat] /\ nextEmit \in [Slot -> Nat] /\ inFrame \in [Slot -> BOOLEAN]
        /\ frames \in [Slot -> Seq(Frame)] /\ known \in [Slot -> Table]
    BY <1>0 DEF TypeOK, Table
  <1> HIDE DEF T, slotMap, oldest, k
  <1>5. /\ capture'[p] = capture[p] + 1 /\ nextEmit'[p] = next /\ inFrame'[p]
        /\ frames'[p] = frames[p] \o FramesFrom(k, nextEmit[p], next) /\ known'[p] = k
        /\ \A q \in Slot \ {p} : /\ capture'[q] = capture[q] /\ nextEmit'[q] = nextEmit[q]
                                  /\ inFrame'[q] = inFrame[q] /\ frames'[q] = frames[q]
                                  /\ known'[q] = known[q]
    BY <1>1, <1>2, <1>4
  <1>6. Host \in Slot /\ capture[p] \in Nat /\ nextEmit[p] \in Nat /\ next \in Nat
    BY <1>2, <1>4, Numbers
  <1>7. HostServes'
    BY <1>0, <1>1 DEF HostServes, resync
  <1>8. PausedIsAnswered'
    <2>1. UNCHANGED <<paused, active, assembling, pendingSnapshot, channel, error>>
      BY <1>1 DEF resync
    <2> QED BY <1>0, <2>1, AnsweredKept
  <1>9. HostHeard'
    <2>1. capture[Host] > 0 => capture'[Host] > 0
      BY <1>5, <1>6
    <2>2. \A b \in batches' : b.slot = Host => capture'[Host] > 0
      BY <1>0, <1>3, <1>5, <1>6, <2>1 DEF HostHeard
    <2>3. HasRequest(channel'[Host]) => capture'[Host] > 0
      BY <1>0, <1>1, <2>1 DEF HostHeard, resync
    <2> QED BY <2>2, <2>3 DEF HostHeard
  <1>10. CASE p # Host
    <2>1. HostPlays'
      BY <1>0, <1>1, <1>5, <1>6, <1>10 DEF HostPlays, HasRequest
    <2> QED BY <1>7, <1>8, <1>9, <2>1 DEF ServiceInv
  <1>11. CASE p = Host
    <2>1. nextEmit'[Host] > 0
      BY <1>0, <1>11, HostEmits
    <2>2. snapshots' = snapshots
      BY <1>1
    <2>3. snapshots[Host] = << >> => Len(frames'[Host]) = nextEmit'[Host]
      <3>1. k \in Table
        BY <1>0, <1>5, PeerFacts DEF TypeOK, Table
      <3>2. next <= MaxTick + 1 /\ nextEmit[p] <= next
        BY <1>2, <1>4, Numbers
      <3> DEFINE new == FramesFrom(k, nextEmit[p], next)  F == Frame
      <3>3. new \in Seq(Frame) /\ Len(new) = next - nextEmit[p]
        BY <1>6, <3>1, <3>2, FramesFacts
      <3> HIDE DEF new, F
      <3>4. frames[p] \in Seq(F) /\ new \in Seq(F)
        BY <1>4, <3>3 DEF F
      <3>5. Len(frames[p] \o new) = Len(frames[p]) + Len(new)
        BY <3>4, ConcatProperties
      <3>6. frames'[p] = frames[p] \o new
        BY <1>5 DEF new
      <3> QED BY <1>0, <1>5, <1>6, <1>11, <3>3, <3>5, <3>6 DEF HostPlays
    <2>4. capture'[Host] # 0
      BY <1>5, <1>6, <1>11
    <2>5. HostPlays'
      BY <1>5, <1>11, <2>1, <2>2, <2>3, <2>4 DEF HostPlays
    <2> QED BY <1>7, <1>8, <1>9, <2>5 DEF ServiceInv
  <1> QED BY <1>10, <1>11

\* The host's first snapshot is taken after the first frame it simulates.
LEMMA PopFrameServes ==
  ASSUME MatchInv, MatchInv', ServiceInv, NEW p \in Slot, PopFrame(p)
  PROVE  ServiceInv'
  <1>0. TypeOK /\ TypeOK' /\ HostServes /\ HostPlays /\ HostHeard /\ PausedIsAnswered /\ QueueContiguous
    BY DEF MatchInv, ServiceInv
  <1>1. /\ frames[p] # << >> /\ frames' = [frames EXCEPT ![p] = Tail(frames[p])]
        /\ snapshots' = [snapshots EXCEPT ![p] = Stored(snapshots[p], Head(frames[p]).tick)]
        /\ inFrame' = [inFrame EXCEPT ![p] = FALSE]
        /\ UNCHANGED <<controller, seenSlots, resync, batches, captured>>
    BY DEF PopFrame
  <1>2. /\ frames \in [Slot -> Seq(Frame)] /\ snapshots \in [Slot -> Seq(Tick)]
        /\ inFrame \in [Slot -> BOOLEAN] /\ nextEmit[p] \in Nat /\ Host \in Slot
    BY <1>0, Numbers DEF TypeOK
  <1>3. HostServes'
    BY <1>0, <1>1 DEF HostServes, resync
  <1>4. PausedIsAnswered'
    <2>1. UNCHANGED <<paused, active, assembling, pendingSnapshot, channel, error>>
      BY <1>1 DEF resync
    <2> QED BY <1>0, <2>1, AnsweredKept
  <1>5. HostHeard'
    BY <1>0, <1>1 DEF HostHeard, resync, controller
  <1>6. CASE p # Host
    <2>1. frames'[Host] = frames[Host] /\ snapshots'[Host] = snapshots[Host] /\ inFrame'[Host] = inFrame[Host]
      BY <1>1, <1>2, <1>6
    <2>2. HostPlays'
      BY <1>0, <1>1, <2>1 DEF HostPlays, controller
    <2> QED BY <1>3, <1>4, <1>5, <2>2 DEF ServiceInv
  <1>7. CASE p = Host
    <2>1. snapshots'[Host] = Stored(snapshots[Host], Head(frames[Host]).tick)
      BY <1>1, <1>2, <1>7
    <2>2. Stored(snapshots[Host], Head(frames[Host]).tick) # << >>
      <3> DEFINE t == Head(frames[Host]).tick
                 o == Only(snapshots[Host], {i \in DOMAIN snapshots[Host] :
                                     snapshots[Host][i] # t /\ snapshots[Host][i] >= t - KeepSnapshots})
      <3>1. Stored(snapshots[Host], t) = IF t % SnapshotEvery # 0 THEN snapshots[Host] ELSE Append(o, t)
        BY DEF Stored
      <3>2. t \in Tick
        <4>1. Head(frames[Host]) \in Frame
          BY <1>1, <1>2, <1>7, HeadTailProperties
        <4> QED BY <4>1 DEF Frame
      <3>3. o \in Seq(Tick)
        BY <1>2, OnlyTyped
      <3> HIDE DEF o
      <3>4. Append(o, t) # << >>
        <4> HIDE DEF t
        <4>1. Len(Append(o, t)) = Len(o) + 1 /\ Len(o) \in Nat
          BY <3>2, <3>3, AppendProperties
        <4>2. Len(<< >>) = 0
          OBVIOUS
        <4> QED BY <4>1, <4>2
      <3>5. CASE snapshots[Host] # << >>
        <4>1. Stored(snapshots[Host], t) # << >>
          <5> HIDE DEF t
          <5> QED BY <3>1, <3>4, <3>5
        <4> QED BY <4>1
      <3>6. CASE snapshots[Host] = << >>
        <4>1. Len(frames[Host]) = nextEmit[Host] /\ Len(frames[Host]) \in Nat \ {0}
          BY <1>0, <1>1, <1>2, <1>7, <3>6 DEF HostPlays
        <4>2. Contiguous(frames[Host], nextEmit[Host])
          BY <1>0, <1>2, QueueFacts
        <4>3. frames[Host][1].tick = nextEmit[Host] - 1 - Len(frames[Host]) + 1
          <5>1. 1 \in 1..Len(frames[Host])
            BY <4>1
          <5> QED BY <4>2, <5>1 DEF Contiguous
        <4>4. t = 0
          <5>1. Head(frames[Host]) = frames[Host][1]
            BY <1>2
          <5> QED BY <1>2, <1>7, <4>1, <4>3, <5>1
        <4>5. 0 % SnapshotEvery = 0
          BY RollbackAssumption
        <4>6. Stored(snapshots[Host], t) # << >>
          <5> HIDE DEF t
          <5> QED BY <3>1, <3>4, <4>4, <4>5
        <4> QED BY <4>6
      <3> QED BY <3>5, <3>6
    <2>3. HostPlays'
      BY <1>0, <1>1, <2>1, <2>2 DEF HostPlays, controller
    <2> QED BY <1>3, <1>4, <1>5, <2>3 DEF ServiceInv
  <1> QED BY <1>6, <1>7

LEMMA NoFrameServes ==
  ASSUME MatchInv, MatchInv', ServiceInv, NEW p \in Slot, NoFrame(p)
  PROVE  ServiceInv'
  <1>0. TypeOK /\ TypeOK' /\ HostServes /\ HostPlays /\ HostHeard /\ PausedIsAnswered
    BY DEF MatchInv, ServiceInv
  <1>1. /\ frames[p] = << >> /\ inFrame' = [inFrame EXCEPT ![p] = FALSE]
        /\ UNCHANGED <<controller, frames, snapshots, seenSlots, resync, batches, captured>>
    BY DEF NoFrame
  <1>2. inFrame \in [Slot -> BOOLEAN] /\ Host \in Slot
    BY <1>0, Numbers DEF TypeOK
  <1>3. HostServes'
    BY <1>0, <1>1 DEF HostServes, resync
  <1>4. PausedIsAnswered'
    <2>1. UNCHANGED <<paused, active, assembling, pendingSnapshot, channel, error>>
      BY <1>1 DEF resync
    <2> QED BY <1>0, <2>1, AnsweredKept
  <1>5. HostHeard'
    BY <1>0, <1>1 DEF HostHeard, resync, controller
  <1>6. HostPlays'
    <2>1. CASE p # Host
      BY <1>0, <1>1, <1>2, <2>1 DEF HostPlays, controller
    <2>2. CASE p = Host
      <3>1. snapshots[Host] # << >> \/ nextEmit[Host] = 0
        BY <1>0, <1>1, <2>2 DEF HostPlays
      <3>2. nextEmit[Host] \in Nat
        BY <1>0, <1>2, PeerFacts
      <3> QED BY <1>0, <1>1, <3>1, <3>2 DEF HostPlays, controller
    <2> QED BY <2>1, <2>2
  <1> QED BY <1>3, <1>4, <1>5, <1>6 DEF ServiceInv

LEMMA LoseBatchServes ==
  ASSUME MatchInv, MatchInv', ServiceInv, NEW b \in batches, LoseBatch(b)
  PROVE  ServiceInv'
  <1>0. TypeOK /\ TypeOK' /\ HostServes /\ HostPlays /\ HostHeard /\ PausedIsAnswered
    BY DEF MatchInv, ServiceInv
  <1>1. /\ batches' \subseteq batches
        /\ UNCHANGED <<controller, frames, snapshots, seenSlots, resync, inFrame, captured>>
    BY DEF LoseBatch
  <1>2. HostServes'
    BY <1>0, <1>1 DEF HostServes, resync
  <1>3. PausedIsAnswered'
    <2>1. UNCHANGED <<paused, active, assembling, pendingSnapshot, channel, error>>
      BY <1>1 DEF resync
    <2> QED BY <1>0, <2>1, AnsweredKept
  <1>4. HostHeard'
    BY <1>0, <1>1 DEF HostHeard, resync, controller
  <1>5. HostPlays'
    BY <1>0, <1>1 DEF HostPlays, controller
  <1> QED BY <1>2, <1>3, <1>4, <1>5 DEF ServiceInv

\* A peer that asks has its last request on the host's link.
LEMMA AskedFacts ==
  ASSUME TypeOK, NEW p \in Slot, NEW count \in Nat, AskForResync(p, count)
  PROVE  /\ \A m : Carries(channel[Host], m) => Carries(channel'[Host], m)
         /\ \A q \in Slot \ {Host} : channel'[q] = channel[q]
         /\ \A q \in Slot \ {p} : active'[q] = active[q] /\ paused'[q] = paused[q]
         /\ IF count = 0 THEN active' = active /\ paused' = paused
            ELSE p # Host => Carries(channel'[Host], [kind |-> "request", id |-> active'[p]])
         /\ AsksOnly(channel[Host]) => AsksOnly(channel'[Host])
         /\ HasRequest(channel'[Host]) => HasRequest(channel[Host]) \/ (p # Host /\ count # 0)
  <1>1. /\ channel \in [Slot -> Seq(Message)] /\ active \in [Slot -> Request \cup {None}]
        /\ paused \in [Slot -> BOOLEAN] /\ channel[Host] \in Seq(Message) /\ Host \in Slot
    BY Numbers DEF TypeOK
  <1>2. CASE count = 0
    <2>1. channel' = channel /\ paused' = paused /\ active' = active
      BY <1>2 DEF AskForResync
    <2> QED BY <1>2, <2>1
  <1>3. CASE count # 0
    <2> DEFINE M(i) == IF p = Host THEN [kind |-> "refused"] ELSE [kind |-> "request", id |-> requests + i]
               sent == [i \in 1..count |-> M(i)]
    <2>1. /\ paused' = [paused EXCEPT ![p] = TRUE]
          /\ active' = [active EXCEPT ![p] = requests + count]
          /\ channel' = [channel EXCEPT ![Host] = channel[Host] \o sent]
          /\ requests + count <= MaxRequests
      BY <1>3 DEF AskForResync
    <2>2. requests \in 0..MaxRequests
      BY DEF TypeOK
    <2>3. \A i \in 1..count : requests + i \in Request
      BY <2>1, <2>2, Numbers DEF Request
    <2>4. \A i \in 1..count : M(i) \in Message
      BY <2>3 DEF Message
    <2>5. sent \in Seq(Message) /\ Len(sent) = count /\ \A i \in 1..count : sent[i] = M(i)
      <3> HIDE DEF M
      <3> QED BY <2>4
    <2> HIDE DEF sent
    <2>6. channel'[Host] = channel[Host] \o sent /\ \A q \in Slot \ {Host} : channel'[q] = channel[q]
      BY <1>1, <2>1
    <2>7. active'[p] = requests + count
      BY <1>1, <2>1
    <2>8. AsksOnly(sent) /\ (p # Host => Carries(sent, [kind |-> "request", id |-> active'[p]]))
      <3>1. AsksOnly(sent)
        BY <2>5 DEF AsksOnly
      <3>2. count \in 1..Len(sent) /\ sent[count] = M(count)
        BY <1>3, <2>5
      <3> QED BY <2>7, <3>1, <3>2 DEF Carries
    <2>9. HasRequest(sent) => p # Host
      BY <2>5 DEF HasRequest
    <2>10. \A q \in Slot \ {p} : active'[q] = active[q] /\ paused'[q] = paused[q]
      BY <1>1, <2>1
    <2>11. \A m : /\ Carries(channel[Host], m) \/ Carries(sent, m) => Carries(channel'[Host], m)
                  /\ HasRequest(channel'[Host]) => HasRequest(channel[Host]) \/ HasRequest(sent)
                  /\ AsksOnly(channel[Host]) /\ AsksOnly(sent) => AsksOnly(channel'[Host])
      <3> HIDE DEF M
      <3> QED BY <1>1, <2>5, <2>6, GrownQueue
    <2> QED BY <1>3, <2>6, <2>8, <2>9, <2>10, <2>11
  <1> QED BY <1>2, <1>3

LEMMA ReceiveServes ==
  ASSUME TwoPlayers, MatchInv, MatchInv', ServiceInv, NEW b \in batches, Receive(b)
  PROVE  ServiceInv'
  <1>0. /\ TypeOK /\ TypeOK' /\ HostServes /\ HostPlays /\ HostHeard /\ PausedIsAnswered
        /\ QueueContiguous /\ BatchesAuthentic /\ EmittedInTurn
    BY DEF MatchInv, ServiceInv
  <1> DEFINE p == b.to
             own == [t \in Tick |-> IF t \in DOMAIN b.samples THEN b.samples[t] ELSE known[p][b.slot][t]]
             k == [known[p] EXCEPT ![b.slot] = own]
             late == Late(p, b)
             tooLate == {t \in late : nextEmit[p] - t > MaxRollback}
             from == MinOf(late \ tooLate)
             rollback == late \ tooLate # {} /\ HasSnapshot(p, from - 1)
             first == IF rollback THEN from ELSE nextEmit[p]
             count == (IF late \ tooLate # {} /\ ~rollback THEN 1 ELSE 0)
                          + (IF tooLate # {} THEN 1 ELSE 0)
  <1>1. /\ known' = [known EXCEPT ![p] = k]
        /\ AskForResync(p, count)
        /\ batches' \subseteq batches
        /\ UNCHANGED <<capture, snapshots, assembling, pendingSnapshot, deadline, error, inFrame,
                    captured, resynced>>
    BY DEF Receive
  <1>2. PICK next \in nextEmit[p]..(MaxTick + 1) :
          /\ nextEmit' = [nextEmit EXCEPT ![p] = next]
          /\ frames' = [frames EXCEPT ![p] = Rewound(frames[p], FramesFrom(k, first, next), first)]
    BY DEF Receive
  <1>3. p \in Slot /\ b.slot \in Slot \ {p} /\ Host \in Slot
    BY <1>0, Numbers DEF BatchesAuthentic
  <1>4. count \in Nat
    OBVIOUS
  <1>5. snapshots[p] = << >> => first = nextEmit[p]
    BY DEF HasSnapshot
  <1> HIDE DEF p, own, late, tooLate, from, rollback, first, count
  <1>6. k[p] = known[p][p]
    BY <1>0, <1>3, PeerFacts DEF Table
  <1>7. p # Host => capture[Host] > 0
    <2>1. p # Host => b.slot = Host
      BY <1>3, Numbers DEF TwoPlayers, Slot, Host
    <2> QED BY <1>0, <2>1 DEF HostHeard
  <1> HIDE DEF k
  <1>8. /\ (\A m : Carries(channel[Host], m) => Carries(channel'[Host], m))
        /\ (\A q \in Slot \ {Host} : channel'[q] = channel[q])
        /\ (\A q \in Slot \ {p} : active'[q] = active[q] /\ paused'[q] = paused[q])
        /\ (IF count = 0 THEN active' = active /\ paused' = paused
            ELSE p # Host => Carries(channel'[Host], [kind |-> "request", id |-> active'[p]]))
        /\ (AsksOnly(channel[Host]) => AsksOnly(channel'[Host]))
        /\ (HasRequest(channel'[Host]) => HasRequest(channel[Host]) \/ (p # Host /\ count # 0))
    BY <1>0, <1>1, <1>3, <1>4, AskedFacts
  <1>9. HostServes'
    BY <1>0, <1>1, <1>8 DEF HostServes
  <1>10. HostHeard'
    BY <1>0, <1>1, <1>7, <1>8 DEF HostHeard
  <1>11. PausedIsAnswered'
    <2>1. \A q \in Slot \ {Host} : Answered(q)
      BY <1>0, AnsweredFacts
    <2> SUFFICES ASSUME NEW q \in Slot \ {Host} PROVE Answered(q)'
      BY <1>0, AnsweredNext
    <2>2. CASE q = p /\ count # 0
      BY <1>8, <2>2 DEF Answered, Asked
    <2>3. CASE ~(q = p /\ count # 0)
      <3>1. active'[q] = active[q] /\ paused'[q] = paused[q] /\ channel'[q] = channel[q]
        BY <1>8, <2>3
      <3>2. Asked(q) => Asked(q)'
        BY <1>8, <3>1 DEF Asked
      <3>3. Streamed(q)' <=> Streamed(q)
        BY <3>1 DEF Streamed
      <3> QED BY <1>1, <2>1, <3>1, <3>2, <3>3 DEF Answered
    <2> QED BY <2>2, <2>3
  <1>12. /\ nextEmit'[p] = next /\ frames'[p] = Rewound(frames[p], FramesFrom(k, first, next), first)
         /\ known'[p] = k
         /\ \A q \in Slot \ {p} : /\ nextEmit'[q] = nextEmit[q] /\ frames'[q] = frames[q]
                                   /\ known'[q] = known[q]
    BY <1>0, <1>1, <1>2, <1>3 DEF TypeOK
  <1>13. HostPlays'
    <2>1. CASE p # Host
      BY <1>0, <1>1, <1>3, <1>12, <2>1 DEF HostPlays
    <2>2. CASE p = Host
      <3>1. nextEmit[Host] \in Nat /\ nextEmit[Host] <= next /\ next \in Nat /\ next <= MaxTick + 1
        <4>1. nextEmit[p] \in 0..(MaxTick + 1)
          BY <1>0, <1>3 DEF EmittedInTurn
        <4> QED BY <2>2, <4>1, Numbers
      <3>2. snapshots[Host] = << >> => Len(frames'[Host]) = next
        <4> SUFFICES ASSUME snapshots[Host] = << >> PROVE Len(frames'[Host]) = next
          OBVIOUS
        <4>1. /\ frames[p] \in Seq(Frame) /\ Contiguous(frames[p], nextEmit[p])
              /\ Len(frames[p]) = nextEmit[p] /\ first = nextEmit[p]
          BY <1>0, <1>3, <1>5, <2>2, PeerFacts, QueueFacts DEF HostPlays
        <4>2. k \in Table
          BY <1>0, <1>3, <1>12, PeerFacts DEF TypeOK, Table
        <4>3. Len(Rewound(frames[p], FramesFrom(k, first, next), first)) = Len(frames[p]) + (next - nextEmit[p])
          BY <2>2, <3>1, <4>1, <4>2, RewoundQueue
        <4> QED BY <1>12, <2>2, <3>1, <4>1, <4>3
      <3>3. nextEmit'[Host] = next /\ known'[Host][Host] = known[Host][Host]
        BY <1>6, <1>12, <2>2
      <3>4. nextEmit[Host] > 0 => next > 0
        BY <3>1
      <3>5. next = 0 => nextEmit[Host] = 0
        BY <3>1
      <3> QED BY <1>0, <1>1, <3>2, <3>3, <3>4, <3>5 DEF HostPlays
    <2> QED BY <2>1, <2>2
  <1> QED BY <1>9, <1>10, <1>11, <1>13 DEF ServiceInv

\* The host answers a request with its latest snapshot: it has one.
LEMMA HandleRequestServes ==
  ASSUME MatchInv, MatchInv', ServiceInv, HandleRequest
  PROVE  ServiceInv'
  <1>0. TypeOK /\ TypeOK' /\ HostServes /\ HostPlays /\ HostHeard /\ PausedIsAnswered
    BY DEF MatchInv, ServiceInv
  <1> DEFINE id == FirstOf(Host).id
             answer == Answer(Host, id)
             begin == [kind |-> "begin", id |-> id]
  <1>1. /\ Take(Host, "request")
        /\ channel' = [p \in Slot |-> IF p = Host THEN Tail(channel[p]) ELSE channel[p] \o answer]
        /\ UNCHANGED <<controller, frames, snapshots, seenSlots, paused, active, assembling,
                 pendingSnapshot, deadline, error, inFrame, requests, batches, captured, resynced>>
    BY DEF HandleRequest
  <1>2. Host \in Slot /\ channel[Host] \in Seq(Message) /\ channel[Host] # << >> /\ ~inFrame[Host]
    BY <1>0, <1>1, Numbers, PeerFacts DEF Take
  <1>3. FirstOf(Host) \in Message /\ FirstOf(Host).kind = "request" /\ id \in Request
    BY <1>0, <1>1, <1>2, TakenFacts, MessageFacts
  <1>4. FirstOf(Host) = [kind |-> "request", id |-> id]
    BY <1>3 DEF Message
  <1>5. snapshots[Host] # << >>
    <2>1. HasRequest(channel[Host])
      BY <1>2, <1>3, ShortenedLink DEF FirstOf
    <2> QED BY <1>0, <1>2, <2>1 DEF HostHeard, HostPlays
  <1>6. answer \in Seq(Message) /\ Carries(answer, begin)
    <2>1. answer \in Seq(Message)
      BY <1>0, <1>3, AnswerTyped
    <2> DEFINE commit == [kind |-> "commit", id |-> id, tick |-> snapshots[Host][Len(snapshots[Host])]]
    <2>2. answer = <<begin, commit>>
      BY <1>5 DEF Answer
    <2> HIDE DEF begin, commit
    <2>3. Len(<<begin, commit>>) = 2 /\ <<begin, commit>>[1] = begin
      OBVIOUS
    <2> QED BY <2>1, <2>2, <2>3 DEF Carries
  <1> HIDE DEF answer
  <1>7. /\ channel'[Host] = Tail(channel[Host])
        /\ \A q \in Slot \ {Host} : channel'[q] = channel[q] \o answer
    BY <1>1, <1>2
  <1>8. HostServes'
    BY <1>0, <1>1, <1>2, <1>7, ShortenedLink DEF HostServes
  <1>9. HostPlays'
    BY <1>0, <1>1 DEF HostPlays, controller
  <1>10. HostHeard'
    <2>1. HasRequest(channel'[Host]) => HasRequest(channel[Host])
      BY <1>2, <1>7, ShortenedLink
    <2> QED BY <1>0, <1>1, <2>1 DEF HostHeard, controller
  <1>11. PausedIsAnswered'
    <2> SUFFICES ASSUME NEW q \in Slot \ {Host} PROVE Answered(q)'
      BY <1>0, AnsweredNext
    <2>1. Answered(q)
      BY <1>0, AnsweredFacts
    <2>2. channel[q] \in Seq(Message)
      BY <1>0, PeerFacts
    <2>3. Streamed(q) => Streamed(q)'
      BY <1>1, <1>6, <1>7, <2>2, GrownQueue DEF Streamed
    <2>4. Asked(q) => Asked(q)' \/ Streamed(q)'
      <3> DEFINE m == [kind |-> "request", id |-> active[q]]
      <3>1. Asked(q) => Head(channel[Host]) = m \/ Carries(Tail(channel[Host]), m)
        BY <1>2, ShortenedLink DEF Asked
      <3>2. CASE Head(channel[Host]) = m
        <4>1. id = active[q]
          BY <1>4, <3>2 DEF FirstOf
        <4>2. Carries(channel'[q], begin)
          BY <1>6, <1>7, <2>2, GrownQueue
        <4> QED BY <1>1, <4>1, <4>2 DEF Streamed
      <3>3. CASE Carries(Tail(channel[Host]), m)
        BY <1>1, <1>7, <3>3 DEF Asked
      <3> QED BY <3>1, <3>2, <3>3
    <2> QED BY <1>1, <2>1, <2>3, <2>4 DEF Answered
  <1> QED BY <1>8, <1>9, <1>10, <1>11 DEF ServiceInv

\* A step that takes a message of one peer and leaves the host's service alone.
LEMMA TakingServes ==
  ASSUME TypeOK, TypeOK', ServiceInv, NEW p \in Slot, NEW kind, Take(p, kind), channel' = Taken(p),
         UNCHANGED <<controller, frames, snapshots, inFrame, batches>>
  PROVE  /\ AsksOnly(channel'[Host]) /\ HostPlays' /\ HostHeard'
         /\ \A q \in Slot \ {p} : channel'[q] = channel[q]
         /\ \A m : Carries(channel[p], m) /\ FirstOf(p) # m => Carries(channel'[p], m)
         /\ p = Host => kind \in {"request", "refused"}
  <1>0. HostServes /\ HostPlays /\ HostHeard
    BY DEF ServiceInv
  <1>1. /\ channel[p] \in Seq(Message) /\ channel[p] # << >> /\ FirstOf(p).kind = kind
        /\ Host \in Slot /\ channel \in [Slot -> Seq(Message)]
    BY PeerFacts, Numbers DEF Take, TypeOK
  <1>2. channel'[p] = Tail(channel[p]) /\ \A q \in Slot \ {p} : channel'[q] = channel[q]
    BY <1>1 DEF Taken
  <1>3. \A m : Carries(channel[p], m) /\ FirstOf(p) # m => Carries(channel'[p], m)
    BY <1>1, <1>2, ShortenedLink DEF FirstOf
  <1>4. /\ AsksOnly(channel'[Host]) /\ (HasRequest(channel'[Host]) => HasRequest(channel[Host]))
        /\ (p = Host => kind \in {"request", "refused"})
    <2>1. CASE p = Host
      BY <1>0, <1>1, <1>2, <2>1, ShortenedLink DEF FirstOf, HostServes
    <2>2. CASE p # Host
      BY <1>0, <1>1, <1>2, <2>2 DEF HostServes
    <2> QED BY <2>1, <2>2
  <1>5. HostPlays'
    BY <1>0 DEF HostPlays, controller
  <1>6. HostHeard'
    BY <1>0, <1>4 DEF HostHeard, controller
  <1> QED BY <1>2, <1>3, <1>4, <1>5, <1>6

LEMMA HandleRefusalServes ==
  ASSUME MatchInv, MatchInv', ServiceInv, NEW p \in Slot, HandleRefusal(p)
  PROVE  ServiceInv'
  <1>0. TypeOK /\ TypeOK' /\ HostServes /\ PausedIsAnswered
    BY DEF MatchInv, ServiceInv
  <1>1. /\ Take(p, "refused") /\ channel' = Taken(p)
        /\ error' = [error EXCEPT ![p] = "invalid_resync_sender"]
        /\ UNCHANGED <<controller, frames, snapshots, seenSlots, paused, active, assembling,
                 pendingSnapshot, deadline, inFrame, requests, batches, captured, resynced>>
    BY DEF HandleRefusal
  <1>2. /\ AsksOnly(channel'[Host]) /\ HostPlays' /\ HostHeard'
        /\ \A q \in Slot \ {p} : channel'[q] = channel[q]
        /\ \A m : Carries(channel[p], m) /\ FirstOf(p) # m => Carries(channel'[p], m)
    BY <1>0, <1>1, TakingServes
  <1>3. HostServes'
    BY <1>0, <1>1, <1>2 DEF HostServes
  <1>4. FirstOf(p).kind = "refused" /\ error'[p] # "" /\ (\A q \in Slot \ {p} : error'[q] = error[q])
        /\ Host \in Slot
    BY <1>0, <1>1, Numbers DEF Take, TypeOK
  <1>5. PausedIsAnswered'
    <2> SUFFICES ASSUME NEW q \in Slot \ {Host} PROVE Answered(q)'
      BY <1>0, AnsweredNext
    <2>1. Answered(q)
      BY <1>0, AnsweredFacts
    <2>2. CASE p = Host
      BY <1>4, <2>2 DEF Answered
    <2>3. CASE p # Host
      <3>1. FirstOf(p) # [kind |-> "begin", id |-> active[q]]
        <4>1. [kind |-> "begin", id |-> active[q]].kind = "begin"
          OBVIOUS
        <4> QED BY <1>4, <4>1
      <3>2. Streamed(q) => Streamed(q)'
        BY <1>1, <1>2, <3>1 DEF Streamed
      <3>3. Asked(q) => Asked(q)'
        BY <1>1, <1>2, <1>4, <2>3 DEF Asked
      <3> QED BY <1>1, <1>4, <2>1, <2>3, <3>2, <3>3 DEF Answered
    <2> QED BY <2>2, <2>3
  <1> QED BY <1>2, <1>3, <1>5 DEF ServiceInv

LEMMA HandleBeginServes ==
  ASSUME MatchInv, MatchInv', ServiceInv, NEW p \in Slot, HandleBegin(p)
  PROVE  ServiceInv'
  <1>0. TypeOK /\ TypeOK' /\ HostServes /\ PausedIsAnswered
    BY DEF MatchInv, ServiceInv
  <1> DEFINE id == FirstOf(p).id
  <1>1. /\ Take(p, "begin") /\ channel' = Taken(p)
        /\ \/ active[p] \notin {None, id} /\ UNCHANGED <<paused, active, assembling>>
           \/ /\ assembling' = [assembling EXCEPT ![p] = id]
              /\ active' = [active EXCEPT ![p] = id]
              /\ paused' = [paused EXCEPT ![p] = TRUE]
        /\ UNCHANGED <<controller, frames, snapshots, seenSlots, pendingSnapshot, deadline, error,
                 inFrame, requests, batches, captured, resynced>>
    BY DEF HandleBegin
  <1>2. /\ AsksOnly(channel'[Host]) /\ HostPlays' /\ HostHeard'
        /\ \A q \in Slot \ {p} : channel'[q] = channel[q]
        /\ \A m : Carries(channel[p], m) /\ FirstOf(p) # m => Carries(channel'[p], m)
        /\ p # Host
    BY <1>0, <1>1, TakingServes
  <1>3. HostServes'
    BY <1>0, <1>1, <1>2 DEF HostServes
  <1>4. FirstOf(p) \in Message /\ FirstOf(p).kind = "begin" /\ id \in Request /\ Host \in Slot
    BY <1>0, <1>1, TakenFacts, MessageFacts, Numbers
  <1>5. FirstOf(p) = [kind |-> "begin", id |-> id]
    BY <1>4 DEF Message
  <1> HIDE DEF id
  <1>6. PausedIsAnswered'
    <2> SUFFICES ASSUME NEW q \in Slot \ {Host} PROVE Answered(q)'
      BY <1>0, AnsweredNext
    <2>1. Answered(q)
      BY <1>0, AnsweredFacts
    <2>2. CASE UNCHANGED <<paused, active, assembling>> /\ (q = p => active[p] # id)
      <3>1. q = p => FirstOf(p) # [kind |-> "begin", id |-> active[q]]
        <4> SUFFICES ASSUME q = p PROVE FirstOf(p) # [kind |-> "begin", id |-> active[q]]
          OBVIOUS
        <4>1. FirstOf(p).id = id /\ active[q] # id
          BY <1>5, <2>2
        <4> QED BY <4>1
      <3>2. Streamed(q) => Streamed(q)'
        BY <1>2, <2>2, <3>1 DEF Streamed
      <3>3. Asked(q) => Asked(q)'
        BY <1>2, <1>4, <2>2 DEF Asked
      <3> QED BY <1>1, <2>1, <2>2, <3>2, <3>3 DEF Answered
    <2>3. CASE q = p /\ assembling' = [assembling EXCEPT ![p] = id]
      <3>1. assembling'[q] = id
        BY <1>0, <2>3 DEF TypeOK
      <3> QED BY <1>4, <3>1, Numbers DEF Answered
    <2>4. CASE q # p
      <3>1. active'[q] = active[q] /\ paused'[q] = paused[q] /\ assembling'[q] = assembling[q]
        BY <1>0, <1>1, <2>4 DEF TypeOK
      <3>2. channel'[q] = channel[q] /\ channel'[Host] = channel[Host]
        BY <1>2, <1>4, <2>4
      <3> QED BY <1>1, <2>1, <3>1, <3>2 DEF Answered, Asked, Streamed
    <2> QED BY <1>1, <2>2, <2>3, <2>4
  <1> QED BY <1>2, <1>3, <1>6 DEF ServiceInv

LEMMA HandleCommitServes ==
  ASSUME MatchInv, MatchInv', ServiceInv, NEW p \in Slot, HandleCommit(p)
  PROVE  ServiceInv'
  <1>0. TypeOK /\ TypeOK' /\ HostServes /\ PausedIsAnswered
    BY DEF MatchInv, ServiceInv
  <1> DEFINE tick == FirstOf(p).tick
  <1>1. /\ Take(p, "commit") /\ channel' = Taken(p)
        /\ \/ UNCHANGED <<paused, assembling, pendingSnapshot, deadline>>
           \/ /\ assembling' = [assembling EXCEPT ![p] = None]
              /\ pendingSnapshot' = [pendingSnapshot EXCEPT ![p] = tick]
              /\ paused' = [paused EXCEPT ![p] = TRUE]
              /\ deadline' = [deadline EXCEPT ![p] = TRUE]
        /\ UNCHANGED <<controller, frames, snapshots, seenSlots, active, error, inFrame, requests,
                 batches, captured, resynced>>
    BY DEF HandleCommit
  <1>2. /\ AsksOnly(channel'[Host]) /\ HostPlays' /\ HostHeard'
        /\ \A q \in Slot \ {p} : channel'[q] = channel[q]
        /\ \A m : Carries(channel[p], m) /\ FirstOf(p) # m => Carries(channel'[p], m)
        /\ p # Host
    BY <1>0, <1>1, TakingServes
  <1>3. FirstOf(p) \in Message /\ FirstOf(p).kind = "commit" /\ tick \in Tick /\ Host \in Slot
    BY <1>0, <1>1, TakenFacts, MessageFacts, Numbers
  <1> HIDE DEF tick
  <1>4. HostServes'
    <2>1. pendingSnapshot'[Host] = pendingSnapshot[Host]
      BY <1>0, <1>1, <1>2, <1>3 DEF TypeOK
    <2> QED BY <1>0, <1>2, <2>1 DEF HostServes
  <1>5. PausedIsAnswered'
    <2> SUFFICES ASSUME NEW q \in Slot \ {Host} PROVE Answered(q)'
      BY <1>0, AnsweredNext
    <2>1. Answered(q)
      BY <1>0, AnsweredFacts
    <2>2. Streamed(q) => Streamed(q)'
      <3>1. FirstOf(p) # [kind |-> "begin", id |-> active[q]]
        BY <1>3
      <3> QED BY <1>1, <1>2, <3>1 DEF Streamed
    <2>3. Asked(q) => Asked(q)'
      BY <1>1, <1>2, <1>3 DEF Asked
    <2>4. CASE UNCHANGED <<paused, assembling, pendingSnapshot, deadline>>
      BY <1>1, <2>1, <2>2, <2>3, <2>4 DEF Answered
    <2>5. CASE q # p
      <3>1. /\ paused'[q] = paused[q] /\ assembling'[q] = assembling[q]
            /\ pendingSnapshot'[q] = pendingSnapshot[q]
        <4>1. /\ paused \in [Slot -> BOOLEAN] /\ q \in Slot \ {p}
              /\ assembling \in [Slot -> Request \cup {None}]
              /\ pendingSnapshot \in [Slot -> Tick \cup {None}]
          BY <1>0, <2>5 DEF TypeOK
        <4>2. \/ UNCHANGED <<paused, assembling, pendingSnapshot>>
              \/ /\ assembling' = [assembling EXCEPT ![p] = None]
                 /\ pendingSnapshot' = [pendingSnapshot EXCEPT ![p] = tick]
                 /\ paused' = [paused EXCEPT ![p] = TRUE]
          BY <1>1
        <4> QED BY <4>1, <4>2
      <3> QED BY <1>1, <2>1, <2>2, <2>3, <3>1 DEF Answered
    <2>6. CASE q = p /\ pendingSnapshot' = [pendingSnapshot EXCEPT ![p] = tick]
      <3>1. pendingSnapshot'[q] = tick
        BY <1>0, <2>6 DEF TypeOK
      <3> QED BY <1>3, <3>1, Numbers DEF Answered
    <2> QED BY <1>1, <2>4, <2>5, <2>6
  <1> QED BY <1>2, <1>4, <1>5 DEF ServiceInv

LEMMA ApplyResyncServes ==
  ASSUME MatchInv, MatchInv', ServiceInv, NEW p \in Slot, ApplyResync(p)
  PROVE  ServiceInv'
  <1>0. TypeOK /\ TypeOK' /\ HostServes /\ HostPlays /\ HostHeard /\ PausedIsAnswered
    BY DEF MatchInv, ServiceInv
  <1>1. /\ pendingSnapshot[p] # None
        /\ pendingSnapshot' = [pendingSnapshot EXCEPT ![p] = None]
        /\ active' = [active EXCEPT ![p] = None]
        /\ paused' = [paused EXCEPT ![p] = FALSE]
        /\ \A q \in Slot \ {p} : /\ capture'[q] = capture[q] /\ nextEmit'[q] = nextEmit[q]
                                  /\ known'[q] = known[q] /\ frames'[q] = frames[q]
        /\ UNCHANGED <<snapshots, assembling, error, inFrame, batches, channel>>
    BY <1>0 DEF ApplyResync, TypeOK
  <1>2. p # Host /\ Host \in Slot
    BY <1>0, <1>1, Numbers DEF HostServes
  <1>3. \A q \in Slot \ {p} : /\ pendingSnapshot'[q] = pendingSnapshot[q] /\ active'[q] = active[q]
                              /\ paused'[q] = paused[q]
    BY <1>0, <1>1 DEF TypeOK
  <1>4. ~paused'[p]
    BY <1>0, <1>1 DEF TypeOK
  <1>5. HostServes'
    BY <1>0, <1>1, <1>2, <1>3 DEF HostServes
  <1>6. HostPlays'
    BY <1>0, <1>1, <1>2 DEF HostPlays
  <1>7. HostHeard'
    BY <1>0, <1>1, <1>2 DEF HostHeard
  <1>8. PausedIsAnswered'
    <2> SUFFICES ASSUME NEW q \in Slot \ {Host} PROVE Answered(q)'
      BY <1>0, AnsweredNext
    <2>1. Answered(q)
      BY <1>0, AnsweredFacts
    <2>2. CASE q = p
      BY <1>4, <2>2 DEF Answered
    <2>3. CASE q # p
      BY <1>1, <1>3, <2>1, <2>3 DEF Answered, Asked, Streamed
    <2> QED BY <2>2, <2>3
  <1> QED BY <1>5, <1>6, <1>7, <1>8 DEF ServiceInv

LEMMA DeadlineExpiresServes ==
  ASSUME MatchInv, MatchInv', ServiceInv, NEW p \in Slot, DeadlineExpires(p)
  PROVE  ServiceInv'
  <1>0. TypeOK /\ TypeOK' /\ HostServes /\ HostPlays /\ HostHeard /\ PausedIsAnswered
    BY DEF MatchInv, ServiceInv
  <1>1. /\ error[p] = "" /\ error' = [error EXCEPT ![p] = "reconnect_timeout"]
        /\ UNCHANGED <<controller, frames, snapshots, seenSlots, paused, active, assembling,
                 pendingSnapshot, deadline, inFrame, requests, batches, channel, captured, resynced>>
    BY DEF DeadlineExpires
  <1>2. error[Host] # "" => error'[Host] # ""
    BY <1>0, <1>1, Numbers DEF TypeOK
  <1>3. PausedIsAnswered'
    BY <1>0, <1>1, <1>2, AnsweredKept
  <1>4. HostServes'
    BY <1>0, <1>1 DEF HostServes
  <1>5. HostPlays'
    BY <1>0, <1>1 DEF HostPlays, controller
  <1>6. HostHeard'
    BY <1>0, <1>1 DEF HostHeard, controller
  <1> QED BY <1>3, <1>4, <1>5, <1>6 DEF ServiceInv

LEMMA NextServes ==
  ASSUME TwoPlayers
  PROVE  MatchInv /\ ServiceInv /\ [Next]_vars => MatchInv' /\ ServiceInv'
  <1> SUFFICES ASSUME MatchInv, ServiceInv, [Next]_vars PROVE MatchInv' /\ ServiceInv'
    OBVIOUS
  <1>0. MatchInv'
    BY NextKeepsMatchInv
  <1>1. ASSUME NEW p \in Slot, NEW in \in Input, Capture(p, in) PROVE ServiceInv'
    BY <1>0, <1>1, CaptureServes
  <1>2. ASSUME NEW p \in Slot,
               \/ PopFrame(p) \/ NoFrame(p) \/ HandleRefusal(p) \/ HandleBegin(p)
               \/ HandleCommit(p) \/ ApplyResync(p) \/ DeadlineExpires(p)
        PROVE  ServiceInv'
    BY <1>0, <1>2, PopFrameServes, NoFrameServes, HandleRefusalServes, HandleBeginServes,
       HandleCommitServes, ApplyResyncServes, DeadlineExpiresServes
  <1>3. ASSUME NEW b \in batches, Receive(b) \/ LoseBatch(b) PROVE ServiceInv'
    BY <1>0, <1>3, ReceiveServes, LoseBatchServes
  <1>4. CASE HandleRequest
    BY <1>0, <1>4, HandleRequestServes
  <1>5. CASE UNCHANGED vars
    <2>1. TypeOK /\ TypeOK' /\ HostServes /\ HostPlays /\ HostHeard /\ PausedIsAnswered
      BY <1>0 DEF MatchInv, ServiceInv
    <2>2. UNCHANGED <<capture, nextEmit, known, frames, snapshots, paused, active, assembling,
                      pendingSnapshot, error, inFrame, batches, channel>>
      BY <1>5 DEF vars
    <2>3. HostServes' /\ HostPlays' /\ HostHeard'
      BY <2>1, <2>2 DEF HostServes, HostPlays, HostHeard
    <2>4. PausedIsAnswered'
      BY <2>1, <2>2, AnsweredKept
    <2> QED BY <1>0, <2>3, <2>4 DEF ServiceInv
  <1> QED BY <1>0, <1>1, <1>2, <1>3, <1>4, <1>5 DEF Next

\* In a match of two, a joined peer that pauses for a resync is answered unless
\* the host has left: its request, the stream or the snapshot is on its way.
THEOREM PausedAlwaysAnswered ==
  ASSUME PlayerCount <= 2, InputDelay < MaxHistory
  PROVE  Spec => []PausedIsAnswered
  <1>1. TwoPlayers
    BY DEF TwoPlayers
  <1>2. Init => MatchInv /\ ServiceInv
    BY InitMatchInv, InitServiceInv
  <1>3. MatchInv /\ ServiceInv /\ [Next]_vars => MatchInv' /\ ServiceInv'
    BY <1>1, NextServes
  <1>4. ServiceInv => PausedIsAnswered
    BY DEF ServiceInv
  <1> QED BY <1>2, <1>3, <1>4, PTL DEF Spec
=============================================================================
