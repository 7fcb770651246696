----------------------------- MODULE LevelUpProofs -----------------------------
(***************************************************************************)
(* Proofs about LevelUp, for every set of perks that add offers or slow    *)
(* time, and every length of a tick, a frame and a panel's slide.          *)
(***************************************************************************)
EXTENDS LevelUp, SequenceTheorems, FiniteSetTheorems, WellFoundedInduction, TLAPS

(* Numbers, and functions defined by recursion on them.                    *)

\* A set of numbers that is not empty has a smallest one.
LEMMA LeastNumber ==
  ASSUME NEW S, S \subseteq Nat, S # {}
  PROVE  \E m \in S : \A n \in S : m <= n
  <1>1. PICK x \in S : \A y \in S : ~(<<y, x>> \in OpToRel(<, Nat))
    BY WFMin, NatLessThanWellFounded
  <1>2. ASSUME NEW y \in S PROVE x <= y
    <2>1. x \in Nat /\ y \in Nat
      OBVIOUS
    <2>2. ~(y < x)
      BY <1>1, <2>1 DEF OpToRel
    <2> QED BY <2>1, <2>2
  <1> QED BY <1>2

\* What holds of 0 and of the successor of what it holds of, holds of all.
LEMMA Counting ==
  ASSUME NEW S, 0 \in S, \A n \in Nat : n \in S => n + 1 \in S
  PROVE  Nat \subseteq S
  <1> SUFFICES ASSUME Nat \ S # {} PROVE FALSE
    OBVIOUS
  <1>1. PICK m \in Nat \ S : \A n \in Nat \ S : m <= n
    BY LeastNumber
  <1>2. m # 0 /\ m - 1 \in Nat /\ m - 1 \notin Nat \ S
    BY <1>1
  <1>3. (m - 1) + 1 \in S
    BY <1>2
  <1> QED BY <1>1, <1>2, <1>3

\* n steps that can be taken one after the other from the base, and the values
\* they give.
Walk(n, S, base, step) == n \in Nat /\ base \in S /\ step \in [1..n -> [S -> S]]
Walked(n, S, base, step) ==
  \E f \in [0..n -> S] : f[0] = base /\ \A i \in 1..n : f[i] = step[i][f[i - 1]]

\* A value computed in n steps from the one before exists.
LEMMA InSteps ==
  ASSUME NEW n, NEW S, NEW base, NEW step, Walk(n, S, base, step)
  PROVE  Walked(n, S, base, step)
  <1> USE DEF Walk, Walked
  <1> DEFINE To(m) == \E f \in [0..m -> S] :
                        f[0] = base /\ \A i \in 1..m : f[i] = step[i][f[i - 1]]
             Good == {m \in Nat : m <= n => To(m)}
  <1>1. 0 \in Good
    <2> DEFINE f == [i \in 0..0 |-> base]
    <2>1. f \in [0..0 -> S] /\ f[0] = base /\ 1..0 = {}
      OBVIOUS
    <2>2. To(0)
      <3> HIDE DEF f
      <3> QED BY <2>1
    <2> QED BY <2>2
  <1>2. ASSUME NEW m \in Nat, m \in Good PROVE m + 1 \in Good
    <2> SUFFICES ASSUME m + 1 <= n PROVE To(m + 1)
      OBVIOUS
    <2>1. PICK f \in [0..m -> S] : f[0] = base /\ \A i \in 1..m : f[i] = step[i][f[i - 1]]
      BY <1>2
    <2> DEFINE g == [i \in 0..(m + 1) |-> IF i <= m THEN f[i] ELSE step[m + 1][f[m]]]
    <2>2. step[m + 1] \in [S -> S] /\ f[m] \in S
      BY <2>1
    <2>3. g \in [0..(m + 1) -> S] /\ g[0] = base
      BY <2>1, <2>2
    <2>4. ASSUME NEW i \in 1..(m + 1) PROVE g[i] = step[i][g[i - 1]]
      <3>1. CASE i <= m
        BY <2>1, <3>1
      <3>2. CASE i = m + 1
        BY <2>1, <3>2
      <3> QED BY <3>1, <3>2
    <2> QED BY <2>3, <2>4
  <1>3. n \in Good
    <2> HIDE DEF Good
    <2> QED BY <1>1, <1>2, Counting
  <1> QED BY <1>3

\* Two functions that start alike and go on alike are alike.
LEMMA SameSteps ==
  ASSUME NEW n \in Nat, NEW f, NEW g, f[0] = g[0],
         \A m \in Nat : m < n /\ f[m] = g[m] => f[m + 1] = g[m + 1]
  PROVE  \A i \in 0..n : f[i] = g[i]
  <1> DEFINE Good == {m \in Nat : m <= n => f[m] = g[m]}
  <1>1. 0 \in Good
    OBVIOUS
  <1>2. ASSUME NEW m \in Nat, m \in Good PROVE m + 1 \in Good
    BY <1>2
  <1>3. Nat \subseteq Good
    <2> HIDE DEF Good
    <2> QED BY <1>1, <1>2, Counting
  <1> QED BY <1>3

-----------------------------------------------------------------------------
(* The simulation.                                                         *)

\* The offers of two simulations are the same.
Agree(v, w) == v["perk"] = w["perk"] /\ v["mod"] = w["mod"]

\* As many perks as modifiers are pending.
Balanced(w) == w["perk"].pending = w["mod"].pending

LEMMA Numbers ==
  /\ ContractOffers \in Nat /\ Slide \in Nat /\ MaxLevelUps \in Nat
  /\ TickLength \in Nat /\ TickLength >= 1 /\ FrameLengths \subseteq Nat /\ Choice \subseteq Nat
  <1>1. /\ {ContractOffers, Slide, MaxLevelUps, MaxQueue} \subseteq Nat
        /\ TickLength \in Nat \ {0} /\ FrameLengths \subseteq Nat /\ Choice \subseteq Nat
    BY LevelUpAssumption
  <1> QED BY <1>1

LEMMA OfferFacts ==
  ASSUME NEW w \in Simulation, NEW k \in Kind
  PROVE  /\ w[k] \in Offer /\ w[k].pending \in Nat /\ w[k].dirty \in BOOLEAN /\ w[k].list \in Nat
         /\ w.slow \in BOOLEAN /\ w.took \in Nat
         /\ w.perk = w["perk"] /\ w.mod = w["mod"]
  BY DEF Simulation, Kind, Offer

LEMMA PreparedFacts ==
  ASSUME NEW o \in Offer
  PROVE  /\ Prepared(o) \in Offer /\ Prepared(o).pending = o.pending /\ ~Prepared(o).dirty
         /\ ~o.dirty => Prepared(o) = o
  <1>1. o.pending \in Nat /\ o.dirty \in BOOLEAN /\ o.list \in Nat /\ o.list + 1 \in Nat
    BY DEF Offer
  <1>2. CASE o.dirty
    <2>1. Prepared(o) = [o EXCEPT !.dirty = FALSE, !.list = o.list + 1]
      BY <1>2 DEF Prepared
    <2> QED BY <1>1, <1>2, <2>1 DEF Offer
  <1>3. CASE ~o.dirty
    BY <1>1, <1>3 DEF Prepared
  <1> QED BY <1>2, <1>3

\* Rolling the lists changes no number, and does nothing to lists that stand.
LEMMA OpenListsFacts ==
  ASSUME NEW w \in Simulation
  PROVE  /\ OpenLists(w) \in Simulation
         /\ \A k \in Kind : OpenLists(w)[k] = Prepared(w[k])
         /\ \A k \in Kind : OpenLists(w)[k].pending = w[k].pending /\ ~OpenLists(w)[k].dirty
         /\ ~w["perk"].dirty /\ ~w["mod"].dirty => OpenLists(w) = w
  <1>1. /\ w["perk"] \in Offer /\ w["mod"] \in Offer
        /\ Prepared(w["perk"]) \in Offer /\ Prepared(w["mod"]) \in Offer
    BY OfferFacts, PreparedFacts DEF Kind
  <1>2. OpenLists(w) = [w EXCEPT !["perk"] = Prepared(w["perk"]), !["mod"] = Prepared(w["mod"])]
    BY DEF OpenLists
  <1>3. OpenLists(w) \in Simulation /\ \A k \in Kind : OpenLists(w)[k] = Prepared(w[k])
    BY <1>1, <1>2 DEF Simulation, Kind
  <1>4. ~w["perk"].dirty /\ ~w["mod"].dirty => OpenLists(w) = w
    BY <1>1, <1>2, PreparedFacts DEF Simulation
  <1> QED BY <1>3, <1>4, OfferFacts, PreparedFacts

LEMMA OfferedFacts ==
  ASSUME NEW w \in Simulation, NEW n \in Nat
  PROVE  /\ Offered(w, n) \in Simulation
         /\ \A k \in Kind : Offered(w, n)[k] = [w[k] EXCEPT !.pending = w[k].pending + n, !.dirty = TRUE]
  <1>1. \A k \in Kind : w[k] \in Offer
    BY OfferFacts
  <1> DEFINE o(k) == [w[k] EXCEPT !.pending = w[k].pending + n, !.dirty = TRUE]
  <1>0. ASSUME NEW k \in Kind PROVE o(k) \in Offer
    <2>1. w[k].pending + n \in Nat
      BY OfferFacts
    <2> QED BY <1>1, <2>1 DEF Offer
  <1>2. o("perk") \in Offer /\ o("mod") \in Offer
    <2> HIDE DEF o
    <2> QED BY <1>0 DEF Kind
  <1>3. Offered(w, n) = [w EXCEPT !["perk"] = o("perk"), !["mod"] = o("mod")]
    BY <1>1 DEF Offered, Simulation, Offer, Kind
  <1> HIDE DEF o
  <1>4. Offered(w, n) \in Simulation /\ \A k \in Kind : Offered(w, n)[k] = o(k)
    BY <1>2, <1>3 DEF Simulation, Kind
  <1> QED BY <1>4 DEF o

\* The offer that is not k's.
Other(k) == IF k = "perk" THEN "mod" ELSE "perk"

\* What a pick in k's list finds there, and what that does to an offer.
Found(w, k, i) == <<k, Prepared(w[k]).list, i>>
Grown(o, what) ==
  IF what \in Contracts THEN [o EXCEPT !.pending = o.pending + ContractOffers, !.dirty = TRUE] ELSE o
Used(o) == [o EXCEPT !.pending = o.pending - 1, !.dirty = TRUE]

LEMMA GrownFacts ==
  ASSUME NEW o \in Offer, NEW what
  PROVE  /\ Grown(o, what) \in Offer
         /\ Grown(o, what).pending = o.pending + IF what \in Contracts THEN ContractOffers ELSE 0
  <1>1. o.pending \in Nat /\ o.pending + ContractOffers \in Nat
    BY Numbers DEF Offer
  <1>2. CASE what \in Contracts
    BY <1>1, <1>2 DEF Grown, Offer
  <1>3. CASE what \notin Contracts
    BY <1>1, <1>3 DEF Grown
  <1> QED BY <1>2, <1>3

LEMMA EffectFacts ==
  ASSUME NEW w \in Simulation, NEW what
  PROVE  /\ Effect(w, what) \in Simulation
         /\ \A k \in Kind : Effect(w, what)[k] = Grown(w[k], what)
  <1> DEFINE v == [w EXCEPT !.slow = w.slow \/ what \in Boosts]
  <1>1. v \in Simulation /\ \A k \in Kind : v[k] = w[k]
    <2>1. (w.slow \/ what \in Boosts) \in BOOLEAN
      OBVIOUS
    <2> QED BY <2>1 DEF Simulation, Kind
  <1>2. Effect(w, what) = IF what \in Contracts THEN Offered(v, ContractOffers) ELSE v
    BY DEF Effect
  <1> HIDE DEF v
  <1>3. CASE what \in Contracts
    <2>1. /\ Offered(v, ContractOffers) \in Simulation
          /\ \A k \in Kind : Offered(v, ContractOffers)[k]
                           = [v[k] EXCEPT !.pending = v[k].pending + ContractOffers, !.dirty = TRUE]
      BY <1>1, Numbers, OfferedFacts
    <2> QED BY <1>1, <1>2, <1>3, <2>1 DEF Grown
  <1>4. CASE what \notin Contracts
    BY <1>1, <1>2, <1>4 DEF Grown
  <1> QED BY <1>3, <1>4

\* A pick spends one offer of its kind, if there is one.
LEMMA PickedFacts ==
  ASSUME NEW w \in Simulation, NEW k \in Kind, NEW i
  PROVE  /\ Picked(w, k, i) \in Simulation
         /\ w[k].pending = 0 => Picked(w, k, i) = w
         /\ w[k].pending # 0 =>
              /\ Picked(w, k, i)[k] = Used(Grown(Prepared(w[k]), Found(w, k, i)))
              /\ Picked(w, k, i)[Other(k)] = Grown(w[Other(k)], Found(w, k, i))
  <1>1. CASE w[k].pending = 0
    BY <1>1 DEF Picked
  <1>2. CASE w[k].pending # 0
    <2> DEFINE v == [w EXCEPT ![k] = Prepared(w[k])]
               what == <<k, v[k].list, i>>
               e == Effect(v, what)
    <2>1. Picked(w, k, i) = [e EXCEPT ![k].pending = e[k].pending - 1, ![k].dirty = TRUE]
      BY <1>2 DEF Picked
    <2>2. w[k] \in Offer /\ Prepared(w[k]) \in Offer /\ Prepared(w[k]).pending = w[k].pending
      BY OfferFacts, PreparedFacts
    <2>3. /\ v \in Simulation /\ v[k] = Prepared(w[k]) /\ v[Other(k)] = w[Other(k)]
          /\ Other(k) \in Kind /\ Other(k) # k
      BY <2>2 DEF Simulation, Kind, Other
    <2>4. what = Found(w, k, i)
      BY <2>3 DEF Found
    <2> HIDE DEF v, what
    <2>5. /\ e \in Simulation /\ e[k] = Grown(Prepared(w[k]), what)
          /\ e[Other(k)] = Grown(w[Other(k)], what)
      BY <2>3, EffectFacts
    <2>6. e[k] \in Offer /\ e[k].pending \in Nat \ {0}
      <3>1. w[k].pending \in Nat \ {0}
        BY <1>2, OfferFacts
      <3>2. Grown(Prepared(w[k]), what) \in Offer
            /\ Grown(Prepared(w[k]), what).pending
               = Prepared(w[k]).pending + IF what \in Contracts THEN ContractOffers ELSE 0
        BY <2>2, GrownFacts
      <3> QED BY <2>2, <2>5, <3>1, <3>2, Numbers
    <2> HIDE DEF e
    <2>7. Used(e[k]) \in Offer
      <3>1. e[k].pending - 1 \in Nat
        BY <2>6
      <3> QED BY <2>6, <3>1 DEF Used, Offer
    <2>8. Picked(w, k, i) = [e EXCEPT ![k] = Used(e[k])]
      BY <2>1, <2>5, <2>6 DEF Used, Simulation, Kind
    <2>9. /\ Picked(w, k, i) \in Simulation /\ Picked(w, k, i)[k] = Used(e[k])
          /\ Picked(w, k, i)[Other(k)] = e[Other(k)]
      BY <2>3, <2>5, <2>7, <2>8 DEF Simulation, Kind
    <2> QED BY <1>2, <2>4, <2>5, <2>9
  <1> QED BY <1>1, <1>2

\* The numbers a pick leaves.
LEMMA PickedPending ==
  ASSUME NEW w \in Simulation, NEW k \in Kind, NEW i, w[k].pending # 0
  PROVE  \E c \in Nat : /\ Picked(w, k, i)[k].pending = w[k].pending + c - 1
                        /\ Picked(w, k, i)[Other(k)].pending = w[Other(k)].pending + c
  <1> DEFINE what == Found(w, k, i)  c == IF what \in Contracts THEN ContractOffers ELSE 0
  <1>1. c \in Nat /\ Other(k) \in Kind
    BY Numbers DEF Other, Kind
  <1>2. /\ w[k] \in Offer /\ w[Other(k)] \in Offer /\ w[k].pending \in Nat
        /\ Prepared(w[k]) \in Offer /\ Prepared(w[k]).pending = w[k].pending
    BY <1>1, OfferFacts, PreparedFacts
  <1> DEFINE g == Grown(Prepared(w[k]), what)
  <1>3. g \in Offer /\ g.pending = w[k].pending + c
    BY <1>2, GrownFacts
  <1>4. Grown(w[Other(k)], what).pending = w[Other(k)].pending + c
    BY <1>2, GrownFacts
  <1>5. Picked(w, k, i)[k] = Used(g) /\ Picked(w, k, i)[Other(k)] = Grown(w[Other(k)], what)
    BY PickedFacts
  <1> HIDE DEF g
  <1>6. Used(g).pending = g.pending - 1
    BY <1>3 DEF Used, Offer
  <1> HIDE DEF c, what
  <1>7. /\ Picked(w, k, i)[k].pending = w[k].pending + c - 1
        /\ Picked(w, k, i)[Other(k)].pending = w[Other(k)].pending + c
    <2> DEFINE x == Picked(w, k, i)[k]  y == Picked(w, k, i)[Other(k)]  z == Grown(w[Other(k)], what)
    <2>1. x = Used(g) /\ y = z /\ z.pending = w[Other(k)].pending + c
      BY <1>4, <1>5
    <2> HIDE DEF x, y, z
    <2>2. x.pending = w[k].pending + c - 1 /\ y.pending = w[Other(k)].pending + c
      BY <1>1, <1>2, <1>3, <1>6, <2>1
    <2> QED BY <2>2 DEF x, y
  <1> QED BY <1>1, <1>7

-----------------------------------------------------------------------------
(* Commands and ticks, in their order.                                     *)

LEMMA CommandFacts ==
  ASSUME NEW c \in Command
  PROVE  c.op = "open" \/ (c.op = "pick" /\ c.kind \in Kind)
  BY DEF Command, OpenCommand

LEMMA AppliedFacts ==
  \A w \in Simulation : \A c \in Command : Applied(w, c) \in Simulation
  <1> SUFFICES ASSUME NEW w \in Simulation, NEW c \in Command PROVE Applied(w, c) \in Simulation
    OBVIOUS
  <1>1. CASE c.op = "open"
    BY <1>1, OpenListsFacts DEF Applied
  <1>2. CASE c.op # "open"
    BY <1>2, CommandFacts, PickedFacts DEF Applied
  <1> QED BY <1>1, <1>2

\* A command does the same to the same offers.
LEMMA AppliedAgrees ==
  ASSUME NEW v \in Simulation, NEW w \in Simulation, Agree(v, w), NEW c \in Command
  PROVE  Agree(Applied(v, c), Applied(w, c))
  <1>1. \A k \in Kind : v[k] = w[k]
    BY DEF Agree, Kind
  <1>2. CASE c.op = "open"
    <2>1. Applied(v, c) = OpenLists(v) /\ Applied(w, c) = OpenLists(w)
      BY <1>2 DEF Applied
    <2> QED BY <1>1, <2>1, OpenListsFacts DEF Agree, Kind
  <1>3. CASE c.op # "open"
    <2> DEFINE k == c.kind  i == c.place
    <2>1. /\ k \in Kind /\ Applied(v, c) = Picked(v, k, i) /\ Applied(w, c) = Picked(w, k, i)
          /\ Other(k) \in Kind
      BY <1>3, CommandFacts DEF Applied, Other, Kind
    <2> HIDE DEF k, i
    <2>2. v[k] = w[k] /\ v[Other(k)] = w[Other(k)] /\ Found(v, k, i) = Found(w, k, i)
      BY <1>1, <2>1 DEF Found
    <2>3. CASE w[k].pending = 0
      BY <1>1, <2>1, <2>2, <2>3, PickedFacts DEF Agree
    <2>4. CASE w[k].pending # 0
      <3>1. /\ Picked(v, k, i)[k] = Picked(w, k, i)[k]
            /\ Picked(v, k, i)[Other(k)] = Picked(w, k, i)[Other(k)]
        BY <2>1, <2>2, <2>4, PickedFacts
      <3> QED BY <2>1, <3>1 DEF Agree, Other, Kind
    <2> QED BY <2>3, <2>4 DEF Agree, Kind
  <1> QED BY <1>2, <1>3

LEMMA AppliedInSteps ==
  ASSUME NEW w \in Simulation, NEW cs \in Seq(Command)
  PROVE  \E f \in [0..Len(cs) -> Simulation] :
           /\ f[0] = w /\ AllApplied(w, cs) = f[Len(cs)]
           /\ \A i \in 1..Len(cs) : f[i] = Applied(f[i - 1], cs[i])
  <1> DEFINE n == Len(cs)
             after[i \in 0..Len(cs)] == IF i = 0 THEN w ELSE Applied(after[i - 1], cs[i])
             step == [i \in 1..n |-> [v \in Simulation |-> Applied(v, cs[i])]]
             Body(g) == [i \in 0..n |-> IF i = 0 THEN w ELSE Applied(g[i - 1], cs[i])]
  <1>1. n \in Nat /\ \A i \in 1..n : cs[i] \in Command /\ i - 1 \in 0..n /\ i \in 0..n /\ i # 0
    OBVIOUS
  <1>2. step \in [1..n -> [Simulation -> Simulation]]
    BY <1>1, AppliedFacts
  <1>3. PICK f \in [0..n -> Simulation] : f[0] = w /\ \A i \in 1..n : f[i] = step[i][f[i - 1]]
    <2> DEFINE S == Simulation
    <2>1. Walk(n, S, w, step)
      BY <1>1, <1>2 DEF Walk
    <2> HIDE DEF step, n, S
    <2>2. Walked(n, S, w, step)
      BY <2>1, InSteps, Zenon
    <2> QED BY <2>2 DEF Walked, S
  <1>4. \A i \in 1..n : f[i] = Applied(f[i - 1], cs[i])
    <2> SUFFICES ASSUME NEW i \in 1..n PROVE f[i] = Applied(f[i - 1], cs[i])
      OBVIOUS
    <2> DEFINE k == f[i - 1]
    <2>1. k \in Simulation /\ f[i] = step[i][k]
      BY <1>1, <1>3
    <2>2. step[i] = [v \in Simulation |-> Applied(v, cs[i])]
      OBVIOUS
    <2> HIDE DEF k, step
    <2>3. f[i] = Applied(k, cs[i])
      BY <2>1, <2>2
    <2> QED BY <2>3 DEF k
  <1>5. f = Body(f)
    <2>1. ASSUME NEW i \in 0..n PROVE f[i] = Body(f)[i]
      <3>1. CASE i = 0
        BY <1>3, <3>1
      <3>2. CASE i \in 1..n
        BY <1>1, <1>4, <3>2
      <3> QED BY <1>1, <3>1, <3>2
    <2> QED BY <1>3, <2>1
  <1>6. after = Body(after)
    BY <1>5
  <1> HIDE DEF after
  <1>7. after[0] = w /\ \A i \in 1..n : after[i] = Applied(after[i - 1], cs[i])
    <2>1. 0 \in 0..n
      BY <1>1
    <2> QED BY <1>1, <1>6, <2>1
  <1>8. \A i \in 0..n : after[i] = f[i]
    <2>1. ASSUME NEW m \in Nat, m < n, after[m] = f[m] PROVE after[m + 1] = f[m + 1]
      <3>1. m + 1 \in 1..n /\ (m + 1) - 1 = m
        BY <1>1, <2>1
      <3> QED BY <1>4, <1>7, <2>1, <3>1
    <2>2. n \in Nat /\ after[0] = f[0]
      BY <1>1, <1>3, <1>7
    <2> HIDE DEF n
    <2> QED BY <2>1, <2>2, SameSteps
  <1>9. AllApplied(w, cs) = after[n]
    BY DEF AllApplied, after
  <1>10. n \in 0..n
    BY <1>1
  <1> QED BY <1>3, <1>4, <1>8, <1>9, <1>10

LEMMA AllAppliedTyped ==
  ASSUME NEW w \in Simulation, NEW cs \in Seq(Command)
  PROVE  AllApplied(w, cs) \in Simulation
  <1>1. Len(cs) \in 0..Len(cs)
    OBVIOUS
  <1> QED BY <1>1, AppliedInSteps

\* No command changes nothing, and one more is applied to what the others leave.
LEMMA NoneApplied ==
  ASSUME NEW w \in Simulation
  PROVE  AllApplied(w, << >>) = w
  <1> DEFINE none == << >>
  <1>1. none \in Seq(Command) /\ Len(none) = 0
    OBVIOUS
  <1> HIDE DEF none
  <1>2. PICK f \in [0..Len(none) -> Simulation] : f[0] = w /\ AllApplied(w, none) = f[Len(none)]
    BY <1>1, AppliedInSteps, Zenon
  <1>3. AllApplied(w, none) = w
    BY <1>1, <1>2
  <1> QED BY <1>3 DEF none

LEMMA OneMoreApplied ==
  ASSUME NEW w \in Simulation, NEW cs \in Seq(Command), NEW c \in Command
  PROVE  AllApplied(w, Append(cs, c)) = Applied(AllApplied(w, cs), c)
  <1> DEFINE n == Len(cs)  more == Append(cs, c)
  <1>1. /\ n \in Nat /\ more \in Seq(Command) /\ Len(more) = n + 1 /\ more[n + 1] = c
        /\ \A i \in 1..n : more[i] = cs[i]
    <2> DEFINE T == Command
    <2>1. cs \in Seq(T) /\ c \in T
      OBVIOUS
    <2> HIDE DEF T
    <2>2. /\ n \in Nat /\ more \in Seq(T) /\ Len(more) = n + 1 /\ more[n + 1] = c
          /\ \A i \in 1..n : more[i] = cs[i]
      BY <2>1, AppendProperties
    <2> QED BY <2>2 DEF T
  <1>2. PICK f : /\ f[0] = w /\ AllApplied(w, cs) = f[n]
                 /\ \A i \in 1..n : f[i] = Applied(f[i - 1], cs[i])
    BY AppliedInSteps
  <1> HIDE DEF more
  <1>3. PICK g : /\ g[0] = w /\ AllApplied(w, more) = g[n + 1]
                 /\ \A i \in 1..(n + 1) : g[i] = Applied(g[i - 1], more[i])
    <2>1. PICK g \in [0..Len(more) -> Simulation] :
                   /\ g[0] = w /\ AllApplied(w, more) = g[Len(more)]
                   /\ \A i \in 1..Len(more) : g[i] = Applied(g[i - 1], more[i])
      BY <1>1, AppliedInSteps, Zenon
    <2> QED BY <1>1, <2>1
  <1>4. \A i \in 0..n : f[i] = g[i]
    <2>1. ASSUME NEW m \in Nat, m < n, f[m] = g[m] PROVE f[m + 1] = g[m + 1]
      <3>1. m + 1 \in 1..n /\ m + 1 \in 1..(n + 1) /\ (m + 1) - 1 = m
        BY <1>1, <2>1
      <3>2. f[m + 1] = Applied(f[m], cs[m + 1]) /\ g[m + 1] = Applied(g[m], more[m + 1])
        BY <1>2, <1>3, <3>1
      <3> QED BY <1>1, <2>1, <3>1, <3>2
    <2>2. f[0] = g[0] /\ n \in Nat
      BY <1>1, <1>2, <1>3
    <2> HIDE DEF n
    <2> QED BY <2>1, <2>2, SameSteps
  <1>5. g[n + 1] = Applied(g[n], c)
    <2>1. n + 1 \in 1..(n + 1) /\ (n + 1) - 1 = n
      BY <1>1
    <2> QED BY <1>1, <1>3, <2>1
  <1>6. n \in 0..n
    BY <1>1
  <1> QED BY <1>2, <1>3, <1>4, <1>5, <1>6 DEF more

LEMMA AllAppliedAgrees ==
  ASSUME NEW v \in Simulation, NEW w \in Simulation, Agree(v, w), NEW cs \in Seq(Command)
  PROVE  Agree(AllApplied(v, cs), AllApplied(w, cs))
  <1> DEFINE n == Len(cs)
  <1>1. PICK f \in [0..n -> Simulation] : /\ f[0] = v /\ AllApplied(v, cs) = f[n]
                 /\ \A i \in 1..n : f[i] = Applied(f[i - 1], cs[i])
    BY AppliedInSteps
  <1>2. PICK g \in [0..n -> Simulation] : /\ g[0] = w /\ AllApplied(w, cs) = g[n]
                 /\ \A i \in 1..n : g[i] = Applied(g[i - 1], cs[i])
    BY AppliedInSteps
  <1> DEFINE Good == {m \in Nat : m <= n => Agree(f[m], g[m])}
  <1>3. 0 \in Good
    BY <1>1, <1>2
  <1>4. ASSUME NEW m \in Nat, m \in Good PROVE m + 1 \in Good
    <2> SUFFICES ASSUME m + 1 <= n PROVE Agree(f[m + 1], g[m + 1])
      OBVIOUS
    <2>1. m + 1 \in 1..n /\ (m + 1) - 1 = m /\ m \in 0..n /\ m <= n /\ cs[m + 1] \in Command
      OBVIOUS
    <2>2. Agree(f[m], g[m]) /\ f[m] \in Simulation /\ g[m] \in Simulation
      BY <1>1, <1>2, <1>4, <2>1
    <2>3. f[m + 1] = Applied(f[m], cs[m + 1]) /\ g[m + 1] = Applied(g[m], cs[m + 1])
      BY <1>1, <1>2, <2>1
    <2> QED BY <2>1, <2>2, <2>3, AppliedAgrees
  <1>5. n \in Nat /\ n \in Good
    <2> HIDE DEF Good
    <2> QED BY <1>3, <1>4, Counting
  <1> QED BY <1>1, <1>2, <1>5

-----------------------------------------------------------------------------
(* The ticks of a frame.                                                   *)

Recorded == [commands : Seq(Command), up : BOOLEAN]

\* What a level-up, if there is one, does to an offer.
Upped(o, up) == IF up THEN [o EXCEPT !.pending = o.pending + 1, !.dirty = TRUE] ELSE o

LEMMA LevelUpFacts ==
  ASSUME NEW w \in Simulation, NEW up \in BOOLEAN, NEW d \in Nat
  PROVE  /\ [LevelUpIf(w, up) EXCEPT !.took = d] \in Simulation
         /\ \A k \in Kind : [LevelUpIf(w, up) EXCEPT !.took = d][k] = Upped(w[k], up)
  <1> DEFINE u == LevelUpIf(w, up)
  <1>1. u \in Simulation /\ \A k \in Kind : u[k] = Upped(w[k], up)
    BY OfferedFacts DEF LevelUpIf, Upped
  <1> HIDE DEF u
  <1>2. [u EXCEPT !.took = d] \in Simulation /\ \A k \in Kind : [u EXCEPT !.took = d][k] = u[k]
    BY <1>1 DEF Simulation, Kind
  <1>3. [u EXCEPT !.took = d] \in Simulation /\ \A k \in Kind : [u EXCEPT !.took = d][k] = Upped(w[k], up)
    BY <1>1, <1>2
  <1> QED BY <1>3 DEF u

LEMMA DurationFacts == \A w \in Simulation : Duration(w) \in Nat
  BY Numbers DEF Duration

\* A tick, and its playback, are the commands and the level-up.
LEMMA TickFacts ==
  ASSUME NEW w \in Simulation, NEW t \in Recorded
  PROVE  /\ AllApplied(w, t.commands) \in Simulation
         /\ Stepped(w, t) \in Simulation /\ Replayed(w, t) \in Simulation
         /\ \A k \in Kind : Stepped(w, t)[k] = Upped(AllApplied(w, t.commands)[k], t.up)
         /\ \A k \in Kind : Replayed(w, t)[k] = Upped(AllApplied(w, t.commands)[k], t.up)
  <1> DEFINE a == AllApplied(w, t.commands)  d == Duration(w)  e == Duration(a)  up == t.up
  <1>1. t.commands \in Seq(Command) /\ up \in BOOLEAN
    BY DEF Recorded
  <1>2. a \in Simulation
    BY <1>1, AllAppliedTyped
  <1>3. d \in Nat /\ e \in Nat
    BY <1>2, DurationFacts
  <1>4. /\ Stepped(w, t) = [LevelUpIf(a, up) EXCEPT !.took = d]
        /\ Replayed(w, t) = [LevelUpIf(a, up) EXCEPT !.took = e]
    BY DEF Stepped, Replayed
  <1> HIDE DEF a, d, e, up
  <1>5. /\ [LevelUpIf(a, up) EXCEPT !.took = d] \in Simulation
        /\ \A k \in Kind : [LevelUpIf(a, up) EXCEPT !.took = d][k] = Upped(a[k], up)
    BY <1>1, <1>2, <1>3, LevelUpFacts
  <1>6. /\ [LevelUpIf(a, up) EXCEPT !.took = e] \in Simulation
        /\ \A k \in Kind : [LevelUpIf(a, up) EXCEPT !.took = e][k] = Upped(a[k], up)
    BY <1>1, <1>2, <1>3, LevelUpFacts
  <1> QED BY <1>2, <1>4, <1>5, <1>6 DEF a, up

LEMMA SteppedFacts ==
  \A w \in Simulation : \A t \in Recorded : Stepped(w, t) \in Simulation
  BY TickFacts

LEMMA ReplayedFacts ==
  \A w \in Simulation : \A t \in Recorded : Replayed(w, t) \in Simulation
  BY TickFacts

LEMMA SteppedInSteps ==
  ASSUME NEW w \in Simulation, NEW cs \in Seq(Recorded)
  PROVE  \E f \in [0..Len(cs) -> Simulation] :
           /\ f[0] = w /\ AllStepped(w, cs) = f[Len(cs)]
           /\ \A i \in 1..Len(cs) : f[i] = Stepped(f[i - 1], cs[i])
  <1> DEFINE n == Len(cs)
             after[i \in 0..Len(cs)] == IF i = 0 THEN w ELSE Stepped(after[i - 1], cs[i])
             step == [i \in 1..n |-> [v \in Simulation |-> Stepped(v, cs[i])]]
             Body(g) == [i \in 0..n |-> IF i = 0 THEN w ELSE Stepped(g[i - 1], cs[i])]
  <1>1. n \in Nat /\ \A i \in 1..n : cs[i] \in Recorded /\ i - 1 \in 0..n /\ i \in 0..n /\ i # 0
    OBVIOUS
  <1>2. step \in [1..n -> [Simulation -> Simulation]]
    BY <1>1, SteppedFacts
  <1>3. PICK f \in [0..n -> Simulation] : f[0] = w /\ \A i \in 1..n : f[i] = step[i][f[i - 1]]
    <2> DEFINE S == Simulation
    <2>1. Walk(n, S, w, step)
      BY <1>1, <1>2 DEF Walk
    <2> HIDE DEF step, n, S
    <2>2. Walked(n, S, w, step)
      BY <2>1, InSteps, Zenon
    <2> QED BY <2>2 DEF Walked, S
  <1>4. \A i \in 1..n : f[i] = Stepped(f[i - 1], cs[i])
    <2> SUFFICES ASSUME NEW i \in 1..n PROVE f[i] = Stepped(f[i - 1], cs[i])
      OBVIOUS
    <2> DEFINE k == f[i - 1]
    <2>1. k \in Simulation /\ f[i] = step[i][k]
      BY <1>1, <1>3
    <2>2. step[i] = [v \in Simulation |-> Stepped(v, cs[i])]
      OBVIOUS
    <2> HIDE DEF k, step
    <2>3. f[i] = Stepped(k, cs[i])
      BY <2>1, <2>2
    <2> QED BY <2>3 DEF k
  <1>5. f = Body(f)
    <2>1. ASSUME NEW i \in 0..n PROVE f[i] = Body(f)[i]
      <3>1. CASE i = 0
        BY <1>3, <3>1
      <3>2. CASE i \in 1..n
        BY <1>1, <1>4, <3>2
      <3> QED BY <1>1, <3>1, <3>2
    <2> QED BY <1>3, <2>1
  <1>6. after = Body(after)
    BY <1>5
  <1> HIDE DEF after
  <1>7. after[0] = w /\ \A i \in 1..n : after[i] = Stepped(after[i - 1], cs[i])
    <2>1. 0 \in 0..n
      BY <1>1
    <2> QED BY <1>1, <1>6, <2>1
  <1>8. \A i \in 0..n : after[i] = f[i]
    <2>1. ASSUME NEW m \in Nat, m < n, after[m] = f[m] PROVE after[m + 1] = f[m + 1]
      <3>1. m + 1 \in 1..n /\ (m + 1) - 1 = m
        BY <1>1, <2>1
      <3> QED BY <1>4, <1>7, <2>1, <3>1
    <2>2. n \in Nat /\ after[0] = f[0]
      BY <1>1, <1>3, <1>7
    <2> HIDE DEF n
    <2> QED BY <2>1, <2>2, SameSteps
  <1>9. AllStepped(w, cs) = after[n]
    BY DEF AllStepped, after
  <1>10. n \in 0..n
    BY <1>1
  <1> QED BY <1>3, <1>4, <1>8, <1>9, <1>10

LEMMA ReplayedInSteps ==
  ASSUME NEW w \in Simulation, NEW cs \in Seq(Recorded)
  PROVE  \E f \in [0..Len(cs) -> Simulation] :
           /\ f[0] = w /\ AllReplayed(w, cs) = f[Len(cs)]
           /\ \A i \in 1..Len(cs) : f[i] = Replayed(f[i - 1], cs[i])
  <1> DEFINE n == Len(cs)
             after[i \in 0..Len(cs)] == IF i = 0 THEN w ELSE Replayed(after[i - 1], cs[i])
             step == [i \in 1..n |-> [v \in Simulation |-> Replayed(v, cs[i])]]
             Body(g) == [i \in 0..n |-> IF i = 0 THEN w ELSE Replayed(g[i - 1], cs[i])]
  <1>1. n \in Nat /\ \A i \in 1..n : cs[i] \in Recorded /\ i - 1 \in 0..n /\ i \in 0..n /\ i # 0
    OBVIOUS
  <1>2. step \in [1..n -> [Simulation -> Simulation]]
    BY <1>1, ReplayedFacts
  <1>3. PICK f \in [0..n -> Simulation] : f[0] = w /\ \A i \in 1..n : f[i] = step[i][f[i - 1]]
    <2> DEFINE S == Simulation
    <2>1. Walk(n, S, w, step)
      BY <1>1, <1>2 DEF Walk
    <2> HIDE DEF step, n, S
    <2>2. Walked(n, S, w, step)
      BY <2>1, InSteps, Zenon
    <2> QED BY <2>2 DEF Walked, S
  <1>4. \A i \in 1..n : f[i] = Replayed(f[i - 1], cs[i])
    <2> SUFFICES ASSUME NEW i \in 1..n PROVE f[i] = Replayed(f[i - 1], cs[i])
      OBVIOUS
    <2> DEFINE k == f[i - 1]
    <2>1. k \in Simulation /\ f[i] = step[i][k]
      BY <1>1, <1>3
    <2>2. step[i] = [v \in Simulation |-> Replayed(v, cs[i])]
      OBVIOUS
    <2> HIDE DEF k, step
    <2>3. f[i] = Replayed(k, cs[i])
      BY <2>1, <2>2
    <2> QED BY <2>3 DEF k
  <1>5. f = Body(f)
    <2>1. ASSUME NEW i \in 0..n PROVE f[i] = Body(f)[i]
      <3>1. CASE i = 0
        BY <1>3, <3>1
      <3>2. CASE i \in 1..n
        BY <1>1, <1>4, <3>2
      <3> QED BY <1>1, <3>1, <3>2
    <2> QED BY <1>3, <2>1
  <1>6. after = Body(after)
    BY <1>5
  <1> HIDE DEF after
  <1>7. after[0] = w /\ \A i \in 1..n : after[i] = Replayed(after[i - 1], cs[i])
    <2>1. 0 \in 0..n
      BY <1>1
    <2> QED BY <1>1, <1>6, <2>1
  <1>8. \A i \in 0..n : after[i] = f[i]
    <2>1. ASSUME NEW m \in Nat, m < n, after[m] = f[m] PROVE after[m + 1] = f[m + 1]
      <3>1. m + 1 \in 1..n /\ (m + 1) - 1 = m
        BY <1>1, <2>1
      <3> QED BY <1>4, <1>7, <2>1, <3>1
    <2>2. n \in Nat /\ after[0] = f[0]
      BY <1>1, <1>3, <1>7
    <2> HIDE DEF n
    <2> QED BY <2>1, <2>2, SameSteps
  <1>9. AllReplayed(w, cs) = after[n]
    BY DEF AllReplayed, after
  <1>10. n \in 0..n
    BY <1>1
  <1> QED BY <1>3, <1>4, <1>8, <1>9, <1>10

\* Simulations that agree once the commands of a tick are applied agree after it.
LEMMA TickAgrees ==
  ASSUME NEW w \in Simulation, NEW r \in Simulation, NEW t \in Recorded,
         Agree(AllApplied(w, t.commands), AllApplied(r, t.commands))
  PROVE  Agree(Stepped(w, t), Replayed(r, t))
  <1>1. \A k \in Kind : Stepped(w, t)[k] = Upped(AllApplied(w, t.commands)[k], t.up)
    BY TickFacts
  <1>2. \A k \in Kind : Replayed(r, t)[k] = Upped(AllApplied(r, t.commands)[k], t.up)
    BY TickFacts
  <1> QED BY <1>1, <1>2 DEF Agree, Kind

LEMMA TickBalanced ==
  ASSUME NEW w \in Simulation, NEW t \in Recorded, Balanced(AllApplied(w, t.commands))
  PROVE  Balanced(Stepped(w, t))
  <1> DEFINE a == AllApplied(w, t.commands)
  <1>1. a \in Simulation /\ \A k \in Kind : Stepped(w, t)[k] = Upped(a[k], t.up)
    BY TickFacts
  <1>2. ASSUME NEW o \in Offer PROVE Upped(o, t.up).pending = IF t.up THEN o.pending + 1 ELSE o.pending
    BY DEF Upped, Offer
  <1>3. Balanced(a)
    OBVIOUS
  <1> HIDE DEF a
  <1>4. a["perk"] \in Offer /\ a["mod"] \in Offer
    BY <1>1, OfferFacts DEF Kind
  <1> QED BY <1>1, <1>2, <1>3, <1>4 DEF Balanced, Kind

\* So do the ticks of a frame, of which only the first one has commands.
LEMMA TicksAgree ==
  ASSUME NEW w \in Simulation, NEW r \in Simulation,
         NEW ticks \in Seq(Recorded), Len(ticks) >= 1,
         Agree(AllApplied(w, ticks[1].commands), AllApplied(r, ticks[1].commands))
  PROVE  /\ AllStepped(w, ticks) \in Simulation /\ AllReplayed(r, ticks) \in Simulation
         /\ Agree(AllStepped(w, ticks), AllReplayed(r, ticks))
  <1> DEFINE n == Len(ticks)
  <1>1. PICK f \in [0..n -> Simulation] : /\ f[0] = w /\ AllStepped(w, ticks) = f[n]
                 /\ \A i \in 1..n : f[i] = Stepped(f[i - 1], ticks[i])
    BY SteppedInSteps
  <1>2. PICK g \in [0..n -> Simulation] : /\ g[0] = r /\ AllReplayed(r, ticks) = g[n]
                 /\ \A i \in 1..n : g[i] = Replayed(g[i - 1], ticks[i])
    BY ReplayedInSteps
  <1>3. n \in Nat /\ n >= 1 /\ \A i \in 1..n : ticks[i] \in Recorded
    OBVIOUS
  <1> DEFINE Good == {m \in Nat : m + 1 <= n => Agree(f[m + 1], g[m + 1])}
  <1>4. 0 \in Good
    <2>1. 1 \in 1..n /\ 0 + 1 = 1 /\ 1 - 1 = 0 /\ ticks[1] \in Recorded
      BY <1>3
    <2>2. Agree(Stepped(w, ticks[1]), Replayed(r, ticks[1]))
      BY <2>1, TickAgrees
    <2>3. f[1] = Stepped(w, ticks[1]) /\ g[1] = Replayed(r, ticks[1])
      BY <1>1, <1>2, <2>1
    <2> QED BY <2>1, <2>2, <2>3
  <1>5. ASSUME NEW m \in Nat, m \in Good PROVE m + 1 \in Good
    <2> SUFFICES ASSUME (m + 1) + 1 <= n PROVE Agree(f[(m + 1) + 1], g[(m + 1) + 1])
      OBVIOUS
    <2> DEFINE i == (m + 1) + 1  t == ticks[i]  v == f[m + 1]  x == g[m + 1]
    <2>1. i \in 1..n /\ i - 1 = m + 1 /\ m + 1 \in 0..n /\ m + 1 <= n /\ t \in Recorded
      BY <1>3
    <2>2. Agree(v, x) /\ v \in Simulation /\ x \in Simulation
      BY <1>1, <1>2, <1>5, <2>1
    <2>3. f[i] = Stepped(v, t) /\ g[i] = Replayed(x, t)
      BY <1>1, <1>2, <2>1
    <2> HIDE DEF t, v, x
    <2>4. Agree(AllApplied(v, t.commands), AllApplied(x, t.commands))
      <3>1. t.commands \in Seq(Command)
        BY <2>1 DEF Recorded
      <3> QED BY <2>2, <3>1, AllAppliedAgrees
    <2>5. Agree(Stepped(v, t), Replayed(x, t))
      BY <2>1, <2>2, <2>4, TickAgrees
    <2> QED BY <2>3, <2>5
  <1>6. n - 1 \in Nat /\ n - 1 \in Good /\ (n - 1) + 1 = n /\ n \in 0..n
    <2> HIDE DEF Good
    <2>1. Nat \subseteq Good
      BY <1>4, <1>5, Counting
    <2> QED BY <1>3, <2>1
  <1> QED BY <1>1, <1>2, <1>6

LEMMA TicksBalanced ==
  ASSUME NEW w \in Simulation, NEW ticks \in Seq(Recorded), Len(ticks) >= 1,
         Balanced(AllApplied(w, ticks[1].commands)),
         \A i \in 2..Len(ticks) : ticks[i].commands = << >>
  PROVE  Balanced(AllStepped(w, ticks))
  <1> DEFINE n == Len(ticks)
  <1>1. PICK f \in [0..n -> Simulation] : /\ f[0] = w /\ AllStepped(w, ticks) = f[n]
                 /\ \A i \in 1..n : f[i] = Stepped(f[i - 1], ticks[i])
    BY SteppedInSteps
  <1>2. n \in Nat /\ n >= 1 /\ \A i \in 1..n : ticks[i] \in Recorded
    OBVIOUS
  <1> DEFINE Good == {m \in Nat : m + 1 <= n => Balanced(f[m + 1])}
  <1>3. 0 \in Good
    <2>1. 1 \in 1..n /\ 0 + 1 = 1 /\ 1 - 1 = 0 /\ ticks[1] \in Recorded
      BY <1>2
    <2>2. Balanced(Stepped(w, ticks[1]))
      BY <2>1, TickBalanced
    <2>3. f[1] = Stepped(w, ticks[1])
      BY <1>1, <2>1
    <2> QED BY <2>1, <2>2, <2>3
  <1>4. ASSUME NEW m \in Nat, m \in Good PROVE m + 1 \in Good
    <2> SUFFICES ASSUME (m + 1) + 1 <= n PROVE Balanced(f[(m + 1) + 1])
      OBVIOUS
    <2> DEFINE i == (m + 1) + 1  t == ticks[i]  v == f[m + 1]
    <2>1. i \in 2..n /\ i \in 1..n /\ i - 1 = m + 1 /\ m + 1 \in 0..n /\ m + 1 <= n /\ t \in Recorded
      BY <1>2
    <2>2. Balanced(v) /\ v \in Simulation /\ f[i] = Stepped(v, t) /\ t.commands = << >>
      BY <1>1, <1>4, <2>1
    <2> HIDE DEF t, v
    <2>3. Balanced(AllApplied(v, t.commands))
      BY <2>2, NoneApplied
    <2>4. Balanced(Stepped(v, t))
      BY <2>1, <2>2, <2>3, TickBalanced
    <2> QED BY <2>2, <2>4
  <1>5. n - 1 \in Nat /\ n - 1 \in Good /\ (n - 1) + 1 = n
    <2> HIDE DEF Good
    <2> QED BY <1>2, <1>3, <1>4, Counting
  <1> QED BY <1>1, <1>5

LEMMA PulledFacts ==
  ASSUME NEW n \in Nat, n >= 1, NEW ups \in [1..n -> BOOLEAN], NEW cs \in Seq(Command)
  PROVE  /\ Pulled(ups, cs) \in Seq(Recorded) /\ Len(Pulled(ups, cs)) = n
         /\ Pulled(ups, cs)[1].commands = cs
         /\ \A i \in 2..n : Pulled(ups, cs)[i].commands = << >>
  <1> DEFINE tick(i) == [commands |-> IF i = 1 THEN cs ELSE << >>, up |-> ups[i]]
  <1>1. \A i \in 1..n : tick(i) \in Recorded
    BY DEF Recorded
  <1>2. Pulled(ups, cs) = [i \in 1..n |-> tick(i)]
    BY DEF Pulled
  <1>3. tick(1).commands = cs /\ \A i \in 2..n : tick(i).commands = << >> /\ i \in 1..n
    OBVIOUS
  <1> HIDE DEF tick
  <1>4. [i \in 1..n |-> tick(i)] \in Seq(Recorded) /\ Len([i \in 1..n |-> tick(i)]) = n
    BY <1>1
  <1> QED BY <1>2, <1>3, <1>4

-----------------------------------------------------------------------------
(* The invariant.                                                          *)

\* The lists of both kinds stand.
Rolled(w) == ~w["perk"].dirty /\ ~w["mod"].dirty

\* What waits can be applied, by the run and by its playback, with the same
\* result; and nothing has been picked yet from the lists that it is about.
Waiting(q, w) ==
  /\ w \in Simulation /\ q \in Seq(Command)
  /\ q # << >> => Rolled(w)
  /\ Agree(AllApplied(w, q), AllApplied(replay, q))

Menus == [Kind -> [open : BOOLEAN, cancel : BOOLEAN, slid : 0..Slide]]

\* Panels are open over lists.
OnLists(m, w) == m \in Menus /\ ((\E k \in Kind : m[k].open) => Rolled(w))

\* Both panels open and close together, but for a pick in one of them.  The
\* offer of that one is then spent, once the commands that wait are applied,
\* and the other's is not; or there was none left of either.
Spent(w, k) ==
  \/ w[k].pending = w[Other(k)].pending + 1
  \/ w[k].pending = 0 /\ w[Other(k)].pending = 0
Together(m, q, w) ==
  LET after == AllApplied(w, q) IN
  /\ m["perk"].open = m["mod"].open => Balanced(after)
  /\ \A k \in Kind : m[k].open /\ ~m[Other(k)].open => ~m[k].cancel /\ q # << >> /\ Spent(after, k)

LevelUpInv ==
  /\ TypeOK
  /\ Waiting(queue, world)
  /\ OnLists(menu, world)
  /\ ~halved => Together(menu, queue, world)

-----------------------------------------------------------------------------
(* The parts of a frame.                                                   *)

LEMMA SlidFacts ==
  ASSUME NEW m \in Menus
  PROVE  /\ Slid(m) \in Menus
         /\ \A k \in Kind : Slid(m)[k].open = m[k].open /\ Slid(m)[k].cancel = m[k].cancel
  <1> DEFINE Panel == [open : BOOLEAN, cancel : BOOLEAN, slid : 0..Slide]
  <1>1. ASSUME NEW p \in Panel
        PROVE  Toward(p) \in Panel /\ Toward(p).open = p.open /\ Toward(p).cancel = p.cancel
    <2>1. p.slid \in 0..Slide /\ Slide \in Nat /\ p.open \in BOOLEAN /\ p.cancel \in BOOLEAN
      BY Numbers
    <2>2. CASE p.open
      <3> DEFINE x == IF p.slid < Slide THEN p.slid + 1 ELSE p.slid
      <3>1. Toward(p) = [p EXCEPT !.slid = x] /\ x \in 0..Slide
        BY <2>1, <2>2 DEF Toward
      <3> HIDE DEF x
      <3> QED BY <3>1
    <2>3. CASE ~p.open
      <3> DEFINE x == IF p.slid > 0 THEN p.slid - 1 ELSE p.slid
      <3>1. Toward(p) = [p EXCEPT !.slid = x] /\ x \in 0..Slide
        BY <2>1, <2>3 DEF Toward
      <3> HIDE DEF x
      <3> QED BY <3>1
    <2> QED BY <2>1, <2>2, <2>3
  <1>2. m \in [Kind -> Panel]
    BY DEF Menus
  <1>3. ASSUME NEW k \in Kind
        PROVE  Slid(m)[k] \in Panel /\ Slid(m)[k].open = m[k].open /\ Slid(m)[k].cancel = m[k].cancel
    <2>1. m[k] \in Panel /\ (Slid(m)[k] = m[k] \/ Slid(m)[k] = Toward(m[k]))
      BY <1>2 DEF Slid
    <2> HIDE DEF Panel
    <2> QED BY <1>1, <2>1
  <1>4. Slid(m) \in [Kind -> Panel]
    <2> HIDE DEF Panel
    <2> QED BY <1>3 DEF Slid
  <1> QED BY <1>3, <1>4 DEF Menus

\* One more command waits.
LEMMA OneMoreWaiting ==
  ASSUME TypeOK, NEW q, NEW w, Waiting(q, w), Rolled(w), NEW c \in Command
  PROVE  /\ Waiting(Append(q, c), w) /\ Append(q, c) # << >>
         /\ AllApplied(w, Append(q, c)) = Applied(AllApplied(w, q), c)
         /\ AllApplied(w, q) \in Simulation
  <1> DEFINE more == Append(q, c)
  <1>1. w \in Simulation /\ q \in Seq(Command) /\ replay \in Simulation
    BY DEF Waiting, TypeOK
  <1>2. more \in Seq(Command) /\ more # << >>
    <2> DEFINE T == Command
    <2>1. q \in Seq(T) /\ c \in T
      BY <1>1
    <2> HIDE DEF T
    <2>2. more \in Seq(T) /\ more # << >>
      BY <2>1, AppendProperties
    <2> QED BY <2>2 DEF T
  <1>3. /\ AllApplied(w, more) = Applied(AllApplied(w, q), c)
        /\ AllApplied(replay, more) = Applied(AllApplied(replay, q), c)
    BY <1>1, OneMoreApplied
  <1>4. /\ AllApplied(w, q) \in Simulation /\ AllApplied(replay, q) \in Simulation
        /\ Agree(AllApplied(w, q), AllApplied(replay, q))
    BY <1>1, AllAppliedTyped DEF Waiting
  <1>5. Agree(Applied(AllApplied(w, q), c), Applied(AllApplied(replay, q), c))
    BY <1>4, AppliedAgrees
  <1> HIDE DEF more
  <1>6. Waiting(more, w)
    BY <1>1, <1>2, <1>3, <1>5 DEF Waiting
  <1> QED BY <1>2, <1>3, <1>4, <1>6 DEF more

\* The lists are rolled by the player's interface, and by the command that the
\* interface submits with it.
LEMMA OpenedFacts ==
  ASSUME TypeOK, NEW q, NEW w, Waiting(q, w)
  PROVE  LET more == Append(q, OpenCommand) IN
         /\ Waiting(more, OpenLists(w)) /\ Rolled(OpenLists(w)) /\ more # << >>
         /\ Balanced(AllApplied(w, q)) => Balanced(AllApplied(OpenLists(w), more))
  <1> DEFINE more == Append(q, OpenCommand)  a == AllApplied(w, q)  b == AllApplied(replay, q)
             v == OpenLists(w)
  <1>1. /\ w \in Simulation /\ q \in Seq(Command) /\ replay \in Simulation
        /\ OpenCommand \in Command /\ OpenCommand.op = "open"
    BY DEF Waiting, TypeOK, Command, OpenCommand
  <1>2. /\ v \in Simulation /\ Rolled(v) /\ (Rolled(w) => v = w)
    BY <1>1, OpenListsFacts DEF Rolled, Kind
  <1>3. a \in Simulation /\ b \in Simulation /\ Agree(a, b)
    BY <1>1, AllAppliedTyped DEF Waiting
  <1>4. more \in Seq(Command) /\ more # << >>
    <2> DEFINE T == Command  o == OpenCommand
    <2>1. q \in Seq(T) /\ o \in T
      BY <1>1
    <2> HIDE DEF T, o
    <2>2. Append(q, o) \in Seq(T) /\ Append(q, o) # << >>
      BY <2>1, AppendProperties
    <2> QED BY <2>2 DEF T, o
  <1>5. \A u \in Simulation : Applied(u, OpenCommand) = OpenLists(u)
    BY <1>1 DEF Applied
  <1>6. AllApplied(replay, more) = OpenLists(b)
    BY <1>1, <1>3, <1>5, OneMoreApplied
  <1>7. AllApplied(v, more) = OpenLists(a)
    <2>1. AllApplied(v, more) = OpenLists(AllApplied(v, q))
      BY <1>1, <1>2, <1>5, AllAppliedTyped, OneMoreApplied
    <2>2. CASE q = << >>
      <3>1. AllApplied(v, q) = v /\ a = w
        BY <1>1, <1>2, <2>2, NoneApplied
      <3>2. OpenLists(v) = v
        BY <1>2, OpenListsFacts DEF Rolled
      <3> QED BY <2>1, <3>1, <3>2
    <2>3. CASE q # << >>
      BY <1>2, <2>1, <2>3 DEF Waiting
    <2> QED BY <2>2, <2>3
  <1> HIDE DEF more, a, b, v
  <1>8. Agree(OpenLists(a), OpenLists(b))
    BY <1>3, OpenListsFacts DEF Agree, Kind
  <1>9. Balanced(a) => Balanced(OpenLists(a))
    BY <1>3, OpenListsFacts DEF Balanced, Kind
  <1>10. Waiting(more, v)
    BY <1>2, <1>4, <1>6, <1>7, <1>8 DEF Waiting
  <1> QED BY <1>2, <1>4, <1>7, <1>9, <1>10 DEF more, a, v

\* The ticks of a frame use up what waits, if there is any.
LEMMA SimulateFacts ==
  ASSUME TypeOK, NEW q, NEW w, Waiting(q, w), Simulate(q, w), NEW h \in BOOLEAN,
         ~h => Balanced(AllApplied(w, q))
  PROVE  /\ accum' \in 0..(TickLength - 1) /\ levelUps' \in 0..MaxLevelUps
         /\ replay' \in Simulation /\ world' \in Simulation /\ queue' \in Seq(Command)
         /\ Agree(AllApplied(world', queue'), AllApplied(replay', queue'))
         /\ ~h => Balanced(AllApplied(world', queue'))
         /\ \/ queue' = q /\ world' = w
            \/ queue' = << >>
  <1> USE DEF Waiting
  <1>1. PICK d \in FrameLengths :
          LET n == (accum + d) \div TickLength IN
          /\ accum' = (accum + d) % TickLength
          /\ IF n = 0 THEN queue' = q /\ world' = w /\ UNCHANGED <<replay, levelUps>>
             ELSE \E ups \in [1..n -> BOOLEAN] :
                    LET gained == Cardinality({i \in 1..n : ups[i]}) IN
                    /\ levelUps + gained <= MaxLevelUps
                    /\ levelUps' = levelUps + gained
                    /\ world' = AllStepped(w, Pulled(ups, q))
                    /\ replay' = AllReplayed(replay, Pulled(ups, q))
                    /\ queue' = << >>
    BY DEF Simulate
  <1> DEFINE n == (accum + d) \div TickLength
  <1>2. /\ accum \in Nat /\ levelUps \in 0..MaxLevelUps /\ replay \in Simulation
        /\ d \in Nat /\ TickLength \in Nat /\ TickLength >= 1 /\ MaxLevelUps \in Nat
    BY Numbers DEF TypeOK
  <1>3. n \in Nat /\ accum' \in 0..(TickLength - 1)
    BY <1>1, <1>2
  <1>4. CASE n = 0
    BY <1>1, <1>2, <1>3, <1>4
  <1>5. CASE n # 0
    <2>1. PICK ups \in [1..n -> BOOLEAN] :
            LET gained == Cardinality({i \in 1..n : ups[i]}) IN
            /\ levelUps + gained <= MaxLevelUps
            /\ levelUps' = levelUps + gained
            /\ world' = AllStepped(w, Pulled(ups, q))
            /\ replay' = AllReplayed(replay, Pulled(ups, q))
            /\ queue' = << >>
      BY <1>1, <1>5
    <2> DEFINE ticks == Pulled(ups, q)  gained == Cardinality({i \in 1..n : ups[i]})
    <2> HIDE DEF n
    <2>2. n \in Nat /\ n >= 1
      BY <1>3, <1>5
    <2>3. gained \in Nat
      <3>1. IsFiniteSet(1..n)
        BY <2>2, FS_Interval
      <3>2. IsFiniteSet({i \in 1..n : ups[i]})
        BY <3>1, FS_Subset
      <3> QED BY <3>2, FS_CardinalityType
    <2>4. /\ ticks \in Seq(Recorded) /\ Len(ticks) = n /\ ticks[1].commands = q
          /\ \A i \in 2..n : ticks[i].commands = << >>
      BY <2>2, PulledFacts
    <2>5. levelUps' \in 0..MaxLevelUps
      <3> HIDE DEF gained
      <3>1. levelUps + gained <= MaxLevelUps /\ levelUps' = levelUps + gained
        BY <2>1 DEF gained
      <3> QED BY <1>2, <2>3, <3>1
    <2> HIDE DEF ticks
    <2>6. world' = AllStepped(w, ticks) /\ replay' = AllReplayed(replay, ticks) /\ queue' = << >>
      BY <2>1 DEF ticks
    <2>7. world' \in Simulation /\ replay' \in Simulation /\ Agree(world', replay')
      BY <1>2, <2>2, <2>4, <2>6, TicksAgree
    <2>8. ~h => Balanced(world')
      BY <2>2, <2>4, <2>6, TicksBalanced
    <2>9. AllApplied(world', queue') = world' /\ AllApplied(replay', queue') = replay'
      BY <2>6, <2>7, NoneApplied
    <2>10. queue' \in Seq(Command)
      BY <2>6
    <2> QED BY <1>3, <2>5, <2>6, <2>7, <2>8, <2>9, <2>10
  <1> QED BY <1>4, <1>5

\* The end of a frame keeps the invariant, if it holds of what the player left.
LEMMA SettleKeeps ==
  ASSUME TypeOK, paused' \in BOOLEAN, halved' \in BOOLEAN,
         NEW m, NEW had \in BOOLEAN, NEW q, NEW w, Settle(m, had, q, w),
         Waiting(q, w), OnLists(m, w), ~halved' => Together(m, q, w)
  PROVE  LevelUpInv'
  <1> DEFINE s == Slid(m)
  <1>1. /\ menu' = s /\ roundHadPick' = (had /\ Active(s))
        /\ reopenPending' = ((reopenPending /\ Active(menu)) \/ (had /\ ~Active(s)))
        /\ IF Active(s) \/ paused' THEN Still(q, w) ELSE Simulate(q, w)
    BY DEF Settle
  <1>2. s \in Menus /\ \A k \in Kind : s[k].open = m[k].open /\ s[k].cancel = m[k].cancel
    BY SlidFacts DEF OnLists
  <1>3. roundHadPick' \in BOOLEAN /\ reopenPending' \in BOOLEAN
    BY <1>1
  <1>4. /\ w \in Simulation /\ q \in Seq(Command) /\ replay \in Simulation
        /\ levelUps \in 0..MaxLevelUps /\ TickLength \in Nat /\ TickLength >= 1
    BY Numbers DEF Waiting, TypeOK
  <1> HIDE DEF s
  <1>5. CASE Active(s) \/ paused'
    <2>1. accum' = 0 /\ queue' = q /\ world' = w /\ replay' = replay /\ levelUps' = levelUps
      BY <1>1, <1>5 DEF Still
    <2>2. TypeOK'
      BY <1>1, <1>2, <1>3, <1>4, <2>1 DEF TypeOK, Menus
    <2>3. Waiting(queue, world)'
      BY <2>1 DEF Waiting
    <2>4. OnLists(menu, world)'
      BY <1>1, <1>2, <2>1 DEF OnLists
    <2>5. ASSUME ~halved' PROVE Together(menu', queue', world')
      <3>1. s["perk"].open = m["perk"].open /\ s["mod"].open = m["mod"].open
        BY <1>2 DEF Kind
      <3>2. \A k \in Kind : s[k].open = m[k].open /\ s[Other(k)].open = m[Other(k)].open
                            /\ s[k].cancel = m[k].cancel
        BY <1>2 DEF Other, Kind
      <3>3. Together(m, q, w)
        BY <2>5
      <3> QED BY <1>1, <2>1, <3>1, <3>2, <3>3 DEF Together
    <2> QED BY <2>2, <2>3, <2>4, <2>5 DEF LevelUpInv
  <1>6. CASE ~(Active(s) \/ paused')
    <2>1. Simulate(q, w) /\ \A k \in Kind : ~s[k].open /\ ~m[k].open
      BY <1>1, <1>2, <1>6 DEF Active
    <2>2. ~halved' => Balanced(AllApplied(w, q))
      <3>1. m["perk"].open = m["mod"].open
        BY <2>1 DEF OnLists, Menus, Kind
      <3> QED BY <3>1 DEF Together
    <2>3. /\ accum' \in 0..(TickLength - 1) /\ levelUps' \in 0..MaxLevelUps
          /\ replay' \in Simulation /\ world' \in Simulation /\ queue' \in Seq(Command)
          /\ Agree(AllApplied(world', queue'), AllApplied(replay', queue'))
          /\ ~halved' => Balanced(AllApplied(world', queue'))
          /\ \/ queue' = q /\ world' = w
             \/ queue' = << >>
      BY <2>1, <2>2, SimulateFacts
    <2>4. TypeOK'
      BY <1>1, <1>2, <1>3, <2>3 DEF TypeOK, Menus
    <2>5. Waiting(queue, world)'
      BY <2>3 DEF Waiting
    <2>6. OnLists(menu, world)'
      BY <1>1, <1>2, <2>1 DEF OnLists
    <2>7. ASSUME ~halved' PROVE Together(menu', queue', world')
      BY <1>1, <2>1, <2>3, <2>7 DEF Together, Kind
    <2> QED BY <2>4, <2>5, <2>6, <2>7 DEF LevelUpInv
  <1> QED BY <1>5, <1>6

\* What the player finds at the beginning of a frame.
LEMMA PanelsFacts ==
  ASSUME LevelUpInv
  PROVE  /\ Waiting(Commands, World) /\ OnLists(Panels, World)
         /\ ~halved => Together(Panels, Commands, World)
  <1> USE DEF LevelUpInv
  <1>1. menu \in Menus
    BY DEF OnLists
  <1>2. ASSUME NEW m \in Menus
        PROVE  LET c == [k \in Kind |-> [m[k] EXCEPT !.open = m[k].open /\ ~World[k].dirty]] IN
               /\ c \in Menus
               /\ \A k \in Kind : /\ c[k].open = (m[k].open /\ ~World[k].dirty)
                                  /\ c[k].cancel = m[k].cancel
    BY DEF Menus
  <1>3. CASE ~Reopens
    <2>1. World = world /\ Commands = queue
      BY <1>3 DEF World, Commands
    <2>2. Panels = [k \in Kind |-> [menu[k] EXCEPT !.open = menu[k].open /\ ~World[k].dirty]]
      BY <1>3 DEF Panels
    <2>3. /\ Panels \in Menus
          /\ \A k \in Kind : /\ Panels[k].open = (menu[k].open /\ ~World[k].dirty)
                             /\ Panels[k].cancel = menu[k].cancel
      BY <1>1, <1>2, <2>2
    <2>4. \A k \in Kind : menu[k].open \in BOOLEAN
      BY <1>1 DEF Menus
    <2>5. \A k \in Kind : Panels[k].open = menu[k].open
      BY <2>1, <2>3, <2>4 DEF OnLists, Rolled, Kind
    <2>6. Waiting(Commands, World)
      BY <2>1
    <2>7. OnLists(Panels, World)
      BY <2>1, <2>3, <2>5 DEF OnLists
    <2>8. ASSUME ~halved PROVE Together(Panels, Commands, World)
      <3>1. Panels["perk"].open = menu["perk"].open /\ Panels["mod"].open = menu["mod"].open
        BY <2>5 DEF Kind
      <3>2. \A k \in Kind : Panels[Other(k)].open = menu[Other(k)].open
        BY <2>5 DEF Other, Kind
      <3>3. Together(menu, queue, world)
        BY <2>8
      <3> QED BY <2>1, <2>3, <2>5, <3>1, <3>2, <3>3 DEF Together
    <2> QED BY <2>6, <2>7, <2>8
  <1>4. CASE Reopens
    <2>1. World = OpenLists(world) /\ Commands = Append(queue, OpenCommand)
      BY <1>4 DEF World, Commands
    <2>2. /\ Waiting(Commands, World) /\ Rolled(World) /\ Commands # << >>
          /\ Balanced(AllApplied(world, queue)) => Balanced(AllApplied(World, Commands))
      BY <2>1, OpenedFacts
    <2> DEFINE m == OpenPanels(menu)
    <2>3. m \in Menus /\ \A k \in Kind : m[k].open
      BY <1>1 DEF OpenPanels, Menus
    <2>4. Panels = [k \in Kind |-> [m[k] EXCEPT !.open = m[k].open /\ ~World[k].dirty]]
      BY <1>4 DEF Panels
    <2> HIDE DEF m
    <2>5. Panels \in Menus /\ \A k \in Kind : Panels[k].open = (m[k].open /\ ~World[k].dirty)
      BY <1>2, <2>3, <2>4
    <2>6. \A k \in Kind : Panels[k].open
      BY <2>2, <2>3, <2>5 DEF Rolled, Kind
    <2>7. ASSUME ~halved PROVE Together(Panels, Commands, World)
      <3>1. \A k \in Kind : ~menu[k].open
        BY <1>4 DEF Reopens, Active
      <3>2. Balanced(AllApplied(world, queue))
        BY <2>7, <1>1, <3>1 DEF Together, Kind, Menus
      <3>3. \A k \in Kind : Panels[Other(k)].open
        BY <2>6 DEF Other, Kind
      <3> QED BY <2>2, <3>2, <3>3 DEF Together
    <2> QED BY <2>2, <2>5, <2>7 DEF OnLists
  <1> QED BY <1>3, <1>4

-----------------------------------------------------------------------------
(* One lemma per action.                                                   *)

\* The panels after one, or both, have closed.
LEMMA CloseFacts ==
  ASSUME NEW m \in Menus, NEW ks
  PROVE  /\ Close(m, ks) \in Menus /\ WithoutCancel(Close(m, ks), ks) \in Menus
         /\ \A k \in Kind : /\ Close(m, ks)[k].open = (m[k].open /\ k \notin ks)
                            /\ WithoutCancel(Close(m, ks), ks)[k].open = (m[k].open /\ k \notin ks)
                            /\ WithoutCancel(Close(m, ks), ks)[k].cancel => ks \subseteq {k}
  <1>1. /\ Close(m, ks) \in Menus
        /\ \A k \in Kind : Close(m, ks)[k].open = (m[k].open /\ k \notin ks)
    BY DEF Close, Menus
  <1> DEFINE c == Close(m, ks)
  <1> HIDE DEF c
  <1>2. /\ WithoutCancel(c, ks) \in Menus
        /\ \A k \in Kind : /\ WithoutCancel(c, ks)[k].open = c[k].open
                           /\ WithoutCancel(c, ks)[k].cancel => ks \subseteq {k}
    BY <1>1 DEF c, WithoutCancel, Menus
  <1> QED BY <1>1, <1>2 DEF c

\* All panels closed.
LEMMA ClosedFacts ==
  ASSUME NEW m \in Menus, NEW q, NEW w, Waiting(q, w), \A k \in Kind : ~m[k].open
  PROVE  OnLists(m, w) /\ (Balanced(AllApplied(w, q)) => Together(m, q, w))
  <1>1. \A k \in Kind : m[k].open = FALSE
    BY DEF Menus
  <1> QED BY <1>1 DEF OnLists, Together, Kind

LEMMA TogetherOpen ==
  ASSUME NEW m \in Menus, NEW q, NEW w, Together(m, q, w),
         (\A k \in Kind : m[k].open) \/ (\A k \in Kind : ~m[k].open)
  PROVE  Balanced(AllApplied(w, q))
  <1>1. m["perk"].open = m["mod"].open
    BY DEF Menus, Kind
  <1> QED BY <1>1 DEF Together

LEMMA FrameIdleKeeps ==
  ASSUME LevelUpInv, FrameIdle
  PROVE  LevelUpInv'
  <1>1. /\ paused' \in BOOLEAN /\ halved' = halved /\ TypeOK /\ halved' \in BOOLEAN
        /\ roundHadPick \in BOOLEAN /\ Settle(Panels, roundHadPick, Commands, World)
    BY DEF FrameIdle, Tab, LevelUpInv, TypeOK
  <1>2. /\ Waiting(Commands, World) /\ OnLists(Panels, World)
        /\ ~halved => Together(Panels, Commands, World)
    BY PanelsFacts
  <1> DEFINE m == Panels  q == Commands  w == World
  <1> HIDE DEF m, q, w
  <1>3. /\ Settle(m, roundHadPick, q, w) /\ Waiting(q, w) /\ OnLists(m, w)
        /\ ~halved' => Together(m, q, w)
    BY <1>1, <1>2 DEF m, q, w
  <1> QED BY <1>1, <1>3, SettleKeeps

LEMMA FrameCancelKeeps ==
  ASSUME LevelUpInv, FrameCancel
  PROVE  LevelUpInv'
  <1> DEFINE m == Panels  q == Commands  w == World  c == Close(m, Kind)
  <1>1. /\ paused' \in BOOLEAN /\ halved' = halved /\ TypeOK /\ halved' \in BOOLEAN
        /\ roundHadPick \in BOOLEAN /\ Settle(c, roundHadPick, q, w)
        /\ \E k \in Kind : m[k].open /\ m[k].cancel
    BY DEF FrameCancel, Tab, LevelUpInv, TypeOK
  <1>2. Waiting(q, w) /\ OnLists(m, w) /\ (~halved => Together(m, q, w))
    BY PanelsFacts
  <1> HIDE DEF m, q, w
  <1>3. m \in Menus /\ c \in Menus /\ \A k \in Kind : ~c[k].open
    BY <1>2, CloseFacts DEF OnLists
  <1>4. ASSUME ~halved PROVE Balanced(AllApplied(w, q))
    <2>1. Together(m, q, w)
      BY <1>2, <1>4
    <2>2. PICK k \in Kind : m[k].open /\ m[k].cancel
      BY <1>1
    <2>3. m[Other(k)].open
      BY <2>1, <2>2 DEF Together
    <2>4. \A j \in Kind : m[j].open
      BY <2>2, <2>3 DEF Other, Kind
    <2> QED BY <1>3, <2>1, <2>4, TogetherOpen
  <1> HIDE DEF c
  <1>5. OnLists(c, w) /\ (~halved' => Together(c, q, w))
    BY <1>1, <1>2, <1>3, <1>4, ClosedFacts
  <1> QED BY <1>1, <1>2, <1>5, SettleKeeps

LEMMA FrameEscapeKeeps ==
  ASSUME LevelUpInv, FrameEscape
  PROVE  LevelUpInv'
  <1> DEFINE c == Close(menu, Kind)
  <1>1. /\ paused' \in BOOLEAN /\ TypeOK /\ halved \in BOOLEAN
        /\ halved' = (halved \/ \E k \in Kind : ~menu[k].open)
        /\ roundHadPick \in BOOLEAN /\ Settle(c, roundHadPick, queue, world)
    BY DEF FrameEscape, LevelUpInv, TypeOK
  <1>2. Waiting(queue, world) /\ OnLists(menu, world) /\ (~halved => Together(menu, queue, world))
    BY DEF LevelUpInv
  <1>3. menu \in Menus /\ c \in Menus /\ \A k \in Kind : ~c[k].open
    BY <1>2, CloseFacts DEF OnLists
  <1>4. ASSUME ~halved' PROVE Balanced(AllApplied(world, queue))
    <2>1. Together(menu, queue, world) /\ \A k \in Kind : menu[k].open
      BY <1>1, <1>2, <1>4
    <2> QED BY <1>3, <2>1, TogetherOpen
  <1> HIDE DEF c
  <1>5. OnLists(c, world) /\ (~halved' => Together(c, queue, world))
    BY <1>2, <1>3, <1>4, ClosedFacts
  <1>6. halved' \in BOOLEAN
    BY <1>1
  <1> QED BY <1>1, <1>2, <1>5, <1>6, SettleKeeps

LEMMA FramePromptKeeps ==
  ASSUME LevelUpInv, FramePrompt
  PROVE  LevelUpInv'
  <1> DEFINE m == Panels  q == Commands  w == World
             o == OpenPanels(m)  more == Append(q, OpenCommand)  v == OpenLists(w)
  <1>1. /\ paused' \in BOOLEAN /\ halved' = halved /\ TypeOK /\ halved' \in BOOLEAN
        /\ roundHadPick \in BOOLEAN /\ Settle(o, roundHadPick, more, v)
        /\ \A k \in Kind : ~m[k].open
    BY DEF FramePrompt, Tab, LevelUpInv, TypeOK, Active
  <1>2. Waiting(q, w) /\ OnLists(m, w) /\ (~halved => Together(m, q, w))
    BY PanelsFacts
  <1> HIDE DEF m, q, w
  <1>3. m \in Menus /\ o \in Menus /\ \A k \in Kind : o[k].open
    BY <1>2 DEF OnLists, OpenPanels, Menus
  <1>4. /\ Waiting(more, v) /\ Rolled(v) /\ more # << >>
        /\ Balanced(AllApplied(w, q)) => Balanced(AllApplied(v, more))
    BY <1>1, <1>2, OpenedFacts
  <1> HIDE DEF o, more, v
  <1>5. OnLists(o, v)
    BY <1>3, <1>4 DEF OnLists
  <1>6. ASSUME ~halved' PROVE Together(o, more, v)
    <2>1. Balanced(AllApplied(w, q))
      BY <1>1, <1>2, <1>3, <1>6, TogetherOpen
    <2>2. \A k \in Kind : o[Other(k)].open
      BY <1>3 DEF Other, Kind
    <2> QED BY <1>4, <2>1, <2>2 DEF Together
  <1> QED BY <1>1, <1>4, <1>5, <1>6, SettleKeeps

\* A pick of the one kind, and then of the other.
LEMMA OnePicked ==
  ASSUME NEW w \in Simulation, NEW k \in Kind, NEW i
  PROVE  /\ Balanced(w) => Spent(Picked(w, k, i), Other(k))
         /\ Spent(w, k) => Balanced(Picked(w, k, i))
  <1> DEFINE j == Other(k)  a == Picked(w, k, i)
  <1>1. j \in Kind /\ Other(j) = k
    BY DEF Other, Kind
  <1>2. /\ Balanced(w) <=> w[k].pending = w[j].pending
        /\ Balanced(a) <=> a[k].pending = a[j].pending
    BY DEF Balanced, Other, Kind
  <1>3. w[k].pending \in Nat /\ w[j].pending \in Nat
    BY <1>1, OfferFacts
  <1>4. CASE w[k].pending = 0
    <2>1. a = w
      BY <1>4, PickedFacts
    <2> QED BY <1>1, <1>2, <1>3, <1>4, <2>1 DEF Spent
  <1>5. CASE w[k].pending # 0
    <2>1. PICK c \in Nat : a[k].pending = w[k].pending + c - 1 /\ a[j].pending = w[j].pending + c
      BY <1>5, PickedPending
    <2> DEFINE x == a[k].pending  y == a[j].pending  u == w[k].pending  v == w[j].pending
    <2>2. /\ u \in Nat /\ v \in Nat /\ u # 0 /\ x = u + c - 1 /\ y = v + c
          /\ Balanced(w) <=> u = v
          /\ Balanced(a) <=> x = y
          /\ Spent(w, k) <=> (u = v + 1 \/ (u = 0 /\ v = 0))
          /\ Spent(a, j) <=> (y = x + 1 \/ (y = 0 /\ x = 0))
      BY <1>1, <1>2, <1>3, <1>5, <2>1 DEF Spent
    <2> HIDE DEF x, y, u, v, a, j
    <2>3. (Balanced(w) => Spent(a, j)) /\ (Spent(w, k) => Balanced(a))
      BY <2>2
    <2> QED BY <2>3 DEF a, j
  <1> QED BY <1>4, <1>5

LEMMA AppendedTwo ==
  ASSUME NEW T, NEW q \in Seq(T), NEW a \in T, NEW b \in T
  PROVE  /\ q \o (<<a>> \o << >>) = Append(q, a)
         /\ q \o (<< >> \o <<b>>) = Append(q, b)
         /\ q \o (<<a>> \o <<b>>) = Append(Append(q, a), b)
  OBVIOUS

PickOf(at, w, k) == PickCommand(k, at[k], w[k].list)

\* The commands of the picks: of one kind, or of the perk and then the modifier.
Submitted(ks, at, w, q) ==
  /\ \A k \in ks : PickOf(at, w, k) \in Command
  /\ \/ \E k \in Kind : ks = {k} /\ q \o Picks(ks, at, w) = Append(q, PickOf(at, w, k))
     \/ /\ ks = Kind
        /\ q \o Picks(ks, at, w) = Append(Append(q, PickOf(at, w, "perk")), PickOf(at, w, "mod"))

LEMMA PicksFacts ==
  ASSUME NEW ks \in SUBSET Kind, ks # {}, NEW at \in [ks -> Choice],
         NEW w \in Simulation, NEW q \in Seq(Command)
  PROVE  Submitted(ks, at, w, q)
  <1> USE DEF Submitted
  <1> DEFINE T == Command  a == PickOf(at, w, "perk")  b == PickOf(at, w, "mod")
  <1>1. \A k \in ks : PickOf(at, w, k) \in T
    BY OfferFacts DEF PickOf, PickCommand, Command
  <1>2. Picks(ks, at, w) = (IF "perk" \in ks THEN <<a>> ELSE << >>) \o (IF "mod" \in ks THEN <<b>> ELSE << >>)
    BY DEF Picks, PickOf
  <1>3. ks = {"perk"} \/ ks = {"mod"} \/ ks = {"perk", "mod"}
    BY DEF Kind
  <1> HIDE DEF a, b, T
  <1>4. CASE ks = {"perk"}
    <2>1. a \in T
      BY <1>1, <1>4 DEF a
    <2>2. Picks(ks, at, w) = <<a>> \o << >>
      BY <1>2, <1>4
    <2>3. q \o (<<a>> \o << >>) = Append(q, a)
      BY <2>1, AppendedTwo DEF T
    <2> QED BY <1>1, <1>4, <2>2, <2>3 DEF Kind, T, a
  <1>5. CASE ks = {"mod"}
    <2>1. b \in T
      BY <1>1, <1>5 DEF b
    <2>2. Picks(ks, at, w) = << >> \o <<b>>
      BY <1>2, <1>5
    <2>3. q \o (<< >> \o <<b>>) = Append(q, b)
      BY <2>1, AppendedTwo DEF T
    <2> QED BY <1>1, <1>5, <2>2, <2>3 DEF Kind, T, b
  <1>6. CASE ks = {"perk", "mod"}
    <2>1. a \in T /\ b \in T
      BY <1>1, <1>6 DEF a, b
    <2>2. Picks(ks, at, w) = <<a>> \o <<b>>
      BY <1>2, <1>6
    <2>3. q \o (<<a>> \o <<b>>) = Append(Append(q, a), b)
      BY <2>1, AppendedTwo DEF T
    <2> QED BY <1>1, <1>6, <2>2, <2>3 DEF Kind, T, a, b
  <1> QED BY <1>3, <1>4, <1>5, <1>6

LEMMA FramePickKeeps ==
  ASSUME LevelUpInv, FramePick
  PROVE  LevelUpInv'
  <1> DEFINE m == Panels  q == Commands  w == World
  <1>1. PICK ks \in (SUBSET {k \in Kind : m[k].open}) \ {{}} : \E at \in [ks -> Choice] :
          Settle(WithoutCancel(Close(m, ks), ks), TRUE, q \o Picks(ks, at, w), w)
    BY DEF FramePick
  <1>2. PICK at \in [ks -> Choice] :
          Settle(WithoutCancel(Close(m, ks), ks), TRUE, q \o Picks(ks, at, w), w)
    BY <1>1
  <1>3. paused' \in BOOLEAN /\ halved' = halved /\ TypeOK /\ halved' \in BOOLEAN
    BY DEF FramePick, Tab, LevelUpInv, TypeOK
  <1>4. Waiting(q, w) /\ OnLists(m, w) /\ (~halved => Together(m, q, w))
    BY PanelsFacts
  <1> HIDE DEF m, q, w
  <1> DEFINE c == WithoutCancel(Close(m, ks), ks)  more == q \o Picks(ks, at, w)
             after == AllApplied(w, q)  pick(k) == PickOf(at, w, k)
  <1>5. /\ m \in Menus /\ c \in Menus
        /\ \A k \in Kind : /\ c[k].open = (m[k].open /\ k \notin ks)
                           /\ c[k].cancel => ks \subseteq {k}
    BY <1>4, CloseFacts DEF OnLists
  <1>6. ks \in SUBSET Kind /\ ks # {} /\ (\A k \in ks : m[k].open) /\ Rolled(w)
    BY <1>4 DEF OnLists
  <1>7. w \in Simulation /\ q \in Seq(Command)
    BY <1>4 DEF Waiting
  <1>8. /\ \A k \in ks : pick(k) \in Command
        /\ \/ \E k \in Kind : ks = {k} /\ more = Append(q, pick(k))
           \/ ks = Kind /\ more = Append(Append(q, pick("perk")), pick("mod"))
    <2>1. Submitted(ks, at, w, q)
      BY <1>6, <1>7, PicksFacts
    <2> QED BY <2>1 DEF Submitted
  <1>9. OnLists(c, w)
    BY <1>5, <1>6 DEF OnLists
  <1>10. \A k \in Kind : \A v : Applied(v, pick(k)) = Picked(v, k, at[k])
    BY DEF Applied, PickOf, PickCommand
  <1> HIDE DEF c, more, pick
  <1>11. CASE \E k \in Kind : ks = {k} /\ more = Append(q, pick(k))
    <2>1. PICK k \in Kind : ks = {k} /\ more = Append(q, pick(k))
      BY <1>11
    <2> DEFINE j == Other(k)
    <2>2. j \in Kind /\ j # k /\ Other(j) = k /\ Kind = {j, k}
      BY DEF Other, Kind
    <2>3. /\ Waiting(more, w) /\ more # << >>
          /\ AllApplied(w, more) = Picked(after, k, at[k]) /\ after \in Simulation
      BY <1>3, <1>4, <1>6, <1>8, <1>10, <2>1, OneMoreWaiting
    <2>4. ASSUME ~halved' PROVE Together(c, more, w)
      <3> DEFINE p == Picked(after, k, at[k])
      <3>1. ~c[k].open /\ c[k].open \in BOOLEAN /\ m[k].open /\ (c[j].open = m[j].open) /\ ~c[j].cancel
        BY <1>5, <1>6, <2>1, <2>2 DEF Menus
      <3>2. Together(m, q, w)
        BY <1>3, <1>4, <2>4
      <3>3. CASE m[j].open
        <4>1. \A i \in Kind : m[i].open
          BY <2>2, <3>1, <3>3
        <4>2. Balanced(after)
          BY <1>5, <3>2, <4>1, TogetherOpen
        <4>3. Spent(p, j)
          BY <2>3, <4>2, OnePicked
        <4>4. c["perk"].open # c["mod"].open
          BY <2>2, <3>1, <3>3 DEF Other, Kind
        <4> HIDE DEF p, j
        <4>5. ASSUME NEW i \in Kind, c[i].open
              PROVE  ~c[i].cancel /\ more # << >> /\ Spent(p, i)
          BY <2>2, <2>3, <3>1, <4>3, <4>5
        <4> QED BY <2>3, <4>4, <4>5 DEF Together, p
      <3>4. CASE ~m[j].open
        <4>1. Spent(after, k)
          BY <3>1, <3>2, <3>4 DEF Together
        <4>2. Balanced(p)
          BY <2>3, <4>1, OnePicked
        <4>3. \A i \in Kind : ~c[i].open
          BY <2>2, <3>1, <3>4
        <4> QED BY <1>5, <2>3, <4>2, <4>3, ClosedFacts
      <3> QED BY <3>3, <3>4
    <2> QED BY <1>2, <1>3, <1>9, <2>3, <2>4, SettleKeeps DEF c, more
  <1>12. CASE ks = Kind /\ more = Append(Append(q, pick("perk")), pick("mod"))
    <2> DEFINE a == pick("perk")  b == pick("mod")  one == Append(q, a)
               x == Picked(after, "perk", at["perk"])  y == Picked(x, "mod", at["mod"])
    <2>1. a \in Command /\ b \in Command
      BY <1>8, <1>12 DEF Kind
    <2>2. /\ Waiting(one, w) /\ one # << >> /\ AllApplied(w, one) = x /\ after \in Simulation
      BY <1>3, <1>4, <1>6, <1>10, <2>1, OneMoreWaiting DEF Kind
    <2> HIDE DEF one, x
    <2>3. /\ Waiting(more, w) /\ more # << >> /\ AllApplied(w, more) = y /\ x \in Simulation
      <3>1. /\ Waiting(Append(one, b), w) /\ Append(one, b) # << >>
            /\ AllApplied(w, Append(one, b)) = Applied(x, b) /\ x \in Simulation
        BY <1>3, <1>6, <2>1, <2>2, OneMoreWaiting
      <3>2. Applied(x, b) = y
        BY <1>10 DEF Kind
      <3> QED BY <1>12, <3>1, <3>2 DEF one
    <2>4. ASSUME ~halved' PROVE Together(c, more, w)
      <3>1. \A k \in Kind : m[k].open /\ ~c[k].open
        BY <1>5, <1>6, <1>12
      <3>2. Balanced(after)
        BY <1>3, <1>4, <1>5, <2>4, <3>1, TogetherOpen
      <3>3. Spent(x, "mod")
        BY <2>2, <3>2, OnePicked DEF Other, Kind, x
      <3>4. Balanced(y)
        BY <2>3, <3>3, OnePicked DEF Kind
      <3> QED BY <1>5, <2>3, <3>1, <3>4, ClosedFacts
    <2> QED BY <1>2, <1>3, <1>9, <2>3, <2>4, SettleKeeps DEF c, more
  <1> QED BY <1>8, <1>11, <1>12

-----------------------------------------------------------------------------
(* The theorems.                                                           *)

LEMMA InitLevelUp == Init => LevelUpInv
  <1> SUFFICES ASSUME Init PROVE LevelUpInv
    OBVIOUS
  <1>1. NoOffer \in Offer
    BY DEF NoOffer, Offer
  <1>2. world \in Simulation /\ replay = world /\ Balanced(world)
    BY <1>1 DEF Init, Simulation, Balanced
  <1>3. menu \in Menus /\ \A k \in Kind : ~menu[k].open
    BY Numbers DEF Init, Closed, Menus
  <1>0. queue \in Seq(Command)
    <2> DEFINE T == Command
    <2> HIDE DEF T
    <2>1. << >> \in Seq(T)
      OBVIOUS
    <2> QED BY <2>1 DEF Init, T
  <1>4. TypeOK
    <2>1. accum \in 0..(TickLength - 1) /\ levelUps \in 0..MaxLevelUps
      BY Numbers DEF Init
    <2>2. {roundHadPick, reopenPending, paused, halved} \subseteq BOOLEAN
      BY DEF Init
    <2> QED BY <1>0, <1>2, <1>3, <2>1, <2>2 DEF TypeOK, Menus
  <1>5. queue = << >> /\ AllApplied(world, queue) = world /\ AllApplied(replay, queue) = replay
    BY <1>2, NoneApplied DEF Init
  <1>6. Waiting(queue, world)
    BY <1>0, <1>2, <1>5 DEF Waiting, Agree
  <1> QED BY <1>2, <1>3, <1>4, <1>5, <1>6, ClosedFacts DEF LevelUpInv

LEMMA NextKeepsLevelUp == LevelUpInv /\ [Next]_vars => LevelUpInv'
  <1> SUFFICES ASSUME LevelUpInv, [Next]_vars PROVE LevelUpInv'
    OBVIOUS
  <1>1. CASE FrameIdle
    BY <1>1, FrameIdleKeeps
  <1>2. CASE FramePick
    BY <1>2, FramePickKeeps
  <1>3. CASE FrameCancel
    BY <1>3, FrameCancelKeeps
  <1>4. CASE FrameEscape
    BY <1>4, FrameEscapeKeeps
  <1>5. CASE FramePrompt
    BY <1>5, FramePromptKeeps
  <1>6. CASE UNCHANGED vars
    BY <1>6 DEF vars, LevelUpInv, TypeOK, Waiting, OnLists, Together
  <1> QED BY <1>1, <1>2, <1>3, <1>4, <1>5, <1>6 DEF Next

LEMMA AlwaysLevelUpInv == Spec => []LevelUpInv
  <1> QED BY InitLevelUp, NextKeepsLevelUp, PTL DEF Spec

\* Offers, lists, panels and commands are of their types, whatever the player
\* does in the panels and however long the frames are.
THEOREM AlwaysTypeOK == Spec => []TypeOK
  <1>1. LevelUpInv => TypeOK
    BY DEF LevelUpInv
  <1> QED BY <1>1, AlwaysLevelUpInv, PTL

\* A replay of a run has its offers and its lists, once what waits is recorded:
\* it does not matter that the interface rolls the lists between two ticks and
\* the playback at the beginning of the next one.
THEOREM ReplayAlwaysAgrees == Spec => []ReplayAgrees
  <1>1. LevelUpInv => ReplayAgrees
    BY DEF LevelUpInv, Waiting, ReplayAgrees, Agree, Kind
  <1> QED BY <1>1, AlwaysLevelUpInv, PTL

\* As many perks as modifiers wait to be picked, after every tick, for a player
\* who has not left a round with Escape and one pick.
THEOREM PicksAlwaysInPairs == Spec => []PicksInPairs
  <1>1. LevelUpInv => PicksInPairs
    <2> SUFFICES ASSUME LevelUpInv, queue = << >>, ~halved
                 PROVE  world["perk"].pending = world["mod"].pending
      BY DEF PicksInPairs, LevelUpInv, Waiting, Simulation
    <2>1. Together(menu, queue, world) /\ menu \in Menus /\ world \in Simulation
      BY DEF LevelUpInv, OnLists, Waiting
    <2>2. menu["perk"].open = menu["mod"].open
      BY <2>1 DEF Together, Other, Kind, Menus
    <2>3. Balanced(AllApplied(world, queue))
      BY <2>1, <2>2 DEF Together
    <2> QED BY <2>1, <2>3, NoneApplied DEF Balanced
  <1> QED BY <1>1, AlwaysLevelUpInv, PTL

===============================================================================
