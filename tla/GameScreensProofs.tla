--------------------------- MODULE GameScreensProofs ---------------------------
(***************************************************************************)
(* Proofs about GameScreens and the relics of RelicInventory, for every    *)
(* set of relics and cells and every bound.                                *)
(***************************************************************************)
EXTENDS GameScreens, SequenceTheorems, FiniteSetTheorems, TLAPS

\* A profile, in memory or in a file, in which no relic is twice and no two
\* relics cover one cell.
ProfileOK(s) ==
    /\ s.owned \cap DOMAIN s.placed = {}
    /\ IsInjective(s.placed)

InMemory == [owned |-> owned, placed |-> placed]

\* What a run and the sandbox's panel have of the relics.
ActiveOK == active \subseteq Relic /\ panel \subseteq Relic /\ debugged \in BOOLEAN

\* Neither the file nor a save under way says anything a start must not find.
\* What is written last is what is in memory, and unless that failed, the file
\* says it.
FileInv ==
    /\ disk \notin {Missing, Torn} => ProfileOK(disk)
    /\ \A i \in 1..Len(saves) : ProfileOK(saves[i])
    /\ running /\ saves # <<>> => saves[Len(saves)] = InMemory
    /\ running /\ saves = <<>> /\ ~stale => disk = InMemory

RelicInv == RelicTypeOK /\ RelicsExactlyOnce /\ FileInv

-----------------------------------------------------------------------------
\* What a grid is, and what putting a relic on it and taking one off it give.
LEMMA GridFacts ==
    ASSUME NEW g
    PROVE  g \in Grids <=> \E s \in SUBSET Relic : g \in [s -> Cell]
  BY DEF Grids

\* Placing a relic on a free cell leaves a grid in which no two share a cell.
LEMMA PutFacts ==
    ASSUME placed \in Grids, NEW r \in Relic, NEW c \in Cell,
           IsInjective(placed), \A q \in Placed : placed[q] # c
    PROVE  Put(r, c) \in Grids /\ IsInjective(Put(r, c)) /\ DOMAIN Put(r, c) = Placed \cup {r}
  <1>1. PICK s \in SUBSET Relic : placed \in [s -> Cell]
    BY GridFacts
  <1>2. Put(r, c) \in [s \cup {r} -> Cell]
    BY <1>1 DEF Put, Placed
  <1>3. Put(r, c) \in Grids
    BY <1>2, GridFacts
  <1>4. IsInjective(Put(r, c))
    BY <1>1 DEF Put, Placed, IsInjective
  <1> QED BY <1>3, <1>4 DEF Put

\* Taking a relic off the grid leaves such a grid.
LEMMA WithoutFacts ==
    ASSUME placed \in Grids, NEW r, IsInjective(placed)
    PROVE  Without(r) \in Grids /\ IsInjective(Without(r)) /\ DOMAIN Without(r) = Placed \ {r}
  <1>1. PICK s \in SUBSET Relic : placed \in [s -> Cell]
    BY GridFacts
  <1>2. Without(r) \in [s \ {r} -> Cell]
    BY <1>1 DEF Without, Placed, Restrict
  <1>3. Without(r) \in Grids
    BY <1>2, GridFacts
  <1>4. IsInjective(Without(r))
    BY <1>1 DEF Without, Placed, IsInjective, Restrict
  <1> QED BY <1>3, <1>4 DEF Without, Restrict

\* The grid with nothing on it.
LEMMA EmptyGrid == <<>> \in Grids /\ IsInjective(<<>>) /\ DOMAIN <<>> = {}
  <1>1. <<>> \in [{} -> Cell]
    OBVIOUS
  <1> QED BY <1>1, GridFacts DEF IsInjective

\* A saved profile is not one of the two values for what is not a profile.
LEMMA SavedIsProfile ==
    ASSUME NEW s \in Saved
    PROVE  s \notin {Missing, Torn}
  BY RelicAssumption DEF Saved, Grids

\* Saves of one profile or two, and how two lists of them are joined.
LEMMA SavesOf ==
    ASSUME NEW a, NEW b
    PROVE  /\ a \in Saved => <<a>> \in Seq(Saved)
           /\ a \in Saved /\ b \in Saved => <<a, b>> \in Seq(Saved)
           /\ Len(<<a>>) = 1 /\ Len(<<a, b>>) = 2
           /\ <<a>> # <<>> /\ <<a, b>> # <<>>
           /\ <<a>> \o <<b>> = <<a, b>>
           /\ <<>> \o <<b>> = <<b>> /\ <<a>> \o <<>> = <<a>> /\ <<>> \o <<>> = <<>>
  <1>1. a \in Saved => <<a>> \in Seq(Saved)
    OBVIOUS
  <1>2. a \in Saved /\ b \in Saved => <<a, b>> \in Seq(Saved)
    OBVIOUS
  <1>3. <<a>> \o <<b>> = <<a, b>>
    <2> DEFINE s == <<a>>  u == <<b>>
    <2>1. s \in Seq({a, b}) /\ u \in Seq({a, b}) /\ Len(s) = 1 /\ Len(u) = 1
      OBVIOUS
    <2>2. s \o u \in Seq({a, b}) /\ Len(s \o u) = 2
          /\ (s \o u)[1] = s[1] /\ (s \o u)[2] = u[1]
      <3> DEFINE S == {a, b}
      <3>1. s \in Seq(S) /\ u \in Seq(S) /\ Len(s) = 1 /\ Len(u) = 1
        BY <2>1
      <3> HIDE DEF s, u, S
      <3>2. /\ s \o u \in Seq(S) /\ Len(s \o u) = 2
            /\ \A i \in 1..2 : (s \o u)[i] = IF i <= 1 THEN s[i] ELSE u[i - 1]
        BY <3>1, ConcatProperties
      <3> QED BY <3>2 DEF S
    <2>3. <<a, b>> \in Seq({a, b}) /\ Len(<<a, b>>) = 2
      OBVIOUS
    <2> DEFINE v == <<a, b>>
    <2>4. s \o u = v
      <3>1. \A i \in 1..2 : (s \o u)[i] = v[i]
        BY <2>2
      <3> HIDE DEF s, u, v
      <3> QED BY <2>2, <2>3, <3>1, SeqEqual DEF v
    <2> QED BY <2>4
  <1>4. <<>> \o <<b>> = <<b>> /\ <<a>> \o <<>> = <<a>> /\ <<>> \o <<>> = <<>>
    OBVIOUS
  <1> QED BY <1>1, <1>2, <1>3, <1>4

-----------------------------------------------------------------------------
\* Reading the file, whatever a kill or a failed write left of it, gives every
\* relic one place.
LEMMA LoadKeeps ==
    ASSUME RelicInv, LoadRelics, running', held' = None, ActiveOK',
           UNCHANGED <<disk, stale>>
    PROVE  RelicInv'
  <1> DEFINE l == Loaded
             o == l.owned \cup Unseeded(l)
  <1>1. l \in Saved /\ ProfileOK(l)
    <2>1. NoRelics \in Saved /\ ProfileOK(NoRelics)
      BY EmptyGrid DEF NoRelics, Saved, ProfileOK
    <2>2. disk \notin {Missing, Torn} => disk \in Saved /\ ProfileOK(disk)
      BY DEF RelicInv, RelicTypeOK, FileInv
    <2> QED BY <2>1, <2>2 DEF Loaded
  <1>2. l = [owned |-> l.owned, placed |-> l.placed]
        /\ l.owned \in SUBSET Relic /\ l.placed \in Grids /\ DOMAIN l.placed \subseteq Relic
    BY <1>1, GridFacts DEF Saved
  <1> DEFINE seeded == [owned |-> o, placed |-> l.placed]
  <1>3. /\ owned' = o /\ placed' = l.placed
        /\ saves' = (IF disk \in {Missing, Torn} THEN <<NoRelics>> ELSE <<>>)
                    \o (IF Unseeded(l) # {} THEN <<seeded>> ELSE <<>>)
    <2>1. [l EXCEPT !.owned = l.owned \cup Unseeded(l)] = seeded
      <3> HIDE DEF l
      <3> QED BY <1>2
    <2> QED BY <2>1 DEF LoadRelics
  <1>4. o \in SUBSET Relic /\ o \cap DOMAIN l.placed = {} /\ o \cup DOMAIN l.placed = Relic
    BY <1>1, <1>2 DEF Unseeded, ProfileOK
  <1>5. [owned |-> o, placed |-> l.placed] \in Saved
    BY <1>2, <1>4 DEF Saved
  <1>6. ProfileOK([owned |-> o, placed |-> l.placed])
    BY <1>1, <1>4 DEF ProfileOK
  <1>7. InMemory' = [owned |-> o, placed |-> l.placed]
    BY <1>3 DEF InMemory
  <1>8. RelicsExactlyOnce'
    BY <1>1, <1>3, <1>4, RelicAssumption DEF RelicsExactlyOnce, Placed, ProfileOK
  <1>9. saves' \in Seq(Saved) /\ (\A i \in 1..Len(saves') : ProfileOK(saves'[i]))
        /\ IF saves' = <<>> THEN disk = InMemory' ELSE saves'[Len(saves')] = InMemory'
    <2>1. CASE disk \in {Missing, Torn} /\ Unseeded(l) # {}
      <3>1. NoRelics \in Saved /\ ProfileOK(NoRelics)
        BY EmptyGrid DEF NoRelics, Saved, ProfileOK
      <3>2. saves' = <<NoRelics, seeded>>
        BY <1>3, <2>1, SavesOf
      <3>3. saves' \in Seq(Saved)
        BY <1>5, <3>1, <3>2, SavesOf
      <3>4. Len(saves') = 2 /\ saves' # <<>> /\ saves'[1] = NoRelics /\ saves'[2] = InMemory'
        BY <1>7, <3>2
      <3>5. ProfileOK(InMemory')
        BY <1>6, <1>7
      <3> QED BY <3>1, <3>3, <3>4, <3>5
    <2>2. CASE disk \in {Missing, Torn} /\ Unseeded(l) = {}
      <3>1. l = NoRelics /\ NoRelics \in Saved /\ ProfileOK(NoRelics)
        BY <1>1, <2>2 DEF Loaded
      <3>2. saves' = <<NoRelics>>
        BY <1>3, <2>2, SavesOf
      <3>3. InMemory' = NoRelics
        BY <1>2, <1>7, <2>2, <3>1
      <3> QED BY <3>1, <3>2, <3>3
    <2>3. CASE disk \notin {Missing, Torn} /\ Unseeded(l) # {}
      <3>1. saves' = <<seeded>>
        BY <1>3, <2>3, SavesOf
      <3> QED BY <1>5, <1>6, <1>7, <3>1, SavesOf
    <2>4. CASE disk \notin {Missing, Torn} /\ Unseeded(l) = {}
      <3>1. saves' = <<>>
        BY <1>3, <2>4, SavesOf
      <3>2. InMemory' = disk
        BY <1>2, <1>7, <2>4 DEF Loaded
      <3> QED BY <3>1, <3>2
    <2> QED BY <2>1, <2>2, <2>3, <2>4
  <1>10. RelicTypeOK'
    BY <1>2, <1>3, <1>4, <1>9 DEF RelicInv, RelicTypeOK, ActiveOK
  <1>11. FileInv'
    BY <1>9 DEF RelicInv, FileInv
  <1> QED BY <1>8, <1>10, <1>11 DEF RelicInv

\* A step that changes the list, the grid or the cursor and leaves every relic
\* in one place keeps the invariant when what it saves ends in what is in memory.
LEMMA SavingKeeps ==
    ASSUME RelicInv, saves = <<>>, RelicsExactlyOnce', UNCHANGED <<running, disk, stale>>,
           InMemory' \in Saved, held' \in Relic \cup {None}, ActiveOK',
           ProfileOK(InMemory'),
           \/ saves' = <<>> /\ UNCHANGED <<owned, placed>>
           \/ saves' = <<InMemory'>>
           \/ \E a \in Saved : ProfileOK(a) /\ saves' = <<a, InMemory'>>
    PROVE  RelicInv'
  <1>1. owned' \in SUBSET Relic /\ placed' \in Grids
    BY DEF InMemory, Saved
  <1>2. saves' \in Seq(Saved) /\ (\A i \in 1..Len(saves') : ProfileOK(saves'[i]))
        /\ (saves' # <<>> => saves'[Len(saves')] = InMemory')
        /\ (saves' = <<>> => InMemory' = InMemory)
    <2>1. CASE saves' = <<>> /\ UNCHANGED <<owned, placed>>
      BY <2>1 DEF InMemory
    <2>2. CASE saves' = <<InMemory'>>
      BY <2>2
    <2>3. CASE \E a \in Saved : ProfileOK(a) /\ saves' = <<a, InMemory'>>
      BY <2>3
    <2> QED BY <2>1, <2>2, <2>3
  <1>3. RelicTypeOK'
    BY <1>1, <1>2 DEF RelicInv, RelicTypeOK, ActiveOK
  <1>4. FileInv'
    BY <1>2 DEF RelicInv, FileInv
  <1> QED BY <1>3, <1>4 DEF RelicInv

\* A list and a grid, as a profile to save.
LEMMA ProfileFacts ==
    ASSUME NEW o \in SUBSET Relic, NEW p \in Grids
    PROVE  /\ [owned |-> o, placed |-> p] \in Saved
           /\ ProfileOK([owned |-> o, placed |-> p]) <=>
                o \cap DOMAIN p = {} /\ IsInjective(p)
  BY DEF Saved, ProfileOK

\* Putting the relic on the cursor back into the list, or having none.
LEMMA ReturnKeeps ==
    ASSUME RelicInv, Ready, ReturnHeld, ActiveOK'
    PROVE  RelicInv'
  <1>1. /\ owned' \in SUBSET Relic /\ placed' \in Grids
        /\ owned' \cap Placed' = {} /\ IsInjective(placed')
        /\ held' = None /\ RelicsExactlyOnce'
    BY RelicAssumption DEF RelicInv, RelicTypeOK, RelicsExactlyOnce, Ready, ReturnHeld, Placed
  <1>2. InMemory' \in Saved /\ ProfileOK(InMemory')
    BY <1>1, ProfileFacts DEF InMemory, Placed
  <1>3. \/ saves' = <<>> /\ UNCHANGED <<owned, placed>>
        \/ saves' = <<InMemory'>>
    BY DEF ReturnHeld, InMemory
  <1> QED BY <1>1, <1>2, <1>3, SavingKeeps DEF Ready, ReturnHeld

\* Every click on the relic screen.
LEMMA ClickKeeps ==
    ASSUME RelicInv, Ready, Click
    PROVE  RelicInv'
  <1> USE DEF RelicInv, RelicTypeOK, RelicsExactlyOnce, Ready
  <1>0. owned \in SUBSET Relic /\ placed \in Grids /\ Placed \subseteq Relic
    BY GridFacts DEF Placed
  <1>a. UNCHANGED activeVars => ActiveOK'
    BY DEF activeVars, ActiveOK
  <1>1. ASSUME NEW r \in Relic, PickOwned(r) PROVE RelicInv'
    <2>1. /\ owned' \in SUBSET Relic /\ placed' = placed /\ held' \in Relic
          /\ owned' \cap DOMAIN placed' = {} /\ RelicsExactlyOnce'
      BY <1>0, <1>1, RelicAssumption DEF PickOwned, Placed
    <2>2. InMemory' \in Saved /\ ProfileOK(InMemory')
      BY <1>0, <2>1, ProfileFacts DEF InMemory
    <2>3. saves' = <<InMemory'>>
      BY <1>1 DEF PickOwned, InMemory
    <2> QED BY <1>a, <1>1, <2>1, <2>2, <2>3, SavingKeeps DEF PickOwned
  <1>2. ASSUME NEW r \in Relic, PickPlaced(r) PROVE RelicInv'
    <2>1. /\ owned' = owned /\ placed' = Without(r) /\ held' = r /\ held = None
          /\ r \in Placed
      BY <1>2 DEF PickPlaced
    <2>2. placed' \in Grids /\ IsInjective(placed') /\ DOMAIN placed' = Placed \ {r}
      BY <1>0, <2>1, WithoutFacts
    <2>3. RelicsExactlyOnce' /\ owned' \cap DOMAIN placed' = {}
      BY <1>0, <1>2, <2>1, <2>2, RelicAssumption DEF PickPlaced, Placed
    <2>4. InMemory' \in Saved /\ ProfileOK(InMemory')
      BY <1>0, <2>1, <2>2, <2>3, ProfileFacts DEF InMemory
    <2>5. saves' = <<InMemory'>>
      BY <1>2 DEF PickPlaced, InMemory, Grid
    <2> QED BY <1>a, <1>2, <2>1, <2>3, <2>4, <2>5, SavingKeeps DEF PickPlaced
  <1>3. ASSUME NEW r \in Relic, Unequip(r) PROVE RelicInv'
    <2>1. /\ owned' = owned \cup {r} /\ placed' = Without(r) /\ held' = held /\ held = None
          /\ r \in Placed
      BY <1>3 DEF Unequip
    <2>2. placed' \in Grids /\ IsInjective(placed') /\ DOMAIN placed' = Placed \ {r}
      BY <1>0, <2>1, WithoutFacts
    <2>3. RelicsExactlyOnce' /\ owned' \cap DOMAIN placed' = {} /\ owned' \in SUBSET Relic
      BY <1>0, <1>3, <2>1, <2>2, RelicAssumption DEF Unequip, Placed
    <2>4. InMemory' \in Saved /\ ProfileOK(InMemory')
      BY <2>2, <2>3, ProfileFacts DEF InMemory
    <2>5. Grid(Without(r)) \in Saved /\ ProfileOK(Grid(Without(r)))
      BY <1>0, <2>1, <2>2, <2>3, ProfileFacts DEF Grid
    <2>6. saves' = <<Grid(Without(r)), InMemory'>>
      BY <1>3 DEF Unequip, InMemory
    <2> QED BY <1>a, <1>3, <2>1, <2>3, <2>4, <2>5, <2>6, SavingKeeps DEF Unequip
  <1>4. ASSUME NEW c \in Cell, PlaceHeld(c) PROVE RelicInv'
    <2>1. /\ owned' = owned /\ placed' = Put(held, c) /\ held' = None /\ held \in Relic
          /\ \A r \in Placed : placed[r] # c
      BY <1>4 DEF PlaceHeld
    <2>2. placed' \in Grids /\ IsInjective(placed') /\ DOMAIN placed' = Placed \cup {held}
      BY <1>0, <2>1, PutFacts
    <2>3. RelicsExactlyOnce' /\ owned' \cap DOMAIN placed' = {}
      BY <1>0, <1>4, <2>1, <2>2, RelicAssumption DEF PlaceHeld, Placed
    <2>4. InMemory' \in Saved /\ ProfileOK(InMemory')
      BY <1>0, <2>1, <2>2, <2>3, ProfileFacts DEF InMemory
    <2>5. saves' = <<InMemory'>>
      BY <1>4 DEF PlaceHeld, InMemory, Grid
    <2> QED BY <1>a, <1>4, <2>1, <2>3, <2>4, <2>5, SavingKeeps DEF PlaceHeld
  <1>5. ASSUME PutBack PROVE RelicInv'
    BY <1>a, <1>5, ReturnKeeps DEF PutBack
  <1> QED BY <1>1, <1>2, <1>3, <1>4, <1>5 DEF Click

\* A save that is interrupted, fails or ends, and a program that stops.
LEMMA SaveKeeps ==
    ASSUME RelicInv, running, Save
    PROVE  RelicInv'
  <1> USE DEF RelicInv, RelicTypeOK, RelicsExactlyOnce, FileInv, InMemory, Placed, activeVars
  <1>1. ASSUME Truncate PROVE RelicInv'
    BY <1>1 DEF Truncate
  <1>2. ASSUME Write PROVE RelicInv'
    <2>1. /\ saves # <<>> /\ saves \in Seq(Saved) /\ saves[1] \in Saved
          /\ Tail(saves) \in Seq(Saved) /\ Len(Tail(saves)) = Len(saves) - 1
          /\ Head(saves) = saves[1]
          /\ \A i \in 1..Len(Tail(saves)) : Tail(saves)[i] = saves[i + 1]
      BY <1>2 DEF Write
    <2>2. disk' \in Saved /\ ProfileOK(disk')
      BY <1>2, <2>1 DEF Write
    <2>3. \A i \in 1..Len(saves') : ProfileOK(saves'[i])
      BY <1>2, <2>1 DEF Write
    <2>4. RelicTypeOK' /\ RelicsExactlyOnce'
      BY <1>2, <2>1, <2>2 DEF Write
    <2>5. InMemory' = InMemory
      BY <1>2 DEF Write
    <2>6. saves' = <<>> => disk' = InMemory
      <3> SUFFICES ASSUME saves' = <<>> PROVE disk' = InMemory
        OBVIOUS
      <3>1. Len(Tail(saves)) = 0
        BY <1>2, EmptySeq DEF Write
      <3>2. Len(saves) = 1
        <4> DEFINE n == Len(saves)
        <4>1. n \in Nat /\ n - 1 = 0
          BY <2>1, <3>1, LenProperties, Zenon
        <4> HIDE DEF n
        <4>2. n = 1
          BY <4>1
        <4> QED BY <4>2 DEF n
      <3> QED BY <1>2, <2>1, <3>2 DEF Write
    <2>7. saves' # <<>> => saves'[Len(saves')] = InMemory
      BY <1>2, <2>1 DEF Write
    <2> QED BY <1>2, <2>2, <2>3, <2>4, <2>5, <2>6, <2>7 DEF Write
  <1>3. ASSUME WriteFails PROVE RelicInv'
    <2>1. /\ Tail(saves) \in Seq(Saved) /\ Len(Tail(saves)) = Len(saves) - 1
          /\ \A i \in 1..Len(Tail(saves)) : Tail(saves)[i] = saves[i + 1]
      BY <1>3 DEF WriteFails
    <2>2. \A i \in 1..Len(saves') : ProfileOK(saves'[i])
      BY <1>3, <2>1 DEF WriteFails
    <2> QED BY <1>3, <2>1, <2>2 DEF WriteFails
  <1> QED BY <1>1, <1>2, <1>3 DEF Save

\* The program ends, or is killed: nothing is in memory any more.
LEMMA StopKeeps ==
    ASSUME RelicInv, StopRelics
    PROVE  RelicInv'
  <1>1. RelicTypeOK'
    BY EmptyGrid, EmptySeq DEF RelicInv, RelicTypeOK, StopRelics
  <1>2. FileInv'
    BY DEF RelicInv, FileInv, StopRelics
  <1> QED BY <1>1, <1>2 DEF RelicInv, RelicsExactlyOnce, StopRelics

\* A click on the sandbox's panel leaves list, grid and file alone.
LEMMA DebugKeeps ==
    ASSUME RelicInv, DebugSetActive
    PROVE  RelicInv'
  <1>1. PICK r \in Relic : panel' \in {panel \cup {r}, panel \ {r}}
    BY DEF DebugSetActive
  <1>2. active' \subseteq Relic /\ panel' \subseteq Relic /\ debugged' \in BOOLEAN
    BY <1>1 DEF DebugSetActive, RelicInv, RelicTypeOK
  <1> QED BY <1>2 DEF DebugSetActive, RelicInv, RelicTypeOK, RelicsExactlyOnce, FileInv,
           InMemory, Placed

\* Freezing some relics for a run.
LEMMA FreezeFacts ==
    ASSUME RelicTypeOK, NEW s \in SUBSET Relic, Freeze(s)
    PROVE  ActiveOK' /\ active' = s
  BY DEF Freeze, RelicTypeOK, ActiveOK

\* A step that leaves relics, pouch and file alone.
LEMMA UnchangedKeeps ==
    ASSUME RelicInv, UNCHANGED relicVars
    PROVE  RelicInv'
  BY DEF RelicInv, RelicTypeOK, RelicsExactlyOnce, FileInv, InMemory, Placed, relicVars, activeVars

\* A profile is empty when the game is first started.
LEMMA InitRelicInv == Init => RelicInv
  <1> SUFFICES ASSUME RelicInit PROVE RelicInv
    BY DEF Init
  <1>1. RelicTypeOK
    BY EmptyGrid, EmptySeq DEF RelicInit, RelicTypeOK
  <1>2. FileInv
    BY DEF RelicInit, FileInv
  <1> QED BY <1>1, <1>2 DEF RelicInv, RelicInit, RelicsExactlyOnce

-----------------------------------------------------------------------------
\* Every screen leaves the relics alone or does to them what one of the lemmas
\* above is about.
LEMMA NextRelicInv == RelicInv /\ [Next]_vars => RelicInv'
  <1> SUFFICES ASSUME RelicInv, [Next]_vars PROVE RelicInv'
    OBVIOUS
  <1>1. ASSUME Start PROVE RelicInv'
    <2>1. /\ LoadRelics /\ running' /\ held' = None /\ ActiveOK'
          /\ UNCHANGED <<disk, stale>>
      BY <1>1 DEF Start, StartRelics, activeVars, ActiveOK, RelicInv, RelicTypeOK
    <2> QED BY <2>1, LoadKeeps
  <1>2. ASSUME Stop PROVE RelicInv'
    BY <1>2, StopKeeps DEF Stop
  <1>3. ASSUME SaveRelics PROVE RelicInv'
    BY <1>3, SaveKeeps DEF SaveRelics
  <1>4. ASSUME Ready, Navigate PROVE RelicInv'
    <2>1. ASSUME BackToMenu PROVE RelicInv'
      <3>0. ActiveOK'
        BY <2>1, FreezeFacts DEF BackToMenu, RelicInv
      <3>1. CASE ReturnHeld
        BY <1>4, <3>0, <3>1, ReturnKeeps
      <3>2. CASE UNCHANGED <<running, owned, placed, held, disk, saves, stale>>
        BY <3>0, <3>2 DEF RelicInv, RelicTypeOK, RelicsExactlyOnce, FileInv, InMemory,
             Placed, ActiveOK
      <3> QED BY <2>1, <3>1, <3>2 DEF BackToMenu
    <2>2. ASSUME BackToPrevious \/ OpenPause \/ StartSession \/ SessionDenied
          PROVE  RelicInv'
      BY <2>2, UnchangedKeeps
      DEF BackToPrevious, OpenPause, StartSession, SessionDenied, RelicsKept
    <2>3. ASSUME NEW s \in Screen, OpenChild(s) PROVE RelicInv'
      BY <2>3, UnchangedKeeps DEF OpenChild, RelicsKept
    <2>4. ASSUME NEW s \in Screen, OpenScreen(s) PROVE RelicInv'
      <3>1. CASE BeginRun
        <4>1. ReturnHeld /\ Placed \in SUBSET Relic /\ Freeze(Placed)
          BY <3>1, GridFacts DEF BeginRun, RelicInv, RelicTypeOK, Placed
        <4>2. ActiveOK'
          BY <4>1, FreezeFacts DEF RelicInv
        <4> QED BY <1>4, <4>1, <4>2, ReturnKeeps
      <3>2. CASE OpenInventory
        <4>1. /\ LoadRelics /\ running' /\ held' = None /\ ActiveOK'
              /\ UNCHANGED <<disk, stale>>
          BY <1>4, <3>2, FreezeFacts DEF OpenInventory, Ready, RelicInv
        <4> QED BY <4>1, LoadKeeps
      <3>3. CASE RelicsKept
        BY <3>3, UnchangedKeeps DEF RelicsKept
      <3> QED BY <2>4, <3>1, <3>2, <3>3 DEF OpenScreen
    <2>5. ASSUME GameOver \/ PlayAgain PROVE RelicInv'
      BY <2>5, UnchangedKeeps DEF GameOver, PlayAgain, relicVars
    <2>6. ASSUME ClickRelics PROVE RelicInv'
      BY <1>4, <2>6, ClickKeeps DEF ClickRelics
    <2>7. ASSUME ClickSandbox PROVE RelicInv'
      BY <2>7, DebugKeeps DEF ClickSandbox
    <2> QED BY <1>4, <2>1, <2>2, <2>3, <2>4, <2>5, <2>6, <2>7 DEF Navigate
  <1>5. ASSUME UNCHANGED vars PROVE RelicInv'
    BY <1>5, UnchangedKeeps DEF vars
  <1> QED BY <1>1, <1>2, <1>3, <1>4, <1>5 DEF Next

\* The invariant of the relics holds in every reachable state.
LEMMA AlwaysRelicInv == Spec => []RelicInv
  BY InitRelicInv, NextRelicInv, PTL DEF Spec

\* While the game runs every relic is in exactly one place, the list, the grid or
\* the cursor: no kill, torn file or failed write of relics.json loses or doubles
\* one, and no two relics are placed on one cell.
THEOREM RelicsAlwaysExactlyOnce == Spec => []RelicsExactlyOnce
  <1>1. RelicInv => RelicsExactlyOnce
    BY DEF RelicInv
  <1> QED BY <1>1, AlwaysRelicInv, PTL

\* Between two steps of the player the file says what the list and the grid say,
\* unless the last save failed.
THEOREM AlwaysSavedWhenReady == Spec => []SavedWhenReady
  <1>1. RelicInv => SavedWhenReady
    BY DEF RelicInv, FileInv, InMemory, SavedWhenReady, Ready
  <1> QED BY <1>1, AlwaysRelicInv, PTL

-----------------------------------------------------------------------------
(* The screens.                                                            *)

\* The screens that wait under another one, those that return to the one under
\* them, those a quest ends in, and those that nothing waits under.
Waiting == Gameplay \cup {"open_statistics", "quest_results"}
Returning == {"open_pause_menu", "open_high_scores", "open_weapon_database",
              "open_perk_database", "open_credits"}
QuestEnds == {"quest_results", "quest_failed"}
Bottom == {"menu", "open_play_game", "open_lan_session"}

\* The run is the first screen of the stack, a quest's results come right over its
\* quest, and of the screens that wait only Statistics has slid out.
StackOK ==
    /\ \A i \in 1..Len(stack) : stack[i] \in Waiting
    /\ \A i \in 2..Len(stack) : stack[i] \notin Gameplay
    /\ \A i \in 1..Len(stack) : stack[i] = "quest_results" => i = 2 /\ stack[1] = "start_quest"
    /\ front \in QuestEnds => Len(stack) = 1 /\ stack[1] = "start_quest"
    /\ front \in Bottom => stack = <<>>
    /\ deaf \subseteq {"open_statistics"}

\* The screens: what is active, what waits and what is behind.
Structure ==
    /\ front \in Screen /\ stack \in Seq(Screen \ {"menu"})
    /\ background \in Gameplay \cup {None}
    /\ opened \subseteq Screen /\ deaf \subseteq opened
    /\ run \in [opened \cap Gameplay -> Run]
    /\ ScreensOpen /\ RunBehind /\ StackOK

\* The session: there is one while the lobby is on, and a program that is off
\* shows nothing and has no runtime.
SessionOK ==
    /\ session \in {"none", "auto", "set"} /\ inLobby \in BOOLEAN
    /\ runtime \in 0..MaxRuntimes /\ created \in runtime..MaxRuntimes
    /\ inLobby => session = "set"
    /\ front = "open_lan_lobby" => inLobby
    /\ ~running => front = "menu" /\ ~inLobby /\ runtime = 0

\* What a run was started on is what it has, but for the sandbox's relics.
TermsKept ==
    \A g \in DOMAIN run :
        /\ run[g].relics = active \/ (g = "start_maps" /\ debugged)
        /\ run[g].lobby => inLobby /\ runtime # 0 /\ run[g].runtime = runtime

ScreenInv == RelicTypeOK /\ Structure /\ TermsKept /\ SessionOK

\* Who offers what.
LEMMA OfferFacts ==
    ASSUME NEW f \in DOMAIN Offers
    PROVE  /\ f \notin Gameplay
           /\ "back_to_previous" \in Offers[f] => f \in Returning
           /\ "open_pause_menu" \in Offers[f] => f = "open_options"
           /\ Offers[f] \cap Children # {} => f \in {"open_statistics", "quest_results"}
           /\ Offers[f] \cap QuestEnds = {}
           /\ "open_relic_inventory" \in Offers[f] => f = "open_play_game"
           /\ f = "open_relic_inventory" => Offers[f] \cap Plain \subseteq {"start_survival"}
  BY DEF Offers, MenuOffers, PlayGameOffers, QuestsOffers, RelicScreenOffers, SessionOffers,
     LobbyOffers, PauseOffers, OptionsOffers, ControlsOffers, StatisticsOffers,
     HighScoresOffers, DatabaseOffers, CreditsOffers, ZookeeperOffers, PanelOffers,
     QuestResultsOffers, QuestFailedOffers, EndNoteOffers, Gameplay, Children, QuestEnds,
     Plain, Screen, Returning

\* The screens, one by one.
LEMMA ScreenNames ==
    /\ {"menu", "open_pause_menu", "open_lan_lobby", "open_play_game"} \subseteq DOMAIN Offers
    /\ Children \subseteq DOMAIN Offers
    /\ Waiting \subseteq Screen \ {"menu"}
    /\ Screen = DOMAIN Offers \cup Gameplay
  BY DEF Offers, MenuOffers, PlayGameOffers, QuestsOffers, RelicScreenOffers, SessionOffers,
     LobbyOffers, PauseOffers, OptionsOffers, ControlsOffers, StatisticsOffers,
     HighScoresOffers, DatabaseOffers, CreditsOffers, ZookeeperOffers, PanelOffers,
     QuestResultsOffers, QuestFailedOffers, EndNoteOffers, Gameplay, Children, Waiting, Screen

\* What the active screen offers, a run included.
LEMMA OfferedFacts ==
    ASSUME front \in Screen
    PROVE  /\ front \in Gameplay => /\ "back_to_previous" \notin Offered
                                    /\ Offered \cap Plain = {}
           /\ "back_to_previous" \in Offered => front \in Returning
           /\ "open_pause_menu" \in Offered => front \in Gameplay \/ front = "open_options"
           /\ Offered \cap Children # {} => front \in Waiting
           /\ Offered \cap QuestEnds # {} => front = "start_quest"
           /\ "open_relic_inventory" \in Offered => front = "open_play_game"
           /\ front = "open_relic_inventory" => Offered \cap Plain \subseteq {"start_survival"}
  <1>1. CASE front \in Gameplay
    <2>1. Offered \subseteq {"open_high_scores", "back_to_menu", "open_pause_menu",
                             "quest_results", "quest_failed"}
      BY <1>1 DEF Offered, RunOffers
    <2>2. Offered \cap QuestEnds # {} => front = "start_quest"
      BY <1>1 DEF Offered, RunOffers, QuestEnds
    <2> HIDE DEF Offered
    <2>3. Offered \cap Plain = {}
      BY <2>1, ScreenNames DEF Plain, Children, Screen, Offers, Gameplay
    <2> QED BY <1>1, <2>1, <2>2, <2>3 DEF Waiting, Gameplay
  <1>2. CASE front \in DOMAIN Offers
    BY <1>2, OfferFacts DEF Offered, Waiting
  <1> QED BY <1>1, <1>2, ScreenNames

\* There is one run at most: the active screen or the first that waits.
LEMMA OneRun ==
    ASSUME NEW f, NEW k \in Seq(Screen \ {"menu"}), NEW r, NEW o,
           o = {f} \cup ToSet(k), DOMAIN r = o \cap Gameplay,
           f \in Gameplay => k = <<>>,
           \A i \in 2..Len(k) : k[i] \notin Gameplay
    PROVE  Cardinality(DOMAIN r) <= 1
  <1>1. PICK x : DOMAIN r \subseteq {x}
    <2>1. ASSUME NEW g \in DOMAIN r PROVE g = IF k = <<>> THEN f ELSE k[1]
      BY <2>1 DEF ToSet
    <2> QED BY <2>1
  <1>2. IsFiniteSet({x}) /\ Cardinality({x}) = 1
    BY FS_Singleton
  <1>3. Cardinality(DOMAIN r) <= Cardinality({x})
    BY <1>1, <1>2, FS_Subset
  <1> QED BY <1>2, <1>3

\* What a run starts with.
LEMMA NewRunFacts ==
    ASSUME ScreenInv, RelicTypeOK', runtime' \in 0..MaxRuntimes
    PROVE  /\ NewRun \in Run
           /\ NewRun.relics = active'
           /\ NewRun.runtime = IF inLobby' /\ session # "none" THEN runtime' ELSE 0
           /\ NewRun.lobby => \/ front = "open_lan_lobby"
                              \/ "start_quest" \in DOMAIN run /\ run["start_quest"].lobby
  <1>1. front \in QuestEnds => "start_quest" \in DOMAIN run
    BY DEF ScreenInv, Structure, StackOK, ScreensOpen, Stacked, ToSet, Gameplay
  <1> QED BY <1>1, ScreensAssumption DEF NewRun, Run, RelicTypeOK, QuestEnds

\* A screen that closes all the others: a way to choose a game, or a game.
LEMMA Clears ==
    ASSUME ScreenInv, NEW s \in Screen, s \notin QuestEnds \cup Returning,
           NewRun \in Run, background' = None, Show(s, <<>>, Stacked \cup {front})
    PROVE  Structure' /\ run' = [g \in {s} \cap Gameplay |-> NewRun]
  <1>1. /\ front' = s /\ stack' = <<>> /\ opened' = {s} /\ deaf' = {}
        /\ run' = [g \in {s} \cap Gameplay |-> NewRun]
    BY DEF Show, ScreenInv, Structure, ScreensOpen
  <1>2. Stacked' = {}
    BY <1>1 DEF Stacked, ToSet
  <1>3. Cardinality(DOMAIN run') <= 1
    <2> DEFINE k == <<>>
    <2>1. k \in Seq(Screen \ {"menu"}) /\ opened' = {s} \cup ToSet(k) /\ Len(k) = 0
      BY <1>1 DEF ToSet
    <2>2. DOMAIN run' = opened' \cap Gameplay
      BY <1>1
    <2> HIDE DEF k
    <2>3. \A i \in 2..Len(k) : k[i] \notin Gameplay
      BY <2>1
    <2> QED BY <2>1, <2>2, <2>3, OneRun DEF k
  <1>4. "back_to_previous" \notin Offered'
    <2>1. CASE s \in Gameplay
      BY <1>1, <2>1 DEF Offered, RunOffers
    <2>2. CASE s \in DOMAIN Offers /\ s \notin Gameplay
      BY <1>1, <2>2, OfferFacts DEF Offered
    <2> QED BY <2>1, <2>2, ScreenNames
  <1>5. RunBehind'
    BY <1>1, <1>2, <1>3, <1>4 DEF RunBehind
  <1>6. StackOK'
    BY <1>1 DEF StackOK
  <1>7. ScreensOpen'
    BY <1>1, <1>2 DEF ScreensOpen
  <1> QED BY <1>1, <1>5, <1>6, <1>7 DEF Structure

\* A screen that takes the place of another over the same stack.
LEMMA Swaps ==
    ASSUME ScreenInv, NEW s \in DOMAIN Offers, s \notin Bottom \cup QuestEnds,
           "back_to_previous" \in Offers[s] => stack # <<>>,
           front \notin Gameplay \cup Stacked, background' = background,
           Show(s, stack, {front})
    PROVE  Structure' /\ run' = run
  <1>0. front \notin Gameplay /\ s \notin Gameplay /\ s \in Screen
    BY OfferFacts, ScreenNames
  <1>1. /\ front' = s /\ stack' = stack /\ opened' = Stacked \cup {s} /\ deaf' \subseteq deaf \ {s}
        /\ run' = [g \in (Stacked \cup {s}) \cap Gameplay |-> IF g = s THEN NewRun ELSE run[g]]
    <2>1. (opened \ {front}) \cup {s} = Stacked \cup {s}
      BY DEF ScreenInv, Structure, ScreensOpen
    <2> QED BY <2>1 DEF Show
  <1>2. DOMAIN run = Stacked \cap Gameplay /\ (Stacked \cup {s}) \cap Gameplay = Stacked \cap Gameplay
    BY <1>0 DEF ScreenInv, Structure, ScreensOpen
  <1>3. run' = [g \in DOMAIN run |-> run[g]]
    BY <1>0, <1>1, <1>2
  <1>4. run' = run
    BY <1>3 DEF ScreenInv, Structure
  <1>5. Stacked' = Stacked
    BY <1>1 DEF Stacked
  <1>6. Offered' = Offers[s]
    BY <1>0, <1>1 DEF Offered
  <1>7. RunBehind'
    BY <1>0, <1>1, <1>4, <1>5, <1>6 DEF RunBehind, ScreenInv, Structure
  <1>8. StackOK'
    BY <1>1 DEF StackOK, ScreenInv, Structure
  <1>9. ScreensOpen'
    BY <1>1, <1>5 DEF ScreensOpen
  <1>10. Stacked \subseteq Screen
    BY DEF Stacked, ToSet, ScreenInv, Structure
  <1>11. deaf' \subseteq opened'
    BY <1>1 DEF ScreenInv, Structure, ScreensOpen
  <1> QED BY <1>0, <1>1, <1>2, <1>4, <1>7, <1>8, <1>9, <1>10, <1>11 DEF Structure, ScreenInv

\* A screen over the one that waits for it.
LEMMA Pushes ==
    ASSUME ScreenInv, NEW s \in Children \cup {"open_pause_menu"}, front \in Waiting,
           s \in QuestEnds => front = "start_quest",
           front' = s, stack' = Append(stack, front), opened' = opened \cup {s}, run' = run,
           background' = IF front \in Gameplay THEN front ELSE background,
           deaf' \subseteq (deaf \ {s}) \cup ({front} \ (Gameplay \cup {"quest_results"}))
    PROVE  Structure'
  <1> USE DEF ScreenInv, Structure
  <1>0. s \in Screen /\ s \notin Gameplay /\ s \notin Bottom /\ s \notin Waiting \ {"quest_results"}
    <2>1. s \in DOMAIN Offers
      BY ScreenNames
    <2> QED BY <2>1, OfferFacts, ScreenNames DEF Children, Bottom, Waiting, Gameplay
  <1>1. front \in Screen \ {"menu"}
    BY ScreenNames
  <1>2. /\ stack' \in Seq(Screen \ {"menu"}) /\ Len(stack') = Len(stack) + 1
        /\ \A i \in 1..Len(stack) : stack'[i] = stack[i]
        /\ stack'[Len(stack) + 1] = front /\ Len(stack) \in Nat
    BY <1>1
  <1>3. Stacked' = Stacked \cup {front}
    <2>1. ASSUME NEW x \in Stacked' PROVE x \in Stacked \cup {front}
      BY <1>2, <2>1 DEF Stacked, ToSet
    <2>2. ASSUME NEW x \in Stacked \cup {front} PROVE x \in Stacked'
      <3>1. CASE x = front
        <4>1. Len(stack) + 1 \in DOMAIN stack'
          BY <1>2
        <4> QED BY <1>2, <3>1, <4>1 DEF Stacked, ToSet
      <3>2. CASE x \in Stacked
        <4>1. PICK i \in 1..Len(stack) : x = stack[i]
          BY <3>2 DEF Stacked, ToSet
        <4>2. i \in DOMAIN stack' /\ x = stack'[i]
          BY <1>2, <4>1
        <4> QED BY <4>2 DEF Stacked, ToSet
      <3> QED BY <2>2, <3>1, <3>2
    <2> QED BY <2>1, <2>2
  <1>4. opened' = {s} \cup Stacked' /\ opened' \subseteq Screen
        /\ opened' \cap Gameplay = opened \cap Gameplay
    BY <1>0, <1>3 DEF ScreensOpen
  <1>5. background' \in Gameplay \cup {None} /\ (background' # None => background' \in Stacked')
    BY <1>3 DEF RunBehind
  <1>6. Gameplay \cap Stacked' # {} => background' \in Gameplay
    BY <1>3 DEF RunBehind
  <1>7. RunBehind'
    <2>1. stack' # <<>>
      BY <1>2
    <2> QED BY <1>0, <1>5, <1>6, <2>1 DEF RunBehind
  <1>8. StackOK'
    <2>1. stack' # <<>>
      BY <1>2
    <2>2. front # s
      BY <1>0 DEF Waiting, QuestEnds, Gameplay
    <2>3. \A i \in 1..Len(stack') : stack'[i] \in Waiting
      BY <1>2 DEF StackOK
    <2>4. \A i \in 2..Len(stack') : stack'[i] \notin Gameplay
      BY <1>2 DEF StackOK, RunBehind
    <2>5. front \in QuestEnds => Len(stack) = 1 /\ stack[1] = "start_quest"
      BY DEF StackOK
    <2>6. \A i \in 1..Len(stack') :
             stack'[i] = "quest_results" => i = 2 /\ stack'[1] = "start_quest"
      BY <1>2, <2>5 DEF StackOK, QuestEnds
    <2>7. s \in QuestEnds => Len(stack') = 1 /\ stack'[1] = "start_quest"
      BY <1>2 DEF RunBehind, Gameplay
    <2>8. deaf' \subseteq {"open_statistics"}
      BY DEF StackOK, Waiting
    <2> QED BY <1>0, <2>1, <2>3, <2>4, <2>6, <2>7, <2>8 DEF StackOK
  <1>9. ScreensOpen' /\ deaf' \subseteq opened'
    <2>1. front # s
      BY <1>0 DEF Waiting, QuestEnds, Gameplay
    <2> QED BY <1>4, <2>1 DEF ScreensOpen
  <1> QED BY <1>0, <1>2, <1>4, <1>5, <1>7, <1>8, <1>9

\* The return to the screen that waits.
LEMMA Pops ==
    ASSUME ScreenInv, BackToPrevious
    PROVE  Structure'
  <1> USE DEF ScreenInv, Structure
  <1> DEFINE n == Len(stack)
  <1>1. front \in Returning /\ front \notin Gameplay /\ front \notin Waiting
    BY OfferedFacts DEF BackToPrevious, Returning, Gameplay, Waiting
  <1>2. /\ n \in Nat /\ n >= 1 /\ Last(stack) = stack[n]
        /\ Front(stack) \in Seq(Screen \ {"menu"}) /\ Len(Front(stack)) = n - 1
        /\ \A i \in 1..n-1 : Front(stack)[i] = stack[i]
    <2>1. stack # <<>> /\ n \in Nat /\ n >= 1
      BY DEF BackToPrevious
    <2>2. /\ SubSeq(stack, 1, n - 1) \in Seq(Screen \ {"menu"})
          /\ Len(SubSeq(stack, 1, n - 1)) = n - 1
          /\ \A i \in 1..n-1 : SubSeq(stack, 1, n - 1)[i] = stack[i]
      <3> DEFINE k == stack  S == Screen \ {"menu"}
      <3>1. k \in Seq(S) /\ Len(k) >= 1
        BY <2>1
      <3> HIDE DEF k, S
      <3> SUFFICES /\ SubSeq(k, 1, Len(k) - 1) \in Seq(S)
                   /\ Len(SubSeq(k, 1, Len(k) - 1)) = Len(k) - 1
                   /\ \A i \in 1..Len(k)-1 : SubSeq(k, 1, Len(k) - 1)[i] = k[i]
        BY DEF k, S
      <3>2. Len(k) - 1 \in Int /\ \A i \in 1..(Len(k) - 1) : k[i] \in S
        BY <3>1
      <3> DEFINE m == Len(k) - 1
      <3>3. m \in Int /\ m >= 0 /\ m - 1 + 1 = m /\ m = Len(k) - 1
        BY <3>1
      <3> HIDE DEF m
      <3>4. /\ SubSeq(k, 1, m) \in Seq(S) /\ Len(SubSeq(k, 1, m)) = m
            /\ \A i \in 1..m : SubSeq(k, 1, m)[i] = k[1 + i - 1]
        BY <3>2, <3>3, SubSeqProperties
      <3>5. \A i \in 1..m : 1 + i - 1 = i
        BY <3>3
      <3> QED BY <3>4, <3>5 DEF m
    <2> QED BY <2>1, <2>2 DEF Last, Front
  <1>3. /\ front' = stack[n] /\ stack' = Front(stack) /\ run' = run
        /\ opened' = opened \ {front}
        /\ background' = IF stack[n] \in Gameplay THEN None ELSE background
        /\ deaf' = deaf \ ({front} \cup ({stack[n]} \cap {"open_statistics"}))
    BY <1>2 DEF BackToPrevious, Reopened
  <1>4. Stacked' = ToSet(Front(stack)) /\ Stacked = {stack[n]} \cup Stacked'
    <2>1. Stacked' = {stack[i] : i \in 1..n-1}
      BY <1>2, <1>3 DEF Stacked, ToSet
    <2>2. Stacked = {stack[i] : i \in 1..n}
      BY <1>2 DEF Stacked, ToSet
    <2>3. 1..n = (1..n-1) \cup {n}
      BY <1>2
    <2> QED BY <1>3, <2>1, <2>2, <2>3 DEF Stacked
  <1>5. stack[n] \in Waiting /\ (stack[n] \in Gameplay => n = 1) /\ stack[n] # front
    BY <1>1, <1>2 DEF StackOK
  <1>6. opened' = {front'} \cup Stacked' /\ front \notin opened'
        /\ opened' \cap Gameplay = opened \cap Gameplay /\ opened' \subseteq Screen
    <2>1. front \notin Stacked
      <3>1. Stacked \subseteq Waiting
        BY DEF StackOK, Stacked, ToSet
      <3> QED BY <1>1, <3>1
    <2> QED BY <1>1, <1>3, <1>4, <1>5, <2>1 DEF ScreensOpen
  <1>7. ScreensOpen' /\ deaf' \subseteq opened'
    BY <1>3, <1>6 DEF ScreensOpen, StackOK
  <1>8. StackOK'
    <2>1. stack[n] \in QuestEnds => n = 2 /\ stack[1] = "start_quest"
      BY <1>2, <1>5 DEF StackOK, QuestEnds, Waiting, Gameplay
    <2>2. stack[n] \notin Bottom
      BY <1>5 DEF Bottom, Waiting, Gameplay
    <2>3. \A i \in 1..Len(stack') : stack'[i] = stack[i] /\ i \in 1..n
      BY <1>2, <1>3
    <2>4. /\ \A i \in 1..Len(stack') : stack'[i] \in Waiting
          /\ \A i \in 2..Len(stack') : stack'[i] \notin Gameplay
      BY <1>2, <1>3, <2>3 DEF StackOK
    <2>5. \A i \in 1..Len(stack') :
             stack'[i] = "quest_results" => i = 2 /\ stack'[1] = "start_quest"
      BY <1>2, <1>3, <2>3 DEF StackOK
    <2>6. front' \in QuestEnds => Len(stack') = 1 /\ stack'[1] = "start_quest"
      <3> SUFFICES ASSUME stack[n] \in QuestEnds
                   PROVE  Len(stack') = 1 /\ stack'[1] = "start_quest"
        BY <1>3
      <3>1. n = 2 /\ stack[1] = "start_quest"
        BY <2>1
      <3>2. Len(stack') = 1 /\ stack'[1] = stack[1]
        BY <1>2, <1>3, <3>1
      <3> QED BY <3>1, <3>2
    <2> QED BY <1>3, <2>2, <2>4, <2>5, <2>6 DEF StackOK
  <1>9. RunBehind'
    <2>1. stack[n] \in Gameplay => stack' = <<>> /\ background' = None
      BY <1>2, <1>3, <1>5
    <2>2. stack[n] \notin Gameplay => /\ background' # None => background' \in Stacked'
                                      /\ Gameplay \cap Stacked' # {} => background' \in Gameplay
      BY <1>1, <1>3, <1>4 DEF RunBehind
    <2>3. "back_to_previous" \notin Offered'
      <3>1. CASE stack[n] \in Gameplay
        BY <1>3, <3>1 DEF Offered, RunOffers
      <3>2. CASE stack[n] \in DOMAIN Offers /\ stack[n] \notin Gameplay
        <4>1. "back_to_previous" \notin Offers[stack[n]]
          BY <1>5, <3>2, OfferFacts DEF Returning, Waiting, Gameplay
        <4> QED BY <1>3, <3>2, <4>1 DEF Offered
      <3> QED BY <1>2, <3>1, <3>2, ScreenNames
    <2> QED BY <1>3, <2>1, <2>2, <2>3 DEF RunBehind
  <1>10. front' \in Screen /\ stack' \in Seq(Screen \ {"menu"}) /\ background' \in Gameplay \cup {None}
    BY <1>2, <1>3
  <1> QED BY <1>3, <1>6, <1>7, <1>8, <1>9, <1>10

\* A step between screens that leaves the run and the session alone.
LEMMA KeepsTerms ==
    ASSUME ScreenInv, RelicTypeOK', Structure', run' = run,
           UNCHANGED <<activeVars, running, netVars>>, running, front' # "open_lan_lobby"
    PROVE  ScreenInv'
  BY DEF ScreenInv, TermsKept, SessionOK, netVars, activeVars

\* A step that closes every screen for s, and starts a run if s is a game.
LEMMA ClearsTerms ==
    ASSUME ScreenInv, NEW s \in Screen, s \notin QuestEnds \cup Returning, running, running',
           s # "open_lan_lobby", RelicTypeOK', runtime' \in 0..MaxRuntimes,
           background' = None, Show(s, <<>>, Stacked \cup {front}),
           s \in Gameplay => \/ UNCHANGED netVars /\ (front = "open_lan_lobby" => runtime # 0)
                             \/ /\ inLobby' = FALSE /\ runtime' = 0 /\ ~InSession
                                /\ UNCHANGED <<session, created>>
                                /\ front = "open_lan_lobby" => runtime # 0,
           s \notin Gameplay => \/ UNCHANGED netVars
                                \/ /\ inLobby' = FALSE /\ runtime' = 0
                                   /\ UNCHANGED <<session, created>>
    PROVE  ScreenInv'
  <1>1. /\ NewRun \in Run /\ NewRun.relics = active'
        /\ NewRun.runtime = IF inLobby' /\ session # "none" THEN runtime' ELSE 0
        /\ NewRun.lobby => \/ front = "open_lan_lobby"
                           \/ "start_quest" \in DOMAIN run /\ run["start_quest"].lobby
    BY NewRunFacts
  <1>2. Structure' /\ run' = [g \in {s} \cap Gameplay |-> NewRun]
    BY <1>1, Clears
  <1>3. SessionOK'
    <2>1. front' = s
      BY DEF Show
    <2>2. CASE UNCHANGED netVars
      BY <2>1, <2>2 DEF ScreenInv, SessionOK, netVars
    <2>3. CASE inLobby' = FALSE /\ runtime' = 0 /\ UNCHANGED <<session, created>>
      <3>1. runtime \in 0..MaxRuntimes /\ created \in runtime..MaxRuntimes
        BY DEF ScreenInv, SessionOK
      <3>2. created \in 0..MaxRuntimes /\ 0 \in 0..MaxRuntimes
        BY <3>1, ScreensAssumption
      <3>3. runtime' = 0 /\ created' = created /\ session' = session /\ inLobby' = FALSE
        BY <2>3
      <3>4. session' \in {"none", "auto", "set"}
        BY <3>3 DEF ScreenInv, SessionOK
      <3> QED BY <2>1, <3>2, <3>3, <3>4 DEF SessionOK
    <2> QED BY <2>2, <2>3
  <1>4. ASSUME s \in Gameplay, NewRun.lobby
        PROVE  inLobby' /\ runtime' # 0 /\ NewRun.runtime = runtime'
    <2>1. inLobby /\ runtime # 0
      BY <1>1, <1>4 DEF ScreenInv, SessionOK, TermsKept, Run
    <2>2. session = "set"
      BY <2>1 DEF ScreenInv, SessionOK
    <2>3. UNCHANGED netVars
      BY <1>4, <2>1, <2>2 DEF InSession
    <2> QED BY <1>1, <2>1, <2>2, <2>3 DEF netVars
  <1>5. TermsKept'
    BY <1>1, <1>2, <1>4 DEF TermsKept
  <1> QED BY <1>2, <1>3, <1>5 DEF ScreenInv

\* The step to a screen that is not one of those above.
LEMMA OpenScreenKeeps ==
    ASSUME ScreenInv, RelicTypeOK', Ready, NEW s \in Screen, OpenScreen(s)
    PROVE  ScreenInv'
  <1>1. /\ s \in Plain /\ s \in Offered /\ front \in Screen
        /\ s \notin QuestEnds \cup Returning /\ s # "open_lan_lobby" /\ s # "menu"
        /\ front \notin Gameplay
    BY OfferedFacts DEF OpenScreen, Plain, Children, QuestEnds, Returning, ScreenInv, Structure
  <1>2. running /\ running'
    BY DEF Ready, OpenScreen, BeginRun, ReturnHeld, OpenInventory, RelicsKept, relicVars
  <1>3. runtime' \in 0..MaxRuntimes
    BY ScreensAssumption DEF OpenScreen, LeaveLobby, ResolveLan, netVars, ScreenInv, SessionOK
  <1>4. CASE s \in Clearing
    <2>1. background' = None /\ Show(s, <<>>, Stacked \cup {front})
      BY <1>4 DEF OpenScreen, Replace
    <2>2. s \in Gameplay =>
            \/ UNCHANGED netVars /\ (front = "open_lan_lobby" => runtime # 0)
            \/ /\ inLobby' = FALSE /\ runtime' = 0 /\ ~InSession
               /\ UNCHANGED <<session, created>>
               /\ front = "open_lan_lobby" => runtime # 0
      BY DEF OpenScreen, ResolveLan, Gameplay
    <2>3. s \notin Gameplay => \/ UNCHANGED netVars
                               \/ /\ inLobby' = FALSE /\ runtime' = 0
                                  /\ UNCHANGED <<session, created>>
      BY DEF OpenScreen, ResolveLan, LeaveLobby
    <2> QED BY <1>1, <1>2, <1>3, <2>1, <2>2, <2>3, ClearsTerms
  <1>5. CASE s \notin Clearing
    <2>1. Show(s, stack, {front}) /\ background' = background
      BY <1>5 DEF OpenScreen, Replace
    <2>2. s \notin Gameplay /\ s \notin Bottom /\ s \in DOMAIN Offers
      BY <1>1, <1>5, ScreenNames DEF Clearing, Bottom
    <2>3. Structure' /\ run' = run
      <3>1. front # "open_statistics"
        BY <1>1 DEF Offered, Offers, StatisticsOffers, Plain, Screen, Children, Gameplay
      <3>2. front \notin Stacked
        BY <1>1, <3>1 DEF ScreenInv, Structure, StackOK, Stacked, ToSet, Waiting, QuestEnds
      <3> QED BY <1>1, <2>1, <2>2, <3>2, OfferFacts, Swaps
    <2>4. UNCHANGED netVars
      BY <1>5, <2>2 DEF OpenScreen, ResolveLan, Leaves, Clearing
    <2>5. front # "open_relic_inventory"
      BY <1>1, <2>2, OfferedFacts DEF Gameplay
    <2>6. CASE s = "open_relic_inventory"
      <3>1. front = "open_play_game"
        BY <1>1, <2>6, OfferedFacts
      <3>2. opened = {front}
        BY <3>1 DEF ScreenInv, Structure, StackOK, Bottom, ScreensOpen, Stacked, ToSet
      <3>3. DOMAIN run = {}
        BY <1>1, <3>2 DEF ScreenInv, Structure
      <3>4. TermsKept'
        BY <2>3, <3>3 DEF TermsKept
      <3>5. SessionOK'
        BY <1>1, <1>2, <2>1, <2>4 DEF ScreenInv, SessionOK, netVars, Show
      <3> QED BY <2>3, <3>4, <3>5 DEF ScreenInv
    <2>7. CASE s # "open_relic_inventory"
      <3>1. UNCHANGED activeVars
        BY <2>5, <2>7 DEF OpenScreen, RelicsKept, relicVars
      <3>2. running' = running /\ front' # "open_lan_lobby"
        BY <1>1, <1>2, <2>1, <2>5, <2>7 DEF OpenScreen, RelicsKept, relicVars, Show
      <3> QED BY <1>2, <2>3, <2>4, <3>1, <3>2, KeepsTerms
    <2> QED BY <2>6, <2>7
  <1> QED BY <1>4, <1>5

\* A step on a screen that stays.
LEMMA SameScreens ==
    ASSUME Structure, SessionOK, UNCHANGED <<running, screenVars>>
    PROVE  Structure' /\ SessionOK'
  BY DEF Structure, ScreensOpen, RunBehind, StackOK, Stacked, SessionOK, screenVars, Offered,
     RunOffers

\* The run that is played is the only one.
LEMMA OnlyRun ==
    ASSUME Structure, front \in Gameplay
    PROVE  DOMAIN run = {front} /\ stack = <<>>
  BY DEF Structure, RunBehind, ScreensOpen, Stacked, ToSet

\* Every step between screens.
LEMMA NavigateKeeps ==
    ASSUME ScreenInv, RelicTypeOK', Ready, Navigate
    PROVE  ScreenInv'
  <1>0. front \in Screen /\ running
    BY DEF ScreenInv, Structure, Ready
  <1>1. ASSUME BackToMenu PROVE ScreenInv'
    <2>1. /\ "menu" \in Screen /\ "menu" \notin QuestEnds \cup Returning
          /\ "menu" \notin Gameplay
      BY ScreenNames, OfferFacts DEF QuestEnds, Returning
    <2>2. running' /\ runtime' \in 0..MaxRuntimes /\ UNCHANGED netVars
      BY <1>0, <1>1 DEF BackToMenu, ReturnHeld, netVars, ScreenInv, SessionOK
    <2> QED BY <1>0, <1>1, <2>1, <2>2, ClearsTerms DEF BackToMenu, CloseAll
  <1>2. ASSUME BackToPrevious PROVE ScreenInv'
    <2>1. Structure'
      BY <1>2, Pops
    <2>2. front' # "open_lan_lobby"
      <3>1. Len(stack) \in 1..Len(stack) /\ front' = stack[Len(stack)]
        BY <1>2 DEF BackToPrevious, Last, ScreenInv, Structure
      <3> QED BY <3>1 DEF ScreenInv, Structure, StackOK, Waiting, Gameplay
    <2> QED BY <1>0, <1>2, <2>1, <2>2, KeepsTerms DEF BackToPrevious, RelicsKept, relicVars
  <1>3. ASSUME OpenPause PROVE ScreenInv'
    <2>0. /\ UNCHANGED <<activeVars, running, netVars>>
          /\ "open_pause_menu" \in DOMAIN Offers /\ "open_pause_menu" \notin Gameplay
      BY <1>3, ScreenNames, OfferFacts DEF OpenPause, RelicsKept, relicVars
    <2>1. CASE front \in Gameplay
      <3>1. /\ background' = front
            /\ Show("open_pause_menu", Append(stack, front), {})
        BY <1>3, <2>1 DEF OpenPause
      <3>2. /\ front' = "open_pause_menu" /\ stack' = Append(stack, front)
            /\ opened' = opened \cup {"open_pause_menu"}
            /\ deaf' = deaf \ {"open_pause_menu"}
            /\ run' = run
        BY <2>0, <3>1 DEF Show, ScreenInv, Structure
      <3>3. Structure'
        BY <2>1, <3>1, <3>2, Pushes DEF Waiting, QuestEnds
      <3> QED BY <1>0, <2>0, <3>2, <3>3, KeepsTerms
    <2>2. CASE front \notin Gameplay /\ background = None
      <3>1. CloseAll
        BY <1>3, <2>2 DEF OpenPause
      <3>2. /\ "menu" \in Screen /\ "menu" \notin QuestEnds \cup Returning
            /\ "menu" \notin Gameplay
        BY ScreenNames, OfferFacts DEF QuestEnds, Returning
      <3>3. running' /\ runtime' \in 0..MaxRuntimes
        BY <1>0, <2>0 DEF netVars, ScreenInv, SessionOK
      <3> QED BY <1>0, <2>0, <3>1, <3>2, <3>3, ClearsTerms DEF CloseAll
    <2>3. CASE front \notin Gameplay /\ background # None
      <3>1. Show("open_pause_menu", stack, {front}) /\ background' = background
        BY <1>3, <2>3 DEF OpenPause
      <3>2. front = "open_options"
        BY <1>0, <1>3, <2>3, OfferedFacts DEF OpenPause
      <3>3. front \notin Stacked
        BY <3>2 DEF Stacked, ToSet, ScreenInv, Structure, StackOK, Waiting, Gameplay
      <3>4. stack # <<>>
        BY <2>3 DEF ScreenInv, Structure, RunBehind, Stacked, ToSet
      <3>5. Structure' /\ run' = run
        BY <2>0, <2>3, <3>1, <3>3, <3>4, Swaps DEF Bottom, QuestEnds
      <3>6. front' = "open_pause_menu"
        BY <3>1 DEF Show
      <3> QED BY <1>0, <2>0, <3>5, <3>6, KeepsTerms
    <2> QED BY <2>1, <2>2, <2>3
  <1>4. ASSUME StartSession PROVE ScreenInv'
    <2>1. /\ Show("open_lan_lobby", stack, {front}) /\ background' = background
          /\ front \in {"menu", "open_lan_session"}
      BY <1>4 DEF StartSession
    <2>2. stack = <<>> /\ opened = {front} /\ front \notin Stacked /\ front \notin Gameplay
      BY <2>1 DEF ScreenInv, Structure, StackOK, Bottom, ScreensOpen, Stacked, ToSet, Gameplay
    <2>3. /\ "open_lan_lobby" \in DOMAIN Offers
          /\ "open_lan_lobby" \notin Bottom \cup QuestEnds \cup Returning
      BY ScreenNames DEF Bottom, QuestEnds, Returning
    <2>4. Structure' /\ run' = run
      BY <2>1, <2>2, <2>3, Swaps, OfferFacts
    <2>5. DOMAIN run = {}
      BY <2>2 DEF ScreenInv, Structure
    <2>6. /\ session' = "set" /\ inLobby' = TRUE /\ running' = running
          /\ runtime' \in 0..MaxRuntimes /\ created' \in runtime'..MaxRuntimes
      <3>1. created \in 0..MaxRuntimes /\ created < MaxRuntimes
        BY <1>4, ScreensAssumption DEF StartSession, ScreenInv, SessionOK
      <3>2. created + 1 \in 0..MaxRuntimes /\ created + 1 \in (created + 1)..MaxRuntimes
        BY <3>1, ScreensAssumption
      <3> QED BY <1>4, <3>2 DEF StartSession, RelicsKept, relicVars
    <2>7. SessionOK'
      BY <1>0, <2>6 DEF SessionOK
    <2>8. TermsKept'
      BY <2>4, <2>5 DEF TermsKept
    <2> QED BY <2>4, <2>7, <2>8 DEF ScreenInv
  <1>5. ASSUME SessionDenied PROVE ScreenInv'
    <2>1. /\ "open_play_game" \in Screen /\ "open_play_game" \notin QuestEnds \cup Returning
          /\ "open_play_game" \notin Gameplay
      BY ScreenNames, OfferFacts DEF QuestEnds, Returning
    <2>2. running' /\ runtime' \in 0..MaxRuntimes /\ UNCHANGED netVars
      BY <1>0, <1>5 DEF SessionDenied, RelicsKept, relicVars, netVars, ScreenInv, SessionOK
    <2> QED BY <1>0, <1>5, <2>1, <2>2, ClearsTerms DEF SessionDenied
  <1>6. ASSUME NEW s \in Screen, OpenChild(s) PROVE ScreenInv'
    <2>1. front \in Waiting /\ (s \in QuestEnds => front = "start_quest") /\ s \in Children
      BY <1>0, <1>6, OfferedFacts DEF OpenChild
    <2>2. Structure'
      BY <1>6, <2>1, Pushes DEF OpenChild
    <2>3. front' # "open_lan_lobby"
      BY <1>6, <2>1 DEF OpenChild, Children
    <2> QED BY <1>0, <1>6, <2>2, <2>3, KeepsTerms DEF OpenChild, RelicsKept, relicVars
  <1>7. ASSUME NEW s \in Screen, OpenScreen(s) PROVE ScreenInv'
    BY <1>7, OpenScreenKeeps
  <1>8. ASSUME GameOver \/ PlayAgain PROVE ScreenInv'
    <2>1. /\ UNCHANGED <<relicVars, front, stack, background, opened, deaf, netVars>>
          /\ front \in Gameplay
          /\ \E b \in BOOLEAN : run' = [run EXCEPT ![front].over = b]
      BY <1>8 DEF GameOver, PlayAgain, Panelled, Gameplay
    <2>2. PICK b \in BOOLEAN : run' = [run EXCEPT ![front].over = b]
      BY <2>1
    <2>3. front \in DOMAIN run /\ DOMAIN run = opened \cap Gameplay
      BY <2>1 DEF ScreenInv, Structure, ScreensOpen
    <2>4. run' = [run EXCEPT ![front] = [run[front] EXCEPT !.over = b]]
      BY <2>2
    <2>5. /\ run' \in [opened \cap Gameplay -> Run]
          /\ \A g \in DOMAIN run : /\ run'[g].relics = run[g].relics
                                   /\ run'[g].lobby = run[g].lobby
                                   /\ run'[g].runtime = run[g].runtime
      BY <2>3, <2>4 DEF ScreenInv, Structure, Run
    <2>6. Stacked' = Stacked /\ DOMAIN run' = DOMAIN run /\ "back_to_previous" \notin Offered'
      BY <2>1, <2>3, <2>5 DEF Stacked, Offered, RunOffers
    <2>7. RunBehind'
      BY <2>1, <2>6 DEF RunBehind, ScreenInv, Structure
    <2>8. Structure'
      BY <2>1, <2>5, <2>6, <2>7 DEF Structure, ScreenInv, ScreensOpen, StackOK
    <2>9. TermsKept'
      BY <2>1, <2>5, <2>6 DEF TermsKept, ScreenInv, relicVars, activeVars, netVars
    <2>10. SessionOK'
      BY <2>1 DEF SessionOK, ScreenInv, relicVars, netVars
    <2> QED BY <2>8, <2>9, <2>10 DEF ScreenInv
  <1>9. ASSUME ClickRelics PROVE ScreenInv'
    <2>1. UNCHANGED activeVars /\ running' = running /\ UNCHANGED screenVars
      BY <1>9 DEF ClickRelics, Click, PickOwned, PickPlaced, Unequip, PlaceHeld, PutBack, ReturnHeld
    <2> QED BY <2>1, SameScreens DEF ScreenInv, TermsKept, activeVars, screenVars
  <1>10. ASSUME ClickSandbox PROVE ScreenInv'
    <2>1. front = "start_maps" /\ running' = running /\ debugged' /\ UNCHANGED screenVars
      BY <1>10 DEF ClickSandbox, DebugSetActive
    <2>2. DOMAIN run = {"start_maps"}
      BY <2>1, OnlyRun DEF Gameplay, ScreenInv
    <2>3. TermsKept'
      BY <2>1, <2>2 DEF ScreenInv, TermsKept, screenVars
    <2> QED BY <2>1, <2>3, SameScreens DEF ScreenInv
  <1> QED BY <1>1, <1>2, <1>3, <1>4, <1>5, <1>6, <1>7, <1>8, <1>9, <1>10 DEF Navigate

\* A program that is off, or was just stopped, has the menu and no run.
LEMMA MenuStructure ==
    ASSUME front = "menu", stack = <<>>, background = None, opened = {"menu"}, deaf = {},
           run = <<>>
    PROVE  Structure
  <1>1. "menu" \in Screen /\ "menu" \notin Gameplay /\ "back_to_previous" \notin Offers["menu"]
    BY ScreenNames, OfferFacts DEF Returning
  <1>2. Stacked = {}
    BY DEF Stacked, ToSet
  <1>3. DOMAIN run = {} /\ Cardinality(DOMAIN run) <= 1 /\ run \in [{} -> Run]
    BY FS_EmptySet
  <1>4. RunBehind
    BY <1>1, <1>2, <1>3 DEF RunBehind, Offered
  <1>5. StackOK /\ ScreensOpen
    BY <1>2 DEF StackOK, ScreensOpen, QuestEnds
  <1> QED BY <1>1, <1>3, <1>4, <1>5 DEF Structure

LEMMA InitScreenInv == Init => ScreenInv
  <1> SUFFICES ASSUME Init PROVE ScreenInv
    OBVIOUS
  <1>1. RelicTypeOK
    BY InitRelicInv DEF RelicInv
  <1>2. Structure
    BY MenuStructure DEF Init
  <1>3. SessionOK
    <2>1. 0 \in 0..MaxRuntimes
      BY ScreensAssumption
    <2>2. /\ session = "none" /\ inLobby = FALSE /\ runtime = 0 /\ created = 0
          /\ front = "menu"
      BY DEF Init
    <2> QED BY <2>1, <2>2 DEF SessionOK
  <1>4. TermsKept
    BY DEF Init, TermsKept
  <1> QED BY <1>1, <1>2, <1>3, <1>4 DEF ScreenInv

LEMMA NextScreenInv == RelicInv /\ ScreenInv /\ [Next]_vars => ScreenInv'
  <1> SUFFICES ASSUME RelicInv, ScreenInv, [Next]_vars PROVE ScreenInv'
    OBVIOUS
  <1>0. RelicTypeOK'
    BY NextRelicInv DEF RelicInv
  <1> USE <1>0
  <1>1. ASSUME Start PROVE ScreenInv'
    <2>1. /\ ~running /\ running' /\ session' \in {"none", "auto", "set"}
          /\ UNCHANGED <<front, stack, background, opened, deaf, run, inLobby, runtime, created>>
      BY <1>1 DEF Start, StartRelics
    <2>2. front = "menu" /\ ~inLobby
      BY <2>1 DEF ScreenInv, SessionOK
    <2>3. DOMAIN run = {}
      <3>1. stack = <<>>
        BY <2>2 DEF ScreenInv, Structure, StackOK, Bottom
      <3>2. opened = {"menu"} /\ "menu" \notin Gameplay
        BY <2>2, <3>1 DEF ScreenInv, Structure, ScreensOpen, Stacked, ToSet, Gameplay
      <3> QED BY <3>2 DEF ScreenInv, Structure
    <2>4. Structure'
      BY <2>1 DEF ScreenInv, Structure, ScreensOpen, RunBehind, StackOK, Stacked, Offered, RunOffers
    <2>5. TermsKept'
      BY <2>1, <2>3 DEF TermsKept
    <2>6. SessionOK'
      BY <2>1, <2>2 DEF ScreenInv, SessionOK
    <2> QED BY <2>4, <2>5, <2>6 DEF ScreenInv
  <1>2. ASSUME Stop PROVE ScreenInv'
    <2>1. Structure'
      <3>1. "menu" \in Screen /\ "menu" \notin Gameplay /\ "back_to_previous" \notin Offers["menu"]
        BY ScreenNames, OfferFacts DEF Returning
      <3>2. /\ front' = "menu" /\ stack' = <<>> /\ background' = None /\ opened' = {"menu"}
            /\ deaf' = {} /\ run' = <<>>
        BY <1>2 DEF Stop
      <3>3. Stacked' = {}
        BY <3>2 DEF Stacked, ToSet
      <3>4. Cardinality({}) <= 1 /\ DOMAIN run' = {} /\ run' \in [{} -> Run]
        BY <3>2, FS_EmptySet
      <3>5. RunBehind'
        BY <3>1, <3>2, <3>3, <3>4 DEF RunBehind, Offered
      <3>6. StackOK' /\ ScreensOpen'
        BY <3>2, <3>3 DEF StackOK, ScreensOpen, QuestEnds
      <3> QED BY <3>1, <3>2, <3>4, <3>5, <3>6 DEF Structure
    <2>2. TermsKept'
      BY <1>2 DEF Stop, TermsKept
    <2>3. SessionOK'
      <3>1. created \in 0..MaxRuntimes
        BY ScreensAssumption DEF ScreenInv, SessionOK
      <3>2. /\ session' = "none" /\ inLobby' = FALSE /\ runtime' = 0 /\ created' = created
            /\ front' = "menu" /\ 0 \in 0..MaxRuntimes
        BY <1>2, ScreensAssumption DEF Stop
      <3> QED BY <3>1, <3>2 DEF SessionOK
    <2> QED BY <2>1, <2>2, <2>3 DEF ScreenInv
  <1>3. ASSUME SaveRelics PROVE ScreenInv'
    <2>1. UNCHANGED activeVars /\ running' = running /\ UNCHANGED screenVars
      BY <1>3 DEF SaveRelics, Save, Truncate, Write, WriteFails
    <2> QED BY <2>1, SameScreens DEF ScreenInv, TermsKept, activeVars, screenVars
  <1>4. ASSUME Ready, Navigate PROVE ScreenInv'
    BY <1>4, NavigateKeeps
  <1>5. ASSUME UNCHANGED vars PROVE ScreenInv'
    BY <1>5, SameScreens DEF vars, relicVars, activeVars, ScreenInv, TermsKept, screenVars
  <1> QED BY <1>1, <1>2, <1>3, <1>4, <1>5 DEF Next

LEMMA AlwaysScreenInv == Spec => []ScreenInv
  BY InitRelicInv, NextRelicInv, InitScreenInv, NextScreenInv, PTL DEF Spec

\* The screens the sandbox is under, or is.
SandboxScreens == {"start_maps", "open_pause_menu", "open_options", "open_controls"}

\* Over the sandbox there are its pause menu and the options only, and nobody dies
\* in it, so there is no way from it to another run but through the menu, which
\* ends the run of the relics.
SandboxInv ==
    /\ "start_maps" \in DOMAIN run =>
          /\ front \in SandboxScreens
          /\ Stacked \subseteq {"start_maps"}
          /\ ~run["start_maps"].over
    /\ debugged => "start_maps" \in DOMAIN run

\* What can be reached from the sandbox.
LEMMA SandboxOffers ==
    ASSUME ScreenInv, SandboxInv, "start_maps" \in DOMAIN run
    PROVE  /\ Offered \subseteq {"open_pause_menu", "open_options", "open_controls",
                                "back_to_menu", "back_to_previous"}
           /\ front = "start_maps" \/ background # None
  <1>1. CASE front = "start_maps"
    BY <1>1 DEF SandboxInv, Offered, RunOffers, Gameplay
  <1>2. CASE front # "start_maps"
    <2>1. front \in {"open_pause_menu", "open_options", "open_controls"}
      BY <1>2 DEF SandboxInv, SandboxScreens
    <2>2. front \notin Gameplay /\ "start_maps" \in Stacked
      BY <1>2, <2>1 DEF ScreenInv, Structure, ScreensOpen, Gameplay
    <2>3. background # None
      BY <2>2, ScreensAssumption DEF ScreenInv, Structure, RunBehind, Gameplay
    <2>4. Offered = Offers[front]
      BY <2>2 DEF Offered
    <2> QED BY <2>1, <2>3, <2>4 DEF Offers, PauseOffers, OptionsOffers, ControlsOffers
  <1> QED BY <1>1, <1>2

\* A step that closes every screen for s while no relic is from the sandbox.
LEMMA ClearedSandbox ==
    ASSUME ScreenInv, NEW s, Show(s, <<>>, Stacked \cup {front}), debugged' = FALSE
    PROVE  SandboxInv'
  <1>1. front' = s /\ stack' = <<>> /\ run' = [g \in {s} \cap Gameplay |-> NewRun]
    BY DEF Show, ScreenInv, Structure, ScreensOpen
  <1>2. Stacked' = {}
    BY <1>1 DEF Stacked, ToSet
  <1>3. "start_maps" \in DOMAIN run' => s = "start_maps" /\ ~run'["start_maps"].over
    BY <1>1 DEF NewRun
  <1> QED BY <1>1, <1>2, <1>3 DEF SandboxInv, SandboxScreens

\* A step between screens that leaves the run and its relics alone.
LEMMA KeptSandbox ==
    ASSUME SandboxInv, run' = run, UNCHANGED activeVars,
           "start_maps" \in DOMAIN run =>
              front' \in SandboxScreens /\ Stacked' \subseteq {"start_maps"}
    PROVE  SandboxInv'
  BY DEF SandboxInv, activeVars

LEMMA NextSandboxInv == ScreenInv /\ ScreenInv' /\ SandboxInv /\ [Next]_vars => SandboxInv'
  <1> SUFFICES ASSUME ScreenInv, ScreenInv', SandboxInv, [Next]_vars PROVE SandboxInv'
    OBVIOUS
  <1> DEFINE m == "start_maps"
  <1>0. /\ m \notin DOMAIN run => debugged = FALSE
        /\ debugged \in BOOLEAN /\ front \in Screen
    BY DEF SandboxInv, ScreenInv, Structure, RelicTypeOK
  <1>1. ASSUME Start PROVE SandboxInv'
    <2>1. UNCHANGED <<activeVars, front, stack, run>>
      BY <1>1 DEF Start, StartRelics
    <2> QED BY <2>1 DEF SandboxInv, Stacked, activeVars
  <1>2. ASSUME Stop PROVE SandboxInv'
    BY <1>2 DEF Stop, StopRelics, SandboxInv
  <1>3. ASSUME SaveRelics \/ ClickRelics \/ UNCHANGED vars PROVE SandboxInv'
    <2>1. UNCHANGED <<activeVars, screenVars>>
      BY <1>3 DEF SaveRelics, Save, Truncate, Write, WriteFails, ClickRelics, Click, PickOwned,
         PickPlaced, Unequip, PlaceHeld, PutBack, ReturnHeld, vars, relicVars
    <2> QED BY <2>1 DEF SandboxInv, Stacked, activeVars, screenVars
  <1>4. ASSUME BackToMenu PROVE SandboxInv'
    BY <1>4, ClearedSandbox DEF BackToMenu, CloseAll, Freeze
  <1>5. ASSUME BackToPrevious PROVE SandboxInv'
    <2>1. run' = run /\ UNCHANGED activeVars
      BY <1>5 DEF BackToPrevious, RelicsKept, relicVars
    <2>2. ASSUME m \in DOMAIN run PROVE front' = m /\ Stacked' = {}
      <3>1. Stacked \subseteq {m} /\ stack # <<>> /\ front' = Last(stack)
        BY <1>5, <2>2 DEF SandboxInv, BackToPrevious
      <3>2. Last(stack) \in Stacked
        <4>1. Len(stack) \in 1..Len(stack)
          BY <3>1 DEF ScreenInv, Structure
        <4> QED BY <4>1 DEF Last, Stacked, ToSet
      <3>3. front' = m
        BY <3>1, <3>2
      <3> QED BY <3>3 DEF ScreenInv, Structure, RunBehind, Gameplay, Stacked, ToSet
    <2> QED BY <2>1, <2>2, KeptSandbox DEF SandboxScreens
  <1>6. ASSUME OpenPause PROVE SandboxInv'
    <2>1. UNCHANGED activeVars
      BY <1>6 DEF OpenPause, RelicsKept, relicVars
    <2>2. CASE front \in Gameplay
      <3>1. Show("open_pause_menu", Append(stack, front), {})
        BY <1>6, <2>2 DEF OpenPause
      <3>2. front' = "open_pause_menu" /\ stack' = Append(stack, front) /\ run' = run
        <4>1. "open_pause_menu" \notin Gameplay
          BY DEF Gameplay
        <4> QED BY <3>1, <4>1 DEF Show, ScreenInv, Structure
      <3>3. stack = <<>> /\ DOMAIN run = {front}
        BY <2>2, OnlyRun DEF ScreenInv
      <3>4. Stacked' = {front}
        BY <3>2, <3>3 DEF Stacked, ToSet
      <3> QED BY <2>1, <3>2, <3>3, <3>4, KeptSandbox DEF SandboxScreens
    <2>3. CASE front \notin Gameplay /\ background = None
      <3>1. m \notin DOMAIN run
        BY <2>3, SandboxOffers DEF Gameplay
      <3> QED BY <1>0, <1>6, <2>1, <2>3, <3>1, ClearedSandbox
          DEF OpenPause, CloseAll, activeVars
    <2>4. CASE front \notin Gameplay /\ background # None
      <3>1. Show("open_pause_menu", stack, {front})
        BY <1>6, <2>4 DEF OpenPause
      <3>2. front' = "open_pause_menu" /\ Stacked' = Stacked /\ run' = run
        <4>1. "open_pause_menu" \notin Gameplay
          BY DEF Gameplay
        <4> QED BY <2>4, <3>1, <4>1 DEF Show, ScreenInv, Structure, Stacked
      <3> QED BY <2>1, <3>2, KeptSandbox DEF SandboxInv, SandboxScreens
    <2> QED BY <2>2, <2>3, <2>4
  <1>7. ASSUME StartSession \/ SessionDenied PROVE SandboxInv'
    <2>1. UNCHANGED activeVars
      BY <1>7 DEF StartSession, SessionDenied, RelicsKept, relicVars
    <2>2. m \notin DOMAIN run
      BY <1>7, SandboxOffers DEF StartSession, SessionDenied, SandboxInv, SandboxScreens
    <2>3. PICK s : Show(s, <<>>, Stacked \cup {front})
      <3>1. CASE StartSession
        <4>1. stack = <<>>
          BY <3>1 DEF StartSession, ScreenInv, Structure, StackOK, Bottom
        <4>2. Stacked = {}
          BY <4>1 DEF Stacked, ToSet
        <4> QED BY <3>1, <4>1, <4>2 DEF StartSession
      <3>2. CASE SessionDenied
        BY <3>2 DEF SessionDenied
      <3> QED BY <1>7, <3>1, <3>2
    <2> QED BY <1>0, <2>1, <2>2, <2>3, ClearedSandbox DEF activeVars
  <1>8. ASSUME NEW s \in Screen, OpenChild(s) PROVE SandboxInv'
    <2>1. run' = run /\ UNCHANGED activeVars
      BY <1>8 DEF OpenChild, RelicsKept, relicVars
    <2>2. m \notin DOMAIN run
      BY <1>8, SandboxOffers DEF OpenChild, Children
    <2> QED BY <2>1, <2>2, KeptSandbox
  <1>9. ASSUME NEW s \in Screen, OpenScreen(s) PROVE SandboxInv'
    <2>0. s \in Offered /\ s \in Plain
      BY <1>9 DEF OpenScreen
    <2>1. CASE m \in DOMAIN run
      <3>1. s \in {"open_options", "open_controls"}
        BY <2>0, <2>1, SandboxOffers DEF Plain, Screen, Offers, Gameplay
      <3>2. front \notin Gameplay /\ front # "open_relic_inventory"
        BY <1>0, <2>0, <2>1, OfferedFacts DEF SandboxInv, SandboxScreens
      <3>3. Show(s, stack, {front}) /\ UNCHANGED activeVars
        BY <1>9, <3>1, <3>2 DEF OpenScreen, Replace, Clearing, Gameplay, RelicsKept, relicVars
      <3>4. s \notin Gameplay
        BY <3>1 DEF Gameplay
      <3>5. front' \in SandboxScreens /\ Stacked' = Stacked /\ run' = run
        BY <3>1, <3>2, <3>3, <3>4 DEF Show, ScreenInv, Structure, Stacked, SandboxScreens
      <3> QED BY <3>3, <3>5, KeptSandbox DEF SandboxInv
    <2>2. CASE m \notin DOMAIN run
      <3>1. debugged' = FALSE
        BY <1>0, <1>9, <2>2
        DEF OpenScreen, BeginRun, OpenInventory, Freeze, RelicsKept, relicVars, activeVars
      <3>2. CASE s \in Clearing
        BY <1>9, <3>1, <3>2, ClearedSandbox DEF OpenScreen, Replace
      <3>3. CASE s \notin Clearing
        <4>1. Show(s, stack, {front}) /\ s \notin Gameplay
          BY <1>9, <3>3 DEF OpenScreen, Replace, Clearing
        <4>2. m \notin DOMAIN run'
          BY <2>2, <4>1 DEF Show, ScreenInv, Structure
        <4> QED BY <3>1, <4>2 DEF SandboxInv
      <3> QED BY <3>2, <3>3
    <2> QED BY <2>1, <2>2
  <1>10. ASSUME GameOver \/ PlayAgain PROVE SandboxInv'
    <2>1. /\ UNCHANGED <<activeVars, front, stack>> /\ front \in Gameplay
          /\ DOMAIN run' = DOMAIN run
      BY <1>10 DEF GameOver, PlayAgain, relicVars, Panelled, Gameplay
    <2>2. DOMAIN run = {front}
      BY <2>1, OnlyRun DEF ScreenInv
    <2>3. front # m
      BY <1>10, <2>2 DEF GameOver, PlayAgain, Panelled, SandboxInv
    <2> QED BY <2>1, <2>2, <2>3 DEF SandboxInv, activeVars
  <1>11. ASSUME ClickSandbox PROVE SandboxInv'
    <2>1. front = m /\ UNCHANGED <<front, stack, run>>
      BY <1>11 DEF ClickSandbox, screenVars
    <2>2. DOMAIN run = {m}
      BY <2>1, OnlyRun DEF ScreenInv, Gameplay
    <2> QED BY <2>1, <2>2 DEF SandboxInv, Stacked
  <1> QED BY <1>1, <1>2, <1>3, <1>4, <1>5, <1>6, <1>7, <1>8, <1>9, <1>10, <1>11
      DEF Next, Navigate

LEMMA AlwaysSandboxInv == Spec => []SandboxInv
  <1>1. Init => SandboxInv
    BY DEF Init, RelicInit, SandboxInv
  <1> QED BY <1>1, NextSandboxInv, AlwaysScreenInv, PTL DEF Spec

\* Every variable of the screens and the relics keeps its type: what a screen
\* offers and what a run was started on are always defined.
THEOREM AlwaysGameTypeOK == Spec => []GameTypeOK
  <1>1. ScreenInv => GameTypeOK
    BY DEF ScreenInv, Structure, SessionOK, GameTypeOK
  <1> QED BY <1>1, AlwaysScreenInv, PTL

\* The open screens are the active one and those that wait under it, and the
\* active one takes input, whatever way the player takes through the menus.
THEOREM AlwaysScreensOpen == Spec => []ScreensOpen
  <1>1. ScreenInv => ScreensOpen
    BY DEF ScreenInv, Structure
  <1> QED BY <1>1, AlwaysScreenInv, PTL

\* The run drawn behind the panels is the one that waits, there is one run at
\* most, and every screen with a way back has one to go back to.
THEOREM AlwaysRunBehind == Spec => []RunBehind
  <1>1. ScreenInv => RunBehind
    BY DEF ScreenInv, Structure
  <1> QED BY <1>1, AlwaysScreenInv, PTL

\* A run keeps the relics it was started with, unless it is the sandbox and its
\* panel set them; those of the panel are in no other run, whatever way leads out of
\* the sandbox; and what the lobby started keeps the session's live runtime.
THEOREM RunAlwaysKeepsTerms == Spec => []RunKeepsTerms
  <1>1. ScreenInv /\ SandboxInv => RunKeepsTerms
    <2> SUFFICES ASSUME ScreenInv, SandboxInv, NEW g \in DOMAIN run
                 PROVE  /\ IF debugged THEN g = "start_maps" ELSE run[g].relics = active
                        /\ run[g].lobby => inLobby /\ runtime # 0 /\ run[g].runtime = runtime
      BY DEF RunKeepsTerms
    <2>1. ASSUME debugged PROVE g = "start_maps"
      <3>1. g \in {front} \cup Stacked /\ g \in Gameplay
        BY DEF ScreenInv, Structure, ScreensOpen
      <3>2. front \in SandboxScreens /\ Stacked \subseteq {"start_maps"}
        BY <2>1 DEF SandboxInv
      <3> QED BY <3>1, <3>2 DEF SandboxScreens, Gameplay
    <2> QED BY <2>1 DEF ScreenInv, TermsKept
  <1> QED BY <1>1, AlwaysScreenInv, AlwaysSandboxInv, PTL
=============================================================================
