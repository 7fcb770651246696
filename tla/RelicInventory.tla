---------------------------- MODULE RelicInventory ----------------------------
(***************************************************************************)
(* The relics of a profile (meta/relics.py) and the screen that places     *)
(* them on a grid (screens/relic_inventory.py).  A relic is in the list    *)
(* `owned', on the grid, or on the cursor (`held').  The list and the grid *)
(* are saved to relics.json, the cursor is not.  Every operation saves     *)
(* before it returns; a save truncates the file and then writes it, its    *)
(* errors are swallowed, and the program may be killed at any point.       *)
(*                                                                         *)
(* Relics exist in test mode only (nothing drops them yet): starting the   *)
(* program tops the inventory up to one of each.  Every relic covers one   *)
(* cell and has a family of its own, so a placement fits when its cell is  *)
(* free.                                                                   *)
(*                                                                         *)
(* The relics whose effects the run has are frozen when a run begins and   *)
(* dropped when it ends.  The sandbox has a panel that sets them directly. *)
(***************************************************************************)
EXTENDS Sequences, FiniteSets, Functions

CONSTANTS
    Relic,      \* the relics in play
    Cell,       \* the cells of the grid
    None,       \* an empty cursor
    Missing,    \* no relics.json
    Torn        \* a relics.json that does not decode

ASSUME RelicAssumption ==
    /\ None \notin Relic
    /\ \A o \in SUBSET Relic, p \in UNION {[s -> Cell] : s \in SUBSET Relic} :
          [owned |-> o, placed |-> p] \notin {Missing, Torn}

VARIABLES
    running,    \* whether the program runs
    owned,      \* relics in the list
    placed,     \* relics on the grid, each with its cell
    held,       \* the relic on the cursor
    active,     \* the relics whose effects the run has
    panel,      \* the relics the sandbox's panel shows as on
    debugged,   \* history: the panel set the active relics
    disk,       \* relics.json
    saves,      \* contents still to be written, in order
    stale       \* history: a save failed, and none has succeeded since

activeVars == <<active, panel, debugged>>
relicVars == <<running, owned, placed, held, activeVars, disk, saves, stale>>

Grids == UNION {[s -> Cell] : s \in SUBSET Relic}
Saved == [owned : SUBSET Relic, placed : Grids]
NoRelics == [owned |-> {}, placed |-> <<>>]

RelicTypeOK ==
    /\ running \in BOOLEAN
    /\ owned \subseteq Relic
    /\ placed \in Grids
    /\ held \in Relic \cup {None}
    /\ active \subseteq Relic /\ panel \subseteq Relic /\ debugged \in BOOLEAN
    /\ disk \in Saved \cup {Missing, Torn}
    /\ saves \in Seq(Saved)
    /\ stale \in BOOLEAN

\* The program does one thing at a time: a save is over before anything else
\* happens.
Ready == running /\ saves = <<>>

Placed == DOMAIN placed
Put(r, c) == [q \in Placed \cup {r} |-> IF q = r THEN c ELSE placed[q]]
Grid(g) == [owned |-> owned, placed |-> g]
Without(r) == Restrict(placed, Placed \ {r})

RelicInit ==
    /\ running = FALSE
    /\ owned = {} /\ placed = <<>> /\ held = None
    /\ active = {} /\ panel = {} /\ debugged = FALSE
    /\ disk = Missing
    /\ saves = <<>>
    /\ stale = FALSE

\* init_relics: read the file, or fall back to an empty profile and save that;
\* then hand out every relic that is neither owned nor placed.
Loaded == IF disk \in {Missing, Torn} THEN NoRelics ELSE disk
\* Mutant of Unseeded: relics on the grid are not counted.
UnseededOwned(s) == Relic \ s.owned
Unseeded(s) == Relic \ (s.owned \cup DOMAIN s.placed)

LoadRelics ==
    LET seeded == [Loaded EXCEPT !.owned = @ \cup Unseeded(Loaded)]
    IN  /\ owned' = seeded.owned
        /\ placed' = seeded.placed
        /\ saves' = (IF disk \in {Missing, Torn} THEN <<NoRelics>> ELSE <<>>)
                    \o (IF Unseeded(Loaded) # {} THEN <<seeded>> ELSE <<>>)

\* begin_run freezes the placed relics, end_run none.  The panel is not told.
Freeze(s) == active' = s /\ debugged' = FALSE /\ UNCHANGED panel

\* RelicInventoryView.open(): reload from the file, and no run is on.
OpenInventory ==
    /\ LoadRelics
    /\ held' = None
    /\ Freeze({})
    /\ UNCHANGED <<running, disk, stale>>

\* Playing, and leaving, first returns the relic on the cursor.
ReturnHeld ==
    /\ held' = None
    /\ owned' = owned \cup ({held} \ {None})
    /\ saves' = IF held = None THEN <<>> ELSE <<[owned |-> owned', placed |-> placed]>>
    /\ UNCHANGED <<running, placed, disk, stale>>

BeginRun == ReturnHeld /\ Freeze(Placed)

\* debug_set_active_relics: a click on a relic in the sandbox's panel adds it to
\* the panel's set or removes it, and the whole set is made active.
DebugSetActive ==
    /\ \E r \in Relic : panel' \in {panel \cup {r}, panel \ {r}}
    /\ active' = panel' /\ debugged' = TRUE
    /\ UNCHANGED <<running, owned, placed, held, disk, saves, stale>>

\* Clicks on the screen: pick a relic from the list, pick one up from the
\* grid, place the one that is held, put it back, and a right click that sends
\* a placed relic back to the list (which saves the grid first, then the list).
PickOwned(r) ==
    /\ held = None /\ r \in owned
    /\ held' = r
    /\ owned' = owned \ {r}
    /\ saves' = <<[owned |-> owned \ {r}, placed |-> placed]>>
    /\ UNCHANGED <<running, placed, activeVars, disk, stale>>

PickPlaced(r) ==
    /\ held = None /\ r \in Placed
    /\ held' = r
    /\ placed' = Without(r)
    /\ saves' = <<Grid(Without(r))>>
    /\ UNCHANGED <<running, owned, activeVars, disk, stale>>

PlaceHeld(c) ==
    /\ held # None
    /\ \A r \in Placed : placed[r] # c
    /\ placed' = Put(held, c)
    /\ held' = None
    /\ saves' = <<Grid(Put(held, c))>>
    /\ UNCHANGED <<running, owned, activeVars, disk, stale>>

PutBack == held # None /\ ReturnHeld /\ UNCHANGED activeVars

\* Mutant of Unequip: only the grid is saved.
UnequipSavedOnce(r) ==
    /\ held = None /\ r \in Placed
    /\ placed' = Without(r)
    /\ owned' = owned \cup {r}
    /\ saves' = <<Grid(Without(r))>>
    /\ UNCHANGED <<running, held, activeVars, disk, stale>>

Unequip(r) ==
    /\ held = None /\ r \in Placed
    /\ placed' = Without(r)
    /\ owned' = owned \cup {r}
    /\ saves' = <<Grid(Without(r)), [owned |-> owned \cup {r}, placed |-> Without(r)]>>
    /\ UNCHANGED <<running, held, activeVars, disk, stale>>

Click ==
    \/ \E r \in Relic : PickOwned(r) \/ PickPlaced(r) \/ Unequip(r)
    \/ \E c \in Cell : PlaceHeld(c)
    \/ PutBack

\* A save, step by step: the file is truncated, then written; or the write
\* fails, before it truncated the file or after.
Truncate ==
    /\ saves # <<>> /\ disk # Torn
    /\ disk' = Torn
    /\ UNCHANGED <<running, owned, placed, held, activeVars, saves, stale>>

Write ==
    /\ saves # <<>> /\ disk = Torn
    /\ disk' = Head(saves)
    /\ saves' = Tail(saves)
    /\ stale' = FALSE
    /\ UNCHANGED <<running, owned, placed, held, activeVars>>

WriteFails ==
    /\ saves # <<>>
    /\ saves' = Tail(saves)
    /\ stale' = TRUE
    /\ UNCHANGED <<running, owned, placed, held, activeVars, disk>>

Save == Truncate \/ Write \/ WriteFails

\* The program is closed or killed, a save left where it is, and started again.
StopRelics ==
    /\ running
    /\ running' = FALSE
    /\ owned' = {} /\ placed' = <<>> /\ held' = None
    /\ active' = {} /\ panel' = {} /\ debugged' = FALSE
    /\ saves' = <<>>
    /\ stale' = FALSE
    /\ UNCHANGED disk

StartRelics ==
    /\ ~running
    /\ running' = TRUE
    /\ LoadRelics
    /\ held' = None
    /\ UNCHANGED <<activeVars, disk, stale>>

-----------------------------------------------------------------------------

\* While the program runs every relic is in exactly one place, whatever was
\* lost of the file: a relic on the grid is not handed out again, and one that
\* was on the cursor when the program died is not gone for ever.  No two relics
\* cover one cell.
RelicsExactlyOnce ==
    running => /\ owned \cap Placed = {}
               /\ held \notin owned \cup Placed
               /\ owned \cup Placed \cup ({held} \ {None}) = Relic
               /\ IsInjective(placed)

\* Nothing the player did is in memory only: unless a save failed, the file
\* says what the list and the grid say.
SavedWhenReady ==
    Ready /\ ~stale => disk = [owned |-> owned, placed |-> placed]
===============================================================================
