-------------------------------- MODULE LevelUp --------------------------------
(***************************************************************************)
(* Level-ups in a survival run (modes/survival_mode.py; quest_mode.py does *)
(* the same).  Every level-up offers a perk and a run modifier, in two     *)
(* panels over a simulation that stands still while they are there.  What  *)
(* the player does in the panels becomes commands, which wait for the next *)
(* simulated tick, are applied there, and are recorded with it for the     *)
(* replay (sim/input_providers.py, sim/sessions.py, replay/recorder.py).   *)
(* A frame simulates as many ticks as the clock has time for, if any       *)
(* (sim/clock.py).                                                         *)
(*                                                                         *)
(* A list of choices is named by how many of its kind have been rolled: 0  *)
(* is none.  Death, the pause menu, the debug keys and networked matches   *)
(* are left out.                                                           *)
(***************************************************************************)
EXTENDS Integers, Sequences, FiniteSets

CONSTANTS
    Choice,         \* the places of a list, counted from 1
    Contracts,      \* <<kind, list, place>> of Infernal Contract: more offers;
                    \* a modifier that is a wildcard may be one
    Boosts,         \* <<kind, list, place>> of Reflex Boosted: slower time
    ContractOffers, \* the offers that a contract adds
    TickLength,     \* dt_tick of the clock
    FrameLengths,   \* how long a frame may take, in the same unit
    Slide,          \* frames that a panel takes to slide in, or out
    MaxLevelUps,    \* bound: level-ups by experience
    MaxQueue        \* bound: commands that wait while the player acts

Kind == {"perk", "mod"}     \* perk_selection, run_mod_selection

ASSUME LevelUpAssumption ==
    /\ {ContractOffers, Slide, MaxLevelUps, MaxQueue} \subseteq Nat
    /\ TickLength \in Nat \ {0}
    /\ FrameLengths \subseteq Nat
    /\ Choice \subseteq Nat

VARIABLES
    world,          \* the simulation: both selections, Reflex Boosted, the
                    \* length of the last tick
    replay,         \* history: the world of a playback of what is recorded
    menu,           \* _perk_menu, _run_mod_menu
    roundHadPick,   \* _perk_round_had_pick
    reopenPending,  \* _perk_menu_reopen_pending
    paused,         \* _paused: the Tab key
    queue,          \* commands submitted, in order
    accum,          \* time of the clock that no tick has used
    levelUps,       \* level-ups so far
    halved          \* history: Escape has left a round with one pick

vars == <<world, replay, menu, roundHadPick, reopenPending, paused, queue, accum,
          levelUps, halved>>

OpenCommand == [op |-> "open", kind |-> "both", place |-> 0, shown |-> 0]
\* `shown' is history: the list that was on the screen.
PickCommand(k, i, list) == [op |-> "pick", kind |-> k, place |-> i, shown |-> list]

Offer == [pending : Nat, dirty : BOOLEAN, list : Nat]
Simulation == [perk : Offer, mod : Offer, slow : BOOLEAN, took : Nat]
Command == {OpenCommand} \cup [op : {"pick"}, kind : Kind, place : Choice, shown : Nat]

TypeOK ==
    /\ world \in Simulation /\ replay \in Simulation
    /\ menu \in [Kind -> [open : BOOLEAN, cancel : BOOLEAN, slid : 0..Slide]]
    /\ {roundHadPick, reopenPending, paused, halved} \subseteq BOOLEAN
    /\ queue \in Seq(Command)
    /\ accum \in 0..(TickLength - 1)
    /\ levelUps \in 0..MaxLevelUps

NoOffer == [pending |-> 0, dirty |-> TRUE, list |-> 0]
Closed == [open |-> FALSE, cancel |-> TRUE, slid |-> 0]

Init ==
    /\ world = [perk |-> NoOffer, mod |-> NoOffer, slow |-> FALSE, took |-> 0]
    /\ replay = world
    /\ menu = [k \in Kind |-> Closed]
    /\ roundHadPick = FALSE /\ reopenPending = FALSE /\ paused = FALSE /\ halved = FALSE
    /\ queue = <<>> /\ accum = 0 /\ levelUps = 0

-----------------------------------------------------------------------------
(* The simulation.                                                         *)

Prepared(offer) == IF offer.dirty THEN [offer EXCEPT !.dirty = FALSE, !.list = @ + 1] ELSE offer

OpenLists(w) == [w EXCEPT !.perk = Prepared(@), !.mod = Prepared(@)]

Offered(w, n) == [w EXCEPT !.perk.pending = @ + n, !.mod.pending = @ + n,
                           !.perk.dirty = TRUE, !.mod.dirty = TRUE]

\* perk_apply and run_mod_apply of what stands at that place.
Effect(w, what) ==
    LET v == [w EXCEPT !.slow = @ \/ what \in Boosts]
    IN IF what \in Contracts THEN Offered(v, ContractOffers) ELSE v

\* perk_selection_pick, run_mod_selection_pick
Picked(w, k, i) ==
    IF w[k].pending = 0 THEN w
    ELSE LET v == [w EXCEPT ![k] = Prepared(@)]
         IN [Effect(v, <<k, v[k].list, i>>) EXCEPT ![k].pending = @ - 1, ![k].dirty = TRUE]

Applied(w, c) == IF c.op = "open" THEN OpenLists(w) ELSE Picked(w, c.kind, c.place)
AllApplied(w, cs) ==
    LET after[i \in 0..Len(cs)] == IF i = 0 THEN w ELSE Applied(after[i - 1], cs[i])
    IN after[Len(cs)]

\* timing_for_dt: a tick of the boosted player is shorter, by one unit here.
Duration(w) == IF w.slow THEN TickLength - 1 ELSE TickLength

LevelUpIf(w, up) == IF up THEN Offered(w, 1) ELSE w

\* step_tick, live: the tick is timed, then its commands are applied.
Stepped(w, tick) ==
    [LevelUpIf(AllApplied(w, tick.commands), tick.up) EXCEPT !.took = Duration(w)]

\* PlaybackDriver.step_tick: the recorded commands are the prelude of the tick.
Replayed(w, tick) ==
    LET v == AllApplied(w, tick.commands)
    IN [LevelUpIf(v, tick.up) EXCEPT !.took = Duration(v)]

\* The ticks one after the other, of the live run and of its playback.
AllStepped(w, ticks) ==
    LET after[i \in 0..Len(ticks)] == IF i = 0 THEN w ELSE Stepped(after[i - 1], ticks[i])
    IN after[Len(ticks)]
AllReplayed(w, ticks) ==
    LET after[i \in 0..Len(ticks)] == IF i = 0 THEN w ELSE Replayed(after[i - 1], ticks[i])
    IN after[Len(ticks)]

\* pull_tick for the ticks of a frame: the first one takes the commands.
Pulled(ups, cs) ==
    [i \in DOMAIN ups |-> [commands |-> IF i = 1 THEN cs ELSE <<>>, up |-> ups[i]]]

-----------------------------------------------------------------------------
(* A frame: update() and _update_perk_ui().                                *)

Active(m) == \E k \in Kind : m[k].open \/ m[k].slid > 0

\* The round that follows a pick by itself, in the frame after the panels closed.
Reopens == /\ reopenPending /\ ~Active(menu)
           /\ world.perk.pending > 0 /\ ~paused'

\* _open_perk_menu_ui
OpenPanels(m) == [k \in Kind |-> [m[k] EXCEPT !.open = TRUE, !.cancel = TRUE]]

World == IF Reopens THEN OpenLists(world) ELSE world
CommandsOfPicks == queue
Commands == IF Reopens THEN Append(queue, OpenCommand) ELSE queue

\* A panel without a list closes by itself.
Panels ==
    LET m == IF Reopens THEN OpenPanels(menu) ELSE menu
    IN [k \in Kind |-> [m[k] EXCEPT !.open = @ /\ ~World[k].dirty]]

Close(m, ks) == [k \in Kind |-> [m[k] EXCEPT !.open = @ /\ k \notin ks]]

TowardForEver(panel) == [panel EXCEPT !.slid = IF panel.open THEN @ + 1 ELSE IF @ > 0 THEN @ - 1 ELSE @]
Toward(panel) ==
    IF panel.open THEN [panel EXCEPT !.slid = IF @ < Slide THEN @ + 1 ELSE @]
    ELSE [panel EXCEPT !.slid = IF @ > 0 THEN @ - 1 ELSE @]

\* tick_timeline: the modifiers slide in after the perks and out before them.
Slid(m) ==
    [k \in Kind |->
        IF \/ k = "mod" /\ m[k].open /\ m.perk.slid < Slide
           \/ k = "perk" /\ ~m[k].open /\ m.mod.slid > 0
        THEN m[k] ELSE Toward(m[k])]

\* No time passes for the simulation; _reset_gameplay_frame_clock.
Still(q, w) ==
    /\ accum' = 0 /\ queue' = q /\ world' = w
    /\ UNCHANGED <<replay, levelUps>>

\* _run_deterministic_session_ticks
Simulate(q, w) ==
    \E d \in FrameLengths :
        LET n == (accum + d) \div TickLength IN
        /\ accum' = (accum + d) % TickLength
        /\ IF n = 0 THEN queue' = q /\ world' = w /\ UNCHANGED <<replay, levelUps>>
           ELSE \E ups \in [1..n -> BOOLEAN] :
                  LET gained == Cardinality({i \in 1..n : ups[i]}) IN
                  /\ levelUps + gained <= MaxLevelUps
                  /\ levelUps' = levelUps + gained
                  /\ world' = AllStepped(w, Pulled(ups, q))
                  /\ replay' = AllReplayed(replay, Pulled(ups, q))
                  /\ queue' = <<>>

\* The end of a frame, after the player's input.
Settle(m, had, q, w) ==
    LET s == Slid(m) IN
    /\ menu' = s
    /\ roundHadPick' = (had /\ Active(s))
    /\ reopenPending' = ((reopenPending /\ Active(menu)) \/ (had /\ ~Active(s)))
    /\ IF Active(s) \/ paused' THEN Still(q, w) ELSE Simulate(q, w)

Tab == paused' \in BOOLEAN

FrameIdle ==
    /\ Tab
    /\ Settle(Panels, roundHadPick, Commands, World)
    /\ UNCHANGED halved

\* Closing one panel with a pick takes the Cancel button from the other one.
KeepingCancel(m, ks) == m
WithoutCancel(m, ks) == [k \in Kind |-> [m[k] EXCEPT !.cancel = @ /\ ks \subseteq {k}]]

Picks(ks, at, w) ==
    LET pick(k) == IF k \in ks THEN <<PickCommand(k, at[k], w[k].list)>> ELSE <<>>
    IN pick("perk") \o pick("mod")

\* A click picks in one panel, Enter in every panel that is open.
FramePick ==
    /\ Tab
    /\ \E ks \in (SUBSET {k \in Kind : Panels[k].open}) \ {{}} : \E at \in [ks -> Choice] :
          /\ Len(Commands) + Cardinality(ks) <= MaxQueue
          /\ Settle(WithoutCancel(Close(Panels, ks), ks), TRUE,
                    Commands \o Picks(ks, at, World), World)
    /\ UNCHANGED halved

\* Cancel in one panel closes both.
FrameCancel ==
    /\ Tab
    /\ \E k \in Kind : Panels[k].open /\ Panels[k].cancel
    /\ Settle(Close(Panels, Kind), roundHadPick, Commands, World)
    /\ UNCHANGED halved

\* Escape closes both, whatever has been picked.
FrameEscape ==
    /\ UNCHANGED paused
    /\ \E k \in Kind : menu[k].open
    /\ halved' = (halved \/ \E k \in Kind : ~menu[k].open)
    /\ Settle(Close(menu, Kind), roundHadPick, queue, world)

\* The prompt, or its key.
FramePrompt ==
    /\ Tab
    /\ world.perk.pending > 0 /\ ~paused' /\ ~Active(Panels)
    /\ Len(Commands) < MaxQueue
    /\ Settle(OpenPanels(Panels), roundHadPick, Append(Commands, OpenCommand), OpenLists(World))
    /\ UNCHANGED halved

Next == FrameIdle \/ FramePick \/ FrameCancel \/ FrameEscape \/ FramePrompt

Spec == Init /\ [][Next]_vars

-----------------------------------------------------------------------------
(* Properties.                                                             *)

\* A replay is what was played: once the commands that wait are recorded, the
\* playback has the offers and lists of the live run, whenever those were
\* rolled (the UI rolls them between ticks, the playback in the prelude).
ReplayAgrees ==
    LET live == AllApplied(world, queue)  back == AllApplied(replay, queue)
    IN \A k \in Kind : live[k] = back[k]

\* Every perk offer also offers a modifier, and unless Escape leaves a round
\* half done, they are spent together: after each tick as many are pending.
PicksInPairs == queue = <<>> /\ ~halved => world.perk.pending = world.mod.pending

\* What is applied is what the player saw at that place when picking it.
PickedAsShown ==
    \A i \in DOMAIN queue : queue[i].op = "pick" =>
        LET offer == AllApplied(world, SubSeq(queue, 1, i - 1))[queue[i].kind]
        IN offer.pending > 0 /\ ~offer.dirty /\ offer.list = queue[i].shown

\* Expected by the comment of _perk_menu_reopen_pending, and not so when a frame
\* is shorter than a tick: the next round opens after the picks are applied.
NextRoundAfterPicks ==
    \A k \in Kind : menu[k].open =>
        \A i, j \in DOMAIN queue : ~(queue[i].op = "pick" /\ queue[j].op = "open" /\ i < j)

\* Expected of a replay and not so with Boosts: its ticks take the same time.
TicksTakeAsLong == replay.took = world.took
===============================================================================
