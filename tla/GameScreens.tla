----------------------------- MODULE GameScreens ------------------------------
(***************************************************************************)
(* The front end of the game (game/loop_view.py): which screen is active,  *)
(* which screens wait under it, the gameplay screen that is drawn behind   *)
(* the panels, the network runtime a run is bound to, and the relics a run *)
(* was started with.  A screen is named by the action that opens it.  Each *)
(* frame the loop takes the active screen's action, resolves it against    *)
(* the network session and moves between screens.                          *)
(*                                                                         *)
(* A run is what a gameplay screen plays between open() and close(); it    *)
(* keeps playing under the pause menu and the score screens.  Which levels *)
(* and modes are unlocked is left open: every entry a screen can offer is  *)
(* offered.  The demo build is not modelled.                               *)
(***************************************************************************)
EXTENDS RelicInventory, Naturals, SequencesExt

CONSTANTS
    MaxDepth,       \* bound: how many screens may wait
    MaxRuntimes     \* bound: how many network runtimes are made

VARIABLES
    front,      \* the active screen, or "menu"
    stack,      \* the screens under it, the last one first to return
    background, \* pause_background: the gameplay screen drawn behind, or None
    opened,     \* the screens that are open
    deaf,       \* open screens that have slid out and take no more input
    run,        \* each open gameplay screen's run
    session,    \* pending_network_session: "none", "auto" (not started), "set"
    inLobby,    \* network_in_lobby
    runtime,    \* network_runtime: the number of the live one, or 0
    created     \* how many runtimes were made

screenVars ==
    <<front, stack, background, opened, deaf, run, session, inLobby, runtime, created>>
netVars == <<session, inLobby, runtime, created>>
vars == <<relicVars, screenVars>>

Gameplay == {"start_survival", "start_rush", "start_typo", "start_tutorial",
             "start_quest", "start_maps"}

ASSUME ScreensAssumption ==
    /\ None \notin Gameplay
    /\ MaxRuntimes \in Nat

-----------------------------------------------------------------------------
(* What each screen offers.                                                *)

MenuOffers ==
    {"open_play_game", "open_options", "open_statistics", "open_mods", "open_other_games"}
PlayGameOffers ==
    {"open_quests", "start_rush", "open_relic_inventory", "start_maps", "start_typo",
     "start_tutorial", "open_lan_session", "back_to_menu"}
QuestsOffers == {"start_quest", "open_play_game"}
RelicScreenOffers == {"start_survival", "back_to_menu"}
SessionOffers == {"open_lan_lobby", "open_play_game"}
LobbyOffers == {"start_survival", "start_rush", "start_quest", "open_play_game"}
PauseOffers == {"open_options", "back_to_menu", "back_to_previous"}
OptionsOffers == {"open_controls", "open_pause_menu"}
ControlsOffers == {"open_options"}
StatisticsOffers ==
    {"open_high_scores", "open_weapon_database", "open_perk_database", "open_credits",
     "back_to_menu"}
HighScoresOffers == {"open_play_game", "back_to_previous"}
DatabaseOffers == {"back_to_previous"}
CreditsOffers == {"open_alien_zookeeper", "back_to_previous"}
ZookeeperOffers == {"open_statistics"}
PanelOffers == {"back_to_menu"}
QuestResultsOffers == {"start_quest", "end_note", "back_to_menu", "open_high_scores"}
QuestFailedOffers == {"start_quest", "open_quests", "back_to_menu"}
EndNoteOffers == {"start_survival", "start_rush", "start_typo", "back_to_menu"}

Offers == [
    menu |-> MenuOffers,
    open_play_game |-> PlayGameOffers,
    open_quests |-> QuestsOffers,
    open_relic_inventory |-> RelicScreenOffers,
    open_lan_session |-> SessionOffers,
    open_lan_lobby |-> LobbyOffers,
    open_pause_menu |-> PauseOffers,
    open_options |-> OptionsOffers,
    open_controls |-> ControlsOffers,
    open_statistics |-> StatisticsOffers,
    open_high_scores |-> HighScoresOffers,
    open_weapon_database |-> DatabaseOffers,
    open_perk_database |-> DatabaseOffers,
    open_credits |-> CreditsOffers,
    open_alien_zookeeper |-> ZookeeperOffers,
    open_mods |-> PanelOffers,
    open_other_games |-> PanelOffers,
    quest_results |-> QuestResultsOffers,
    quest_failed |-> QuestFailedOffers,
    end_note |-> EndNoteOffers]

\* Mutant of Panelled: who dies in the sandbox sees the game-over panel too.
PanelledAll == {"start_survival", "start_rush", "start_typo", "start_maps"}

\* A run offers the pause menu while it is on.  Survival, rush and Typ'o end
\* with a game-over panel; a quest and the tutorial close themselves.  Nobody
\* dies in the sandbox, start_maps: it ends when it is left.
Panelled == {"start_survival", "start_rush", "start_typo"}
RunOffers(g) ==
    IF run[g].over THEN {"open_high_scores", "back_to_menu"}
    ELSE {"open_pause_menu"}
         \cup (IF g = "start_quest" THEN {"quest_results", "quest_failed"} ELSE {})
         \cup (IF g = "start_tutorial" THEN {"back_to_menu"} ELSE {})
         \cup (IF run[g].runtime # 0 THEN {"back_to_menu"} ELSE {})  \* runtime.error

Offered == IF front \in Gameplay THEN RunOffers(front) ELSE Offers[front]

Screen == DOMAIN Offers \cup Gameplay
Run == [over : BOOLEAN, runtime : 0..MaxRuntimes, lobby : BOOLEAN, relics : SUBSET Relic]

GameTypeOK ==
    /\ RelicTypeOK
    /\ front \in Screen
    /\ stack \in Seq(Screen \ {"menu"})
    /\ background \in Gameplay \cup {None}
    /\ opened \subseteq Screen
    /\ deaf \subseteq opened
    /\ run \in [opened \cap Gameplay -> Run]
    /\ session \in {"none", "auto", "set"}
    /\ inLobby \in BOOLEAN
    /\ runtime \in 0..MaxRuntimes /\ created \in runtime..MaxRuntimes

\* The program is off.  When it starts, the command line may name a session.
Init ==
    /\ RelicInit
    /\ front = "menu" /\ stack = <<>> /\ background = None
    /\ opened = {"menu"} /\ deaf = {}
    /\ run = <<>>
    /\ session = "none" /\ inLobby = FALSE /\ runtime = 0 /\ created = 0

Start ==
    /\ StartRelics
    /\ \E auto \in BOOLEAN : session' = IF auto THEN "auto" ELSE "none"
    /\ UNCHANGED <<front, stack, background, opened, deaf, run, inLobby, runtime, created>>

Stop ==
    /\ StopRelics
    /\ front' = "menu" /\ stack' = <<>> /\ background' = None
    /\ opened' = {"menu"} /\ deaf' = {}
    /\ run' = <<>>
    /\ session' = "none" /\ inLobby' = FALSE /\ runtime' = 0
    /\ UNCHANGED created

-----------------------------------------------------------------------------
(* Moving between screens.                                                 *)

\* _configure_lan_runtime: a run is bound to the runtime if the lobby is on.
\* History: whether the lobby started it (or the quest it retries), and the
\* relics it started with.
NewRun ==
    [over |-> FALSE,
     runtime |-> IF inLobby' /\ session # "none" THEN runtime' ELSE 0,
     lobby |-> \/ front = "open_lan_lobby"
               \/ front \in {"quest_results", "quest_failed"} /\ run["start_quest"].lobby,
     relics |-> active']

\* Mutant of Show: what a closed gameplay screen played is not dropped.
ShowKeepingRuns(s, under, closed) ==
    LET open == (opened \ closed) \cup {s}
    IN  /\ front' = s
        /\ stack' = under
        /\ opened' = open
        /\ deaf' = (deaf \ closed) \ {s}
        /\ run' = [g \in DOMAIN run \cup ({s} \cap Gameplay) |->
                     IF g = s THEN NewRun ELSE run[g]]

\* Show s: the screens in `closed' close, s opens with the stack `under'.
Show(s, under, closed) ==
    LET open == (opened \ closed) \cup {s}
    IN  /\ front' = s
        /\ stack' = under
        /\ opened' = open
        /\ deaf' = (deaf \ closed) \ {s}
        /\ run' = [g \in open \cap Gameplay |-> IF g = s THEN NewRun ELSE run[g]]

Stacked == ToSet(stack)
RelicsKept == UNCHANGED relicVars

\* Mutant of CloseAll: the screens that wait are forgotten, not closed.
CloseFront == background' = None /\ Show("menu", <<>>, {front})

\* back_to_menu, from anywhere, and from a panel without a game behind it.
\* Only the first ends the run of the relics.
CloseAll == /\ background' = None
            /\ Show("menu", <<>>, Stacked \cup {front})

BackToMenu ==
    /\ "back_to_menu" \in Offered
    /\ CloseAll
    /\ IF front = "open_relic_inventory"
       THEN ReturnHeld
       ELSE UNCHANGED <<running, owned, placed, held, disk, saves, stale>>
    /\ Freeze({})
    /\ UNCHANGED netVars

\* Mutant of Reopened: no screen starts anew.
ReopenedNone == {}
Reopened == {"open_statistics"}

\* back_to_previous: the screen under this one is still open; it is not opened
\* again, but Statistics starts its slide anew (reopen_from_child).
BackToPrevious ==
    /\ "back_to_previous" \in Offered
    /\ stack # <<>>
    /\ front' = Last(stack)
    /\ stack' = Front(stack)
    /\ opened' = opened \ {front}
    /\ background' = IF Last(stack) \in Gameplay THEN None ELSE background
    /\ deaf' = deaf \ ({front} \cup ({Last(stack)} \cap Reopened))
    /\ UNCHANGED <<run, netVars>>
    /\ RelicsKept

\* open_pause_menu, from a run and, by the options panel, from under it.
OpenPause ==
    /\ "open_pause_menu" \in Offered
    /\ \/ /\ front \in Gameplay
          /\ background' = front
          /\ Show("open_pause_menu", Append(stack, front), {})
       \/ /\ front \notin Gameplay /\ background = None
          /\ CloseAll
       \/ /\ front \notin Gameplay /\ background # None
          /\ Show("open_pause_menu", stack, {front})
          /\ UNCHANGED background
    /\ UNCHANGED netVars
    /\ RelicsKept

\* A screen that comes back: this one waits under it.  A panel has slid out by
\* then, a gameplay screen and the quest results have not.
Children == {"open_high_scores", "open_weapon_database", "open_perk_database",
             "open_credits", "quest_results", "quest_failed"}

OpenChild(s) ==
    /\ s \in Children \cap Offered
    /\ Len(stack) < MaxDepth
    /\ background' = IF front \in Gameplay THEN front ELSE background
    /\ front' = s
    /\ stack' = Append(stack, front)
    /\ opened' = opened \cup {s}
    /\ deaf' = (deaf \ {s}) \cup ({front} \ (Gameplay \cup {"quest_results"}))
    /\ UNCHANGED <<run, netVars>>
    /\ RelicsKept

\* Mutant of Clearing: the next quest opens over the results of the last.
ClearingNotQuests ==
    (Gameplay \ {"start_quest"}) \cup {"open_play_game", "open_lan_session", "open_quests"}

\* Starting a game closes everything, and so do the ways to choose one.
Clearing == Gameplay \cup {"open_play_game", "open_lan_session", "open_quests"}

Replace(s) ==
    IF s \in Clearing
    THEN background' = None /\ Show(s, <<>>, Stacked \cup {front})
    ELSE Show(s, stack, {front}) /\ UNCHANGED background

\* _resolve_lan_action: a game that is not started in the lobby leaves the
\* network session.  (The sandbox, start_maps, is not in the code's list.)
Leaves(s) == s \in Gameplay \ {"start_maps"}
InSession == inLobby /\ session # "none" /\ runtime # 0

\* Mutant of ResolveLan: also the lobby's own start leaves the session.
ResolveLanAlways(s) ==
    IF Leaves(s)
    THEN inLobby' = FALSE /\ runtime' = 0 /\ UNCHANGED <<session, created>>
    ELSE UNCHANGED netVars

ResolveLan(s) ==
    IF Leaves(s) /\ ~InSession
    THEN inLobby' = FALSE /\ runtime' = 0 /\ UNCHANGED <<session, created>>
    ELSE UNCHANGED netVars

\* The lobby's own way back closes the runtime.
LeaveLobby == inLobby' = FALSE /\ runtime' = 0 /\ UNCHANGED <<session, created>>

\* Any other screen takes this one's place.  The lobby starts a game when its
\* runtime says so; the relic screen's Play freezes the relics first; the relic
\* screen opens with the saved relics.
Plain == Screen \ (Children \cup {"menu", "open_pause_menu", "open_lan_lobby"})

OpenScreen(s) ==
    /\ s \in Plain \cap Offered
    /\ front = "open_lan_lobby" /\ s \in Gameplay => runtime # 0
    /\ IF front = "open_lan_lobby" /\ s = "open_play_game" THEN LeaveLobby ELSE ResolveLan(s)
    /\ CASE front = "open_relic_inventory" -> BeginRun
         [] s = "open_relic_inventory" -> OpenInventory
         [] OTHER -> RelicsKept
    /\ Replace(s)

\* start_*_lan, chosen in the session panel or given on the command line: the
\* old runtime is closed and a new one made.
StartSession ==
    /\ \/ front = "menu" /\ session = "auto"
       \/ front = "open_lan_session"
    /\ created < MaxRuntimes
    /\ session' = "set"
    /\ inLobby' = TRUE
    /\ created' = created + 1
    /\ runtime' = created'
    /\ Show("open_lan_lobby", stack, {front})
    /\ UNCHANGED background
    /\ RelicsKept

\* cv_lanLockstepEnabled 0: the network entry leads back to its own panel.
SessionDenied ==
    /\ "open_lan_session" \in Offered
    /\ background' = None /\ Show("open_play_game", <<>>, Stacked \cup {front})
    /\ UNCHANGED netVars
    /\ RelicsKept

\* The game-over panel appears; "play again" opens the mode anew in place.
GameOver ==
    /\ front \in Panelled /\ ~run[front].over
    /\ run' = [run EXCEPT ![front].over = TRUE]
    /\ UNCHANGED <<relicVars, front, stack, background, opened, deaf, netVars>>

\* Mutant of PlayAgain: the new try takes the relics that are placed now.
PlayAgainFreezes ==
    /\ front \in Gameplay
    /\ front = "start_tutorial" \/ run[front].over
    /\ run' = [run EXCEPT ![front].over = FALSE]
    /\ BeginRun
    /\ UNCHANGED <<front, stack, background, opened, deaf, netVars>>

PlayAgain ==
    /\ front \in Gameplay
    /\ front = "start_tutorial" \/ run[front].over
    /\ run' = [run EXCEPT ![front].over = FALSE]
    /\ UNCHANGED <<relicVars, front, stack, background, opened, deaf, netVars>>

ClickRelics == front = "open_relic_inventory" /\ Click /\ UNCHANGED screenVars

\* The sandbox's panel (F4), its tab of relics.
ClickSandbox == front = "start_maps" /\ DebugSetActive /\ UNCHANGED screenVars

SaveRelics == running /\ Save /\ UNCHANGED screenVars

Navigate ==
    \/ BackToMenu \/ BackToPrevious \/ OpenPause \/ StartSession \/ SessionDenied
    \/ \E s \in Screen : OpenChild(s) \/ OpenScreen(s)
    \/ GameOver \/ PlayAgain \/ ClickRelics \/ ClickSandbox

Next == Start \/ Stop \/ SaveRelics \/ (Ready /\ front \notin deaf /\ Navigate)

Spec == Init /\ [][Next]_vars

-----------------------------------------------------------------------------

\* Every view asserts that it was opened before it is used, and holds textures
\* until it is closed: the open screens are the active one and those that wait
\* under it, no other.  And the active one reacts: a panel that comes back after
\* a child had taken its place does not stay slid out.
ScreensOpen ==
    /\ opened = {front} \cup Stacked
    /\ front \notin deaf

\* Behind the panels is drawn the one run there is, and the pause menu always
\* has a run to return to: a return never lands in the main menu.
RunBehind ==
    /\ background # None => background \in Stacked
    /\ front \in Gameplay => background = None /\ stack = <<>>
    /\ front \notin Gameplay /\ Gameplay \cap Stacked # {} => background \in Gameplay
    /\ "back_to_previous" \in Offered => stack # <<>>
    /\ Cardinality(DOMAIN run) <= 1

\* A run keeps the terms it was started on, whatever screens come between.  The
\* relics stay frozen: pausing, looking at the scores and playing again change
\* nothing.  Only the sandbox's panel changes them, and relics switched on there,
\* placed or not, are in no run but the sandbox's, whatever way leads out of it.
\* And what the lobby started stays bound to the session's live runtime until it
\* is closed.
RunKeepsTerms ==
    \A g \in DOMAIN run :
        /\ IF debugged THEN g = "start_maps" ELSE run[g].relics = active
        /\ run[g].lobby => inLobby /\ runtime # 0 /\ run[g].runtime = runtime

\* The panel's comment: a relic is "either active for the session" or it is not,
\* and that is "tracked here"; its row says ON.  Not so: the way back to the menu
\* ends the run of the relics and leaves the panel as it was, so in the next
\* sandbox it shows ON what has no effect, until a click activates the whole set.
PanelShowsActive == front = "start_maps" => panel \subseteq active

\* The resolver's comment: starting from the lobby "must keep the LAN runtime
\* alive", any other start resets the session.  Only the lobby's matches (and
\* the quests retried from one) use the network.  Not so: after a match, back
\* in the menu, the session and its runtime are still there for the next game.
LocalRunsAreLocal ==
    \A g \in DOMAIN run : ~run[g].lobby => run[g].runtime = 0
===============================================================================
