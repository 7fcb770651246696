# Verification of crimsonland

The repository is a rewrite of the game Crimsonland: a deterministic simulation
at 60 ticks per second, its rules and presentation, replays, and multiplayer for
up to four players. The rules are sequential and computed in floating point.
What is concurrent, what can be lost, reordered or retried, and what has to
agree between programs is the *netplay* in `src/src/crimson/net`: that is the
core of these models. Around it they have what keeps state over long
sequences of a player's actions: the *front end*, with the runs, sessions and
relics it hands from screen to screen, and the *level-ups* of a run, whose
choices are made between ticks, applied within them and replayed. (Paths below are relative to
`src/src/crimson`.)

## The system

Two netcodes share the gameplay code.

*Lockstep* (`net/lockstep_runtime.py`, `net/lockstep_state.py`): a host and up
to three clients over UDP. Nobody simulates a tick before the host has an input
of every player for it.

*Rollback* (`net/rollback_runtime.py`, `net/rollback.py`): peers in a room of a
relay (`net/relay_service.py`). Everybody simulates at once and predicts the
others' inputs; corrections rewind, or have the host send its state anew.

Each program is single-threaded. Once per frame the game loop
(`game/loop_view.py`) calls the runtime's `update()`, which drains the socket,
resends what is not acknowledged and expires timeouts, and then the gameplay
view, which captures inputs (`queue_local_input`), asks for at most one tick
(`pop_tick_frame`), simulates it and, on a lockstep host, broadcasts it. All
concurrency is between programs and with the network between them.

| component | state | operations | what is hard |
|---|---|---|---|
| reliable link, `net/reliable.py` (a second copy in `relay_reliable.py`) | next and highest sequence number, pending packets, reorder buffer | `build_packet`, `ingest_packet`, `poll_resends`, `prime_recv_seq` | loss, duplication, reordering, stale acks, a first packet handled out of band |
| lockstep host state | inputs by tick, next tick to emit, pause | `submit_input_batch`, `pop_ready_frames`, `update_pause_state` | clamped clocks, stale batches, a stall and its end in one update |
| lockstep client state | capture clock, sent inputs, frames by tick | `queue_local_input`, `ingest_tick_frame`, `pop_canonical_frame` | what may be pruned, how far ahead to capture |
| lockstep runtime | peers, commands, phase, seen slots | `update`, `queue_local_input`, `pop_tick_frame`, broadcasts | a client that still loads, commands between pop and broadcast, keepalives and timeouts |
| lockstep lobby, `net/lockstep_lobby.py` | slots, ready flags | hello, ready, leave, start | joins, leaves, drops and starts that cross; three timeouts on two sides |
| rollback controller | known inputs, emitted frames, capture and emission clocks | `queue_local_input`, `ingest_remote_samples`, `rebuild_emitted_from`, `reset_to_tick` | late and repeated corrections, pruned history |
| rollback runtime | frame queue, snapshots, pause, resync, deadline | the same, plus the resync handlers and reconnection | several requests at once, deadlines shared by two purposes |
| resync stream, `net/rollback_resync_v5.py` | chunks received | begin, chunk, commit | mixed and headless streams, checksums, a peer that waits for an answer that never was |
| relay service | peers, rooms, slots, tokens | hello, create, join, ready, forward, prune | reconnects, evictions, tokens that outlive a room |
| screens, `game/loop_view.py` | the active view, the views under it, the run behind them, the network session | a frame's action, resolved against the session | seven kinds of transition over one stack; a run that outlives its screen; a session that outlives its match |
| relics, `meta/relics.py`, `screens/relic_inventory.py` | list, grid, cursor, the run's relics, `relics.json` | pick up, place, drop, start a run, save, load | a file cut short by a kill, a relic that is nowhere while it is carried |
| level-ups, `modes/survival_mode.py`, `perks/selection.py`, `run_mods/selection.py` | pending offers and lists of both kinds, two panels | open, pick, cancel, the prompt, the next round | what is rolled between ticks and applied in the next one |
| tick runner, providers, clock (`sim/`), `replay/` | accumulator, waiting commands, the recording | `advance`, `pull_tick`, `step_tick`, record, play back | frames without a tick, commands applied elsewhere in a playback |
| the rest of the simulation, rules, quests, persistence, presentation, tools | | | sequential; left out (see the end) |

What makes each of them correct: the link is a FIFO; the host's log of ticks is
what every client plays, made of inputs their own players gave, and it always
gets longer; a rollback peer's timeline agrees with everything it knows, and a
peer that pauses to resynchronise plays on afterwards; a slot of a room belongs
to one player across reconnections; nobody whose link works is given up. In the
front end, what is open is what can be seen or returned to, a run keeps the
terms it was started on, and a relic is always in exactly one place. A player
gets what was picked, in pairs of a perk and a modifier, and so does the replay.

## Modules

    FifoStreams    <- ReliableLink    <- ReliableLinkProofs
    TickLog        <- LockstepMatch   <- LockstepMatchProofs, MCLockstepMatch
                      LockstepSession <- LockstepSessionProofs, MCLockstepSession
                      RollbackMatch   <- RollbackMatchProofs, MCRollbackMatch
    SnapshotCopies <- ResyncStream    <- ResyncStreamProofs
                      RelayRoom       <- RelayRoomProofs, MCRelayRoom
    RelicInventory <- GameScreens     <- GameScreensProofs, MCGameScreens
                      LevelUp         <- LevelUpProofs, MCLevelUp

`A <- B`: B implements or extends A.

**FifoStreams** is the abstract specification of a link: two streams, each
delivered in order and exactly once; fair, everything is delivered.

**ReliableLink** models two ends of `net/reliable.py` and the network between
them, from the client's Hello on. `nextSeq`, `recvHighest`, `pending` and
`recvBuffer` are the fields of the class. `BuildReliable` is `build_packet`,
`Ingest` is `ingest_packet` with both of its early outcomes (`IngestAckOnly`)
and its buffered run (`IngestNew`), `PollResends` resends any subset of what is
pending (the timers decide which), `AcceptHello` is the branch of
`_update_host` that creates the peer, answers Welcome and primes the sequence
number, in that order. The history variables `sent` and `delivered` are what
the applications handed over and were handed.

**TickLog** is the abstract specification of a lockstep match: one log, written
by the host a tick at a time, replayed by everyone in order.

**LockstepMatch** models one host and its clients once the match starts. The
reliable channel is the FIFO that ReliableLink implements; input batches are a
set the network may lose, repeat and reorder. `HostReceive` and `HostUpdate`
split `update()` (receiving, then the tail that decides the pause, pops ready
frames and broadcasts), `HostCapture` and `ClientCapture` are
`queue_local_input`, `HostStep` is `pop_tick_frame` with the simulation and
the broadcast that follow it in the same frame, `EnterGameplay` the end of loading,
`IdleHeartbeat` the empty batch a client without new input sends. Bounds:
`MaxTick`, `MaxInFlight`, `MaxCommands`; `Tick` reaches beyond `MaxTick` by the
delay and the leads, so the clamps are exercised and not cut off.

**LockstepSession** models who is in a LAN session, from the lobby to the end of
the match: hellos, slots, ready flags, the start, keepalives, the silence
timeouts of every phase, departures and the host's abort. Time is what it is
about, so a step is not a handler but a beat of 250 ms, the interval of the
keepalives, the idle heartbeats and the lobby broadcasts: in each beat every
program that is not busy loading polls once, in any order, and `Beat` ends it: the
host reads (`HostReadsHello`, `HostReads`), looks at its clocks and sends
(`HostInLobby`, `HostInMatch`, `HostAborts`), and so does a client (`ClientReads`,
`ClientHears`, then `ClientMoves` or `TimesOut`). The patience
constants are the code's timeouts in beats, assumed to be in the code's order, with
loading shorter than the loading timeout. `pend` is a set, because reliable messages
that reach the host do so together. `Duplicate` is the part of the
reliable link that shows at this level: a link that starts over numbers its
messages from one again, and the other side may take them for old ones. The host's
error `missing_sim_status` is left out: the loop that makes a host always gives it
the status (`loop_view.py:387`).

**RollbackMatch** models the peers of a running rollback match: `Capture` is
`queue_local_input` (batch, pruning, emission), `Receive` is the handling of an
`RbInputBatch` with everything it calls (mismatches, rollback, rebuilt queue,
resync requests), `PopFrame` the simulated tick and the snapshot after it,
`HandleRequest`, `HandleBegin`, `HandleCommit` and `ApplyResync` the resync.
`DeadlineExpires` is the timeout check of `update()`; `HandleRefusal` what the
relay answers to a host that asks itself. A stream's chunks are left out: its
begin and commit travel on the same FIFO. What the code finds by a loop over a
queue, the model says by what is kept: `Only` is the entries at some places of a
queue in their order (the frames before a rollback, the snapshots not too old). Bounds:
`MaxTick`, `MaxInFlight`, `MaxRequests`.

**SnapshotCopies** is the abstract specification of a resynchronisation: each
peer's state is a whole snapshot of the host's, never an older one than before.

**ResyncStream** models the streams message by message between a host, the relay
and several guests whose links break and come back: the request, the host's cut
of its newest snapshot into begin, chunks and commit (`HandleRequest`,
`Stream`), the relay's forwarding to whoever is connected, the guest's assembler
(`RecvBegin`, `RecvChunk`, `RecvCommit`), the application of the result in
the gameplay frame, and the waits of both kinds with their deadline. A guest that
reconnects sees the tail of a stream, or a stream it never asked for.
Checksums are modelled by what they tell apart: chunks of different snapshots.

**RelayRoom** models one room of the relay and the runtimes of its players. On
the relay's side `HandleHello`, `HandleCreate`, `HandleJoin`, `HandleReady` and
`Prune` are the handlers of `relay_service.py` with the broadcasts they make; a
runtime takes what it is sent in `RecvWelcome`, `RecvRoomState`,
`RecvRoomStart`, `RecvPeerDisconnect` and `RecvError`, and `Timeout`,
`DeadlineExpires` and `SendReady` are the checks at the end of `update()`. The
environment takes a player offline and back, or changes its address. The clocks
are not modelled but what they measure is: a peer is pruned only when nothing
comes from its address (offline, another address, or a runtime that has
failed), a runtime times out only when the relay has nothing to send it. What a
peer's address and link are worth is one field, `link`: a *live* one reaches
the player; a *stale* one belongs to a link the player has given up, and still
blocks its address (its hellos are duplicates for the old link); a *gone* one is
an address the player no longer has. The reconnect token of a seat is issued once
for the life of the room, so it is the seat. A room code stands for its one room,
build and protocol rejections and the room capacity are left out. Packets of a
given-up link count as lost, though the new link would keep what arrives ahead
of its own sequence. Bounds: `MaxPeers`, `MaxMishaps`.

**RelicInventory** models the relic profile: the list, the grid, the cursor, the
relics of a run, and `relics.json`, which is truncated and then written, by a
program that may be killed in between. Every operation of the inventory screen
is an action with the save it ends in. The relics whose effects a run has
(`active`, the `_ACTIVE_...` variables of the module) have three writers:
`begin_run` freezes what is placed and `end_run` nothing (`Freeze`), and
`debug_set_active_relics` is called by the sandbox's panel with the relics it
shows as on (`DebugSetActive`, `panel`). The history variable `debugged` says
that the last of the three was the latest.

**GameScreens** extends it with the loop's navigation: which screen is active,
which wait under it, which gameplay screen is drawn behind the panels, what run
each open gameplay screen plays, and the network session and lobby. `Navigate` is
what one frame of the loop may do: take an action the active screen offers,
resolve it against the session (`ResolveLan`, `StartSession`, `SessionDenied`), and
make one of the transitions of `loop_view.py` (`BackToMenu`, `BackToPrevious`,
`OpenPause`, `OpenChild`, and `OpenScreen` for all that replaces the active screen),
each closing, keeping and opening what the code does; or do something on the screen
that stays (`GameOver`, `PlayAgain`, `ClickRelics`, and `ClickSandbox` for the panel
of `modes/maps_mode.py`, of which the tab of relics is modelled: what the others
change are the run's own players and monsters, which go with it). Which entries a
screen offers is in the table `Offers`. Bounds: `MaxDepth`, `MaxRuntimes`.

**LevelUp** models the frames of a survival run as its level-ups see them. A
frame is the key input, `_update_perk_ui` (the deferred next round, picks, Cancel
and the prompt, then the slide of both panels) and, when nothing stands in the
way, as many ticks as the clock has time for; the first of them takes the
commands that wait. There is one action per thing a player can do in a frame:
`FrameIdle`, `FramePick`, `FrameCancel`, `FrameEscape`, `FramePrompt`, each with the
whole frame behind it (`Settle`, `Simulate`). `Stepped` is the live tick, `Replayed`
the same tick in a playback, which applies the recorded commands before it; `replay`
is the state of a playback of what has been recorded so far. The commands of a tick
and the ticks of a frame follow each other in recursive functions (`AllApplied`,
`AllStepped`, `AllReplayed`). A list of choices is
the number of its roll: rolling later, or once more, is another list. Time is in
units of which a tick takes `TickLength`. Bounds: `MaxLevelUps`, `MaxQueue`.

## Runs

| run | what it asks | instance |
|---|---|---|
| `reliable_link` | types, in-order delivery, nothing forgotten, refinement of FifoStreams | 2 payloads, 3 messages a direction, 2 packets in flight |
| `reliable_link_live` | delivery and acknowledgement under fairness | 3 messages a direction, 1 packet in flight |
| `lockstep_match` | authentic inputs, repairable losses, bounded clocks, agreed pauses, commands exactly once, refinement of TickLog | 2 players, delay 1, 3 ticks, 1 command, 2 batches |
| `lockstep_live` | every tick is played by everyone | 2 players, delay 1, 3 ticks, 1 batch |
| `lockstep_session` | nobody who is there is given up, only a whole lobby starts | 2 clients, lobbies of 2 and 3, timeouts of 2, 4 and 5 beats, 2 beats of loading, 1 broken link |
| `rollback_match` | authentic timelines, contiguous queue, corrections applied, paused peers answered | 2 players, delay 1, ticks 0 to 4, 2 batches, 2 requests |
| `rollback_resume` | *violated*: a resynchronised peer plays on | the same |
| `resync_stream` | whole snapshots of the host only and never an older one, every wait has its end on the way | 2 guests, 2 chunks |
| `relay_room` | types, agreeing tables, the start reaches every seat, a wait ends with the return, a seat is kept | a host and 2 guests for 2 seats, 3 peers, 1 mishap |
| `game_screens` | what is open, what is behind, what a run was started on, where the relics are | 2 relics, 2 cells, 4 screens waiting, 2 network runtimes |
| `level_up` | a playback has the offers and lists of the live run, perks and modifiers are spent in pairs | 2 level-ups and a perk that adds one, ticks of 2, frames of 1 and 4 |
| `level_up_shown` | *violated*: the modifier applied is the one that was shown | 1 level-up, 2 choices, a frame is a tick |

Why the bounds are enough. Three messages a direction are the handshake, one
that is lost and one that overtakes it: the smallest case with a buffered run.
Two packets (batches) in flight can be reordered; each may be received again any
number of times. One packet in flight suffices for liveness, where it is loss
that matters. Three lockstep ticks with a delay of one are one primed tick and two that
wait for inputs, every slot and tick with an input of its own, so that one in a wrong place
shows (that a player may revise an input makes twice the states and no property
tells the two apart; the proofs allow it); the capture leads (1 in the code) are the code's. A
rollback window of 1 tick, a snapshot every 2 ticks and a history of 3 stand
for 8, 4 and 256: what matters is which is smaller, and all are reached
(corrections inside the window, corrections beyond it, a host ahead of the
requester). In `MCRollbackMatch` the host's input differs at every tick, so no
prediction of it is right; it stops one tick before the other player's, which
keeps the run small and lets a peer fall back to a resync that is ahead of it.
The second guest of `relay_room` is refused by a full room, or takes a seat
that was left and meets its owner's token; one mishap is an outage or a new
address, and further departures come from runtimes that fail. With two mishaps
(1.2 million states) the same properties hold; the run keeps to one. The guests
are interchangeable, and symmetry is used for safety properties only.

`lockstep_session` counts its timeouts in beats and makes them short, in the
code's order (keepalive < lobby < link < pause), so a program can miss each
by one beat; two clients and lobbies of two and three players have a lobby that is full, one
with room, and one that a client joins, leaves and joins again. Two guests of
`resync_stream` and two chunks are the smallest stream that can be cut in the
middle and the smallest audience of an answer nobody asked for; two snapshots tell an
older one from a newer, and with one cut a guest sees a tail, a head or nothing.
Four waiting screens in `game_screens` are a game, its pause menu, a panel over that and one
more; a round trip that pushes more screens each time is cut there. In `level_up` a
frame of 1 is shorter than a tick and a frame of 4 has two, the contract is on the
second list so that it is reached by the chain of rounds, and the three offers can
all be spent, half spent and abandoned.

Deadlock checking is off in the matches, which stop at `MaxTick`; `lockstep_live` shows that they stop
nowhere else. It is off for the room and for `resync_stream` as well, where
everyone may play and nothing is left to do. It is on for `reliable_link`,
`lockstep_session`, `game_screens` and `level_up`, which never end.

## Fairness

`update()` and the gameplay frame run 60 times a second, so the local actions
are weakly fair. Resends are timed: a packet that stays pending is sent again
every `RELIABLE_RESEND_MS`. Packets of a running link or match are also sent
for ever (keepalives and heartbeats every 250 ms). The network may lose any of
them, but not all of infinitely many: receiving is strongly fair. Sending is
strongly fair only because the bound on packets in flight, which the code does
not have, can disable it. Nothing else is assumed: no order, no bound on loss.
`LockstepSession` and `ResyncStream` state their waits as invariants (a wait has
its end on the way), and need no fairness.

## What the checks found

Two runs show a disagreement between the code and what the repository says of
it.

* With an input delay, `reset_to_tick` leaves a hole: the tick the peer wants to
  emit next is never captured, and it freezes (`rollback_resume`; the default
  delay is 1, the test of it has 0).
* Infernal Contract and a modifier picked in the same round: the contract marks
  the modifier list for a new roll, and the modifier applied is what then stands
  at the picked place, not what was shown (`level_up_shown`).

The rest was met while modelling. Each module keeps the formula of what one would
expect and does not hold, by name; a run of it shows a state of the model that
the code can be in.

*Lockstep.* The gate that keeps the host from capturing until its clients are in
the game opens on the first `InputBatch` of a slot, even the empty heartbeat of a
client that is still loading (`HostWaitsForGameplay`; `lockstep_runtime.py:903`
and the docstring at :311). In a session, all keepalives share one clock with
resends, so resends to a client whose link comes and goes can silence the host
towards the others (`HealthyStay` with `Flaps = TRUE`, 2.7 million states). What
keeps a client in the lobby alive is the debug log it forwards, of which the comment
at :578 says that it must not affect gameplay. A hello repeated behind a drop from the lobby may get another slot than the
client believes to have; that lobby then never starts. A link that starts over
numbers its messages from one, and the other side may take them for duplicates.

*Rollback.* A rollback of two ticks or more rebuilds frames without the local
player's own input: `queue_local_input` has pruned it, and it is predicted like a
remote one (`OwnInputKept`). For the same reason the "local resend history" of
`netplay-rollback.md:65` never holds anything but the newest input, and a lost
batch is lost for good (`LossRepairable`). A resync arms the
reconnect deadline and nobody clears it: the session ends with
`reconnect_timeout` after a successful resync (`AbortOnlyWhilePaused`).
Corrections older than the window plus two ticks are dropped silently; a host
that falls out of its own window is refused by the relay; after a resync the
ticks between the snapshot and the next tick to emit are skipped; the modes log a
rollback without restoring a snapshot, so rebuilt frames are simulated twice.

*Resynchronisation.* A room state that ends a wait for a player also ends the
wait of a peer for a resync, which plays on with its old state (`WaitsForStream`;
`netplay-rollback.md:85`). A request is not repeated: one that reaches the relay
while the host has no seat, or a host without a snapshot, leaves its peer
waiting. A chunk that does not decompress ends in an exception nobody catches.

*Relay.* The model reaches what the properties of `relay_room` carve out
(`tookOver`): a player whose address changed claims its seat back by token before
the relay prunes its old peer; the prune then announces a departure after the
return, and both wait until the deadline ends the session, though the room is
whole (`PauseEnds` without `~tookOver` is violated). A latecomer may be given
the seat of a started match that is free during an outage; the owner's token then
takes it back, and the latecomer is told nothing. And a player who starts over
before its old peer is pruned is never welcomed: its hellos keep the old peer alive.
Nor does a pause always last until everybody is back: any room state ends it,
also one sent for a late ready or for the return of another player.
`docs/rewrite/netplay-rollback.md` speaks of relay protocol v5, the code of
version 6.

*Screens.* After a match and the way back to the menu, a game started elsewhere
is bound to the runtime of that match (`LocalRunsAreLocal`; the comment at
`loop_view.py:326` and `tests/net/test_lan_ui_flow.py:65` expect otherwise), and the
seed of a LAN match is kept for later games. A run that is started from the high
scores keeps the relics of an earlier one active. The sandbox's panel has a set of its
own of the relics that are on, which outlives the run: after a way back to the menu
the next sandbox shows relics as on that are not active, until a click on any relic
activates the whole set (`PanelShowsActive`; the comment at
`ui/sandbox_debug_panel.py:86` and `tests/ui/test_sandbox_debug_panel.py:66` take the
two for the same). Statistics, credits, the
zookeeper and statistics again open one screen more each time round. The screen
`start_maps` is missing in the list that tears a LAN session down, and nothing
leads to `open_maps`.

*Level-ups.* A frame shorter than a tick (a display above 60 Hz) opens the next
round before the picks of the last are applied: the same lists come up again,
and again after the next pick (`NextRoundAfterPicks`, against the comment at
`survival_mode.py:102` and `tests/modes/test_perk_menu_auto_continue.py:10`). The tick in
which Reflex Boosted is picked is timed before the pick live and after it in a
playback, so it is shorter there (`TicksTakeAsLong`;
`docs/rewrite/parity/delta-time.md:107`). Escape after one pick of a round leaves one offer over;
a modifier left over waits until the next perk, as the prompt looks at perks only.

## Proofs

Eight modules hold proofs. Each is about the specification for every value of its
constants, under the assumptions the module states on them and nothing else (one
theorem of RollbackMatch has two more, one of LockstepSession one), and has
the same shape: an inductive invariant, one lemma per action that it is
preserved, and theorems that read the properties off it.

`ReliableLinkProofs`: `TypeCorrect`, `Delivery`, `NoLoss`, `BufferSound`,
`Handshake`, and `ImplementsFifo` (FifoStreams, safety). None of the five is
inductive alone. In-order delivery rests on what packets in
flight and in the buffer carry, so `IInv` says of every pending, buffered or
travelling packet that it bears the message its sequence number was given to
(`SlotInv`). That nothing is forgotten rests on acks being cumulative and
honest: no packet in flight acknowledges more than its sender has received,
however stale (`NetInv`). Both rest on the counters matching the history
(`StreamInv`), and the host's part on there being no traffic to a client it
does not know yet (`HandshakeInv`). For refinement, `DeliveredIsPrefix` turns the
invariant into the abstract state, and each step is an `Exchange` or a stutter.
`Handshake` needs one more fact by induction, what the first message of a
stream is (`FirstInv`).

`LockstepMatchProofs`: every safety property of the run `lockstep_match`
(`TypeCorrect`, `InputsAreAuthentic`, `CapturesInWindow`, `PausesAgree`,
`InputsRepairable`, `CommandsPlayedOnce`) and `ImplementsTickLog`. The
invariant says where an input may be on its way from a player's hands to the
log: in its sender's table, in a batch that may be arbitrarily old, in
the host's table, in a ready frame or in the log, always under its own tick. That a lost
input can be repaired needs the two ends' clocks tied together: what a client has
pruned was in a frame it has played, so the host has it. Refinement rests on the
frames of a client's stream being the log's next ones, in order.

`LockstepSessionProofs`: `AlwaysTypeOK`, `MatchAlwaysWhole` and `HealthyAlwaysStay`, for any number of
addresses, any timeouts in the code's order, any number of links that break, and
whether they come back or not (`Flaps`; the third theorem supposes that in a match they do not). That a match has one player for each seat is
not inductive: who starts was told so when the lobby was complete, in
a message that may be read much later, and readiness is a flag a peer sets by a message about
a seat it may have lost since. `SessionInv` adds who may have been told (`StartsTold`),
that a client's Ready names the seat it believes to have (`PendOwn`), and that a peer
that counts as ready believes what the host does (`ReadyOwn`), which is what the
check in `process_ready` gives.
That nobody with a working link is given up (`HealthyStay`) is a claim about timing, and rests
on what each kind of message is sent for. `HealthInv` bounds both silences in every phase: who is not
loading speaks in each beat and is read in the next (`Speaks`, `Chats`, `Hears`), loading takes less than
the patience of that time, and until its first input the host knows that a client may be loading
(`Unplayed`). One case is not of this form. While the host
resends to one client it withholds the keepalive from all, and silence may grow to any
patience; but that client has said nothing for as long (`Ahead`), so the host ends the match for
it first or at the same poll (`Ending`, `Dead`). For this the patience of both
ends must be the same: a client will know that the match is stalled once it has read what it was
sent (`WillKnow`). If a link may come back in a match, this last argument fails, and the
property with it (TLC, `Flaps = TRUE`).

`RollbackMatchProofs`: `AlwaysTypeOK`, `KnownAlwaysAuthentic`,
`QueueAlwaysContiguous` and `CorrectionsAlwaysApplied`, from one invariant,
`MatchInv`. What a peer knows of another came in a batch that may be any number of
ticks old, so the invariant speaks of all batches (`BatchesAuthentic`), of how far each
player has captured (`CapturedInTurn`) and of what was emitted (`EmittedInTurn`);
then a queue stays contiguous through emission, rebuilding and rewinding
(`ExtendedQueue`, `ShortenedQueue`, `RewoundQueue`). `PausedAlwaysAnswered` holds for a
match of two with `InputDelay < MaxHistory`, as in the code (1 and 256), and is
the one theorem with assumptions of its own. Its invariant `ServiceInv` says that the host
has a snapshot before anybody can ask for one: it
has frames from its first input on, and who hears of the host, asks after that. With three
players this is false, not only unproved: a peer that hears of the third player
first asks a host without a snapshot, whose refusal the relay does not
forward, and waits (TLC: `PlayerCount = 3`, nine states).

`RelayRoomProofs`: every property of the run `relay_room`, for any number of
peers, seats and mishaps. `Tables` has the agreement of the relay's dictionaries
with each other, `AskInv` what a hello on its way may ask for (a token is only
known to whoever was given it), `AnswerInv` what an answer on its way may tell:
without the last two the agreement is not inductive, as both are read long after they
were written.

`ResyncStreamProofs`: `TypeCorrect`, `AssembledWhole` (`WholeSnapshots`),
`ImplementsCopies` (SnapshotCopies) and `PausesHaveEnds`. The code ties a stream together by its request
only, so the invariant says that there is an assignment `ver` of one snapshot to each
request (`Answers(ver)`): every message of a stream carries its request's snapshot,
a request the host has not read has none yet, and along a peer's channel the snapshots
never get older, nor are they older than what the peer has. For the pauses
`PauseInv` adds that whatever begins on the way to a guest ends there, by its commit
or by the notice that a peer has left (`Closed`): a guest may begin to wait for a
stream of which it has seen the head only, when the host has just been cut off.

`GameScreensProofs`: every invariant of the run `game_screens`. For the relics
(`RelicsAlwaysExactlyOnce` and `AlwaysSavedWhenReady`, for any set of relics and any
grid) `RelicInv` adds that the last save under way is what is in memory, that the file
is it once all are written unless a write failed, and that no save has a relic twice
(`FileInv`). For the navigation (`AlwaysGameTypeOK`, `AlwaysScreensOpen`,
`AlwaysRunBehind`, `RunAlwaysKeepsTerms`, whatever path a player takes and however
deep) `ScreenInv` says which screens can wait, and under which: a run
is at the bottom of the stack and nowhere else, a quest's results only right over a quest,
and menus that close everything else have nothing under them (`StackOK`). A run keeps
its terms because no screen that can be reached over it changes them, which is what
`SessionOK` and the table of offers are needed for. The sandbox is the exception, as
its panel sets the relics of the run that is on. That these reach no other run rests on
what can be reached from the sandbox (`SandboxInv`, `SandboxOffers`): nobody dies in it,
so there is no way to the scores and from there to another game, and the only way out ends
the run of the relics.

`LevelUpProofs`: `AlwaysTypeOK`, `ReplayAlwaysAgrees` and `PicksAlwaysInPairs`, for
frames and ticks of any length, lists of any size, any number of level-ups. A
playback agrees with the run after every frame although in the middle of one the
run has drawn lists the playback has not: `LevelUpInv` compares the two *with the
waiting commands applied* (`Waiting`), and commands only wait
over lists that stand (`Rolled`, `OnLists`). That perks and modifiers are spent in pairs is a
statement about both panels, the queue and the offers at once (`Together`).

Data structures are reasoned about without induction over operators: `Counting` (a
set of numbers with 0 and every successor is all of them) comes from the smallest number of a set
(`LeastNumber`), and the invariants speak of positions and sets, not
of how a sequence was built. No module has a RECURSIVE operator: what is
recursive in the code (the emission loop, the search for the last known input, the
commands of a tick) is stated by what it finds, or by a recursive function.

Every safety property of every passing run is proved. Only model-checked is liveness
(`FifoFairSpec`, `EventuallyAcked`, `EveryTickPlayed`: fairness and ENABLED are out of
the prover's reach).

## What is left

1. RelayRoom with three seats, where a room state can end a wait too early, and
   with several rooms, where a token can outlive its room.
2. RollbackMatch with the simulated state (which inputs it was made of), for the
   duplicated ticks.
3. LevelUp in a networked match, where the commands wait for a tick of the host.
4. The quest spawn timeline and the tutorial's stages.

## Not modelled

Wire formats and settings are data; sockets and logs pure input and output.
`net/resync.py` and `net/rollback_snapshot.py` are used by tests only. The
simulation (weapons, projectiles, creatures and their spawns, bonuses, the effects
of perks, quests) is floating-point arithmetic: the models treat a tick as a function of its inputs
and commands, which is what the determinism tests of the repository are about.
Presentation, status files, scores and the tables of progression keep no state that several
programs share or that a long path of actions could bring out of step.

By far the most lines are no part of the running game: `match.py`,
`native_link.py`, `cli/match.py`, `dbg` and `debug_views` are tools of the
decompilation this game is a rewrite of (comparing machine code, linking,
differential traces, views for debugging). They transform files in one go; their
share is why the models cover a small part of the repository's lines and the
larger part of what is concurrent, persistent or stateful in the game. `PROJECT.json` lists every component with its reason, and the
hazards of this code with the properties that cover them.
