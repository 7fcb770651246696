---------------------------- MODULE LockstepMatch ---------------------------
(***************************************************************************)
(* A running LAN lockstep match: HostLockstepState and ClientLockstepState *)
(* (src/crimson/net/lockstep_state.py), the parts of LockstepRuntime that  *)
(* drive them (lockstep_runtime.py), and the two calls per tick the        *)
(* gameplay modes make (modes/base_gameplay_mode.py).                      *)
(*                                                                         *)
(* Slot 0 is the host, the other slots are clients.  Every peer captures   *)
(* its own input for the tick `capture + InputDelay'; clients send theirs  *)
(* in unreliable InputBatches that repeat what is not consumed yet; the    *)
(* host emits a tick once it has one input per slot, simulates it and      *)
(* broadcasts the TickFrame reliably; clients simulate only TickFrames.    *)
(*                                                                         *)
(* The reliable channel is the FIFO that ReliableLink implements.  The     *)
(* InputBatches ride in unreliable packets: lost, duplicated, reordered.   *)
(***************************************************************************)
EXTENDS Integers, Sequences, FiniteSets

CONSTANTS
  PlayerCount,     \* player_count, 1..4
  InputDelay,      \* input_delay_ticks, 0..8
  MaxResend,       \* CLIENT_MAX_RESEND_SAMPLES
  MaxHistory,      \* CLIENT_MAX_SENT_HISTORY_TICKS
  InputOf(_, _),   \* InputOf(s, t): the inputs the player in slot s may give for tick t
  Neutral,         \* the input that primes the first ticks
  None,            \* no input known
  MaxTick,         \* bound: last tick the host emits
  MaxInFlight,     \* bound: distinct InputBatches in the network at a time
  MaxCommands      \* bound: commands the host's player submits

\* One client may be a whole lead ahead of what it consumed, so the window of
\* samples it repeats has to cover the delay and the lead (64 and 256 in the
\* code, where the delay is at most 8).
ASSUME MatchAssumption ==
  /\ PlayerCount \in 1..4
  /\ InputDelay \in Nat /\ MaxTick \in Nat /\ MaxInFlight \in Nat /\ MaxCommands \in Nat
  /\ MaxResend \in Nat /\ MaxResend >= InputDelay + 2
  /\ MaxHistory \in Nat /\ MaxHistory >= InputDelay + 2
  /\ InputDelay <= MaxTick + 1

Slot == 0..(PlayerCount - 1)
Host == 0
Client == Slot \ {Host}

HostCaptureLead == 1     \* HOST_MAX_CAPTURE_LEAD_TICKS
ClientCaptureLead == 1   \* CLIENT_MAX_CAPTURE_LEAD_TICKS

\* The ticks inputs are captured for: the lead and the delay beyond the bound.
Tick == 0..(MaxTick + 2 + InputDelay)

\* Every input there is.
Input == {Neutral} \cup UNION {InputOf(s, t) : s \in Slot, t \in Tick}

ASSUME NoneAssumption == None \notin Input

Command == 1..MaxCommands

\* TickFrames, and those of tick t.
AnyFrame == [tick : 0..MaxTick, inputs : [Slot -> Input], commands : Seq(Command)]
Frame(t) == [tick : {t}, inputs : [Slot -> Input], commands : Seq(Command)]

VARIABLES
  \* the host: _inputs_by_tick, _next_emit_tick, host_ready_ticks,
  \* host_capture_tick, _host_seen_input_slots, _pending_host_commands, _paused
  hostInputs, nextEmit, readyTicks, hostCapture, seenSlots, commands, paused,
  submitted,     \* how many commands the host's player has submitted
  updating,      \* the host is inside update(), between recv_packets and the tail
  stalled,       \* input_stall_timeout_ms has passed since the last progress
  log,           \* history: the TickFrames the host has simulated
  \* each client: `started' and the view it is in, _capture_tick,
  \* _sent_inputs, _canonical_by_tick, _next_consume_tick, client_pause_state
  phase, capture, sentInputs, canonical, nextConsume, clientPause,
  replayed,      \* history: the TickFrames a client has simulated
  \* the network: InputBatches in flight, and the reliable FIFO to each client
  batches, channel

clientVars == <<phase, capture, sentInputs, canonical, nextConsume, clientPause, replayed>>
vars == <<hostInputs, nextEmit, readyTicks, hostCapture, seenSlots, commands, paused,
          submitted, updating, stalled, log,
          phase, capture, sentInputs, canonical, nextConsume, clientPause, replayed,
          batches, channel>>

-----------------------------------------------------------------------------
MatchStart == [kind |-> "start"]
TickFrame(f) == [kind |-> "frame", frame |-> f]
PauseState(p) == [kind |-> "pause", paused |-> p]

NoInputs == [s \in Slot |-> None]
MinOf(i, j) == IF i < j THEN i ELSE j

\* _host_broadcast(message, reliable=True)
Broadcast(m) == [c \in Client |-> Append(channel[c], m)]

\* Mutant of TickComplete: a tick that lacks one input is taken for complete.
TickAlmostComplete(inputs, t) ==
  Cardinality({s \in Slot : inputs[t][s] # None}) >= PlayerCount - 1

\* _tick_complete
TickComplete(inputs, t) == \A s \in Slot : inputs[t][s] # None

\* The state at the end of the host update that starts the match:
\* _host_init_lockstep primes the ticks below the delay, MatchStart is
\* broadcast, update_pause_state runs with _last_progress_ms = 0 (so it finds
\* the match stalled when tick 0 is not primed), and the primed ticks are popped.
Init ==
  /\ hostInputs = [t \in Tick |-> NoInputs]
  /\ nextEmit = InputDelay
  /\ readyTicks = [i \in 1..InputDelay |-> [tick |-> i - 1, inputs |-> [s \in Slot |-> Neutral]]]
  /\ hostCapture = 0
  /\ seenSlots = {}
  /\ commands = << >>
  /\ paused = (InputDelay = 0)
  /\ submitted = 0
  /\ updating = FALSE
  /\ stalled = (InputDelay = 0)
  /\ log = << >>
  /\ phase = [c \in Client |-> "lobby"]
  /\ capture = [c \in Client |-> 0]
  /\ sentInputs = [c \in Client |-> [t \in Tick |-> None]]
  /\ canonical = [c \in Client |-> {}]
  /\ nextConsume = [c \in Client |-> 0]
  /\ clientPause = [c \in Client |-> FALSE]
  /\ replayed = [c \in Client |-> << >>]
  /\ batches = {}
  /\ channel = [c \in Client |->
                  IF InputDelay = 0 THEN <<MatchStart, PauseState(TRUE)>> ELSE <<MatchStart>>]

-----------------------------------------------------------------------------
(***************************************************************************)
(* The host.                                                               *)
(***************************************************************************)

\* submit_input_sample: a tick already emitted is ignored, a later value for
\* the same tick overwrites the earlier one.
SubmitBatch(b) ==
  hostInputs' = [t \in Tick |->
    IF t >= nextEmit /\ t \in DOMAIN b.samples
      THEN [hostInputs[t] EXCEPT ![b.slot] = b.samples[t]] ELSE hostInputs[t]]

\* The receive loop of _update_host takes an InputBatch: even an empty one
\* marks its slot as seen.  A batch leaves the network, or stays in it as its
\* own duplicate.
HostReceive(b) ==
  /\ b \in batches
  /\ updating' = TRUE
  /\ seenSlots' = seenSlots \cup {b.slot}
  /\ SubmitBatch(b)
  /\ batches' \in {batches, batches \ {b}}
  /\ UNCHANGED <<nextEmit, readyTicks, hostCapture, commands, paused, submitted, stalled, log,
                 clientVars, channel>>

\* Mutant of ReadyTicks: the tick is read after _next_emit_tick is incremented.
ReadyTicksOffByOne(next) ==
  [i \in 1..(next - nextEmit) |-> [tick |-> nextEmit + i, inputs |-> hostInputs[nextEmit + i - 1]]]

\* The ticks nextEmit..next - 1, as HostReadyTicks
ReadyTicks(next) ==
  [i \in 1..(next - nextEmit) |-> [tick |-> nextEmit + i - 1, inputs |-> hostInputs[nextEmit + i - 1]]]

\* Mutant of PauseNotice: the clients are not told that the match goes on.
PauseNoticeOneWay(shouldPause) ==
  IF shouldPause /\ ~paused THEN Broadcast(PauseState(TRUE)) ELSE channel

\* A change of the pause is broadcast, in either direction.
PauseNotice(shouldPause) ==
  IF shouldPause = paused THEN channel ELSE Broadcast(PauseState(shouldPause))

\* The rest of _update_host: update_pause_state, then pop_ready_frames until a
\* tick is incomplete.  No batch need have been received.
HostUpdate ==
  LET shouldPause == stalled /\ ~TickComplete(hostInputs, nextEmit)
  IN /\ updating' = FALSE
     /\ paused' = shouldPause
     /\ channel' = PauseNotice(shouldPause)
     /\ \E next \in nextEmit..(MaxTick + 1) :
          /\ \A t \in nextEmit..(next - 1) : TickComplete(hostInputs, t)
          /\ next > MaxTick \/ ~TickComplete(hostInputs, next)
          /\ nextEmit' = next
          /\ readyTicks' = readyTicks \o ReadyTicks(next)
          /\ hostInputs' = [t \in Tick |-> IF t < next THEN NoInputs ELSE hostInputs[t]]
          /\ stalled' = (stalled /\ next = nextEmit)
     /\ UNCHANGED <<hostCapture, seenSlots, commands, submitted, log, clientVars, batches>>

\* host_remote_inputs_ready gates every gameplay frame of the host.
RemoteInputsReady == Client \subseteq seenSlots

\* queue_local_input on the host
HostCapture(in) ==
  LET at == MinOf(hostCapture, nextEmit + HostCaptureLead)
      target == at + InputDelay
  IN /\ ~updating
     /\ RemoteInputsReady
     /\ hostCapture' = at + 1
     /\ hostInputs' = IF target < nextEmit THEN hostInputs
                      ELSE [hostInputs EXCEPT ![target][Host] = in]
     /\ in \in InputOf(Host, target)
     /\ UNCHANGED <<nextEmit, readyTicks, seenSlots, commands, paused, submitted, updating, stalled,
                    log, clientVars, batches, channel>>

\* submit_local_command
SubmitCommand ==
  /\ ~updating
  /\ submitted < MaxCommands
  /\ submitted' = submitted + 1
  /\ commands' = Append(commands, submitted + 1)
  /\ UNCHANGED <<hostInputs, nextEmit, readyTicks, hostCapture, seenSlots, paused, updating, stalled,
                 log, clientVars, batches, channel>>

\* Mutants of HostStep: the commands stay pending after they are popped; the
\* frame that is broadcast lacks the commands that were simulated.
HostStepKeepsCommands ==
  /\ ~updating
  /\ RemoteInputsReady
  /\ readyTicks # << >>
  /\ LET frame == [tick |-> Head(readyTicks).tick, inputs |-> Head(readyTicks).inputs,
                   commands |-> commands]
     IN log' = Append(log, frame) /\ channel' = Broadcast(TickFrame(frame))
  /\ readyTicks' = Tail(readyTicks)
  /\ UNCHANGED <<hostInputs, nextEmit, hostCapture, seenSlots, commands, paused, submitted,
                 updating, stalled, clientVars, batches>>

HostStepBareFrame ==
  /\ ~updating
  /\ RemoteInputsReady
  /\ readyTicks # << >>
  /\ LET frame == [tick |-> Head(readyTicks).tick, inputs |-> Head(readyTicks).inputs,
                   commands |-> commands]
     IN /\ log' = Append(log, frame)
        /\ channel' = Broadcast(TickFrame([frame EXCEPT !.commands = << >>]))
  /\ readyTicks' = Tail(readyTicks)
  /\ commands' = << >>
  /\ UNCHANGED <<hostInputs, nextEmit, hostCapture, seenSlots, paused, submitted, updating, stalled,
                 clientVars, batches>>

\* One gameplay frame with a tick to run: pop_tick_frame takes every pending
\* command along, the tick is simulated, finalize_tick_result broadcasts it.
HostStep ==
  /\ ~updating
  /\ RemoteInputsReady
  /\ readyTicks # << >>
  /\ LET frame == [tick |-> Head(readyTicks).tick, inputs |-> Head(readyTicks).inputs,
                   commands |-> commands]
     IN /\ log' = Append(log, frame)
        /\ channel' = Broadcast(TickFrame(frame))
  /\ readyTicks' = Tail(readyTicks)
  /\ commands' = << >>
  /\ UNCHANGED <<hostInputs, nextEmit, hostCapture, seenSlots, paused, submitted, updating, stalled,
                 clientVars, batches>>

\* input_stall_timeout_ms passes without progress.
StallElapses ==
  /\ ~stalled
  /\ stalled' = TRUE
  /\ UNCHANGED <<hostInputs, nextEmit, readyTicks, hostCapture, seenSlots, commands, paused,
                 submitted, updating, log, clientVars, batches, channel>>

-----------------------------------------------------------------------------
(***************************************************************************)
(* The clients.                                                            *)
(***************************************************************************)
hostVars == <<hostInputs, nextEmit, readyTicks, hostCapture, seenSlots, commands, paused,
              submitted, updating, stalled, log>>

\* _client_send of an InputBatch: the network takes it while it has room.
SendBatch(c, samples) ==
  /\ batches' = batches \cup {[slot |-> c, samples |-> samples]}
  /\ Cardinality(batches') <= MaxInFlight

\* _handle_client_message, on the next message of the reliable channel
ClientReceive(c) ==
  /\ channel[c] # << >>
  /\ channel' = [channel EXCEPT ![c] = Tail(@)]
  /\ LET m == Head(channel[c])
     IN \/ /\ m.kind = "start"
           /\ phase' = [phase EXCEPT ![c] = "loading"]
           /\ UNCHANGED <<canonical, clientPause>>
        \/ /\ m.kind = "frame"
           /\ canonical' = [canonical EXCEPT ![c] = {f \in @ : f.tick # m.frame.tick} \cup {m.frame}]
           /\ UNCHANGED <<phase, clientPause>>
        \/ /\ m.kind = "pause"
           /\ clientPause' = [clientPause EXCEPT ![c] = m.paused]
           /\ UNCHANGED <<phase, canonical>>
  /\ UNCHANGED <<hostVars, capture, sentInputs, nextConsume, replayed, batches>>

\* The lobby view closes and the gameplay view opens, its terrain generated.
EnterGameplay(c) ==
  /\ phase[c] = "loading"
  /\ phase' = [phase EXCEPT ![c] = "playing"]
  /\ UNCHANGED <<hostVars, capture, sentInputs, canonical, nextConsume, clientPause, replayed,
                 batches, channel>>

\* Mutants of BatchTicks: the oldest tick that is not consumed is left out;
\* only the newest sample is sent.
BatchTicksAfterNext(c, sentTicks, target) ==
  {t \in sentTicks : t <= target /\ t > nextConsume[c]}

BatchTicksNewest(c, sentTicks, target) == {target}

\* The ticks whose samples ClientLockstepState.queue_local_input puts in a
\* batch that ends at `target': the newest that are not consumed yet.
BatchTicks(c, sentTicks, target) ==
  LET eligible == {t \in sentTicks : t <= target /\ t >= nextConsume[c] /\ t > target - MaxHistory}
  IN {t \in eligible : Cardinality({u \in eligible : u > t}) < MaxResend}

\* Mutant of CaptureAt: the capture clock runs freely.
CaptureUnclamped(c) == capture[c]

\* The capture clock, kept within the lead of what is consumed.
CaptureAt(c) == MinOf(capture[c], nextConsume[c] + ClientCaptureLead)

\* queue_local_input on a client
ClientCapture(c, in) ==
  LET target == CaptureAt(c) + InputDelay
      inputs == [sentInputs[c] EXCEPT ![target] = in]
      known == {t \in Tick : inputs[t] # None}
  IN /\ phase[c] = "playing"
     /\ SendBatch(c, [t \in BatchTicks(c, known, target) |-> inputs[t]])
     /\ sentInputs' = [sentInputs EXCEPT ![c] = [t \in Tick |->
          IF t < nextConsume[c] \/ t <= target - MaxHistory \/ t > target THEN None ELSE inputs[t]]]
     /\ capture' = [capture EXCEPT ![c] = CaptureAt(c) + 1]
     /\ in \in InputOf(c, target)
     /\ UNCHANGED <<hostVars, phase, canonical, nextConsume, clientPause, replayed, channel>>

\* pop_canonical_frame: the gameplay frame simulates the next tick, if it is here.
ClientStep(c) ==
  /\ phase[c] = "playing"
  /\ \E f \in canonical[c] :
       /\ f.tick = nextConsume[c]
       /\ canonical' = [canonical EXCEPT ![c] = @ \ {f}]
       /\ replayed' = [replayed EXCEPT ![c] = Append(@, f)]
  /\ nextConsume' = [nextConsume EXCEPT ![c] = @ + 1]
  /\ UNCHANGED <<hostVars, phase, capture, sentInputs, clientPause, batches, channel>>

\* _client_send_idle_heartbeat: while the host says it waits for input, every
\* update() of a started client that has nothing else to send (for 250 ms, and
\* no reliable packet pending) sends an empty InputBatch.
IdleHeartbeat(c) ==
  /\ phase[c] # "lobby"
  /\ clientPause[c]
  /\ SendBatch(c, << >>)
  /\ UNCHANGED <<hostVars, clientVars, channel>>

\* UDP loses an InputBatch.
LoseBatch(b) ==
  /\ batches' = batches \ {b}
  /\ UNCHANGED <<hostVars, clientVars, channel>>

-----------------------------------------------------------------------------
Next ==
  \/ HostUpdate
  \/ \E b \in batches : HostReceive(b)
  \/ \E in \in Input : HostCapture(in)
  \/ SubmitCommand
  \/ HostStep
  \/ StallElapses
  \/ \E c \in Client :
       \/ ClientReceive(c)
       \/ EnterGameplay(c)
       \/ \E in \in Input : ClientCapture(c, in)
       \/ ClientStep(c)
       \/ IdleHeartbeat(c)
  \/ \E b \in batches : LoseBatch(b)

Spec == Init /\ [][Next]_vars

(***************************************************************************)
(* Fairness.  Both sides run update() and a gameplay frame about 60 times  *)
(* a second whether or not anything arrives, so whatever such a call would *)
(* do it eventually does; the reliable channel delivers; the network loses *)
(* batches but not all those that repeat a sample the host waits for.      *)
(* Strong fairness for the host's gameplay frame, which runs after every   *)
(* update() and is disabled within one, and for the clients' capture,      *)
(* which the bound on batches in flight may disable and the code never     *)
(* does.                                                                   *)
(***************************************************************************)
ReceiveAwaited(c) ==
  \E b \in batches :
    /\ b.slot = c
    /\ c \notin seenSlots \/ (nextEmit \in DOMAIN b.samples /\ hostInputs[nextEmit][c] = None)
    /\ HostReceive(b)

Fairness ==
  /\ WF_vars(HostUpdate)
  /\ SF_vars(\E in \in Input : HostCapture(in))
  /\ SF_vars(HostStep)
  /\ WF_vars(\E b \in batches : LoseBatch(b))
  /\ \A c \in Client :
       /\ WF_vars(ClientReceive(c))
       /\ WF_vars(EnterGameplay(c))
       /\ WF_vars(ClientStep(c))
       /\ SF_vars(\E in \in Input : ClientCapture(c, in))
       /\ SF_vars(ReceiveAwaited(c))

FairSpec == Spec /\ Fairness

-----------------------------------------------------------------------------
(***************************************************************************)
(* Types.                                                                  *)
(***************************************************************************)
Known == Input \cup {None}

TypeOK ==
  /\ hostInputs \in [Tick -> [Slot -> Known]]
  /\ nextEmit \in 0..(MaxTick + 1)
  /\ readyTicks \in Seq([tick : 0..MaxTick, inputs : [Slot -> Input]])
  /\ hostCapture \in Nat
  /\ seenSlots \in SUBSET Client
  /\ commands \in Seq(Command)
  /\ submitted \in 0..MaxCommands
  /\ <<paused, updating, stalled>> \in BOOLEAN \X BOOLEAN \X BOOLEAN
  /\ log \in Seq(AnyFrame)
  /\ phase \in [Client -> {"lobby", "loading", "playing"}]
  /\ capture \in [Client -> Nat]
  /\ sentInputs \in [Client -> [Tick -> Known]]
  /\ canonical \in [Client -> SUBSET AnyFrame]
  /\ nextConsume \in [Client -> 0..(MaxTick + 1)]
  /\ clientPause \in [Client -> BOOLEAN]
  /\ replayed \in [Client -> Seq(AnyFrame)]
  /\ \A b \in batches : b.slot \in Client /\ DOMAIN b.samples \subseteq Tick

(***************************************************************************)
(* What the match promises.                                                *)
(***************************************************************************)

\* Every tick that is emitted was simulated from inputs each of which its own
\* player captured for that very tick; the only others are the neutral inputs
\* that prime the ticks below the delay (submit_input_batch, pop_ready_frames,
\* against clamped capture clocks and stale, duplicated or reordered batches).
Authentic(tick, inputs) ==
  \A s \in Slot : inputs[s] \in (IF tick < InputDelay THEN {Neutral} ELSE InputOf(s, tick))

InputsAuthentic ==
  /\ \A i \in DOMAIN readyTicks : Authentic(readyTicks[i].tick, readyTicks[i].inputs)
  /\ \A i \in DOMAIN log : Authentic(log[i].tick, log[i].inputs)

\* The host can always be unblocked: an input it still waits for and its
\* player has captured is in the next batch that client sends, however many of
\* the earlier ones were lost (queue_local_input prunes what it has sent).
MissingInputRepairable ==
  \A c \in Client : \A t \in Tick :
    /\ t >= nextEmit
    /\ hostInputs[t][c] = None
    /\ t < capture[c] + InputDelay
    => t \in BatchTicks(c, {u \in Tick : sentInputs[c][u] # None}, CaptureAt(c) + InputDelay)

\* A client never captures an input for a tick it has already simulated, and
\* nobody captures further ahead than the delay and the lead: neither clamp
\* leaves a tick without an input, and the host's input table stays bounded.
CaptureWindow ==
  /\ \A c \in Client : CaptureAt(c) + InputDelay >= nextConsume[c]
  /\ \A t \in Tick : hostInputs[t] # NoInputs => t \in nextEmit..(nextEmit + InputDelay + 1)
  /\ nextEmit <= hostCapture + InputDelay

\* Every command the host's player submitted is simulated in exactly one tick
\* (pop_tick_frame drains them all into the frame it pops).
CommandsOnce ==
  \A k \in 1..submitted :
    Cardinality({i \in DOMAIN log : \E j \in DOMAIN log[i].commands : log[i].commands[j] = k})
      + Cardinality({j \in DOMAIN commands : commands[j] = k}) = 1

\* Clients learn every change of the host's pause: what the last PauseState on
\* its way says, or else what the client believes, is what the host is in.
PauseAgreement ==
  \A c \in Client :
    LET pauses == {i \in DOMAIN channel[c] : channel[c][i].kind = "pause"}
    IN IF pauses = {} THEN clientPause[c] = paused
       ELSE channel[c][CHOOSE i \in pauses : \A j \in pauses : j <= i].paused = paused

\* The match is one log of ticks, replayed by every client.
Log == INSTANCE TickLog WITH Peer <- Client

LogSpec == Log!Spec

\* The match never deadlocks: every tick is eventually simulated by everyone.
EveryTickPlayed == \A c \in Client : <>(Len(replayed[c]) = MaxTick + 1)

\* What the docstring of host_remote_inputs_ready says the gate is for: the
\* host does not start capturing before its joiners have entered gameplay.
HostWaitsForGameplay ==
  RemoteInputsReady => \A c \in Client : phase[c] = "playing"
=============================================================================
