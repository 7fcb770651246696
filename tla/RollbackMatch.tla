---------------------------- MODULE RollbackMatch ----------------------------
(***************************************************************************)
(* A running rollback match: the RollbackController of every peer          *)
(* (src/crimson/net/rollback.py), the parts of RollbackRuntime that drive  *)
(* it and resynchronise it (rollback_runtime.py), and the calls the        *)
(* gameplay modes make in a frame (modes/base_gameplay_mode.py).           *)
(*                                                                         *)
(* Nobody waits: a peer emits a tick as soon as it knows its *own* input,  *)
(* and predicts the others' (their last known one, else neutral).  When a  *)
(* prediction turns out wrong the frames from there on are rebuilt; when   *)
(* that is too long ago, or no snapshot is old enough, the peer pauses and *)
(* asks the host for its latest snapshot.                                  *)
(*                                                                         *)
(* Peers talk through the relay, which forwards to everyone else in the    *)
(* room.  Input batches ride in unreliable packets (lost, duplicated,      *)
(* reordered); the resync messages on reliable links, here one FIFO per    *)
(* receiver.  Disconnections and reconnects are not part of this module.   *)
(***************************************************************************)
EXTENDS Integers, Sequences, FiniteSets

CONSTANTS
  PlayerCount,     \* player_count, one local player per peer
  InputDelay,      \* input_delay_ticks
  MaxRollback,     \* rollback_max_ticks
  MaxResend,       \* _MAX_RESEND_SAMPLES
  MaxHistory,      \* _MAX_SENT_HISTORY_TICKS
  SnapshotEvery,   \* a snapshot is stored every 4 ticks
  KeepSnapshots,   \* ... and kept for 64
  InputOf(_, _),   \* InputOf(s, t): the inputs the player in slot s may give for tick t
  Neutral,         \* _NEUTRAL_INPUT
  None,            \* no input, frame or snapshot
  MaxTick,         \* bound: last tick an input is captured for
  MaxInFlight,     \* bound: distinct input batches in the network at a time
  MaxRequests      \* bound: resync requests sent

ASSUME RollbackAssumption ==
  /\ PlayerCount \in 1..4 /\ InputDelay \in Nat
  /\ {MaxRollback, MaxResend, MaxHistory, SnapshotEvery} \subseteq Nat \ {0}
  /\ {KeepSnapshots, MaxInFlight, MaxRequests} \subseteq Nat
  /\ MaxTick \in Nat /\ MaxTick >= InputDelay

Slot == 0..(PlayerCount - 1)
Host == 0
Tick == 0..MaxTick
Input == {Neutral} \cup UNION {InputOf(s, t) : s \in Slot, t \in Tick}
Request == 1..MaxRequests

ASSUME RollbackNoneAssumption == None \notin Input /\ None \notin Tick /\ None \notin Request

VARIABLES
  \* the controllers: _capture_tick, _next_emit_tick, _known_by_slot, _emitted_frames
  capture, nextEmit, known, emitted,
  \* the runtimes: _frame_queue, the ticks of _local_snapshot_blobs in the order
  \* they were stored, _remote_seen_slots of the host
  frames, snapshots, seenSlots,
  \* _paused_for_reconnect, _active_resync_request_id, the request of
  \* _resync_assembler, the tick of _pending_resync_snapshot, whether
  \* _reconnect_deadline_ms is set, error
  paused, active, assembling, pendingSnapshot, deadline, error,
  inFrame,       \* a gameplay frame has queued its input, and not run a tick yet
  requests,      \* resync requests sent so far: the source of fresh request ids
  batches, channel,
  captured,      \* history: the input of each slot for each tick
  resynced       \* history: a resync was applied

controller == <<capture, nextEmit, known, emitted>>
resync == <<paused, active, assembling, pendingSnapshot, deadline, error, requests, channel, resynced>>
vars == <<capture, nextEmit, known, emitted, frames, snapshots, seenSlots,
          paused, active, assembling, pendingSnapshot, deadline, error, inFrame, requests,
          batches, channel, captured, resynced>>

MaxOf(S) == CHOOSE m \in S : \A n \in S : n <= m
MinOf(S) == CHOOSE m \in S : \A n \in S : m <= n

\* _init_rollback: the ticks below the delay are neutral for everyone.
Primed == [t \in Tick |-> IF t < InputDelay THEN Neutral ELSE None]

Init ==
  /\ capture = [p \in Slot |-> 0]
  /\ nextEmit = [p \in Slot |-> 0]
  /\ known = [p \in Slot |-> [s \in Slot |-> Primed]]
  /\ emitted = [p \in Slot |-> [t \in Tick |-> None]]
  /\ frames = [p \in Slot |-> << >>]
  /\ snapshots = [p \in Slot |-> << >>]
  /\ seenSlots = {}
  /\ paused = [p \in Slot |-> FALSE]
  /\ active = [p \in Slot |-> None]
  /\ assembling = [p \in Slot |-> None]
  /\ pendingSnapshot = [p \in Slot |-> None]
  /\ deadline = [p \in Slot |-> FALSE]
  /\ error = [p \in Slot |-> ""]
  /\ inFrame = [p \in Slot |-> FALSE]
  /\ requests = 0
  /\ batches = {}
  /\ channel = [p \in Slot |-> << >>]
  /\ captured = [s \in Slot |-> Primed]
  /\ resynced = [p \in Slot |-> FALSE]

-----------------------------------------------------------------------------
(***************************************************************************)
(* The timeline of one peer.  `k' is what it knows, by slot and tick.      *)
(***************************************************************************)

\* _predict_for_tick: hold the last known input, else neutral.
Predict(k, s, t) ==
  LET before == {u \in Tick : u < t /\ k[s][u] # None}
  IN IF before = {} THEN Neutral ELSE k[s][MaxOf(before)]

\* Mutant of FrameAt: nothing is predicted.
FrameUnpredicted(k, t) == [tick |-> t, inputs |-> [s \in Slot |-> k[s][t]]]

\* The frame for tick t, known inputs first.
FrameAt(k, t) ==
  [tick |-> t, inputs |-> [s \in Slot |-> IF k[s][t] # None THEN k[s][t] ELSE Predict(k, s, t)]]

FramesFrom(k, first, next) == [i \in 1..(next - first) |-> FrameAt(k, first + i - 1)]

\* _emit_ready_frames goes up to the first tick whose local input is not known.
EmitsUpTo(p, k, next) ==
  /\ \A t \in nextEmit[p]..(next - 1) : k[p][t] # None
  /\ next \in Tick => k[p][next] = None

\* _emitted_frames when the frames from `first' on are (re)built, and what
\* _prune_emitted leaves of it.
EmittedFrom(p, k, first, next) ==
  [t \in Tick |->
     IF t < next - MaxRollback - 2 THEN None
     ELSE IF t \in first..(next - 1) THEN FrameAt(k, t).inputs ELSE emitted[p][t]]

\* What stays of a queue: its elements at these positions, in their order.
Only(queue, places) ==
  LET kept[i \in 0..Len(queue)] ==
        IF i = 0 THEN << >>
        ELSE IF i \in places THEN Append(kept[i - 1], queue[i]) ELSE kept[i - 1]
  IN kept[Len(queue)]

\* Mutant of Rewound: the frame at the rollback tick stays in the queue.
RewoundKeepsFirst(queue, rebuilt, from) ==
  Only(queue, {i \in DOMAIN queue : queue[i].tick <= from}) \o rebuilt

\* The frame queue after a rollback: the frames before it, and the rebuilt ones.
Rewound(queue, rebuilt, from) ==
  Only(queue, {i \in DOMAIN queue : queue[i].tick < from}) \o rebuilt

\* The next input of p is for this tick, and goes out in a batch with these.
Target(p) == capture[p] + InputDelay

BatchTicks(p, slotMap) ==
  LET oldest == MaxOf({nextEmit[p], Target(p) - MaxHistory + 1})
      eligible == {t \in Tick : t \in oldest..Target(p) /\ slotMap[t] # None}
  IN {t \in eligible : Cardinality({u \in eligible : u > t}) < MaxResend}

\* Mutant of Samples: every sample shares the packed input of the newest one.
SamplesAliased(p, slotMap) == [t \in BatchTicks(p, slotMap) |-> slotMap[Target(p)]]

Samples(p, slotMap) == [t \in BatchTicks(p, slotMap) |-> slotMap[t]]

\* The relay forwards a batch to everyone else; the network has a bounded room.
Forward(p, samples) ==
  /\ batches' = batches \cup {[to |-> q, slot |-> p, samples |-> samples] : q \in Slot \ {p}}
  /\ Cardinality(batches') <= MaxInFlight

\* host_remote_inputs_ready; a paused peer's queue_local_input and
\* pop_tick_frame do nothing, and a peer in error leaves the match.
Playing(p) ==
  /\ error[p] = ""
  /\ ~paused[p]
  /\ p = Host => Slot \ {Host} \subseteq seenSlots

\* queue_local_input, the first half of a gameplay frame
Capture(p, in) ==
  LET slotMap == [known[p][p] EXCEPT ![Target(p)] = in]
      oldest == MaxOf({nextEmit[p], Target(p) - MaxHistory + 1})
      k == [known[p] EXCEPT ![p] = [t \in Tick |->
              IF t \in oldest..Target(p) THEN slotMap[t] ELSE None]]
  IN /\ Playing(p)
     /\ Target(p) \in Tick
     /\ in \in InputOf(p, Target(p))
     /\ Forward(p, Samples(p, slotMap))
     /\ known' = [known EXCEPT ![p] = k]
     /\ capture' = [capture EXCEPT ![p] = @ + 1]
     /\ \E next \in nextEmit[p]..(MaxTick + 1) :
          /\ EmitsUpTo(p, k, next)
          /\ nextEmit' = [nextEmit EXCEPT ![p] = next]
          /\ emitted' = [emitted EXCEPT ![p] = EmittedFrom(p, k, nextEmit[p], next)]
          /\ frames' = [frames EXCEPT ![p] = @ \o FramesFrom(k, nextEmit[p], next)]
     /\ inFrame' = [inFrame EXCEPT ![p] = TRUE]
     /\ captured' = [captured EXCEPT ![p][Target(p)] = in]
     /\ UNCHANGED <<snapshots, seenSlots, resync>>

\* store_local_snapshot, for the ticks it is called for
Stored(stored, tick) ==
  IF tick % SnapshotEvery # 0 THEN stored
  ELSE Append(Only(stored, {i \in DOMAIN stored :
                              stored[i] # tick /\ stored[i] >= tick - KeepSnapshots}), tick)

\* pop_tick_frame: the frame is simulated, and a snapshot stored after it.  It
\* ends the gameplay frame that captured an input, or is one of its own.
PopFrame(p) ==
  /\ Playing(p)
  /\ frames[p] # << >>
  /\ frames' = [frames EXCEPT ![p] = Tail(@)]
  /\ snapshots' = [snapshots EXCEPT ![p] = Stored(@, Head(frames[p]).tick)]
  /\ inFrame' = [inFrame EXCEPT ![p] = FALSE]
  /\ UNCHANGED <<controller, seenSlots, resync, batches, captured>>

\* A gameplay frame that finds no tick to run.
NoFrame(p) ==
  /\ inFrame[p]
  /\ frames[p] = << >>
  /\ inFrame' = [inFrame EXCEPT ![p] = FALSE]
  /\ UNCHANGED <<controller, frames, snapshots, seenSlots, resync, batches, captured>>

-----------------------------------------------------------------------------
(***************************************************************************)
(* Input of the others, rollbacks and resync requests.                     *)
(***************************************************************************)

\* Mutant of Late: the tick emitted last is taken for one to come.
LateButNewest(p, b) ==
  {t \in DOMAIN b.samples :
     /\ known[p][b.slot][t] # b.samples[t]
     /\ t + 1 < nextEmit[p]
     /\ emitted[p][t] # None
     /\ emitted[p][t][b.slot] # b.samples[t]}

\* _note_late_mismatch: the ticks for which batch b contradicts what p emitted.
Late(p, b) ==
  {t \in DOMAIN b.samples :
     /\ known[p][b.slot][t] # b.samples[t]
     /\ emitted[p][t] # None
     /\ emitted[p][t][b.slot] # b.samples[t]}

\* _latest_snapshot_at_or_before finds one: it looks no further than the first
\* stored snapshot that is too young.
HasSnapshot(p, t) == snapshots[p] # << >> /\ snapshots[p][1] <= t

\* _send_resync_request, `count' times in one handler.  The relay takes resync
\* requests to the host, and answers the host's own with a RelayError.
AskForResync(p, count) ==
  /\ requests + count <= MaxRequests
  /\ requests' = requests + count
  /\ IF count = 0 THEN UNCHANGED <<paused, active, channel>>
     ELSE /\ paused' = [paused EXCEPT ![p] = TRUE]
          /\ active' = [active EXCEPT ![p] = requests + count]
          /\ channel' = [channel EXCEPT ![Host] = @ \o [i \in 1..count |->
               IF p = Host THEN [kind |-> "refused"] ELSE [kind |-> "request", id |-> requests + i]]]

\* RbInputBatch.  The emission is of the primed ticks, when no input has been
\* captured yet.  (The runtime drains the controller's frames into its queue at
\* the end of update(); no rollback can come between the two.)
Receive(b) ==
  LET p == b.to
      k == [known[p] EXCEPT ![b.slot] = [t \in Tick |->
              IF t \in DOMAIN b.samples THEN b.samples[t] ELSE known[p][b.slot][t]]]
      late == Late(p, b)
      tooLate == {t \in late : nextEmit[p] - t > MaxRollback}
      from == MinOf(late \ tooLate)
      rollback == late \ tooLate # {} /\ HasSnapshot(p, from - 1)
  IN /\ error[p] = "" /\ ~inFrame[p]
     /\ seenSlots' = IF p = Host THEN seenSlots \cup {b.slot} ELSE seenSlots
     /\ known' = [known EXCEPT ![p] = k]
     /\ \E next \in nextEmit[p]..(MaxTick + 1) :
          LET first == IF rollback THEN from ELSE nextEmit[p]
          IN /\ EmitsUpTo(p, k, next)
             /\ nextEmit' = [nextEmit EXCEPT ![p] = next]
             /\ emitted' = [emitted EXCEPT ![p] = EmittedFrom(p, k, first, next)]
             /\ frames' = [frames EXCEPT ![p] = Rewound(@, FramesFrom(k, first, next), first)]
     /\ AskForResync(p, (IF late \ tooLate # {} /\ ~rollback THEN 1 ELSE 0)
                          + (IF tooLate # {} THEN 1 ELSE 0))
     /\ batches' \in {batches, batches \ {b}}
     /\ UNCHANGED <<capture, snapshots, assembling, pendingSnapshot, deadline, error, inFrame,
                    captured, resynced>>

LoseBatch(b) ==
  /\ batches' = batches \ {b}
  /\ UNCHANGED <<controller, frames, snapshots, seenSlots, resync, inFrame, captured>>

-----------------------------------------------------------------------------
(***************************************************************************)
(* Resynchronisation.                                                      *)
(***************************************************************************)
FirstOf(p) == Head(channel[p])

\* The next message of p's reliable link, taken in update().
Take(p, kind) ==
  /\ error[p] = "" /\ ~inFrame[p]
  /\ channel[p] # << >>
  /\ FirstOf(p).kind = kind

Taken(p) == [channel EXCEPT ![p] = Tail(@)]

\* What the host streams to everyone: its latest snapshot.  Without one it
\* sends a RelayError, which the relay drops.  (Chunks are left out.)
Answer(p, id) ==
  IF snapshots[p] = << >> THEN << >>
  ELSE LET tick == snapshots[p][Len(snapshots[p])]
       IN <<[kind |-> "begin", id |-> id], [kind |-> "commit", id |-> id, tick |-> tick]>>

\* _handle_resync_request
HandleRequest ==
  /\ Take(Host, "request")
  /\ channel' = [p \in Slot |-> IF p = Host THEN Tail(channel[p])
                                ELSE channel[p] \o Answer(Host, FirstOf(Host).id)]
  /\ UNCHANGED <<controller, frames, snapshots, seenSlots, paused, active, assembling,
                 pendingSnapshot, deadline, error, inFrame, requests, batches, captured, resynced>>

\* RelayError: the session is over for this peer.
HandleRefusal(p) ==
  /\ Take(p, "refused")
  /\ channel' = Taken(p)
  /\ error' = [error EXCEPT ![p] = "invalid_resync_sender"]
  /\ UNCHANGED <<controller, frames, snapshots, seenSlots, paused, active, assembling,
                 pendingSnapshot, deadline, inFrame, requests, batches, captured, resynced>>

\* Mutant of HandleBegin: a stream is taken only by a peer that asked for none.
BeginWhenIdle(p) ==
  /\ Take(p, "begin")
  /\ channel' = Taken(p)
  /\ IF active[p] # None
       THEN UNCHANGED <<paused, active, assembling>>
       ELSE /\ assembling' = [assembling EXCEPT ![p] = FirstOf(p).id]
            /\ active' = [active EXCEPT ![p] = FirstOf(p).id]
            /\ paused' = [paused EXCEPT ![p] = TRUE]
  /\ UNCHANGED <<controller, frames, snapshots, seenSlots, pendingSnapshot, deadline, error,
                 inFrame, requests, batches, captured, resynced>>

\* _handle_resync_begin: a peer that waits for another stream ignores this one;
\* one that waits for none takes it.
HandleBegin(p) ==
  /\ Take(p, "begin")
  /\ channel' = Taken(p)
  /\ IF active[p] \notin {None, FirstOf(p).id}
       THEN UNCHANGED <<paused, active, assembling>>
       ELSE /\ assembling' = [assembling EXCEPT ![p] = FirstOf(p).id]
            /\ active' = [active EXCEPT ![p] = FirstOf(p).id]
            /\ paused' = [paused EXCEPT ![p] = TRUE]
  /\ UNCHANGED <<controller, frames, snapshots, seenSlots, pendingSnapshot, deadline, error,
                 inFrame, requests, batches, captured, resynced>>

\* _handle_resync_commit
HandleCommit(p) ==
  /\ Take(p, "commit")
  /\ channel' = Taken(p)
  /\ IF assembling[p] # FirstOf(p).id
       THEN UNCHANGED <<paused, assembling, pendingSnapshot, deadline>>
       ELSE /\ assembling' = [assembling EXCEPT ![p] = None]
            /\ pendingSnapshot' = [pendingSnapshot EXCEPT ![p] = FirstOf(p).tick]
            /\ paused' = [paused EXCEPT ![p] = TRUE]
            /\ deadline' = [deadline EXCEPT ![p] = TRUE]
  /\ UNCHANGED <<controller, frames, snapshots, seenSlots, active, error, inFrame, requests,
                 batches, captured, resynced>>

\* _consume_net_runtime_recovery at the start of a gameplay frame: the mode
\* applies the snapshot, and mark_resync_applied resets to the tick after it.
ApplyResync(p) ==
  LET tick == pendingSnapshot[p] + 1
      Forget(table) == [t \in Tick |-> IF t < tick THEN None ELSE table[t]]
  IN /\ error[p] = "" /\ ~inFrame[p]
     /\ pendingSnapshot[p] # None
     /\ pendingSnapshot' = [pendingSnapshot EXCEPT ![p] = None]
     /\ active' = [active EXCEPT ![p] = None]
     /\ capture' = [capture EXCEPT ![p] = MaxOf({@, tick})]
     /\ nextEmit' = [nextEmit EXCEPT ![p] = MaxOf({@, tick})]
     /\ known' = [known EXCEPT ![p] = [s \in Slot |-> Forget(known[p][s])]]
     /\ emitted' = [emitted EXCEPT ![p] = Forget(emitted[p])]
     /\ frames' = [frames EXCEPT ![p] = << >>]
     /\ paused' = [paused EXCEPT ![p] = FALSE]
     /\ resynced' = [resynced EXCEPT ![p] = TRUE]
     /\ UNCHANGED <<snapshots, seenSlots, assembling, deadline, error, inFrame, requests, batches,
                    channel, captured>>

\* update() after _reconnect_deadline_ms
DeadlineExpires(p) ==
  /\ error[p] = "" /\ ~inFrame[p]
  /\ deadline[p]
  /\ error' = [error EXCEPT ![p] = "reconnect_timeout"]
  /\ UNCHANGED <<controller, frames, snapshots, seenSlots, paused, active, assembling,
                 pendingSnapshot, deadline, inFrame, requests, batches, channel, captured, resynced>>

-----------------------------------------------------------------------------
Next ==
  \/ \E p \in Slot :
       \/ \E in \in Input : Capture(p, in)
       \/ PopFrame(p)
       \/ NoFrame(p)
       \/ HandleRefusal(p)
       \/ HandleBegin(p)
       \/ HandleCommit(p)
       \/ ApplyResync(p)
       \/ DeadlineExpires(p)
  \/ \E b \in batches : Receive(b) \/ LoseBatch(b)
  \/ HandleRequest

Spec == Init /\ [][Next]_vars

-----------------------------------------------------------------------------
(***************************************************************************)
(* Types.                                                                  *)
(***************************************************************************)
Frame == [tick : Tick, inputs : [Slot -> Input]]
Message == [kind : {"refused"}] \cup [kind : {"request", "begin"}, id : Request]
           \cup [kind : {"commit"}, id : Request, tick : Tick]

TypeOK ==
  /\ capture \in [Slot -> Nat]
  /\ nextEmit \in [Slot -> Nat]
  /\ known \in [Slot -> [Slot -> [Tick -> Input \cup {None}]]]
  /\ emitted \in [Slot -> [Tick -> [Slot -> Input] \cup {None}]]
  /\ frames \in [Slot -> Seq(Frame)]
  /\ snapshots \in [Slot -> Seq(Tick)]
  /\ seenSlots \in SUBSET (Slot \ {Host})
  /\ paused \in [Slot -> BOOLEAN]
  /\ active \in [Slot -> Request \cup {None}]
  /\ assembling \in [Slot -> Request \cup {None}]
  /\ pendingSnapshot \in [Slot -> Tick \cup {None}]
  /\ deadline \in [Slot -> BOOLEAN]
  /\ error \in [Slot -> {"", "invalid_resync_sender", "reconnect_timeout"}]
  /\ inFrame \in [Slot -> BOOLEAN]
  /\ requests \in 0..MaxRequests
  /\ captured \in [Slot -> [Tick -> Input \cup {None}]]
  /\ channel \in [Slot -> Seq(Message)]
  /\ resynced \in [Slot -> BOOLEAN]

(***************************************************************************)
(* What holds of the timelines.                                            *)
(***************************************************************************)

\* Whatever is lost, duplicated, reordered or forgotten, an input a peer knows
\* for a slot and a tick is the one that slot's player captured for that tick.
KnownAuthentic ==
  \A p, s \in Slot : \A t \in Tick : known[p][s][t] # None => known[p][s][t] = captured[s][t]

\* The frames a peer has yet to simulate are consecutive and reach the last
\* tick emitted: a rollback leaves neither a hole nor a tick twice in the queue.
QueueContiguous ==
  \A p \in Slot : \A i \in DOMAIN frames[p] :
    frames[p][i].tick = nextEmit[p] - 1 - Len(frames[p]) + i

\* A correction within the window is applied at once, whatever order the
\* batches come in: what a peer last emitted for a tick agrees with all it knows
\* of the others' inputs, until a resync replaces its state.
CorrectionApplied ==
  \A p, s \in Slot : \A t \in Tick :
    (s # p /\ ~paused[p] /\ ~resynced[p] /\ emitted[p][t] # None /\ known[p][s][t] # None)
      => emitted[p][t][s] = known[p][s][t]

\* In a match of two, a joined peer that pauses for a resync is not forgotten: its
\* request, the stream that answers it, or the snapshot of a stream is on its way
\* to it.  (Of three, one may ask before the host has a snapshot, on the input of
\* another joined peer: the relay drops the host's answer, and it stays paused.)
PausedIsAnswered ==
  \A p \in Slot \ {Host} :
    (paused[p] /\ error[Host] = "") =>
      \/ \E i \in DOMAIN channel[Host] : channel[Host][i] = [kind |-> "request", id |-> active[p]]
      \/ \E i \in DOMAIN channel[p] : channel[p][i] = [kind |-> "begin", id |-> active[p]]
      \/ assembling[p] # None
      \/ pendingSnapshot[p] # None

(***************************************************************************)
(* What the documentation and the tests say of it, and the code does not.  *)
(***************************************************************************)

\* Only other players' inputs are predicted: the frames a peer is about to
\* simulate hold its own player's input (test_rollback_core asserts it of the
\* frames queue_local_input emits, and a rebuilt frame is one as well).
OwnInputKept ==
  \A p \in Slot : \A i \in DOMAIN frames[p] :
    frames[p][i].inputs[p] = captured[p][frames[p][i].tick]

\* The input batches are unreliable "with local resend history": an input that
\* a peer lacks and could still correct is in flight or in the next batch.
LossRepairable ==
  \A p \in Slot : \A q \in Slot \ {p} : \A t \in Tick :
    (captured[p][t] # None /\ known[q][p][t] = None /\ t >= nextEmit[q] - MaxRollback) =>
      \/ \E b \in batches : b.to = q /\ b.slot = p /\ t \in DOMAIN b.samples
      \/ t \in BatchTicks(p, known[p][p])

\* After a resync is applied the peer plays on: the tick it has to emit next is
\* one whose input it knows or has yet to capture.
ResyncResumes ==
  \A p \in Slot :
    ~paused[p] => nextEmit[p] > MaxTick \/ known[p][p][nextEmit[p]] # None \/ nextEmit[p] >= Target(p)

\* The reconnect window ends a session only while it is paused for it.
AbortOnlyWhilePaused ==
  \A p \in Slot : error[p] = "reconnect_timeout" => paused[p]
=============================================================================
